--------------------------- MODULE NatMappingProofs ---------------------------
(* Machine-checked proofs about NatMapping: its types, that a taken recovery   *)
(* is final for the published address, and that it is for every relayed peer.  *)
EXTENDS NatMapping, FiniteSetTheorems, TLAPS

-----------------------------------------------------------------------------
(* The inductive invariant.  The types, one part for the variables that change *)
(* together; the peers are finitely many whatever the remote endpoints are.    *)

Lives == [pc : {"idle", "ask", "join", "resetAsk", "resetFollow", "resetPort",
                "startAsk", "startFollow", "startPort", "spawn"},
          op : {"none", "start", "stop"}, follow : BOOLEAN, target : Targets]
Snaps == [starting : BOOLEAN, running : BOOLEAN, follows : BOOLEAN, avail : BOOLEAN,
          target : Targets, pub : Transactions]
Stuns == [resolved : BOOLEAN, server : 1 .. Servers, asked : Transactions, due : BOOLEAN]
Wants == [follow : BOOLEAN, target : Targets]
Requests == [pc : {"idle", "load", "exchange", "flag"}, port : Targets]
Pcs == {"none", "bind", "resolve", "top", "target", "recover", "send", "select",
        "session", "keeper", "exchange", "answer", "relay", "retry", "giveUp", "done"}

LifeTyped == life \in Lives /\ commands \in 0 .. MaxCommands
FlagsTyped ==
    /\ stop \in BOOLEAN /\ follow \in BOOLEAN /\ upd \in BOOLEAN /\ rec \in BOOLEAN
    /\ requested \in Targets
SnapTyped == snap \in Snaps
WorkerTyped == pc \in Pcs /\ want \in Wants /\ cur \in Targets
PeersTyped ==
    /\ DOMAIN peers \subseteq Remotes /\ IsFiniteSet(DOMAIN peers)
    /\ Cardinality(DOMAIN peers) <= MaxRelays
StunTyped == stun \in Stuns
OutsideTyped ==
    /\ mon \in Requests /\ listen \in Targets /\ listens \in 0 .. MaxListens
    /\ route \in 1 .. MaxRoutes /\ told \in 1 .. route /\ seen \in 1 .. told
Typed ==
    LifeTyped /\ FlagsTyped /\ SnapTyped /\ WorkerTyped /\ PeersTyped /\ StunTyped /\ OutsideTyped

\* Between the join and the creation of a thread there is no worker, and what it
\* had on its stack is gone; the snapshot is reset before the flags are set anew.
Joined == {"resetAsk", "resetFollow", "resetPort", "startAsk", "startFollow", "startPort",
           "spawn"}
Starting == {"startAsk", "startFollow", "startPort", "spawn"}
NoWorker ==
    /\ life.pc \in Joined => pc = "none" /\ DOMAIN peers = {} /\ ~stun.resolved
    /\ life.pc \in Starting => snap.pub = None

\* A TCP worker keeps the target it was started with, has no UDP server, and begins
\* a session without a relay or an address of the last one.
TcpPcs == {"session", "keeper", "exchange", "answer", "relay", "retry", "giveUp"}
Sessions ==
    /\ pc \in TcpPcs => cur = want.target /\ ~stun.resolved
    /\ pc \in {"session", "retry", "giveUp"} => DOMAIN peers = {}
    /\ pc = "session" => snap.pub = None

\* The transaction whose answer may be published was sent after the last recovery
\* the worker took: a server selected after it has its first request due.
Answers ==
    /\ stun.resolved /\ ~stun.due => stun.asked.route >= seen
    /\ pc = "select" /\ stun.resolved => ~stun.due
    /\ pc = "answer" => stun.asked.route >= seen

Mapping == Typed /\ NoWorker /\ Sessions /\ Answers /\ FreshObservation /\ RelaysCurrent

-----------------------------------------------------------------------------
(* Types: each part, by the actions that change its variables. *)

\* No transaction is a transaction.
LEMMA NoneTyped == None \in Transactions
  BY MappingBounds DEF None, Transactions

\* The updates of the snapshot keep it a snapshot.
LEMMA SnapsUpdated ==
  /\ NoSnap \in Snaps
  /\ \A s \in Snaps :
        /\ Unpublished(s) \in Snaps
        /\ [s EXCEPT !.running = FALSE, !.starting = FALSE] \in Snaps
        /\ [s EXCEPT !.running = TRUE, !.starting = FALSE] \in Snaps
        /\ [s EXCEPT !.starting = TRUE] \in Snaps
        /\ [s EXCEPT !.running = FALSE, !.starting = FALSE, !.follows = FALSE,
                     !.avail = FALSE] \in Snaps
        /\ \A a, b \in BOOLEAN, t \in Targets :
              [s EXCEPT !.starting = TRUE, !.follows = a, !.avail = b, !.target = t] \in Snaps
        /\ \A p \in Transactions : [s EXCEPT !.pub = p] \in Snaps
        /\ \A p \in Transactions : [s EXCEPT !.running = TRUE, !.starting = FALSE, !.pub = p] \in Snaps
  <1> USE DEF Snaps
  <1>1. NoSnap \in Snaps
    BY NoneTyped DEF NoSnap, Targets
  <1> SUFFICES ASSUME NEW s \in Snaps
               PROVE  /\ Unpublished(s) \in Snaps
                      /\ [s EXCEPT !.running = FALSE, !.starting = FALSE] \in Snaps
                      /\ [s EXCEPT !.running = TRUE, !.starting = FALSE] \in Snaps
                      /\ [s EXCEPT !.starting = TRUE] \in Snaps
                      /\ [s EXCEPT !.running = FALSE, !.starting = FALSE, !.follows = FALSE,
                                   !.avail = FALSE] \in Snaps
                      /\ \A a, b \in BOOLEAN, t \in Targets :
                            [s EXCEPT !.starting = TRUE, !.follows = a, !.avail = b, !.target = t] \in Snaps
                      /\ \A p \in Transactions : [s EXCEPT !.pub = p] \in Snaps
                      /\ \A p \in Transactions :
                            [s EXCEPT !.running = TRUE, !.starting = FALSE, !.pub = p] \in Snaps
    BY <1>1
  <1>2. Unpublished(s) \in Snaps
    BY NoneTyped DEF Unpublished
  <1>3. /\ [s EXCEPT !.running = FALSE, !.starting = FALSE] \in Snaps
        /\ [s EXCEPT !.running = TRUE, !.starting = FALSE] \in Snaps
        /\ [s EXCEPT !.starting = TRUE] \in Snaps
    OBVIOUS
  <1>4. [s EXCEPT !.running = FALSE, !.starting = FALSE, !.follows = FALSE, !.avail = FALSE] \in Snaps
    OBVIOUS
  <1>5. \A a, b \in BOOLEAN, t \in Targets :
           [s EXCEPT !.starting = TRUE, !.follows = a, !.avail = b, !.target = t] \in Snaps
    OBVIOUS
  <1>6. \A p \in Transactions : [s EXCEPT !.pub = p] \in Snaps
    OBVIOUS
  <1>7. \A p \in Transactions : [s EXCEPT !.running = TRUE, !.starting = FALSE, !.pub = p] \in Snaps
    OBVIOUS
  <1> HIDE DEF Snaps
  <1> QED BY <1>2, <1>3, <1>4, <1>5, <1>6, <1>7, Zenon

\* A thread that finishes leaves a snapshot.
LEMMA FinishSnap == ASSUME SnapTyped, Finish PROVE SnapTyped'
  <1>1. Unpublished(snap) \in Snaps
    BY SnapsUpdated DEF SnapTyped
  <1>2. snap' = [Unpublished(snap) EXCEPT !.running = FALSE, !.starting = FALSE, !.follows = FALSE,
                                          !.avail = FALSE]
    BY DEF Finish
  <1> QED BY <1>1, <1>2, SnapsUpdated, Zenon DEF SnapTyped

\* No relays are within the bound.
LEMMA Emptied == ASSUME peers' = NoPeers PROVE PeersTyped'
  BY FS_EmptySet, MappingBounds DEF PeersTyped, NoPeers

\* Fewer relays stay within the bound.
LEMMA Dropped ==
  ASSUME PeersTyped, NEW gone, peers' = Drop(peers, gone) PROVE PeersTyped'
  <1>1. DOMAIN peers' = DOMAIN peers \ gone
    BY DEF Drop
  <1>2. DOMAIN peers' \subseteq DOMAIN peers
    BY <1>1
  <1>3. IsFiniteSet(DOMAIN peers') /\ Cardinality(DOMAIN peers') <= Cardinality(DOMAIN peers)
    BY <1>2, FS_Subset DEF PeersTyped
  <1>4. Cardinality(DOMAIN peers) \in Nat /\ Cardinality(DOMAIN peers') \in Nat /\ MaxRelays \in Nat
    BY <1>3, FS_CardinalityType, MappingBounds DEF PeersTyped
  <1> QED BY <1>2, <1>3, <1>4 DEF PeersTyped

\* A relay that is refreshed, or added below the limit, stays within the bound.
LEMMA Relayed ==
  ASSUME PeersTyped, NEW x \in Remotes, NEW port, peers' = Relay(peers, x, port),
         x \in DOMAIN peers \/ Cardinality(DOMAIN peers) < MaxRelays
  PROVE  PeersTyped'
  <1>1. DOMAIN peers' = DOMAIN peers \cup {x}
    BY DEF Relay
  <1>2. Cardinality(DOMAIN peers) \in Nat /\ MaxRelays \in Nat
    BY FS_CardinalityType, MappingBounds DEF PeersTyped
  <1>3. /\ IsFiniteSet(DOMAIN peers')
        /\ Cardinality(DOMAIN peers') = IF x \in DOMAIN peers THEN Cardinality(DOMAIN peers)
                                         ELSE Cardinality(DOMAIN peers) + 1
    BY <1>1, FS_AddElement DEF PeersTyped
  <1> QED BY <1>1, <1>2, <1>3 DEF PeersTyped

\* The lifecycle lock.
LEMMA LifeNext == ASSUME Typed, [Next]_vars PROVE LifeTyped'
  <1> USE MappingBounds DEF Typed, LifeTyped, Lives, OutsideTyped, Targets, flags, worker, outside
  <1>1. CASE Command
    <2>1. ASSUME NEW op \in {"start", "stop"}, NEW f \in BOOLEAN, NEW t \in Targets, Acquire(op, f, t)
          PROVE  LifeTyped'
      <3>1. commands' \in 0 .. MaxCommands
        BY <2>1 DEF Acquire
      <3>2. life' \in Lives
        BY <2>1 DEF Acquire
      <3> QED BY <3>1, <3>2
    <2>2. listen \in Targets /\ \A t \in Ports : t \in Targets
      OBVIOUS
    <2>3. \/ Acquire("stop", FALSE, NoPort)
          \/ \E t \in Ports : Acquire("start", FALSE, t)
          \/ Acquire("start", TRUE, listen)
      BY <1>1 DEF Command
    <2> HIDE DEF Typed, LifeTyped
    <2> QED BY <2>1, <2>2, <2>3
  <1>2. CASE StopAsk
    BY <1>2 DEF StopAsk, Goto, Idle
  <1>3. CASE StopJoin
    BY <1>3 DEF StopJoin, Goto, Idle
  <1>4. CASE StopResetRequests
    BY <1>4 DEF StopResetRequests, Goto, Idle
  <1>5. CASE StopResetFollow
    BY <1>5 DEF StopResetFollow, Goto, Idle
  <1>6. CASE StopResetPort
    <2>1. CASE life' = Idle
      BY <1>6, <2>1 DEF StopResetPort, Idle
    <2>2. CASE Goto("startAsk")
      BY <1>6, <2>2 DEF StopResetPort, Goto
    <2> QED BY <1>6, <2>1, <2>2 DEF StopResetPort
  <1>7. CASE StartResetRequests
    BY <1>7 DEF StartResetRequests, Goto, Idle
  <1>8. CASE StartFollow
    BY <1>8 DEF StartFollow, Goto, Idle
  <1>9. CASE StartPort
    BY <1>9 DEF StartPort, Goto, Idle
  <1>10. CASE StartSpawn
    BY <1>10 DEF StartSpawn, Goto, Idle
  <1>11. ASSUME UNCHANGED <<life, commands>> PROVE LifeTyped'
    BY <1>11 DEF Typed, LifeTyped
  <1>12. ASSUME UdpBind \/ UdpResolve \/ UdpTop \/ UdpTarget \/ UdpRecover \/ UdpSend
            \/ UdpReceive \/ TcpSession \/ TcpKeeper \/ TcpAsk \/ TcpPublish
            \/ TcpRelay \/ TcpEnded \/ MonPoll \/ MonLoad \/ MonExchange \/ MonFlag
            \/ Notify \/ NetworkChange \/ Relisten
        PROVE  UNCHANGED <<life, commands>>
    BY <1>12 DEF UdpBind, UdpResolve, UdpTop, UdpTarget, UdpRecover, UdpSend, UdpReceive,
        TcpSession, TcpKeeper, TcpAsk, TcpPublish, TcpRelay, TcpEnded, MonPoll, MonLoad,
        MonExchange, MonFlag, Notify, NetworkChange, Relisten, Acquire
  <1>13. CASE UNCHANGED vars
    BY <1>13 DEF vars, Typed, LifeTyped
  <1> QED BY <1>1, <1>2, <1>3, <1>4, <1>5, <1>6, <1>7, <1>8, <1>9, <1>10, <1>11, <1>12,
             <1>13 DEF Next, Lifecycle, UdpWorker, TcpWorker, Monitor

\* The flags.
LEMMA FlagsNext == ASSUME Typed, [Next]_vars PROVE FlagsTyped'
  <1> USE MappingBounds DEF Typed, FlagsTyped, LifeTyped, Lives, OutsideTyped, Requests, Targets, flags, worker, outside
  <1>1. CASE StopAsk
    BY <1>1 DEF StopAsk
  <1>2. CASE StopJoin
    BY <1>2 DEF StopJoin
  <1>3. CASE StopResetRequests
    BY <1>3 DEF StopResetRequests
  <1>4. CASE StopResetFollow
    BY <1>4 DEF StopResetFollow
  <1>5. CASE StopResetPort
    BY <1>5 DEF StopResetPort
  <1>6. CASE StartResetRequests
    BY <1>6 DEF StartResetRequests
  <1>7. CASE StartFollow
    BY <1>7 DEF StartFollow
  <1>8. CASE StartPort
    BY <1>8 DEF StartPort
  <1>9. CASE UdpBind
    BY <1>9 DEF UdpBind, Finish
  <1>10. CASE UdpResolve
    BY <1>10 DEF UdpResolve, Finish
  <1>11. CASE UdpTop
    BY <1>11 DEF UdpTop, Finish
  <1>12. CASE UdpRecover
    BY <1>12 DEF UdpRecover
  <1>13. CASE UdpSend
    BY <1>13 DEF UdpSend, Finish
  <1>14. CASE UdpReceive
    BY <1>14 DEF UdpReceive, Finish
  <1>15. CASE TcpSession
    BY <1>15 DEF TcpSession
  <1>16. CASE MonExchange
    BY <1>16 DEF MonExchange
  <1>17. CASE MonFlag
    BY <1>17 DEF MonFlag
  <1>18. CASE Notify
    BY <1>18 DEF Notify
  <1>19. ASSUME UNCHANGED <<stop, flags>> PROVE FlagsTyped'
    BY <1>19 DEF Typed, FlagsTyped
  <1>20. ASSUME Command \/ StartSpawn \/ UdpTarget \/ TcpKeeper \/ TcpAsk
            \/ TcpPublish \/ TcpRelay \/ TcpEnded \/ MonPoll \/ MonLoad
            \/ NetworkChange \/ Relisten
        PROVE  UNCHANGED <<stop, flags>>
    BY <1>20 DEF Command, StartSpawn, UdpTarget, TcpKeeper, TcpAsk, TcpPublish, TcpRelay,
        TcpEnded, MonPoll, MonLoad, NetworkChange, Relisten, Acquire
  <1>21. CASE UNCHANGED vars
    BY <1>21 DEF vars, Typed, FlagsTyped
  <1> QED BY <1>1, <1>2, <1>3, <1>4, <1>5, <1>6, <1>7, <1>8, <1>9, <1>10, <1>11, <1>12,
             <1>13, <1>14, <1>15, <1>16, <1>17, <1>18, <1>19, <1>20, <1>21 DEF Next, Lifecycle, UdpWorker, TcpWorker, Monitor

\* The snapshot; a published address is one that was asked for.
LEMMA SnapNext == ASSUME Typed, [Next]_vars PROVE SnapTyped'
  <1> USE MappingBounds DEF Typed, SnapTyped, worker
  <1>1. CASE StopResetPort
    BY <1>1, SnapsUpdated DEF StopResetPort, SnapTyped
  <1>2. CASE StartSpawn
    <2> DEFINE a == life.follow
               b == life.target # NoPort
    <2>1. a \in BOOLEAN /\ b \in BOOLEAN /\ life.target \in Targets
      BY DEF Typed, LifeTyped, Lives
    <2>2. snap' = [NoSnap EXCEPT !.starting = TRUE, !.follows = a, !.avail = b,
                                 !.target = life.target]
      BY <1>2 DEF StartSpawn
    <2> HIDE DEF a, b
    <2> QED BY <2>1, <2>2, SnapsUpdated, Zenon DEF SnapTyped
  <1>3. CASE UdpBind
    BY <1>3, FinishSnap DEF UdpBind, Typed, SnapTyped
  <1>4. CASE UdpResolve
    <2>1. CASE snap' = [snap EXCEPT !.running = TRUE, !.starting = FALSE]
      BY <2>1, SnapsUpdated, Zenon DEF Typed, SnapTyped
    <2> QED BY <1>4, <2>1, FinishSnap DEF UdpResolve, Typed
  <1>5. CASE UdpTop
    BY <1>5, FinishSnap DEF UdpTop, Typed, SnapTyped
  <1>6. CASE UdpTarget
    <2>1. (requested \notin {Bound, NoPort}) \in BOOLEAN /\ requested \in Targets
      BY DEF Typed, FlagsTyped
    <2> QED BY <1>6, <2>1 DEF UdpTarget, Typed, SnapTyped, Snaps
  <1>7. CASE UdpRecover
    BY <1>7, SnapsUpdated DEF UdpRecover, Typed, SnapTyped
  <1>8. CASE UdpSend
    BY <1>8, FinishSnap DEF UdpSend, Typed, SnapTyped
  <1>9. CASE UdpReceive
    <2>1. ASSUME UdpAnswer PROVE SnapTyped'
      <3>1. stun.asked \in Transactions /\ snap' = [snap EXCEPT !.pub = stun.asked]
        BY <2>1 DEF UdpAnswer, Typed, StunTyped, Stuns
      <3> QED BY <3>1, SnapsUpdated DEF Typed, SnapTyped
    <2>2. ASSUME UdpExpiry PROVE SnapTyped'
      BY <2>2, SnapsUpdated DEF UdpExpiry, Typed, SnapTyped
    <2>3. ASSUME NEW x \in Remotes, UdpPeer(x) PROVE SnapTyped'
      BY <2>3 DEF UdpPeer, Typed, SnapTyped
    <2>4. ASSUME snap' = snap PROVE SnapTyped'
      BY <2>4 DEF Typed, SnapTyped
    <2>5. ASSUME Finish PROVE SnapTyped'
      BY <2>5, FinishSnap DEF Typed
    <2> QED BY <1>9, <2>1, <2>2, <2>3, <2>4, <2>5 DEF UdpReceive
  <1>10. CASE TcpSession
    <2>1. Unpublished(snap) \in Snaps
      BY SnapsUpdated DEF Typed, SnapTyped
    <2> QED BY <1>10, <2>1, SnapsUpdated DEF TcpSession, TcpEnds, Typed, SnapTyped
  <1>11. CASE TcpPublish
    <2>1. stun.asked \in Transactions
      BY DEF Typed, StunTyped, Stuns
    <2> QED BY <1>11, <2>1, SnapsUpdated DEF TcpPublish, Typed, SnapTyped
  <1>12. CASE TcpEnded
    <2>1. Unpublished(snap) \in Snaps
      BY SnapsUpdated DEF Typed, SnapTyped
    <2>2. TcpEnds \in Snaps
      BY <2>1, SnapsUpdated DEF TcpEnds
    <2> QED BY <1>12, <2>2, SnapsUpdated DEF TcpEnded, SnapTyped
  <1>13. ASSUME UNCHANGED snap PROVE SnapTyped'
    BY <1>13 DEF Typed, SnapTyped
  <1>14. ASSUME Command \/ StopAsk \/ StopJoin \/ StopResetRequests \/ StopResetFollow
            \/ StartResetRequests \/ StartFollow \/ StartPort \/ TcpKeeper \/ TcpAsk
            \/ TcpRelay \/ MonPoll \/ MonLoad \/ MonExchange \/ MonFlag \/ Notify
            \/ NetworkChange \/ Relisten
        PROVE  UNCHANGED snap
    BY <1>14 DEF Command, StopAsk, StopJoin, StopResetRequests, StopResetFollow,
        StartResetRequests, StartFollow, StartPort, TcpKeeper, TcpAsk, TcpRelay, MonPoll,
        MonLoad, MonExchange, MonFlag, Notify, NetworkChange, Relisten, Acquire
  <1>15. CASE UNCHANGED vars
    BY <1>15 DEF vars, Typed, SnapTyped
  <1> QED BY <1>1, <1>2, <1>3, <1>4, <1>5, <1>6, <1>7, <1>8, <1>9, <1>10, <1>11, <1>12,
             <1>13, <1>14, <1>15 DEF Next, Lifecycle, UdpWorker, TcpWorker, Monitor

\* The worker.
LEMMA WorkerNext == ASSUME Typed, [Next]_vars PROVE WorkerTyped'
  <1> USE MappingBounds DEF Typed, WorkerTyped, Pcs, Wants, LifeTyped, Lives, FlagsTyped, Targets, flags, worker, outside
  <1>1. CASE StopJoin
    BY <1>1 DEF StopJoin, NoWant
  <1>2. CASE StartSpawn
    BY <1>2 DEF StartSpawn
  <1>3. CASE UdpBind
    BY <1>3 DEF UdpBind, Finish
  <1>4. CASE UdpResolve
    BY <1>4 DEF UdpResolve, Finish
  <1>5. CASE UdpTop
    BY <1>5 DEF UdpTop, Finish
  <1>6. CASE UdpTarget
    BY <1>6 DEF UdpTarget
  <1>7. CASE UdpRecover
    BY <1>7 DEF UdpRecover
  <1>8. CASE UdpSend
    BY <1>8 DEF UdpSend, Finish
  <1>9. CASE UdpReceive
    BY <1>9 DEF UdpReceive, Finish
  <1>10. CASE TcpSession
    BY <1>10 DEF TcpSession
  <1>11. CASE TcpKeeper
    BY <1>11 DEF TcpKeeper, TcpFail
  <1>12. CASE TcpAsk
    BY <1>12 DEF TcpAsk, TcpFail
  <1>13. CASE TcpPublish
    BY <1>13 DEF TcpPublish, TcpFail
  <1>14. CASE TcpRelay
    BY <1>14 DEF TcpRelay, TcpFail
  <1>15. CASE TcpEnded
    BY <1>15 DEF TcpEnded
  <1>16. ASSUME UNCHANGED <<pc, want, cur>> PROVE WorkerTyped'
    BY <1>16 DEF Typed, WorkerTyped
  <1>17. ASSUME Command \/ StopAsk \/ StopResetRequests \/ StopResetFollow
            \/ StopResetPort \/ StartResetRequests \/ StartFollow \/ StartPort
            \/ MonPoll \/ MonLoad \/ MonExchange \/ MonFlag \/ Notify \/ NetworkChange
            \/ Relisten
        PROVE  UNCHANGED <<pc, want, cur>>
    BY <1>17 DEF Command, StopAsk, StopResetRequests, StopResetFollow, StopResetPort,
        StartResetRequests, StartFollow, StartPort, MonPoll, MonLoad, MonExchange,
        MonFlag, Notify, NetworkChange, Relisten, Acquire
  <1>18. CASE UNCHANGED vars
    BY <1>18 DEF vars, Typed, WorkerTyped
  <1> QED BY <1>1, <1>2, <1>3, <1>4, <1>5, <1>6, <1>7, <1>8, <1>9, <1>10, <1>11, <1>12,
             <1>13, <1>14, <1>15, <1>16, <1>17, <1>18 DEF Next, Lifecycle, UdpWorker, TcpWorker, Monitor

\* The peers.
LEMMA PeersNext == ASSUME Typed, [Next]_vars PROVE PeersTyped'
  <1> USE MappingBounds DEF Typed, PeersTyped, worker
  <1>1. CASE StopJoin
    BY <1>1, Emptied DEF StopJoin, Typed, PeersTyped
  <1>2. CASE StartSpawn
    BY <1>2, Emptied DEF StartSpawn, Typed, PeersTyped
  <1>3. CASE UdpBind
    BY <1>3, Emptied DEF UdpBind, Finish, Typed, PeersTyped
  <1>4. CASE UdpResolve
    BY <1>4, Emptied DEF UdpResolve, Finish, Typed, PeersTyped
  <1>5. CASE UdpTop
    BY <1>5, Emptied DEF UdpTop, Finish, Typed, PeersTyped
  <1>6. CASE UdpTarget
    BY <1>6, Emptied DEF UdpTarget, Typed, PeersTyped
  <1>7. CASE UdpRecover
    BY <1>7, Emptied DEF UdpRecover, Typed, PeersTyped
  <1>8. CASE UdpSend
    BY <1>8, Emptied DEF UdpSend, Finish, Typed, PeersTyped
  <1>9. CASE UdpReceive
    <2>1. ASSUME UdpAnswer \/ UdpExpiry \/ Finish PROVE PeersTyped'
      BY <2>1, Emptied DEF UdpAnswer, UdpExpiry, Finish, Typed, PeersTyped
    <2>2. ASSUME NEW x \in Remotes, UdpPeer(x) PROVE PeersTyped'
      BY <2>2, Relayed DEF UdpPeer, Typed
    <2>3. ASSUME NEW gone \in SUBSET DOMAIN peers, peers' = Drop(peers, gone) PROVE PeersTyped'
      BY <2>3, Dropped DEF Typed
    <2> QED BY <1>9, <2>1, <2>2, <2>3 DEF UdpReceive
  <1>10. CASE TcpKeeper
    BY <1>10, Emptied DEF TcpKeeper, TcpFail, Typed, PeersTyped
  <1>11. CASE TcpAsk
    BY <1>11, Emptied DEF TcpAsk, TcpFail, Typed, PeersTyped
  <1>12. CASE TcpPublish
    BY <1>12, Emptied DEF TcpPublish, TcpFail, Typed, PeersTyped
  <1>13. CASE TcpRelay
    <2>1. ASSUME NEW again, TcpFail(again) PROVE PeersTyped'
      BY <2>1, Emptied DEF TcpFail
    <2>2. ASSUME NEW gone, peers' = Drop(peers, gone) PROVE PeersTyped'
      BY <2>2, Dropped DEF Typed
    <2>3. ASSUME NEW x \in Remotes, peers' = Relay(peers, x, want.target),
                 Cardinality(DOMAIN peers) < MaxRelays
          PROVE  PeersTyped'
      BY <2>3, Relayed DEF Typed
    <2> QED BY <1>13, <2>1, <2>2, <2>3 DEF TcpRelay
  <1>14. ASSUME UNCHANGED peers PROVE PeersTyped'
    BY <1>14 DEF Typed, PeersTyped
  <1>15. ASSUME Command \/ StopAsk \/ StopResetRequests \/ StopResetFollow
            \/ StopResetPort \/ StartResetRequests \/ StartFollow \/ StartPort
            \/ TcpSession \/ TcpEnded \/ MonPoll \/ MonLoad \/ MonExchange \/ MonFlag
            \/ Notify \/ NetworkChange \/ Relisten
        PROVE  UNCHANGED peers
    BY <1>15 DEF Command, StopAsk, StopResetRequests, StopResetFollow, StopResetPort,
        StartResetRequests, StartFollow, StartPort, TcpSession, TcpEnded, MonPoll,
        MonLoad, MonExchange, MonFlag, Notify, NetworkChange, Relisten, Acquire
  <1>16. CASE UNCHANGED vars
    BY <1>16 DEF vars, Typed, PeersTyped
  <1> QED BY <1>1, <1>2, <1>3, <1>4, <1>5, <1>6, <1>7, <1>8, <1>9, <1>10, <1>11, <1>12,
             <1>13, <1>14, <1>15, <1>16 DEF Next, Lifecycle, UdpWorker, TcpWorker, Monitor

\* The STUN side.
LEMMA StunNext == ASSUME Typed, [Next]_vars PROVE StunTyped'
  <1> USE DEF worker
  <1>1. CASE StopJoin
    BY <1>1, NoneTyped, MappingBounds DEF StopJoin, NoStun, StunTyped, Stuns
  <1>2. CASE StartSpawn
    BY <1>2, NoneTyped, MappingBounds DEF StartSpawn, NoStun, StunTyped, Stuns
  <1>3. CASE UdpBind
    BY <1>3 DEF UdpBind, Finish, Typed, StunTyped, Stuns, Transactions, OutsideTyped
  <1>4. CASE UdpResolve
    <2>1. ASSUME NEW n \in 1 .. Servers,
                 stun' = [resolved |-> TRUE, server |-> n, asked |-> None, due |-> TRUE]
          PROVE  StunTyped'
      BY <2>1, NoneTyped DEF StunTyped, Stuns
    <2> QED BY <1>4, <2>1 DEF UdpResolve, Finish, Typed, StunTyped
  <1>5. CASE UdpTop
    BY <1>5 DEF UdpTop, Finish, Typed, StunTyped, Stuns, Transactions, OutsideTyped
  <1>6. CASE UdpRecover
    BY <1>6 DEF UdpRecover, Typed, StunTyped, Stuns, Transactions, OutsideTyped
  <1>7. CASE UdpSend
    <2>1. ASSUME NEW s \in Resolved PROVE s \in Stuns
      <3>1. ASSUME NEW n \in 1 .. Servers
            PROVE  [stun EXCEPT !.resolved = TRUE, !.server = n, !.due = TRUE] \in Stuns
        BY DEF Typed, StunTyped, Stuns
      <3> QED BY <3>1 DEF Resolved, Typed, StunTyped
    <2>2. ASSUME NEW s \in Stuns,
                 stun' = [s EXCEPT !.asked = [route |-> route, server |-> s.server], !.due = FALSE]
          PROVE  StunTyped'
      <3>1. [route |-> route, server |-> s.server] \in Transactions
        BY DEF Typed, OutsideTyped, Transactions, Stuns
      <3> QED BY <2>2, <3>1 DEF StunTyped, Stuns
    <2>3. ASSUME stun' = stun PROVE StunTyped'
      BY <2>3 DEF Typed, StunTyped
    <2>4. ASSUME stun' \in Stuns PROVE StunTyped'
      BY <2>4 DEF StunTyped
    <2> QED BY <1>7, <2>1, <2>2, <2>3, <2>4 DEF UdpSend, Finish
  <1>8. CASE UdpReceive
    <2>1. ASSUME stun' = stun PROVE StunTyped'
      BY <2>1 DEF Typed, StunTyped
    <2>2. ASSUME stun' = [stun EXCEPT !.server = (@ % Servers) + 1, !.resolved = FALSE]
          PROVE  StunTyped'
      <3>1. (stun.server % Servers) + 1 \in 1 .. Servers
        BY MappingBounds DEF Typed, StunTyped, Stuns
      <3> QED BY <2>2, <3>1 DEF Typed, StunTyped, Stuns
    <2> QED BY <1>8, <2>1, <2>2 DEF UdpReceive, Finish, UdpAnswer, UdpExpiry, UdpPeer
  <1>9. CASE TcpAsk
    BY <1>9 DEF TcpAsk, Typed, StunTyped, Stuns, Transactions, OutsideTyped
  <1>10. ASSUME UNCHANGED stun PROVE StunTyped'
    BY <1>10 DEF Typed, StunTyped
  <1>11. ASSUME Command \/ StopAsk \/ StopResetRequests \/ StopResetFollow
            \/ StopResetPort \/ StartResetRequests \/ StartFollow \/ StartPort
            \/ UdpTarget \/ TcpSession \/ TcpKeeper \/ TcpPublish \/ TcpRelay
            \/ TcpEnded \/ MonPoll \/ MonLoad \/ MonExchange \/ MonFlag \/ Notify
            \/ NetworkChange \/ Relisten
        PROVE  UNCHANGED stun
    BY <1>11 DEF Command, StopAsk, StopResetRequests, StopResetFollow, StopResetPort,
        StartResetRequests, StartFollow, StartPort, UdpTarget, TcpSession, TcpKeeper,
        TcpPublish, TcpRelay, TcpEnded, MonPoll, MonLoad, MonExchange, MonFlag, Notify,
        NetworkChange, Relisten, Acquire
  <1>12. CASE UNCHANGED vars
    BY <1>12 DEF vars, Typed, StunTyped
  <1> QED BY <1>1, <1>2, <1>3, <1>4, <1>5, <1>6, <1>7, <1>8, <1>9, <1>10, <1>11, <1>12 DEF Next, Lifecycle, UdpWorker, TcpWorker, Monitor

\* The application and the network.
LEMMA OutsideNext == ASSUME Typed, [Next]_vars PROVE OutsideTyped'
  <1> USE MappingBounds DEF Typed, OutsideTyped, Requests, Targets, flags, worker, outside
  <1>1. CASE StartResetRequests
    BY <1>1 DEF StartResetRequests
  <1>2. CASE UdpBind
    BY <1>2 DEF UdpBind, Finish
  <1>3. CASE UdpResolve
    BY <1>3 DEF UdpResolve, Finish
  <1>4. CASE UdpTop
    BY <1>4 DEF UdpTop, Finish
  <1>5. CASE UdpRecover
    BY <1>5 DEF UdpRecover
  <1>6. CASE UdpSend
    BY <1>6 DEF UdpSend, Finish
  <1>7. CASE UdpReceive
    BY <1>7 DEF UdpReceive, Finish
  <1>8. CASE TcpSession
    BY <1>8 DEF TcpSession
  <1>9. CASE MonPoll
    BY <1>9 DEF MonPoll
  <1>10. CASE MonLoad
    BY <1>10 DEF MonLoad, NoRequest
  <1>11. CASE MonExchange
    BY <1>11 DEF MonExchange, NoRequest
  <1>12. CASE MonFlag
    BY <1>12 DEF MonFlag, NoRequest
  <1>13. CASE Notify
    BY <1>13 DEF Notify
  <1>14. CASE NetworkChange
    BY <1>14 DEF NetworkChange
  <1>15. CASE Relisten
    BY <1>15 DEF Relisten
  <1>16. ASSUME UNCHANGED <<mon, outside, seen>> PROVE OutsideTyped'
    BY <1>16 DEF Typed, OutsideTyped
  <1>17. ASSUME Command \/ StopAsk \/ StopJoin \/ StopResetRequests \/ StopResetFollow
            \/ StopResetPort \/ StartFollow \/ StartPort \/ StartSpawn \/ UdpTarget
            \/ TcpKeeper \/ TcpAsk \/ TcpPublish \/ TcpRelay \/ TcpEnded
        PROVE  UNCHANGED <<mon, outside, seen>>
    BY <1>17 DEF Command, StopAsk, StopJoin, StopResetRequests, StopResetFollow,
        StopResetPort, StartFollow, StartPort, StartSpawn, UdpTarget, TcpKeeper, TcpAsk,
        TcpPublish, TcpRelay, TcpEnded, Acquire
  <1>18. CASE UNCHANGED vars
    BY <1>18 DEF vars, Typed, OutsideTyped
  <1> QED BY <1>1, <1>2, <1>3, <1>4, <1>5, <1>6, <1>7, <1>8, <1>9, <1>10, <1>11, <1>12,
             <1>13, <1>14, <1>15, <1>16, <1>17, <1>18 DEF Next, Lifecycle, UdpWorker, TcpWorker, Monitor

\* The types hold at the start.
LEMMA TypedInit == ASSUME Init PROVE Typed
  <1>1. PeersTyped
    BY FS_EmptySet, MappingBounds DEF Init, PeersTyped, NoPeers
  <1>2. SnapTyped
    BY SnapsUpdated DEF Init, SnapTyped
  <1>3. StunTyped
    BY NoneTyped, MappingBounds DEF Init, StunTyped, Stuns, NoStun
  <1>4. LifeTyped
    BY MappingBounds DEF Init, LifeTyped, Lives, Idle, Targets
  <1>7. FlagsTyped
    BY DEF Init, FlagsTyped, Targets
  <1>5. WorkerTyped
    BY DEF Init, WorkerTyped, Pcs, Wants, NoWant, Targets
  <1>6. OutsideTyped
    BY MappingBounds DEF Init, OutsideTyped, Requests, NoRequest, Targets
  <1> QED BY <1>1, <1>2, <1>3, <1>4, <1>5, <1>6, <1>7 DEF Typed

\* Every step keeps the types.
LEMMA TypedNext == ASSUME Typed, [Next]_vars PROVE Typed'
  BY LifeNext, FlagsNext, SnapNext, WorkerNext, PeersNext, StunNext, OutsideNext DEF Typed

\* Every variable keeps to its values and no more peers are relayed than MaxRelays,
\* for any ports, endpoints, servers and numbers of changes.
THEOREM MappingTyped == Spec => []TypeOK
  <1>1. Typed => TypeOK
    BY DEF Typed, LifeTyped, FlagsTyped, SnapTyped, WorkerTyped, PeersTyped, StunTyped, OutsideTyped,
       Lives, Snaps, Stuns, Wants, Requests, Pcs, TypeOK
  <1> QED BY TypedInit, TypedNext, <1>1, PTL DEF Spec

-----------------------------------------------------------------------------
(* A taken recovery is final. *)

\* Only the lifecycle moves a mapping without a worker.
LEMMA WorkerLives ==
  ASSUME UdpWorker \/ TcpWorker PROVE pc # "none" /\ life' = life
  <1>1. ASSUME UdpWorker PROVE pc # "none" /\ life' = life
    BY <1>1 DEF UdpWorker, UdpBind, UdpResolve, UdpTop, UdpTarget, UdpRecover, UdpSend, UdpReceive
  <1>2. ASSUME TcpWorker PROVE pc # "none" /\ life' = life
    BY <1>2 DEF TcpWorker, TcpSession, TcpKeeper, TcpAsk, TcpPublish, TcpRelay, TcpEnded
  <1> QED BY <1>1, <1>2

\* What a joined worker had is gone until the next one is created.
LEMMA NoWorkerNext == ASSUME Mapping, [Next]_vars PROVE NoWorker'
  <1> USE DEF Mapping, Typed, LifeTyped, Lives, SnapTyped, Snaps, NoWorker, Joined, Starting, worker
  <1>1. CASE Command
    BY <1>1 DEF Command, Acquire
  <1>2. CASE StopAsk
    BY <1>2 DEF StopAsk, Goto
  <1>3. CASE StopJoin
    BY <1>3 DEF StopJoin, Goto, NoPeers, NoStun
  <1>4. CASE StopResetRequests
    BY <1>4 DEF StopResetRequests, Goto
  <1>5. CASE StopResetFollow
    BY <1>5 DEF StopResetFollow, Goto
  <1>6. CASE StopResetPort
    BY <1>6 DEF StopResetPort, Goto, NoSnap, Idle
  <1>7. CASE StartResetRequests
    BY <1>7 DEF StartResetRequests, Goto
  <1>8. CASE StartFollow
    BY <1>8 DEF StartFollow, Goto
  <1>9. CASE StartPort
    BY <1>9 DEF StartPort, Goto
  <1>10. CASE StartSpawn
    BY <1>10 DEF StartSpawn, Goto, NoPeers, NoStun, NoSnap, Idle
  <1>11. CASE UdpWorker
    BY <1>11, WorkerLives
  <1>12. CASE TcpWorker
    BY <1>12, WorkerLives
  <1>13. ASSUME UNCHANGED <<life, snap, pc, peers, stun>> PROVE NoWorker'
    BY <1>13 DEF Mapping, NoWorker
  <1>14. ASSUME MonPoll \/ MonLoad \/ MonExchange \/ MonFlag \/ Notify
            \/ NetworkChange \/ Relisten
        PROVE  UNCHANGED <<life, snap, pc, peers, stun>>
    BY <1>14 DEF MonPoll, MonLoad, MonExchange, MonFlag, Notify, NetworkChange, Relisten,
        Acquire
  <1>15. CASE UNCHANGED vars
    BY <1>15 DEF vars, Typed, NoWorker
  <1> QED BY <1>1, <1>2, <1>3, <1>4, <1>5, <1>6, <1>7, <1>8, <1>9, <1>10, <1>11, <1>12,
             <1>13, <1>14, <1>15 DEF Next, Lifecycle, UdpWorker, TcpWorker, Monitor

\* A session of TCP.
LEMMA SessionsNext == ASSUME Mapping, [Next]_vars PROVE Sessions'
  <1> USE DEF Mapping, Typed, StunTyped, Stuns, SnapTyped, Snaps, Sessions, TcpPcs, worker
  <1>1. CASE StopJoin
    BY <1>1 DEF StopJoin
  <1>2. CASE StopResetPort
    BY <1>2 DEF StopResetPort, NoSnap
  <1>3. CASE StartSpawn
    BY <1>3 DEF StartSpawn, NoPeers, NoStun, NoSnap
  <1>4. CASE UdpBind
    BY <1>4 DEF UdpBind, Finish
  <1>5. CASE UdpResolve
    BY <1>5 DEF UdpResolve, Finish
  <1>6. CASE UdpTop
    BY <1>6 DEF UdpTop, Finish
  <1>7. CASE UdpTarget
    BY <1>7 DEF UdpTarget
  <1>8. CASE UdpRecover
    BY <1>8 DEF UdpRecover
  <1>9. CASE UdpSend
    BY <1>9 DEF UdpSend, Finish
  <1>10. CASE UdpReceive
    BY <1>10 DEF UdpReceive, Finish
  <1>11. CASE TcpSession
    BY <1>11 DEF TcpSession
  <1>12. CASE TcpKeeper
    BY <1>12 DEF TcpKeeper, TcpFail, NoPeers
  <1>13. CASE TcpAsk
    BY <1>13 DEF TcpAsk, TcpFail, NoPeers
  <1>14. CASE TcpPublish
    BY <1>14 DEF TcpPublish, TcpFail, NoPeers
  <1>15. CASE TcpRelay
    BY <1>15 DEF TcpRelay, TcpFail, NoPeers
  <1>16. CASE TcpEnded
    BY <1>16 DEF TcpEnded, TcpEnds, Unpublished
  <1>17. ASSUME UNCHANGED <<snap, pc, want, cur, peers, stun>> PROVE Sessions'
    BY <1>17 DEF Mapping, Sessions
  <1>18. ASSUME Command \/ StopAsk \/ StopResetRequests \/ StopResetFollow
            \/ StartResetRequests \/ StartFollow \/ StartPort \/ MonPoll \/ MonLoad
            \/ MonExchange \/ MonFlag \/ Notify \/ NetworkChange \/ Relisten
        PROVE  UNCHANGED <<snap, pc, want, cur, peers, stun>>
    BY <1>18 DEF Command, StopAsk, StopResetRequests, StopResetFollow,
        StartResetRequests, StartFollow, StartPort, MonPoll, MonLoad, MonExchange,
        MonFlag, Notify, NetworkChange, Relisten, Acquire
  <1>19. CASE UNCHANGED vars
    BY <1>19 DEF vars, Typed, Sessions
  <1> QED BY <1>1, <1>2, <1>3, <1>4, <1>5, <1>6, <1>7, <1>8, <1>9, <1>10, <1>11, <1>12,
             <1>13, <1>14, <1>15, <1>16, <1>17, <1>18, <1>19 DEF Next, Lifecycle, UdpWorker, TcpWorker, Monitor

\* The last transaction.
LEMMA AnswersNext == ASSUME Mapping, [Next]_vars PROVE Answers'
  <1> USE DEF Mapping, Typed, StunTyped, Stuns, OutsideTyped, Answers, worker
  <1>1. CASE StopJoin
    BY <1>1 DEF StopJoin, NoStun
  <1>2. CASE StartResetRequests
    BY <1>2 DEF StartResetRequests, NoWorker, Joined
  <1>3. CASE StartSpawn
    BY <1>3 DEF StartSpawn, NoStun
  <1>4. CASE UdpBind
    BY <1>4 DEF UdpBind, Finish
  <1>5. CASE UdpResolve
    BY <1>5 DEF UdpResolve, Finish
  <1>6. CASE UdpTop
    BY <1>6 DEF UdpTop, Finish
  <1>7. CASE UdpTarget
    BY <1>7 DEF UdpTarget
  <1>8. CASE UdpRecover
    BY <1>8 DEF UdpRecover
  <1>9. CASE UdpSend
    <2> PICK s \in Resolved :
          \/ s.resolved /\ Finish
          \/ /\ s.resolved /\ pc' = "select"
             /\ stun' = [s EXCEPT !.asked = [route |-> route, server |-> s.server], !.due = FALSE]
             /\ seen' = seen
          \/ (~s.resolved \/ ~s.due) /\ pc' = "select" /\ stun' = s /\ seen' = seen
      BY <1>9 DEF UdpSend
    <2>1. s \in Stuns /\ (s = stun \/ s.due)
      <3>1. ASSUME NEW n \in 1 .. Servers
            PROVE  /\ [stun EXCEPT !.resolved = TRUE, !.server = n, !.due = TRUE] \in Stuns
                   /\ [stun EXCEPT !.resolved = TRUE, !.server = n, !.due = TRUE].due
        OBVIOUS
      <3>2. s = stun \/ \E n \in 1 .. Servers :
                           s = [stun EXCEPT !.resolved = TRUE, !.server = n, !.due = TRUE]
        BY DEF Resolved
      <3>3. stun \in Stuns
        OBVIOUS
      <3> HIDE DEF Stuns
      <3> QED BY <3>1, <3>2, <3>3
    <2>2. CASE Finish
      BY <1>9, <2>2 DEF Finish, UdpSend
    <2>3. CASE /\ pc' = "select" /\ seen' = seen
               /\ stun' = [s EXCEPT !.asked = [route |-> route, server |-> s.server], !.due = FALSE]
      <3>1. stun'.asked.route = route /\ ~stun'.due
        BY <2>1, <2>3
      <3> QED BY <2>3, <3>1
    <2>4. CASE (~s.resolved \/ ~s.due) /\ pc' = "select" /\ stun' = s /\ seen' = seen
      BY <2>1, <2>4
    <2> QED BY <2>2, <2>3, <2>4
  <1>10. CASE UdpReceive
    <2>1. pc' \in {"top", "done"} /\ seen' = seen
      BY <1>10 DEF UdpReceive, Finish
    <2>2. stun' = stun \/ ~stun'.resolved
      BY <1>10 DEF UdpReceive, UdpAnswer, UdpExpiry, UdpPeer, Finish
    <2> QED BY <2>1, <2>2
  <1>11. CASE TcpSession
    BY <1>11 DEF TcpSession, Sessions, TcpPcs
  <1>12. CASE TcpKeeper
    BY <1>12 DEF TcpKeeper, TcpFail
  <1>13. CASE TcpAsk
    BY <1>13 DEF TcpAsk, TcpFail
  <1>14. CASE TcpPublish
    BY <1>14 DEF TcpPublish, TcpFail
  <1>15. CASE TcpRelay
    BY <1>15 DEF TcpRelay, TcpFail
  <1>16. CASE TcpEnded
    BY <1>16 DEF TcpEnded
  <1>17. ASSUME UNCHANGED <<pc, stun, seen>> PROVE Answers'
    BY <1>17 DEF Mapping, Answers
  <1>18. ASSUME Command \/ StopAsk \/ StopResetRequests \/ StopResetFollow
            \/ StopResetPort \/ StartFollow \/ StartPort \/ MonPoll \/ MonLoad
            \/ MonExchange \/ MonFlag \/ Notify \/ NetworkChange \/ Relisten
        PROVE  UNCHANGED <<pc, stun, seen>>
    BY <1>18 DEF Command, StopAsk, StopResetRequests, StopResetFollow, StopResetPort,
        StartFollow, StartPort, MonPoll, MonLoad, MonExchange, MonFlag, Notify,
        NetworkChange, Relisten, Acquire
  <1>19. CASE UNCHANGED vars
    BY <1>19 DEF vars, Typed, Answers
  <1> QED BY <1>1, <1>2, <1>3, <1>4, <1>5, <1>6, <1>7, <1>8, <1>9, <1>10, <1>11, <1>12,
             <1>13, <1>14, <1>15, <1>16, <1>17, <1>18, <1>19 DEF Next, Lifecycle, UdpWorker, TcpWorker, Monitor

\* The published address.
LEMMA FreshNext == ASSUME Mapping, [Next]_vars PROVE FreshObservation'
  <1> USE DEF Mapping, Typed, SnapTyped, Snaps, FreshObservation, worker
  <1>1. CASE StopResetPort
    BY <1>1 DEF StopResetPort, NoSnap
  <1>2. CASE StartResetRequests
    BY <1>2 DEF StartResetRequests, NoWorker, Starting
  <1>3. CASE StartSpawn
    BY <1>3 DEF StartSpawn, NoSnap
  <1>4. CASE UdpBind
    BY <1>4 DEF UdpBind, Finish, Unpublished
  <1>5. CASE UdpResolve
    BY <1>5 DEF UdpResolve, Finish, Unpublished
  <1>6. CASE UdpTop
    BY <1>6 DEF UdpTop, Finish, Unpublished
  <1>7. CASE UdpTarget
    BY <1>7 DEF UdpTarget
  <1>8. CASE UdpRecover
    BY <1>8 DEF UdpRecover, Unpublished
  <1>9. CASE UdpSend
    BY <1>9 DEF UdpSend, Finish, Unpublished
  <1>10. CASE UdpReceive
    <2>1. seen' = seen
      BY <1>10 DEF UdpReceive, Finish
    <2>2. snap'.pub = snap.pub \/ snap'.pub = None \/ UdpAnswer
      BY <1>10 DEF UdpReceive, UdpExpiry, UdpPeer, Finish, Unpublished
    <2>3. UdpAnswer => snap'.pub = stun.asked /\ stun.asked.route >= seen
      BY <1>10 DEF UdpReceive, UdpAnswer, Answers
    <2> QED BY <2>1, <2>2, <2>3
  <1>11. CASE TcpSession
    BY <1>11 DEF TcpSession, TcpEnds, Unpublished, Sessions
  <1>12. CASE TcpPublish
    BY <1>12 DEF TcpPublish, Answers
  <1>13. CASE TcpEnded
    BY <1>13 DEF TcpEnded, TcpEnds, Unpublished
  <1>14. ASSUME UNCHANGED <<snap, seen>> PROVE FreshObservation'
    BY <1>14 DEF Mapping, FreshObservation
  <1>15. ASSUME Command \/ StopAsk \/ StopJoin \/ StopResetRequests \/ StopResetFollow
            \/ StartFollow \/ StartPort \/ TcpKeeper \/ TcpAsk \/ TcpRelay \/ MonPoll
            \/ MonLoad \/ MonExchange \/ MonFlag \/ Notify \/ NetworkChange
            \/ Relisten
        PROVE  UNCHANGED <<snap, seen>>
    BY <1>15 DEF Command, StopAsk, StopJoin, StopResetRequests, StopResetFollow,
        StartFollow, StartPort, TcpKeeper, TcpAsk, TcpRelay, MonPoll, MonLoad,
        MonExchange, MonFlag, Notify, NetworkChange, Relisten, Acquire
  <1>16. CASE UNCHANGED vars
    BY <1>16 DEF vars, Typed, FreshObservation
  <1> QED BY <1>1, <1>2, <1>3, <1>4, <1>5, <1>6, <1>7, <1>8, <1>9, <1>10, <1>11, <1>12,
             <1>13, <1>14, <1>15, <1>16 DEF Next, Lifecycle, UdpWorker, TcpWorker, Monitor

\* The relayed peers.
LEMMA RelaysNext == ASSUME Mapping, [Next]_vars PROVE RelaysCurrent'
  <1> USE DEF Mapping, RelaysCurrent, worker
  <1>1. CASE StopJoin
    BY <1>1 DEF StopJoin, NoPeers
  <1>2. CASE StartResetRequests
    BY <1>2 DEF StartResetRequests, NoWorker, Joined
  <1>3. CASE StartSpawn
    BY <1>3 DEF StartSpawn, NoPeers
  <1>4. CASE UdpBind
    BY <1>4 DEF UdpBind, Finish, NoPeers
  <1>5. CASE UdpResolve
    BY <1>5 DEF UdpResolve, Finish, NoPeers
  <1>6. CASE UdpTop
    BY <1>6 DEF UdpTop, Finish, NoPeers
  <1>7. CASE UdpTarget
    BY <1>7 DEF UdpTarget, NoPeers
  <1>8. CASE UdpRecover
    BY <1>8 DEF UdpRecover, NoPeers
  <1>9. CASE UdpSend
    BY <1>9 DEF UdpSend, Finish, NoPeers
  <1>10. CASE UdpReceive
    <2>1. cur' = cur /\ seen' = seen
      BY <1>10 DEF UdpReceive, Finish
    <2>2. ASSUME peers' = peers \/ peers' = NoPeers PROVE RelaysCurrent'
      BY <2>1, <2>2 DEF NoPeers
    <2>3. ASSUME NEW x \in Remotes, UdpPeer(x) PROVE RelaysCurrent'
      BY <2>1, <2>3 DEF UdpPeer, Relay, Typed, OutsideTyped
    <2>4. ASSUME NEW gone \in SUBSET DOMAIN peers, peers' = Drop(peers, gone) PROVE RelaysCurrent'
      BY <2>1, <2>4 DEF Drop
    <2> QED BY <1>10, <2>2, <2>3, <2>4 DEF UdpReceive, UdpAnswer, UdpExpiry, Finish
  <1>11. CASE TcpSession
    BY <1>11 DEF TcpSession, Sessions
  <1>12. CASE TcpKeeper
    BY <1>12 DEF TcpKeeper, TcpFail, NoPeers
  <1>13. CASE TcpAsk
    BY <1>13 DEF TcpAsk, TcpFail, NoPeers
  <1>14. CASE TcpPublish
    BY <1>14 DEF TcpPublish, TcpFail, NoPeers
  <1>15. CASE TcpRelay
    <2>1. cur' = cur /\ seen' = seen /\ cur = want.target
      BY <1>15 DEF TcpRelay, Sessions, TcpPcs
    <2>2. ASSUME NEW again, TcpFail(again) PROVE RelaysCurrent'
      BY <2>1, <2>2 DEF TcpFail, NoPeers
    <2>3. ASSUME NEW gone \in SUBSET DOMAIN peers, peers' = Drop(peers, gone) PROVE RelaysCurrent'
      BY <2>1, <2>3 DEF Drop
    <2>4. ASSUME NEW x \in Remotes, peers' = Relay(peers, x, want.target) PROVE RelaysCurrent'
      BY <2>1, <2>4 DEF Relay, Typed, OutsideTyped
    <2> QED BY <1>15, <2>2, <2>3, <2>4 DEF TcpRelay
  <1>16. ASSUME UNCHANGED <<peers, cur, seen>> PROVE RelaysCurrent'
    BY <1>16 DEF Mapping, RelaysCurrent
  <1>17. ASSUME Command \/ StopAsk \/ StopResetRequests \/ StopResetFollow
            \/ StopResetPort \/ StartFollow \/ StartPort \/ TcpEnded \/ MonPoll
            \/ MonLoad \/ MonExchange \/ MonFlag \/ Notify \/ NetworkChange
            \/ Relisten
        PROVE  UNCHANGED <<peers, cur, seen>>
    BY <1>17 DEF Command, StopAsk, StopResetRequests, StopResetFollow, StopResetPort,
        StartFollow, StartPort, TcpEnded, MonPoll, MonLoad, MonExchange, MonFlag, Notify,
        NetworkChange, Relisten, Acquire
  <1>18. CASE UNCHANGED vars
    BY <1>18 DEF vars, Typed, RelaysCurrent
  <1> QED BY <1>1, <1>2, <1>3, <1>4, <1>5, <1>6, <1>7, <1>8, <1>9, <1>10, <1>11, <1>12,
             <1>13, <1>14, <1>15, <1>16, <1>17, <1>18 DEF Next, Lifecycle, UdpWorker, TcpWorker, Monitor

\* The invariant holds at the start.
LEMMA MappingInit == ASSUME Init PROVE Mapping
  <1>1. NoWorker /\ Sessions /\ Answers
    BY DEF Init, NoWorker, Joined, Starting, Sessions, TcpPcs, Answers, Idle, NoStun
  <1>2. FreshObservation /\ RelaysCurrent
    BY DEF Init, FreshObservation, RelaysCurrent, NoSnap, NoPeers
  <1> QED BY <1>1, <1>2, TypedInit DEF Mapping

\* The inductive invariant holds in every reachable state.
THEOREM MappingInvariant == Spec => []Mapping
  <1>1. Mapping /\ [Next]_vars => Mapping'
    BY TypedNext, NoWorkerNext, SessionsNext, AnswersNext, FreshNext, RelaysNext DEF Mapping
  <1> QED BY MappingInit, <1>1, PTL DEF Spec

\* Once the worker has taken a recovery it publishes no address learnt by a request
\* sent before it, through any number of network changes, restarts and servers.
THEOREM FreshObservationHolds == Spec => []FreshObservation
  <1>1. Mapping => FreshObservation
    BY DEF Mapping
  <1> QED BY MappingInvariant, <1>1, PTL

\* A relayed peer's socket goes to the worker's target of now and was opened after
\* the last recovery it took.
THEOREM RelaysCurrentHolds == Spec => []RelaysCurrent
  <1>1. Mapping => RelaysCurrent
    BY DEF Mapping
  <1> QED BY MappingInvariant, <1>1, PTL
=============================================================================
