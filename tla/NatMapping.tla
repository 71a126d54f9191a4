------------------------------ MODULE NatMapping ------------------------------
(* UdpMappingService and TcpMappingService: a worker thread that keeps a       *)
(* mapping on the router open, publishes the public address a STUN server saw, *)
(* and relays peers to a local target.  Start and Stop run under a lifecycle   *)
(* lock and join the worker; the monitor of the application follows the port   *)
(* of the torrent listener; network changes and resumes from sleep ask for a   *)
(* recovery.  Both only set atomic flags, which the worker takes in its loop.  *)
(*                                                                             *)
(* The two services share Start, Stop, Snapshot and the recovery flag, so one  *)
(* module models them: "proto" is chosen at the beginning.  "route" counts the *)
(* network configurations.  A STUN transaction is known by the route and the   *)
(* server its request was sent to; the answer to an older transaction does not *)
(* match and changes nothing, so only the last one is kept.  Time is left to   *)
(* chance: a keepalive, an expiry or a retry may be due at any turn.           *)
EXTENDS Naturals, FiniteSets

CONSTANTS
    Protos,       \* services to model: "udp", "tcp"
    Ports,        \* ports of the torrent listener and of manual targets
    Bound,        \* the port the mapping is bound to
    NoPort,       \* port zero
    Remotes,      \* external endpoints
    MaxRelays,    \* 32 peers for UDP, maximumRelays for TCP
    Servers,      \* number of STUN servers configured
    MaxRoutes,    \* bound on network changes
    MaxListens,   \* bound on changes of the torrent listener
    MaxCommands   \* bound on Start and Stop

ASSUME MappingBounds ==
    /\ Protos \subseteq {"udp", "tcp"} /\ NoPort \notin Ports /\ Bound \in Ports
    /\ {Servers, MaxRoutes} \subseteq Nat \ {0}
    /\ {MaxRelays, MaxListens, MaxCommands} \subseteq Nat

VARIABLES
    proto,
    life,       \* who holds m_lifecycleMutex, and how far it got
    stop,       \* the stop token of the worker
    follow,     \* m_followTorrentTarget
    requested,  \* m_requestedTargetPort
    upd,        \* m_targetPortUpdateRequested
    rec,        \* m_networkRecoveryRequested
    snap,       \* m_snapshot
    pc,         \* where the worker is
    want,       \* what it was started with
    cur,        \* currentTargetPort
    peers,      \* peers or relays, with the target and the route of their socket
    stun,       \* the STUN side of the worker
    mon,        \* the monitor of the application
    listen,     \* the listener port of the torrent core
    route,      \* the network configuration
    told,       \* history: the last one a notification was about
    seen,       \* history: what had been told when the worker last took the flag
    commands, listens

flags   == <<follow, requested, upd, rec>>
worker  == <<pc, want, cur, peers, stun, seen>>
outside == <<listen, route, told, listens>>
vars == <<proto, life, stop, flags, snap, worker, mon, outside, commands>>

None == [route |-> 0, server |-> 0]     \* no transaction, no address
Targets == Ports \cup {NoPort}
NoSnap == [starting |-> FALSE, running |-> FALSE, follows |-> FALSE, avail |-> FALSE,
           target |-> NoPort, pub |-> None]
NoStun == [resolved |-> FALSE, server |-> 1, asked |-> None, due |-> FALSE]
NoPeers == [x \in {} |-> [port |-> NoPort, route |-> 0]]
NoWant == [follow |-> FALSE, target |-> NoPort]
NoRequest == [pc |-> "idle", port |-> NoPort]
Idle == [pc |-> "idle", op |-> "none", follow |-> FALSE, target |-> NoPort]

Udp == proto = "udp"

Init ==
    /\ proto \in Protos
    /\ life = Idle /\ stop = FALSE
    /\ follow = FALSE /\ requested = NoPort /\ upd = FALSE /\ rec = FALSE
    /\ snap = NoSnap /\ pc = "none" /\ want = NoWant
    /\ cur = NoPort /\ peers = NoPeers /\ stun = NoStun
    /\ mon = NoRequest
    /\ listen \in Targets /\ (Udp \/ listen = NoPort) /\ route = 1 /\ told = 1 /\ seen = 1
    /\ commands = 0 /\ listens = 0

-----------------------------------------------------------------------------
(* Start and Stop.  StopWorker joins the worker before it resets the flags.  *)

Acquire(op, f, t) ==
    /\ life.pc = "idle" /\ commands < MaxCommands
    /\ life' = [pc |-> "ask", op |-> op, follow |-> f, target |-> t]
    /\ commands' = commands + 1
    /\ UNCHANGED <<proto, stop, flags, snap, worker, mon, outside>>

(* A manual target, or the port the page just read for an automatic mapping. *)
(* A configured mapping port that equals it is refused at once, and nothing  *)
(* changes; where the system allocates the port, the UDP worker finds out.   *)
Command ==
    \/ Acquire("stop", FALSE, NoPort)
    \/ \E t \in Ports : (Udp \/ t # Bound) /\ Acquire("start", FALSE, t)
    \/ Udp /\ Acquire("start", TRUE, listen)

Goto(next) == life' = [life EXCEPT !.pc = next]

StopAsk ==
    /\ life.pc = "ask" /\ Goto("join")
    /\ stop' = (pc # "none")
    /\ UNCHANGED <<proto, flags, snap, worker, mon, outside, commands>>

StopJoin ==
    /\ life.pc = "join" /\ pc \in {"none", "done"} /\ Goto("resetAsk")
    /\ pc' = "none" /\ stop' = FALSE /\ want' = NoWant
    /\ cur' = NoPort /\ peers' = NoPeers /\ stun' = NoStun      \* locals of the thread
    /\ UNCHANGED <<proto, flags, snap, seen, mon, outside, commands>>

(* m_networkRecoveryRequested and m_targetPortUpdateRequested                *)
StopResetRequests ==
    /\ life.pc = "resetAsk" /\ Goto("resetFollow")
    /\ rec' = FALSE /\ upd' = FALSE
    /\ UNCHANGED <<proto, stop, follow, requested, snap, worker, mon, outside, commands>>

StopResetFollow ==
    /\ life.pc = "resetFollow" /\ Goto("resetPort")
    /\ follow' = FALSE
    /\ UNCHANGED <<proto, stop, requested, upd, rec, snap, worker, mon, outside, commands>>

StopResetPort ==
    /\ life.pc = "resetPort" /\ requested' = NoPort /\ snap' = NoSnap
    /\ IF life.op = "stop" THEN life' = Idle ELSE Goto("startAsk")
    /\ UNCHANGED <<proto, stop, follow, upd, rec, worker, mon, outside, commands>>

StartResetRequests ==
    /\ life.pc = "startAsk" /\ Goto("startFollow")
    /\ rec' = FALSE /\ upd' = FALSE /\ seen' = told
    /\ UNCHANGED <<proto, stop, follow, requested, snap, pc, want, cur, peers, stun, mon, outside, commands>>

StartFollow ==
    /\ life.pc = "startFollow" /\ Goto("startPort")
    /\ follow' = life.follow
    /\ UNCHANGED <<proto, stop, requested, upd, rec, snap, worker, mon, outside, commands>>

StartPort ==
    /\ life.pc = "startPort" /\ Goto("spawn")
    /\ requested' = IF Udp THEN life.target ELSE requested
    /\ UNCHANGED <<proto, stop, follow, upd, rec, snap, worker, mon, outside, commands>>

\* the update flag is cleared as the thread is created, after the monitor was let in
StartSpawnClears ==
    /\ life.pc = "spawn" /\ life' = Idle /\ upd' = FALSE
    /\ snap' = [NoSnap EXCEPT !.starting = TRUE, !.follows = life.follow,
                              !.avail = life.target # NoPort, !.target = life.target]
    /\ want' = [follow |-> life.follow, target |-> life.target]
    /\ pc' = IF Udp THEN "bind" ELSE "session"
    /\ cur' = life.target /\ peers' = NoPeers /\ stun' = NoStun
    /\ UNCHANGED <<proto, stop, follow, requested, rec, seen, mon, outside, commands>>

(* The snapshot is reset, then the thread is created.                        *)
StartSpawn ==
    /\ life.pc = "spawn" /\ life' = Idle
    /\ snap' = [NoSnap EXCEPT !.starting = TRUE, !.follows = life.follow,
                              !.avail = life.target # NoPort, !.target = life.target]
    /\ want' = [follow |-> life.follow, target |-> life.target]
    /\ pc' = IF Udp THEN "bind" ELSE "session"
    /\ cur' = life.target /\ peers' = NoPeers /\ stun' = NoStun
    /\ UNCHANGED <<proto, stop, flags, seen, mon, outside, commands>>

Lifecycle ==
    \/ StopAsk \/ StopJoin \/ StopResetRequests \/ StopResetFollow \/ StopResetPort
    \/ StartResetRequests \/ StartFollow \/ StartPort \/ StartSpawn

-----------------------------------------------------------------------------
(* The UDP worker.                                                           *)

Unpublished(s) == [s EXCEPT !.pub = None]

(* finish(), and the catch around Run                                        *)
Finish ==
    /\ pc' = "done" /\ upd' = FALSE /\ follow' = FALSE
    /\ snap' = [Unpublished(snap) EXCEPT !.running = FALSE, !.starting = FALSE,
                                         !.follows = FALSE, !.avail = FALSE]
    /\ peers' = NoPeers /\ UNCHANGED <<requested, rec, want, cur, stun, seen>>

(* Winsock, the socket, its port, and the first resolution; any may fail.    *)
UdpBind ==
    /\ pc = "bind"
    /\ \/ Finish
       \/ /\ want.target # Bound /\ pc' = "resolve"
          /\ UNCHANGED <<snap, flags, want, cur, peers, stun, seen>>
    /\ UNCHANGED <<proto, life, stop, mon, outside, commands>>

UdpResolve ==
    /\ pc = "resolve"
    /\ \/ Finish
       \/ /\ ~stop /\ pc' = "top"
          /\ \E n \in 1..Servers : stun' = [resolved |-> TRUE, server |-> n, asked |-> None, due |-> TRUE]
          /\ snap' = [snap EXCEPT !.running = TRUE, !.starting = FALSE]
          /\ UNCHANGED <<flags, want, cur, peers, seen>>
    /\ UNCHANGED <<proto, life, stop, mon, outside, commands>>

\* the worker looks at the target before the stop token
UdpTopIgnores ==
    /\ pc = "top" /\ pc' = IF upd THEN "target" ELSE "recover"
    /\ upd' = FALSE
    /\ UNCHANGED <<proto, life, stop, follow, requested, rec, snap, want, cur, peers, stun, seen, mon, outside, commands>>

(* The head of the loop: the stop token, then the flag of a new target.      *)
UdpTop ==
    /\ pc = "top"
    /\ IF stop THEN Finish
       ELSE /\ pc' = IF upd THEN "target" ELSE "recover"
            /\ upd' = FALSE
            /\ UNCHANGED <<follow, requested, rec, snap, want, cur, peers, stun, seen>>
    /\ UNCHANGED <<proto, life, stop, mon, outside, commands>>

\* peers of the old target are kept
UdpTargetKeeps ==
    /\ pc = "target" /\ pc' = "recover"
    /\ cur' = IF requested = Bound THEN NoPort ELSE requested
    /\ snap' = [snap EXCEPT !.target = requested, !.avail = requested \notin {Bound, NoPort}]
    /\ UNCHANGED <<proto, life, stop, flags, want, peers, stun, seen, mon, outside, commands>>

UdpTarget ==
    /\ pc = "target" /\ pc' = "recover"
    /\ peers' = NoPeers
    /\ cur' = IF requested = Bound THEN NoPort ELSE requested
    /\ snap' = [snap EXCEPT !.target = requested, !.avail = requested \notin {Bound, NoPort}]
    /\ UNCHANGED <<proto, life, stop, flags, want, stun, seen, mon, outside, commands>>

UdpRecover ==
    /\ pc = "recover" /\ pc' = "send"
    /\ rec' = FALSE
    /\ IF rec THEN /\ peers' = NoPeers /\ stun' = [stun EXCEPT !.resolved = FALSE]
                   /\ snap' = Unpublished(snap) /\ seen' = told
              ELSE UNCHANGED <<peers, stun, snap, seen>>
    /\ UNCHANGED <<proto, life, stop, follow, requested, upd, want, cur, mon, outside, commands>>

\* Run does not reset the STUN timer after it resolved a server again
ResolvedKeepsTimer ==
    {stun} \cup IF stun.resolved \/ stop THEN {}
               ELSE {[stun EXCEPT !.resolved = TRUE, !.server = n] : n \in 1..Servers}

(* Resolution fails, or its time has not come, or it selects a server.       *)
Resolved ==
    {stun} \cup IF stun.resolved \/ stop THEN {}
               ELSE {[stun EXCEPT !.resolved = TRUE, !.server = n, !.due = TRUE] : n \in 1..Servers}

(* After a resolution a request is due; it carries a new transaction.  The   *)
(* worker ends where no random number is to be had.                          *)
UdpSend ==
    /\ pc = "send"
    /\ \E s \in Resolved :
          \/ s.resolved /\ Finish
          \/ /\ s.resolved /\ pc' = "select"
             /\ stun' = [s EXCEPT !.asked = [route |-> route, server |-> s.server], !.due = FALSE]
             /\ UNCHANGED <<flags, snap, want, cur, peers, seen>>
          \/ /\ ~s.resolved \/ ~s.due
             /\ pc' = "select" /\ stun' = s /\ UNCHANGED <<flags, snap, want, cur, peers, seen>>
    /\ UNCHANGED <<proto, life, stop, mon, outside, commands>>

Drop(p, gone) == [x \in DOMAIN p \ gone |-> p[x]]
Relay(p, x, port) == [y \in DOMAIN p \cup {x} |-> IF y \in DOMAIN p THEN p[y]
                                                  ELSE [port |-> port, route |-> route]]

(* The answer of the selected server to the last transaction.                *)
UdpAnswer ==
    /\ stun.resolved /\ stun.asked # None /\ stun.asked.server = stun.server
    /\ snap' = [snap EXCEPT !.pub = stun.asked] /\ UNCHANGED <<peers, stun>>

UdpPeer(x) ==
    /\ stun.resolved /\ cur # NoPort
    /\ x \in DOMAIN peers \/ Cardinality(DOMAIN peers) < MaxRelays
    /\ peers' = Relay(peers, x, cur) /\ UNCHANGED <<snap, stun>>

\* the index of the next server is not wrapped
UdpExpiryRunsOver ==
    /\ stun.resolved /\ snap' = Unpublished(snap) /\ peers' = NoPeers
    /\ stun' = [stun EXCEPT !.server = @ + 1, !.resolved = FALSE]

(* No answer for responseExpiry: the next server, if there is one.           *)
UdpExpiry ==
    /\ stun.resolved /\ snap' = Unpublished(snap)
    /\ IF Servers = 1 THEN UNCHANGED <<stun, peers>>
       ELSE /\ peers' = NoPeers
            /\ stun' = [stun EXCEPT !.server = (@ % Servers) + 1, !.resolved = FALSE]

(* A turn of the loop drops idle peers, handles at most one datagram of the  *)
(* outside and looks at the expiry; two of them in one turn are two turns    *)
(* here.  Any other datagram, and any while unresolved, is dropped.          *)
UdpReceive ==
    /\ pc = "select"
    /\ \/ /\ pc' = "top"
          /\ \/ UdpAnswer \/ UdpExpiry
             \/ \E x \in Remotes : UdpPeer(x)
             \/ \E gone \in SUBSET DOMAIN peers : peers' = Drop(peers, gone) /\ UNCHANGED <<snap, stun>>
          /\ UNCHANGED <<flags, want, cur, seen>>
       \/ Finish
    /\ UNCHANGED <<proto, life, stop, mon, outside, commands>>

UdpWorker ==
    \/ UdpBind \/ UdpResolve \/ UdpTop \/ UdpTarget \/ UdpRecover \/ UdpSend \/ UdpReceive

-----------------------------------------------------------------------------
(* The TCP worker: sessions, each with its keeper connection, one STUN       *)
(* exchange, and relays, until an error or a recovery ends it.               *)

TcpEnds == [Unpublished(snap) EXCEPT !.running = FALSE, !.starting = FALSE]

TcpSession ==
    /\ pc = "session"
    /\ IF stop THEN pc' = "done" /\ snap' = TcpEnds /\ UNCHANGED <<rec, seen>>
       ELSE pc' = "keeper" /\ rec' = FALSE /\ seen' = told /\ UNCHANGED snap
    /\ UNCHANGED <<proto, life, stop, follow, requested, upd, want, cur, peers, stun, mon, outside, commands>>

(* Name resolution, connections and exact reads give up on stop or recovery; *)
(* "again" is false where the session asks not to be retried.                *)
TcpFail(again) ==
    pc' = (IF again THEN "retry" ELSE "giveUp") /\ peers' = NoPeers

TcpKeeper ==
    /\ pc = "keeper"
    /\ \/ pc' = "exchange" /\ ~stop /\ ~rec /\ UNCHANGED peers
       \/ \E again \in BOOLEAN : TcpFail(again)
    /\ UNCHANGED <<proto, life, stop, flags, snap, want, cur, stun, seen, mon, outside, commands>>

(* One of the servers answers over a connection of this session.             *)
TcpAsk ==
    /\ pc = "exchange"
    /\ \/ /\ ~stop /\ ~rec /\ pc' = "answer" /\ UNCHANGED peers
          /\ \E n \in 1..Servers : stun' = [stun EXCEPT !.asked = [route |-> route, server |-> n]]
       \/ \E again \in BOOLEAN : TcpFail(again) /\ UNCHANGED stun
    /\ UNCHANGED <<proto, life, stop, flags, snap, want, cur, seen, mon, outside, commands>>

\* RunSession clears the flag when it publishes, not when it begins
TcpPublishClears ==
    /\ pc = "answer"
    /\ \/ /\ pc' = "relay" /\ rec' = FALSE /\ UNCHANGED peers
          /\ snap' = [snap EXCEPT !.running = TRUE, !.starting = FALSE, !.pub = stun.asked]
       \/ TcpFail(FALSE) /\ UNCHANGED <<snap, rec>>
    /\ UNCHANGED <<proto, life, stop, follow, requested, upd, want, cur, stun, seen, mon, outside, commands>>

(* The answer is published once the listener shares the port.                *)
TcpPublish ==
    /\ pc = "answer"
    /\ \/ /\ pc' = "relay" /\ UNCHANGED peers
          /\ snap' = [snap EXCEPT !.running = TRUE, !.starting = FALSE, !.pub = stun.asked]
       \/ TcpFail(FALSE) /\ UNCHANGED snap
    /\ UNCHANGED <<proto, life, stop, flags, want, cur, stun, seen, mon, outside, commands>>

TcpRelay ==
    /\ pc = "relay"
    /\ IF stop \/ rec THEN TcpFail(rec)
       ELSE \/ UNCHANGED pc /\ \E gone \in (SUBSET DOMAIN peers) : peers' = Drop(peers, gone)
            \/ /\ Cardinality(DOMAIN peers) < MaxRelays /\ UNCHANGED pc
               /\ \E x \in Remotes \ DOMAIN peers : peers' = Relay(peers, x, want.target)
            \/ TcpFail(TRUE)
    /\ UNCHANGED <<proto, life, stop, flags, snap, want, cur, stun, seen, mon, outside, commands>>

(* What Run does with a session that ended, and the wait before the next.    *)
TcpEnded ==
    /\ pc \in {"retry", "giveUp"}
    /\ IF stop \/ pc = "giveUp"
       THEN pc' = "done" /\ snap' = TcpEnds
       ELSE pc' = "session" /\ snap' = [TcpEnds EXCEPT !.starting = TRUE]
    /\ UNCHANGED <<proto, life, stop, flags, want, cur, peers, stun, seen, mon, outside, commands>>

TcpWorker == TcpSession \/ TcpKeeper \/ TcpAsk \/ TcpPublish \/ TcpRelay \/ TcpEnded

-----------------------------------------------------------------------------
(* The monitor of the application polls the listener while the mapping says  *)
(* that it follows it; RequestAutomaticTargetPort makes three accesses.      *)

MonPoll ==
    /\ mon.pc = "idle" /\ snap.follows
    /\ mon' = [pc |-> "load", port |-> listen]
    /\ UNCHANGED <<proto, life, stop, flags, snap, worker, outside, commands>>

MonLoad ==
    /\ mon.pc = "load"
    /\ mon' = IF follow THEN [mon EXCEPT !.pc = "exchange"] ELSE NoRequest
    /\ UNCHANGED <<proto, life, stop, flags, snap, worker, outside, commands>>

MonExchange ==
    /\ mon.pc = "exchange" /\ requested' = mon.port
    /\ mon' = IF requested # mon.port THEN [mon EXCEPT !.pc = "flag"] ELSE NoRequest
    /\ UNCHANGED <<proto, life, stop, follow, upd, rec, snap, worker, outside, commands>>

MonFlag ==
    /\ mon.pc = "flag" /\ upd' = TRUE
    /\ mon' = NoRequest
    /\ UNCHANGED <<proto, life, stop, follow, requested, rec, snap, worker, outside, commands>>

Monitor == MonPoll \/ MonLoad \/ MonExchange \/ MonFlag

(* RequestNetworkRecovery, called by the notification of a network change or *)
(* of a resume from sleep.                                                   *)
Notify ==
    /\ told < route /\ told' = route /\ rec' = TRUE
    /\ UNCHANGED <<proto, life, stop, follow, requested, upd, snap, worker, mon, listen, route, listens, commands>>

(* The network changes; the torrent core stops, starts or binds again, which *)
(* only UDP mappings look at.                                                *)
NetworkChange ==
    /\ route < MaxRoutes /\ route' = route + 1
    /\ UNCHANGED <<proto, life, stop, flags, snap, worker, mon, listen, told, listens, commands>>

Relisten ==
    /\ Udp /\ listens < MaxListens /\ listens' = listens + 1
    /\ \E p \in Targets \ {listen} : listen' = p
    /\ UNCHANGED <<proto, life, stop, flags, snap, worker, mon, route, told, commands>>

Next ==
    \/ Command \/ Lifecycle \/ UdpWorker \/ TcpWorker
    \/ Monitor \/ Notify \/ NetworkChange \/ Relisten

Spec == Init /\ [][Next]_vars

(* Every thread runs; what it waits for outside is a choice of its step.     *)
FairSpec ==
    /\ Spec
    /\ WF_vars(Lifecycle) /\ WF_vars(UdpWorker) /\ WF_vars(TcpWorker)
    /\ WF_vars(Monitor) /\ WF_vars(Notify)

-----------------------------------------------------------------------------
Transactions == [route : 0..MaxRoutes, server : 0..Servers]
Alive == pc \notin {"none", "done"}

(* Every variable keeps to its values, and no more peers are relayed than    *)
(* select can wait for.                                                      *)
TypeOK ==
    /\ life \in [pc : {"idle", "ask", "join", "resetAsk", "resetFollow", "resetPort",
                       "startAsk", "startFollow", "startPort", "spawn"},
                 op : {"none", "start", "stop"}, follow : BOOLEAN, target : Targets]
    /\ {stop, follow, upd, rec} \subseteq BOOLEAN /\ requested \in Targets
    /\ snap \in [starting : BOOLEAN, running : BOOLEAN, follows : BOOLEAN, avail : BOOLEAN,
                 target : Targets, pub : Transactions]
    /\ pc \in {"none", "bind", "resolve", "top", "target", "recover", "send", "select",
               "session", "keeper", "exchange", "answer", "relay", "retry", "giveUp", "done"}
    /\ want \in [follow : BOOLEAN, target : Targets] /\ cur \in Targets
    /\ DOMAIN peers \subseteq Remotes /\ Cardinality(DOMAIN peers) <= MaxRelays
    /\ stun \in [resolved : BOOLEAN, server : 1..Servers, asked : Transactions, due : BOOLEAN]
    /\ mon \in [pc : {"idle", "load", "exchange", "flag"}, port : Targets]
    /\ listen \in Targets /\ route \in 1..MaxRoutes /\ told \in 1..route /\ seen \in 1..told
    /\ commands \in 0..MaxCommands /\ listens \in 0..MaxListens

(* Once the worker has taken a recovery, it publishes no address learnt by a *)
(* request sent before it, however late the answer arrives.                  *)
FreshObservation == snap.pub # None => snap.pub.route >= seen

(* A relayed peer's socket goes to the target the worker has now, and was    *)
(* opened after the last recovery it took.                                   *)
RelaysCurrent ==
    \A x \in DOMAIN peers : peers[x].port = cur /\ peers[x].route >= seen

(* An address seen before a network change that was notified is withdrawn.   *)
Stale == snap.pub # None /\ snap.pub.route < told
StaleCleared == Stale ~> ~Stale

(* An automatic mapping that lasts ends up relaying to the listener's port,  *)
(* through every interleaving of the monitor with Start and the worker; the  *)
(* listener stops changing after MaxListens.                                 *)
Following == Alive /\ Udp /\ want.follow
OnTarget == cur = IF listen = Bound THEN NoPort ELSE listen
TargetFollows == <>[]Following => <>[]OnTarget

(* Start and Stop return: the worker leaves every wait it can be in.         *)
StopReturns == life.pc = "join" ~> life.pc # "join"
=============================================================================
