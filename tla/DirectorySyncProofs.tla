------------------------- MODULE DirectorySyncProofs -------------------------
(* Machine-checked proofs about DirectorySync: its types, that a registration  *)
(* the directory has committed can be repeated, that no change of the catalog  *)
(* is lost, and that the resources counted as announced are known.             *)
EXTENDS DirectorySync, FiniteSetTheorems, TLAPS

-----------------------------------------------------------------------------
(* The inductive invariant.  Its first four parts hold of every directory and  *)
(* every network; Quiet needs requests that die with their client, and         *)
(* Announced a directory that keeps a node whose lease ran out.                *)

\* The worker's loop runs exactly while the service does, and every id in use
\* was drawn by the client.
Bounded == TypeOK /\ db.preg \in 0 .. regs /\ mem.preg \in 0 .. regs

Running ==
    /\ svc = "off" <=> At("off")
    /\ At("exit") => svc = "stopping"

\* What the directory holds or is about to receive is at most one generation
\* ahead of the settings, and then it is their pending registration.
Pending(gen, reg) ==
    /\ gen <= db.gen + 1
    /\ gen = db.gen + 1 => db.pgen = gen /\ db.preg = reg /\ reg # 0
Repeatable ==
    /\ Pending(srv.gen, srv.reg)
    /\ \A r \in net : Pending(r.gen, r.reg)

\* Nothing of the next generation has left the client.
Unsent == srv.gen <= db.gen /\ \A r \in net : r.gen <= db.gen

\* How the worker's copies and the settings differ at each write.
Recorded == {"saveLease", "dropGeneration", "dropRegistration"}
KeysAgree ==
    /\ svc # "off" => mem.gen = db.gen
    /\ svc # "off" /\ ~At("dropRegistration") => mem.pgen = db.pgen
    /\ svc # "off" /\ ~At("savePending") => mem.preg = db.preg
    /\ wk.pc \in {"savePending", "send", "sent"} => mem.pgen = mem.gen + 1 /\ mem.preg # 0
    /\ wk.pc \in Recorded \cup {"savePending"} => Unsent
    /\ At("dropRegistration") => db.pgen = 0
    /\ At("sent") /\ reply.kind = "ok" => reply.gen = mem.pgen

Memory == Running /\ Repeatable /\ KeysAgree
Core == Bounded /\ Memory

\* From the attempt's revision to its mark; the inventory is read first.
Attempting == {"snapshot", "savePending", "send", "sent", "saveLease",
               "dropGeneration", "dropRegistration", "mark"}
Fresh == sync.rev = wk.attempt /\ notices = 0

\* A request is under way only while the worker waits for its answer.
OneRequest ==
    /\ ~(wk.pc \in {"sent", "exit"}) => net = {}
    /\ \A r \in net : r.gen # 0
    /\ At("sent") => net \subseteq {Request} /\ (reply.kind # "none" => net = {})

\* An attempt starts from something to publish, and the revisions only grow.
Revisions ==
    /\ svc # "off" => sync.announced <= sync.rev /\ sync.synced <= sync.rev
    /\ svc # "off" /\ mem.lease = 0 => sync.synced < sync.rev \/ At("bump")
    /\ wk.pc \in Attempting => /\ wk.attempt <= sync.rev /\ sync.synced < sync.rev
                               /\ sync.announced <= wk.attempt
    /\ wk.pc \in {"announceSnap", "announce"} => wk.resAttempt <= sync.rev

\* The inventory of an attempt is the catalog as long as nothing changed, and
\* the directory's under the lease the attempt was answered with.
Holds(lease) == lease # 0 /\ (srv.lease = lease => srv.inv = wk.snap)
Inventory ==
    /\ wk.pc \in Attempting \ {"snapshot"} /\ Fresh => wk.snap = catalog
    /\ At("sent") /\ reply.kind = "ok" => Holds(reply.lease)
    /\ wk.pc \in Recorded \cup {"mark"} => Holds(mem.lease)
    /\ srv.gen # 0 \/ srv.alive => srv.lease # 0

Synchronized ==
    svc # "off" /\ ~At("exit") /\ sync.synced = sync.rev /\ notices = 0 /\ LeaseGood
        => srv.inv = catalog

Quiet == OneRequest /\ Revisions /\ Inventory /\ Synchronized

\* What has been announced is known, and so is what this pass has announced.
Announced ==
    /\ svc # "off" /\ ~At("exit") /\ sync.announced = sync.rev /\ notices = 0
           => catalog \subseteq srv.res
    /\ At("announce") /\ wk.all /\ wk.resAttempt = sync.rev /\ notices = 0
           => catalog \ wk.todo \subseteq srv.res

-----------------------------------------------------------------------------
(* Types. *)

Work == [pc : WorkerPcs, attempt : Nat, failed : BOOLEAN, resAttempt : Nat,
         snap : SUBSET Contents, todo : SUBSET Contents, all : BOOLEAN]
Nodes(ids, drawn) == [gen : Nat, reg : ids, lease : drawn, alive : BOOLEAN,
                      inv : SUBSET Contents, res : SUBSET Contents]
Requests(ids) == [gen : Nat, reg : ids, prev : Nat, inv : SUBSET Contents]

\* The pending registration is written as a pair.
LEMMA PendingSet ==
  ASSUME mem \in Keys, NEW gen \in Nat, NEW reg \in Nat,
         mem' = [mem EXCEPT !.pgen = gen, !.preg = reg]
  PROVE  mem' \in Keys
  BY DEF Keys

\* The writes around a registration keep the types; a new id is one more than the last.
LEMMA RegistrationTyped == ASSUME Bounded, Registration PROVE Bounded'
  <1> USE DEF Bounded, TypeOK, Keys, WorkerPcs, StopPcs, client, seeds, server, counts, At,
              Goto, NoCounts, CatalogOnly, Loss, NoLoss, Advance, NextPass, NoWork
  <1>1. CASE TopDirty
    BY <1>1 DEF TopDirty
  <1>2. CASE Snapshot
    <2>1. 0 .. regs \subseteq 0 .. regs' /\ regs' \in Nat
      BY <1>2 DEF Snapshot
    <2>2. mem' \in Keys
      <3>1. mem' = mem \/ mem' = [mem EXCEPT !.pgen = mem.gen + 1, !.preg = regs + 1]
        BY <1>2 DEF Snapshot
      <3>2. mem.gen + 1 \in Nat /\ regs + 1 \in Nat /\ mem \in Keys
        OBVIOUS
      <3> QED BY <3>1, <3>2, PendingSet
    <2>6. mem'.preg \in 0 .. regs'
      <3>1. CASE regs' = regs /\ mem' = mem
        BY <3>1
      <3>2. CASE regs' = regs + 1 /\ mem' = [mem EXCEPT !.pgen = mem.gen + 1, !.preg = regs + 1]
        <4>1. mem'.preg = regs + 1
          BY <3>2
        <4> QED BY <4>1, <3>2
      <3> QED BY <1>2, <3>1, <3>2 DEF Snapshot
    <2>3. db' \in Keys /\ db'.preg \in 0 .. regs'
      BY <1>2 DEF Snapshot
    <2>4. srv' \in Nodes(0 .. regs', 0 .. leases) /\ net' \subseteq Requests(0 .. regs')
      BY <1>2, <2>1 DEF Snapshot, Nodes, Requests
    <2>5. wk' \in Work
      <3>1. \/ wk' = [wk EXCEPT !.pc = "savePending", !.snap = catalog]
            \/ wk' = [wk EXCEPT !.pc = "send", !.snap = catalog]
        BY <1>2 DEF Snapshot
      <3> QED BY <3>1 DEF Work
    <2> QED BY <1>2, <2>1, <2>2, <2>3, <2>4, <2>5, <2>6 DEF Snapshot, Work, Nodes, Requests
  <1>3. CASE SavePending
    BY <1>3 DEF SavePending
  <1>4. CASE Send
    BY <1>4 DEF Send, Request, NoReply
  <1>5. CASE RegisterOk
    BY <1>5 DEF RegisterOk
  <1>6. CASE RegisterFail
    <2>1. net' \subseteq net /\ losses' \in Nat
      BY <1>6 DEF RegisterFail
    <2>2. wk' \in Work
      BY <1>6 DEF RegisterFail, Work
    <2> QED BY <1>6, <2>1, <2>2 DEF RegisterFail, Work, NoReply
  <1>7. CASE SaveLease
    BY <1>7 DEF SaveLease
  <1>8. CASE DropGeneration
    BY <1>8 DEF DropGeneration
  <1>9. CASE DropRegistration
    <2>1. mem' \in Keys
      <3>1. mem' = [mem EXCEPT !.pgen = 0, !.preg = 0] /\ mem \in Keys
        BY <1>9 DEF DropRegistration
      <3> QED BY <3>1, PendingSet
    <2>3. mem'.preg \in 0 .. regs
      BY <1>9 DEF DropRegistration
    <2>2. db' \in Keys /\ db'.preg \in 0 .. regs
      BY <1>9 DEF DropRegistration
    <2> QED BY <1>9, <2>1, <2>2, <2>3 DEF DropRegistration
  <1>10. CASE Mark
    BY <1>10 DEF Mark, NoReply
  <1> QED BY <1>1, <1>2, <1>3, <1>4, <1>5, <1>6, <1>7, <1>8, <1>9, <1>10 DEF Registration

\* A heartbeat gives the lease up at worst.
LEMMA HeartbeatTyped == ASSUME Bounded, Heartbeat PROVE Bounded'
  <1> USE DEF Bounded, TypeOK, Keys, WorkerPcs, StopPcs, client, seeds, server, counts, At,
              Goto, NoCounts, CatalogOnly, Loss, NoLoss, Advance, NextPass, NoWork
  <1>1. CASE TopIdle
    BY <1>1 DEF TopIdle
  <1>2. CASE BeatOk
    BY <1>2 DEF BeatOk
  <1>3. CASE BeatFail
    BY <1>3 DEF BeatFail
  <1>4. CASE BeatBump
    BY <1>4 DEF BeatBump
  <1> QED BY <1>1, <1>2, <1>3, <1>4 DEF Heartbeat

\* An announcement adds one content to the directory's resources.
LEMMA AnnouncementTyped == ASSUME Bounded, Announcement PROVE Bounded'
  <1> USE DEF Bounded, TypeOK, Keys, WorkerPcs, StopPcs, client, seeds, server, counts, At,
              Goto, NoCounts, CatalogOnly, Loss, NoLoss, Advance, NextPass, NoWork
  <1>1. CASE AnnounceRev
    BY <1>1 DEF AnnounceRev
  <1>2. CASE AnnounceSnap
    BY <1>2 DEF AnnounceSnap
  <1>3. CASE AnnounceMark
    BY <1>3 DEF AnnounceMark
  <1>4. ASSUME NEW c \in Contents, AnnounceResource(c) PROVE Bounded'
    <2> PICK taken \in BOOLEAN, told \in BOOLEAN :
           /\ IF told \/ ~(LeaseGood /\ c \in srv.inv) THEN NoLoss ELSE Loss
           /\ srv' = IF taken THEN [srv EXCEPT !.res = @ \cup {c}] ELSE srv
           /\ wk' = [wk EXCEPT !.todo = @ \ {c}, !.all = @ /\ told]
      BY <1>4, Zenon DEF AnnounceResource
    <2>1. losses' \in Nat
      OBVIOUS
    <2>2. srv' \in Nodes(0 .. regs, 0 .. leases)
      BY DEF Nodes
    <2>3. wk' \in Work
      BY DEF Work
    <2> QED BY <1>4, <2>1, <2>2, <2>3 DEF AnnounceResource, Work, Nodes
  <1> QED BY <1>1, <1>2, <1>3, <1>4 DEF Announcement

\* A set of wakeups is finite, so they can be counted.
LEMMA WakeupsTyped == ASSUME Bounded, Wakeups PROVE Bounded'
  <1> USE DEF Bounded, TypeOK, Keys, WorkerPcs, StopPcs, client, seeds, server, counts, At,
              Goto, NoCounts, CatalogOnly, Loss, NoLoss, Advance, NextPass, NoWork
  <1>1. CASE PollWakeups
    <2>1. \A W \in SUBSET srv.inv : W \subseteq Contents /\ Cardinality(W) \in Nat
      BY SyncBounds, FS_Subset, FS_CardinalityType
    <2>4. wakes' \in Nat /\ wk' \in Work
      <3>1. ASSUME NEW W \in SUBSET srv.inv, wakes' = wakes + Cardinality(W),
                   wk' = [wk EXCEPT !.pc = "wake", !.todo = W]
            PROVE  wakes' \in Nat /\ wk' \in Work
        <4>1. W \subseteq Contents /\ Cardinality(W) \in Nat
          BY <2>1
        <4>2. wakes' \in Nat
          BY <3>1, <4>1
        <4> QED BY <3>1, <4>1, <4>2 DEF Work
      <3>2. CASE Goto("expire") /\ UNCHANGED wakes
        BY <3>2 DEF Work
      <3> QED BY <1>1, <3>1, <3>2, Zenon DEF PollWakeups
    <2>5. losses' \in Nat
      <3>1. NoLoss \/ Loss
        BY <1>1 DEF PollWakeups
      <3> QED BY <3>1
    <2> QED BY <1>1, <2>4, <2>5 DEF PollWakeups, Work
  <1>2. CASE CompleteWakeup
    BY <1>2 DEF CompleteWakeup
  <1>3. CASE WakeDone
    BY <1>3 DEF WakeDone
  <1>4. CASE ExpireSeeds
    BY <1>4 DEF ExpireSeeds
  <1>5. ASSUME NEW c \in Contents, WakeOpen(c) PROVE Bounded'
    BY <1>5 DEF WakeOpen
  <1>6. ASSUME NEW c \in Contents, WakeModified(c) PROVE Bounded'
    BY <1>6 DEF WakeModified
  <1>7. ASSUME NEW c \in Contents, WakeRefuse(c) PROVE Bounded'
    BY <1>7 DEF WakeRefuse
  <1> QED BY <1>1, <1>2, <1>3, <1>4, <1>5, <1>6, <1>7 DEF Wakeups

\* The directory draws leases and takes over what a request carries.
LEMMA DirectoryTyped == ASSUME Bounded, Directory PROVE Bounded'
  <1> USE DEF Bounded, TypeOK, Keys, WorkerPcs, StopPcs, client, seeds, server, counts, At,
              Goto, NoCounts, CatalogOnly, Loss, NoLoss, Advance, NextPass, NoWork
  <1>1. CASE ServerRegister
    <2> PICK r \in net : /\ net' = net \ {r}
                         /\ ServerAccept(r) \/ ServerRepeat(r) \/ ServerRefuse(r)
      BY <1>1 DEF ServerRegister
    <2>1. r.gen \in Nat /\ r.reg \in 0 .. regs /\ r.inv \subseteq Contents
      OBVIOUS
    <2>2. leases' \in Nat /\ 0 .. leases \subseteq 0 .. leases'
      BY DEF ServerAccept, ServerRepeat, ServerRefuse
    <2>3. srv' \in Nodes(0 .. regs, 0 .. leases')
      <3>1. CASE ServerAccept(r)
        BY <3>1, <2>1, <2>2 DEF ServerAccept, Nodes
      <3>2. CASE ServerRepeat(r)
        BY <3>2, <2>1 DEF ServerRepeat, Nodes
      <3>3. CASE ServerRefuse(r)
        BY <3>3 DEF ServerRefuse, Nodes
      <3> QED BY <3>1, <3>2, <3>3
    <2>4. reply' \in [kind : {"none", "ok", "refused"}, gen : Nat, lease : Nat]
      BY <2>1 DEF ServerAccept, ServerRepeat, ServerRefuse, Answer, NoReply
    <2> QED BY <1>1, <2>2, <2>3, <2>4 DEF ServerRegister, Nodes
  <1>2. CASE LeaseLapses
    <2>1. losses' \in Nat
      BY <1>2 DEF LeaseLapses
    <2>2. srv' \in Nodes(0 .. regs, 0 .. leases)
      BY <1>2 DEF LeaseLapses, Nodes
    <2> QED BY <1>2, <2>1, <2>2 DEF LeaseLapses, Nodes
  <1>3. CASE ServerPurges
    BY <1>3 DEF ServerPurges, NoNode
  <1> QED BY <1>1, <1>2, <1>3 DEF Directory

\* A process that starts reads the settings, one that ends forgets the rest.
LEMMA ServiceTyped == ASSUME Bounded, Service PROVE Bounded'
  <1> USE DEF Bounded, TypeOK, Keys, WorkerPcs, StopPcs, client, seeds, server, counts, At,
              Goto, NoCounts, CatalogOnly, Loss, NoLoss, Advance, NextPass, NoWork
  <1>1. CASE Start
    <2>1. sync' \in [rev : Nat, synced : Nat, announced : Nat]
      BY <1>1 DEF Start
    <2>2. wk' \in Work
      BY <1>1 DEF Start, Work
    <2> QED BY <1>1, <2>1, <2>2 DEF Start, Work
  <1>2. CASE Stop
    BY <1>2 DEF Stop
  <1>3. CASE Crash
    <2>1. wk' \in Work
      BY <1>3 DEF ProcessEnds, Crash, Work
    <2>2. net' \subseteq net /\ mem' \in Keys /\ mem'.preg \in 0 .. regs
      BY <1>3 DEF ProcessEnds, Crash, NoKeys
    <2> QED BY <1>3, <2>1, <2>2 DEF ProcessEnds, Crash, Work, NoReply
  <1> QED BY <1>1, <1>2, <1>3 DEF Service

\* A catalog change is counted until its callback ran.
LEMMA ChangesTyped == ASSUME Bounded, Changes PROVE Bounded'
  <1> USE DEF Bounded, TypeOK, Keys, WorkerPcs, StopPcs, client, seeds, server, counts, At,
              Goto, NoCounts, CatalogOnly, Loss, NoLoss, Advance, NextPass, NoWork
  <1>1. CASE MarkDirty
    BY <1>1 DEF MarkDirty
  <1>2. ASSUME NEW c \in Contents, Change(c) PROVE Bounded'
    BY <1>2 DEF Change
  <1> QED BY <1>1, <1>2 DEF Changes

\* Every step keeps the types.
LEMMA BoundedNext == ASSUME Bounded, [Next]_vars PROVE Bounded'
  <1> USE DEF Bounded, TypeOK, Keys, WorkerPcs, StopPcs, client, seeds, server, counts, At,
              Goto, NoCounts, CatalogOnly, Loss, NoLoss, Advance, NextPass, NoWork
  <1>1. CASE NotReady
    BY <1>1 DEF NotReady
  <1>2. CASE WaitWoken
    BY <1>2 DEF WaitWoken
  <1>3. CASE WaitTimeout
    BY <1>3 DEF WaitTimeout
  <1>4. CASE SeeStop
    BY <1>4 DEF SeeStop
  <1>5. CASE Exit
    <2>1. wk' \in Work
      BY <1>5 DEF ProcessEnds, Exit, Work
    <2>2. net' \subseteq net /\ mem' \in Keys /\ mem'.preg \in 0 .. regs
      BY <1>5 DEF ProcessEnds, Exit, NoKeys
    <2> QED BY <1>5, <2>1, <2>2 DEF ProcessEnds, Exit, Work, NoReply
  <1>6. CASE TopBeat
    BY <1>6 DEF TopBeat
  <1>7. CASE UNCHANGED vars
    BY <1>7 DEF vars
  <1>8. CASE WorkerThrows
    BY <1>8 DEF WorkerThrows
  <1> HIDE DEF Bounded
  <1> QED BY <1>1, <1>2, <1>3, <1>4, <1>5, <1>6, <1>7, <1>8, RegistrationTyped, HeartbeatTyped,
             AnnouncementTyped, WakeupsTyped, DirectoryTyped, ServiceTyped, ChangesTyped
          DEF Next, WorkerLoop

-----------------------------------------------------------------------------
(* Repeating a registration. *)

\* Away from the registration the worker leaves the keys, and what the
\* directory holds of them, alone.
Roaming == {"top", "beat", "bump", "announceRev", "announceSnap", "announce", "poll",
            "wake", "complete", "expire", "wait", "dead"}
Roams ==
    /\ wk.pc \in Roaming \cup {"snapshot"} /\ wk'.pc \in Roaming \cup {"snapshot"}
    /\ svc' = svc /\ net' = net /\ srv'.gen = srv.gen /\ srv'.reg = srv.reg
    /\ db'.gen = db.gen /\ db'.pgen = db.pgen /\ db'.preg = db.preg
    /\ mem'.gen = mem.gen /\ mem'.pgen = mem.pgen /\ mem'.preg = mem.preg

\* A step that only roams keeps what the thread remembers of its request.
LEMMA RoamsKeeps == ASSUME Memory, Roams PROVE Memory'
  BY DEF Memory, Running, Repeatable, KeysAgree, Pending, Unsent, Recorded, At, Roams, Roaming

\* The steps of a pass that send nothing roam.
LEMMA PassRoams ==
  ASSUME Bounded
  PROVE  /\ NotReady => Roams
         /\ TopDirty => Roams
         /\ TopBeat => Roams
         /\ WaitWoken => Roams
         /\ WaitTimeout => Roams
         /\ Heartbeat => Roams
         /\ Announcement => Roams
         /\ Wakeups => Roams
         /\ WorkerThrows => Roams
  <1> USE DEF Bounded, TypeOK, Keys, client, server, At, Goto, NoCounts, CatalogOnly, Roams,
              Roaming
  <1>1. NotReady => Roams
    BY DEF NotReady
  <1>2. TopDirty => Roams
    BY DEF TopDirty
  <1>3. TopBeat => Roams
    BY DEF TopBeat
  <1>4. WaitWoken => Roams
    BY DEF WaitWoken, NextPass, NoWork
  <1>5. WaitTimeout => Roams
    BY DEF WaitTimeout, NextPass, NoWork
  <1>6. Heartbeat => Roams
    <2>1. TopIdle => Roams
      BY DEF TopIdle
    <2>2. BeatOk => Roams
      BY DEF BeatOk
    <2>3. BeatFail => Roams
      BY DEF BeatFail
    <2>4. BeatBump => Roams
      BY DEF BeatBump
    <2> QED BY <2>1, <2>2, <2>3, <2>4 DEF Heartbeat
  <1>7. Announcement => Roams
    <2>1. AnnounceRev => Roams
      BY DEF AnnounceRev
    <2>2. AnnounceSnap => Roams
      BY DEF AnnounceSnap
    <2>3. AnnounceMark => Roams
      BY DEF AnnounceMark
    <2>4. \A c \in Contents : AnnounceResource(c) => Roams
      <3> SUFFICES ASSUME NEW c \in Contents, AnnounceResource(c) PROVE Roams
        OBVIOUS
      <3> PICK taken \in BOOLEAN, told \in BOOLEAN :
             /\ srv' = IF taken THEN [srv EXCEPT !.res = @ \cup {c}] ELSE srv
             /\ wk' = [wk EXCEPT !.todo = @ \ {c}, !.all = @ /\ told]
        BY Zenon DEF AnnounceResource
      <3>1. srv'.gen = srv.gen /\ srv'.reg = srv.reg /\ wk'.pc = wk.pc
        OBVIOUS
      <3> QED BY <3>1 DEF AnnounceResource
    <2> QED BY <2>1, <2>2, <2>3, <2>4 DEF Announcement
  <1>8. Wakeups => Roams
    <2>1. PollWakeups => Roams
      BY DEF PollWakeups
    <2>2. CompleteWakeup => Roams
      BY DEF CompleteWakeup
    <2>3. WakeDone => Roams
      BY DEF WakeDone
    <2>4. ExpireSeeds => Roams
      BY DEF ExpireSeeds
    <2>5. \A c \in Contents : WakeOpen(c) => Roams
      BY DEF WakeOpen
    <2>6. \A c \in Contents : WakeModified(c) => Roams
      BY DEF WakeModified
    <2>7. \A c \in Contents : WakeRefuse(c) => Roams
      BY DEF WakeRefuse
    <2> QED BY <2>1, <2>2, <2>3, <2>4, <2>5, <2>6, <2>7 DEF Wakeups
  <1>9. WorkerThrows => Roams
    BY DEF WorkerThrows, Throwing
  <1> QED BY <1>1, <1>2, <1>3, <1>4, <1>5, <1>6, <1>7, <1>8, <1>9

\* The directory's ids are its own or the request's.
LEMMA ServerIds ==
  ASSUME Bounded, NEW r, ServerAccept(r) \/ ServerRepeat(r) \/ ServerRefuse(r)
  PROVE  \/ srv'.gen = srv.gen /\ srv'.reg = srv.reg
         \/ srv'.gen = r.gen /\ srv'.reg = r.reg
  <1>1. CASE ServerAccept(r)
    BY <1>1 DEF ServerAccept
  <1>2. CASE ServerRepeat(r)
    BY <1>2 DEF ServerRepeat, Bounded, TypeOK
  <1>3. CASE ServerRefuse(r)
    BY <1>3 DEF ServerRefuse
  <1> QED BY <1>1, <1>2, <1>3

\* Every step that is not of the pass itself keeps the pending registration.
LEMMA MemoryNext == ASSUME Bounded, Memory, [Next]_vars PROVE Memory'
  <1> USE DEF Bounded, TypeOK, Keys, client, server, At, Goto, NoCounts, CatalogOnly,
              Memory, Running, Repeatable, KeysAgree, Pending, Unsent, Recorded
  <1>1. CASE Snapshot
    <2>1. Running'
      BY <1>1 DEF Snapshot
    <2>2. Repeatable'
      <3>1. CASE PendingStale
        BY <1>1, <3>1 DEF Snapshot, PendingStale
      <3>2. CASE ~PendingStale
        BY <1>1, <3>2 DEF Snapshot
      <3> QED BY <3>1, <3>2
    <2>3. KeysAgree'
      <3>1. CASE PendingStale
        <4>1. Unsent
          BY <1>1, <3>1 DEF Snapshot, PendingStale
        <4>2. /\ svc' = svc /\ svc # "off" /\ wk'.pc = "savePending" /\ srv' = srv /\ net' = net
              /\ mem'.gen = mem.gen /\ mem'.pgen = mem.gen + 1 /\ mem'.preg = regs + 1
              /\ db'.gen = db.gen /\ db'.pgen = mem.gen + 1
          BY <1>1, <3>1 DEF Snapshot
        <4> QED BY <4>1, <4>2
      <3>2. CASE ~PendingStale
        BY <1>1, <3>2 DEF Snapshot, PendingStale
      <3> QED BY <3>1, <3>2
    <2> QED BY <2>1, <2>2, <2>3
  <1>2. CASE SavePending
    <2>1. Running'
      BY <1>2 DEF SavePending
    <2>2. Repeatable'
      BY <1>2 DEF SavePending
    <2>3. KeysAgree'
      BY <1>2 DEF SavePending
    <2> QED BY <2>1, <2>2, <2>3
  <1>3. CASE Send
    <2>1. Running'
      BY <1>3 DEF Send, Request, NoReply
    <2>2. Repeatable'
      BY <1>3 DEF Send, Request, NoReply
    <2>3. KeysAgree'
      BY <1>3 DEF Send, Request, NoReply
    <2> QED BY <2>1, <2>2, <2>3
  <1>4. CASE RegisterOk
    <2>1. Running'
      BY <1>4 DEF RegisterOk
    <2>2. Repeatable'
      BY <1>4 DEF RegisterOk
    <2>3. KeysAgree'
      BY <1>4 DEF RegisterOk
    <2> QED BY <2>1, <2>2, <2>3
  <1>5. CASE RegisterFail
    <2>1. Running'
      BY <1>5 DEF RegisterFail, NoReply
    <2>2. Repeatable'
      BY <1>5 DEF RegisterFail, NoReply
    <2>3. KeysAgree'
      BY <1>5 DEF RegisterFail, NoReply
    <2> QED BY <2>1, <2>2, <2>3
  <1>6. CASE SaveLease
    <2>1. Running'
      BY <1>6 DEF SaveLease
    <2>2. Repeatable'
      BY <1>6 DEF SaveLease
    <2>3. KeysAgree'
      BY <1>6 DEF SaveLease
    <2> QED BY <2>1, <2>2, <2>3
  <1>7. CASE DropGeneration
    <2>1. Running'
      BY <1>7 DEF DropGeneration
    <2>2. Repeatable'
      BY <1>7 DEF DropGeneration
    <2>3. KeysAgree'
      BY <1>7 DEF DropGeneration
    <2> QED BY <2>1, <2>2, <2>3
  <1>8. CASE DropRegistration
    <2>1. Running'
      BY <1>8 DEF DropRegistration
    <2>2. Repeatable'
      BY <1>8 DEF DropRegistration
    <2>3. KeysAgree'
      BY <1>8 DEF DropRegistration
    <2> QED BY <2>1, <2>2, <2>3
  <1>9. CASE Mark
    <2>1. Running'
      BY <1>9 DEF Mark, NoReply
    <2>2. Repeatable'
      BY <1>9 DEF Mark, NoReply
    <2>3. KeysAgree'
      BY <1>9 DEF Mark, NoReply
    <2> QED BY <2>1, <2>2, <2>3
  <1>10. CASE SeeStop
    <2>1. Running'
      BY <1>10 DEF SeeStop, StopPcs
    <2>2. Repeatable'
      BY <1>10 DEF SeeStop, StopPcs
    <2>3. KeysAgree'
      BY <1>10 DEF SeeStop, StopPcs
    <2> QED BY <2>1, <2>2, <2>3
  <1>11. CASE Exit
    <2>1. Running'
      BY <1>11 DEF Exit, ProcessEnds, NoWork, NoKeys, NoReply
    <2>2. Repeatable'
      BY <1>11 DEF Exit, ProcessEnds, NoWork, NoKeys, NoReply
    <2>3. KeysAgree'
      BY <1>11 DEF Exit, ProcessEnds, NoWork, NoKeys, NoReply
    <2> QED BY <2>1, <2>2, <2>3
  <1>12. CASE Start
    <2>1. Running'
      BY <1>12 DEF Start, NextPass, NoWork
    <2>2. Repeatable'
      BY <1>12 DEF Start, NextPass, NoWork
    <2>3. KeysAgree'
      BY <1>12 DEF Start, NextPass, NoWork
    <2> QED BY <2>1, <2>2, <2>3
  <1>13. CASE Stop
    <2>1. Running'
      BY <1>13 DEF Stop
    <2>2. Repeatable'
      BY <1>13 DEF Stop
    <2>3. KeysAgree'
      BY <1>13 DEF Stop
    <2> QED BY <2>1, <2>2, <2>3
  <1>14. CASE Crash
    <2>1. Running'
      BY <1>14 DEF Crash, ProcessEnds, NoWork, NoKeys, NoReply
    <2>2. Repeatable'
      BY <1>14 DEF Crash, ProcessEnds, NoWork, NoKeys, NoReply
    <2>3. KeysAgree'
      BY <1>14 DEF Crash, ProcessEnds, NoWork, NoKeys, NoReply
    <2> QED BY <2>1, <2>2, <2>3
  <1>15. CASE ServerRegister
    <2> PICK r \in net : /\ net' = net \ {r}
                         /\ ServerAccept(r) \/ ServerRepeat(r) \/ ServerRefuse(r)
      BY <1>15 DEF ServerRegister
    <2>1. \/ srv'.gen = srv.gen /\ srv'.reg = srv.reg
          \/ srv'.gen = r.gen /\ srv'.reg = r.reg
      BY ServerIds
    <2>2. UNCHANGED <<db, mem, svc, wk>>
      BY <1>15 DEF ServerRegister
    <2>3. Running'
      BY <2>2
    <2>4. Repeatable'
      BY <2>1, <2>2
    <2>5. At("sent") /\ reply'.kind = "ok" => reply'.gen = mem.pgen
      BY DEF ServerAccept, ServerRepeat, ServerRefuse, Answer, Request, NoReply
    <2>6. KeysAgree'
      BY <2>1, <2>2, <2>5
    <2> QED BY <2>3, <2>4, <2>6
  <1>16. CASE LeaseLapses
    <2>1. Running'
      BY <1>16 DEF LeaseLapses
    <2>2. Repeatable'
      BY <1>16 DEF LeaseLapses
    <2>3. KeysAgree'
      BY <1>16 DEF LeaseLapses
    <2> QED BY <2>1, <2>2, <2>3
  <1>17. CASE ServerPurges
    <2>1. Running'
      BY <1>17 DEF ServerPurges, NoNode
    <2>2. Repeatable'
      BY <1>17 DEF ServerPurges, NoNode
    <2>3. KeysAgree'
      BY <1>17 DEF ServerPurges, NoNode
    <2> QED BY <2>1, <2>2, <2>3
  <1>18. CASE MarkDirty
    <2>1. Running'
      BY <1>18 DEF MarkDirty
    <2>2. Repeatable'
      BY <1>18 DEF MarkDirty
    <2>3. KeysAgree'
      BY <1>18 DEF MarkDirty
    <2> QED BY <2>1, <2>2, <2>3
  <1>19. ASSUME NEW c \in Contents, Change(c) PROVE Memory'
    BY <1>19 DEF Change
  <1>20. CASE UNCHANGED vars
    BY <1>20 DEF vars
  <1> HIDE DEF Bounded, Memory
  <1> QED BY <1>1, <1>2, <1>3, <1>4, <1>5, <1>6, <1>7, <1>8, <1>9, <1>10, <1>11, <1>12, <1>13, <1>14, <1>15, <1>16, <1>17, <1>18, <1>19, <1>20,
             PassRoams, RoamsKeeps
          DEF Next, WorkerLoop, Registration, Service, Directory, Changes

\* The core of the invariant holds at the start.
LEMMA CoreInit == ASSUME Init PROVE Core
  BY SyncBounds DEF Init, Core, Memory, Bounded, TypeOK, Keys, WorkerPcs, StopPcs, Running,
     Repeatable, KeysAgree, Pending, Unsent, Recorded, At, NoKeys, NoNode, NoReply, NoWork

\* The inductive invariant holds in every reachable state, late requests and purges
\* included.
THEOREM CoreInvariant == Spec => []Core
  <1>1. Core /\ [Next]_vars => Core'
    BY BoundedNext, MemoryNext DEF Core
  <1> QED BY CoreInit, <1>1, PTL DEF Spec

\* Every variable keeps to its values, for every catalog and every bound.
THEOREM SyncTyped == Spec => []TypeOK
  <1>1. Core => TypeOK
    BY DEF Core, Bounded
  <1> QED BY CoreInvariant, <1>1, PTL

\* A registration the directory has committed and the client has not recorded can
\* be repeated after any crash, whatever arrives late and whatever the directory
\* forgets.
THEOREM RepeatPossibleHolds == Spec => []RepeatPossible
  <1>1. Core => RepeatPossible
    BY DEF Core, Bounded, TypeOK, Keys, Memory, Repeatable, Pending, RepeatPossible
  <1> QED BY CoreInvariant, <1>1, PTL

-----------------------------------------------------------------------------
(* No change is lost, when a request dies with its client. *)

\* The steps of a pass that only move the worker.
Wanders ==
    /\ wk.pc \in (Roaming \cup {"snapshot"}) \ {"bump"}
    /\ wk'.pc \in Roaming \ {"announceSnap", "announce", "bump"}
    /\ UNCHANGED <<catalog, notices, mem, sync, svc, srv, net, reply>>

\* A step that only wanders keeps the agreement with the directory.
LEMMA WandersQuietly == ASSUME Running, Quiet, Wanders PROVE Quiet'
  <1> USE DEF Running, Quiet, Wanders, Roaming, At
  <1>1. OneRequest'
    BY DEF OneRequest
  <1>2. Revisions'
    BY DEF Revisions, Attempting
  <1>3. Inventory'
    BY DEF Inventory, Attempting, Recorded, Holds, Fresh
  <1>4. Synchronized'
    BY DEF Synchronized, LeaseGood
  <1> QED BY <1>1, <1>2, <1>3, <1>4

\* The steps of a pass that neither announce nor send wander.
LEMMA PassWanders ==
  ASSUME Bounded
  PROVE  /\ NotReady => Wanders
         /\ TopBeat \/ TopIdle \/ BeatOk => Wanders
         /\ WaitWoken \/ WaitTimeout => Wanders
         /\ PollWakeups \/ CompleteWakeup => Wanders
         /\ WakeDone \/ ExpireSeeds => Wanders
         /\ \A c \in Contents : WakeOpen(c) \/ WakeRefuse(c) => Wanders
         /\ WorkerThrows => Wanders
  <1> USE DEF Bounded, TypeOK, client, server, At, Goto, NoCounts, CatalogOnly, Wanders,
              Roaming
  <1>1. NotReady => Wanders
    BY DEF NotReady
  <1>2. TopBeat \/ TopIdle \/ BeatOk => Wanders
    BY DEF TopBeat, TopIdle, BeatOk
  <1>3. WaitWoken \/ WaitTimeout => Wanders
    BY DEF WaitWoken, WaitTimeout, NextPass, NoWork
  <1>4. PollWakeups \/ CompleteWakeup => Wanders
    BY DEF PollWakeups, CompleteWakeup
  <1>5. WakeDone \/ ExpireSeeds => Wanders
    BY DEF WakeDone, ExpireSeeds
  <1>6. \A c \in Contents : WakeOpen(c) \/ WakeRefuse(c) => Wanders
    BY DEF WakeOpen, WakeRefuse
  <1>7. WorkerThrows => Wanders
    BY DEF WorkerThrows, Throwing
  <1> QED BY <1>1, <1>2, <1>3, <1>4, <1>5, <1>6, <1>7

\* A node the directory knows has a lease, and the answer to a request names it.
LEMMA NodeOrdered ==
  ASSUME Bounded, NEW r, r.gen # 0, srv.gen # 0 \/ srv.alive => srv.lease # 0,
         ServerAccept(r) \/ ServerRepeat(r) \/ ServerRefuse(r)
  PROVE  srv'.gen # 0 \/ srv'.alive => srv'.lease # 0
  <1>1. CASE ServerAccept(r)
    BY <1>1 DEF ServerAccept, Bounded, TypeOK
  <1>2. CASE ServerRepeat(r)
    <2>1. srv.gen # 0 /\ srv'.lease = srv.lease
      BY <1>2 DEF ServerRepeat, Repeats, Bounded, TypeOK
    <2> QED BY <2>1
  <1>3. CASE ServerRefuse(r)
    BY <1>3 DEF ServerRefuse
  <1> QED BY <1>1, <1>2, <1>3

\* What an accepting directory answers, it holds.
LEMMA NodeAnswers ==
  ASSUME Bounded, Request.gen # 0,
         srv.gen # 0 => srv.lease # 0,
         ServerAccept(Request) \/ ServerRepeat(Request) \/ ServerRefuse(Request),
         At("sent"), reply'.kind = "ok"
  PROVE  reply'.lease = srv'.lease /\ reply'.lease # 0 /\ srv'.inv = wk.snap
  <1>1. CASE ServerAccept(Request)
    BY <1>1 DEF ServerAccept, Answer, Request, Bounded, TypeOK
  <1>2. CASE ServerRepeat(Request)
    <2>1. srv.gen # 0 /\ reply'.lease = srv.lease
      BY <1>2 DEF ServerRepeat, Repeats, Answer, Bounded, TypeOK
    <2>2. srv'.lease = srv.lease /\ srv'.inv = wk.snap
      BY <1>2 DEF ServerRepeat, Request, Bounded, TypeOK
    <2> QED BY <2>1, <2>2
  <1>3. CASE ServerRefuse(Request)
    BY <1>3 DEF ServerRefuse, Answer, NoReply
  <1> QED BY <1>1, <1>2, <1>3

\* The steps of a registration.
LEMMA RegistrationQuiet == ASSUME ~LateRequests, Core, Quiet, Registration PROVE Quiet'
  <1> USE DEF Core, Bounded, TypeOK, Keys, Memory, Running, Quiet, client, server, At, Goto,
              NoCounts, CatalogOnly
  <1>1. CASE TopDirty
    <2>1. OneRequest'
      BY <1>1 DEF OneRequest, Request, TopDirty, Dirty
    <2>2. Revisions'
      BY <1>1 DEF Revisions, Attempting, TopDirty, Dirty
    <2>3. Inventory'
      BY <1>1 DEF Inventory, Attempting, Recorded, Holds, Fresh, TopDirty, Dirty
    <2>4. Synchronized'
      BY <1>1 DEF Synchronized, LeaseGood, Revisions, Attempting, TopDirty, Dirty
    <2> QED BY <2>1, <2>2, <2>3, <2>4
  <1>2. CASE Snapshot
    <2>1. OneRequest'
      BY <1>2 DEF OneRequest, Request, Snapshot, PendingStale
    <2>2. Revisions'
      BY <1>2 DEF Revisions, Attempting, Snapshot, PendingStale
    <2>3. Inventory'
      <3>1. wk'.snap = catalog /\ wk'.pc \in {"savePending", "send"} /\ UNCHANGED <<catalog, srv>>
        BY <1>2 DEF Snapshot
      <3> QED BY <3>1 DEF Inventory, Recorded
    <2>4. Synchronized'
      BY <1>2 DEF Synchronized, LeaseGood, Revisions, Attempting, Snapshot, PendingStale
    <2> QED BY <2>1, <2>2, <2>3, <2>4
  <1>3. CASE SavePending
    <2>1. OneRequest'
      BY <1>3 DEF OneRequest, Request, SavePending
    <2>2. Revisions'
      BY <1>3 DEF Revisions, Attempting, SavePending
    <2>3. Inventory'
      BY <1>3 DEF Inventory, Attempting, Recorded, Holds, Fresh, SavePending
    <2>4. Synchronized'
      BY <1>3 DEF Synchronized, LeaseGood, Revisions, Attempting, SavePending
    <2> QED BY <2>1, <2>2, <2>3, <2>4
  <1>4. CASE Send
    <2>1. OneRequest'
      <3>1. net' = {Request} /\ reply'.kind = "none" /\ wk'.pc = "sent" /\ Request' = Request
        BY <1>4 DEF Send, OneRequest, Request, NoReply
      <3>2. Request.gen # 0
        BY <1>4 DEF Send, KeysAgree, Request
      <3> QED BY <3>1, <3>2 DEF OneRequest
    <2>2. Revisions'
      BY <1>4 DEF Revisions, Attempting, Send, Request, NoReply
    <2>3. Inventory'
      BY <1>4 DEF Inventory, Attempting, Recorded, Holds, Fresh, Send, Request, NoReply
    <2>4. Synchronized'
      BY <1>4 DEF Synchronized, LeaseGood, Revisions, Attempting, Send, Request, NoReply
    <2> QED BY <2>1, <2>2, <2>3, <2>4
  <1>5. CASE RegisterOk
    <2>1. OneRequest'
      BY <1>5 DEF OneRequest, Request, RegisterOk
    <2>2. Revisions'
      BY <1>5 DEF Revisions, Attempting, RegisterOk
    <2>3. Inventory'
      BY <1>5 DEF Inventory, Attempting, Recorded, Holds, Fresh, RegisterOk
    <2>4. Synchronized'
      BY <1>5 DEF Synchronized, LeaseGood, Revisions, Attempting, RegisterOk
    <2> QED BY <2>1, <2>2, <2>3, <2>4
  <1>6. CASE RegisterFail
    <2>1. OneRequest'
      BY <1>6 DEF OneRequest, Request, RegisterFail, NoReply
    <2>2. Revisions'
      BY <1>6 DEF Revisions, Attempting, RegisterFail, NoReply
    <2>3. Inventory'
      BY <1>6 DEF Inventory, Attempting, Recorded, Holds, Fresh, RegisterFail, NoReply
    <2>4. Synchronized'
      BY <1>6 DEF Synchronized, LeaseGood, Revisions, Attempting, RegisterFail, NoReply
    <2> QED BY <2>1, <2>2, <2>3, <2>4
  <1>7. CASE SaveLease
    <2>1. OneRequest'
      BY <1>7 DEF OneRequest, Request, SaveLease
    <2>2. Revisions'
      BY <1>7 DEF Revisions, Attempting, SaveLease
    <2>3. Inventory'
      BY <1>7 DEF Inventory, Attempting, Recorded, Holds, Fresh, SaveLease
    <2>4. Synchronized'
      BY <1>7 DEF Synchronized, LeaseGood, Revisions, Attempting, SaveLease
    <2> QED BY <2>1, <2>2, <2>3, <2>4
  <1>8. CASE DropGeneration
    <2>1. OneRequest'
      BY <1>8 DEF OneRequest, Request, DropGeneration
    <2>2. Revisions'
      BY <1>8 DEF Revisions, Attempting, DropGeneration
    <2>3. Inventory'
      BY <1>8 DEF Inventory, Attempting, Recorded, Holds, Fresh, DropGeneration
    <2>4. Synchronized'
      BY <1>8 DEF Synchronized, LeaseGood, Revisions, Attempting, DropGeneration
    <2> QED BY <2>1, <2>2, <2>3, <2>4
  <1>9. CASE DropRegistration
    <2>1. OneRequest'
      BY <1>9 DEF OneRequest, Request, DropRegistration
    <2>2. Revisions'
      BY <1>9 DEF Revisions, Attempting, DropRegistration
    <2>3. Inventory'
      BY <1>9 DEF Inventory, Attempting, Recorded, Holds, Fresh, DropRegistration
    <2>4. Synchronized'
      BY <1>9 DEF Synchronized, LeaseGood, Revisions, Attempting, DropRegistration
    <2> QED BY <2>1, <2>2, <2>3, <2>4
  <1>10. CASE Mark
    <2>1. OneRequest'
      BY <1>10 DEF OneRequest, Request, Mark, NoReply
    <2>2. Revisions'
      BY <1>10 DEF Revisions, Attempting, Inventory, Holds, Recorded, Mark, NoReply
    <2>3. Inventory'
      BY <1>10 DEF Inventory, Attempting, Recorded, Holds, Fresh, Mark, NoReply
    <2>4. Synchronized'
      BY <1>10 DEF Synchronized, LeaseGood, Revisions, Attempting, Inventory, Holds, Fresh, Recorded, Mark, NoReply
    <2> QED BY <2>1, <2>2, <2>3, <2>4
  <1> QED BY <1>1, <1>2, <1>3, <1>4, <1>5, <1>6, <1>7, <1>8, <1>9, <1>10 DEF Registration

\* A failed heartbeat leaves something to publish.
LEMMA HeartbeatQuiet == ASSUME ~LateRequests, Core, Quiet, Heartbeat PROVE Quiet'
  <1> USE DEF Core, Bounded, TypeOK, Keys, Memory, Running, Quiet, client, server, At, Goto,
              NoCounts, CatalogOnly
  <1>1. CASE BeatFail
    <2>1. OneRequest'
      BY <1>1 DEF OneRequest, Request, BeatFail
    <2>2. Revisions'
      BY <1>1 DEF Revisions, Attempting, BeatFail
    <2>3. Inventory'
      BY <1>1 DEF Inventory, Attempting, Recorded, Holds, Fresh, BeatFail
    <2>4. Synchronized'
      BY <1>1 DEF Synchronized, LeaseGood, Revisions, Attempting, Inventory, Holds, Fresh, Recorded, BeatFail
    <2> QED BY <2>1, <2>2, <2>3, <2>4
  <1>2. CASE BeatBump
    <2>1. OneRequest'
      BY <1>2 DEF OneRequest, Request, BeatBump, Advance
    <2>2. Revisions'
      BY <1>2 DEF Revisions, Attempting, BeatBump, Advance
    <2>3. Inventory'
      BY <1>2 DEF Inventory, Attempting, Recorded, Holds, Fresh, BeatBump, Advance
    <2>4. Synchronized'
      BY <1>2 DEF Synchronized, LeaseGood, Revisions, Attempting, BeatBump, Advance
    <2> QED BY <2>1, <2>2, <2>3, <2>4
  <1> HIDE DEF Quiet, Core, Running, Bounded
  <1>3. Bounded /\ Running
    BY DEF Core, Memory
  <1> QED BY <1>1, <1>2, <1>3, WandersQuietly, PassWanders DEF Heartbeat

\* An announcement changes no inventory.
LEMMA AnnouncementQuiet == ASSUME ~LateRequests, Core, Quiet, Announcement PROVE Quiet'
  <1> USE DEF Core, Bounded, TypeOK, Keys, Memory, Running, Quiet, client, server, At, Goto,
              NoCounts, CatalogOnly
  <1>1. CASE AnnounceRev
    <2>1. OneRequest'
      BY <1>1 DEF OneRequest, Request, AnnounceRev
    <2>2. Revisions'
      BY <1>1 DEF Revisions, Attempting, AnnounceRev
    <2>3. Inventory'
      BY <1>1 DEF Inventory, Attempting, Recorded, Holds, Fresh, AnnounceRev
    <2>4. Synchronized'
      BY <1>1 DEF Synchronized, LeaseGood, Revisions, Attempting, AnnounceRev
    <2> QED BY <2>1, <2>2, <2>3, <2>4
  <1>2. CASE AnnounceSnap
    <2>1. OneRequest'
      BY <1>2 DEF OneRequest, Request, AnnounceSnap
    <2>2. Revisions'
      BY <1>2 DEF Revisions, Attempting, AnnounceSnap
    <2>3. Inventory'
      BY <1>2 DEF Inventory, Attempting, Recorded, Holds, Fresh, AnnounceSnap
    <2>4. Synchronized'
      BY <1>2 DEF Synchronized, LeaseGood, Revisions, Attempting, AnnounceSnap
    <2> QED BY <2>1, <2>2, <2>3, <2>4
  <1>3. CASE AnnounceMark
    <2>1. OneRequest'
      BY <1>3 DEF OneRequest, Request, AnnounceMark
    <2>2. Revisions'
      BY <1>3 DEF Revisions, Attempting, AnnounceMark
    <2>3. Inventory'
      BY <1>3 DEF Inventory, Attempting, Recorded, Holds, Fresh, AnnounceMark
    <2>4. Synchronized'
      BY <1>3 DEF Synchronized, LeaseGood, Revisions, Attempting, AnnounceMark
    <2> QED BY <2>1, <2>2, <2>3, <2>4
  <1>4. ASSUME NEW c \in Contents, AnnounceResource(c) PROVE Quiet'
    <2>1. OneRequest'
      BY <1>4 DEF OneRequest, Request, AnnounceResource
    <2>2. Revisions'
      BY <1>4 DEF Revisions, Attempting, AnnounceResource
    <2>3. Inventory'
      BY <1>4 DEF Inventory, Attempting, Recorded, Holds, Fresh, AnnounceResource
    <2>4. Synchronized'
      BY <1>4 DEF Synchronized, LeaseGood, Revisions, Attempting, AnnounceResource
    <2> QED BY <2>1, <2>2, <2>3, <2>4
  <1> QED BY <1>1, <1>2, <1>3, <1>4 DEF Announcement

\* A start publishes everything again.
LEMMA ServiceQuiet == ASSUME ~LateRequests, Core, Quiet, Service PROVE Quiet'
  <1> USE DEF Core, Bounded, TypeOK, Keys, Memory, Running, Quiet, client, server, At, Goto,
              NoCounts, CatalogOnly
  <1>1. CASE Start
    <2>1. OneRequest'
      BY <1>1 DEF OneRequest, Request, Start, NextPass, NoWork
    <2>2. Revisions'
      BY <1>1 DEF Revisions, Attempting, Start, NextPass, NoWork
    <2>3. Inventory'
      BY <1>1 DEF Inventory, Attempting, Recorded, Holds, Fresh, Start, NextPass, NoWork
    <2>4. Synchronized'
      BY <1>1 DEF Synchronized, LeaseGood, Revisions, Attempting, Start, NextPass, NoWork
    <2> QED BY <2>1, <2>2, <2>3, <2>4
  <1>2. CASE Stop
    <2>1. OneRequest'
      BY <1>2 DEF OneRequest, Request, Stop
    <2>2. Revisions'
      BY <1>2 DEF Revisions, Attempting, Stop
    <2>3. Inventory'
      BY <1>2 DEF Inventory, Attempting, Recorded, Holds, Fresh, Stop
    <2>4. Synchronized'
      BY <1>2 DEF Synchronized, LeaseGood, Revisions, Attempting, Stop
    <2> QED BY <2>1, <2>2, <2>3, <2>4
  <1>3. CASE Crash
    <2>1. OneRequest'
      BY <1>3 DEF OneRequest, Request, Crash, ProcessEnds, NoWork, NoKeys, NoReply
    <2>2. Revisions'
      BY <1>3 DEF Revisions, Attempting, Crash, ProcessEnds, NoWork, NoKeys, NoReply
    <2>3. Inventory'
      BY <1>3 DEF Inventory, Attempting, Recorded, Holds, Fresh, Crash, ProcessEnds, NoWork, NoKeys, NoReply
    <2>4. Synchronized'
      BY <1>3 DEF Synchronized, LeaseGood, Revisions, Attempting, Crash, ProcessEnds, NoWork, NoKeys, NoReply
    <2> QED BY <2>1, <2>2, <2>3, <2>4
  <1> QED BY <1>1, <1>2, <1>3 DEF Service

\* The directory answers the one request there is.
LEMMA DirectoryQuiet == ASSUME ~LateRequests, Core, Quiet, Directory PROVE Quiet'
  <1> USE DEF Core, Bounded, TypeOK, Keys, Memory, Running, Quiet, client, server, At, Goto,
              NoCounts, CatalogOnly
  <1>1. CASE ServerRegister
    <2> PICK r \in net : /\ net' = net \ {r}
                         /\ ServerAccept(r) \/ ServerRepeat(r) \/ ServerRefuse(r)
      BY <1>1 DEF ServerRegister
    <2>1. wk.pc \in {"sent", "exit"} /\ r.gen # 0 /\ UNCHANGED <<wk, mem, sync, svc, catalog, notices>>
      BY <1>1 DEF OneRequest, ServerRegister
    <2>2. At("sent") => r = Request /\ net' = {}
      BY DEF OneRequest
    <2>3. OneRequest'
      BY <2>1, <2>2 DEF OneRequest
    <2>4. Revisions'
      BY <2>1 DEF Revisions, Attempting
    <2>5. Inventory'
      <3>1. srv'.gen # 0 \/ srv'.alive => srv'.lease # 0
        BY <2>1, NodeOrdered DEF Inventory
      <3>2. At("sent") /\ reply'.kind = "ok" => reply'.lease = srv'.lease /\ reply'.lease # 0
                                                /\ srv'.inv = wk.snap
        BY <2>1, <2>2, NodeAnswers DEF OneRequest, Inventory
      <3> QED BY <3>1, <3>2, <2>1 DEF Inventory, Recorded, Holds, Fresh, Attempting
    <2>6. Synchronized'
      BY <2>1 DEF Synchronized, Revisions, Attempting
    <2> QED BY <2>3, <2>4, <2>5, <2>6
  <1>2. CASE LeaseLapses
    <2>1. OneRequest'
      BY <1>2 DEF OneRequest, Request, LeaseLapses
    <2>2. Revisions'
      BY <1>2 DEF Revisions, Attempting, LeaseLapses
    <2>3. Inventory'
      BY <1>2 DEF Inventory, Attempting, Recorded, Holds, Fresh, LeaseLapses
    <2>4. Synchronized'
      BY <1>2 DEF Synchronized, LeaseGood, Revisions, Attempting, LeaseLapses
    <2> QED BY <2>1, <2>2, <2>3, <2>4
  <1>3. CASE ServerPurges
    <2>1. OneRequest'
      BY <1>3 DEF OneRequest, Request, ServerPurges, NoNode
    <2>2. Revisions'
      BY <1>3 DEF Revisions, Attempting, ServerPurges, NoNode
    <2>3. Inventory'
      BY <1>3 DEF Inventory, Attempting, Recorded, Holds, Fresh, ServerPurges, NoNode
    <2>4. Synchronized'
      BY <1>3 DEF Synchronized, LeaseGood, Revisions, Attempting, ServerPurges, NoNode
    <2> QED BY <2>1, <2>2, <2>3, <2>4
  <1> QED BY <1>1, <1>2, <1>3 DEF Directory

\* A change is noticed, and its callback makes it a revision.
LEMMA ChangesQuiet == ASSUME ~LateRequests, Core, Quiet, Changes PROVE Quiet'
  <1> USE DEF Core, Bounded, TypeOK, Keys, Memory, Running, Quiet, client, server, At, Goto,
              NoCounts, CatalogOnly
  <1>1. CASE MarkDirty
    <2>1. OneRequest'
      BY <1>1 DEF OneRequest, Request, MarkDirty, Advance
    <2>2. Revisions'
      BY <1>1 DEF Revisions, Attempting, MarkDirty, Advance
    <2>3. Inventory'
      BY <1>1 DEF Inventory, Attempting, Recorded, Holds, Fresh, Revisions, MarkDirty, Advance
    <2>4. Synchronized'
      BY <1>1 DEF Synchronized, LeaseGood, Revisions, Attempting, MarkDirty, Advance
    <2> QED BY <2>1, <2>2, <2>3, <2>4
  <1>2. ASSUME NEW c \in Contents, Change(c) PROVE Quiet'
    <2>1. OneRequest'
      BY <1>2 DEF OneRequest, Request, Change
    <2>2. Revisions'
      BY <1>2 DEF Revisions, Attempting, Change
    <2>3. Inventory'
      BY <1>2 DEF Inventory, Attempting, Recorded, Holds, Fresh, Change
    <2>4. Synchronized'
      BY <1>2 DEF Synchronized, LeaseGood, Revisions, Attempting, Change
    <2> QED BY <2>1, <2>2, <2>3, <2>4
  <1> QED BY <1>1, <1>2 DEF Changes

\* Without late requests every step keeps the agreement with the directory.
LEMMA QuietNext == ASSUME ~LateRequests, Core, Quiet, [Next]_vars PROVE Quiet'
  <1> USE DEF Core, Bounded, TypeOK, Keys, Memory, Running, Quiet, client, server, At, Goto,
              NoCounts, CatalogOnly
  <1>1. CASE SeeStop
    <2>1. OneRequest'
      BY <1>1 DEF OneRequest, Request, SeeStop, StopPcs
    <2>2. Revisions'
      BY <1>1 DEF Revisions, Attempting, SeeStop, StopPcs
    <2>3. Inventory'
      BY <1>1 DEF Inventory, Attempting, Recorded, Holds, Fresh, SeeStop, StopPcs
    <2>4. Synchronized'
      BY <1>1 DEF Synchronized, LeaseGood, Revisions, Attempting, SeeStop, StopPcs
    <2> QED BY <2>1, <2>2, <2>3, <2>4
  <1>2. CASE Exit
    <2>1. OneRequest'
      BY <1>2 DEF OneRequest, Request, Exit, ProcessEnds, NoWork, NoKeys, NoReply
    <2>2. Revisions'
      BY <1>2 DEF Revisions, Attempting, Exit, ProcessEnds, NoWork, NoKeys, NoReply
    <2>3. Inventory'
      BY <1>2 DEF Inventory, Attempting, Recorded, Holds, Fresh, Exit, ProcessEnds, NoWork, NoKeys, NoReply
    <2>4. Synchronized'
      BY <1>2 DEF Synchronized, LeaseGood, Revisions, Attempting, Exit, ProcessEnds, NoWork, NoKeys, NoReply
    <2> QED BY <2>1, <2>2, <2>3, <2>4
  <1>3. ASSUME NEW c \in Contents, WakeModified(c) PROVE Quiet'
    <2>1. OneRequest'
      BY <1>3 DEF OneRequest, Request, WakeModified, Advance
    <2>2. Revisions'
      BY <1>3 DEF Revisions, Attempting, WakeModified, Advance
    <2>3. Inventory'
      BY <1>3 DEF Inventory, Attempting, Recorded, Holds, Fresh, WakeModified, Advance
    <2>4. Synchronized'
      BY <1>3 DEF Synchronized, LeaseGood, Revisions, Attempting, WakeModified, Advance
    <2> QED BY <2>1, <2>2, <2>3, <2>4
  <1>4. CASE UNCHANGED vars
    BY <1>4 DEF vars, OneRequest, Request, Revisions, Inventory, Holds, Fresh, Synchronized, LeaseGood
  <1> HIDE DEF Quiet, Core, Running, Bounded
  <1>5. Bounded /\ Running
    BY DEF Core, Memory
  <1> QED BY <1>1, <1>2, <1>3, <1>4, <1>5, RegistrationQuiet, HeartbeatQuiet, AnnouncementQuiet,
             ServiceQuiet, DirectoryQuiet, ChangesQuiet, WandersQuietly, PassWanders
          DEF Next, WorkerLoop, Wakeups

\* The agreement with the directory holds at the start.
LEMMA QuietInit == ASSUME Init PROVE Quiet
  BY DEF Init, Quiet, OneRequest, Revisions, Inventory, Synchronized, Attempting, Recorded, Holds,
     Fresh, LeaseGood, At, NoKeys, NoNode, NoReply, NoWork

\* Whatever changes while a registration is under way, is lost or is repeated after
\* a restart: once the worker waits with everything synchronized and its lease is
\* honoured, the directory's inventory is the catalog, if no registration arrives
\* after its client gave it up.
THEOREM LosslessHolds == ASSUME ~LateRequests PROVE Spec => []Lossless
  <1>1. Init => Core /\ Quiet
    BY CoreInit, QuietInit
  <1>2. Core /\ Quiet /\ [Next]_vars => (Core /\ Quiet)'
    BY BoundedNext, MemoryNext, QuietNext DEF Core
  <1>3. Core /\ Quiet => Lossless
    BY DEF Core, Bounded, Quiet, Synchronized, Lossless, Settled, On, At
  <1> QED BY <1>1, <1>2, <1>3, PTL DEF Spec

-----------------------------------------------------------------------------
(* The resources are known, when the directory forgets no node. *)

\* The actions that touch neither the catalog, its revisions nor the resources.
LEMMA WandersAnnounced == ASSUME Announced, Running, Wanders PROVE Announced'
  BY DEF Announced, Running, Wanders, Roaming, At

\* A registration keeps the resources of the contents it lists.
LEMMA NodeKeeps ==
  ASSUME Bounded, NEW r, ServerAccept(r) \/ ServerRepeat(r) \/ ServerRefuse(r)
  PROVE  srv.res \cap r.inv \subseteq srv'.res
  <1>1. CASE ServerAccept(r)
    BY <1>1 DEF ServerAccept
  <1>2. CASE ServerRepeat(r)
    BY <1>2 DEF ServerRepeat, Bounded, TypeOK
  <1>3. CASE ServerRefuse(r)
    BY <1>3 DEF ServerRefuse
  <1> QED BY <1>1, <1>2, <1>3

\* Resources leave the directory's record with their contents only, and a
\* revision counts as announced when each of its resources was taken.
LEMMA AnnouncedNext ==
  ASSUME ~ServerForgets, Core, Quiet, Announced, [Next]_vars PROVE Announced'
  <1> USE DEF Core, Bounded, TypeOK, Memory, Running, Quiet, Announced, client, server, At, Goto,
              NoCounts, CatalogOnly
  <1>1. CASE TopDirty
    BY <1>1 DEF TopDirty
  <1>2. CASE Snapshot
    BY <1>2 DEF Snapshot
  <1>3. CASE SavePending
    BY <1>3 DEF SavePending
  <1>4. CASE Send
    BY <1>4 DEF Send
  <1>5. CASE RegisterOk
    BY <1>5 DEF RegisterOk
  <1>6. CASE RegisterFail
    BY <1>6 DEF RegisterFail, NoReply
  <1>7. CASE SaveLease
    BY <1>7 DEF SaveLease
  <1>8. CASE DropGeneration
    BY <1>8 DEF DropGeneration
  <1>9. CASE DropRegistration
    BY <1>9 DEF DropRegistration
  <1>10. CASE Mark
    BY <1>10 DEF Mark
  <1>11. CASE BeatFail
    BY <1>11 DEF BeatFail
  <1>12. CASE BeatBump
    BY <1>12 DEF BeatBump, Advance, Revisions
  <1>13. CASE AnnounceRev
    BY <1>13 DEF AnnounceRev
  <1>14. CASE AnnounceSnap
    BY <1>14 DEF AnnounceSnap
  <1>15. CASE AnnounceMark
    BY <1>15 DEF AnnounceMark
  <1>16. ASSUME NEW c \in Contents, AnnounceResource(c) PROVE Announced'
    <2> PICK taken \in BOOLEAN, told \in BOOLEAN :
           /\ told => taken
           /\ srv' = IF taken THEN [srv EXCEPT !.res = @ \cup {c}] ELSE srv
           /\ wk' = [wk EXCEPT !.todo = @ \ {c}, !.all = @ /\ told]
      BY <1>16, Zenon DEF AnnounceResource
    <2>1. srv.res \subseteq srv'.res /\ (told => srv'.res = srv.res \cup {c})
      OBVIOUS
    <2>2. wk'.todo = wk.todo \ {c} /\ wk'.resAttempt = wk.resAttempt /\ wk'.pc = wk.pc
      OBVIOUS
    <2>3. wk'.all => wk.all /\ told
      OBVIOUS
    <2> QED BY <1>16, <2>1, <2>2, <2>3 DEF AnnounceResource
  <1>17. ASSUME NEW c \in Contents, WakeModified(c) PROVE Announced'
    BY <1>17 DEF WakeModified, Advance, Revisions
  <1>18. CASE SeeStop
    BY <1>18 DEF SeeStop, StopPcs
  <1>19. CASE Exit
    BY <1>19 DEF Exit, ProcessEnds, NoWork
  <1>20. CASE Start
    BY <1>20 DEF Start, NextPass, NoWork
  <1>21. CASE Stop
    BY <1>21 DEF Stop
  <1>22. CASE Crash
    BY <1>22 DEF Crash, ProcessEnds, NoWork
  <1>23. CASE ServerRegister
    <2> PICK r \in net : ServerAccept(r) \/ ServerRepeat(r) \/ ServerRefuse(r)
      BY <1>23 DEF ServerRegister
    <2>1. wk.pc \in {"sent", "exit"} /\ UNCHANGED <<wk, sync, svc, catalog, notices>>
      BY <1>23 DEF OneRequest, ServerRegister
    <2>2. At("sent") => r.inv = wk.snap
      BY DEF OneRequest, Request
    <2>3. srv.res \cap r.inv \subseteq srv'.res
      BY NodeKeeps
    <2>4. At("sent") /\ sync.announced = sync.rev /\ notices = 0 => wk.snap = catalog
      BY DEF Revisions, Inventory, Attempting, Fresh
    <2> QED BY <2>1, <2>2, <2>3, <2>4
  <1>24. CASE LeaseLapses
    BY <1>24 DEF LeaseLapses
  <1>25. CASE ServerPurges
    BY <1>25 DEF ServerPurges
  <1>26. CASE MarkDirty
    BY <1>26 DEF MarkDirty, Advance, Revisions
  <1>27. ASSUME NEW c \in Contents, Change(c) PROVE Announced'
    BY <1>27 DEF Change
  <1>28. CASE UNCHANGED vars
    BY <1>28 DEF vars
  <1> HIDE DEF Quiet, Core, Running, Bounded, Announced
  <1>29. Bounded /\ Running
    BY DEF Core, Memory
  <1> QED BY <1>1, <1>2, <1>3, <1>4, <1>5, <1>6, <1>7, <1>8, <1>9, <1>10, <1>11, <1>12,
             <1>13, <1>14, <1>15, <1>16, <1>17, <1>18, <1>19, <1>20, <1>21, <1>22, <1>23, <1>24,
             <1>25, <1>26, <1>27, <1>28, <1>29,
             WandersAnnounced, PassWanders
          DEF Next, WorkerLoop, Registration, Heartbeat, Announcement, Wakeups, Service,
              Directory, Changes

\* Nothing is announced at the start.
LEMMA AnnouncedInit == ASSUME Init PROVE Announced
  BY DEF Init, Announced, At, NoWork

\* When every resource has been announced the directory knows the resources of the
\* whole catalog, if it forgets no node and no registration arrives late.
THEOREM ResourcesKnownHolds ==
  ASSUME ~LateRequests, ~ServerForgets PROVE Spec => []ResourcesKnown
  <1>1. Init => Core /\ Quiet /\ Announced
    BY CoreInit, QuietInit, AnnouncedInit
  <1>2. Core /\ Quiet /\ Announced /\ [Next]_vars => (Core /\ Quiet /\ Announced)'
    BY BoundedNext, MemoryNext, QuietNext, AnnouncedNext DEF Core
  <1>3. Announced => ResourcesKnown
    BY DEF Announced, ResourcesKnown, Settled, On, At
  <1> QED BY <1>1, <1>2, <1>3, PTL DEF Spec
=============================================================================
