---------------------------- MODULE DirectorySync ----------------------------
(* ContentDirectorySyncService: one thread keeps a remote directory's copy of *)
(* the local content catalog up to date.  Revisions tell it what is not yet   *)
(* published, a generation and a registration id persisted before the request *)
(* let it repeat a registration whose answer was lost, a lease proves that it *)
(* is the node the directory knows, and wakeups make it open hidden seeding   *)
(* sessions.  The directory itself is external: a server modelled from the    *)
(* requests the client sends and the answers it distinguishes.                *)
EXTENDS Naturals, FiniteSets

CONSTANTS
    Contents,        \* the contents the catalog may hold
    MaxChanges,      \* bound on the catalog's changes
    MaxLosses,       \* bound on lost calls, unready passes, lapsed leases and throws
    MaxRestarts,     \* bound on the crashes, and the stops of a living worker
    MaxWakes,        \* bound on the wakeups the server sends
    LateRequests,  \* TRUE: a registration may arrive after its client gave up
    ServerForgets  \* TRUE: the server purges a node whose lease ran out

ASSUME SyncBounds == /\ IsFiniteSet(Contents)
                     /\ MaxChanges \in Nat /\ MaxLosses \in Nat
                     /\ MaxRestarts \in Nat /\ MaxWakes \in Nat
ASSUME SyncSwitches == LateRequests \in BOOLEAN /\ ServerForgets \in BOOLEAN

VARIABLES
    catalog,   \* contents SnapshotAvailable returns (durable)
    notices,   \* changes stored whose callback has not run yet
    db,        \* the settings: generation, lease and pending registration
    mem,       \* the worker's locals of the same names
    sync,      \* m_revision, m_syncedRevision, m_announcedResourceRevision
    svc,       \* off, on or stopping: m_started and m_stopping
    wk,        \* where the worker is in its loop, and its locals
    open,      \* seeding sessions open in libtorrent
    tracked,   \* activeSeedSessions
    srv,       \* the directory's record of this node
    net,       \* registrations under way to the directory
    reply,     \* the answer to the worker's registration
    regs, leases,                      \* registration ids and leases drawn so far
    changes, losses, restarts, wakes   \* bounded counters

client == <<catalog, notices, db, mem, sync, svc>>
seeds  == <<open, tracked>>
server == <<srv, net, reply, leases>>
counts == <<changes, losses, restarts, wakes>>
vars   == <<client, wk, seeds, server, regs, counts>>

-----------------------------------------------------------------------------
(* Shared operators. *)

\* Identifiers are numbered in the order they are drawn; 0 is "none".
NoKeys == [gen |-> 0, lease |-> 0, pgen |-> 0, preg |-> 0]
NoNode == [gen |-> 0, reg |-> 0, lease |-> 0, inv |-> {}, res |-> {}, alive |-> FALSE]
NoReply == [kind |-> "none", gen |-> 0, lease |-> 0]
NoWork == [pc |-> "off", attempt |-> 0, failed |-> FALSE, resAttempt |-> 0,
           snap |-> {}, todo |-> {}, all |-> TRUE]

At(pc) == wk.pc = pc
Goto(pc) == wk' = [wk EXCEPT !.pc = pc]
On == svc = "on"

Loss == losses < MaxLosses /\ losses' = losses + 1
NoLoss == UNCHANGED losses

Dirty == sync.synced # sync.rev \/ mem.lease = 0
Advance == sync' = [sync EXCEPT !.rev = @ + 1]
LeaseGood == srv.alive /\ srv.lease = mem.lease
Request == [gen |-> mem.pgen, reg |-> mem.preg, prev |-> mem.lease, inv |-> wk.snap]

Init ==
    /\ catalog = {} /\ notices = 0
    /\ db = NoKeys /\ mem = NoKeys
    /\ sync = [rev |-> 1, synced |-> 0, announced |-> 0]
    /\ svc = "off" /\ wk = NoWork
    /\ open = {} /\ tracked = {}
    /\ srv = NoNode /\ net = {} /\ reply = NoReply
    /\ regs = 0 /\ leases = 0
    /\ changes = 0 /\ losses = 0 /\ restarts = 0 /\ wakes = 0

-----------------------------------------------------------------------------
(* The catalog.  A change is stored first; its callback runs afterwards, on   *)
(* the thread that made it.                                                   *)

Change(c) ==
    /\ changes < MaxChanges /\ changes' = changes + 1
    /\ catalog' = IF c \in catalog THEN catalog \ {c} ELSE catalog \cup {c}
    /\ notices' = notices + 1
    /\ UNCHANGED <<db, mem, sync, svc, wk, seeds, server, regs, losses, restarts, wakes>>

\* Mutant of MarkDirty: a callback that has run is run again.
MarkDirtyAgain ==
    /\ notices' = notices - 1
    /\ IF svc = "off" THEN UNCHANGED sync ELSE Advance
    /\ UNCHANGED <<catalog, db, mem, svc, wk, seeds, server, regs, counts>>

\* NotifyChanged calls MarkDirty, which does nothing while the service is off.
MarkDirty ==
    /\ notices > 0 /\ notices' = notices - 1
    /\ IF svc = "off" THEN UNCHANGED sync ELSE Advance
    /\ UNCHANGED <<catalog, db, mem, svc, wk, seeds, server, regs, counts>>

-----------------------------------------------------------------------------
(* The directory (external). *)

Repeats(r) == r.gen = srv.gen /\ r.reg = srv.reg
Succeeds(r) == r.gen > srv.gen /\ (srv.alive => r.prev = srv.lease)
Answer(r, a) == reply' = IF At("sent") /\ r = Request THEN a ELSE reply

ServerAccept(r) ==
    /\ Succeeds(r)
    /\ leases' = leases + 1
    /\ srv' = [gen |-> r.gen, reg |-> r.reg, lease |-> leases + 1, inv |-> r.inv,
               res |-> srv.res \cap r.inv, alive |-> TRUE]
    /\ Answer(r, [kind |-> "ok", gen |-> r.gen, lease |-> leases + 1])

\* A successful request replaces the inventory, a repeated one as well.
ServerRepeat(r) ==
    /\ Repeats(r)
    /\ srv' = [srv EXCEPT !.inv = r.inv, !.res = @ \cap r.inv, !.alive = TRUE]
    /\ Answer(r, [kind |-> "ok", gen |-> r.gen, lease |-> srv.lease])
    /\ UNCHANGED leases

ServerRefuse(r) ==
    /\ ~Succeeds(r) /\ ~Repeats(r)
    /\ Answer(r, [NoReply EXCEPT !.kind = "refused"])
    /\ UNCHANGED <<srv, leases>>

ServerRegister ==
    /\ \E r \in net : /\ net' = net \ {r}
                      /\ ServerAccept(r) \/ ServerRepeat(r) \/ ServerRefuse(r)
    /\ UNCHANGED <<client, wk, seeds, regs, counts>>

\* A lease lapses: nobody renews it any more, or its client cannot reach the
\* server in time.
Abandoned == (At("dead") \/ srv.lease # mem.lease) /\ reply.kind # "ok"
LeaseLapses ==
    /\ srv.alive /\ srv' = [srv EXCEPT !.alive = FALSE]
    /\ IF Abandoned THEN NoLoss ELSE Loss
    /\ UNCHANGED <<client, wk, seeds, net, reply, leases, regs, changes, restarts, wakes>>

ServerPurges ==
    /\ ServerForgets /\ srv.gen > 0 /\ ~srv.alive /\ srv' = NoNode
    /\ UNCHANGED <<client, wk, seeds, net, reply, leases, regs, counts>>

-----------------------------------------------------------------------------
(* The worker: registration. *)

CatalogOnly == UNCHANGED <<catalog, notices, svc>>
NoCounts == UNCHANGED counts

\* The torrent core is not up, or listens on no port.
NotReady ==
    /\ At("top") /\ On /\ Loss /\ wk' = [wk EXCEPT !.pc = "expire"]
    /\ UNCHANGED <<client, seeds, server, regs, changes, restarts, wakes>>

TopDirty ==
    /\ At("top") /\ On /\ Dirty
    /\ wk' = [wk EXCEPT !.pc = "snapshot", !.attempt = sync.rev]
    /\ UNCHANGED <<client, seeds, server, regs>> /\ NoCounts

\* The inventory of the request; a pending registration of the next generation
\* is taken up again, otherwise a new one is persisted, the generation first.
PendingStale == mem.pgen # mem.gen + 1 \/ mem.preg = 0

Snapshot ==
    /\ At("snapshot")
    /\ IF PendingStale
       THEN /\ mem' = [mem EXCEPT !.pgen = mem.gen + 1, !.preg = regs + 1]
            /\ db' = [db EXCEPT !.pgen = mem.gen + 1] /\ regs' = regs + 1
            /\ wk' = [wk EXCEPT !.pc = "savePending", !.snap = catalog]
       ELSE /\ wk' = [wk EXCEPT !.pc = "send", !.snap = catalog]
            /\ UNCHANGED <<db, mem, regs>>
    /\ UNCHANGED <<sync, seeds, server>> /\ CatalogOnly /\ NoCounts

\* Mutant of SavePending: the id is stored after the request was sent.
SavePendingNot ==
    /\ At("savePending") /\ Goto("send")
    /\ UNCHANGED <<client, seeds, server, regs>> /\ NoCounts

SavePending ==
    /\ At("savePending") /\ Goto("send")
    /\ db' = [db EXCEPT !.preg = mem.preg]
    /\ UNCHANGED <<mem, sync, seeds, server, regs>> /\ CatalogOnly /\ NoCounts

Send ==
    /\ At("send") /\ Goto("sent")
    /\ net' = net \cup {Request} /\ reply' = NoReply
    /\ UNCHANGED <<client, seeds, srv, leases, regs>> /\ NoCounts

RegisterOk ==
    /\ At("sent") /\ On /\ reply.kind = "ok" /\ Goto("saveLease")
    /\ mem' = [mem EXCEPT !.gen = reply.gen, !.lease = reply.lease]
    /\ db' = [db EXCEPT !.gen = reply.gen]
    /\ UNCHANGED <<sync, seeds, server, regs>> /\ CatalogOnly /\ NoCounts

\* Refused, or the request or its answer was lost: the pass goes on with the
\* lease it had, if any.
RegisterFail ==
    /\ At("sent") /\ On
    /\ \/ reply.kind = "refused" /\ NoLoss
       \/ Loss
    /\ net' = IF LateRequests THEN net ELSE net \ {Request}
    /\ reply' = NoReply
    /\ wk' = [wk EXCEPT !.pc = IF mem.lease = 0 THEN "expire" ELSE "announceRev",
                        !.failed = TRUE]
    /\ UNCHANGED <<client, seeds, srv, leases, regs, changes, restarts, wakes>>

SaveLease ==
    /\ At("saveLease") /\ Goto("dropGeneration")
    /\ db' = [db EXCEPT !.lease = mem.lease]
    /\ UNCHANGED <<mem, sync, seeds, server, regs>> /\ CatalogOnly /\ NoCounts

DropGeneration ==
    /\ At("dropGeneration") /\ Goto("dropRegistration")
    /\ db' = [db EXCEPT !.pgen = 0]
    /\ UNCHANGED <<mem, sync, seeds, server, regs>> /\ CatalogOnly /\ NoCounts

DropRegistration ==
    /\ At("dropRegistration") /\ Goto("mark")
    /\ db' = [db EXCEPT !.preg = 0]
    /\ mem' = [mem EXCEPT !.pgen = 0, !.preg = 0]
    /\ UNCHANGED <<sync, seeds, server, regs>> /\ CatalogOnly /\ NoCounts

\* Mutant of Mark: what is synchronized is the revision of now, not of the attempt.
MarkCurrent ==
    /\ At("mark") /\ Goto("announceRev")
    /\ sync' = [sync EXCEPT !.synced = sync.rev]
    /\ reply' = NoReply
    /\ UNCHANGED <<db, mem, seeds, srv, net, leases, regs>> /\ CatalogOnly /\ NoCounts

Mark ==
    /\ At("mark") /\ Goto("announceRev")
    /\ sync' = [sync EXCEPT !.synced = wk.attempt]
    /\ reply' = NoReply
    /\ UNCHANGED <<db, mem, seeds, srv, net, leases, regs>> /\ CatalogOnly /\ NoCounts

-----------------------------------------------------------------------------
(* The worker: heartbeat.  It is due every 90 seconds, and only sent when there *)
(* is nothing to register.                                                      *)

TopBeat ==
    /\ At("top") /\ On /\ ~Dirty /\ Goto("beat")
    /\ UNCHANGED <<client, seeds, server, regs>> /\ NoCounts

TopIdle ==
    /\ At("top") /\ On /\ ~Dirty /\ Goto("announceRev")
    /\ UNCHANGED <<client, seeds, server, regs>> /\ NoCounts

BeatOk ==
    /\ At("beat") /\ On /\ LeaseGood /\ Goto("announceRev")
    /\ UNCHANGED <<client, seeds, server, regs>> /\ NoCounts

\* Mutant of BeatFail: a failed heartbeat is only tried again.
BeatFailKeeps ==
    /\ At("beat") /\ On /\ Goto("expire")
    /\ IF LeaseGood THEN Loss ELSE NoLoss
    /\ UNCHANGED <<client, seeds, server, regs, changes, restarts, wakes>>

\* Any failure, a lost call included, gives the lease up.
BeatFail ==
    /\ At("beat") /\ On
    /\ IF LeaseGood THEN Loss ELSE NoLoss
    /\ mem' = [mem EXCEPT !.lease = 0] /\ db' = [db EXCEPT !.lease = 0]
    /\ Goto("bump")
    /\ UNCHANGED <<sync, seeds, server, regs, changes, restarts, wakes>> /\ CatalogOnly

BeatBump ==
    /\ At("bump") /\ Goto("expire") /\ Advance
    /\ UNCHANGED <<db, mem, seeds, server, regs>> /\ CatalogOnly /\ NoCounts

-----------------------------------------------------------------------------
(* The worker: resource announcements.  The revision is read before the        *)
(* catalog is, and every record is announced in a request of its own.          *)

AnnounceRev ==
    /\ At("announceRev")
    /\ wk' = [wk EXCEPT !.resAttempt = sync.rev,
                        !.pc = IF sync.announced = sync.rev THEN "poll"
                               ELSE "announceSnap"]
    /\ UNCHANGED <<client, seeds, server, regs>> /\ NoCounts

AnnounceSnap ==
    /\ At("announceSnap")
    /\ wk' = [wk EXCEPT !.pc = "announce", !.todo = catalog, !.all = TRUE]
    /\ UNCHANGED <<client, seeds, server, regs>> /\ NoCounts

\* The server takes a resource under the current lease if its content is in the
\* inventory; the request or its answer may be lost.
AnnounceResource(c) ==
    /\ At("announce") /\ On /\ c \in wk.todo
    /\ \E taken, told \in BOOLEAN :
          /\ taken => LeaseGood /\ c \in srv.inv
          /\ told => taken
          /\ IF told \/ ~(LeaseGood /\ c \in srv.inv) THEN NoLoss ELSE Loss
          /\ srv' = IF taken THEN [srv EXCEPT !.res = @ \cup {c}] ELSE srv
          /\ wk' = [wk EXCEPT !.todo = @ \ {c}, !.all = @ /\ told]
    /\ UNCHANGED <<client, seeds, net, reply, leases, regs, changes, restarts, wakes>>

\* Mutant of AnnounceMark: a refused announcement is forgotten.
AnnounceMarkAll ==
    /\ At("announce") /\ wk.todo = {} /\ Goto("poll")
    /\ sync' = [sync EXCEPT !.announced = wk.resAttempt]
    /\ UNCHANGED <<db, mem, seeds, server, regs>> /\ CatalogOnly /\ NoCounts

AnnounceMark ==
    /\ At("announce") /\ wk.todo = {} /\ Goto("poll")
    /\ sync' = IF wk.all THEN [sync EXCEPT !.announced = wk.resAttempt] ELSE sync
    /\ UNCHANGED <<db, mem, seeds, server, regs>> /\ CatalogOnly /\ NoCounts

-----------------------------------------------------------------------------
(* The worker: wakeups.  A wakeup opens a hidden seeding session, which is      *)
(* tracked, to be closed when idle, once the server has accepted it.            *)

PollWakeups ==
    /\ At("poll") /\ On
    /\ \/ /\ LeaseGood /\ NoLoss
          /\ \E W \in SUBSET srv.inv :
                /\ wakes' = wakes + Cardinality(W) /\ wakes' <= MaxWakes
                /\ wk' = [wk EXCEPT !.pc = "wake", !.todo = W]
       \/ /\ IF LeaseGood THEN Loss ELSE NoLoss
          /\ Goto("expire") /\ UNCHANGED wakes
    /\ UNCHANGED <<client, seeds, server, regs, changes, restarts>>

\* The session is opened (or is open already), then the server is told.
WakeOpen(c) ==
    /\ At("wake") /\ On /\ c \in wk.todo /\ c \in catalog
    /\ open' = open \cup {c}
    /\ wk' = [wk EXCEPT !.pc = "complete", !.todo = @ \ {c}, !.snap = {c}]
    /\ UNCHANGED <<client, tracked, server, regs>> /\ NoCounts

\* EnsureCanonicalPieceLayer finds the file modified and drops it: a change made
\* by the worker itself.
WakeModified(c) ==
    /\ At("wake") /\ On /\ c \in wk.todo /\ c \in catalog
    /\ changes < MaxChanges /\ changes' = changes + 1
    /\ catalog' = catalog \ {c} /\ Advance
    /\ wk' = [wk EXCEPT !.todo = @ \ {c}]
    /\ UNCHANGED <<notices, db, mem, svc, seeds, server, regs, losses, restarts, wakes>>

WakeRefuse(c) ==
    /\ At("wake") /\ On /\ c \in wk.todo
    /\ wk' = [wk EXCEPT !.todo = @ \ {c}]
    /\ UNCHANGED <<client, seeds, server, regs>> /\ NoCounts

CompleteWakeup ==
    /\ At("complete") /\ On /\ Goto("wake")
    /\ \/ LeaseGood /\ NoLoss /\ tracked' = tracked \cup wk.snap
       \/ /\ IF LeaseGood THEN Loss ELSE NoLoss
          /\ UNCHANGED tracked
    /\ UNCHANGED <<client, open, server, regs, changes, restarts, wakes>>

WakeDone ==
    /\ At("wake") /\ wk.todo = {} /\ Goto("expire")
    /\ UNCHANGED <<client, seeds, server, regs>> /\ NoCounts

\* Sessions whose last wakeup is five minutes old are closed.
ExpireSeeds ==
    /\ At("expire") /\ Goto("wait")
    /\ \E E \in SUBSET tracked : open' = open \ E /\ tracked' = tracked \ E
    /\ UNCHANGED <<client, server, regs>> /\ NoCounts

-----------------------------------------------------------------------------
(* The worker: waiting and stopping. *)

\* wait_for returns at once when its predicate holds.
WaitPredicate == svc = "stopping" \/ sync.synced # sync.rev
NextPass == wk' = [NoWork EXCEPT !.pc = "top"]

WaitWoken ==
    /\ At("wait") /\ WaitPredicate /\ NextPass
    /\ UNCHANGED <<client, seeds, server, regs>> /\ NoCounts
WaitTimeout ==
    /\ At("wait") /\ ~WaitPredicate /\ NextPass
    /\ UNCHANGED <<client, seeds, server, regs>> /\ NoCounts

\* An exception outside the handling of one wakeup (the thread's start, a read of
\* the catalog, EnsureCanonicalPieceLayer) ends the thread, and the sessions it
\* tracks.  m_started stays set: nothing starts another one.
Throwing == wk.pc \in {"top", "snapshot", "announceSnap"} \/ (At("wake") /\ wk.todo # {})
WorkerThrows ==
    /\ On /\ Throwing /\ Loss /\ Goto("dead")
    /\ open' = open \ tracked /\ tracked' = {}
    /\ UNCHANGED <<client, server, regs, changes, restarts, wakes>>

\* The points at which the loop looks at the stop token or at m_stopping; the
\* requests between them return without an effect.  Stop joins a thread that has
\* ended at once.
StopPcs == {"top", "sent", "beat", "announce", "poll", "wake", "complete", "wait", "dead"}
SeeStop ==
    /\ svc = "stopping" /\ wk.pc \in StopPcs /\ Goto("exit")
    /\ UNCHANGED <<client, seeds, server, regs>> /\ NoCounts

\* The loop's end closes the tracked sessions, P2PManager::Shutdown the others,
\* and the process ends.
ProcessEnds ==
    /\ svc' = "off" /\ wk' = NoWork /\ mem' = NoKeys /\ notices' = 0
    /\ sync' = [rev |-> 1, synced |-> 0, announced |-> 0]
    /\ open' = {} /\ tracked' = {} /\ reply' = NoReply
    /\ net' = IF LateRequests THEN net ELSE {}
    /\ UNCHANGED <<catalog, db, srv, leases, regs, changes, losses, wakes>>
Exit == At("exit") /\ ProcessEnds /\ UNCHANGED restarts
Crash == /\ svc # "off" /\ restarts < MaxRestarts /\ restarts' = restarts + 1
         /\ ProcessEnds

Start ==
    /\ svc = "off" /\ svc' = "on"
    /\ sync' = [rev |-> sync.rev + 1, synced |-> 0, announced |-> 0]
    /\ mem' = db /\ NextPass
    /\ UNCHANGED <<catalog, notices, db, seeds, server, regs>> /\ NoCounts

Stop ==
    /\ svc = "on" /\ svc' = "stopping"
    /\ IF At("dead") THEN UNCHANGED restarts
       ELSE restarts < MaxRestarts /\ restarts' = restarts + 1
    /\ UNCHANGED <<catalog, notices, db, mem, sync, wk, seeds, server, regs, changes,
                   losses, wakes>>

-----------------------------------------------------------------------------
Registration == TopDirty \/ Snapshot \/ SavePending \/ Send \/ RegisterOk \/ RegisterFail
                \/ SaveLease \/ DropGeneration \/ DropRegistration \/ Mark
Heartbeat == TopIdle \/ BeatOk \/ BeatFail \/ BeatBump
Announcement == AnnounceRev \/ AnnounceSnap \/ AnnounceMark
                \/ \E c \in Contents : AnnounceResource(c)
Wakeups == PollWakeups \/ CompleteWakeup \/ WakeDone \/ ExpireSeeds
           \/ \E c \in Contents : WakeOpen(c) \/ WakeModified(c) \/ WakeRefuse(c)
WorkerLoop == Registration \/ Heartbeat \/ Announcement \/ Wakeups \/ NotReady
              \/ WaitWoken \/ WaitTimeout \/ SeeStop \/ Exit
Service == Start \/ Stop \/ Crash
Directory == ServerRegister \/ LeaseLapses \/ ServerPurges
Changes == MarkDirty \/ \E c \in Contents : Change(c)

Next == WorkerLoop \/ TopBeat \/ WorkerThrows \/ Service \/ Directory \/ Changes

Spec == Init /\ [][Next]_vars

-----------------------------------------------------------------------------
(* Fairness.  The worker's loop keeps turning as long as it has not thrown,    *)
(* every callback runs, the directory answers what reaches it, and a lease     *)
(* nobody renews lapses after its five minutes.  A pass with nothing to        *)
(* register finds the heartbeat due again and again: its period is a clock, so *)
(* strong fairness.  Calls may be lost, and exceptions thrown, MaxLosses times *)
(* in all; the user may stop the service at any time.                          *)

Fairness ==
    /\ WF_vars(WorkerLoop) /\ SF_vars(TopBeat) /\ WF_vars(MarkDirty)
    /\ WF_vars(ServerRegister) /\ WF_vars(LeaseLapses /\ Abandoned)

FairSpec == Spec /\ Fairness

-----------------------------------------------------------------------------
(* Properties. *)

\* Every variable keeps to its values; what the server holds was drawn before.
Keys == [gen : Nat, lease : Nat, pgen : Nat, preg : Nat]
WorkerPcs == StopPcs \cup
             {"off", "exit", "snapshot", "savePending", "send", "saveLease",
              "dropGeneration", "dropRegistration", "mark", "bump", "announceRev",
              "announceSnap", "expire"}
TypeOK ==
    /\ catalog \subseteq Contents /\ notices \in Nat
    /\ db \in Keys /\ mem \in Keys
    /\ sync \in [rev : Nat, synced : Nat, announced : Nat]
    /\ svc \in {"off", "on", "stopping"}
    /\ wk \in [pc : WorkerPcs, attempt : Nat, failed : BOOLEAN, resAttempt : Nat,
               snap : SUBSET Contents, todo : SUBSET Contents, all : BOOLEAN]
    /\ open \subseteq Contents /\ tracked \subseteq Contents
    /\ srv \in [gen : Nat, reg : 0 .. regs, lease : 0 .. leases, alive : BOOLEAN,
                inv : SUBSET Contents, res : SUBSET Contents]
    /\ net \subseteq [gen : Nat, reg : 0 .. regs, prev : Nat, inv : SUBSET Contents]
    /\ reply \in [kind : {"none", "ok", "refused"}, gen : Nat, lease : Nat]
    /\ regs \in Nat /\ leases \in Nat
    /\ changes \in Nat /\ losses \in Nat /\ restarts \in Nat /\ wakes \in Nat

\* A change of the catalog is never lost: when the worker waits with everything
\* synchronized, every callback has run and the directory still honours its
\* lease, the directory's inventory is the catalog, whatever changed while a
\* registration was under way, was lost or was repeated after a restart.
Settled == /\ On /\ At("wait") /\ sync.synced = sync.rev /\ notices = 0 /\ LeaseGood
Lossless == Settled => srv.inv = catalog

\* The same of the resources: all of them have been announced.
ResourcesKnown == Settled /\ sync.announced = sync.rev => catalog \subseteq srv.res

\* A registration the directory has committed and the client has not recorded
\* can be repeated: its generation and id are in the settings, crashes included.
RepeatPossible ==
    srv.gen > db.gen => db.pgen = srv.gen /\ db.preg = srv.reg

\* While the service runs, the directory comes to hold the current catalog under
\* the client's lease, however it was locked out: by a crash between the writes
\* of the generation and the lease, by a heartbeat lost on the network, by a
\* lease that lapsed; unless an exception has ended the worker, which nothing
\* starts again.  Only a request that arrives after its own repetition was
\* answered may leave an older inventory behind: without late requests Lossless
\* shows that there is none.
Published == LeaseGood /\ srv.inv = catalog
Overtaken == Settled /\ srv.inv # catalog
Converges == On /\ ~Published ~> Published \/ ~On \/ Overtaken \/ At("dead")
=============================================================================
