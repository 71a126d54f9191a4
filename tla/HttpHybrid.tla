----------------------------- MODULE HttpHybrid -----------------------------
(* The canonical HTTP hybrid of OpenNet's DownloadManager: one HTTP download, *)
(* two engines that can write its payload.  aria2 is created paused as a      *)
(* control shell; a discovery thread looks for trusted canonical metadata;    *)
(* two worker threads hand the path to a hidden libtorrent session; a refresh *)
(* thread promotes a verified payload; the callers of the command service     *)
(* pause, resume and delete; a restart recovers the ownership SQLite holds.   *)
(*                                                                            *)
(* One action is one critical section of m_canonicalHybridMutex, one database *)
(* write, one RPC, one file removal or one libtorrent call: the points        *)
(* between which the threads interleave.                                      *)
EXTENDS Naturals, FiniteSets

CONSTANTS
    Gids,         \* HTTP downloads that qualify for the canonical probe
    Workers,      \* threads running CanonicalHybridThreadEntry (two in the code)
    Callers,      \* background threads that run user commands
    Ops,          \* the commands issued, a subset of {"Pause","Resume","Delete"}
    MaxOps,       \* bound on the number of commands
    MaxRestarts,  \* bound on the number of crashes and shutdowns
    LocksHold,    \* TRUE: a file an engine is writing cannot be removed
    RpcFails      \* TRUE: an aria2 RPC may fail (its exception is swallowed)

ASSUME OpsAssumption == Ops \subseteq {"Pause", "Resume", "Delete"}
ASSUME BoundsAssumption == MaxOps \in Nat /\ MaxRestarts \in Nat
ASSUME SwitchAssumption == LocksHold \in BOOLEAN /\ RpcFails \in BOOLEAN

VARIABLES
    \* rows of http_download_records, and what the catalog was handed
    status,       \* the row: new (none yet), active, complete, failed, deleted
    engine,       \* active_engine: Aria2, Probe, Hybrid
    pausedRec,    \* rows with user_requested_paused
    catalog,      \* downloads handed to ContentCatalogService (durable there)
    \* the world outside the manager
    file,         \* bytes at the target path, and who wrote them
    aria,         \* the aria2 task
    ariaDone,     \* tasks aria2 reports CompletedLength # 0 for
    sess,         \* the hidden libtorrent session "http-hybrid:<gid>"
    \* m_canonicalHybrids and the sets guarded by the same mutex
    phase,        \* CanonicalHybridPhase, "none" when there is no state
    cancel,       \* states with cancelRequested
    hpaused,      \* states with userPaused
    queued,       \* states with workerQueued
    probe,        \* m_hybridProbeGids
    suppressed,   \* m_canonicalHybridSuppressedGids
    userPaused,   \* m_userPausedHttpGids
    \* the two job queues, as the number of queued jobs of each download
    djobs,        \* m_resourceDiscoveryJobs
    hjobs,        \* m_canonicalHybridJobs
    last,         \* m_lastHttpStatuses
    \* the threads: where each is, and its locals
    disc, work, call, refr, rcv,
    run, ops, restarts

rows    == <<status, engine, pausedRec, catalog>>
world   == <<file, aria, ariaDone, sess>>
states  == <<phase, cancel, hpaused, queued>>
sets    == <<probe, suppressed, userPaused>>
jobs    == <<djobs, hjobs>>
control == <<run, ops, restarts>>
vars    == <<rows, world, states, sets, jobs, last, disc, work, call, refr, rcv,
             control>>

-----------------------------------------------------------------------------
(* Shared operators. *)

\* The task is one HasCanonicalHybridPending answers TRUE for.
HybridLive(g) == phase[g] \in {"Pending", "Downloading", "Ready"} /\ g \notin cancel

\* Steps during which a thread holds aria2's InstanceLock across several actions.
AddPcs == {"addRow", "addPolicy", "addEngine", "addProbe", "addQueue"}
LockedCallPcs == AddPcs \cup {"delShell", "delFile"}
RpcFree == /\ refr.pc = "idle"
           /\ \A c \in Callers : call[c].pc \notin LockedCallPcs

\* std::filesystem::remove followed by exists: TRUE when the path is free.
Held(g) == \/ aria[g] = "active" /\ file[g] \in {"aria", "mixed"}
           \/ sess[g] \in {"open", "finished"}
RemoveOutcomes(g) == IF file[g] = "absent" THEN {TRUE}
                     ELSE IF LocksHold /\ Held(g) THEN {FALSE} ELSE BOOLEAN
RemoveFile(g, ok) ==
    /\ ok \in RemoveOutcomes(g)
    /\ file' = IF ok THEN [file EXCEPT ![g] = "absent"] ELSE file

\* aria2.unpause and aria2.pause: no effect in another status, and none when lost.
Rpc(g, from, to) ==
    \/ aria' = IF aria[g] = from THEN [aria EXCEPT ![g] = to] ELSE aria
    \/ RpcFails /\ aria' = aria
Unpause(g) == Rpc(g, "paused", "active")

\* A database write to a row that still exists.
SetEngine(g, e) ==
    engine' = IF status[g] = "deleted" THEN engine ELSE [engine EXCEPT ![g] = e]
SetStatus(g, s) ==
    status' = IF status[g] = "deleted" THEN status ELSE [status EXCEPT ![g] = s]

CloseSession(g) == sess' = [sess EXCEPT ![g] = "none"]

\* m_canonicalHybrids.erase(gid)
EraseState(g) ==
    /\ phase' = [phase EXCEPT ![g] = "none"]
    /\ cancel' = cancel \ {g}
    /\ hpaused' = hpaused \ {g}
    /\ queued' = queued \ {g}

\* The critical section of CancelCanonicalHybrid; the session of a state it
\* erases is closed by the caller's next step.
CancelErases(g) == phase[g] \in {"Pending", "Ready", "Failed"}
CancelSection(g) ==
    /\ suppressed' = suppressed \cup {g}
    /\ probe' = probe \ {g}
    /\ userPaused' = userPaused \ {g}
    /\ hjobs' = IF phase[g] = "none" THEN hjobs ELSE [hjobs EXCEPT ![g] = 0]
    /\ IF CancelErases(g)
       THEN EraseState(g)
       ELSE /\ cancel' = IF phase[g] = "none" THEN cancel ELSE cancel \cup {g}
            /\ UNCHANGED <<phase, hpaused, queued>>
    /\ UNCHANGED djobs

-----------------------------------------------------------------------------
Idle(x) == x.pc = "idle"
NoGid == "none"
DiscPcs == {"idle", "lookup", "queue", "decide", "handBack", "resume"}
WorkPcs == {"idle", "release", "claim", "open", "connect", "poll", "status", "dropClose",
            "dropErase", "close", "verify", "publish", "failClose", "failFile",
            "failJudge", "handBack", "resume"}
CallPcs == AddPcs \cup
           {"idle", "pauseMark", "pauseSession", "pauseCancel", "pauseClose", "pauseAria",
            "resumeMark", "resumeSession", "tryCheck",
            "tryFile", "tryProbe", "tryEngine", "tryQueue", "resumeAria",
            "delClose", "delLock", "delShell", "delFile", "delRow"}
RefrPcs == {"idle", "check", "promote", "shell", "rowStatus", "rowEngine", "erase", "enqueue",
            "snapshot", "live", "write", "react", "reactClose", "reactDone"}
RcvPcs  == {"idle", "replay", "hash", "shell", "rowStatus", "clean", "engine",
            "resume", "rowActive"}

IdleDisc == [pc |-> "idle", gid |-> NoGid, resume |-> FALSE]
IdleWork == [pc |-> "idle", gid |-> NoGid, ok |-> FALSE]
IdleCall == [pc |-> "idle", gid |-> NoGid, owned |-> FALSE]
IdleRefr == [pc |-> "idle", gid |-> NoGid, seen |-> "gone", held |-> FALSE, live |-> FALSE]
IdleRcv  == [pc |-> "idle", gid |-> NoGid, paused |-> {},
             plan |-> [g \in Gids |-> "idle"]]

Init ==
    /\ status = [g \in Gids |-> "new"] /\ engine = [g \in Gids |-> "Aria2"]
    /\ pausedRec = {} /\ catalog = {}
    /\ file = [g \in Gids |-> "absent"] /\ aria = [g \in Gids |-> "gone"]
    /\ ariaDone = {} /\ sess = [g \in Gids |-> "none"]
    /\ phase = [g \in Gids |-> "none"]
    /\ cancel = {} /\ hpaused = {} /\ queued = {}
    /\ probe = {} /\ suppressed = {} /\ userPaused = {}
    /\ djobs = [g \in Gids |-> 0] /\ hjobs = [g \in Gids |-> 0]
    /\ last = [g \in Gids |-> "unknown"]
    /\ disc = IdleDisc /\ work = [w \in Workers |-> IdleWork]
    /\ call = [c \in Callers |-> IdleCall]
    /\ refr = IdleRefr /\ rcv = IdleRcv
    /\ run = "up" /\ ops = 0 /\ restarts = 0

-----------------------------------------------------------------------------
(* The engines, external: aria2 and libtorrent as the manager relies on them. *)

OnlyWorld == UNCHANGED <<rows, states, sets, jobs, last, disc, work, call, refr,
                         rcv, control>>

\* aria2 opens (or continues) the output file.
AriaOpen(g) ==
    /\ aria[g] = "active" /\ run # "down"
    /\ file[g] # "aria"
    /\ file' = [file EXCEPT ![g] = IF @ = "absent" THEN "aria" ELSE "mixed"]
    /\ UNCHANGED <<aria, ariaDone, sess>> /\ OnlyWorld

AriaReceive(g) ==
    /\ aria[g] = "active" /\ run # "down"
    /\ file[g] \in {"aria", "mixed"} /\ g \notin ariaDone
    /\ ariaDone' = ariaDone \cup {g}
    /\ UNCHANGED <<file, aria, sess>> /\ OnlyWorld

AriaFinish(g) ==
    /\ aria[g] = "active" /\ run # "down"
    /\ \/ /\ g \in ariaDone
          /\ aria' = [aria EXCEPT ![g] = "complete"]
          /\ file' = IF file[g] = "aria" THEN [file EXCEPT ![g] = "good"] ELSE file
       \/ aria' = [aria EXCEPT ![g] = "error"] /\ UNCHANGED file
    /\ UNCHANGED <<ariaDone, sess>> /\ OnlyWorld

\* libtorrent writes a piece.
LtWrite(g) ==
    /\ sess[g] = "open" /\ file[g] # "lt"
    /\ file' = [file EXCEPT ![g] = IF @ = "absent" THEN "lt" ELSE "mixed"]
    /\ UNCHANGED <<aria, ariaDone, sess>> /\ OnlyWorld

\* The torrent is finished (its payload may still fail the caller's SHA-256),
\* or stops with an error.
LtFinish(g) ==
    /\ sess[g] = "open"
    /\ \/ /\ file[g] # "absent"
          /\ sess' = [sess EXCEPT ![g] = "finished"]
          /\ \/ file[g] = "lt" /\ file' = [file EXCEPT ![g] = "good"]
             \/ UNCHANGED file
       \/ sess' = [sess EXCEPT ![g] = "error"] /\ UNCHANGED file
    /\ UNCHANGED <<aria, ariaDone>> /\ OnlyWorld

Engines == \E g \in Gids : AriaOpen(g) \/ AriaReceive(g) \/ AriaFinish(g)
                           \/ LtWrite(g) \/ LtFinish(g)

-----------------------------------------------------------------------------
(* User commands: DownloadManager's public operations, each run by a caller  *)
(* on a background thread, concurrently with every other thread.             *)

Goto(c, pc) == call' = [call EXCEPT ![c].pc = pc]
Done(c)     == call' = [call EXCEPT ![c] = IdleCall]
CallElse    == UNCHANGED <<disc, work, refr, rcv, run, restarts, last>>
At(c, pc)   == call[c].pc = pc
Gid(c)      == call[c].gid

\* A download is known to callers when AddHttpDownload returned its gid.
MayCall(c, g) ==
    /\ Idle(call[c]) /\ run \in {"up", "recover"}
    /\ \A d \in Callers : call[d].gid = g => call[d].pc \notin AddPcs

\* AddHttpDownload, under InstanceLock from its RPC to its end.  aria2 holds the
\* task, paused, before any row does,
AddShell(c, g) ==
    /\ MayCall(c, g) /\ status[g] = "new" /\ aria[g] = "gone" /\ RpcFree
    /\ aria' = [aria EXCEPT ![g] = "paused"]
    /\ \E startPaused \in BOOLEAN :
          call' = [call EXCEPT ![c] = [pc |-> "addRow", gid |-> g, owned |-> startPaused]]
    /\ UNCHANGED <<rows, file, ariaDone, sess, states, sets, jobs, ops>> /\ CallElse

\* then the row is inserted, told the user's intent, told its engine,
AddRow(c) ==
    /\ At(c, "addRow") /\ SetStatus(Gid(c), "active") /\ Goto(c, "addPolicy")
    /\ UNCHANGED <<engine, pausedRec, catalog, world, states, sets, jobs, ops>> /\ CallElse

AddPolicy(c) ==
    /\ At(c, "addPolicy") /\ Goto(c, "addEngine")
    /\ pausedRec' = IF call[c].owned THEN pausedRec \cup {Gid(c)} ELSE pausedRec \ {Gid(c)}
    /\ UNCHANGED <<status, engine, catalog, world, states, sets, jobs, ops>> /\ CallElse

AddEngine(c) ==
    /\ At(c, "addEngine") /\ SetEngine(Gid(c), "Probe") /\ Goto(c, "addProbe")
    /\ last' = [last EXCEPT ![Gid(c)] = "paused"]
    /\ UNCHANGED <<status, pausedRec, catalog, world, states, sets, jobs, ops,
                   disc, work, refr, rcv, run, restarts>>

\* and the probe is registered; its discovery is queued last.
AddProbe(c) ==
    /\ At(c, "addProbe") /\ Goto(c, "addQueue")
    /\ probe' = probe \cup {Gid(c)}
    /\ userPaused' = IF call[c].owned THEN userPaused \cup {Gid(c)} ELSE userPaused
    /\ UNCHANGED <<rows, world, states, suppressed, jobs, ops>> /\ CallElse

\* QueueResourceDiscovery, the last step of AddHttpDownload and of
\* TryQueueResumeResourceDiscovery.
QueueDiscovery(c) ==
    /\ (At(c, "addQueue") \/ At(c, "tryQueue")) /\ Done(c)
    /\ djobs' = [djobs EXCEPT ![Gid(c)] = @ + 1]
    /\ UNCHANGED <<rows, world, states, sets, hjobs, ops>> /\ CallElse

Begin(c, g, op, pc) ==
    /\ MayCall(c, g) /\ op \in Ops /\ ops < MaxOps
    /\ status[g] \notin {"new", "deleted"}
    /\ ops' = ops + 1
    /\ call' = [call EXCEPT ![c] =
                   [pc |-> pc, gid |-> g, owned |-> FALSE]]

\* PauseHttpDownload
PauseRecord(c, g) ==
    /\ Begin(c, g, "Pause", "pauseMark")
    /\ pausedRec' = pausedRec \cup {g}
    /\ UNCHANGED <<status, engine, catalog, world, states, sets, jobs>> /\ CallElse

PauseMark(c) ==
    LET g == Gid(c)
        live == HybridLive(g)
        owned == g \in probe \/ live
        toSession == live /\ phase[g] = "Downloading"
    IN /\ At(c, "pauseMark")
       /\ userPaused' = IF owned THEN userPaused \cup {g} ELSE userPaused
       /\ hpaused' = IF live THEN hpaused \cup {g} ELSE hpaused
       /\ call' = [call EXCEPT ![c].owned = owned,
                      ![c].pc = IF toSession THEN "pauseSession"
                                ELSE IF owned THEN "pauseAria" ELSE "pauseCancel"]
       /\ UNCHANGED <<rows, world, phase, cancel, queued, probe, suppressed, jobs, ops>>
       /\ CallElse

\* PauseLongSeedSession has no session to pause before the worker opened it.
PauseSession(c) ==
    LET g == Gid(c) IN
    /\ At(c, "pauseSession") /\ Goto(c, "pauseAria")
    /\ sess' = IF sess[g] = "open" THEN [sess EXCEPT ![g] = "paused"] ELSE sess
    /\ UNCHANGED <<rows, file, aria, ariaDone, states, sets, jobs, ops>> /\ CallElse

\* A download no hybrid owns: CancelCanonicalHybrid.
PauseCancel(c) ==
    /\ At(c, "pauseCancel") /\ CancelSection(Gid(c))
    /\ Goto(c, IF CancelErases(Gid(c)) THEN "pauseClose" ELSE "pauseAria")
    /\ UNCHANGED <<rows, world, ops>> /\ CallElse

PauseClose(c) ==
    /\ At(c, "pauseClose") /\ CloseSession(Gid(c)) /\ Goto(c, "pauseAria")
    /\ UNCHANGED <<rows, file, aria, ariaDone, states, sets, jobs, ops>> /\ CallElse

PauseAria(c) ==
    /\ At(c, "pauseAria") /\ RpcFree /\ Rpc(Gid(c), "active", "paused") /\ Done(c)
    /\ UNCHANGED <<rows, file, ariaDone, sess, states, sets, jobs, ops>> /\ CallElse

\* ResumeHttpDownload
ResumeRecord(c, g) ==
    /\ Begin(c, g, "Resume", "resumeMark")
    /\ pausedRec' = pausedRec \ {g}
    /\ UNCHANGED <<status, engine, catalog, world, states, sets, jobs>> /\ CallElse

\* The critical section when the hybrid failed: its payload is removed first.
ResumeFailed(c) ==
    LET g == Gid(c) IN
    /\ At(c, "resumeMark") /\ phase[g] = "Failed" /\ g \notin cancel
    /\ userPaused' = userPaused \ {g}
    /\ \E ok \in BOOLEAN :
          /\ RemoveFile(g, ok)
          /\ IF ok THEN EraseState(g) /\ probe' = probe \ {g} /\ Goto(c, "tryCheck")
             ELSE UNCHANGED <<states, probe>> /\ Done(c)
    /\ UNCHANGED <<rows, aria, ariaDone, sess, suppressed, jobs, ops>> /\ CallElse

\* Mutant of ResumeMark: a hybrid paused before a worker took it stays queued in
\* name only.
ResumeForgetsJob(c) ==
    LET g == Gid(c)
        live == HybridLive(g)
    IN /\ At(c, "resumeMark") /\ ~(phase[g] = "Failed" /\ g \notin cancel)
       /\ userPaused' = userPaused \ {g}
       /\ hpaused' = IF live THEN hpaused \ {g} ELSE hpaused
       /\ IF live /\ phase[g] = "Downloading" THEN Goto(c, "resumeSession")
          ELSE IF live \/ g \in probe THEN Done(c) ELSE Goto(c, "tryCheck")
       /\ UNCHANGED <<rows, world, phase, cancel, queued, probe, suppressed, jobs, ops>>
       /\ CallElse

\* The critical section otherwise: a live hybrid or a probe keeps the download.
ResumeMark(c) ==
    LET g == Gid(c)
        live == HybridLive(g)
        requeue == live /\ phase[g] = "Pending" /\ g \notin queued
    IN /\ At(c, "resumeMark") /\ ~(phase[g] = "Failed" /\ g \notin cancel)
       /\ userPaused' = userPaused \ {g}
       /\ hpaused' = IF live THEN hpaused \ {g} ELSE hpaused
       /\ queued' = IF requeue THEN queued \cup {g} ELSE queued
       /\ hjobs' = IF requeue THEN [hjobs EXCEPT ![g] = @ + 1] ELSE hjobs
       /\ IF live /\ phase[g] = "Downloading" THEN Goto(c, "resumeSession")
          ELSE IF live \/ g \in probe THEN Done(c) ELSE Goto(c, "tryCheck")
       /\ UNCHANGED <<rows, world, phase, cancel, probe, suppressed, djobs, ops>>
       /\ CallElse

ResumeSession(c) ==
    LET g == Gid(c) IN
    /\ At(c, "resumeSession") /\ Done(c)
    /\ sess' = IF sess[g] = "paused" THEN [sess EXCEPT ![g] = "open"] ELSE sess
    /\ UNCHANGED <<rows, file, aria, ariaDone, states, sets, jobs, ops>> /\ CallElse

\* TryQueueResumeResourceDiscovery: only a paused task without a byte qualifies,
TryCheck(c) ==
    LET g == Gid(c) IN
    /\ At(c, "tryCheck") /\ RpcFree
    /\ Goto(c, IF /\ status[g] = "active" /\ run \notin {"stopDiscovery", "stopWorkers"}
                  /\ aria[g] = "paused" /\ g \notin ariaDone
               THEN "tryFile" ELSE "resumeAria")
    /\ UNCHANGED <<rows, world, states, sets, jobs, ops>> /\ CallElse

\* its payload must be removable,
TryFile(c) ==
    /\ At(c, "tryFile")
    /\ \E ok \in BOOLEAN : /\ RemoveFile(Gid(c), ok)
                           /\ Goto(c, IF ok THEN "tryProbe" ELSE "resumeAria")
    /\ UNCHANGED <<rows, aria, ariaDone, sess, states, sets, jobs, ops>> /\ CallElse

\* and no other owner may have appeared meanwhile.
TryProbe(c) ==
    LET g == Gid(c) IN
    /\ At(c, "tryProbe")
    /\ IF HybridLive(g) \/ g \in probe THEN Done(c) /\ UNCHANGED sets
       ELSE /\ suppressed' = suppressed \ {g}
            /\ userPaused' = userPaused \ {g}
            /\ probe' = probe \cup {g}
            /\ Goto(c, "tryEngine")
    /\ UNCHANGED <<rows, world, states, jobs, ops>> /\ CallElse

TryEngine(c) ==
    /\ At(c, "tryEngine") /\ SetEngine(Gid(c), "Probe") /\ Goto(c, "tryQueue")
    /\ UNCHANGED <<status, pausedRec, catalog, world, states, sets, jobs, ops>> /\ CallElse

ResumeAria(c) ==
    /\ At(c, "resumeAria") /\ RpcFree /\ Unpause(Gid(c)) /\ Done(c)
    /\ UNCHANGED <<rows, file, ariaDone, sess, states, sets, jobs, ops>> /\ CallElse

\* TaskCommandService::DeleteAsync around DeleteHttpDownload.
DeleteCancel(c, g) ==
    /\ MayCall(c, g) /\ "Delete" \in Ops /\ ops < MaxOps
    /\ status[g] \notin {"new", "deleted"}
    /\ ops' = ops + 1 /\ CancelSection(g)
    /\ call' = [call EXCEPT ![c] =
            [pc |-> IF CancelErases(g) THEN "delClose" ELSE "delLock", gid |-> g,
             owned |-> FALSE]]
    /\ UNCHANGED <<rows, world>> /\ CallElse

DeleteClose(c) ==
    /\ At(c, "delClose") /\ CloseSession(Gid(c)) /\ Goto(c, "delLock")
    /\ UNCHANGED <<rows, file, aria, ariaDone, states, sets, jobs, ops>> /\ CallElse

DeleteLock(c) ==
    /\ At(c, "delLock") /\ RpcFree /\ Goto(c, "delShell")
    /\ UNCHANGED <<rows, world, states, sets, jobs, ops>> /\ CallElse

\* aria2 stops and forgets the task, or the command throws and keeps the row.
DeleteShell(c) ==
    LET g == Gid(c) IN
    /\ At(c, "delShell")
    /\ \/ aria' = [aria EXCEPT ![g] = "gone"] /\ Goto(c, "delFile")
       \/ RpcFails /\ aria[g] # "gone" /\ UNCHANGED aria /\ Done(c)
    /\ UNCHANGED <<rows, file, ariaDone, sess, states, sets, jobs, ops>> /\ CallElse

\* The files are removed unless the user keeps the payload (the control file is
\* not modelled); a locked file makes the command throw.
DeleteFile(c) ==
    LET g == Gid(c)
        forget == Goto(c, "delRow") /\ last' = [last EXCEPT ![g] = "unknown"]
    IN /\ At(c, "delFile")
       /\ \/ \E ok \in BOOLEAN : /\ RemoveFile(g, ok)
                                 /\ IF ok THEN forget ELSE Done(c) /\ UNCHANGED last
          \/ forget /\ UNCHANGED file
       /\ UNCHANGED <<rows, aria, ariaDone, sess, states, sets, jobs, control,
                      disc, work, refr, rcv>>

DeleteRow(c) ==
    /\ At(c, "delRow") /\ SetStatus(Gid(c), "deleted") /\ Done(c)
    /\ UNCHANGED <<engine, pausedRec, catalog, world, states, sets, jobs, ops>> /\ CallElse

AddPauseStep(c) ==
    \/ AddRow(c) \/ AddPolicy(c) \/ AddEngine(c) \/ AddProbe(c) \/ QueueDiscovery(c)
    \/ PauseMark(c) \/ PauseSession(c) \/ PauseCancel(c) \/ PauseClose(c) \/ PauseAria(c)
ResumeStep(c) ==
    \/ ResumeFailed(c) \/ ResumeMark(c) \/ ResumeSession(c)
    \/ TryCheck(c) \/ TryFile(c) \/ TryProbe(c) \/ TryEngine(c) \/ ResumeAria(c)
DeleteStep(c) ==
    DeleteClose(c) \/ DeleteLock(c) \/ DeleteShell(c) \/ DeleteFile(c) \/ DeleteRow(c)
CallStep(c) == AddPauseStep(c) \/ ResumeStep(c) \/ DeleteStep(c)

CallBegin(c) ==
    \E g \in Gids : \/ AddShell(c, g) \/ PauseRecord(c, g)
                    \/ ResumeRecord(c, g) \/ DeleteCancel(c, g)

-----------------------------------------------------------------------------
(* ResourceDiscoveryThreadEntry: one thread, one job at a time. *)

DGoto(pc) == disc' = [disc EXCEPT !.pc = pc]
DiscElse == UNCHANGED <<work, call, refr, rcv, control, last>>

\* Mutant of DiscPop: wakes up without looking whether there is a job.
DiscPopEmpty(g) ==
    /\ Idle(disc) /\ run \in {"up", "stopRefresh"} /\ status[g] = "active"
    /\ djobs' = [djobs EXCEPT ![g] = @ - 1]
    /\ disc' = [disc EXCEPT !.pc = "lookup", !.gid = g]
    /\ UNCHANGED <<rows, world, states, sets, hjobs>> /\ DiscElse

DiscPop(g) ==
    /\ Idle(disc) /\ run \in {"up", "stopRefresh"} /\ djobs[g] > 0
    /\ djobs' = [djobs EXCEPT ![g] = @ - 1]
    /\ disc' = [disc EXCEPT !.pc = "lookup", !.gid = g]
    /\ UNCHANGED <<rows, world, states, sets, hjobs>> /\ DiscElse

\* The Content Directory answers: a validated candidate, or none.  A stop
\* request ends the thread instead.
DiscLookup ==
    /\ disc.pc = "lookup"
    /\ IF run = "stopDiscovery" THEN disc' = IdleDisc
       ELSE DGoto("queue") \/ DGoto("decide")
    /\ UNCHANGED <<rows, world, states, sets, jobs>> /\ DiscElse

\* QueueCanonicalHybrid
DiscQueue ==
    LET g == disc.gid
        pausedNow == g \in userPaused
    IN /\ disc.pc = "queue" /\ disc' = IdleDisc
       /\ IF g \in suppressed \/ HybridLive(g)
          THEN UNCHANGED <<states, probe, hjobs>>
          ELSE /\ probe' = probe \ {g}
               /\ phase' = [phase EXCEPT ![g] = "Pending"]
               /\ cancel' = cancel \ {g}
               /\ hpaused' = IF pausedNow THEN hpaused \cup {g} ELSE hpaused \ {g}
               /\ queued' = IF pausedNow THEN queued \ {g} ELSE queued \cup {g}
               /\ hjobs' = IF pausedNow THEN hjobs ELSE [hjobs EXCEPT ![g] = @ + 1]
       /\ UNCHANGED <<rows, world, suppressed, userPaused, djobs>> /\ DiscElse

\* Mutant of DiscDecide: the probe is not forgotten when no candidate was found.
DiscDecideKeepsProbe ==
    LET g == disc.gid IN
    /\ disc.pc = "decide"
    /\ disc' = [disc EXCEPT !.pc = "handBack",
                            !.resume = g \notin suppressed /\ g \notin userPaused]
    /\ UNCHANGED <<rows, world, states, sets, jobs>> /\ DiscElse

\* No canonical metadata.  Whether aria2 may resume is decided here, under the
\* mutex, and acted on two steps later, without it.
DiscDecide ==
    LET g == disc.gid IN
    /\ disc.pc = "decide"
    /\ probe' = probe \ {g}
    /\ disc' = [disc EXCEPT !.pc = "handBack",
                            !.resume = g \notin suppressed /\ g \notin userPaused]
    /\ UNCHANGED <<rows, world, states, suppressed, userPaused, jobs>> /\ DiscElse

DiscHandBack ==
    /\ disc.pc = "handBack"
    /\ SetEngine(disc.gid, "Aria2")
    /\ disc' = IF disc.resume THEN [disc EXCEPT !.pc = "resume"] ELSE IdleDisc
    /\ UNCHANGED <<status, pausedRec, catalog, world, states, sets, jobs>> /\ DiscElse

DiscResume ==
    /\ disc.pc = "resume" /\ RpcFree
    /\ Unpause(disc.gid) /\ disc' = IdleDisc
    /\ UNCHANGED <<rows, file, ariaDone, sess, states, sets, jobs>> /\ DiscElse

DiscStep == DiscLookup \/ DiscQueue \/ DiscDecide \/ DiscHandBack \/ DiscResume
Discovery == DiscStep \/ \E g \in Gids : DiscPop(g)

-----------------------------------------------------------------------------
(* CanonicalHybridThreadEntry: the workers. *)

WorkElse == UNCHANGED <<disc, call, refr, rcv, control, last>>
WAt(w, pc) == work[w].pc = pc
WGid(w) == work[w].gid
WGoto(w, pc) == work' = [work EXCEPT ![w].pc = pc]
WDone(w) == work' = [work EXCEPT ![w] = IdleWork]

WorkPop(w, g) ==
    /\ Idle(work[w]) /\ hjobs[g] > 0
    /\ hjobs' = [hjobs EXCEPT ![g] = @ - 1]
    /\ IF phase[g] = "none" \/ g \in cancel
       THEN UNCHANGED <<phase, queued, work>>
       ELSE /\ queued' = queued \ {g}
            /\ IF g \in hpaused THEN UNCHANGED <<phase, work>>
               ELSE /\ phase' = [phase EXCEPT ![g] = "Downloading"]
                    /\ work' = [work EXCEPT ![w] =
                                  [pc |-> "release", gid |-> g, ok |-> FALSE]]
    /\ UNCHANGED <<rows, world, cancel, hpaused, sets, djobs>> /\ WorkElse

\* Mutant of WorkClaim: the session is opened before the row names its owner.
WorkClaimLate(w) ==
    /\ WAt(w, "claim") /\ WGoto(w, "open")
    /\ UNCHANGED <<rows, world, states, sets, jobs>> /\ WorkElse

\* The paused aria2 payload must be gone before libtorrent owns the path.
WorkRelease(w) ==
    /\ WAt(w, "release")
    /\ \E ok \in BOOLEAN : /\ RemoveFile(WGid(w), ok)
                           /\ WGoto(w, IF ok THEN "claim" ELSE "failClose")
    /\ UNCHANGED <<rows, aria, ariaDone, sess, states, sets, jobs>> /\ WorkElse

WorkClaim(w) ==
    /\ WAt(w, "claim") /\ SetEngine(WGid(w), "Hybrid") /\ WGoto(w, "open")
    /\ UNCHANGED <<status, pausedRec, catalog, world, states, sets, jobs>> /\ WorkElse

\* StartLongSeedDownloadAsync: no swarm (or a stop request), or the session is
\* opened, unless one with this id exists.
WorkOpen(w) ==
    LET g == WGid(w) IN
    /\ WAt(w, "open")
    /\ \/ WGoto(w, "failClose") /\ UNCHANGED sess
       \/ /\ run # "stopWorkers" /\ WGoto(w, "connect")
          /\ sess' = IF sess[g] = "none" THEN [sess EXCEPT ![g] = "open"] ELSE sess
    /\ UNCHANGED <<rows, file, aria, ariaDone, states, sets, jobs>> /\ WorkElse

\* Peers are connected or not; once started the row names the engine again.
WorkConnect(w) ==
    /\ WAt(w, "connect")
    /\ \/ WGoto(w, "failClose") /\ UNCHANGED engine
       \/ run # "stopWorkers" /\ SetEngine(WGid(w), "Hybrid") /\ WGoto(w, "poll")
    /\ UNCHANGED <<status, pausedRec, catalog, world, states, sets, jobs>> /\ WorkElse

\* The polling loop: its critical section,
WorkPoll(w) ==
    LET g == WGid(w) IN
    /\ WAt(w, "poll")
    /\ IF run = "stopWorkers" \/ phase[g] = "none" \/ g \in cancel
       THEN WGoto(w, "dropClose")
       ELSE g \notin hpaused /\ WGoto(w, "status")
    /\ UNCHANGED <<rows, world, states, sets, jobs>> /\ WorkElse

\* its look at the session,
WorkStatus(w) ==
    /\ WAt(w, "status")
    /\ WGoto(w, CASE sess[WGid(w)] \in {"none", "error"} -> "failClose"
                  [] sess[WGid(w)] = "finished" -> "close"
                  [] OTHER -> "poll")
    /\ UNCHANGED <<rows, world, states, sets, jobs>> /\ WorkElse

\* and its deadline, which paused time does not consume.
WorkTimeout(w) ==
    /\ WAt(w, "poll") /\ WGid(w) \notin hpaused /\ WGoto(w, "failClose")
    /\ UNCHANGED <<rows, world, states, sets, jobs>> /\ WorkElse

\* Mutant of WorkDropClose: a cancelled download forgets its session.
WorkDropForgets(w) ==
    /\ WAt(w, "dropClose") /\ WGoto(w, "dropErase")
    /\ UNCHANGED <<rows, world, states, sets, jobs>> /\ WorkElse

\* Cancelled: close, then forget the state; payload and row stay as they are.
WorkDropClose(w) ==
    /\ WAt(w, "dropClose") /\ CloseSession(WGid(w)) /\ WGoto(w, "dropErase")
    /\ UNCHANGED <<rows, file, aria, ariaDone, states, sets, jobs>> /\ WorkElse

WorkDropErase(w) ==
    /\ WAt(w, "dropErase") /\ EraseState(WGid(w)) /\ WDone(w)
    /\ UNCHANGED <<rows, world, sets, jobs>> /\ WorkElse

\* Finished: close, re-hash, publish.
WorkClose(w) ==
    /\ WAt(w, "close") /\ CloseSession(WGid(w)) /\ WGoto(w, "verify")
    /\ UNCHANGED <<rows, file, aria, ariaDone, states, sets, jobs>> /\ WorkElse

\* Mutant of WorkVerify: a finished torrent is taken for a verified payload.
WorkTrusts(w) ==
    /\ WAt(w, "verify") /\ WGoto(w, "publish")
    /\ UNCHANGED <<rows, world, states, sets, jobs>> /\ WorkElse

WorkVerify(w) ==
    /\ WAt(w, "verify")
    /\ WGoto(w, IF file[WGid(w)] = "good" THEN "publish" ELSE "failClose")
    /\ UNCHANGED <<rows, world, states, sets, jobs>> /\ WorkElse

WorkPublish(w) ==
    LET g == WGid(w) IN
    /\ WAt(w, "publish") /\ WDone(w)
    /\ IF phase[g] = "none" \/ g \in cancel THEN EraseState(g)
       ELSE /\ phase' = [phase EXCEPT ![g] = "Ready"]
            /\ hpaused' = hpaused \ {g} /\ queued' = queued \ {g}
            /\ UNCHANGED cancel
    /\ UNCHANGED <<rows, world, sets, jobs>> /\ WorkElse

\* Mutant of WorkFailClose: the failed session is left running.
WorkFailForgets(w) ==
    /\ WAt(w, "failClose") /\ WGoto(w, "failFile")
    /\ UNCHANGED <<rows, world, states, sets, jobs>> /\ WorkElse

\* The fail lambda: close, remove the incomplete payload (40 attempts),
WorkFailClose(w) ==
    /\ WAt(w, "failClose") /\ CloseSession(WGid(w)) /\ WGoto(w, "failFile")
    /\ UNCHANGED <<rows, file, aria, ariaDone, states, sets, jobs>> /\ WorkElse

WorkFailFile(w) ==
    /\ WAt(w, "failFile")
    /\ \E ok \in BOOLEAN : /\ RemoveFile(WGid(w), ok)
                           /\ work' = [work EXCEPT ![w] =
                                 [pc |-> "failJudge", gid |-> WGid(w), ok |-> ok]]
    /\ UNCHANGED <<rows, aria, ariaDone, sess, states, sets, jobs>> /\ WorkElse

\* Mutant of WorkFailJudge: aria2 may resume though the cleanup failed.
WorkFailAnyway(w) ==
    LET g == WGid(w)
        present == phase[g] # "none" /\ g \notin cancel
        resume == present /\ g \notin hpaused \cup userPaused \cup suppressed
    IN /\ WAt(w, "failJudge")
       /\ probe' = probe \ {g}
       /\ IF present THEN /\ phase' = [phase EXCEPT ![g] = "Failed"]
                          /\ queued' = queued \ {g}
                          /\ UNCHANGED <<cancel, hpaused>>
          ELSE EraseState(g)
       /\ work' = [work EXCEPT ![w].pc = "handBack", ![w].ok = resume]
       /\ UNCHANGED <<rows, world, suppressed, userPaused, jobs>> /\ WorkElse

\* decide under the mutex whether aria2 may resume,
WorkFailJudge(w) ==
    LET g == WGid(w)
        present == phase[g] # "none" /\ g \notin cancel
        resume == /\ present /\ work[w].ok
                  /\ g \notin hpaused \cup userPaused \cup suppressed
    IN /\ WAt(w, "failJudge")
       /\ probe' = probe \ {g}
       /\ IF present THEN /\ phase' = [phase EXCEPT ![g] = "Failed"]
                          /\ queued' = queued \ {g}
                          /\ UNCHANGED <<cancel, hpaused>>
          ELSE EraseState(g)
       /\ work' = [work EXCEPT ![w] = IF ~@.ok THEN IdleWork
                        ELSE [@ EXCEPT !.pc = "handBack", !.ok = resume]]
       /\ UNCHANGED <<rows, world, suppressed, userPaused, jobs>> /\ WorkElse

\* and act on it without the mutex.
WorkHandBack(w) ==
    /\ WAt(w, "handBack") /\ SetEngine(WGid(w), "Aria2")
    /\ IF work[w].ok THEN WGoto(w, "resume") ELSE WDone(w)
    /\ UNCHANGED <<status, pausedRec, catalog, world, states, sets, jobs>> /\ WorkElse

WorkResume(w) ==
    /\ WAt(w, "resume") /\ RpcFree /\ Unpause(WGid(w)) /\ WDone(w)
    /\ UNCHANGED <<rows, file, ariaDone, sess, states, sets, jobs>> /\ WorkElse

TransferStep(w) ==
    \/ WorkRelease(w) \/ WorkClaim(w) \/ WorkOpen(w) \/ WorkConnect(w)
    \/ WorkPoll(w) \/ WorkStatus(w) \/ WorkDropClose(w) \/ WorkDropErase(w)
    \/ WorkClose(w) \/ WorkVerify(w) \/ WorkPublish(w)
FailStep(w) ==
    WorkFailClose(w) \/ WorkFailFile(w) \/ WorkFailJudge(w) \/ WorkHandBack(w) \/ WorkResume(w)
WorkStep(w) == TransferStep(w) \/ FailStep(w)
Worker(w) == WorkStep(w) \/ WorkTimeout(w) \/ \E g \in Gids : WorkPop(w, g)

-----------------------------------------------------------------------------
(* ProcessAria2Tasks, one download at a time, under InstanceLock. *)

RefrElse == UNCHANGED <<disc, work, call, rcv, control>>
RAt(pc) == refr.pc = pc
RGoto(pc) == refr' = [refr EXCEPT !.pc = pc]
RDone == refr' = IdleRefr
\* What follows a promotion that did not happen.
RFallThrough == IF refr.seen = "paused" THEN RGoto("snapshot") ELSE RDone

\* A task no row knows (a crash in AddHttpDownload) is given one first.
RefrBegin(g) ==
    /\ run = "up" /\ RpcFree
    /\ aria[g] # "gone"
    /\ status' = IF status[g] = "new" THEN [status EXCEPT ![g] = "active"] ELSE status
    /\ refr' = [IdleRefr EXCEPT !.pc = "check", !.gid = g, !.seen = aria[g]]
    /\ UNCHANGED <<engine, pausedRec, catalog, world, states, sets, jobs, last>> /\ RefrElse

Promotable(g) == phase[g] = "Ready" /\ g \notin cancel

\* Mutant of RefrCheck: a paused shell is skipped as an idle task.
RefrSkipsPaused ==
    /\ RAt("check") /\ RGoto("snapshot")
    /\ UNCHANGED <<rows, world, states, sets, jobs, last>> /\ RefrElse

RefrCheck ==
    /\ RAt("check")
    /\ RGoto(IF refr.seen = "paused" /\ Promotable(refr.gid) THEN "promote" ELSE "snapshot")
    /\ UNCHANGED <<rows, world, states, sets, jobs, last>> /\ RefrElse

\* TryFinalizeCanonicalHybrid: the payload must still be there,
RefrPromote ==
    LET g == refr.gid IN
    /\ RAt("promote")
    /\ IF file[g] # "absent" THEN RGoto("shell") /\ UNCHANGED phase
       ELSE /\ RFallThrough
            /\ phase' = IF phase[g] = "none" THEN phase ELSE [phase EXCEPT ![g] = "Failed"]
    /\ UNCHANGED <<rows, world, cancel, hpaused, queued, sets, jobs, last>> /\ RefrElse

\* Mutant of RefrShell: the row is completed though the shell is still there.
RefrShellAnyway ==
    LET g == refr.gid IN
    /\ RAt("shell") /\ RGoto("rowStatus")
    /\ aria' \in {[aria EXCEPT ![g] = "gone"]} \cup (IF RpcFails THEN {aria} ELSE {})
    /\ UNCHANGED <<rows, file, ariaDone, sess, states, sets, jobs, last>> /\ RefrElse

\* the aria2 shell must be gone before the row may say complete,
RefrShell ==
    LET g == refr.gid IN
    /\ RAt("shell")
    /\ \/ aria' = [aria EXCEPT ![g] = "gone"] /\ RGoto("rowStatus")
       \/ RpcFails /\ UNCHANGED aria /\ RFallThrough
    /\ UNCHANGED <<rows, file, ariaDone, sess, states, sets, jobs, last>> /\ RefrElse

RefrRowStatus ==
    /\ RAt("rowStatus") /\ SetStatus(refr.gid, "complete") /\ RGoto("rowEngine")
    /\ UNCHANGED <<engine, pausedRec, catalog, world, states, sets, jobs, last>> /\ RefrElse

RefrRowEngine ==
    /\ RAt("rowEngine") /\ SetEngine(refr.gid, "Hybrid") /\ RGoto("erase")
    /\ last' = [last EXCEPT ![refr.gid] = "complete"]
    /\ UNCHANGED <<status, pausedRec, catalog, world, states, sets, jobs>> /\ RefrElse

RefrErase ==
    LET g == refr.gid IN
    /\ RAt("erase") /\ RGoto("enqueue")
    /\ EraseState(g) /\ probe' = probe \ {g} /\ userPaused' = userPaused \ {g}
    /\ UNCHANGED <<rows, world, suppressed, jobs, last>> /\ RefrElse

RefrEnqueue ==
    /\ RAt("enqueue") /\ RDone
    /\ catalog' = catalog \cup {refr.gid}
    /\ UNCHANGED <<status, engine, pausedRec, world, states, sets, jobs, last>> /\ RefrElse

\* Not promoted.  An error may be held back: this is read first,
RefrPending ==
    /\ RAt("snapshot") /\ refr.seen = "error"
    /\ refr' = [refr EXCEPT !.pc = "live", !.held = HybridLive(refr.gid)]
    /\ UNCHANGED <<rows, world, states, sets, jobs, last>> /\ RefrElse

\* then the hybrid; the row takes its status from it, or from aria2.
RefrSnapshot ==
    /\ RAt("live") \/ (RAt("snapshot") /\ refr.seen # "error")
    /\ refr' = [refr EXCEPT !.pc = "write", !.live = HybridLive(refr.gid)]
    /\ UNCHANGED <<rows, world, states, sets, jobs, last>> /\ RefrElse

Holding == refr.seen = "error" /\ refr.held
RowOf(seen) == CASE seen = "complete" -> "complete" [] seen = "error" -> "failed"
                 [] OTHER -> "active"

RefrWrite ==
    /\ RAt("write") /\ RGoto("react")
    /\ \/ refr.live /\ SetStatus(refr.gid, "active")
       \/ ~refr.live /\ ~Holding /\ SetStatus(refr.gid, RowOf(refr.seen))
       \/ ~refr.live /\ Holding /\ UNCHANGED status
    /\ UNCHANGED <<engine, pausedRec, catalog, world, states, sets, jobs, last>> /\ RefrElse

\* The transitions aria2 reports: completion cancels the hybrid; an error under
\* a live hybrid is held back; another error forgets a failed hybrid.
Changed(g) == last[g] \notin {"unknown", refr.seen}

RefrReact ==
    LET g == refr.gid IN
    /\ RAt("react")
    /\ last' = IF Holding THEN last ELSE [last EXCEPT ![g] = refr.seen]
    /\ IF refr.seen = "complete" /\ Changed(g)
       THEN /\ CancelSection(g)
            /\ RGoto(IF CancelErases(g) THEN "reactClose" ELSE "reactDone")
            /\ UNCHANGED status
       ELSE /\ UNCHANGED <<sets, jobs>>
            /\ IF Holding /\ Promotable(g)
               THEN RGoto("promote") /\ UNCHANGED <<status, states>>
               ELSE /\ RDone
                    /\ IF refr.seen = "error" /\ ~Holding /\ Changed(g)
                       THEN /\ SetStatus(g, "failed")
                            /\ IF phase[g] = "Failed" THEN EraseState(g)
                               ELSE UNCHANGED states
                       ELSE UNCHANGED <<status, states>>
    /\ UNCHANGED <<engine, pausedRec, catalog, world>> /\ RefrElse

RefrReactClose ==
    /\ RAt("reactClose") /\ CloseSession(refr.gid) /\ RGoto("reactDone")
    /\ UNCHANGED <<rows, file, aria, ariaDone, states, sets, jobs, last>> /\ RefrElse

RefrReactDone ==
    /\ RAt("reactDone") /\ RDone
    /\ SetStatus(refr.gid, "complete") /\ catalog' = catalog \cup {refr.gid}
    /\ UNCHANGED <<engine, pausedRec, world, states, sets, jobs, last>> /\ RefrElse

RefrStep == \/ RefrCheck \/ RefrPromote \/ RefrShell \/ RefrRowStatus \/ RefrRowEngine
            \/ RefrErase \/ RefrEnqueue \/ RefrPending \/ RefrSnapshot \/ RefrWrite
            \/ RefrReact \/ RefrReactClose \/ RefrReactDone
Refresh == RefrStep \/ \E g \in Gids : RefrBegin(g)

-----------------------------------------------------------------------------
(* InitializeAsync: ownership recovery, before any thread is started. *)

RcvElse == UNCHANGED <<disc, work, call, refr, control, last, states, sets, jobs>>
RcvAt(pc) == run = "recover" /\ rcv.pc = pc
RcvGoto(pc) == rcv' = [rcv EXCEPT !.pc = pc]
RcvNext == rcv' = [rcv EXCEPT !.pc = "idle"]

\* Mutant of RcvPlan: a completed record needs nothing.
RcvPlanActive(g) ==
    CASE status[g] = "active" /\ engine[g] = "Probe" -> "engine"
      [] status[g] = "active" /\ engine[g] = "Hybrid" -> "hash"
      [] OTHER -> "idle"

\* What the snapshot of the records calls for; most need nothing.
RcvPlan(g) ==
    CASE status[g] = "active" /\ engine[g] = "Probe" -> "engine"
      [] status[g] = "active" /\ engine[g] = "Hybrid" -> "hash"
      [] status[g] = "complete" /\ engine[g] = "Hybrid" -> "replay"
      [] OTHER -> "idle"

RcvPick(g) ==
    /\ RcvAt("idle") /\ rcv.plan[g] # "idle"
    /\ rcv' = [rcv EXCEPT !.pc = rcv.plan[g], !.gid = g, !.plan[g] = "idle"]
    /\ UNCHANGED <<rows, world>> /\ RcvElse

\* A completed canonical record is catalogued again if its payload verifies.
RcvReplay ==
    /\ RcvAt("replay") /\ RcvNext
    /\ catalog' = IF file[rcv.gid] = "good" THEN catalog \cup {rcv.gid} ELSE catalog
    /\ UNCHANGED <<status, engine, pausedRec, world>> /\ RcvElse

RcvHash ==
    /\ RcvAt("hash") /\ RcvGoto(IF file[rcv.gid] = "good" THEN "shell" ELSE "clean")
    /\ UNCHANGED <<rows, world>> /\ RcvElse

RcvShell ==
    /\ RcvAt("shell")
    /\ \/ aria' = [aria EXCEPT ![rcv.gid] = "gone"] /\ RcvGoto("rowStatus")
       \/ RpcFails /\ UNCHANGED aria /\ RcvNext
    /\ UNCHANGED <<rows, file, ariaDone, sess>> /\ RcvElse

RcvRowStatus ==
    /\ RcvAt("rowStatus") /\ SetStatus(rcv.gid, "complete") /\ RcvGoto("replay")
    /\ UNCHANGED <<engine, pausedRec, catalog, world>> /\ RcvElse

\* An incomplete payload is removed, or the record is left as it is.
RcvClean ==
    /\ RcvAt("clean")
    /\ \E ok \in BOOLEAN : RemoveFile(rcv.gid, ok) /\ IF ok THEN RcvGoto("engine") ELSE RcvNext
    /\ UNCHANGED <<rows, aria, ariaDone, sess>> /\ RcvElse

RcvEngine ==
    /\ RcvAt("engine") /\ SetEngine(rcv.gid, "Aria2")
    /\ RcvGoto(IF rcv.gid \in rcv.paused THEN "rowActive" ELSE "resume")
    /\ UNCHANGED <<status, pausedRec, catalog, world>> /\ RcvElse

RcvResume ==
    /\ RcvAt("resume") /\ RpcFree /\ Unpause(rcv.gid) /\ RcvGoto("rowActive")
    /\ UNCHANGED <<rows, file, ariaDone, sess>> /\ RcvElse

RcvRowActive ==
    /\ RcvAt("rowActive") /\ SetStatus(rcv.gid, "active") /\ RcvNext
    /\ UNCHANGED <<engine, pausedRec, catalog, world>> /\ RcvElse

RcvStart ==
    /\ RcvAt("idle") /\ (\A g \in Gids : rcv.plan[g] = "idle") /\ run' = "up"
    /\ UNCHANGED <<rows, world, ops, restarts, rcv>>
    /\ UNCHANGED <<disc, work, call, refr, last, states, sets, jobs>>

RcvStep == RcvReplay \/ RcvHash \/ RcvShell \/ RcvRowStatus \/ RcvClean \/ RcvEngine
           \/ RcvResume \/ RcvRowActive \/ RcvStart
Recovery == RcvStep \/ \E g \in Gids : RcvPick(g)

-----------------------------------------------------------------------------
(* Shutdown joins refresh, discovery and workers in this order; a crash ends *)
(* everything at once.  Either way the process and its aria2 child are gone  *)
(* and only SQLite, the files and aria2's session file remain.               *)

ShutElse == UNCHANGED <<rows, world, sets, last, work, call, refr, rcv, ops, restarts>>

ShutBegin ==
    /\ run = "up" /\ restarts < MaxRestarts /\ run' = "stopRefresh"
    /\ UNCHANGED <<states, jobs, disc>> /\ ShutElse

ShutDiscovery ==
    /\ run = "stopRefresh" /\ Idle(refr) /\ run' = "stopDiscovery"
    /\ djobs' = [g \in Gids |-> 0]
    /\ UNCHANGED <<states, hjobs, disc>> /\ ShutElse

ShutWorkers ==
    /\ run = "stopDiscovery" /\ Idle(disc) /\ run' = "stopWorkers"
    /\ hjobs' = [g \in Gids |-> 0]
    /\ cancel' = {g \in Gids : phase[g] # "none"}
    /\ UNCHANGED <<phase, hpaused, queued, djobs, disc>> /\ ShutElse

ProcessEnds ==
    /\ run' = "down" /\ restarts' = restarts + 1
    /\ phase' = [g \in Gids |-> "none"]
    /\ cancel' = {} /\ hpaused' = {} /\ queued' = {}
    /\ probe' = {} /\ suppressed' = {} /\ userPaused' = {}
    /\ djobs' = [g \in Gids |-> 0] /\ hjobs' = [g \in Gids |-> 0]
    /\ last' = [g \in Gids |-> "unknown"]
    /\ disc' = IdleDisc /\ work' = [w \in Workers |-> IdleWork]
    /\ call' = [c \in Callers |-> IdleCall]
    /\ refr' = IdleRefr /\ rcv' = IdleRcv
    /\ sess' = [g \in Gids |-> "none"]
    /\ UNCHANGED <<rows, file, aria, ariaDone, ops>>

ShutDown == /\ run = "stopWorkers" /\ \A w \in Workers : Idle(work[w])
            /\ ProcessEnds
Crash == run # "down" /\ restarts < MaxRestarts /\ ProcessEnds

\* aria2 restores unfinished tasks from its session file: paused ones paused,
\* failed ones started again, completed ones not at all.
Restart ==
    /\ run = "down" /\ run' = "recover"
    /\ aria' = [g \in Gids |-> CASE aria[g] = "complete" -> "gone"
                                 [] aria[g] = "error" -> "active"
                                 [] OTHER -> aria[g]]
    /\ rcv' = [IdleRcv EXCEPT !.paused = pausedRec,
                              !.plan = [g \in Gids |-> RcvPlan(g)]]
    /\ UNCHANGED <<rows, file, ariaDone, sess, states, sets, jobs, last, disc, work,
                   call, refr, ops, restarts>>

Lifecycle == ShutBegin \/ ShutDiscovery \/ ShutWorkers \/ ShutDown \/ Crash \/ Restart

Next ==
    \/ Engines
    \/ \E c \in Callers : CallBegin(c) \/ CallStep(c)
    \/ Discovery
    \/ \E w \in Workers : Worker(w)
    \/ Refresh
    \/ Recovery
    \/ Lifecycle

Spec == Init /\ [][Next]_vars

-----------------------------------------------------------------------------
(* Fairness.  Every thread keeps running, and a mutex is released between two *)
(* of its holders' passes (the refresh thread sleeps up to a second without   *)
(* InstanceLock), so no waiter is passed over for ever: strong fairness for   *)
(* the threads that compete for a mutex.  The refresh thread visits every     *)
(* task of each snapshot, whatever its status was in between.  A download     *)
(* that makes no progress reaches its deadline.  Nothing is assumed of the    *)
(* engines or of the user, except that a stopped program is started again.    *)

Fairness ==
    /\ SF_vars(DiscStep) /\ \A g \in Gids : WF_vars(DiscPop(g))
    /\ \A w \in Workers : /\ SF_vars(WorkStep(w)) /\ SF_vars(WorkTimeout(w))
    /\ \A w \in Workers, g \in Gids : WF_vars(WorkPop(w, g))
    /\ \A c \in Callers : SF_vars(CallStep(c))
    /\ WF_vars(RefrStep) /\ \A g \in Gids : SF_vars(RefrBegin(g))
    /\ WF_vars(RcvStep) /\ \A g \in Gids : WF_vars(RcvPick(g))
    /\ WF_vars(Restart) /\ WF_vars(ShutDiscovery) /\ WF_vars(ShutWorkers)
    /\ WF_vars(ShutDown)

FairSpec == Spec /\ Fairness

-----------------------------------------------------------------------------
(* Properties. *)

\* Every variable keeps to the values its C++ counterpart can hold, and a
\* thread that is not idle works on a download.
RowsOK ==
    /\ status \in [Gids -> {"new", "active", "complete", "failed", "deleted"}]
    /\ engine \in [Gids -> {"Aria2", "Probe", "Hybrid"}]
    /\ pausedRec \subseteq Gids /\ catalog \subseteq Gids
WorldOK ==
    /\ file \in [Gids -> {"absent", "aria", "lt", "good", "mixed"}]
    /\ aria \in [Gids -> {"gone", "paused", "active", "complete", "error"}]
    /\ ariaDone \subseteq Gids
    /\ sess \in [Gids -> {"none", "open", "paused", "finished", "error"}]
StatesOK ==
    /\ phase \in [Gids -> {"none", "Pending", "Downloading", "Ready", "Failed"}]
    /\ cancel \subseteq Gids /\ hpaused \subseteq Gids /\ queued \subseteq Gids
    /\ probe \subseteq Gids /\ suppressed \subseteq Gids /\ userPaused \subseteq Gids
    /\ djobs \in [Gids -> Nat] /\ hjobs \in [Gids -> Nat]
    /\ last \in [Gids -> {"unknown", "gone", "paused", "active", "complete", "error"}]
GidOrNone == Gids \cup {NoGid}
DiscOK ==
    /\ disc \in [pc : DiscPcs, gid : GidOrNone, resume : BOOLEAN]
    /\ disc.pc # "idle" => disc.gid \in Gids
WorkOK ==
    /\ work \in [Workers -> [pc : WorkPcs, gid : GidOrNone, ok : BOOLEAN]]
    /\ \A w \in Workers : work[w].pc # "idle" => work[w].gid \in Gids
CallOK ==
    /\ call \in [Callers -> [pc : CallPcs, gid : GidOrNone, owned : BOOLEAN]]
    /\ \A c \in Callers : call[c].pc # "idle" => call[c].gid \in Gids
RefrOK ==
    /\ refr \in [pc : RefrPcs, gid : GidOrNone, held : BOOLEAN, live : BOOLEAN,
                 seen : {"gone", "paused", "active", "complete", "error"}]
    /\ refr.pc # "idle" => refr.gid \in Gids
RcvOK ==
    /\ rcv \in [pc : RcvPcs, gid : GidOrNone, paused : SUBSET Gids,
                plan : [Gids -> {"idle", "engine", "hash", "replay"}]]
    /\ rcv.pc # "idle" => rcv.gid \in Gids
ControlOK ==
    /\ run \in {"up", "recover", "stopRefresh", "stopDiscovery", "stopWorkers", "down"}
    /\ ops \in Nat /\ restarts \in Nat
TypeOK == /\ RowsOK /\ WorldOK /\ StatesOK /\ DiscOK /\ WorkOK /\ CallOK /\ RefrOK
          /\ RcvOK /\ ControlOK

\* One physical output, one active data writer: aria2 and the hidden session of
\* the same download never both download into its path.  (The discovery thread
\* acts on a decision it took under a mutex it has since released.)
SingleWriter == \A g \in Gids : ~(aria[g] = "active" /\ sess[g] = "open")

\* aria2 runs only on a path that is free or holds its own bytes, never on what
\* a cancelled, failed or crashed libtorrent download left there.
AriaOwnsPath == \A g \in Gids : aria[g] = "active" => file[g] \in {"absent", "aria"}

\* A session writes only while the row says Hybrid: a crash at this moment makes
\* recovery remove the partial payload before it starts aria2.
DurableOwner ==
    \A g \in Gids : sess[g] = "open" => engine[g] = "Hybrid" \/ status[g] = "deleted"

\* A completed row has no aria2 task left that aria2's session file would bring
\* back: the shell goes first, then the row is written.
CompleteShellGone ==
    \A g \in Gids : status[g] = "complete" => aria[g] \notin {"paused", "active"}

\* Only a payload that matches the caller's SHA-256 completes a canonical row
\* (unless a Delete has removed it and is about to drop the row): between the
\* worker's hash and the refresh thread's write nobody touches the file.
VerifiedCompletion ==
    [][\A g \in Gids :
          /\ status[g] # "complete" /\ status'[g] = "complete" /\ engine[g] = "Hybrid"
          => file[g] = "good" \/ \E c \in Callers : Gid(c) = g /\ At(c, "delRow")]_vars

\* No thread of the manager has work under way.
Quiet == /\ run = "up" /\ Idle(disc) /\ Idle(refr)
         /\ \A w \in Workers : Idle(work[w])
         /\ \A c \in Callers : Idle(call[c])
         /\ \A g \in Gids : djobs[g] = 0 /\ hjobs[g] = 0

\* When everything has settled, a download the user has not paused is not left
\* with a paused shell and no thread to advance it: its hybrid is Ready, for the
\* refresh thread, or Failed, for the user's Resume.
NotStranded ==
    Quiet => \A g \in Gids :
        status[g] = "active" /\ g \notin pausedRec /\ aria[g] = "paused"
          => phase[g] \in {"Ready", "Failed"} /\ g \notin cancel

\* A probe is always resolved: its job reaches the discovery thread, which hands
\* the download to a worker or back to aria2, whatever the user does meanwhile.
ProbeResolved == \A g \in Gids : g \in probe ~> g \notin probe

\* A deleted download eventually stops for good, on both engines.
DeletedStops ==
    \A g \in Gids : status[g] = "deleted" ~> [](sess[g] = "none" /\ aria[g] # "active")

\* A verified payload does not wait for ever: it is promoted, fails or is dropped.
Promoted == \A g \in Gids : Promotable(g) ~> ~Promotable(g)

\* A completed canonical download reaches the content catalog, unless a Delete
\* takes its row or its file away, even if the process dies between the row's
\* write and the catalog's.
Catalogued ==
    \A g \in Gids :
        status[g] = "complete" /\ engine[g] = "Hybrid"
          ~> g \in catalog \/ status[g] = "deleted" \/ file[g] = "absent"
=============================================================================
