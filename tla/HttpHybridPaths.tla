---------------------------- MODULE HttpHybridPaths ----------------------------
(* AriaOwnsPath and VerifiedCompletion for every value of the constants, as long *)
(* as no Resume is issued.  Both say who may have written the file at a path, and*)
(* both rest on the token of HttpHybridOwners: a path is dirty only while a      *)
(* worker has it, or after that under a row that recovery or the refresh thread  *)
(* will judge by the hash.  PathInv says so at each place a thread can stand.    *)
(* Its proof goes in two steps: the flow lemmas say once, for all threads, what  *)
(* a step may do to the rows, the files, the tasks and the phases; the rest      *)
(* argues from the flows alone, one part of the invariant at a time.             *)
EXTENDS HttpHybridOwners

(* The invariant behind AriaOwnsPath and VerifiedCompletion. *)

\* The bytes at the path are ones aria2 may continue; the row leaves the path to
\* aria2; the aria2 task does not run and has not run to an end.
Clean(g)  == file[g] \in {"absent", "aria"}
AsAria(g) == engine[g] = "Aria2" \/ status[g] = "deleted"
Parked(g) == aria[g] \in {"gone", "paused"}

\* The token before a worker has it.
Early(g) == djobs[g] # 0 \/ OnDisc(g) \/ hjobs[g] # 0 \/ \E c \in Callers : Adder(c, g)

\* aria2 keeps still under a token, and has run only on a path left to it.
AriaPath ==
    \A g \in Gids :
        /\ Owned(g) => Parked(g)
        /\ aria[g] \in {"active", "error"} => Clean(g)
        /\ ~Parked(g) => AsAria(g)
        /\ status[g] = "new" => file[g] = "absent" /\ Parked(g)

\* Before a worker has the token, or while the row says so, the path is clean.
EarlyPath ==
    /\ \A g \in Gids : Early(g) => Clean(g)
    /\ \A g \in Gids : engine[g] = "Probe" /\ status[g] # "deleted" /\ aria[g] = "paused" => Clean(g)
    /\ disc.pc = "resume" => AsAria(disc.gid)

\* A worker hands a path back only when it has removed what was there, and
\* publishes only what it has hashed, unless it has been cancelled since.
LatePcs == {"failJudge", "handBack", "resume"}
WorkerPath(w) ==
    /\ work[w].pc = "resume" => work[w].ok /\ AsAria(work[w].gid)
    /\ work[w].pc \in LatePcs /\ work[w].ok => Clean(work[w].gid)
    /\ work[w].pc \notin {"idle", "handBack", "resume"} => phase[work[w].gid] = "Downloading"
    /\ work[w].pc = "publish" => file[work[w].gid] = "good" \/ work[w].gid \in cancel
WorkPath == \A w \in Workers : WorkerPath(w)

\* A Ready state holds a verified payload nobody works on.
ReadyGood ==
    \A g \in Gids : phase[g] = "Ready" => file[g] = "good" /\ ~Owned(g) /\ status[g] # "new"

\* A Delete has cancelled the download before it touches anything.
DelPcs == {"delClose", "delLock", "delShell", "delFile", "delRow"}
Deleting ==
    \A c \in Callers :
        call[c].pc \in DelPcs =>
            /\ call[c].gid \in suppressed
            /\ phase[call[c].gid] = "none" \/ (phase[call[c].gid] # "Ready" /\ call[c].gid \in cancel)

\* The refresh thread has InstanceLock; what it promotes is verified, and what
\* aria2 has completed is aria2's.
PromotePcs == {"promote", "shell", "rowStatus", "rowEngine", "erase"}
RefrPath ==
    /\ refr.pc # "idle" => /\ run \notin {"recover", "down"}
                           /\ status[refr.gid] # "new"
                           /\ \A c \in Callers : call[c].pc \notin LockedCallPcs
    /\ refr.pc \in PromotePcs => refr.seen # "complete" /\ ~Owned(refr.gid)
    /\ refr.pc \in {"promote", "shell", "rowStatus"} => file[refr.gid] = "good"
    /\ refr.pc \in {"rowStatus", "rowEngine"} => aria[refr.gid] = "gone"
    /\ refr.pc \in {"reactClose", "reactDone"} => refr.seen = "complete"
    /\ refr.pc # "idle" /\ refr.seen = "complete" => ~Owned(refr.gid) /\ AsAria(refr.gid)

\* Recovery starts aria2 on a path it found clean or has cleaned, and completes
\* what it has hashed, unless a Delete takes it away.
DelRow(g) == \E c \in Callers : call[c].pc = "delRow" /\ call[c].gid = g
RcvPath ==
    /\ run \in {"recover", "down"} => \A g \in Gids : phase[g] = "none"
    /\ \A g \in Gids : rcv.plan[g] = "engine" /\ aria[g] = "paused" => Clean(g)
    /\ rcv.pc \in {"engine", "resume"} /\ aria[rcv.gid] = "paused" => Clean(rcv.gid)
    /\ rcv.pc = "resume" => AsAria(rcv.gid)
    /\ rcv.pc \in {"shell", "rowStatus"} =>
           file[rcv.gid] = "good" \/ status[rcv.gid] = "deleted" \/ DelRow(rcv.gid)

PathInv == /\ OwnerInv /\ AriaPath /\ EarlyPath /\ WorkPath /\ ReadyGood /\ Deleting
           /\ RefrPath /\ RcvPath

-----------------------------------------------------------------------------
(* What a step of the running program does to the variables the invariant      *)
(* speaks of, whoever takes it.                                                 *)

Shutting == ShutBegin \/ ShutDiscovery \/ ShutWorkers
Alive == \/ Engines
         \/ \E c \in Callers : CallBegin(c) \/ CallStep(c)
         \/ Discovery
         \/ \E w \in Workers : Worker(w)
         \/ Refresh \/ Recovery \/ Shutting

\* A row is never unmade, and a deleted one stays so.
RowFlow == \A g \in Gids : /\ status'[g] = "new" => status[g] = "new"
                           /\ status[g] = "deleted" => status'[g] = "deleted"

\* A file is removed by a Delete about to drop the row, by the worker that has
\* the token, or by recovery; aria2 writes as it runs, and a session as it is open.
Remover(g) ==
    \/ \E c \in Callers : /\ call[c].pc = "delFile" /\ call[c].gid = g
                          /\ call'[c].pc = "delRow" /\ call'[c].gid = g
    \/ \E w \in Workers : work[w].pc \in {"release", "failFile"} /\ work[w].gid = g
    \/ rcv.pc = "clean" /\ rcv.gid = g
FileFlow ==
    \A g \in Gids :
        \/ file'[g] = file[g]
        \/ file'[g] = "absent" /\ Remover(g)
        \/ /\ aria[g] = "active"
           /\ \/ file[g] # "aria" /\ file'[g] = IF file[g] = "absent" THEN "aria" ELSE "mixed"
              \/ aria'[g] = "complete"
        \/ sess[g] = "open"

\* Three places start aria2; only AddHttpDownload brings a task up, paused.
Starter(g) ==
    \/ disc.pc = "resume" /\ disc.gid = g
    \/ \E w \in Workers : work[w].pc = "resume" /\ work[w].gid = g
    \/ rcv.pc = "resume" /\ rcv.gid = g
AriaFlow ==
    \A g \in Gids :
        \/ aria'[g] \in {aria[g], "gone"}
        \/ aria'[g] = "paused" /\ (aria[g] = "active" \/ status[g] = "new")
        \/ aria[g] = "active" /\ aria'[g] \in {"complete", "error"}
        \/ aria[g] = "paused" /\ aria'[g] = "active" /\ Starter(g)

\* The row names another engine than aria2 only through whoever has the download.
EngineFlow ==
    \A g \in Gids :
        \/ engine'[g] \in {engine[g], "Aria2"}
        \/ engine'[g] = "Probe" /\ \E c \in Callers : Adder(c, g)
        \/ engine'[g] = "Hybrid" /\ \E w \in Workers : OnWork(w, g) /\ work[w].pc \in {"claim", "connect"}
        \/ engine'[g] = "Hybrid" /\ refr.pc = "rowEngine" /\ refr.gid = g

\* The token passes from one to the next, and only AddHttpDownload makes one.
TokenFlow ==
    \A g \in Gids :
        /\ Early(g)' => Early(g) \/ status[g] = "new"
        /\ \A w \in Workers : OnWork(w, g)' => OnWork(w, g) \/ hjobs[g] # 0

\* How a state of m_canonicalHybrids comes to its phase, and keeps its cancellation.
Queuing(g) == disc.pc = "queue" /\ disc.gid = g /\ g \notin suppressed
PhaseFlow ==
    \A g \in Gids :
        /\ phase'[g] = "Pending" => phase[g] = "Pending" \/ Queuing(g)
        /\ phase'[g] = "Downloading" =>
              phase[g] = "Downloading" \/ (hjobs[g] # 0 /\ phase[g] # "none" /\ g \notin cancel)
        /\ phase'[g] = "Ready" =>
              \/ phase[g] = "Ready"
              \/ /\ phase[g] # "none" /\ g \notin cancel
                 /\ \E w \in Workers : OnWork(w, g) /\ work[w].pc = "publish" /\ work'[w].pc = "idle"
        /\ phase'[g] = "Failed" =>
              \/ phase[g] = "Failed"
              \/ phase[g] # "none" /\ g \notin cancel /\ \E w \in Workers : OnWork(w, g)
              \/ phase[g] # "none" /\ refr.pc = "promote" /\ refr.gid = g
        /\ phase[g] = "Downloading" =>
              \/ phase'[g] = "Downloading"
              \/ \E w \in Workers : OnWork(w, g) /\ work'[w].pc \in {"idle", "handBack"}
              \/ refr.pc \in PromotePcs /\ refr.gid = g
              \/ Queuing(g)
        /\ g \in cancel => g \in cancel' \/ phase'[g] = "none" \/ Queuing(g)
        /\ g \in suppressed => g \in suppressed'

\* The callers: a Delete begins with its cancellation, and InstanceLock is taken
\* only when the refresh thread has let it go.
CallFlow ==
    \A c \in Callers :
        /\ call'[c].pc \in DelPcs =>
              \/ call[c].pc \in DelPcs /\ call'[c].gid = call[c].gid
              \/ /\ call'[c].gid \in Gids /\ call'[c].gid \in suppressed'
                 /\ \/ phase'[call'[c].gid] = "none"
                    \/ phase'[call'[c].gid] # "Ready" /\ call'[c].gid \in cancel'
        /\ call'[c].pc \in LockedCallPcs => call[c].pc \in LockedCallPcs \/ refr.pc = "idle"
        /\ call[c].pc = "delRow" =>
              call'[c] = call[c] \/ status'[call[c].gid] = "deleted"

Flow == /\ RowFlow /\ FileFlow /\ AriaFlow /\ EngineFlow /\ TokenFlow /\ PhaseFlow /\ CallFlow

-----------------------------------------------------------------------------
(* Every step of the running program is of that form.  First, what each group   *)
(* of actions leaves alone.                                                     *)

\* The engines touch only the world.
LEMMA EngineFrame ==
  ASSUME Engines
  PROVE  UNCHANGED <<rows, states, sets, jobs, disc, work, call, refr, rcv, run>>
BY DEF Engines, AriaOpen, AriaReceive, AriaFinish, LtWrite, LtFinish, OnlyWorld, control

Commanding(c) ==
    \/ \E g \in Gids : AddShell(c, g) \/ PauseRecord(c, g) \/ DeleteCancel(c, g)
    \/ AddPauseStep(c) \/ DeleteStep(c)

\* Nobody resumes.
LEMMA NoResume ==
  ASSUME OwnerInv, "Resume" \notin Ops, NEW c \in Callers, CallBegin(c) \/ CallStep(c)
  PROVE  Commanding(c)
<1>1. ~ResumeStep(c)
  BY DEF OwnerInv, AddersOK, ResumePcs, ResumeStep, ResumeFailed, ResumeMark, ResumeSession,
     TryCheck, TryFile, TryProbe, TryEngine, ResumeAria, At
<1>2. \A g \in Gids : ~ResumeRecord(c, g)
  BY DEF ResumeRecord, Begin
<1> QED BY <1>1, <1>2 DEF Commanding, CallBegin, CallStep

\* A command leaves the threads of the manager and the catalog alone.
LEMMA CallFrame ==
  ASSUME NEW c \in Callers, Commanding(c)
  PROVE  UNCHANGED <<catalog, disc, work, refr, rcv, run>>
<1>1. CASE \E g \in Gids : AddShell(c, g) \/ PauseRecord(c, g) \/ DeleteCancel(c, g)
  BY <1>1 DEF AddShell, PauseRecord, DeleteCancel, CallElse, rows
<1>2. CASE AddPauseStep(c)
  BY <1>2 DEF AddPauseStep, AddRow, AddPolicy, AddEngine, AddProbe, QueueDiscovery, PauseMark,
     PauseSession, PauseCancel, PauseClose, PauseAria, CallElse, rows
<1>3. CASE DeleteStep(c)
  BY <1>3 DEF DeleteStep, DeleteClose, DeleteLock, DeleteShell, DeleteFile, DeleteRow, CallElse,
     rows, control
<1> QED BY <1>1, <1>2, <1>3 DEF Commanding

\* A caller at work on a download has one.
LEMMA CallHas ==
  ASSUME TypeOK, NEW c \in Callers, AddPauseStep(c) \/ DeleteStep(c)
  PROVE  call[c].pc # "idle" /\ Gid(c) \in Gids /\ call[c].gid = Gid(c)
<1>1. call[c].pc # "idle"
  BY DEF AddPauseStep, AddRow, AddPolicy, AddEngine, AddProbe, QueueDiscovery, PauseMark,
     PauseSession, PauseCancel, PauseClose, PauseAria, DeleteStep, DeleteClose, DeleteLock,
     DeleteShell, DeleteFile, DeleteRow, At
<1> QED BY <1>1 DEF Gid, TypeOK, CallOK

\* The discovery thread touches neither files nor the refresh thread.
LEMMA DiscKeeps ==
  ASSUME Discovery
  PROVE  UNCHANGED <<file, suppressed, refr>>
BY DEF Discovery, DiscStep, DiscPop, DiscLookup, DiscQueue, DiscDecide, DiscHandBack,
   DiscResume, DiscElse, rows, world, sets

\* The workers neither suppress a download nor move the refresh thread.
LEMMA WorkKeeps ==
  ASSUME NEW w \in Workers, Worker(w)
  PROVE  UNCHANGED <<suppressed, refr>>
<1>1. CASE TransferStep(w)
  BY <1>1 DEF TransferStep, WorkRelease, WorkClaim, WorkOpen, WorkConnect, WorkPoll,
     WorkStatus, WorkDropClose, WorkDropErase, WorkClose, WorkVerify, WorkPublish,
     WorkElse, sets
<1>2. CASE FailStep(w)
  BY <1>2 DEF FailStep, WorkFailClose, WorkFailFile, WorkFailJudge, WorkHandBack,
     WorkResume, WorkElse, sets
<1>3. CASE WorkTimeout(w) \/ \E g \in Gids : WorkPop(w, g)
  BY <1>3 DEF WorkTimeout, WorkPop, WorkElse, sets
<1> QED BY <1>1, <1>2, <1>3 DEF Worker, WorkStep

\* The refresh thread moves nobody else and writes no file.
LEMMA RefrFrame ==
  ASSUME Refresh
  PROVE  UNCHANGED <<call, disc, work, rcv, run, djobs, file>>
BY DEF Refresh, RefrStep, RefrBegin, RefrCheck, RefrPromote, RefrShell, RefrRowStatus,
   RefrRowEngine, RefrErase, RefrEnqueue, RefrPending, RefrSnapshot, RefrWrite, RefrReact,
   RefrReactClose, RefrReactDone, RefrElse, CancelSection, jobs, control, world

\* The refresh thread at work has a download.
LEMMA RefrHas ==
  ASSUME TypeOK, RefrStep
  PROVE  refr.pc # "idle" /\ refr.gid \in Gids
<1>1. refr.pc # "idle"
  BY DEF RefrStep, RefrCheck, RefrPromote, RefrShell, RefrRowStatus, RefrRowEngine, RefrErase,
     RefrEnqueue, RefrPending, RefrSnapshot, RefrWrite, RefrReact, RefrReactClose, RefrReactDone, RAt
<1> QED BY <1>1 DEF TypeOK, RefrOK

\* Recovery runs before any thread, and moves none.
LEMMA RcvFrame ==
  ASSUME Recovery
  PROVE  UNCHANGED <<disc, work, call, refr, states, sets, jobs, sess>> /\ run = "recover"
BY DEF Recovery, RcvStep, RcvPick, RcvReplay, RcvHash, RcvShell, RcvRowStatus, RcvClean,
   RcvEngine, RcvResume, RcvRowActive, RcvStart, RcvAt, RcvElse, world

\* Recovery at work has a download.
LEMMA RcvHas ==
  ASSUME TypeOK, RcvStep, ~RcvStart
  PROVE  rcv.pc # "idle" /\ rcv.gid \in Gids
<1>1. rcv.pc # "idle"
  BY DEF RcvStep, RcvReplay, RcvHash, RcvShell, RcvRowStatus, RcvClean, RcvEngine, RcvResume,
     RcvRowActive, RcvAt
<1> QED BY <1>1 DEF TypeOK, RcvOK

\* The shutdown only empties queues and cancels.
LEMMA ShutFrame ==
  ASSUME Shutting
  PROVE  UNCHANGED <<rows, world, sets, phase, disc, work, call, refr, rcv>>
BY DEF Shutting, ShutBegin, ShutDiscovery, ShutWorkers, ShutElse, states

\* Rows: whoever writes a status writes one of a row that was made.
LEMMA RowFlowOK ==
  ASSUME OwnerInv, "Resume" \notin Ops, Alive
  PROVE  RowFlow
<1>0. status \in [Gids -> {"new", "active", "complete", "failed", "deleted"}]
  BY DEF OwnerInv, TypeOK, RowsOK
<1> DEFINE Written == \E g \in Gids, s \in {"active", "complete", "failed", "deleted"} :
                          SetStatus(g, s) \/ (status[g] = "new" /\ status' = [status EXCEPT ![g] = s])
<1>1. Written \/ UNCHANGED status => RowFlow
  BY <1>0 DEF SetStatus, RowFlow
<1>2. CASE Engines \/ Discovery \/ Shutting \/ \E w \in Workers : Worker(w)
  BY <1>1, <1>2, EngineFrame, DiscFrame, ShutFrame, WorkFrame DEF rows
<1>3. ASSUME NEW c \in Callers, CallBegin(c) \/ CallStep(c) PROVE RowFlow
  <2>1. Commanding(c)
    BY <1>3, NoResume
  <2>2. CASE \E g \in Gids : AddShell(c, g) \/ PauseRecord(c, g) \/ DeleteCancel(c, g)
    BY <1>1, <2>2 DEF AddShell, PauseRecord, DeleteCancel, rows
  <2>3. CASE AddPauseStep(c) \/ DeleteStep(c)
    <3>1. Gid(c) \in Gids
      BY <2>3, CallHas DEF OwnerInv
    <3>2. UNCHANGED status \/ SetStatus(Gid(c), "active") \/ SetStatus(Gid(c), "deleted")
      BY <2>3 DEF AddPauseStep, AddRow, AddPolicy, AddEngine, AddProbe, QueueDiscovery, PauseMark,
         PauseSession, PauseCancel, PauseClose, PauseAria, DeleteStep, DeleteClose, DeleteLock,
         DeleteShell, DeleteFile, DeleteRow, rows
    <3> QED BY <1>1, <3>1, <3>2
  <2> QED BY <2>1, <2>2, <2>3 DEF Commanding
<1>4. CASE Refresh
  <2>1. ASSUME NEW g \in Gids, RefrBegin(g) PROVE RowFlow
    BY <1>1, <2>1 DEF RefrBegin
  <2>2. CASE RefrStep
    <3>1. refr.gid \in Gids
      BY <2>2, RefrHas DEF OwnerInv
    <3>2. UNCHANGED status \/ \E s \in {"active", "complete", "failed"} : SetStatus(refr.gid, s)
      <4>1. CASE RefrWrite
        BY <4>1 DEF RefrWrite, RowOf
      <4>2. CASE RefrReact
        BY <4>2 DEF RefrReact
      <4>3. CASE RefrRowStatus \/ RefrReactDone
        BY <4>3 DEF RefrRowStatus, RefrReactDone
      <4>4. CASE ~RefrWrite /\ ~RefrReact /\ ~RefrRowStatus /\ ~RefrReactDone
        BY <2>2, <4>4 DEF RefrStep, RefrCheck, RefrPromote, RefrShell, RefrRowEngine, RefrErase,
           RefrEnqueue, RefrPending, RefrSnapshot, RefrReactClose, rows
      <4> QED BY <4>1, <4>2, <4>3, <4>4
    <3> QED BY <1>1, <3>1, <3>2
  <2> QED BY <1>4, <2>1, <2>2 DEF Refresh
<1>5. CASE Recovery
  <2>1. UNCHANGED status \/ \E s \in {"active", "complete"} : SetStatus(rcv.gid, s) /\ RcvStep /\ ~RcvStart
    BY <1>5 DEF Recovery, RcvStep, RcvPick, RcvReplay, RcvHash, RcvShell, RcvRowStatus,
       RcvClean, RcvEngine, RcvResume, RcvRowActive, RcvStart, RcvAt, rows
  <2> QED BY <1>1, <2>1, RcvHas DEF OwnerInv
<1> QED BY <1>2, <1>3, <1>4, <1>5 DEF Alive

\* Files: removed by whoever may, written by an engine at work.
LEMMA FileFlowOK ==
  ASSUME OwnerInv, "Resume" \notin Ops, Alive
  PROVE  FileFlow
<1>0. file \in [Gids -> {"absent", "aria", "lt", "good", "mixed"}]
  BY DEF OwnerInv, TypeOK, WorldOK
<1>1. UNCHANGED file => FileFlow
  BY DEF FileFlow
<1>2. ASSUME NEW g \in Gids, NEW ok \in BOOLEAN, RemoveFile(g, ok), ok => Remover(g) PROVE FileFlow
  BY <1>0, <1>2 DEF RemoveFile, FileFlow
<1>3. ASSUME NEW g \in Gids, AriaOpen(g) \/ AriaReceive(g) \/ AriaFinish(g) PROVE FileFlow
  <2>1. aria \in [Gids -> {"gone", "paused", "active", "complete", "error"}]
    BY DEF OwnerInv, TypeOK, WorldOK
  <2>2. CASE AriaOpen(g)
    BY <1>0, <2>2 DEF AriaOpen, FileFlow
  <2>3. CASE AriaReceive(g)
    BY <1>1, <2>3 DEF AriaReceive
  <2>4. CASE AriaFinish(g)
    BY <1>0, <2>1, <2>4 DEF AriaFinish, FileFlow
  <2> QED BY <1>3, <2>2, <2>3, <2>4
<1>4. ASSUME NEW g \in Gids, LtWrite(g) \/ LtFinish(g) PROVE FileFlow
  BY <1>0, <1>4 DEF LtWrite, LtFinish, FileFlow
<1>5. CASE Discovery \/ Refresh \/ Shutting
  BY <1>1, <1>5, DiscKeeps, RefrFrame, ShutFrame DEF world
<1>6. ASSUME NEW c \in Callers, CallBegin(c) \/ CallStep(c) PROVE FileFlow
  <2>1. Commanding(c)
    BY <1>6, NoResume
  <2>2. CASE \E g \in Gids : AddShell(c, g) \/ PauseRecord(c, g) \/ DeleteCancel(c, g)
    BY <1>1, <2>2 DEF AddShell, PauseRecord, DeleteCancel, world
  <2>3. CASE AddPauseStep(c)
    BY <1>1, <2>3 DEF AddPauseStep, AddRow, AddPolicy, AddEngine, AddProbe, QueueDiscovery,
       PauseMark, PauseSession, PauseCancel, PauseClose, PauseAria, world
  <2>4. CASE DeleteFile(c)
    <3>1. Gid(c) \in Gids /\ call[c].gid = Gid(c)
      BY <2>4, CallHas DEF OwnerInv, DeleteStep
    <3>2. \/ UNCHANGED file
          \/ \E ok \in BOOLEAN : RemoveFile(Gid(c), ok) /\ (ok => Goto(c, "delRow"))
      BY <2>4 DEF DeleteFile
    <3>3. Goto(c, "delRow") => Remover(Gid(c))
      BY <2>4, <3>1 DEF Remover, DeleteFile, At, Goto, OwnerInv, TypeOK, CallOK
    <3> QED BY <1>1, <1>2, <3>1, <3>2, <3>3
  <2>5. CASE DeleteClose(c) \/ DeleteLock(c) \/ DeleteShell(c) \/ DeleteRow(c)
    BY <1>1, <2>5 DEF DeleteClose, DeleteLock, DeleteShell, DeleteRow, world
  <2> QED BY <2>1, <2>2, <2>3, <2>4, <2>5 DEF Commanding, DeleteStep
<1>7. ASSUME NEW w \in Workers, Worker(w) PROVE FileFlow
  <2>1. CASE WorkRelease(w) \/ WorkFailFile(w)
    <3>1. work[w].pc \in {"release", "failFile"} /\ work[w].gid \in Gids
      BY <2>1 DEF WorkRelease, WorkFailFile, WAt, OwnerInv, TypeOK, WorkOK
    <3>2. \E ok \in BOOLEAN : RemoveFile(work[w].gid, ok)
      BY <2>1 DEF WorkRelease, WorkFailFile, WGid
    <3> QED BY <1>2, <3>1, <3>2 DEF Remover
  <2>2. CASE WorkTimeout(w) \/ \E g \in Gids : WorkPop(w, g)
    BY <1>1, <2>2 DEF WorkTimeout, WorkPop, world
  <2>3. CASE TransferStep(w) /\ ~WorkRelease(w)
    BY <1>1, <2>3 DEF TransferStep, WorkClaim, WorkOpen, WorkConnect, WorkPoll, WorkStatus,
       WorkDropClose, WorkDropErase, WorkClose, WorkVerify, WorkPublish, world
  <2>4. CASE WorkFailClose(w) \/ WorkFailJudge(w) \/ WorkHandBack(w) \/ WorkResume(w)
    BY <1>1, <2>4 DEF WorkFailClose, WorkFailJudge, WorkHandBack, WorkResume, world
  <2> QED BY <1>7, <2>1, <2>2, <2>3, <2>4 DEF Worker, WorkStep, FailStep
<1>8. CASE Recovery
  <2>1. UNCHANGED file \/ RcvClean
    BY <1>8 DEF Recovery, RcvStep, RcvPick, RcvReplay, RcvHash, RcvShell, RcvRowStatus,
       RcvEngine, RcvResume, RcvRowActive, RcvStart, world
  <2>2. CASE RcvClean
    <3>1. rcv.pc = "clean" /\ rcv.gid \in Gids
      BY <2>2 DEF RcvClean, RcvAt, OwnerInv, TypeOK, RcvOK
    <3>2. \E ok \in BOOLEAN : RemoveFile(rcv.gid, ok)
      BY <2>2 DEF RcvClean
    <3> QED BY <1>2, <3>1, <3>2 DEF Remover
  <2> QED BY <1>1, <2>1, <2>2
<1> QED BY <1>3, <1>4, <1>5, <1>6, <1>7, <1>8 DEF Alive, Engines

\* aria2: started by whoever has the download, brought up by AddHttpDownload.
LEMMA AriaFlowOK ==
  ASSUME OwnerInv, "Resume" \notin Ops, Alive
  PROVE  AriaFlow
<1>0. aria \in [Gids -> {"gone", "paused", "active", "complete", "error"}]
  BY DEF OwnerInv, TypeOK, WorldOK
<1>1. UNCHANGED aria => AriaFlow
  BY DEF AriaFlow
<1>2. ASSUME NEW g \in Gids, aria' = [aria EXCEPT ![g] = "gone"] PROVE AriaFlow
  BY <1>0, <1>2 DEF AriaFlow
<1>3. ASSUME NEW g \in Gids, Unpause(g), Starter(g) PROVE AriaFlow
  BY <1>0, <1>3 DEF AriaFlow, Unpause, Rpc
<1>4. CASE Engines
  <2>1. PICK g \in Gids : \/ UNCHANGED aria
                          \/ /\ aria[g] = "active"
                             /\ \/ aria' = [aria EXCEPT ![g] = "complete"]
                                \/ aria' = [aria EXCEPT ![g] = "error"]
    BY <1>4 DEF Engines, AriaOpen, AriaReceive, AriaFinish, LtWrite, LtFinish
  <2> QED BY <1>0, <2>1 DEF AriaFlow
<1>5. CASE Shutting
  BY <1>1, <1>5, ShutFrame DEF world
<1>6. ASSUME NEW c \in Callers, CallBegin(c) \/ CallStep(c) PROVE AriaFlow
  <2>1. Commanding(c)
    BY <1>6, NoResume
  <2>2. ASSUME NEW g \in Gids, AddShell(c, g) PROVE AriaFlow
    BY <1>0, <2>2 DEF AddShell, AriaFlow
  <2>3. CASE \E g \in Gids : PauseRecord(c, g) \/ DeleteCancel(c, g)
    BY <1>1, <2>3 DEF PauseRecord, DeleteCancel, world
  <2>4. CASE PauseAria(c)
    <3>1. Gid(c) \in Gids
      BY <2>4, CallHas DEF OwnerInv, AddPauseStep
    <3> QED BY <1>0, <2>4, <3>1 DEF PauseAria, Rpc, AriaFlow
  <2>5. CASE DeleteShell(c)
    <3>1. Gid(c) \in Gids
      BY <2>5, CallHas DEF OwnerInv, DeleteStep
    <3> QED BY <1>1, <1>2, <2>5, <3>1 DEF DeleteShell
  <2>6. CASE AddPauseStep(c) /\ ~PauseAria(c)
    BY <1>1, <2>6 DEF AddPauseStep, AddRow, AddPolicy, AddEngine, AddProbe, QueueDiscovery,
       PauseMark, PauseSession, PauseCancel, PauseClose, world
  <2>7. CASE DeleteStep(c) /\ ~DeleteShell(c)
    BY <1>1, <2>7 DEF DeleteStep, DeleteClose, DeleteLock, DeleteFile, DeleteRow, world
  <2> QED BY <2>1, <2>2, <2>3, <2>4, <2>5, <2>6, <2>7 DEF Commanding
<1>7. CASE Discovery
  <2>1. UNCHANGED aria \/ DiscResume
    BY <1>7 DEF Discovery, DiscStep, DiscPop, DiscLookup, DiscQueue, DiscDecide, DiscHandBack, world
  <2>2. CASE DiscResume
    <3>1. disc.pc = "resume" /\ disc.gid \in Gids
      BY <2>2 DEF DiscResume, OwnerInv, TypeOK, DiscOK
    <3> QED BY <1>3, <2>2, <3>1 DEF DiscResume, Starter
  <2> QED BY <1>1, <2>1, <2>2
<1>8. ASSUME NEW w \in Workers, Worker(w) PROVE AriaFlow
  <2>1. CASE WorkResume(w)
    <3>1. work[w].pc = "resume" /\ work[w].gid \in Gids
      BY <2>1 DEF WorkResume, WAt, OwnerInv, TypeOK, WorkOK
    <3> QED BY <1>3, <2>1, <3>1 DEF WorkResume, WGid, Starter
  <2>2. CASE WorkTimeout(w) \/ \E g \in Gids : WorkPop(w, g)
    BY <1>1, <2>2 DEF WorkTimeout, WorkPop, world
  <2>3. CASE TransferStep(w)
    BY <1>1, <2>3 DEF TransferStep, WorkRelease, WorkClaim, WorkOpen, WorkConnect, WorkPoll,
       WorkStatus, WorkDropClose, WorkDropErase, WorkClose, WorkVerify, WorkPublish, world
  <2>4. CASE WorkFailClose(w) \/ WorkFailFile(w) \/ WorkFailJudge(w) \/ WorkHandBack(w)
    BY <1>1, <2>4 DEF WorkFailClose, WorkFailFile, WorkFailJudge, WorkHandBack, world
  <2> QED BY <1>8, <2>1, <2>2, <2>3, <2>4 DEF Worker, WorkStep, FailStep
<1>9. CASE Refresh
  <2>1. UNCHANGED aria \/ RefrShell
    BY <1>9 DEF Refresh, RefrStep, RefrBegin, RefrCheck, RefrPromote, RefrRowStatus,
       RefrRowEngine, RefrErase, RefrEnqueue, RefrPending, RefrSnapshot, RefrWrite, RefrReact,
       RefrReactClose, RefrReactDone, world
  <2>2. CASE RefrShell
    <3>1. refr.gid \in Gids
      BY <2>2, RefrHas DEF RefrStep, OwnerInv
    <3> QED BY <1>1, <1>2, <2>2, <3>1 DEF RefrShell
  <2> QED BY <1>1, <2>1, <2>2
<1>10. CASE Recovery
  <2>1. UNCHANGED aria \/ RcvShell \/ RcvResume
    BY <1>10 DEF Recovery, RcvStep, RcvPick, RcvReplay, RcvHash, RcvRowStatus, RcvClean,
       RcvEngine, RcvRowActive, RcvStart, world
  <2>2. CASE RcvShell \/ RcvResume
    <3>1. rcv.gid \in Gids
      BY <2>2 DEF RcvShell, RcvResume, RcvAt, OwnerInv, TypeOK, RcvOK
    <3>2. CASE RcvShell
      BY <1>1, <1>2, <3>1, <3>2 DEF RcvShell
    <3>3. CASE RcvResume
      BY <1>3, <3>1, <3>3 DEF RcvResume, RcvAt, Starter
    <3> QED BY <2>2, <3>2, <3>3
  <2> QED BY <1>1, <2>1, <2>2
<1> QED BY <1>4, <1>5, <1>6, <1>7, <1>8, <1>9, <1>10 DEF Alive

\* Engines: named by whoever has the download.
LEMMA EngineFlowOK ==
  ASSUME OwnerInv, "Resume" \notin Ops, Alive
  PROVE  EngineFlow
<1>0. engine \in [Gids -> {"Aria2", "Probe", "Hybrid"}]
  BY DEF OwnerInv, TypeOK, RowsOK
<1>1. UNCHANGED engine => EngineFlow
  BY DEF EngineFlow
<1>2. ASSUME NEW g \in Gids, NEW e \in {"Aria2", "Probe", "Hybrid"}, SetEngine(g, e),
             \/ e = "Aria2"
             \/ e = "Probe" /\ \E c \in Callers : Adder(c, g)
             \/ e = "Hybrid" /\ \E w \in Workers : OnWork(w, g) /\ work[w].pc \in {"claim", "connect"}
             \/ e = "Hybrid" /\ refr.pc = "rowEngine" /\ refr.gid = g
      PROVE  EngineFlow
  BY <1>0, <1>2 DEF EngineFlow, SetEngine
<1>3. CASE Engines \/ Shutting
  BY <1>1, <1>3, EngineFrame, ShutFrame DEF rows
<1>4. ASSUME NEW c \in Callers, CallBegin(c) \/ CallStep(c) PROVE EngineFlow
  <2>1. Commanding(c)
    BY <1>4, NoResume
  <2>2. CASE \E g \in Gids : AddShell(c, g) \/ PauseRecord(c, g) \/ DeleteCancel(c, g)
    BY <1>1, <2>2 DEF AddShell, PauseRecord, DeleteCancel, rows
  <2>3. CASE AddEngine(c)
    <3>1. Gid(c) \in Gids /\ Adder(c, Gid(c))
      BY <2>3, CallHas DEF OwnerInv, AddPauseStep, AddEngine, At, Adder, AddPcs
    <3> QED BY <1>2, <2>3, <3>1 DEF AddEngine
  <2>4. CASE AddPauseStep(c) /\ ~AddEngine(c)
    BY <1>1, <2>4 DEF AddPauseStep, AddRow, AddPolicy, AddProbe, QueueDiscovery, PauseMark,
       PauseSession, PauseCancel, PauseClose, PauseAria, rows
  <2>5. CASE DeleteStep(c)
    BY <1>1, <2>5 DEF DeleteStep, DeleteClose, DeleteLock, DeleteShell, DeleteFile, DeleteRow, rows
  <2> QED BY <2>1, <2>2, <2>3, <2>4, <2>5 DEF Commanding
<1>5. CASE Discovery
  <2>1. UNCHANGED engine \/ DiscHandBack
    BY <1>5 DEF Discovery, DiscStep, DiscPop, DiscLookup, DiscQueue, DiscDecide, DiscResume, rows
  <2>2. CASE DiscHandBack
    <3>1. disc.gid \in Gids
      BY <2>2 DEF DiscHandBack, OwnerInv, TypeOK, DiscOK
    <3> QED BY <1>2, <2>2, <3>1 DEF DiscHandBack
  <2> QED BY <1>1, <2>1, <2>2
<1>6. ASSUME NEW w \in Workers, Worker(w) PROVE EngineFlow
  <2>1. CASE WorkClaim(w) \/ WorkConnect(w)
    <3>1. work[w].pc \in {"claim", "connect"} /\ work[w].gid \in Gids
      BY <2>1 DEF WorkClaim, WorkConnect, WAt, OwnerInv, TypeOK, WorkOK
    <3>2. UNCHANGED engine \/ SetEngine(work[w].gid, "Hybrid")
      BY <2>1 DEF WorkClaim, WorkConnect, WGid
    <3> QED BY <1>1, <1>2, <3>1, <3>2 DEF OnWork
  <2>2. CASE WorkHandBack(w)
    <3>1. work[w].gid \in Gids
      BY <2>2 DEF WorkHandBack, WAt, OwnerInv, TypeOK, WorkOK
    <3> QED BY <1>2, <2>2, <3>1 DEF WorkHandBack, WGid
  <2>3. CASE WorkTimeout(w) \/ \E g \in Gids : WorkPop(w, g)
    BY <1>1, <2>3 DEF WorkTimeout, WorkPop, rows
  <2>4. CASE TransferStep(w) /\ ~WorkClaim(w) /\ ~WorkConnect(w)
    BY <1>1, <2>4 DEF TransferStep, WorkRelease, WorkOpen, WorkPoll, WorkStatus,
       WorkDropClose, WorkDropErase, WorkClose, WorkVerify, WorkPublish, rows
  <2>5. CASE WorkFailClose(w) \/ WorkFailFile(w) \/ WorkFailJudge(w) \/ WorkResume(w)
    BY <1>1, <2>5 DEF WorkFailClose, WorkFailFile, WorkFailJudge, WorkResume, rows
  <2> QED BY <1>6, <2>1, <2>2, <2>3, <2>4, <2>5 DEF Worker, WorkStep, FailStep
<1>7. CASE Refresh
  <2>1. UNCHANGED engine \/ RefrRowEngine
    BY <1>7 DEF Refresh, RefrStep, RefrBegin, RefrCheck, RefrPromote, RefrShell, RefrRowStatus,
       RefrErase, RefrEnqueue, RefrPending, RefrSnapshot, RefrWrite, RefrReact, RefrReactClose,
       RefrReactDone, rows
  <2>2. CASE RefrRowEngine
    <3>1. refr.pc = "rowEngine" /\ refr.gid \in Gids
      BY <2>2, RefrHas DEF RefrRowEngine, RAt, RefrStep, OwnerInv
    <3> QED BY <1>2, <2>2, <3>1 DEF RefrRowEngine
  <2> QED BY <1>1, <2>1, <2>2
<1>8. CASE Recovery
  <2>1. UNCHANGED engine \/ RcvEngine
    BY <1>8 DEF Recovery, RcvStep, RcvPick, RcvReplay, RcvHash, RcvShell, RcvRowStatus,
       RcvClean, RcvResume, RcvRowActive, RcvStart, rows
  <2>2. CASE RcvEngine
    <3>1. rcv.gid \in Gids
      BY <2>2 DEF RcvEngine, RcvAt, OwnerInv, TypeOK, RcvOK
    <3> QED BY <1>2, <2>2, <3>1 DEF RcvEngine
  <2> QED BY <1>1, <2>1, <2>2
<1> QED BY <1>3, <1>4, <1>5, <1>6, <1>7, <1>8 DEF Alive

\* Where a caller's command leads it.
LEMMA CommandMoves ==
  ASSUME OwnerInv, NEW c \in Callers, Commanding(c)
  PROVE  /\ \A d \in Callers : d # c => call'[d] = call[d]
         /\ call'[c].pc \in AddPcs =>
               (call[c].pc \in AddPcs /\ call'[c].gid = call[c].gid) \/ \E g \in Gids : AddShell(c, g)
         /\ call'[c].pc \in DelPcs =>
               (call[c].pc \in DelPcs /\ call'[c].gid = call[c].gid) \/ \E g \in Gids : DeleteCancel(c, g)
         /\ call'[c].pc \in LockedCallPcs => call[c].pc \in LockedCallPcs \/ RpcFree
         /\ call[c].pc = "delRow" => DeleteRow(c)
<1>1. call \in [Callers -> [pc : CallPcs, gid : GidOrNone, owned : BOOLEAN]]
  BY DEF OwnerInv, TypeOK, CallOK
<1> USE DEF AddPcs, DelPcs, LockedCallPcs
<1>2. ASSUME NEW g \in Gids, AddShell(c, g) \/ DeleteCancel(c, g)
      PROVE  /\ \A d \in Callers : d # c => call'[d] = call[d]
             /\ AddShell(c, g) => call'[c].pc = "addRow"
             /\ DeleteCancel(c, g) => call'[c].pc \in {"delClose", "delLock"}
             /\ call[c].pc = "idle" /\ (AddShell(c, g) => RpcFree)
  BY <1>1, <1>2 DEF AddShell, DeleteCancel, MayCall, Idle
<1>3. ASSUME NEW g \in Gids, PauseRecord(c, g)
      PROVE  /\ \A d \in Callers : d # c => call'[d] = call[d]
             /\ call'[c].pc = "pauseMark" /\ call[c].pc = "idle"
  BY <1>1, <1>3 DEF PauseRecord, Begin, MayCall, Idle
<1>4. CASE AddRow(c) \/ AddPolicy(c) \/ AddEngine(c) \/ AddProbe(c) \/ QueueDiscovery(c)
  <2>1. ~At(c, "tryQueue")
    BY DEF OwnerInv, AddersOK, ResumePcs, At
  <2> QED BY <1>1, <1>4, <2>1 DEF AddRow, AddPolicy, AddEngine, AddProbe, QueueDiscovery, At, Goto,
       Done, IdleCall
<1>5. CASE PauseSession(c) \/ PauseCancel(c) \/ PauseClose(c) \/ PauseAria(c)
  BY <1>1, <1>5 DEF PauseSession, PauseCancel, PauseClose, PauseAria, At, Goto, Done, IdleCall
<1>6. CASE PauseMark(c)
  BY <1>1, <1>6 DEF PauseMark, At
<1>7. CASE DeleteStep(c)
  BY <1>1, <1>7 DEF DeleteStep, DeleteClose, DeleteLock, DeleteShell, DeleteFile, DeleteRow, At,
     Goto, Done, IdleCall
<1> QED BY <1>2, <1>3, <1>4, <1>5, <1>6, <1>7 DEF Commanding, AddPauseStep

\* The callers, and what a Delete does as it begins.
LEMMA CallFlowOK ==
  ASSUME OwnerInv, "Resume" \notin Ops, Alive
  PROVE  CallFlow
<1>1. UNCHANGED call => CallFlow
  BY DEF CallFlow
<1>2. CASE Engines \/ Discovery \/ Refresh \/ Recovery \/ Shutting \/ \E w \in Workers : Worker(w)
  BY <1>1, <1>2, EngineFrame, DiscFrame, RefrFrame, RcvFrame, ShutFrame, WorkFrame
<1>3. ASSUME NEW c \in Callers, CallBegin(c) \/ CallStep(c) PROVE CallFlow
  <2>1. Commanding(c)
    BY <1>3, NoResume
  <2>2. ASSUME NEW g \in Gids, DeleteCancel(c, g)
        PROVE  /\ call'[c].gid = g /\ g \in suppressed'
               /\ phase'[g] = "none" \/ (phase'[g] # "Ready" /\ g \in cancel')
    <3>1. call'[c].gid = g /\ CancelSection(g)
      BY <2>2 DEF DeleteCancel, OwnerInv, TypeOK, CallOK
    <3>2. phase \in [Gids -> {"none", "Pending", "Downloading", "Ready", "Failed"}]
      BY DEF OwnerInv, TypeOK, StatesOK
    <3> QED BY <3>1, <3>2 DEF CancelSection, CancelErases, EraseState
  <2>3. call[c].pc = "delRow" => status'[call[c].gid] = "deleted"
    <3>1. SUFFICES ASSUME call[c].pc = "delRow" PROVE status'[call[c].gid] = "deleted"
      OBVIOUS
    <3>2. DeleteRow(c)
      BY <2>1, <3>1, CommandMoves
    <3>3. call[c].gid \in Gids
      BY <3>1 DEF OwnerInv, TypeOK, CallOK
    <3> QED BY <3>2, <3>3 DEF DeleteRow, SetStatus, Gid, OwnerInv, TypeOK, RowsOK
  <2> QED BY <2>1, <2>2, <2>3, CommandMoves DEF CallFlow, RpcFree
<1> QED BY <1>2, <1>3 DEF Alive

\* Tokens pass from hand to hand.
LEMMA TokenFlowOK ==
  ASSUME OwnerInv, "Resume" \notin Ops, Alive
  PROVE  TokenFlow
<1>1. Fewer => TokenFlow
  BY DEF Fewer, TokenFlow, Early
<1>2. CASE Engines \/ Refresh \/ Recovery \/ Shutting
  <2>1. UNCHANGED <<call, disc, work>>
    BY <1>2, EngineFrame, RefrFrame, RcvFrame, ShutFrame
  <2>2. \A g \in Gids : djobs'[g] \in {djobs[g], 0} /\ hjobs'[g] \in {hjobs[g], 0}
    <3>1. CASE Engines \/ Recovery
      BY <3>1, EngineFrame, RcvFrame DEF jobs
    <3>2. CASE Shutting
      BY <3>2 DEF Shutting, ShutBegin, ShutDiscovery, ShutWorkers, jobs
    <3>3. CASE RefrReact
      <4>1. refr.gid \in Gids
        BY <3>3, RefrHas DEF RefrStep, OwnerInv
      <4> QED BY <3>3, <4>1, CancelJobs DEF RefrReact, jobs, OwnerInv
    <3>4. CASE Refresh /\ ~RefrReact
      BY <3>4 DEF Refresh, RefrStep, RefrBegin, RefrCheck, RefrPromote, RefrShell, RefrRowStatus,
         RefrRowEngine, RefrErase, RefrEnqueue, RefrPending, RefrSnapshot, RefrWrite, RefrReactClose,
         RefrReactDone, jobs
    <3> QED BY <1>2, <3>1, <3>2, <3>3, <3>4
  <2> QED BY <1>1, <2>1, <2>2 DEF Fewer, Adder, OnDisc, OnWork
<1>3. ASSUME NEW c \in Callers, CallBegin(c) \/ CallStep(c) PROVE TokenFlow
  <2>1. Commanding(c) /\ UNCHANGED <<disc, work>>
    BY <1>3, NoResume, CallFrame
  <2>2. CASE QueueDiscovery(c)
    <3>1. Gid(c) \in Gids /\ Adder(c, Gid(c)) /\ UNCHANGED hjobs
      BY <2>2, CallHas DEF OwnerInv, AddPauseStep, QueueDiscovery, At, Adder, AddPcs, AddersOK, ResumePcs
    <3>2. \A g \in Gids : djobs'[g] # 0 => djobs[g] # 0 \/ g = Gid(c)
      BY <2>2 DEF QueueDiscovery, OwnerInv, TypeOK, StatesOK
    <3>3. \A d \in Callers, g \in Gids : Adder(d, g)' => Adder(d, g)
      BY <2>2 DEF QueueDiscovery, Done, IdleCall, Adder, AddPcs, OwnerInv, TypeOK, CallOK
    <3> QED BY <2>1, <3>1, <3>2, <3>3 DEF TokenFlow, Early, OnDisc, OnWork
  <2>3. CASE ~QueueDiscovery(c)
    <3>1. UNCHANGED djobs /\ \A g \in Gids : hjobs'[g] \in {hjobs[g], 0}
      <4>1. ASSUME NEW g \in Gids, DeleteCancel(c, g)
            PROVE  UNCHANGED djobs /\ \A h \in Gids : hjobs'[h] \in {hjobs[h], 0}
        BY <4>1, CancelJobs DEF DeleteCancel, OwnerInv
      <4>2. CASE PauseCancel(c)
        <5>1. Gid(c) \in Gids
          BY <4>2, CallHas DEF OwnerInv, AddPauseStep
        <5> QED BY <4>2, <5>1, CancelJobs DEF PauseCancel, OwnerInv
      <4>3. CASE \E g \in Gids : AddShell(c, g) \/ PauseRecord(c, g)
        BY <4>3 DEF AddShell, PauseRecord, jobs
      <4>4. CASE (AddPauseStep(c) /\ ~PauseCancel(c)) \/ DeleteStep(c)
        BY <2>3, <4>4 DEF AddPauseStep, AddRow, AddPolicy, AddEngine, AddProbe, PauseMark,
           PauseSession, PauseClose, PauseAria, DeleteStep, DeleteClose, DeleteLock,
           DeleteShell, DeleteFile, DeleteRow, jobs
      <4> QED BY <2>1, <4>1, <4>2, <4>3, <4>4 DEF Commanding
    <3>2. \A d \in Callers, g \in Gids : Adder(d, g)' => Adder(d, g) \/ status[g] = "new"
      <4>1. ASSUME NEW g \in Gids, AddShell(c, g) PROVE call'[c].gid = g /\ status[g] = "new"
        BY <4>1 DEF AddShell, OwnerInv, TypeOK, CallOK
      <4> QED BY <2>1, <4>1, CommandMoves DEF Adder
    <3> QED BY <2>1, <3>1, <3>2 DEF TokenFlow, Early, OnDisc, OnWork
  <2> QED BY <2>2, <2>3
<1>4. CASE Discovery
  <2>1. UNCHANGED <<call, work>>
    BY <1>4, DiscFrame
  <2>2. ASSUME NEW g \in Gids, DiscPop(g) PROVE TokenFlow
    <3>1. djobs[g] > 0 /\ djobs \in [Gids -> Nat] /\ djobs' = [djobs EXCEPT ![g] = @ - 1] /\ UNCHANGED hjobs
      BY <2>2 DEF DiscPop, OwnerInv, TypeOK, StatesOK
    <3>2. djobs[g] # 0 /\ \A h \in Gids : h # g => djobs'[h] = djobs[h]
      BY <3>1
    <3>3. disc'.gid = g
      BY <2>2 DEF DiscPop, OwnerInv, TypeOK, DiscOK
    <3> QED BY <2>1, <3>1, <3>2, <3>3 DEF TokenFlow, Early, OnDisc, OnWork, Adder
  <2>3. CASE DiscStep
    <3>0. disc.pc # "idle" /\ UNCHANGED djobs
      BY <2>3 DEF DiscStep, DiscLookup, DiscQueue, DiscDecide, DiscHandBack, DiscResume, jobs
    <3>4. disc'.pc = "idle" \/ disc'.gid = disc.gid
      <4>1. CASE DiscLookup \/ DiscQueue \/ DiscHandBack \/ DiscResume
        BY <4>1 DEF DiscLookup, DiscQueue, DiscHandBack, DiscResume, DGoto, IdleDisc, OwnerInv,
           TypeOK, DiscOK
      <4>2. CASE DiscDecide
        BY <4>2 DEF DiscDecide, OwnerInv, TypeOK, DiscOK
      <4> QED BY <2>3, <4>1, <4>2 DEF DiscStep
    <3>1. disc.pc # "idle" /\ UNCHANGED djobs /\ (disc'.pc = "idle" \/ disc'.gid = disc.gid)
      BY <3>0, <3>4
    <3>2. \A g \in Gids : g # disc.gid => hjobs'[g] = hjobs[g]
      BY <2>3 DEF DiscStep, DiscLookup, DiscQueue, DiscDecide, DiscHandBack, DiscResume, jobs,
         OwnerInv, TypeOK, StatesOK
    <3> QED BY <2>1, <3>1, <3>2 DEF TokenFlow, Early, OnDisc, OnWork, Adder
  <2> QED BY <1>4, <2>2, <2>3 DEF Discovery
<1>5. ASSUME NEW w \in Workers, WorkStep(w) \/ WorkTimeout(w) PROVE TokenFlow
  <2>1. UNCHANGED <<djobs, call, disc>> /\ WorkMoves(w) /\ UNCHANGED hjobs
    BY <1>5, WorkFrame, WorkMovesOK DEF Worker, OwnerInv
  <2> QED BY <1>1, <2>1 DEF Fewer, WorkMoves, IdleWork, Adder, OnDisc, OnWork
<1>6. ASSUME NEW w \in Workers, NEW g \in Gids, WorkPop(w, g) PROVE TokenFlow
  <2>1. UNCHANGED <<djobs, call, disc>>
    BY <1>6, WorkFrame DEF Worker
  <2>2. hjobs[g] > 0 /\ hjobs \in [Gids -> Nat] /\ hjobs' = [hjobs EXCEPT ![g] = @ - 1]
    BY <1>6 DEF WorkPop, OwnerInv, TypeOK, StatesOK
  <2>3. hjobs[g] # 0 /\ \A h \in Gids : h # g => hjobs'[h] = hjobs[h]
    BY <2>2
  <2>4. \/ UNCHANGED work
        \/ work' = [work EXCEPT ![w] = [pc |-> "release", gid |-> g, ok |-> FALSE]]
    BY <1>6 DEF WorkPop
  <2>5. \A v \in Workers, h \in Gids : OnWork(v, h)' => OnWork(v, h) \/ h = g
    BY <2>4 DEF OnWork, OwnerInv, TypeOK, WorkOK
  <2> QED BY <2>1, <2>3, <2>5 DEF TokenFlow, Early, OnDisc, Adder
<1> QED BY <1>2, <1>3, <1>4, <1>5, <1>6 DEF Alive, Worker

\* Phases: each comes about in one way, and a cancellation stays until the state goes.
LEMMA PhaseFlowOK ==
  ASSUME OwnerInv, "Resume" \notin Ops, Alive
  PROVE  PhaseFlow
<1>0. phase \in [Gids -> {"none", "Pending", "Downloading", "Ready", "Failed"}]
  BY DEF OwnerInv, TypeOK, StatesOK
<1> DEFINE Ends(g) ==
      \/ \E w \in Workers : OnWork(w, g) /\ work'[w].pc \in {"idle", "handBack"}
      \/ refr.pc \in PromotePcs /\ refr.gid = g
<1>1. ASSUME UNCHANGED phase, cancel \subseteq cancel', suppressed \subseteq suppressed'
      PROVE  PhaseFlow
  BY <1>1 DEF PhaseFlow
<1>2. ASSUME NEW g \in Gids, EraseState(g), phase[g] = "Downloading" => Ends(g),
             suppressed \subseteq suppressed'
      PROVE  PhaseFlow
  BY <1>0, <1>2 DEF EraseState, PhaseFlow
<1>3. ASSUME NEW g \in Gids, CancelSection(g) PROVE PhaseFlow
  <2>1. CASE CancelErases(g)
    BY <1>2, <1>3, <2>1 DEF CancelSection, CancelErases
  <2>2. CASE ~CancelErases(g)
    BY <1>1, <1>3, <2>2 DEF CancelSection
  <2> QED BY <2>1, <2>2
<1>4. CASE Engines \/ Recovery
  BY <1>1, <1>4, EngineFrame, RcvFrame DEF states, sets
<1>5. CASE Shutting
  <2>1. CASE ShutWorkers
    BY <2>1 DEF ShutWorkers, ShutElse, sets, PhaseFlow
  <2>2. CASE ShutBegin \/ ShutDiscovery
    BY <1>1, <2>2 DEF ShutBegin, ShutDiscovery, ShutElse, sets, states
  <2> QED BY <1>5, <2>1, <2>2 DEF Shutting
<1>6. ASSUME NEW c \in Callers, CallBegin(c) \/ CallStep(c) PROVE PhaseFlow
  <2>1. Commanding(c)
    BY <1>6, NoResume
  <2>2. ASSUME NEW g \in Gids, DeleteCancel(c, g) PROVE PhaseFlow
    BY <1>3, <2>2 DEF DeleteCancel
  <2>3. CASE PauseCancel(c)
    <3>1. Gid(c) \in Gids
      BY <2>3, CallHas DEF OwnerInv, AddPauseStep
    <3> QED BY <1>3, <2>3, <3>1 DEF PauseCancel
  <2>4. CASE \E g \in Gids : AddShell(c, g) \/ PauseRecord(c, g)
    BY <1>1, <2>4 DEF AddShell, PauseRecord, states, sets
  <2>5. CASE AddPauseStep(c) /\ ~PauseCancel(c)
    BY <1>1, <2>5 DEF AddPauseStep, AddRow, AddPolicy, AddEngine, AddProbe, QueueDiscovery,
       PauseMark, PauseSession, PauseClose, PauseAria, states, sets
  <2>6. CASE DeleteStep(c)
    BY <1>1, <2>6 DEF DeleteStep, DeleteClose, DeleteLock, DeleteShell, DeleteFile, DeleteRow,
       states, sets
  <2> QED BY <2>1, <2>2, <2>3, <2>4, <2>5, <2>6 DEF Commanding
<1>7. CASE Discovery
  <2>1. CASE DiscQueue
    <3>1. PICK g \in Gids : g = disc.gid /\ disc.pc = "queue"
      BY <2>1 DEF DiscQueue, OwnerInv, TypeOK, DiscOK
    <3>2. CASE g \in suppressed \/ HybridLive(g)
      BY <1>1, <2>1, <3>1, <3>2 DEF DiscQueue, states
    <3>3. CASE ~(g \in suppressed \/ HybridLive(g))
      <4>1. /\ phase' = [phase EXCEPT ![g] = "Pending"]
            /\ cancel' = cancel \ {g} /\ UNCHANGED suppressed /\ Queuing(g)
        BY <2>1, <3>1, <3>3 DEF DiscQueue, Queuing
      <4> QED BY <1>0, <4>1 DEF PhaseFlow
    <3> QED BY <3>2, <3>3
  <2>2. CASE ~DiscQueue
    BY <1>1, <1>7, <2>2 DEF Discovery, DiscStep, DiscPop, DiscLookup, DiscDecide, DiscHandBack,
       DiscResume, states, sets
  <2> QED BY <2>1, <2>2
<1>8. ASSUME NEW w \in Workers, Worker(w) PROVE PhaseFlow
  <2>0. UNCHANGED suppressed
    BY <1>8, WorkKeeps
  <2>1. ASSUME NEW g \in Gids, WorkPop(w, g) PROVE PhaseFlow
    <3>1. hjobs[g] # 0 /\ UNCHANGED cancel
      BY <2>1 DEF WorkPop, OwnerInv, TypeOK, StatesOK
    <3>2. \/ UNCHANGED phase
          \/ phase[g] # "none" /\ g \notin cancel /\ phase' = [phase EXCEPT ![g] = "Downloading"]
      BY <2>1 DEF WorkPop
    <3> QED BY <1>0, <1>1, <2>0, <3>1, <3>2 DEF PhaseFlow
  <2>2. ASSUME WorkDropErase(w) \/ WorkPublish(w) \/ WorkFailJudge(w) PROVE PhaseFlow
    <3>1. PICK g \in Gids : g = work[w].gid
      BY <2>2 DEF WorkDropErase, WorkPublish, WorkFailJudge, WAt, OwnerInv, TypeOK, WorkOK
    <3>2. OnWork(w, g)
      BY <2>2, <3>1 DEF WorkDropErase, WorkPublish, WorkFailJudge, WAt, OnWork
    <3>3. work'[w].pc \in {"idle", "handBack"}
      <4>1. CASE WorkDropErase(w) \/ WorkPublish(w)
        BY <4>1 DEF WorkDropErase, WorkPublish, WDone, IdleWork, OwnerInv, TypeOK, WorkOK
      <4>2. CASE WorkFailJudge(w)
        BY <4>2 DEF WorkFailJudge, IdleWork, OwnerInv, TypeOK, WorkOK
      <4> QED BY <2>2, <4>1, <4>2
    <3>4. Ends(g)
      BY <3>2, <3>3
    <3>5. CASE EraseState(g)
      BY <1>2, <2>0, <3>4, <3>5
    <3>6. CASE WorkPublish(w) /\ phase[g] # "none" /\ g \notin cancel
      <4>1. /\ phase' = [phase EXCEPT ![g] = "Ready"] /\ UNCHANGED cancel
            /\ work[w].pc = "publish" /\ work'[w].pc = "idle"
        BY <3>1, <3>6 DEF WorkPublish, WGid, WAt, WDone, IdleWork, OwnerInv, TypeOK, WorkOK
      <4> QED BY <1>0, <2>0, <3>2, <3>4, <3>6, <4>1 DEF PhaseFlow
    <3>7. CASE WorkFailJudge(w) /\ phase[g] # "none" /\ g \notin cancel
      <4>1. phase' = [phase EXCEPT ![g] = "Failed"] /\ UNCHANGED cancel
        BY <3>1, <3>7 DEF WorkFailJudge, WGid
      <4> QED BY <1>0, <2>0, <3>2, <3>4, <3>7, <4>1 DEF PhaseFlow
    <3> QED BY <2>2, <3>1, <3>5, <3>6, <3>7 DEF WorkDropErase, WorkPublish, WorkFailJudge, WGid
  <2>3. CASE WorkTimeout(w)
    BY <1>1, <2>3 DEF WorkTimeout, states, sets
  <2>4. CASE TransferStep(w) /\ ~WorkDropErase(w) /\ ~WorkPublish(w)
    BY <1>1, <2>4 DEF TransferStep, WorkRelease, WorkClaim, WorkOpen, WorkConnect, WorkPoll,
       WorkStatus, WorkDropClose, WorkClose, WorkVerify, states, sets
  <2>5. CASE WorkFailClose(w) \/ WorkFailFile(w) \/ WorkHandBack(w) \/ WorkResume(w)
    BY <1>1, <2>5 DEF WorkFailClose, WorkFailFile, WorkHandBack, WorkResume, states, sets
  <2> QED BY <1>8, <2>1, <2>2, <2>3, <2>4, <2>5 DEF Worker, WorkStep, FailStep
<1>9. CASE Refresh
  <2>1. ASSUME RefrPromote \/ RefrErase \/ RefrReact PROVE PhaseFlow
    <3>1. PICK g \in Gids : g = refr.gid
      BY <2>1, RefrHas DEF RefrStep, OwnerInv
    <3>2. CASE RefrPromote
      <4>1. refr.pc = "promote" /\ UNCHANGED <<cancel, suppressed>>
        BY <3>2 DEF RefrPromote, RAt, sets
      <4>2. \/ UNCHANGED phase
            \/ phase[g] # "none" /\ phase' = [phase EXCEPT ![g] = "Failed"]
        BY <3>1, <3>2 DEF RefrPromote
      <4> QED BY <1>0, <1>1, <3>1, <4>1, <4>2 DEF PhaseFlow, PromotePcs
    <3>3. CASE RefrErase
      BY <1>2, <3>1, <3>3 DEF RefrErase, RAt, PromotePcs
    <3>4. CASE RefrReact
      <4>1. CASE CancelSection(g)
        BY <1>3, <4>1
      <4>2. CASE EraseState(g) /\ phase[g] = "Failed" /\ UNCHANGED sets
        BY <1>2, <4>2 DEF sets
      <4>3. CASE UNCHANGED <<states, sets>>
        BY <1>1, <4>3 DEF states, sets
      <4> QED BY <3>1, <3>4, <4>1, <4>2, <4>3 DEF RefrReact
    <3> QED BY <2>1, <3>2, <3>3, <3>4
  <2>2. CASE ~RefrPromote /\ ~RefrErase /\ ~RefrReact
    BY <1>1, <1>9, <2>2 DEF Refresh, RefrStep, RefrBegin, RefrCheck, RefrShell, RefrRowStatus,
       RefrRowEngine, RefrEnqueue, RefrPending, RefrSnapshot, RefrWrite, RefrReactClose, RefrReactDone,
       states, sets
  <2> QED BY <2>1, <2>2
<1> QED BY <1>4, <1>5, <1>6, <1>7, <1>8, <1>9 DEF Alive
-----------------------------------------------------------------------------
(* What the invariant says of one download. *)

\* The hands a download is in exclude one another, and all have a row but the adder.
LEMMA OneHand ==
  ASSUME OwnerInv, NEW g \in Gids
  PROVE  /\ Early(g) => Owned(g)
         /\ \A w \in Workers : OnWork(w, g) =>
               Owned(g) /\ ~Early(g) /\ status[g] # "new" /\ \A v \in Workers : OnWork(v, g) => v = w
         /\ OnDisc(g) => Early(g) /\ status[g] # "new"
         /\ sess[g] = "open" => \E w \in Workers : OnWork(w, g) /\ work[w].pc \in SessPcs
<1>1. Early(g) => Owned(g)
  BY DEF Early, Owned
<1>2. \A w \in Workers : OnWork(w, g) =>
         Owned(g) /\ ~Early(g) /\ \A v \in Workers : OnWork(v, g) => v = w
  BY DEF OwnerInv, OneToken, Early, Owned
<1>3. status[g] = "new" /\ Owned(g) => \E c \in Callers : Adder(c, g)
  BY DEF OwnerInv, OwnedKnown, Adder, AddPcs
<1>4. \A w \in Workers : OnWork(w, g) => status[g] # "new"
  BY <1>2, <1>3 DEF Early
<1>5. OnDisc(g) => Early(g) /\ status[g] # "new"
  BY <1>1, <1>3 DEF OwnerInv, OneToken, Early
<1>6. sess[g] = "open" => \E w \in Workers : OnWork(w, g) /\ work[w].pc \in SessPcs
  BY DEF OwnerInv, SessOwned, OnWork, SessPcs
<1> QED BY <1>1, <1>2, <1>4, <1>5, <1>6

\* A clean path stays clean as long as no session is open on it.
LEMMA CleanStays ==
  ASSUME PathInv, FileFlow, NEW g \in Gids, Clean(g), sess[g] # "open", aria'[g] # "complete"
  PROVE  Clean(g)'
BY DEF FileFlow, Clean

\* A verified payload stays as it is, if neither a session nor a remover is at it.
LEMMA GoodStays ==
  ASSUME PathInv, FileFlow, NEW g \in Gids, file[g] = "good", sess[g] # "open", ~Remover(g)
  PROVE  file'[g] = "good"
<1>1. aria[g] # "active"
  BY DEF PathInv, AriaPath, Clean
<1> QED BY <1>1 DEF FileFlow

\* A download nobody owns, whose row exists, stays so.
LEMMA UnownedStays ==
  ASSUME OwnerInv, TokenFlow, RowFlow, NEW g \in Gids, ~Owned(g), status[g] # "new"
  PROVE  ~Owned(g)' /\ status'[g] # "new"
BY DEF TokenFlow, RowFlow, Owned, Early

\* It is left to aria2 as long as it is, when nobody owns it or only the discovery
\* thread or a worker that gives it back does.
LEMMA AsAriaStays ==
  ASSUME PathInv, EngineFlow, RowFlow, NEW g \in Gids, AsAria(g),
         \A c \in Callers : ~Adder(c, g),
         \A w \in Workers : OnWork(w, g) => work[w].pc \notin {"claim", "connect"},
         refr.pc = "rowEngine" => refr.gid # g
  PROVE  AsAria(g)'
BY DEF EngineFlow, RowFlow, AsAria

-----------------------------------------------------------------------------
(* Each part of the invariant after a step. *)

\* A task that is started is started on a clean path that is left to it.
LEMMA StartClean ==
  ASSUME PathInv, NEW g \in Gids, aria[g] = "paused", Starter(g)
  PROVE  /\ Clean(g) /\ AsAria(g) /\ sess[g] # "open" /\ status[g] # "new"
         /\ \A c \in Callers : ~Adder(c, g)
         /\ \A w \in Workers : OnWork(w, g) => work[w].pc = "resume"
         /\ refr.pc \in PromotePcs => refr.gid # g
<1>1. OwnerInv
  BY DEF PathInv
<1>2. CASE disc.pc = "resume" /\ disc.gid = g
  <2>1. OnDisc(g)
    BY <1>2 DEF OnDisc
  <2>2. Early(g) /\ status[g] # "new" /\ Owned(g) /\ \A w \in Workers : ~OnWork(w, g)
    BY <1>1, <2>1, OneHand
  <2>3. sess[g] # "open" /\ \A c \in Callers : ~Adder(c, g)
    BY <1>1, <2>1, <2>2, OneHand DEF OwnerInv, OneToken
  <2> QED BY <1>2, <2>2, <2>3 DEF PathInv, EarlyPath, RefrPath, PromotePcs
<1>3. ASSUME NEW w \in Workers, work[w].pc = "resume", work[w].gid = g
      PROVE  /\ Clean(g) /\ AsAria(g) /\ sess[g] # "open" /\ status[g] # "new"
             /\ \A c \in Callers : ~Adder(c, g)
             /\ \A v \in Workers : OnWork(v, g) => work[v].pc = "resume"
             /\ refr.pc \in PromotePcs => refr.gid # g
  <2>1. OnWork(w, g)
    BY <1>3 DEF OnWork
  <2>2. Owned(g) /\ ~Early(g) /\ status[g] # "new" /\ \A v \in Workers : OnWork(v, g) => v = w
    BY <1>1, <2>1, OneHand
  <2>3. sess[g] # "open"
    BY <1>1, <1>3, <2>2, OneHand DEF SessPcs
  <2>4. Clean(g) /\ AsAria(g)
    BY <1>3 DEF PathInv, WorkPath, WorkerPath, LatePcs
  <2> QED BY <1>3, <2>2, <2>3, <2>4 DEF Early, PathInv, RefrPath, PromotePcs
<1>4. CASE rcv.pc = "resume" /\ rcv.gid = g
  <2>1. run = "recover" /\ status[g] # "new" /\ ~Owned(g)
    BY <1>1, <1>4 DEF OwnerInv, RcvAlone
  <2>2. Clean(g) /\ AsAria(g)
    BY <1>4 DEF PathInv, RcvPath
  <2>3. refr.pc = "idle"
    BY <2>1 DEF PathInv, RefrPath
  <2>4. sess[g] # "open" /\ (\A w \in Workers : ~OnWork(w, g)) /\ \A c \in Callers : ~Adder(c, g)
    BY <1>1, <2>1, OneHand DEF Owned
  <2> QED BY <2>1, <2>2, <2>3, <2>4 DEF PromotePcs
<1> QED BY <1>2, <1>3, <1>4 DEF Starter

\* An open session, an owner, and a row not yet made all keep aria2 parked.
LEMMA SessParked ==
  ASSUME PathInv, NEW g \in Gids, ~Parked(g)
  PROVE  sess[g] # "open" /\ ~Owned(g) /\ status[g] # "new"
<1>1. ~Owned(g) /\ status[g] # "new"
  BY DEF PathInv, AriaPath
<1> QED BY <1>1, OneHand DEF PathInv

\* aria2 has run, and runs, only on a path left to it.
LEMMA AriaPathNext ==
  ASSUME PathInv, OwnerInv', Flow
  PROVE  AriaPath'
<1> USE DEF Flow
<1> SUFFICES ASSUME NEW g \in Gids
             PROVE  /\ Owned(g)' => Parked(g)'
                    /\ aria'[g] \in {"active", "error"} => Clean(g)'
                    /\ ~Parked(g)' => AsAria(g)'
                    /\ status'[g] = "new" => file'[g] = "absent" /\ Parked(g)'
  BY DEF AriaPath
<1>1. aria[g] \in {"gone", "paused", "active", "complete", "error"}
  BY DEF PathInv, OwnerInv, TypeOK, WorldOK
<1>2. \/ Parked(g)' /\ (Parked(g) \/ aria[g] \in {"active", "complete", "error"})
      \/ ~Parked(g) /\ ~Parked(g)' /\ (aria'[g] \in {"active", "error"} => aria[g] \in {"active", "error"})
      \/ aria[g] = "paused" /\ aria'[g] = "active" /\ Starter(g)
  BY <1>1 DEF AriaFlow, Parked
<1>3. Owned(g)' => Parked(g)'
  <2>1. Owned(g)' => Parked(g)
    BY DEF TokenFlow, PathInv, AriaPath, Owned, Early
  <2>2. Owned(g)' => aria'[g] # "active"
    BY DEF OwnerInv, OwnedQuiet
  <2> QED BY <1>2, <2>1, <2>2 DEF Parked
<1>4. CASE aria[g] = "paused" /\ aria'[g] = "active" /\ Starter(g)
  <2>1. Clean(g)'
    BY <1>4, StartClean, CleanStays
  <2>2. AsAria(g)'
    BY <1>4, StartClean, AsAriaStays DEF PromotePcs
  <2>3. status'[g] # "new"
    BY <1>4, StartClean DEF RowFlow
  <2> QED BY <1>3, <2>1, <2>2, <2>3
<1>5. CASE ~Parked(g) /\ ~Parked(g)' /\ (aria'[g] \in {"active", "error"} => aria[g] \in {"active", "error"})
  <2>1. sess[g] # "open" /\ ~Owned(g) /\ status[g] # "new" /\ AsAria(g)
    BY <1>5, SessParked DEF PathInv, AriaPath
  <2>2. aria'[g] \in {"active", "error"} => Clean(g)'
    BY <1>5, <2>1, CleanStays DEF PathInv, AriaPath
  <2>3. refr.pc = "rowEngine" => refr.gid # g
    BY <1>5 DEF PathInv, RefrPath, Parked
  <2>4. AsAria(g)'
    BY <2>1, <2>3, AsAriaStays DEF Owned
  <2> QED BY <1>3, <2>1, <2>2, <2>4 DEF RowFlow
<1>6. CASE Parked(g)'
  <2>1. ASSUME status'[g] = "new" PROVE file'[g] = "absent"
    <3>1. status[g] = "new" /\ file[g] = "absent" /\ Parked(g)
      BY <2>1 DEF RowFlow, PathInv, AriaPath
    <3>2. sess[g] # "open"
      BY <3>1, OneHand DEF PathInv
    <3> QED BY <3>1, <3>2 DEF FileFlow, Parked
  <2> QED BY <1>3, <1>6, <2>1 DEF Parked
<1> QED BY <1>2, <1>4, <1>5, <1>6

\* A token no worker has yet lies on a clean path.
LEMMA EarlyPathNext ==
  ASSUME PathInv, Flow, disc'.pc = "resume" => UNCHANGED disc \/ AsAria(disc.gid)'
  PROVE  EarlyPath'
<1> USE DEF Flow
<1>1. ASSUME NEW g \in Gids, Early(g)' PROVE Clean(g)'
  <2>1. Early(g) \/ status[g] = "new"
    BY <1>1 DEF TokenFlow
  <2>2. Clean(g) /\ Parked(g) /\ sess[g] # "open"
    BY <2>1, OneHand DEF PathInv, AriaPath, EarlyPath, Clean
  <2>3. aria'[g] # "complete"
    BY <2>2 DEF AriaFlow, Parked
  <2> QED BY <2>2, <2>3, CleanStays
<1>2. ASSUME NEW g \in Gids, engine'[g] = "Probe", status'[g] # "deleted", aria'[g] = "paused"
      PROVE  Clean(g)'
  <2>1. status[g] # "deleted" /\ (engine[g] = "Probe" \/ \E c \in Callers : Adder(c, g))
    BY <1>2 DEF EngineFlow, RowFlow
  <2>2. sess[g] # "open"
    BY <2>1, OneHand DEF PathInv, OwnerInv, SessOwned, HybridRow, Early
  <2>3. aria[g] = "paused" \/ aria[g] = "active" \/ status[g] = "new"
    BY <1>2 DEF AriaFlow
  <2>4. Clean(g)
    BY <2>1, <2>3 DEF PathInv, AriaPath, EarlyPath, Early, Clean
  <2> QED BY <1>2, <2>2, <2>4, CleanStays
<1>3. ASSUME disc.pc = "resume", UNCHANGED disc PROVE AsAria(disc.gid)'
  <2>1. disc.gid \in Gids /\ OnDisc(disc.gid) /\ AsAria(disc.gid)
    BY <1>3 DEF OnDisc, PathInv, EarlyPath, OwnerInv, TypeOK, DiscOK
  <2>2. Owned(disc.gid) /\ (\A c \in Callers : ~Adder(c, disc.gid)) /\ \A w \in Workers : ~OnWork(w, disc.gid)
    BY <2>1 DEF PathInv, OwnerInv, OneToken, Owned
  <2>3. refr.pc = "rowEngine" => refr.gid # disc.gid
    BY <2>2 DEF PathInv, RefrPath, PromotePcs
  <2>4. AsAria(disc.gid) => \A g \in Gids : g = disc.gid => AsAria(g)'
    BY <2>1, <2>2, <2>3, AsAriaStays
  <2> QED BY <1>3, <2>1, <2>4 DEF AsAria
<1> QED BY <1>1, <1>2, <1>3 DEF EarlyPath

\* A worker that stands still.
LEMMA WorkPathStill ==
  ASSUME PathInv, Flow, NEW w \in Workers, work'[w] = work[w]
  PROVE  WorkerPath(w)'
<1> USE DEF Flow
<1> DEFINE g == work[w].gid
<1>0. CASE work[w].pc = "idle"
  BY <1>0 DEF WorkerPath, LatePcs
<1>1. CASE work[w].pc # "idle"
  <2>1. g \in Gids /\ OnWork(w, g)
    BY <1>1 DEF OnWork, PathInv, OwnerInv, TypeOK, WorkOK
  <2>2. Owned(g) /\ ~Early(g) /\ Parked(g) /\ \A v \in Workers : OnWork(v, g) => v = w
    BY <2>1, OneHand DEF PathInv, AriaPath
  <2>3. sess[g] = "open" => work[w].pc \in SessPcs
    BY <2>1, <2>2, OneHand DEF PathInv
  <2>4. refr.pc \in PromotePcs => refr.gid # g
    BY <2>2 DEF PathInv, RefrPath
  <2>5. aria'[g] # "complete"
    BY <2>1, <2>2 DEF AriaFlow, Parked
  <2>6. ASSUME work[w].pc = "resume" PROVE work'[w].ok /\ AsAria(g)'
    <3>1. work[w].ok /\ AsAria(g)
      BY <2>6 DEF PathInv, WorkPath, WorkerPath
    <3>2. \A c \in Callers : ~Adder(c, g)
      BY <2>2 DEF Early
    <3>3. \A v \in Workers : OnWork(v, g) => work[v].pc \notin {"claim", "connect"}
      BY <2>2, <2>6
    <3> QED BY <2>1, <2>4, <3>1, <3>2, <3>3, AsAriaStays DEF PromotePcs
  <2>7. ASSUME work[w].pc \in LatePcs, work[w].ok PROVE Clean(g)'
    <3>1. Clean(g) /\ sess[g] # "open"
      BY <2>3, <2>7 DEF PathInv, WorkPath, WorkerPath, LatePcs, SessPcs
    <3> QED BY <2>1, <2>5, <3>1, CleanStays
  <2>8. ASSUME work[w].pc \notin {"idle", "handBack", "resume"} PROVE phase'[g] = "Downloading"
    <3>1. phase[g] = "Downloading"
      BY <2>8 DEF PathInv, WorkPath, WorkerPath
    <3>2. ~\E v \in Workers : OnWork(v, g) /\ work'[v].pc \in {"idle", "handBack"}
      BY <2>2, <2>8
    <3>3. ~Queuing(g)
      BY <2>1, <2>2 DEF Queuing, OnDisc, Early
    <3> QED BY <2>1, <2>4, <3>1, <3>2, <3>3 DEF PhaseFlow
  <2>9. ASSUME work[w].pc = "publish" PROVE file'[g] = "good" \/ g \in cancel'
    <3>1. phase[g] = "Downloading" /\ phase'[g] = "Downloading"
      BY <2>8, <2>9 DEF PathInv, WorkPath, WorkerPath
    <3>2. ~Queuing(g)
      BY <2>1, <2>2 DEF Queuing, OnDisc, Early
    <3>3. g \in cancel => g \in cancel'
      BY <2>1, <3>1, <3>2 DEF PhaseFlow
    <3>4. ASSUME g \notin cancel PROVE file'[g] = "good"
      <4>1. file[g] = "good" /\ sess[g] # "open"
        BY <2>3, <2>9, <3>4 DEF PathInv, WorkPath, WorkerPath, SessPcs
      <4>2. ~\E c \in Callers : call[c].pc = "delFile" /\ call[c].gid = g
        BY <3>1, <3>4 DEF PathInv, Deleting, DelPcs
      <4>3. ~\E v \in Workers : work[v].pc \in {"release", "failFile"} /\ work[v].gid = g
        BY <2>2, <2>9 DEF OnWork
      <4>4. ~(rcv.pc = "clean" /\ rcv.gid = g)
        BY <2>2 DEF PathInv, OwnerInv, RcvAlone
      <4> QED BY <2>1, <4>1, <4>2, <4>3, <4>4, GoodStays DEF Remover
    <3> QED BY <3>3, <3>4
  <2> QED BY <2>6, <2>7, <2>8, <2>9 DEF WorkerPath, AsAria, Clean
<1> QED BY <1>0, <1>1

\* A Ready state keeps its verified payload.
LEMMA ReadyGoodNext ==
  ASSUME PathInv, OwnerInv', Flow
  PROVE  ReadyGood'
<1> USE DEF Flow
<1> SUFFICES ASSUME NEW g \in Gids, phase'[g] = "Ready"
             PROVE  file'[g] = "good" /\ ~Owned(g)' /\ status'[g] # "new"
  BY DEF ReadyGood
<1>1. CASE phase[g] = "Ready"
  <2>1. file[g] = "good" /\ ~Owned(g) /\ status[g] # "new"
    BY <1>1 DEF PathInv, ReadyGood
  <2>2. sess[g] # "open" /\ \A w \in Workers : ~(work[w].pc \in {"release", "failFile"} /\ work[w].gid = g)
    BY <2>1, OneHand DEF PathInv, Owned, OnWork
  <2>3. ~\E c \in Callers : call[c].pc = "delFile" /\ call[c].gid = g
    BY <1>1 DEF PathInv, Deleting, DelPcs
  <2>4. ~(rcv.pc = "clean" /\ rcv.gid = g)
    BY <1>1 DEF PathInv, OwnerInv, RcvAlone, RcvPath
  <2>5. file'[g] = "good"
    BY <2>1, <2>2, <2>3, <2>4, GoodStays DEF Remover
  <2> QED BY <2>1, <2>5, UnownedStays DEF PathInv
<1>2. ASSUME NEW w \in Workers, OnWork(w, g), work[w].pc = "publish", work'[w].pc = "idle",
             g \notin cancel, phase[g] # "none"
      PROVE  file'[g] = "good" /\ ~Owned(g)' /\ status'[g] # "new"
  <2>1. /\ Owned(g) /\ ~Early(g) /\ status[g] # "new" /\ (\A v \in Workers : OnWork(v, g) => v = w)
        /\ work[w].gid = g
    BY <1>2, OneHand DEF PathInv, OnWork
  <2>2. file[g] = "good" /\ sess[g] # "open"
    BY <1>2, <2>1, OneHand DEF PathInv, WorkPath, WorkerPath, SessPcs
  <2>3. ~\E c \in Callers : call[c].pc = "delFile" /\ call[c].gid = g
    BY <1>2 DEF PathInv, Deleting, DelPcs
  <2>4. ~\E v \in Workers : work[v].pc \in {"release", "failFile"} /\ work[v].gid = g
    BY <1>2, <2>1 DEF OnWork
  <2>5. ~(rcv.pc = "clean" /\ rcv.gid = g)
    BY <2>1 DEF PathInv, OwnerInv, RcvAlone
  <2>6. file'[g] = "good"
    BY <2>2, <2>3, <2>4, <2>5, GoodStays DEF Remover
  <2>7. ~Early(g)' /\ hjobs[g] = 0
    BY <2>1 DEF TokenFlow, Early
  <2>8. \A v \in Workers : ~OnWork(v, g)'
    BY <1>2, <2>1, <2>7 DEF TokenFlow, OnWork
  <2> QED BY <2>1, <2>6, <2>7, <2>8 DEF Owned, Early, RowFlow
<1> QED BY <1>1, <1>2 DEF PhaseFlow

\* A Delete under way stays cancelled.
LEMMA DeletingNext ==
  ASSUME PathInv, OwnerInv', Flow
  PROVE  Deleting'
<1> USE DEF Flow
<1> SUFFICES ASSUME NEW c \in Callers, call'[c].pc \in DelPcs
             PROVE  /\ call'[c].gid \in suppressed'
                    /\ \/ phase'[call'[c].gid] = "none"
                       \/ phase'[call'[c].gid] # "Ready" /\ call'[c].gid \in cancel'
  BY DEF Deleting
<1>1. CASE call[c].pc \in DelPcs /\ call'[c].gid = call[c].gid
  <2> DEFINE g == call[c].gid
  <2>1. /\ g \in Gids /\ g \in suppressed
        /\ phase[g] = "none" \/ (phase[g] # "Ready" /\ g \in cancel)
    BY <1>1 DEF DelPcs, PathInv, Deleting, OwnerInv, TypeOK, CallOK
  <2>2. g \in suppressed' /\ ~Queuing(g)
    BY <2>1 DEF PhaseFlow, Queuing
  <2>3. phase'[g] \in {"none", "Pending", "Downloading", "Ready", "Failed"}
    BY <2>1 DEF OwnerInv, TypeOK, StatesOK
  <2>4. CASE phase[g] = "none"
    BY <1>1, <2>1, <2>2, <2>3, <2>4 DEF PhaseFlow
  <2>5. CASE phase[g] # "Ready" /\ g \in cancel
    BY <1>1, <2>1, <2>2, <2>3, <2>5 DEF PhaseFlow
  <2> QED BY <2>1, <2>4, <2>5
<1> QED BY <1>1 DEF CallFlow

\* The refresh thread, when another steps.
LEMMA RefrPathStill ==
  ASSUME PathInv, Flow, UNCHANGED refr, run' = run \/ run' \notin {"recover", "down"}
  PROVE  RefrPath'
<1> USE DEF Flow
<1> DEFINE g == refr.gid
<1>0. CASE refr.pc = "idle"
  BY <1>0 DEF RefrPath, PromotePcs
<1>1. CASE refr.pc # "idle"
  <2>1. g \in Gids /\ status[g] # "new" /\ run \notin {"recover", "down"}
    BY <1>1 DEF PathInv, RefrPath, OwnerInv, TypeOK, RefrOK
  <2>2. status'[g] # "new" /\ run' \notin {"recover", "down"}
    BY <2>1 DEF RowFlow
  <2>3. \A c \in Callers : call'[c].pc \notin LockedCallPcs
    BY <1>1 DEF CallFlow, PathInv, RefrPath
  <2>4. ~Owned(g) => ~Owned(g)'
    BY <2>1, UnownedStays DEF PathInv
  <2>5. ASSUME refr.pc \in {"promote", "shell", "rowStatus"} PROVE file'[g] = "good"
    <3>1. file[g] = "good" /\ ~Owned(g)
      BY <2>5 DEF PathInv, RefrPath, PromotePcs
    <3>2. sess[g] # "open" /\ \A w \in Workers : ~(work[w].pc \in {"release", "failFile"} /\ work[w].gid = g)
      BY <2>1, <3>1, OneHand DEF PathInv, Owned, OnWork
    <3>3. ~\E c \in Callers : call[c].pc = "delFile" /\ call[c].gid = g
      BY <1>1 DEF PathInv, RefrPath, LockedCallPcs
    <3>4. ~(rcv.pc = "clean" /\ rcv.gid = g)
      BY <2>1 DEF PathInv, OwnerInv, RcvAlone
    <3> QED BY <2>1, <3>1, <3>2, <3>3, <3>4, GoodStays DEF Remover
  <2>6. ASSUME refr.pc \in {"rowStatus", "rowEngine"} PROVE aria'[g] = "gone"
    BY <2>1, <2>6 DEF PathInv, RefrPath, AriaFlow
  <2>7. ASSUME refr.seen = "complete" PROVE ~Owned(g)' /\ AsAria(g)'
    <3>1. ~Owned(g) /\ AsAria(g) /\ refr.pc # "rowEngine"
      BY <1>1, <2>7 DEF PathInv, RefrPath, PromotePcs
    <3> QED BY <2>1, <2>4, <3>1, AsAriaStays DEF Owned
  <2> QED BY <2>2, <2>3, <2>4, <2>5, <2>6, <2>7 DEF RefrPath, PathInv
<1> QED BY <1>0, <1>1

\* Recovery, when another steps.
LEMMA RcvPathStill ==
  ASSUME PathInv, OwnerInv', Flow, UNCHANGED rcv, run' = run \/ run' \notin {"recover", "down"}
  PROVE  RcvPath'
<1> USE DEF Flow
<1>1. ASSUME NEW g \in Gids, run' \in {"recover", "down"} PROVE phase'[g] = "none"
  <2>1. run \in {"recover", "down"} /\ phase[g] = "none" /\ refr.pc = "idle"
    BY <1>1 DEF PathInv, RcvPath, RefrPath
  <2>2. ~OnDisc(g) /\ hjobs[g] = 0 /\ \A w \in Workers : ~OnWork(w, g)
    BY <2>1 DEF PathInv, OwnerInv, RcvAlone
  <2>3. phase'[g] \in {"none", "Pending", "Downloading", "Ready", "Failed"}
    BY DEF OwnerInv, TypeOK, StatesOK
  <2> QED BY <2>1, <2>2, <2>3 DEF PhaseFlow, Queuing, OnDisc
<1>2. ASSUME NEW g \in Gids, ~Owned(g), status[g] # "new", aria[g] = "paused" => Clean(g),
             aria'[g] = "paused"
      PROVE  Clean(g)'
  <2>1. aria[g] = "paused" \/ aria[g] = "active"
    BY <1>2 DEF AriaFlow
  <2>2. Clean(g)
    BY <1>2, <2>1 DEF PathInv, AriaPath
  <2>3. sess[g] # "open"
    BY <1>2, OneHand DEF PathInv
  <2> QED BY <1>2, <2>2, <2>3, CleanStays
<1>3. ASSUME NEW g \in Gids, rcv.plan[g] = "engine", aria'[g] = "paused" PROVE Clean(g)'
  BY <1>2, <1>3 DEF PathInv, RcvPath, OwnerInv, RcvAlone
<1>4. CASE rcv.pc = "idle"
  BY <1>1, <1>3, <1>4 DEF RcvPath
<1>5. CASE rcv.pc # "idle"
  <2> DEFINE g == rcv.gid
  <2>1. g \in Gids /\ ~Owned(g) /\ status[g] # "new" /\ run = "recover"
    BY <1>5 DEF PathInv, OwnerInv, RcvAlone, TypeOK, RcvOK
  <2>2. rcv.pc \in {"engine", "resume"} /\ aria'[g] = "paused" => Clean(g)'
    BY <1>2, <2>1 DEF PathInv, RcvPath
  <2>3. ASSUME rcv.pc = "resume" PROVE AsAria(g)'
    <3>1. AsAria(g) /\ refr.pc # "rowEngine"
      BY <2>1, <2>3 DEF PathInv, RcvPath, RefrPath
    <3> QED BY <2>1, <3>1, AsAriaStays DEF Owned, PathInv
  <2>4. ASSUME rcv.pc \in {"shell", "rowStatus"}
        PROVE  file'[g] = "good" \/ status'[g] = "deleted" \/ DelRow(g)'
    <3>1. file[g] = "good" \/ status[g] = "deleted" \/ DelRow(g)
      BY <2>4 DEF PathInv, RcvPath
    <3>2. CASE status[g] = "deleted"
      BY <2>1, <3>2 DEF RowFlow
    <3>3. CASE DelRow(g)
      BY <2>1, <3>3 DEF CallFlow, DelRow
    <3>4. CASE file[g] = "good"
      <4>1. sess[g] # "open" /\ \A w \in Workers : ~(work[w].pc \in {"release", "failFile"} /\ work[w].gid = g)
        BY <2>1, OneHand DEF PathInv, Owned, OnWork
      <4>2. Remover(g) => DelRow(g)'
        BY <2>4, <4>1 DEF Remover, DelRow
      <4> QED BY <2>1, <3>4, <4>1, <4>2, GoodStays
    <3> QED BY <3>1, <3>2, <3>3, <3>4
  <2> QED BY <1>1, <1>3, <2>2, <2>3, <2>4 DEF RcvPath
<1> QED BY <1>4, <1>5

\* A worker that moves.
LEMMA WorkPathMoves ==
  ASSUME PathInv, NEW w \in Workers, WorkStep(w) \/ WorkTimeout(w)
  PROVE  WorkerPath(w)'
<1> DEFINE g == work[w].gid
<1>1. work[w].pc # "idle" /\ g \in Gids
  BY WorkMovesOK DEF PathInv, OwnerInv, WorkMoves
<1>2. /\ work \in [Workers -> [pc : WorkPcs, gid : GidOrNone, ok : BOOLEAN]]
      /\ engine \in [Gids -> {"Aria2", "Probe", "Hybrid"}]
      /\ file \in [Gids -> {"absent", "aria", "lt", "good", "mixed"}]
  BY DEF PathInv, OwnerInv, TypeOK, WorkOK, RowsOK, WorldOK
<1>3. WorkerPath(w)
  BY DEF PathInv, WorkPath
<1>4. CASE \/ WorkRelease(w) \/ WorkClaim(w) \/ WorkOpen(w) \/ WorkConnect(w) \/ WorkPoll(w)
           \/ WorkTimeout(w) \/ WorkStatus(w) \/ WorkDropClose(w) \/ WorkClose(w) \/ WorkFailClose(w)
  <2>1. /\ work'[w].gid = g /\ UNCHANGED phase
        /\ work'[w].pc \notin {"idle", "publish"} \cup LatePcs
        /\ work[w].pc \notin {"idle", "handBack", "resume"}
    <3>1. CASE WorkRelease(w) \/ WorkClaim(w) \/ WorkOpen(w) \/ WorkConnect(w) \/ WorkTimeout(w)
      BY <1>2, <3>1 DEF WorkRelease, WorkClaim, WorkOpen, WorkConnect, WorkTimeout,
         WAt, WGoto, states, LatePcs
    <3>2. CASE WorkPoll(w) \/ WorkStatus(w) \/ WorkDropClose(w) \/ WorkClose(w) \/ WorkFailClose(w)
      BY <1>2, <3>2 DEF WorkPoll, WorkStatus, WorkDropClose, WorkClose,
         WorkFailClose, WAt, WGoto, states, LatePcs
    <3> QED BY <1>4, <3>1, <3>2
  <2> QED BY <1>3, <2>1 DEF WorkerPath, LatePcs
<1>5. CASE WorkVerify(w)
  <2>1. /\ UNCHANGED <<phase, file>> /\ work[w].pc = "verify"
        /\ work'[w].gid = g /\ work'[w].pc \in {"publish", "failClose"}
        /\ work'[w].pc = "publish" => file[g] = "good"
    BY <1>2, <1>5 DEF WorkVerify, WAt, WGid, WGoto, states, world
  <2> QED BY <1>3, <2>1 DEF WorkerPath, LatePcs
<1>6. CASE WorkFailFile(w)
  <2>1. PICK ok \in BOOLEAN : RemoveFile(g, ok) /\ work' = [work EXCEPT ![w] =
                                 [pc |-> "failJudge", gid |-> g, ok |-> ok]]
    BY <1>6 DEF WorkFailFile, WGid
  <2>2. work'[w] = [pc |-> "failJudge", gid |-> g, ok |-> ok] /\ UNCHANGED phase
        /\ work[w].pc = "failFile"
    BY <1>2, <1>6, <2>1 DEF WorkFailFile, WAt, states
  <2>3. ok => file'[g] = "absent"
    BY <1>1, <1>2, <2>1 DEF RemoveFile
  <2>4. Clean(g)' <=> file'[work'[w].gid] \in {"absent", "aria"}
    BY <2>2 DEF Clean
  <2> QED BY <1>3, <2>2, <2>3 DEF WorkerPath, LatePcs, Clean
<1>7. CASE WorkFailJudge(w)
  <2>1. UNCHANGED file /\ work[w].pc = "failJudge"
    BY <1>7 DEF WorkFailJudge, WAt, world
  <2>2. work'[w].pc = "idle" \/ (work'[w].pc = "handBack" /\ work'[w].gid = g /\ work[w].ok)
    BY <1>2, <1>7 DEF WorkFailJudge, IdleWork
  <2> QED BY <1>3, <2>1, <2>2 DEF WorkerPath, LatePcs, Clean
<1>8. CASE WorkHandBack(w)
  <2>1. /\ UNCHANGED <<file, status>> /\ SetEngine(g, "Aria2") /\ work[w].pc = "handBack"
        /\ work'[w].pc = "idle" \/ (work'[w].pc = "resume" /\ work'[w].gid = g /\ work'[w].ok /\ work[w].ok)
    BY <1>2, <1>8 DEF WorkHandBack, WAt, WGid, WGoto, WDone, IdleWork, world
  <2>2. status'[g] = "deleted" \/ engine'[g] = "Aria2"
    BY <1>1, <1>2, <2>1 DEF SetEngine
  <2> QED BY <1>3, <2>1, <2>2 DEF WorkerPath, LatePcs, Clean, AsAria
<1>9. CASE WorkDropErase(w) \/ WorkPublish(w) \/ WorkResume(w)
  <2>1. work'[w].pc = "idle"
    BY <1>2, <1>9 DEF WorkDropErase, WorkPublish, WorkResume, WDone, IdleWork
  <2> QED BY <2>1 DEF WorkerPath, LatePcs
<1> QED BY <1>4, <1>5, <1>6, <1>7, <1>8, <1>9 DEF WorkStep, TransferStep, FailStep

\* A step of a worker, or of anybody else, keeps what the workers rely on.
LEMMA WorkPathNext ==
  ASSUME PathInv, Flow, UNCHANGED work \/ \E w \in Workers : Worker(w)
  PROVE  WorkPath'
<1>1. CASE UNCHANGED work
  BY <1>1, WorkPathStill DEF WorkPath
<1>2. ASSUME NEW w \in Workers, WorkStep(w) \/ WorkTimeout(w)
      PROVE  WorkPath'
  <2>1. \A v \in Workers : v # w => work'[v] = work[v]
    BY <1>2, WorkMovesOK DEF WorkMoves, PathInv, OwnerInv
  <2> QED BY <1>2, <2>1, WorkPathStill, WorkPathMoves DEF WorkPath
<1>3. ASSUME NEW w \in Workers, NEW g \in Gids, WorkPop(w, g)
      PROVE  WorkPath'
  <2>1. \/ UNCHANGED work
        \/ /\ work' = [work EXCEPT ![w] = [pc |-> "release", gid |-> g, ok |-> FALSE]]
           /\ phase' = [phase EXCEPT ![g] = "Downloading"]
    BY <1>3 DEF WorkPop
  <2>2. CASE UNCHANGED work
    BY <2>2, WorkPathStill DEF WorkPath
  <2>3. CASE /\ work' = [work EXCEPT ![w] = [pc |-> "release", gid |-> g, ok |-> FALSE]]
             /\ phase' = [phase EXCEPT ![g] = "Downloading"]
    <3>1. \A v \in Workers : v # w => work'[v] = work[v]
      BY <2>3 DEF PathInv, OwnerInv, TypeOK, WorkOK
    <3>2. work'[w].pc = "release" /\ work'[w].gid = g /\ phase'[g] = "Downloading"
      BY <2>3 DEF PathInv, OwnerInv, TypeOK, WorkOK, StatesOK
    <3>3. WorkerPath(w)'
      BY <3>2 DEF WorkerPath, LatePcs
    <3> QED BY <3>1, <3>3, WorkPathStill DEF WorkPath
  <2> QED BY <2>1, <2>2, <2>3
<1> QED BY <1>1, <1>2, <1>3 DEF Worker

\* The refresh thread takes up a task.
LEMMA RefrPathBegin ==
  ASSUME PathInv, Flow, NEW g \in Gids, RefrBegin(g)
  PROVE  RefrPath'
<1> USE DEF Flow
<1>1. refr'.pc = "check" /\ refr'.gid = g /\ refr'.seen = aria[g]
  BY DEF RefrBegin, IdleRefr
<1>2. run' = "up" /\ UNCHANGED <<call, engine>>
  BY DEF RefrBegin, RefrElse, control
<1>3. \A c \in Callers : call'[c].pc \notin LockedCallPcs
  BY <1>2 DEF RefrBegin, RpcFree
<1>4. status'[g] # "new"
  BY DEF RefrBegin, PathInv, OwnerInv, TypeOK, RowsOK
<1>5. ASSUME aria[g] = "complete" PROVE ~Owned(g)' /\ AsAria(g)'
  <2>1. ~Owned(g) /\ status[g] # "new" /\ AsAria(g)
    BY <1>5, SessParked DEF Parked, PathInv, AriaPath
  <2>2. AsAria(g)'
    BY <1>2, <2>1 DEF AsAria, RowFlow
  <2> QED BY <2>1, <2>2, UnownedStays DEF PathInv
<1>7. aria[g] = "complete" => ~Owned(refr.gid)' /\ AsAria(refr.gid)'
  <2>1. \A h \in Gids : h = refr'.gid /\ aria[g] = "complete" => ~Owned(h)' /\ AsAria(h)'
    BY <1>5, <1>1
  <2> QED BY <1>1, <2>1 DEF Owned, AsAria, OnDisc, OnWork, Adder
<1> QED BY <1>2, <1>3, <1>4, <1>1, <1>7 DEF RefrPath, PromotePcs

\* It goes on with its download, or ends.
LEMMA RefrPathStep ==
  ASSUME PathInv, Flow, RefrStep
  PROVE  RefrPath'
<1> USE DEF Flow
<1>1. refr \in [pc : RefrPcs, gid : GidOrNone, held : BOOLEAN, live : BOOLEAN,
                seen : {"gone", "paused", "active", "complete", "error"}]
  BY DEF PathInv, OwnerInv, TypeOK, RefrOK
<1>0. refr.pc # "idle" /\ refr.gid \in Gids
  <2>1. refr.pc # "idle"
    BY DEF RefrStep, RefrCheck, RefrPromote, RefrShell, RefrRowStatus, RefrRowEngine, RefrErase,
       RefrEnqueue, RefrPending, RefrSnapshot, RefrWrite, RefrReact, RefrReactClose, RefrReactDone, RAt
  <2> QED BY <2>1 DEF PathInv, OwnerInv, TypeOK, RefrOK
<1> PICK g \in Gids : g = refr.gid
  BY <1>0
<1>2. refr.pc # "idle" /\ g \in Gids /\ g = refr.gid
  BY <1>0
<1>3. UNCHANGED <<run, call, file>>
  BY DEF RefrStep, RefrCheck, RefrPromote, RefrShell, RefrRowStatus, RefrRowEngine, RefrErase,
     RefrEnqueue, RefrPending, RefrSnapshot, RefrWrite, RefrReact, RefrReactClose, RefrReactDone, RefrElse,
     world, control
<1>4. /\ run' \notin {"recover", "down"} /\ status'[g] # "new"
      /\ \A c \in Callers : call'[c].pc \notin LockedCallPcs
  BY <1>2, <1>3 DEF PathInv, RefrPath, RowFlow
<1>5. ~Owned(g) => ~Owned(g)'
  BY <1>2, UnownedStays DEF PathInv, RefrPath
<1>6. refr.seen = "complete" => ~Owned(g)' /\ AsAria(g)'
  <2>1. ASSUME refr.seen = "complete" PROVE ~Owned(g) /\ AsAria(g) /\ refr.pc # "rowEngine"
    BY <1>2, <2>1 DEF PathInv, RefrPath, PromotePcs
  <2> QED BY <1>2, <1>5, <2>1, AsAriaStays DEF Owned, PathInv
<1>7. Promotable(g) => file[g] = "good" /\ ~Owned(g)
  BY <1>2 DEF Promotable, PathInv, ReadyGood
<1>8. \/ refr' = IdleRefr
      \/ /\ refr'.gid = g /\ refr'.seen = refr.seen
         /\ refr'.pc \in PromotePcs => refr.pc \in PromotePcs \/ (Promotable(g) /\ refr.seen # "complete")
         /\ refr'.pc \in {"promote", "shell", "rowStatus"} =>
               refr.pc \in {"promote", "shell", "rowStatus"} \/ Promotable(g)
         /\ refr'.pc = "rowStatus" => aria'[g] = "gone"
         /\ refr'.pc = "rowEngine" => refr.pc = "rowStatus" /\ UNCHANGED aria
         /\ refr'.pc \in {"reactClose", "reactDone"} =>
               refr.pc \in {"reactClose", "reactDone"} \/ refr.seen = "complete"
  <2>1. CASE RefrCheck
    BY <1>1, <2>1 DEF RefrCheck, RAt, RGoto, PromotePcs
  <2>2. CASE RefrPromote
    BY <1>1, <2>2 DEF RefrPromote, RAt, RGoto, RFallThrough, RDone, PromotePcs
  <2>3. CASE RefrShell
    BY <1>1, <1>2, <2>3 DEF RefrShell, RAt, RGoto, RFallThrough, RDone, PromotePcs,
       PathInv, OwnerInv, TypeOK, WorldOK
  <2>4. CASE RefrRowStatus \/ RefrRowEngine \/ RefrErase \/ RefrReactClose
    BY <1>1, <2>4 DEF RefrRowStatus, RefrRowEngine, RefrErase, RefrReactClose, RAt, RGoto,
       PromotePcs, world
  <2>5. CASE RefrEnqueue \/ RefrReactDone
    BY <2>5 DEF RefrEnqueue, RefrReactDone, RDone
  <2>6. CASE RefrPending \/ RefrSnapshot \/ RefrWrite
    BY <1>1, <2>6 DEF RefrPending, RefrSnapshot, RefrWrite, RAt, RGoto, PromotePcs
  <2>7. CASE RefrReact
    BY <1>1, <2>7 DEF RefrReact, RAt, RGoto, RDone, Holding, PromotePcs
  <2> QED BY <2>1, <2>2, <2>3, <2>4, <2>5, <2>6, <2>7 DEF RefrStep
<1>9. CASE refr' = IdleRefr
  BY <1>9 DEF IdleRefr, RefrPath, PromotePcs
<1>10. CASE refr' # IdleRefr
  <2>1. refr'.gid = g /\ refr'.seen = refr.seen
    BY <1>8, <1>10
  <2>2. refr'.pc \in PromotePcs => refr'.seen # "complete" /\ ~Owned(g)'
    BY <1>5, <1>7, <1>8, <1>10 DEF PathInv, RefrPath
  <2>3. refr'.pc \in {"promote", "shell", "rowStatus"} => file'[g] = "good"
    BY <1>3, <1>7, <1>8, <1>10 DEF PathInv, RefrPath
  <2>4. refr'.pc \in {"rowStatus", "rowEngine"} => aria'[g] = "gone"
    BY <1>8, <1>10 DEF PathInv, RefrPath
  <2>5. refr'.pc \in {"reactClose", "reactDone"} => refr'.seen = "complete"
    BY <1>8, <1>10 DEF PathInv, RefrPath
  <2>7. (Owned(g)' <=> Owned(refr.gid)') /\ (AsAria(g)' <=> AsAria(refr.gid)')
    BY <2>1 DEF Owned, AsAria, OnDisc, OnWork, Adder
  <2> QED BY <1>2, <1>4, <1>6, <2>1, <2>2, <2>3, <2>4, <2>5, <2>7 DEF RefrPath
<1> QED BY <1>9, <1>10

\* Recovery on its way through the rows.
LEMMA RcvPathStep ==
  ASSUME PathInv, Flow, Recovery
  PROVE  RcvPath'
<1> USE DEF Flow
<1>1. rcv \in [pc : RcvPcs, gid : GidOrNone, paused : SUBSET Gids,
               plan : [Gids -> {"idle", "engine", "hash", "replay"}]]
  BY DEF PathInv, OwnerInv, TypeOK, RcvOK
<1>2. run = "recover" /\ UNCHANGED <<phase, call, disc, work, refr>>
  BY DEF Recovery, RcvStep, RcvPick, RcvReplay, RcvHash, RcvShell, RcvRowStatus, RcvClean,
     RcvEngine, RcvResume, RcvRowActive, RcvStart, RcvAt, RcvElse, states
<1>3. \A g \in Gids : phase'[g] = "none"
  BY <1>2 DEF PathInv, RcvPath
<1>4. \A g \in Gids : sess[g] # "open"
  BY <1>2, OneHand DEF PathInv, OwnerInv, RcvAlone
<1>5. \A g \in Gids : aria'[g] = "paused" => aria[g] = "paused"
  BY DEF Recovery, RcvStep, RcvPick, RcvReplay, RcvHash, RcvShell, RcvRowStatus, RcvClean,
     RcvEngine, RcvResume, RcvRowActive, RcvStart, Unpause, Rpc, world, PathInv, OwnerInv,
     TypeOK, WorldOK
<1>6. \A g \in Gids : aria'[g] = "paused" /\ Clean(g) => Clean(g)'
  BY <1>4, CleanStays
<1>7. ASSUME NEW g \in Gids, RcvPick(g) PROVE RcvPath'
  <2>1. /\ rcv'.pc = rcv.plan[g] /\ rcv'.gid = g
        /\ rcv'.plan = [rcv.plan EXCEPT ![g] = "idle"] /\ UNCHANGED <<status, engine, file, aria>>
    BY <1>1, <1>7 DEF RcvPick, rows, world
  <2>2. \A h \in Gids : rcv'.plan[h] = "engine" => rcv.plan[h] = "engine"
    BY <1>1, <2>1
  <2>3. \A h \in Gids : rcv'.plan[h] = "engine" /\ aria'[h] = "paused" => Clean(h)'
    BY <1>5, <1>6, <2>2 DEF PathInv, RcvPath
  <2>4. rcv'.pc = "engine" /\ aria'[g] = "paused" => Clean(g)'
    BY <1>5, <1>6, <2>1 DEF PathInv, RcvPath
  <2>5. rcv'.pc \in {"idle", "engine", "hash", "replay"}
    BY <1>1, <2>1
  <2>6. rcv'.pc = "engine" /\ aria'[rcv'.gid] = "paused" => file'[rcv'.gid] \in {"absent", "aria"}
    BY <2>1, <2>4 DEF Clean
  <2> QED BY <1>3, <2>3, <2>5, <2>6 DEF RcvPath, Clean
<1>8. ASSUME RcvStep PROVE RcvPath'
  <2>1. CASE RcvStart
    <3>1. rcv' = rcv /\ rcv.pc = "idle"
      BY <2>1 DEF RcvStart, RcvAt
    <3> QED BY <1>3, <1>5, <1>6, <3>1 DEF PathInv, RcvPath
  <2>2. CASE ~RcvStart
    <3>1. rcv.pc # "idle" /\ rcv.gid \in Gids
      <4>1. rcv.pc # "idle"
        BY <1>8, <2>2 DEF RcvStep, RcvReplay, RcvHash, RcvShell, RcvRowStatus, RcvClean,
           RcvEngine, RcvResume, RcvRowActive, RcvAt
      <4> QED BY <4>1 DEF PathInv, OwnerInv, TypeOK, RcvOK
    <3> PICK g \in Gids : g = rcv.gid
      BY <3>1
    <3>2. ~Owned(g) /\ status[g] # "new"
      BY <3>1 DEF PathInv, OwnerInv, RcvAlone
    <3>3. \/ rcv' = [rcv EXCEPT !.pc = "idle"]
          \/ \E pc \in RcvPcs :
                /\ rcv' = [rcv EXCEPT !.pc = pc]
                /\ pc = "engine" => file'[g] = "absent"
                /\ pc = "resume" => rcv.pc = "engine" /\ SetEngine(g, "Aria2")
                                    /\ UNCHANGED <<status, file, aria>>
                /\ pc = "shell" => file[g] = "good" /\ UNCHANGED file
                /\ pc = "rowStatus" => rcv.pc = "shell" /\ UNCHANGED <<file, status>>
      <4>1. CASE RcvReplay \/ RcvRowActive
        BY <4>1 DEF RcvReplay, RcvRowActive, RcvNext
      <4>2. CASE RcvHash
        BY <4>2 DEF RcvHash, RcvGoto, RcvPcs, world
      <4>3. CASE RcvShell
        BY <4>3 DEF RcvShell, RcvAt, RcvGoto, RcvNext, RcvPcs, rows
      <4>4. CASE RcvRowStatus
        BY <4>4 DEF RcvRowStatus, RcvGoto, RcvPcs
      <4>5. CASE RcvClean
        <5>1. PICK ok \in BOOLEAN : RemoveFile(rcv.gid, ok) /\ IF ok THEN RcvGoto("engine") ELSE RcvNext
          BY <4>5 DEF RcvClean
        <5>2. ok => file'[g] = "absent"
          BY <5>1 DEF RemoveFile, PathInv, OwnerInv, TypeOK, WorldOK
        <5> QED BY <5>1, <5>2 DEF RcvGoto, RcvNext, RcvPcs
      <4>6. CASE RcvEngine
        BY <4>6 DEF RcvEngine, RcvAt, RcvGoto, RcvPcs, world
      <4>7. CASE RcvResume
        BY <4>7 DEF RcvResume, RcvGoto, RcvPcs
      <4> QED BY <1>8, <2>2, <4>1, <4>2, <4>3, <4>4, <4>5, <4>6, <4>7 DEF RcvStep
    <3>4. rcv'.plan = rcv.plan /\ rcv'.gid = g
      BY <1>1, <3>3
    <3>5. \A h \in Gids : rcv'.plan[h] = "engine" /\ aria'[h] = "paused" => Clean(h)'
      BY <1>5, <1>6, <3>4 DEF PathInv, RcvPath
    <3>6. CASE rcv' = [rcv EXCEPT !.pc = "idle"]
      <4>1. rcv'.pc = "idle"
        BY <1>1, <3>6
      <4> QED BY <1>3, <3>5, <4>1 DEF RcvPath
    <3>7. ASSUME NEW pc \in RcvPcs, rcv' = [rcv EXCEPT !.pc = pc],
                 pc = "engine" => file'[g] = "absent",
                 pc = "resume" => rcv.pc = "engine" /\ SetEngine(g, "Aria2")
                                  /\ UNCHANGED <<status, file, aria>>,
                 pc = "shell" => file[g] = "good" /\ UNCHANGED file,
                 pc = "rowStatus" => rcv.pc = "shell" /\ UNCHANGED <<file, status>>
          PROVE  RcvPath'
      <4>1. rcv'.pc = pc
        BY <1>1, <3>7
      <4>2. pc \in {"engine", "resume"} /\ aria'[g] = "paused" => file'[g] \in {"absent", "aria"}
        BY <3>7 DEF PathInv, RcvPath, Clean
      <4>3. pc = "resume" => engine'[g] = "Aria2" \/ status'[g] = "deleted"
        BY <3>7 DEF SetEngine, PathInv, OwnerInv, TypeOK, RowsOK
      <4>4. pc \in {"shell", "rowStatus"} => file'[g] = "good" \/ status'[g] = "deleted" \/ DelRow(g)
        BY <3>7 DEF PathInv, RcvPath
      <4>5. DelRow(g) => \E c \in Callers : call'[c].pc = "delRow" /\ call'[c].gid = g
        BY <1>2 DEF DelRow
      <4> QED BY <1>3, <3>4, <3>5, <4>1, <4>2, <4>3, <4>4, <4>5 DEF RcvPath, Clean, AsAria, DelRow
    <3> QED BY <3>3, <3>6, <3>7
  <2> QED BY <2>1, <2>2
<1> QED BY <1>7, <1>8 DEF Recovery

\* The end of the process leaves rows, files and aria2's tasks, and no hands.
LEMMA PathEnds ==
  ASSUME PathInv, OwnerInv', ProcessEnds
  PROVE  PathInv'
<1>1. UNCHANGED <<status, engine, file, aria>> /\ run' = "down"
  BY DEF ProcessEnds, rows
<1>2. /\ \A c \in Callers : call'[c].pc = "idle"
      /\ \A w \in Workers : work'[w].pc = "idle"
      /\ disc'.pc = "idle" /\ refr'.pc = "idle" /\ rcv'.pc = "idle"
      /\ \A g \in Gids : rcv'.plan[g] = "idle" /\ phase'[g] = "none"
                         /\ djobs'[g] = 0 /\ hjobs'[g] = 0
  BY DEF ProcessEnds, IdleCall, IdleWork, IdleDisc, IdleRefr, IdleRcv
<1>3. \A g \in Gids : ~Owned(g)' /\ ~Early(g)'
  BY <1>2 DEF Owned, Early, OnDisc, OnWork, Adder, AddPcs
<1>4. AriaPath'
  BY <1>1, <1>3 DEF PathInv, AriaPath, Clean, AsAria, Parked
<1>5. EarlyPath'
  BY <1>1, <1>2, <1>3 DEF PathInv, EarlyPath, Clean
<1>6. WorkPath' /\ ReadyGood' /\ Deleting'
  BY <1>2 DEF WorkPath, WorkerPath, LatePcs, ReadyGood, Deleting, DelPcs
<1>7. RefrPath' /\ RcvPath'
  BY <1>2 DEF RefrPath, PromotePcs, RcvPath
<1> QED BY <1>4, <1>5, <1>6, <1>7 DEF PathInv

\* A new process finds every task paused, or running on a path that is its own.
LEMMA PathRestart ==
  ASSUME PathInv, OwnerInv', Restart
  PROVE  PathInv'
<1>1. /\ UNCHANGED <<status, engine, file, phase, suppressed, cancel, disc, work, call, refr, djobs, hjobs>>
      /\ run = "down" /\ run' = "recover"
  BY DEF Restart, rows, states, sets, jobs
<1>2. /\ aria' = [g \in Gids |-> CASE aria[g] = "complete" -> "gone"
                                   [] aria[g] = "error" -> "active"
                                   [] OTHER -> aria[g]]
      /\ rcv'.pc = "idle" /\ rcv'.plan = [g \in Gids |-> RcvPlan(g)]
  BY DEF Restart, IdleRcv
<1>3. aria \in [Gids -> {"gone", "paused", "active", "complete", "error"}]
  BY DEF PathInv, OwnerInv, TypeOK, WorldOK
<1>4. \A g \in Gids : /\ aria'[g] \in {"active", "error"} => aria[g] \in {"active", "error"}
                      /\ aria'[g] = "paused" => aria[g] = "paused"
                      /\ Parked(g) => Parked(g)'
                      /\ aria[g] = "gone" => aria'[g] = "gone"
                      /\ ~Parked(g)' => ~Parked(g)
  BY <1>2, <1>3 DEF Parked
<1>5. \A g \in Gids : /\ Owned(g)' <=> Owned(g)
                      /\ Early(g)' <=> Early(g)
                      /\ AsAria(g)' <=> AsAria(g)
                      /\ Clean(g)' <=> Clean(g)
  BY <1>1 DEF Owned, Early, OnDisc, OnWork, Adder, AsAria, Clean
<1>6. AriaPath'
  BY <1>1, <1>4, <1>5 DEF PathInv, AriaPath
<1>7. disc'.pc = "resume" => AsAria(disc.gid)'
  BY <1>1 DEF PathInv, EarlyPath, AsAria
<1>8. EarlyPath'
  BY <1>1, <1>4, <1>5, <1>7 DEF PathInv, EarlyPath
<1>9. WorkPath'
  BY <1>1 DEF PathInv, WorkPath, WorkerPath, LatePcs, Clean, AsAria
<1>10. ReadyGood' /\ Deleting'
  BY <1>1, <1>5 DEF PathInv, ReadyGood, Deleting
<1>11. RefrPath'
  <2>1. refr.pc = "idle"
    BY <1>1 DEF PathInv, RefrPath
  <2> QED BY <1>1, <2>1 DEF RefrPath, PromotePcs
<1>12. RcvPath'
  <2>1. \A g \in Gids : rcv'.plan[g] = "engine" => engine[g] = "Probe" /\ status[g] = "active"
    BY <1>2 DEF RcvPlan
  <2>2. \A g \in Gids : rcv'.plan[g] = "engine" /\ aria'[g] = "paused" => Clean(g)'
    BY <1>4, <1>5, <2>1 DEF PathInv, EarlyPath
  <2> QED BY <1>1, <1>2, <2>2 DEF PathInv, RcvPath
<1> QED BY <1>6, <1>8, <1>9, <1>10, <1>11, <1>12 DEF PathInv

\* The invariant holds at the start.
LEMMA PathInit == Init => PathInv
<1> SUFFICES ASSUME Init PROVE PathInv
  OBVIOUS
<1>1. OwnerInv
  BY OwnerInit
<1>2. /\ \A c \in Callers : call[c].pc = "idle"
      /\ \A w \in Workers : work[w].pc = "idle"
      /\ disc.pc = "idle" /\ refr.pc = "idle" /\ rcv.pc = "idle" /\ run = "up"
      /\ \A g \in Gids : /\ rcv.plan[g] = "idle" /\ phase[g] = "none" /\ djobs[g] = 0 /\ hjobs[g] = 0
                         /\ file[g] = "absent" /\ aria[g] = "gone" /\ engine[g] = "Aria2"
  BY DEF Init, IdleCall, IdleWork, IdleDisc, IdleRefr, IdleRcv
<1>3. AriaPath /\ EarlyPath /\ WorkPath
  BY <1>2 DEF AriaPath, EarlyPath, WorkPath, WorkerPath, LatePcs, Parked, Clean
<1>4. ReadyGood /\ Deleting /\ RefrPath /\ RcvPath
  BY <1>2 DEF ReadyGood, Deleting, DelPcs, RefrPath, PromotePcs, RcvPath
<1> QED BY <1>1, <1>3, <1>4 DEF PathInv

-----------------------------------------------------------------------------
(* The step of the program, and the two properties. *)

\* A step of the running program keeps the invariant.
LEMMA PathAlive ==
  ASSUME PathInv, OwnerInv', "Resume" \notin Ops, Alive
  PROVE  PathInv'
<1>0. OwnerInv
  BY DEF PathInv
<1>1. Flow
  BY <1>0, RowFlowOK, FileFlowOK, AriaFlowOK, EngineFlowOK, TokenFlowOK, PhaseFlowOK, CallFlowOK
  DEF Flow
<1>2. ASSUME ~Discovery PROVE UNCHANGED disc
  <2>1. CASE Engines \/ Refresh \/ Recovery \/ Shutting \/ \E w \in Workers : Worker(w)
    BY <2>1, EngineFrame, RefrFrame, RcvFrame, ShutFrame, WorkFrame
  <2>2. CASE \E c \in Callers : CallBegin(c) \/ CallStep(c)
    BY <1>0, <2>2, NoResume, CallFrame
  <2> QED BY <1>2, <2>1, <2>2 DEF Alive
<1>3. disc'.pc = "resume" => UNCHANGED disc \/ AsAria(disc.gid)'
  <2>1. disc \in [pc : DiscPcs, gid : GidOrNone, resume : BOOLEAN]
    BY <1>0 DEF OwnerInv, TypeOK, DiscOK
  <2>2. CASE DiscHandBack
    <3>1. PICK g \in Gids : g = disc.gid
      BY <1>0, <2>2 DEF DiscHandBack, OwnerInv, TypeOK, DiscOK
    <3>2. disc'.pc = "resume" => disc'.gid = g
      BY <2>1, <2>2, <3>1 DEF DiscHandBack, IdleDisc
    <3>3. engine'[g] = "Aria2" \/ status'[g] = "deleted"
      BY <1>0, <2>2, <3>1 DEF DiscHandBack, SetEngine, OwnerInv, TypeOK, RowsOK
    <3> QED BY <3>2, <3>3 DEF AsAria
  <2>3. CASE DiscLookup \/ DiscQueue \/ DiscResume
    BY <2>1, <2>3 DEF DiscLookup, DiscQueue, DiscResume, DGoto, IdleDisc
  <2>5. ASSUME NEW g \in Gids, DiscPop(g) PROVE disc'.pc # "resume"
    BY <2>1, <2>5 DEF DiscPop
  <2>4. CASE DiscDecide
    BY <2>1, <2>4 DEF DiscDecide
  <2> QED BY <1>2, <2>2, <2>3, <2>4, <2>5 DEF Discovery, DiscStep
<1>4. UNCHANGED work \/ \E w \in Workers : Worker(w)
  <2>1. CASE Engines \/ Discovery \/ Refresh \/ Recovery \/ Shutting
    BY <2>1, EngineFrame, DiscFrame, RefrFrame, RcvFrame, ShutFrame
  <2>2. CASE \E c \in Callers : CallBegin(c) \/ CallStep(c)
    BY <1>0, <2>2, NoResume, CallFrame
  <2> QED BY <2>1, <2>2 DEF Alive
<1>5. run' = run \/ run' \notin {"recover", "down"}
  <2>1. CASE Engines \/ Discovery \/ Refresh \/ \E w \in Workers : Worker(w)
    BY <2>1, EngineFrame, DiscFrame, RefrFrame, WorkFrame
  <2>2. CASE \E c \in Callers : CallBegin(c) \/ CallStep(c)
    BY <1>0, <2>2, NoResume, CallFrame
  <2>3. CASE Recovery
    BY <2>3 DEF Recovery, RcvStep, RcvPick, RcvReplay, RcvHash, RcvShell, RcvRowStatus,
       RcvClean, RcvEngine, RcvResume, RcvRowActive, RcvStart, RcvElse, control
  <2>4. CASE Shutting
    BY <2>4 DEF Shutting, ShutBegin, ShutDiscovery, ShutWorkers
  <2> QED BY <2>1, <2>2, <2>3, <2>4 DEF Alive
<1>6. AriaPath' /\ EarlyPath' /\ WorkPath' /\ ReadyGood' /\ Deleting'
  BY <1>1, <1>3, <1>4, AriaPathNext, EarlyPathNext, WorkPathNext, ReadyGoodNext, DeletingNext
<1>7. RefrPath'
  <2>1. CASE Refresh
    BY <1>1, <2>1, RefrPathBegin, RefrPathStep DEF Refresh
  <2>2. CASE ~Refresh
    <3>1. UNCHANGED refr
      <4>1. CASE Engines \/ Discovery \/ Recovery \/ Shutting \/ \E w \in Workers : Worker(w)
        BY <4>1, EngineFrame, DiscKeeps, RcvFrame, ShutFrame, WorkKeeps
      <4>2. CASE \E c \in Callers : CallBegin(c) \/ CallStep(c)
        BY <1>0, <4>2, NoResume, CallFrame
      <4> QED BY <2>2, <4>1, <4>2 DEF Alive
    <3> QED BY <1>1, <1>5, <3>1, RefrPathStill
  <2> QED BY <2>1, <2>2
<1>8. RcvPath'
  <2>1. CASE Recovery
    BY <1>1, <2>1, RcvPathStep
  <2>2. CASE ~Recovery
    <3>1. UNCHANGED rcv
      <4>1. CASE Engines \/ Discovery \/ Refresh \/ Shutting \/ \E w \in Workers : Worker(w)
        BY <4>1, EngineFrame, DiscFrame, RefrFrame, ShutFrame, WorkFrame
      <4>2. CASE \E c \in Callers : CallBegin(c) \/ CallStep(c)
        BY <1>0, <4>2, NoResume, CallFrame
      <4> QED BY <2>2, <4>1, <4>2 DEF Alive
    <3> QED BY <1>1, <1>5, <3>1, RcvPathStill
  <2> QED BY <2>1, <2>2
<1> QED BY <1>6, <1>7, <1>8 DEF PathInv

\* The invariant is inductive as long as nobody resumes.
LEMMA PathNext ==
  ASSUME "Resume" \notin Ops
  PROVE  PathInv /\ [Next]_vars => PathInv'
<1> SUFFICES ASSUME PathInv, [Next]_vars PROVE PathInv'
  OBVIOUS
<1>1. OwnerInv'
  BY OwnerNext DEF PathInv
<1>2. CASE Alive
  BY <1>1, <1>2, PathAlive
<1>3. CASE ShutDown \/ Crash
  BY <1>1, <1>3, PathEnds DEF ShutDown, Crash
<1>4. CASE Restart
  BY <1>1, <1>4, PathRestart
<1>5. CASE UNCHANGED vars
  <2> USE <1>5 DEF vars, rows, world, states, sets, jobs, control, PathInv
  <2>1. AriaPath' /\ EarlyPath'
    BY DEF AriaPath, EarlyPath, Owned, Early, OnDisc, OnWork, Adder, Parked, Clean, AsAria
  <2>2. WorkPath' /\ ReadyGood' /\ Deleting'
    BY DEF WorkPath, WorkerPath, ReadyGood, Deleting, Owned, OnDisc, OnWork, Adder, Clean, AsAria
  <2>3. RefrPath' /\ RcvPath'
    BY DEF RefrPath, RcvPath, DelRow, Owned, OnDisc, OnWork, Adder, Clean, AsAria
  <2> QED BY <1>1, <2>1, <2>2, <2>3
<1> QED BY <1>2, <1>3, <1>4, <1>5 DEF Next, Lifecycle, Alive, Shutting

\* Without a Resume, aria2 runs only on a path that is free or holds its own bytes:
\* what a cancelled, failed or crashed libtorrent download left is gone first.
THEOREM AriaOwnsPathHolds ==
  ASSUME "Resume" \notin Ops
  PROVE  Spec => []AriaOwnsPath
<1>1. Init => PathInv
  BY PathInit
<1>2. PathInv /\ [Next]_vars => PathInv'
  BY PathNext
<1>3. PathInv => AriaOwnsPath
  BY DEF PathInv, AriaPath, Clean, AriaOwnsPath
<1> QED BY <1>1, <1>2, <1>3, PTL DEF Spec

\* Who completes a row: the refresh thread, on a payload it found verified or for
\* aria2, and recovery, on a payload it has hashed.
LEMMA Completes ==
  ASSUME PathInv, "Resume" \notin Ops, Next, NEW g \in Gids,
         status[g] # "complete", status'[g] = "complete", engine[g] = "Hybrid"
  PROVE  file[g] = "good" \/ DelRow(g)
<1>0. OwnerInv /\ status \in [Gids -> {"new", "active", "complete", "failed", "deleted"}]
  BY DEF PathInv, OwnerInv, TypeOK, RowsOK
<1>1. ~UNCHANGED status
  OBVIOUS
<1>2. ASSUME NEW h \in Gids, NEW s \in {"active", "failed", "deleted"},
             SetStatus(h, s) \/ status' = [status EXCEPT ![h] = s]
      PROVE  FALSE
  BY <1>0, <1>2 DEF SetStatus
<1>3. ASSUME NEW h \in Gids, SetStatus(h, "complete") PROVE h = g /\ status[g] # "deleted"
  BY <1>0, <1>3 DEF SetStatus
<1>4. CASE Engines \/ Discovery \/ Lifecycle \/ \E w \in Workers : Worker(w)
  <2>1. CASE Lifecycle
    BY <1>1, <2>1 DEF Lifecycle, ShutBegin, ShutDiscovery, ShutWorkers, ShutElse, ShutDown, Crash,
       ProcessEnds, Restart, rows
  <2>2. CASE Engines \/ Discovery \/ \E w \in Workers : Worker(w)
    BY <1>1, <2>2, EngineFrame, DiscFrame, WorkFrame DEF rows
  <2> QED BY <1>4, <2>1, <2>2
<1>5. ASSUME NEW c \in Callers, CallBegin(c) \/ CallStep(c) PROVE FALSE
  <2>1. Commanding(c)
    BY <1>0, <1>5, NoResume
  <2>2. CASE \E h \in Gids : AddShell(c, h) \/ PauseRecord(c, h) \/ DeleteCancel(c, h)
    BY <1>1, <2>2 DEF AddShell, PauseRecord, DeleteCancel, rows
  <2>3. CASE AddPauseStep(c) \/ DeleteStep(c)
    <3>1. Gid(c) \in Gids
      BY <1>0, <2>3, CallHas DEF OwnerInv
    <3>2. UNCHANGED status \/ SetStatus(Gid(c), "active") \/ SetStatus(Gid(c), "deleted")
      BY <2>3 DEF AddPauseStep, AddRow, AddPolicy, AddEngine, AddProbe, QueueDiscovery, PauseMark,
         PauseSession, PauseCancel, PauseClose, PauseAria, DeleteStep, DeleteClose, DeleteLock,
         DeleteShell, DeleteFile, DeleteRow, rows
    <3> QED BY <1>1, <1>2, <3>1, <3>2
  <2> QED BY <2>1, <2>2, <2>3 DEF Commanding
<1>6. CASE Refresh
  <2>1. ASSUME NEW h \in Gids, RefrBegin(h) PROVE FALSE
    BY <1>1, <1>2, <2>1 DEF RefrBegin
  <2>2. CASE RefrStep
    <3>1. refr.gid \in Gids /\ refr.pc # "idle"
      BY <1>0, <2>2, RefrHas DEF OwnerInv
    <3>2. RefrPath
      BY DEF PathInv
    <3>3. CASE RefrRowStatus
      BY <1>3, <3>1, <3>2, <3>3 DEF RefrRowStatus, RAt, RefrPath
    <3>4. CASE RefrReactDone
      BY <1>3, <3>1, <3>2, <3>4 DEF RefrReactDone, RAt, RefrPath, AsAria
    <3>5. CASE RefrWrite
      <4>1. CASE refr.seen = "complete"
        <5>1. SetStatus(refr.gid, "active") \/ SetStatus(refr.gid, "complete")
          BY <3>5, <4>1 DEF RefrWrite, RowOf, Holding
        <5> QED BY <1>2, <1>3, <3>1, <3>2, <4>1, <5>1 DEF RefrPath, AsAria
      <4>2. CASE refr.seen # "complete"
        <5>1. \/ UNCHANGED status
              \/ SetStatus(refr.gid, "active") \/ SetStatus(refr.gid, "failed")
          BY <3>5, <4>2 DEF RefrWrite, RowOf
        <5> QED BY <1>2, <3>1, <5>1
      <4> QED BY <4>1, <4>2
    <3>6. CASE RefrReact
      BY <1>1, <1>2, <3>1, <3>6 DEF RefrReact
    <3>7. CASE ~RefrRowStatus /\ ~RefrReactDone /\ ~RefrWrite /\ ~RefrReact
      BY <1>1, <2>2, <3>7 DEF RefrStep, RefrCheck, RefrPromote, RefrShell, RefrRowEngine,
         RefrErase, RefrEnqueue, RefrPending, RefrSnapshot, RefrReactClose, rows
    <3> QED BY <3>3, <3>4, <3>5, <3>6, <3>7
  <2> QED BY <1>6, <2>1, <2>2 DEF Refresh
<1>7. CASE Recovery
  <2>1. CASE RcvRowStatus
    <3>1. rcv.pc = "rowStatus" /\ rcv.gid \in Gids
      BY <1>0, <2>1 DEF RcvRowStatus, RcvAt, OwnerInv, TypeOK, RcvOK
    <3> QED BY <1>3, <2>1, <3>1 DEF RcvRowStatus, PathInv, RcvPath
  <2>2. CASE RcvRowActive
    <3>1. rcv.gid \in Gids
      BY <1>0, <2>2 DEF RcvRowActive, RcvAt, OwnerInv, TypeOK, RcvOK
    <3> QED BY <1>2, <2>2, <3>1 DEF RcvRowActive
  <2>3. CASE ~RcvRowStatus /\ ~RcvRowActive
    BY <1>1, <1>7, <2>3 DEF Recovery, RcvStep, RcvPick, RcvReplay, RcvHash, RcvShell, RcvClean,
       RcvEngine, RcvResume, RcvStart, rows
  <2> QED BY <2>1, <2>2, <2>3
<1> QED BY <1>4, <1>5, <1>6, <1>7 DEF Next

\* Without a Resume, a canonical row is completed only on a payload that matches the
\* caller's SHA-256, or under a Delete that is about to drop the row.
THEOREM VerifiedCompletionHolds ==
  ASSUME "Resume" \notin Ops
  PROVE  Spec => VerifiedCompletion
<1>1. Init => PathInv
  BY PathInit
<1>2. PathInv /\ [Next]_vars => PathInv'
  BY PathNext
<1>3. PathInv /\ [Next]_vars
        => [\A g \in Gids :
               /\ status[g] # "complete" /\ status'[g] = "complete" /\ engine[g] = "Hybrid"
               => file[g] = "good" \/ \E c \in Callers : Gid(c) = g /\ At(c, "delRow")]_vars
  <2> SUFFICES ASSUME PathInv, Next, NEW g \in Gids,
                      status[g] # "complete", status'[g] = "complete", engine[g] = "Hybrid"
               PROVE  file[g] = "good" \/ \E c \in Callers : Gid(c) = g /\ At(c, "delRow")
    OBVIOUS
  <2> QED BY Completes DEF DelRow, Gid, At
<1> QED BY <1>1, <1>2, <1>3, PTL DEF Spec, VerifiedCompletion
=============================================================================
