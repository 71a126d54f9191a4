---------------------------- MODULE HttpHybridProofs ----------------------------
(* Type correctness of HttpHybrid and CompleteShellGone, for every value of the *)
(* constants, and NotStranded for one command after the other.  One lemma per   *)
(* actor, one step per action, under it one step per part of the invariant that *)
(* the action disturbs.                                                         *)
EXTENDS HttpHybrid, TLAPS

-----------------------------------------------------------------------------
(* Type correctness: Frames answers for the parts an action leaves alone. *)


\* What leaves the variables of a part alone preserves the part.
LEMMA Frames ==
  ASSUME TypeOK
  PROVE  /\ UNCHANGED rows => RowsOK'
         /\ UNCHANGED world => WorldOK'
         /\ UNCHANGED <<states, sets, jobs, last>> => StatesOK'
         /\ UNCHANGED disc => DiscOK'
         /\ UNCHANGED work => WorkOK'
         /\ UNCHANGED call => CallOK'
         /\ UNCHANGED refr => RefrOK'
         /\ UNCHANGED rcv => RcvOK'
         /\ UNCHANGED <<run, ops, restarts>> => ControlOK'
<1>1. UNCHANGED rows => RowsOK'
  BY DEF TypeOK, RowsOK, rows
<1>2. UNCHANGED world => WorldOK'
  BY DEF TypeOK, WorldOK, world
<1>3. UNCHANGED <<states, sets, jobs, last>> => StatesOK'
  BY DEF TypeOK, StatesOK, states, sets, jobs
<1>4. (UNCHANGED disc => DiscOK') /\ (UNCHANGED work => WorkOK')
  BY DEF TypeOK, DiscOK, WorkOK
<1>5. (UNCHANGED call => CallOK') /\ (UNCHANGED refr => RefrOK')
  BY DEF TypeOK, CallOK, RefrOK
<1>6. (UNCHANGED rcv => RcvOK') /\ (UNCHANGED <<run, ops, restarts>> => ControlOK')
  BY DEF TypeOK, RcvOK, ControlOK
<1> QED BY <1>1, <1>2, <1>3, <1>4, <1>5, <1>6

\* A caller that is not idle works on a download.
LEMMA CallGid == ASSUME TypeOK, NEW c \in Callers, ~Idle(call[c]) PROVE Gid(c) \in Gids
BY DEF TypeOK, CallOK, Gid, Idle

\* A caller that moves to another of its steps stays well typed,
LEMMA GotoOK ==
  ASSUME TypeOK, NEW c \in Callers, ~Idle(call[c]), NEW pc \in CallPcs, Goto(c, pc)
  PROVE  CallOK'
BY DEF TypeOK, CallOK, Goto, Idle

\* and so does one that returns.
LEMMA DoneOK == ASSUME TypeOK, NEW c \in Callers, Done(c) PROVE CallOK'
BY DEF TypeOK, CallOK, Done, IdleCall, CallPcs, GidOrNone

\* A worker that is not idle works on a download.
LEMMA WorkGid == ASSUME TypeOK, NEW w \in Workers, ~Idle(work[w]) PROVE WGid(w) \in Gids
BY DEF TypeOK, WorkOK, WGid, Idle

\* A worker that moves to another of its steps stays well typed,
LEMMA WGotoOK ==
  ASSUME TypeOK, NEW w \in Workers, ~Idle(work[w]), NEW pc \in WorkPcs, WGoto(w, pc)
  PROVE  WorkOK'
BY DEF TypeOK, WorkOK, WGoto, Idle

\* and so does one that is done.
LEMMA WDoneOK == ASSUME TypeOK, NEW w \in Workers, WDone(w) PROVE WorkOK'
BY DEF TypeOK, WorkOK, WDone, IdleWork, WorkPcs, GidOrNone

\* So does the refresh thread when it moves,
LEMMA RGotoOK ==
  ASSUME TypeOK, ~Idle(refr), NEW pc \in RefrPcs, RGoto(pc)
  PROVE  RefrOK'
BY DEF TypeOK, RefrOK, RGoto, Idle

\* and when its pass over a task is done.
LEMMA RDoneOK == ASSUME TypeOK, RDone PROVE RefrOK'
BY DEF TypeOK, RefrOK, RDone, IdleRefr, RefrPcs, GidOrNone

\* A worker that takes a job stays well typed: it works on the job's download.
LEMMA WorkPopOK ==
  ASSUME TypeOK, NEW w \in Workers, NEW g \in Gids, WorkPop(w, g)
  PROVE  WorkOK'
<1>1. CASE UNCHANGED work
  BY <1>1 DEF TypeOK, WorkOK
<1>2. CASE work' = [work EXCEPT ![w] = [pc |-> "release", gid |-> g, ok |-> FALSE]]
  BY <1>2 DEF WorkPcs, GidOrNone, TypeOK, WorkOK
<1> QED BY <1>1, <1>2 DEF WorkPop

\* Recovery stays well typed when it turns to a record of its plan.
LEMMA RcvPickOK ==
  ASSUME TypeOK, NEW g \in Gids, RcvPick(g)
  PROVE  RcvOK'
<1>1. rcv.plan[g] \in RcvPcs
  BY DEF TypeOK, RcvOK, RcvPcs
<1>2. [rcv.plan EXCEPT ![g] = "idle"] \in [Gids -> {"idle", "engine", "hash", "replay"}]
  BY DEF TypeOK, RcvOK
<1>3. rcv' = [rcv EXCEPT !.pc = rcv.plan[g], !.gid = g,
                         !.plan = [rcv.plan EXCEPT ![g] = "idle"]]
  BY DEF RcvPick, TypeOK, RcvOK
<1> QED BY <1>1, <1>2, <1>3 DEF GidOrNone, TypeOK, RcvOK

\* The discovery thread stays well typed whatever the directory answers.
LEMMA DiscLookupOK == ASSUME TypeOK, DiscLookup PROVE DiscOK'
<1>1. CASE disc' = IdleDisc
  BY <1>1 DEF IdleDisc, DiscPcs, GidOrNone, TypeOK, DiscOK
<1>2. disc \in [pc : DiscPcs, gid : GidOrNone, resume : BOOLEAN] /\ disc.gid \in Gids
  BY DEF DiscLookup, TypeOK, DiscOK
<1>3. CASE disc' = [disc EXCEPT !.pc = "queue"]
  BY <1>2, <1>3 DEF DiscPcs, DiscOK
<1>4. CASE disc' = [disc EXCEPT !.pc = "decide"]
  BY <1>2, <1>4 DEF DiscPcs, DiscOK
<1> QED BY <1>1, <1>3, <1>4 DEF DiscLookup, DGoto

\* The engines only touch the world.
LEMMA TypeEngines ==
  ASSUME TypeOK, Engines
  PROVE  TypeOK'
<1>1. ASSUME NEW g \in Gids, AriaOpen(g) PROVE TypeOK'
  <2>1. WorldOK'
    BY <1>1 DEF AriaOpen, TypeOK, WorldOK
  <2> QED BY <1>1, <2>1, Frames DEF AriaOpen, OnlyWorld, control, TypeOK
<1>2. ASSUME NEW g \in Gids, AriaReceive(g) PROVE TypeOK'
  <2>1. WorldOK'
    BY <1>2 DEF AriaReceive, TypeOK, WorldOK
  <2> QED BY <1>2, <2>1, Frames DEF AriaReceive, OnlyWorld, control, TypeOK
<1>3. ASSUME NEW g \in Gids, AriaFinish(g) PROVE TypeOK'
  <2>1. WorldOK'
    BY <1>3 DEF AriaFinish, TypeOK, WorldOK
  <2> QED BY <1>3, <2>1, Frames DEF AriaFinish, OnlyWorld, control, TypeOK
<1>4. ASSUME NEW g \in Gids, LtWrite(g) PROVE TypeOK'
  <2>1. WorldOK'
    BY <1>4 DEF LtWrite, TypeOK, WorldOK
  <2> QED BY <1>4, <2>1, Frames DEF LtWrite, OnlyWorld, control, TypeOK
<1>5. ASSUME NEW g \in Gids, LtFinish(g) PROVE TypeOK'
  <2>1. WorldOK'
    BY <1>5 DEF LtFinish, TypeOK, WorldOK
  <2> QED BY <1>5, <2>1, Frames DEF LtFinish, OnlyWorld, control, TypeOK
<1> QED BY <1>1, <1>2, <1>3, <1>4, <1>5 DEF Engines

\* The actions that start a command.
LEMMA TypeBegin ==
  ASSUME TypeOK, NEW c \in Callers, CallBegin(c)
  PROVE  TypeOK'
<1>1. ASSUME NEW g \in Gids, AddShell(c, g) PROVE TypeOK'
  <2>1. CallOK'
    BY <1>1 DEF AddShell, Begin, GidOrNone, CallPcs, AddPcs, TypeOK, CallOK
  <2>2. WorldOK'
    BY <1>1 DEF AddShell, TypeOK, WorldOK
  <2> QED BY <1>1, <2>1, <2>2, Frames DEF AddShell, CallElse, TypeOK
<1>2. ASSUME NEW g \in Gids, PauseRecord(c, g) PROVE TypeOK'
  <2>1. CallOK'
    BY <1>2 DEF PauseRecord, Begin, GidOrNone, CallPcs, AddPcs, TypeOK, CallOK
  <2>2. RowsOK'
    BY <1>2 DEF PauseRecord, Begin, TypeOK, RowsOK
  <2>3. ControlOK'
    BY <1>2 DEF PauseRecord, Begin, CallElse, TypeOK, ControlOK
  <2> QED BY <1>2, <2>1, <2>2, <2>3, Frames DEF PauseRecord, CallElse, TypeOK
<1>3. ASSUME NEW g \in Gids, ResumeRecord(c, g) PROVE TypeOK'
  <2>1. CallOK'
    BY <1>3 DEF ResumeRecord, Begin, GidOrNone, CallPcs, AddPcs, TypeOK, CallOK
  <2>2. RowsOK'
    BY <1>3 DEF ResumeRecord, Begin, TypeOK, RowsOK
  <2>3. ControlOK'
    BY <1>3 DEF ResumeRecord, Begin, CallElse, TypeOK, ControlOK
  <2> QED BY <1>3, <2>1, <2>2, <2>3, Frames DEF ResumeRecord, CallElse, TypeOK
<1>4. ASSUME NEW g \in Gids, DeleteCancel(c, g) PROVE TypeOK'
  <2>1. CallOK'
    BY <1>4 DEF DeleteCancel, Begin, GidOrNone, CallPcs, AddPcs, TypeOK, CallOK
  <2>2. StatesOK'
    BY <1>4 DEF DeleteCancel, CancelSection, CancelErases, EraseState, states, sets, jobs,
       CallElse, TypeOK, StatesOK
  <2>3. ControlOK'
    BY <1>4 DEF DeleteCancel, CallElse, TypeOK, ControlOK
  <2> QED BY <1>4, <2>1, <2>2, <2>3, Frames DEF DeleteCancel, CallElse, TypeOK
<1> QED BY <1>1, <1>2, <1>3, <1>4 DEF CallBegin

\* AddHttpDownload and PauseHttpDownload.
LEMMA TypeAddPause ==
  ASSUME TypeOK, NEW c \in Callers, AddPauseStep(c)
  PROVE  TypeOK'
<1>1. ASSUME AddRow(c) PROVE TypeOK'
  <2>1. ~Idle(call[c]) /\ Gid(c) \in Gids
    BY <1>1, CallGid DEF AddRow, At, Idle
  <2>2. RowsOK'
    BY <1>1, <2>1 DEF AddRow, SetStatus, SetEngine, TypeOK, RowsOK
  <2>3. CallOK'
    BY <1>1, <2>1, GotoOK, DoneOK DEF AddRow, CallPcs, AddPcs
  <2> QED BY <1>1, <2>2, <2>3, Frames DEF AddRow, CallElse, TypeOK
<1>2. ASSUME AddPolicy(c) PROVE TypeOK'
  <2>1. ~Idle(call[c]) /\ Gid(c) \in Gids
    BY <1>2, CallGid DEF AddPolicy, At, Idle
  <2>2. RowsOK'
    BY <1>2, <2>1 DEF AddPolicy, SetStatus, SetEngine, TypeOK, RowsOK
  <2>3. CallOK'
    BY <1>2, <2>1, GotoOK, DoneOK DEF AddPolicy, CallPcs, AddPcs
  <2> QED BY <1>2, <2>2, <2>3, Frames DEF AddPolicy, CallElse, TypeOK
<1>3. ASSUME AddEngine(c) PROVE TypeOK'
  <2>1. ~Idle(call[c]) /\ Gid(c) \in Gids
    BY <1>3, CallGid DEF AddEngine, At, Idle
  <2>2. RowsOK'
    BY <1>3, <2>1 DEF AddEngine, SetStatus, SetEngine, TypeOK, RowsOK
  <2>3. CallOK'
    BY <1>3, <2>1, GotoOK, DoneOK DEF AddEngine, CallPcs, AddPcs
  <2>4. StatesOK'
    BY <1>3, <2>1 DEF AddEngine, states, sets, jobs, TypeOK, StatesOK
  <2> QED BY <1>3, <2>2, <2>3, <2>4, Frames DEF AddEngine, CallElse, TypeOK
<1>4. ASSUME AddProbe(c) PROVE TypeOK'
  <2>1. ~Idle(call[c]) /\ Gid(c) \in Gids
    BY <1>4, CallGid DEF AddProbe, At, Idle
  <2>2. StatesOK'
    BY <1>4, <2>1 DEF AddProbe, CancelSection, CancelErases, EraseState, states, sets, jobs,
       CallElse, TypeOK, StatesOK
  <2>3. CallOK'
    BY <1>4, <2>1, GotoOK, DoneOK DEF AddProbe, CallPcs, AddPcs
  <2> QED BY <1>4, <2>2, <2>3, Frames DEF AddProbe, CallElse, TypeOK
<1>5. ASSUME QueueDiscovery(c) PROVE TypeOK'
  <2>1. ~Idle(call[c]) /\ Gid(c) \in Gids
    BY <1>5, CallGid DEF QueueDiscovery, At, Idle
  <2>2. StatesOK'
    BY <1>5, <2>1 DEF QueueDiscovery, CancelSection, CancelErases, EraseState, states, sets,
       jobs, CallElse, TypeOK, StatesOK
  <2>3. CallOK'
    BY <1>5, <2>1, GotoOK, DoneOK DEF QueueDiscovery, CallPcs, AddPcs
  <2> QED BY <1>5, <2>2, <2>3, Frames DEF QueueDiscovery, CallElse, TypeOK
<1>6. ASSUME PauseMark(c) PROVE TypeOK'
  <2>1. ~Idle(call[c]) /\ Gid(c) \in Gids
    BY <1>6, CallGid DEF PauseMark, At, Idle
  <2>2. StatesOK'
    BY <1>6, <2>1 DEF PauseMark, HybridLive, states, sets, jobs, CallElse, TypeOK, StatesOK
  <2>3. CallOK'
    BY <1>6, <2>1 DEF PauseMark, At, CallPcs, GidOrNone, TypeOK, CallOK
  <2> QED BY <1>6, <2>2, <2>3, Frames DEF PauseMark, CallElse, TypeOK
<1>7. ASSUME PauseSession(c) PROVE TypeOK'
  <2>1. ~Idle(call[c]) /\ Gid(c) \in Gids
    BY <1>7, CallGid DEF PauseSession, At, Idle
  <2>2. WorldOK'
    BY <1>7, <2>1 DEF PauseSession, RemoveFile, RemoveOutcomes, Rpc, Unpause, CloseSession,
       TypeOK, WorldOK
  <2>3. CallOK'
    BY <1>7, <2>1, GotoOK, DoneOK DEF PauseSession, CallPcs, AddPcs
  <2> QED BY <1>7, <2>2, <2>3, Frames DEF PauseSession, CallElse, TypeOK
<1>8. ASSUME PauseCancel(c) PROVE TypeOK'
  <2>1. ~Idle(call[c]) /\ Gid(c) \in Gids
    BY <1>8, CallGid DEF PauseCancel, At, Idle
  <2>2. StatesOK'
    BY <1>8, <2>1 DEF PauseCancel, CancelSection, CancelErases, EraseState, states, sets,
       jobs, CallElse, TypeOK, StatesOK
  <2>3. CallOK'
    BY <1>8, <2>1, GotoOK, DoneOK DEF PauseCancel, CallPcs, AddPcs
  <2> QED BY <1>8, <2>2, <2>3, Frames DEF PauseCancel, CallElse, TypeOK
<1>9. ASSUME PauseClose(c) PROVE TypeOK'
  <2>1. ~Idle(call[c]) /\ Gid(c) \in Gids
    BY <1>9, CallGid DEF PauseClose, At, Idle
  <2>2. WorldOK'
    BY <1>9, <2>1 DEF PauseClose, RemoveFile, RemoveOutcomes, Rpc, Unpause, CloseSession,
       TypeOK, WorldOK
  <2>3. CallOK'
    BY <1>9, <2>1, GotoOK, DoneOK DEF PauseClose, CallPcs, AddPcs
  <2> QED BY <1>9, <2>2, <2>3, Frames DEF PauseClose, CallElse, TypeOK
<1>10. ASSUME PauseAria(c) PROVE TypeOK'
  <2>1. ~Idle(call[c]) /\ Gid(c) \in Gids
    BY <1>10, CallGid DEF PauseAria, At, Idle
  <2>2. WorldOK'
    BY <1>10, <2>1 DEF PauseAria, RemoveFile, RemoveOutcomes, Rpc, Unpause, CloseSession,
       TypeOK, WorldOK
  <2>3. CallOK'
    BY <1>10, <2>1, GotoOK, DoneOK DEF PauseAria, CallPcs, AddPcs
  <2> QED BY <1>10, <2>2, <2>3, Frames DEF PauseAria, CallElse, TypeOK
<1> QED BY <1>1, <1>2, <1>3, <1>4, <1>5, <1>6, <1>7, <1>8, <1>9, <1>10 DEF AddPauseStep

\* ResumeHttpDownload.
LEMMA TypeResume ==
  ASSUME TypeOK, NEW c \in Callers, ResumeStep(c)
  PROVE  TypeOK'
<1>1. ASSUME ResumeFailed(c) PROVE TypeOK'
  <2>1. ~Idle(call[c]) /\ Gid(c) \in Gids
    BY <1>1, CallGid DEF ResumeFailed, At, Idle
  <2>2. WorldOK'
    BY <1>1, <2>1 DEF ResumeFailed, RemoveFile, RemoveOutcomes, Rpc, Unpause, CloseSession,
       TypeOK, WorldOK
  <2>3. StatesOK'
    BY <1>1, <2>1 DEF ResumeFailed, CancelSection, CancelErases, EraseState, states, sets,
       jobs, CallElse, TypeOK, StatesOK
  <2>4. CallOK'
    BY <1>1, <2>1, GotoOK, DoneOK DEF ResumeFailed, CallPcs, AddPcs
  <2> QED BY <1>1, <2>2, <2>3, <2>4, Frames DEF ResumeFailed, CallElse, TypeOK
<1>2. ASSUME ResumeMark(c) PROVE TypeOK'
  <2>1. ~Idle(call[c]) /\ Gid(c) \in Gids
    BY <1>2, CallGid DEF ResumeMark, At, Idle
  <2>2. StatesOK'
    BY <1>2, <2>1 DEF ResumeMark, HybridLive, states, sets, jobs, CallElse, TypeOK, StatesOK
  <2>3. CallOK'
    BY <1>2, <2>1, GotoOK, DoneOK DEF ResumeMark, CallPcs, AddPcs
  <2> QED BY <1>2, <2>2, <2>3, Frames DEF ResumeMark, CallElse, TypeOK
<1>3. ASSUME ResumeSession(c) PROVE TypeOK'
  <2>1. ~Idle(call[c]) /\ Gid(c) \in Gids
    BY <1>3, CallGid DEF ResumeSession, At, Idle
  <2>2. WorldOK'
    BY <1>3, <2>1 DEF ResumeSession, RemoveFile, RemoveOutcomes, Rpc, Unpause, CloseSession,
       TypeOK, WorldOK
  <2>3. CallOK'
    BY <1>3, <2>1, GotoOK, DoneOK DEF ResumeSession, CallPcs, AddPcs
  <2> QED BY <1>3, <2>2, <2>3, Frames DEF ResumeSession, CallElse, TypeOK
<1>4. ASSUME TryCheck(c) PROVE TypeOK'
  <2>1. ~Idle(call[c]) /\ Gid(c) \in Gids
    BY <1>4, CallGid DEF TryCheck, At, Idle
  <2>2. CallOK'
    BY <1>4, <2>1, GotoOK, DoneOK DEF TryCheck, CallPcs, AddPcs
  <2> QED BY <1>4, <2>2, Frames DEF TryCheck, CallElse, TypeOK
<1>5. ASSUME TryFile(c) PROVE TypeOK'
  <2>1. ~Idle(call[c]) /\ Gid(c) \in Gids
    BY <1>5, CallGid DEF TryFile, At, Idle
  <2>2. WorldOK'
    BY <1>5, <2>1 DEF TryFile, RemoveFile, RemoveOutcomes, Rpc, Unpause, CloseSession, TypeOK,
       WorldOK
  <2>3. CallOK'
    BY <1>5, <2>1, GotoOK, DoneOK DEF TryFile, CallPcs, AddPcs
  <2> QED BY <1>5, <2>2, <2>3, Frames DEF TryFile, CallElse, TypeOK
<1>6. ASSUME TryProbe(c) PROVE TypeOK'
  <2>1. ~Idle(call[c]) /\ Gid(c) \in Gids
    BY <1>6, CallGid DEF TryProbe, At, Idle
  <2>2. StatesOK'
    BY <1>6, <2>1 DEF TryProbe, CancelSection, CancelErases, EraseState, states, sets, jobs,
       CallElse, TypeOK, StatesOK
  <2>3. CallOK'
    BY <1>6, <2>1, GotoOK, DoneOK DEF TryProbe, CallPcs, AddPcs
  <2> QED BY <1>6, <2>2, <2>3, Frames DEF TryProbe, CallElse, TypeOK
<1>7. ASSUME TryEngine(c) PROVE TypeOK'
  <2>1. ~Idle(call[c]) /\ Gid(c) \in Gids
    BY <1>7, CallGid DEF TryEngine, At, Idle
  <2>2. RowsOK'
    BY <1>7, <2>1 DEF TryEngine, SetStatus, SetEngine, TypeOK, RowsOK
  <2>3. CallOK'
    BY <1>7, <2>1, GotoOK, DoneOK DEF TryEngine, CallPcs, AddPcs
  <2> QED BY <1>7, <2>2, <2>3, Frames DEF TryEngine, CallElse, TypeOK
<1>8. ASSUME ResumeAria(c) PROVE TypeOK'
  <2>1. ~Idle(call[c]) /\ Gid(c) \in Gids
    BY <1>8, CallGid DEF ResumeAria, At, Idle
  <2>2. WorldOK'
    BY <1>8, <2>1 DEF ResumeAria, RemoveFile, RemoveOutcomes, Rpc, Unpause, CloseSession,
       TypeOK, WorldOK
  <2>3. CallOK'
    BY <1>8, <2>1, GotoOK, DoneOK DEF ResumeAria, CallPcs, AddPcs
  <2> QED BY <1>8, <2>2, <2>3, Frames DEF ResumeAria, CallElse, TypeOK
<1> QED BY <1>1, <1>2, <1>3, <1>4, <1>5, <1>6, <1>7, <1>8 DEF ResumeStep

\* DeleteHttpDownload.
LEMMA TypeDelete ==
  ASSUME TypeOK, NEW c \in Callers, DeleteStep(c)
  PROVE  TypeOK'
<1>1. ASSUME DeleteClose(c) PROVE TypeOK'
  <2>1. ~Idle(call[c]) /\ Gid(c) \in Gids
    BY <1>1, CallGid DEF DeleteClose, At, Idle
  <2>2. WorldOK'
    BY <1>1, <2>1 DEF DeleteClose, RemoveFile, RemoveOutcomes, Rpc, Unpause, CloseSession,
       TypeOK, WorldOK
  <2>3. CallOK'
    BY <1>1, <2>1, GotoOK, DoneOK DEF DeleteClose, CallPcs, AddPcs
  <2> QED BY <1>1, <2>2, <2>3, Frames DEF DeleteClose, CallElse, TypeOK
<1>2. ASSUME DeleteLock(c) PROVE TypeOK'
  <2>1. ~Idle(call[c]) /\ Gid(c) \in Gids
    BY <1>2, CallGid DEF DeleteLock, At, Idle
  <2>2. CallOK'
    BY <1>2, <2>1, GotoOK, DoneOK DEF DeleteLock, CallPcs, AddPcs
  <2> QED BY <1>2, <2>2, Frames DEF DeleteLock, CallElse, TypeOK
<1>3. ASSUME DeleteShell(c) PROVE TypeOK'
  <2>1. ~Idle(call[c]) /\ Gid(c) \in Gids
    BY <1>3, CallGid DEF DeleteShell, At, Idle
  <2>2. WorldOK'
    BY <1>3, <2>1 DEF DeleteShell, RemoveFile, RemoveOutcomes, Rpc, Unpause, CloseSession,
       TypeOK, WorldOK
  <2>3. CallOK'
    BY <1>3, <2>1, GotoOK, DoneOK DEF DeleteShell, CallPcs, AddPcs
  <2> QED BY <1>3, <2>2, <2>3, Frames DEF DeleteShell, CallElse, TypeOK
<1>4. ASSUME DeleteFile(c) PROVE TypeOK'
  <2>1. ~Idle(call[c]) /\ Gid(c) \in Gids
    BY <1>4, CallGid DEF DeleteFile, At, Idle
  <2>2. WorldOK'
    BY <1>4, <2>1 DEF DeleteFile, RemoveFile, RemoveOutcomes, Rpc, Unpause, CloseSession,
       TypeOK, WorldOK
  <2>3. StatesOK'
    BY <1>4, <2>1 DEF DeleteFile, states, sets, jobs, TypeOK, StatesOK
  <2>4. CallOK'
    BY <1>4, <2>1, GotoOK, DoneOK DEF DeleteFile, CallPcs, AddPcs
  <2> QED BY <1>4, <2>2, <2>3, <2>4, Frames DEF DeleteFile, CallElse, control, TypeOK
<1>5. ASSUME DeleteRow(c) PROVE TypeOK'
  <2>1. ~Idle(call[c]) /\ Gid(c) \in Gids
    BY <1>5, CallGid DEF DeleteRow, At, Idle
  <2>2. RowsOK'
    BY <1>5, <2>1 DEF DeleteRow, SetStatus, SetEngine, TypeOK, RowsOK
  <2>3. CallOK'
    BY <1>5, <2>1, GotoOK, DoneOK DEF DeleteRow, CallPcs, AddPcs
  <2> QED BY <1>5, <2>2, <2>3, Frames DEF DeleteRow, CallElse, TypeOK
<1> QED BY <1>1, <1>2, <1>3, <1>4, <1>5 DEF DeleteStep

\* The discovery thread.
LEMMA TypeDiscovery ==
  ASSUME TypeOK, Discovery
  PROVE  TypeOK'
<1>1. ASSUME NEW g \in Gids, DiscPop(g) PROVE TypeOK'
  <2>1. StatesOK'
    BY <1>1 DEF DiscPop, HybridLive, states, sets, jobs, DiscElse, DiscOK, TypeOK, StatesOK
  <2>2. DiscOK'
    BY <1>1 DEF DiscPop, DiscPcs, GidOrNone, IdleDisc, NoGid, TypeOK, DiscOK
  <2> QED BY <1>1, <2>1, <2>2, Frames DEF DiscPop, DiscElse, control, TypeOK
<1>2. ASSUME DiscLookup PROVE TypeOK'
  <2>1. DiscOK'
    BY <1>2, DiscLookupOK DEF DiscLookup
  <2> QED BY <1>2, <2>1, Frames DEF DiscLookup, DiscElse, control, TypeOK
<1>3. ASSUME DiscQueue PROVE TypeOK'
  <2>1. StatesOK'
    BY <1>3 DEF DiscQueue, HybridLive, states, sets, jobs, DiscElse, DiscOK, TypeOK, StatesOK
  <2>2. DiscOK'
    BY <1>3 DEF DiscQueue, DiscPcs, GidOrNone, IdleDisc, NoGid, TypeOK, DiscOK
  <2> QED BY <1>3, <2>1, <2>2, Frames DEF DiscQueue, DiscElse, control, TypeOK
<1>4. ASSUME DiscDecide PROVE TypeOK'
  <2>1. StatesOK'
    BY <1>4 DEF DiscDecide, HybridLive, states, sets, jobs, DiscElse, DiscOK, TypeOK, StatesOK
  <2>2. DiscOK'
    BY <1>4 DEF DiscDecide, DiscPcs, GidOrNone, IdleDisc, NoGid, TypeOK, DiscOK
  <2> QED BY <1>4, <2>1, <2>2, Frames DEF DiscDecide, DiscElse, control, TypeOK
<1>5. ASSUME DiscHandBack PROVE TypeOK'
  <2>1. RowsOK'
    BY <1>5 DEF DiscHandBack, SetEngine, DiscOK, TypeOK, RowsOK
  <2>2. DiscOK'
    BY <1>5 DEF DiscHandBack, DiscPcs, GidOrNone, IdleDisc, NoGid, TypeOK, DiscOK
  <2> QED BY <1>5, <2>1, <2>2, Frames DEF DiscHandBack, DiscElse, control, TypeOK
<1>6. ASSUME DiscResume PROVE TypeOK'
  <2>1. WorldOK'
    BY <1>6 DEF DiscResume, Unpause, Rpc, DiscOK, TypeOK, WorldOK
  <2>2. DiscOK'
    BY <1>6 DEF DiscResume, DiscPcs, GidOrNone, IdleDisc, NoGid, TypeOK, DiscOK
  <2> QED BY <1>6, <2>1, <2>2, Frames DEF DiscResume, DiscElse, control, TypeOK
<1> QED BY <1>1, <1>2, <1>3, <1>4, <1>5, <1>6 DEF Discovery, DiscStep

\* A worker takes a job.
LEMMA TypeWorkPop ==
  ASSUME TypeOK, NEW w \in Workers, NEW g \in Gids, WorkPop(w, g)
  PROVE  TypeOK'
<1>1. ASSUME WorkPop(w, g) PROVE TypeOK'
  <2>1. StatesOK'
    BY <1>1 DEF WorkPop, EraseState, states, sets, jobs, WorkElse, TypeOK, StatesOK
  <2>2. WorkOK'
    BY <1>1, WorkPopOK DEF WorkPop
  <2> QED BY <1>1, <2>1, <2>2, Frames DEF WorkPop, WorkElse, control, TypeOK
<1> QED BY <1>1 DEF WorkPop

\* A worker takes the path, runs the session and publishes.
LEMMA TypeTransfer ==
  ASSUME TypeOK, NEW w \in Workers, TransferStep(w) \/ WorkTimeout(w)
  PROVE  TypeOK'
<1>1. ASSUME WorkRelease(w) PROVE TypeOK'
  <2>1. ~Idle(work[w]) /\ WGid(w) \in Gids
    BY <1>1, WorkGid DEF WorkRelease, WAt, Idle
  <2>2. WorldOK'
    BY <1>1, <2>1 DEF WorkRelease, RemoveFile, RemoveOutcomes, Rpc, Unpause, CloseSession,
       TypeOK, WorldOK
  <2>3. WorkOK'
    BY <1>1, <2>1, WGotoOK, WDoneOK DEF WorkRelease, WorkPcs
  <2> QED BY <1>1, <2>2, <2>3, Frames DEF WorkRelease, WorkElse, control, TypeOK
<1>2. ASSUME WorkClaim(w) PROVE TypeOK'
  <2>1. ~Idle(work[w]) /\ WGid(w) \in Gids
    BY <1>2, WorkGid DEF WorkClaim, WAt, Idle
  <2>2. RowsOK'
    BY <1>2, <2>1 DEF WorkClaim, SetEngine, TypeOK, RowsOK
  <2>3. WorkOK'
    BY <1>2, <2>1, WGotoOK, WDoneOK DEF WorkClaim, WorkPcs
  <2> QED BY <1>2, <2>2, <2>3, Frames DEF WorkClaim, WorkElse, control, TypeOK
<1>3. ASSUME WorkOpen(w) PROVE TypeOK'
  <2>1. ~Idle(work[w]) /\ WGid(w) \in Gids
    BY <1>3, WorkGid DEF WorkOpen, WAt, Idle
  <2>2. WorldOK'
    BY <1>3, <2>1 DEF WorkOpen, RemoveFile, RemoveOutcomes, Rpc, Unpause, CloseSession,
       TypeOK, WorldOK
  <2>3. WorkOK'
    BY <1>3, <2>1, WGotoOK, WDoneOK DEF WorkOpen, WorkPcs
  <2> QED BY <1>3, <2>2, <2>3, Frames DEF WorkOpen, WorkElse, control, TypeOK
<1>4. ASSUME WorkConnect(w) PROVE TypeOK'
  <2>1. ~Idle(work[w]) /\ WGid(w) \in Gids
    BY <1>4, WorkGid DEF WorkConnect, WAt, Idle
  <2>2. RowsOK'
    BY <1>4, <2>1 DEF WorkConnect, SetEngine, TypeOK, RowsOK
  <2>3. WorkOK'
    BY <1>4, <2>1, WGotoOK, WDoneOK DEF WorkConnect, WorkPcs
  <2> QED BY <1>4, <2>2, <2>3, Frames DEF WorkConnect, WorkElse, control, TypeOK
<1>5. ASSUME WorkPoll(w) PROVE TypeOK'
  <2>1. ~Idle(work[w]) /\ WGid(w) \in Gids
    BY <1>5, WorkGid DEF WorkPoll, WAt, Idle
  <2>2. WorkOK'
    BY <1>5, <2>1, WGotoOK, WDoneOK DEF WorkPoll, WorkPcs
  <2> QED BY <1>5, <2>2, Frames DEF WorkPoll, WorkElse, control, TypeOK
<1>6. ASSUME WorkStatus(w) PROVE TypeOK'
  <2>1. ~Idle(work[w]) /\ WGid(w) \in Gids
    BY <1>6, WorkGid DEF WorkStatus, WAt, Idle
  <2>2. WorkOK'
    BY <1>6, <2>1, WGotoOK, WDoneOK DEF WorkStatus, WorkPcs
  <2> QED BY <1>6, <2>2, Frames DEF WorkStatus, WorkElse, control, TypeOK
<1>7. ASSUME WorkTimeout(w) PROVE TypeOK'
  <2>1. ~Idle(work[w]) /\ WGid(w) \in Gids
    BY <1>7, WorkGid DEF WorkTimeout, WAt, Idle
  <2>2. WorkOK'
    BY <1>7, <2>1, WGotoOK, WDoneOK DEF WorkTimeout, WorkPcs
  <2> QED BY <1>7, <2>2, Frames DEF WorkTimeout, WorkElse, control, TypeOK
<1>8. ASSUME WorkDropClose(w) PROVE TypeOK'
  <2>1. ~Idle(work[w]) /\ WGid(w) \in Gids
    BY <1>8, WorkGid DEF WorkDropClose, WAt, Idle
  <2>2. WorldOK'
    BY <1>8, <2>1 DEF WorkDropClose, RemoveFile, RemoveOutcomes, Rpc, Unpause, CloseSession,
       TypeOK, WorldOK
  <2>3. WorkOK'
    BY <1>8, <2>1, WGotoOK, WDoneOK DEF WorkDropClose, WorkPcs
  <2> QED BY <1>8, <2>2, <2>3, Frames DEF WorkDropClose, WorkElse, control, TypeOK
<1>9. ASSUME WorkDropErase(w) PROVE TypeOK'
  <2>1. ~Idle(work[w]) /\ WGid(w) \in Gids
    BY <1>9, WorkGid DEF WorkDropErase, WAt, Idle
  <2>2. StatesOK'
    BY <1>9, <2>1 DEF WorkDropErase, EraseState, states, sets, jobs, WorkElse, TypeOK, StatesOK
  <2>3. WorkOK'
    BY <1>9, <2>1, WGotoOK, WDoneOK DEF WorkDropErase, WorkPcs
  <2> QED BY <1>9, <2>2, <2>3, Frames DEF WorkDropErase, WorkElse, control, TypeOK
<1>10. ASSUME WorkClose(w) PROVE TypeOK'
  <2>1. ~Idle(work[w]) /\ WGid(w) \in Gids
    BY <1>10, WorkGid DEF WorkClose, WAt, Idle
  <2>2. WorldOK'
    BY <1>10, <2>1 DEF WorkClose, RemoveFile, RemoveOutcomes, Rpc, Unpause, CloseSession,
       TypeOK, WorldOK
  <2>3. WorkOK'
    BY <1>10, <2>1, WGotoOK, WDoneOK DEF WorkClose, WorkPcs
  <2> QED BY <1>10, <2>2, <2>3, Frames DEF WorkClose, WorkElse, control, TypeOK
<1>11. ASSUME WorkVerify(w) PROVE TypeOK'
  <2>1. ~Idle(work[w]) /\ WGid(w) \in Gids
    BY <1>11, WorkGid DEF WorkVerify, WAt, Idle
  <2>2. WorkOK'
    BY <1>11, <2>1, WGotoOK, WDoneOK DEF WorkVerify, WorkPcs
  <2> QED BY <1>11, <2>2, Frames DEF WorkVerify, WorkElse, control, TypeOK
<1>12. ASSUME WorkPublish(w) PROVE TypeOK'
  <2>1. ~Idle(work[w]) /\ WGid(w) \in Gids
    BY <1>12, WorkGid DEF WorkPublish, WAt, Idle
  <2>2. StatesOK'
    BY <1>12, <2>1 DEF WorkPublish, EraseState, states, sets, jobs, WorkElse, TypeOK, StatesOK
  <2>3. WorkOK'
    BY <1>12, <2>1, WGotoOK, WDoneOK DEF WorkPublish, WorkPcs
  <2> QED BY <1>12, <2>2, <2>3, Frames DEF WorkPublish, WorkElse, control, TypeOK
<1> QED BY <1>1, <1>2, <1>3, <1>4, <1>5, <1>6, <1>7, <1>8, <1>9, <1>10, <1>11,
   <1>12 DEF TransferStep

\* A worker fails and hands the path back.
LEMMA TypeFail ==
  ASSUME TypeOK, NEW w \in Workers, FailStep(w)
  PROVE  TypeOK'
<1>1. ASSUME WorkFailClose(w) PROVE TypeOK'
  <2>1. ~Idle(work[w]) /\ WGid(w) \in Gids
    BY <1>1, WorkGid DEF WorkFailClose, WAt, Idle
  <2>2. WorldOK'
    BY <1>1, <2>1 DEF WorkFailClose, RemoveFile, RemoveOutcomes, Rpc, Unpause, CloseSession,
       TypeOK, WorldOK
  <2>3. WorkOK'
    BY <1>1, <2>1, WGotoOK, WDoneOK DEF WorkFailClose, WorkPcs
  <2> QED BY <1>1, <2>2, <2>3, Frames DEF WorkFailClose, WorkElse, control, TypeOK
<1>2. ASSUME WorkFailFile(w) PROVE TypeOK'
  <2>1. ~Idle(work[w]) /\ WGid(w) \in Gids
    BY <1>2, WorkGid DEF WorkFailFile, WAt, Idle
  <2>2. WorldOK'
    BY <1>2, <2>1 DEF WorkFailFile, RemoveFile, RemoveOutcomes, Rpc, Unpause, CloseSession,
       TypeOK, WorldOK
  <2>3. WorkOK'
    BY <1>2, <2>1 DEF WorkFailFile, WAt, WorkPcs, GidOrNone, IdleWork, NoGid, TypeOK, WorkOK
  <2> QED BY <1>2, <2>2, <2>3, Frames DEF WorkFailFile, WorkElse, control, TypeOK
<1>3. ASSUME WorkFailJudge(w) PROVE TypeOK'
  <2>1. ~Idle(work[w]) /\ WGid(w) \in Gids
    BY <1>3, WorkGid DEF WorkFailJudge, WAt, Idle
  <2>2. StatesOK'
    BY <1>3, <2>1 DEF WorkFailJudge, EraseState, states, sets, jobs, WorkElse, TypeOK, StatesOK
  <2>3. WorkOK'
    BY <1>3, <2>1 DEF WorkFailJudge, WAt, WorkPcs, GidOrNone, IdleWork, NoGid, TypeOK, WorkOK
  <2> QED BY <1>3, <2>2, <2>3, Frames DEF WorkFailJudge, WorkElse, control, TypeOK
<1>4. ASSUME WorkHandBack(w) PROVE TypeOK'
  <2>1. ~Idle(work[w]) /\ WGid(w) \in Gids
    BY <1>4, WorkGid DEF WorkHandBack, WAt, Idle
  <2>2. RowsOK'
    BY <1>4, <2>1 DEF WorkHandBack, SetEngine, TypeOK, RowsOK
  <2>3. WorkOK'
    BY <1>4, <2>1, WGotoOK, WDoneOK DEF WorkHandBack, WorkPcs
  <2> QED BY <1>4, <2>2, <2>3, Frames DEF WorkHandBack, WorkElse, control, TypeOK
<1>5. ASSUME WorkResume(w) PROVE TypeOK'
  <2>1. ~Idle(work[w]) /\ WGid(w) \in Gids
    BY <1>5, WorkGid DEF WorkResume, WAt, Idle
  <2>2. WorldOK'
    BY <1>5, <2>1 DEF WorkResume, RemoveFile, RemoveOutcomes, Rpc, Unpause, CloseSession,
       TypeOK, WorldOK
  <2>3. WorkOK'
    BY <1>5, <2>1, WGotoOK, WDoneOK DEF WorkResume, WorkPcs
  <2> QED BY <1>5, <2>2, <2>3, Frames DEF WorkResume, WorkElse, control, TypeOK
<1> QED BY <1>1, <1>2, <1>3, <1>4, <1>5 DEF FailStep

\* The refresh thread looks at a task.
LEMMA TypeRefrBegin ==
  ASSUME TypeOK, NEW g \in Gids, RefrBegin(g)
  PROVE  TypeOK'
<1>1. ASSUME RefrBegin(g) PROVE TypeOK'
  <2>1. RowsOK'
    BY <1>1 DEF RefrBegin, TypeOK, RowsOK
  <2>2. RefrOK'
    BY <1>1 DEF RefrBegin, IdleRefr, RefrPcs, GidOrNone, WorldOK, TypeOK, RefrOK
  <2> QED BY <1>1, <2>1, <2>2, Frames DEF RefrBegin, RefrElse, control, TypeOK
<1> QED BY <1>1 DEF RefrBegin

\* The rest of its pass.
LEMMA TypeRefresh ==
  ASSUME TypeOK, RefrStep
  PROVE  TypeOK'
<1>1. ASSUME RefrCheck PROVE TypeOK'
  <2>1. ~Idle(refr) /\ refr.gid \in Gids
    BY <1>1 DEF RefrCheck, RAt, Idle, TypeOK, RefrOK
  <2>2. RefrOK'
    BY <1>1, <2>1, RGotoOK, RDoneOK DEF RefrCheck, RFallThrough, RefrPcs
  <2> QED BY <1>1, <2>2, Frames DEF RefrCheck, RefrElse, control, TypeOK
<1>2. ASSUME RefrPromote PROVE TypeOK'
  <2>1. ~Idle(refr) /\ refr.gid \in Gids
    BY <1>2 DEF RefrPromote, RAt, Idle, TypeOK, RefrOK
  <2>2. StatesOK'
    BY <1>2, <2>1 DEF RefrPromote, EraseState, CancelSection, CancelErases, states, sets,
       jobs, RefrElse, TypeOK, StatesOK
  <2>3. RefrOK'
    BY <1>2, <2>1, RGotoOK, RDoneOK DEF RefrPromote, RFallThrough, RefrPcs
  <2> QED BY <1>2, <2>2, <2>3, Frames DEF RefrPromote, RefrElse, control, TypeOK
<1>3. ASSUME RefrShell PROVE TypeOK'
  <2>1. ~Idle(refr) /\ refr.gid \in Gids
    BY <1>3 DEF RefrShell, RAt, Idle, TypeOK, RefrOK
  <2>2. WorldOK'
    BY <1>3, <2>1 DEF RefrShell, CloseSession, TypeOK, WorldOK
  <2>3. RefrOK'
    BY <1>3, <2>1, RGotoOK, RDoneOK DEF RefrShell, RFallThrough, RefrPcs
  <2> QED BY <1>3, <2>2, <2>3, Frames DEF RefrShell, RefrElse, control, TypeOK
<1>4. ASSUME RefrRowStatus PROVE TypeOK'
  <2>1. ~Idle(refr) /\ refr.gid \in Gids
    BY <1>4 DEF RefrRowStatus, RAt, Idle, TypeOK, RefrOK
  <2>2. RowsOK'
    BY <1>4, <2>1 DEF RefrRowStatus, SetStatus, SetEngine, RowOf, TypeOK, RowsOK
  <2>3. RefrOK'
    BY <1>4, <2>1, RGotoOK, RDoneOK DEF RefrRowStatus, RFallThrough, RefrPcs
  <2> QED BY <1>4, <2>2, <2>3, Frames DEF RefrRowStatus, RefrElse, control, TypeOK
<1>5. ASSUME RefrRowEngine PROVE TypeOK'
  <2>1. ~Idle(refr) /\ refr.gid \in Gids
    BY <1>5 DEF RefrRowEngine, RAt, Idle, TypeOK, RefrOK
  <2>2. RowsOK'
    BY <1>5, <2>1 DEF RefrRowEngine, SetStatus, SetEngine, RowOf, TypeOK, RowsOK
  <2>3. StatesOK'
    BY <1>5, <2>1 DEF RefrRowEngine, EraseState, CancelSection, CancelErases, states, sets,
       jobs, RefrElse, TypeOK, StatesOK
  <2>4. RefrOK'
    BY <1>5, <2>1, RGotoOK, RDoneOK DEF RefrRowEngine, RFallThrough, RefrPcs
  <2> QED BY <1>5, <2>2, <2>3, <2>4, Frames DEF RefrRowEngine, RefrElse, control, TypeOK
<1>6. ASSUME RefrErase PROVE TypeOK'
  <2>1. ~Idle(refr) /\ refr.gid \in Gids
    BY <1>6 DEF RefrErase, RAt, Idle, TypeOK, RefrOK
  <2>2. StatesOK'
    BY <1>6, <2>1 DEF RefrErase, EraseState, CancelSection, CancelErases, states, sets, jobs,
       RefrElse, TypeOK, StatesOK
  <2>3. RefrOK'
    BY <1>6, <2>1, RGotoOK, RDoneOK DEF RefrErase, RFallThrough, RefrPcs
  <2> QED BY <1>6, <2>2, <2>3, Frames DEF RefrErase, RefrElse, control, TypeOK
<1>7. ASSUME RefrEnqueue PROVE TypeOK'
  <2>1. ~Idle(refr) /\ refr.gid \in Gids
    BY <1>7 DEF RefrEnqueue, RAt, Idle, TypeOK, RefrOK
  <2>2. RowsOK'
    BY <1>7, <2>1 DEF RefrEnqueue, SetStatus, SetEngine, RowOf, TypeOK, RowsOK
  <2>3. RefrOK'
    BY <1>7, <2>1, RGotoOK, RDoneOK DEF RefrEnqueue, RFallThrough, RefrPcs
  <2> QED BY <1>7, <2>2, <2>3, Frames DEF RefrEnqueue, RefrElse, control, TypeOK
<1>8. ASSUME RefrPending \/ RefrSnapshot PROVE TypeOK'
  <2>1. ~Idle(refr) /\ refr.gid \in Gids
    BY <1>8 DEF RefrPending, RefrSnapshot, RAt, Idle, TypeOK, RefrOK
  <2>2. RefrOK'
    BY <1>8, <2>1 DEF RefrPending, RefrSnapshot, RAt, RefrPcs, HybridLive, TypeOK, RefrOK
  <2> QED BY <1>8, <2>2, Frames DEF RefrPending, RefrSnapshot, RefrElse, control, TypeOK
<1>9. ASSUME RefrWrite PROVE TypeOK'
  <2>1. ~Idle(refr) /\ refr.gid \in Gids
    BY <1>9 DEF RefrWrite, RAt, Idle, TypeOK, RefrOK
  <2>2. RowsOK'
    BY <1>9, <2>1 DEF RefrWrite, SetStatus, SetEngine, RowOf, TypeOK, RowsOK
  <2>3. RefrOK'
    BY <1>9, <2>1, RGotoOK, RDoneOK DEF RefrWrite, RFallThrough, RefrPcs
  <2> QED BY <1>9, <2>2, <2>3, Frames DEF RefrWrite, RefrElse, control, TypeOK
<1>10. ASSUME RefrReact PROVE TypeOK'
  <2>1. ~Idle(refr) /\ refr.gid \in Gids
    BY <1>10 DEF RefrReact, RAt, Idle, TypeOK, RefrOK
  <2>2. RowsOK'
    BY <1>10, <2>1 DEF RefrReact, SetStatus, SetEngine, RowOf, TypeOK, RowsOK
  <2>3. StatesOK'
    BY <1>10, <2>1 DEF RefrReact, EraseState, CancelSection, CancelErases, states, sets, jobs,
       RefrElse, RefrOK, TypeOK, StatesOK
  <2>4. RefrOK'
    BY <1>10, <2>1, RGotoOK, RDoneOK DEF RefrReact, RFallThrough, RefrPcs
  <2> QED BY <1>10, <2>2, <2>3, <2>4, Frames DEF RefrReact, RefrElse, control, TypeOK
<1>11. ASSUME RefrReactClose PROVE TypeOK'
  <2>1. ~Idle(refr) /\ refr.gid \in Gids
    BY <1>11 DEF RefrReactClose, RAt, Idle, TypeOK, RefrOK
  <2>2. WorldOK'
    BY <1>11, <2>1 DEF RefrReactClose, CloseSession, TypeOK, WorldOK
  <2>3. RefrOK'
    BY <1>11, <2>1, RGotoOK, RDoneOK DEF RefrReactClose, RFallThrough, RefrPcs
  <2> QED BY <1>11, <2>2, <2>3, Frames DEF RefrReactClose, RefrElse, control, TypeOK
<1>12. ASSUME RefrReactDone PROVE TypeOK'
  <2>1. ~Idle(refr) /\ refr.gid \in Gids
    BY <1>12 DEF RefrReactDone, RAt, Idle, TypeOK, RefrOK
  <2>2. RowsOK'
    BY <1>12, <2>1 DEF RefrReactDone, SetStatus, SetEngine, RowOf, TypeOK, RowsOK
  <2>3. RefrOK'
    BY <1>12, <2>1, RGotoOK, RDoneOK DEF RefrReactDone, RFallThrough, RefrPcs
  <2> QED BY <1>12, <2>2, <2>3, Frames DEF RefrReactDone, RefrElse, control, TypeOK
<1> QED BY <1>1, <1>2, <1>3, <1>4, <1>5, <1>6, <1>7, <1>8, <1>9, <1>10, <1>11, <1>12 DEF RefrStep

\* Recovery picks a record.
LEMMA TypeRcvPick ==
  ASSUME TypeOK, NEW g \in Gids, RcvPick(g)
  PROVE  TypeOK'
<1>1. ASSUME RcvPick(g) PROVE TypeOK'
  <2>1. RcvOK'
    BY <1>1, RcvPickOK DEF RcvPick
  <2> QED BY <1>1, <2>1, Frames DEF RcvPick, RcvElse, control, TypeOK
<1> QED BY <1>1 DEF RcvPick

\* The rest of recovery.
LEMMA TypeRecovery ==
  ASSUME TypeOK, RcvStep
  PROVE  TypeOK'
<1>1. ASSUME RcvReplay PROVE TypeOK'
  <2>1. rcv.gid \in Gids
    BY <1>1 DEF RcvReplay, RcvAt, TypeOK, RcvOK
  <2>2. RowsOK'
    BY <1>1, <2>1 DEF RcvReplay, SetStatus, SetEngine, TypeOK, RowsOK
  <2>3. RcvOK'
    BY <1>1, <2>1 DEF RcvReplay, RcvAt, RcvGoto, RcvNext, RcvPcs, GidOrNone, TypeOK, RcvOK
  <2> QED BY <1>1, <2>2, <2>3, Frames DEF RcvReplay, RcvElse, control, TypeOK
<1>2. ASSUME RcvHash PROVE TypeOK'
  <2>1. rcv.gid \in Gids
    BY <1>2 DEF RcvHash, RcvAt, TypeOK, RcvOK
  <2>2. RcvOK'
    BY <1>2, <2>1 DEF RcvHash, RcvAt, RcvGoto, RcvNext, RcvPcs, GidOrNone, TypeOK, RcvOK
  <2> QED BY <1>2, <2>2, Frames DEF RcvHash, RcvElse, control, TypeOK
<1>3. ASSUME RcvShell PROVE TypeOK'
  <2>1. rcv.gid \in Gids
    BY <1>3 DEF RcvShell, RcvAt, TypeOK, RcvOK
  <2>2. WorldOK'
    BY <1>3, <2>1 DEF RcvShell, RemoveFile, RemoveOutcomes, Rpc, Unpause, TypeOK, WorldOK
  <2>3. RcvOK'
    BY <1>3, <2>1 DEF RcvShell, RcvAt, RcvGoto, RcvNext, RcvPcs, GidOrNone, TypeOK, RcvOK
  <2> QED BY <1>3, <2>2, <2>3, Frames DEF RcvShell, RcvElse, control, TypeOK
<1>4. ASSUME RcvRowStatus PROVE TypeOK'
  <2>1. rcv.gid \in Gids
    BY <1>4 DEF RcvRowStatus, RcvAt, TypeOK, RcvOK
  <2>2. RowsOK'
    BY <1>4, <2>1 DEF RcvRowStatus, SetStatus, SetEngine, TypeOK, RowsOK
  <2>3. RcvOK'
    BY <1>4, <2>1 DEF RcvRowStatus, RcvAt, RcvGoto, RcvNext, RcvPcs, GidOrNone, TypeOK, RcvOK
  <2> QED BY <1>4, <2>2, <2>3, Frames DEF RcvRowStatus, RcvElse, control, TypeOK
<1>5. ASSUME RcvClean PROVE TypeOK'
  <2>1. rcv.gid \in Gids
    BY <1>5 DEF RcvClean, RcvAt, TypeOK, RcvOK
  <2>2. WorldOK'
    BY <1>5, <2>1 DEF RcvClean, RemoveFile, RemoveOutcomes, Rpc, Unpause, TypeOK, WorldOK
  <2>3. RcvOK'
    BY <1>5, <2>1 DEF RcvClean, RcvAt, RcvGoto, RcvNext, RcvPcs, GidOrNone, TypeOK, RcvOK
  <2> QED BY <1>5, <2>2, <2>3, Frames DEF RcvClean, RcvElse, control, TypeOK
<1>6. ASSUME RcvEngine PROVE TypeOK'
  <2>1. rcv.gid \in Gids
    BY <1>6 DEF RcvEngine, RcvAt, TypeOK, RcvOK
  <2>2. RowsOK'
    BY <1>6, <2>1 DEF RcvEngine, SetStatus, SetEngine, TypeOK, RowsOK
  <2>3. RcvOK'
    BY <1>6, <2>1 DEF RcvEngine, RcvAt, RcvGoto, RcvNext, RcvPcs, GidOrNone, TypeOK, RcvOK
  <2> QED BY <1>6, <2>2, <2>3, Frames DEF RcvEngine, RcvElse, control, TypeOK
<1>7. ASSUME RcvResume PROVE TypeOK'
  <2>1. rcv.gid \in Gids
    BY <1>7 DEF RcvResume, RcvAt, TypeOK, RcvOK
  <2>2. WorldOK'
    BY <1>7, <2>1 DEF RcvResume, RemoveFile, RemoveOutcomes, Rpc, Unpause, TypeOK, WorldOK
  <2>3. RcvOK'
    BY <1>7, <2>1 DEF RcvResume, RcvAt, RcvGoto, RcvNext, RcvPcs, GidOrNone, TypeOK, RcvOK
  <2> QED BY <1>7, <2>2, <2>3, Frames DEF RcvResume, RcvElse, control, TypeOK
<1>8. ASSUME RcvRowActive PROVE TypeOK'
  <2>1. rcv.gid \in Gids
    BY <1>8 DEF RcvRowActive, RcvAt, TypeOK, RcvOK
  <2>2. RowsOK'
    BY <1>8, <2>1 DEF RcvRowActive, SetStatus, SetEngine, TypeOK, RowsOK
  <2>3. RcvOK'
    BY <1>8, <2>1 DEF RcvRowActive, RcvAt, RcvGoto, RcvNext, RcvPcs, GidOrNone, TypeOK, RcvOK
  <2> QED BY <1>8, <2>2, <2>3, Frames DEF RcvRowActive, RcvElse, control, TypeOK
<1>9. ASSUME RcvStart PROVE TypeOK'
  <2>1. ControlOK'
    BY <1>9 DEF RcvStart, TypeOK, ControlOK
  <2> QED BY <1>9, <2>1, Frames DEF RcvStart, RcvElse, control, TypeOK
<1> QED BY <1>1, <1>2, <1>3, <1>4, <1>5, <1>6, <1>7, <1>8, <1>9 DEF RcvStep

\* Shutdown, crash and restart.
LEMMA TypeLifecycle ==
  ASSUME TypeOK, Lifecycle
  PROVE  TypeOK'
<1>1. ASSUME ShutBegin PROVE TypeOK'
  <2>1. StatesOK'
    BY <1>1 DEF ShutBegin, states, sets, jobs, ShutElse, ProcessEnds, TypeOK, StatesOK
  <2>2. ControlOK'
    BY <1>1 DEF ShutBegin, ShutElse, ProcessEnds, TypeOK, ControlOK
  <2> QED BY <1>1, <2>1, <2>2, Frames DEF ShutBegin, ShutElse, ProcessEnds, TypeOK
<1>2. ASSUME ShutDiscovery PROVE TypeOK'
  <2>1. StatesOK'
    BY <1>2 DEF ShutDiscovery, states, sets, jobs, ShutElse, ProcessEnds, TypeOK, StatesOK
  <2>2. ControlOK'
    BY <1>2 DEF ShutDiscovery, ShutElse, ProcessEnds, TypeOK, ControlOK
  <2> QED BY <1>2, <2>1, <2>2, Frames DEF ShutDiscovery, ShutElse, ProcessEnds, TypeOK
<1>3. ASSUME ShutWorkers PROVE TypeOK'
  <2>1. StatesOK'
    BY <1>3 DEF ShutWorkers, states, sets, jobs, ShutElse, ProcessEnds, TypeOK, StatesOK
  <2>2. ControlOK'
    BY <1>3 DEF ShutWorkers, ShutElse, ProcessEnds, TypeOK, ControlOK
  <2> QED BY <1>3, <2>1, <2>2, Frames DEF ShutWorkers, ShutElse, ProcessEnds, TypeOK
<1>4. ASSUME ShutDown PROVE TypeOK'
  <2>1. StatesOK'
    BY <1>4 DEF ShutDown, states, sets, jobs, ShutElse, ProcessEnds, TypeOK, StatesOK
  <2>2. ControlOK'
    BY <1>4 DEF ShutDown, ShutElse, ProcessEnds, TypeOK, ControlOK
  <2>3. WorldOK'
    BY <1>4 DEF ShutDown, ProcessEnds, TypeOK, WorldOK
  <2>4. DiscOK'
    BY <1>4 DEF ShutDown, ProcessEnds, IdleDisc, DiscPcs, GidOrNone, NoGid, TypeOK, DiscOK
  <2>5. WorkOK'
    BY <1>4 DEF ShutDown, ProcessEnds, IdleWork, WorkPcs, GidOrNone, NoGid, TypeOK, WorkOK
  <2>6. CallOK'
    BY <1>4 DEF ShutDown, ProcessEnds, IdleCall, CallPcs, GidOrNone, NoGid, TypeOK, CallOK
  <2>7. RefrOK'
    BY <1>4 DEF ShutDown, ProcessEnds, IdleRefr, RefrPcs, GidOrNone, NoGid, TypeOK, RefrOK
  <2>8. RcvOK'
    BY <1>4 DEF ShutDown, ProcessEnds, IdleRcv, RcvPcs, GidOrNone, NoGid, TypeOK, RcvOK
  <2> QED BY <1>4, <2>1, <2>2, <2>3, <2>4, <2>5, <2>6, <2>7, <2>8, Frames DEF ShutDown,
     ShutElse, ProcessEnds, TypeOK
<1>5. ASSUME Crash PROVE TypeOK'
  <2>1. StatesOK'
    BY <1>5 DEF Crash, states, sets, jobs, ShutElse, ProcessEnds, TypeOK, StatesOK
  <2>2. ControlOK'
    BY <1>5 DEF Crash, ShutElse, ProcessEnds, TypeOK, ControlOK
  <2>3. WorldOK'
    BY <1>5 DEF Crash, ProcessEnds, TypeOK, WorldOK
  <2>4. DiscOK'
    BY <1>5 DEF Crash, ProcessEnds, IdleDisc, DiscPcs, GidOrNone, NoGid, TypeOK, DiscOK
  <2>5. WorkOK'
    BY <1>5 DEF Crash, ProcessEnds, IdleWork, WorkPcs, GidOrNone, NoGid, TypeOK, WorkOK
  <2>6. CallOK'
    BY <1>5 DEF Crash, ProcessEnds, IdleCall, CallPcs, GidOrNone, NoGid, TypeOK, CallOK
  <2>7. RefrOK'
    BY <1>5 DEF Crash, ProcessEnds, IdleRefr, RefrPcs, GidOrNone, NoGid, TypeOK, RefrOK
  <2>8. RcvOK'
    BY <1>5 DEF Crash, ProcessEnds, IdleRcv, RcvPcs, GidOrNone, NoGid, TypeOK, RcvOK
  <2> QED BY <1>5, <2>1, <2>2, <2>3, <2>4, <2>5, <2>6, <2>7, <2>8, Frames DEF Crash, ShutElse,
     ProcessEnds, TypeOK
<1>6. ASSUME Restart PROVE TypeOK'
  <2>1. WorldOK'
    BY <1>6 DEF Restart, TypeOK, WorldOK
  <2>2. RcvOK'
    BY <1>6 DEF Restart, IdleRcv, RcvPcs, GidOrNone, NoGid, RcvPlan, RowsOK, TypeOK, RcvOK
  <2>3. ControlOK'
    BY <1>6 DEF Restart, TypeOK, ControlOK
  <2> QED BY <1>6, <2>1, <2>2, <2>3, Frames DEF Restart, ShutElse, ProcessEnds, TypeOK
<1> QED BY <1>1, <1>2, <1>3, <1>4, <1>5, <1>6 DEF Lifecycle


\* The initial state is well typed.
LEMMA TypeInit == Init => TypeOK
<1> SUFFICES ASSUME Init PROVE TypeOK
  OBVIOUS
<1>1. RowsOK /\ WorldOK /\ ControlOK
  BY DEF Init, RowsOK, WorldOK, ControlOK
<1>2. StatesOK
  BY DEF Init, StatesOK
<1>3. DiscOK /\ RefrOK
  BY DEF Init, DiscOK, RefrOK, IdleDisc, IdleRefr, DiscPcs, RefrPcs, GidOrNone
<1>4. WorkOK /\ CallOK
  BY DEF Init, WorkOK, CallOK, IdleWork, IdleCall, WorkPcs, CallPcs, GidOrNone
<1>5. RcvOK
  BY DEF Init, RcvOK, IdleRcv, RcvPcs, GidOrNone
<1> QED BY <1>1, <1>2, <1>3, <1>4, <1>5 DEF TypeOK

\* No step of any actor leaves the types.
LEMMA TypeNext == TypeOK /\ [Next]_vars => TypeOK'
<1> SUFFICES ASSUME TypeOK, [Next]_vars PROVE TypeOK'
  OBVIOUS
<1>1. CASE Engines
  BY <1>1, TypeEngines
<1>2. ASSUME NEW c \in Callers, CallBegin(c) \/ CallStep(c) PROVE TypeOK'
  BY <1>2, TypeBegin, TypeAddPause, TypeResume, TypeDelete DEF CallStep
<1>3. CASE Discovery
  BY <1>3, TypeDiscovery
<1>4. ASSUME NEW w \in Workers, Worker(w) PROVE TypeOK'
  BY <1>4, TypeWorkPop, TypeTransfer, TypeFail DEF Worker, WorkStep
<1>5. CASE Refresh
  BY <1>5, TypeRefrBegin, TypeRefresh DEF Refresh
<1>6. CASE Recovery
  BY <1>6, TypeRcvPick, TypeRecovery DEF Recovery
<1>7. CASE Lifecycle
  BY <1>7, TypeLifecycle
<1>8. CASE UNCHANGED vars
  BY <1>8, Frames DEF vars, control, TypeOK
<1> QED BY <1>1, <1>2, <1>3, <1>4, <1>5, <1>6, <1>7, <1>8 DEF Next

\* Every reachable state keeps to the types, for any number of downloads,
\* workers and callers, any commands, any number of restarts.
THEOREM TypeCorrect == Spec => []TypeOK
<1>1. Init => TypeOK
  BY TypeInit
<1>2. TypeOK /\ [Next]_vars => TypeOK'
  BY TypeNext
<1> QED BY <1>1, <1>2, PTL DEF Spec

-----------------------------------------------------------------------------
(* CompleteShellGone.  The property is not inductive: the refresh thread        *)
(* completes a row several steps after it looked at the aria2 task, and recovery*)
(* several steps after it read the rows.  ShellInv says what each of them may   *)
(* rely on in between; every other actor is tame: it does nothing either of them*)
(* would notice.                                                                *)

(* The invariant behind CompleteShellGone. *)

\* The refresh thread works on a task some row knows; what it saw complete stays
\* complete; past the removal of the shell there is no task.
RefrShape ==
    /\ refr.pc # "idle" => status[refr.gid] # "new"
    /\ refr.pc # "idle" /\ refr.seen = "complete" => aria[refr.gid] \in {"gone", "complete"}
    /\ refr.pc \in {"rowStatus", "rowEngine", "erase", "enqueue"} => aria[refr.gid] = "gone"
    /\ refr.pc \in {"reactClose", "reactDone"} => refr.seen = "complete"

\* Recovery works on a row there was at the start, and so does its plan.
RcvShape ==
    /\ rcv.pc # "idle" => status[rcv.gid] # "new"
    /\ rcv.pc = "rowStatus" => aria[rcv.gid] = "gone"
    /\ \A g \in Gids : rcv.plan[g] # "idle" => status[g] # "new"

CompleteRows == \A g \in Gids : status[g] = "complete" => aria[g] \in {"gone", "complete"}

ShellInv == TypeOK /\ RefrShape /\ RcvShape /\ CompleteRows


\* What the engines, the callers, the discovery thread and the workers do to the
\* row's status and to the aria2 task: no row is completed or unmade, no task
\* comes back but for a download without a row, a completed one stays so.
Tame ==
    \A g \in Gids :
        /\ status'[g] = "new" => status[g] = "new"
        /\ status'[g] = "complete" => status[g] = "complete"
        /\ aria[g] = "gone" => aria'[g] = "gone" \/ status[g] = "new"
        /\ aria[g] = "complete" => aria'[g] \in {"gone", "complete"}

\* A step that leaves both alone is tame.
LEMMA TameStutter == ASSUME TypeOK, UNCHANGED <<status, aria>> PROVE Tame
BY DEF TypeOK, WorldOK, Tame

\* The other forms in which those actions write the two variables.
LEMMA TameForms ==
  ASSUME TypeOK, NEW g \in Gids
  PROVE  /\ UNCHANGED status /\ Unpause(g) => Tame
         /\ UNCHANGED status /\ Rpc(g, "active", "paused") => Tame
         /\ UNCHANGED status /\ aria' = [aria EXCEPT ![g] = "gone"] => Tame
         /\ UNCHANGED aria /\ SetStatus(g, "active") => Tame
         /\ UNCHANGED aria /\ SetStatus(g, "deleted") => Tame
BY DEF TypeOK, RowsOK, WorldOK, Tame, Unpause, Rpc, SetStatus

\* The engines are tame.
LEMMA TameEngines == ASSUME TypeOK, Engines PROVE Tame /\ UNCHANGED <<refr, rcv>>
<1>1. ASSUME NEW g \in Gids, AriaOpen(g) \/ AriaReceive(g) \/ LtWrite(g) \/ LtFinish(g)
      PROVE  Tame /\ UNCHANGED <<refr, rcv>>
  <2>1. UNCHANGED <<status, aria, refr, rcv>>
    BY <1>1 DEF AriaOpen, AriaReceive, LtWrite, LtFinish, OnlyWorld, rows
  <2> QED BY <2>1, TameStutter
<1>2. ASSUME NEW g \in Gids, AriaFinish(g) PROVE Tame /\ UNCHANGED <<refr, rcv>>
  BY <1>2 DEF AriaFinish, OnlyWorld, rows, TypeOK, WorldOK, Tame
<1> QED BY <1>1, <1>2 DEF Engines

\* So are the callers.
LEMMA TameCalls ==
  ASSUME TypeOK, NEW c \in Callers, CallBegin(c) \/ CallStep(c)
  PROVE  Tame /\ UNCHANGED <<refr, rcv>>
<1>1. ASSUME NEW g \in Gids, AddShell(c, g) PROVE Tame /\ UNCHANGED <<refr, rcv>>
  BY <1>1 DEF AddShell, CallElse, rows, TypeOK, WorldOK, Tame
<1>2. ASSUME NEW g \in Gids, PauseRecord(c, g) \/ ResumeRecord(c, g) \/ DeleteCancel(c, g)
      PROVE  Tame /\ UNCHANGED <<refr, rcv>>
  <2>1. UNCHANGED <<status, aria, refr, rcv>>
    BY <1>2 DEF PauseRecord, ResumeRecord, DeleteCancel, CallElse, rows, world
  <2> QED BY <2>1, TameStutter
<1>3. UNCHANGED <<refr, rcv>>
  <2>1. CASE AddPauseStep(c)
    BY <2>1 DEF AddPauseStep, AddRow, AddPolicy, AddEngine, AddProbe, QueueDiscovery,
       PauseMark, PauseSession, PauseCancel, PauseClose, PauseAria, CallElse
  <2>2. CASE ResumeStep(c)
    BY <2>2 DEF ResumeStep, ResumeFailed, ResumeMark, ResumeSession, TryCheck, TryFile,
       TryProbe, TryEngine, ResumeAria, CallElse
  <2>3. CASE DeleteStep(c)
    BY <2>3 DEF DeleteStep, DeleteClose, DeleteLock, DeleteShell, DeleteFile, DeleteRow,
       CallElse
  <2> QED BY <1>1, <1>2, <2>1, <2>2, <2>3 DEF CallBegin, CallStep
<1>4. CASE UNCHANGED <<status, aria>>
  BY <1>3, <1>4, TameStutter
<1>5. CASE AddRow(c)
  BY <1>3, <1>5, CallGid, TameForms DEF AddRow, At, Idle, world
<1>6. CASE PauseAria(c) \/ ResumeAria(c)
  BY <1>3, <1>6, CallGid, TameForms DEF PauseAria, ResumeAria, At, Idle, rows
<1>7. CASE DeleteShell(c)
  BY <1>3, <1>7, CallGid, TameForms, TameStutter DEF DeleteShell, At, Idle, rows
<1>8. CASE DeleteRow(c)
  BY <1>3, <1>8, CallGid, TameForms DEF DeleteRow, At, Idle, world
<1>9. CASE AddPauseStep(c) /\ ~AddRow(c) /\ ~PauseAria(c)
  BY <1>4, <1>9 DEF AddPauseStep, AddPolicy, AddEngine, AddProbe, QueueDiscovery,
     PauseMark, PauseSession, PauseCancel, PauseClose, rows, world
<1>10. CASE ResumeStep(c) /\ ~ResumeAria(c)
  BY <1>4, <1>10 DEF ResumeStep, ResumeFailed, ResumeMark, ResumeSession, TryCheck, TryFile,
     TryProbe, TryEngine, rows, world
<1>11. CASE DeleteStep(c) /\ ~DeleteShell(c) /\ ~DeleteRow(c)
  BY <1>4, <1>11 DEF DeleteStep, DeleteClose, DeleteLock, DeleteFile, rows, world
<1> QED BY <1>1, <1>2, <1>5, <1>6, <1>7, <1>8, <1>9, <1>10, <1>11 DEF CallBegin, CallStep

\* So are the discovery thread and the workers.
LEMMA TameDiscovery == ASSUME TypeOK, Discovery PROVE Tame /\ UNCHANGED <<refr, rcv>>
<1>1. UNCHANGED <<status, refr, rcv>>
  BY DEF Discovery, DiscStep, DiscPop, DiscLookup, DiscQueue, DiscDecide, DiscHandBack,
     DiscResume, DiscElse, rows
<1>2. CASE DiscResume
  <2>1. disc.gid \in Gids /\ Unpause(disc.gid)
    BY <1>2 DEF DiscResume, TypeOK, DiscOK
  <2> QED BY <1>1, <2>1, TameForms
<1>3. CASE ~DiscResume
  <2>1. UNCHANGED aria
    BY <1>3 DEF Discovery, DiscStep, DiscPop, DiscLookup, DiscQueue, DiscDecide,
       DiscHandBack, world
  <2> QED BY <1>1, <2>1, TameStutter
<1> QED BY <1>2, <1>3

\* A worker is tame.
LEMMA TameWorker ==
  ASSUME TypeOK, NEW w \in Workers, Worker(w)
  PROVE  Tame /\ UNCHANGED <<refr, rcv>>
<1>1. UNCHANGED <<status, refr, rcv>>
  <2>1. CASE TransferStep(w)
    BY <2>1 DEF TransferStep, WorkRelease, WorkClaim, WorkOpen, WorkConnect, WorkPoll,
       WorkStatus, WorkDropClose, WorkDropErase, WorkClose, WorkVerify, WorkPublish,
       WorkElse, rows
  <2>2. CASE FailStep(w)
    BY <2>2 DEF FailStep, WorkFailClose, WorkFailFile, WorkFailJudge, WorkHandBack,
       WorkResume, WorkElse, rows
  <2>3. CASE WorkTimeout(w) \/ \E g \in Gids : WorkPop(w, g)
    BY <2>3 DEF WorkTimeout, WorkPop, WorkElse, rows
  <2> QED BY <2>1, <2>2, <2>3 DEF Worker, WorkStep
<1>2. CASE WorkResume(w)
  BY <1>1, <1>2, WorkGid, TameForms DEF WorkResume, WAt, Idle
<1>3. CASE UNCHANGED aria
  BY <1>1, <1>3, TameStutter
<1>4. CASE TransferStep(w)
  BY <1>3, <1>4 DEF TransferStep, WorkRelease, WorkClaim, WorkOpen, WorkConnect, WorkPoll,
     WorkStatus, WorkDropClose, WorkDropErase, WorkClose, WorkVerify, WorkPublish, world
<1>5. CASE FailStep(w) /\ ~WorkResume(w)
  BY <1>3, <1>5 DEF FailStep, WorkFailClose, WorkFailFile, WorkFailJudge, WorkHandBack, world
<1>6. CASE WorkTimeout(w) \/ \E g \in Gids : WorkPop(w, g)
  BY <1>3, <1>6 DEF WorkTimeout, WorkPop, world
<1> QED BY <1>2, <1>4, <1>5, <1>6 DEF Worker, WorkStep

\* A tame step keeps the invariant.
LEMMA TameKeeps ==
  ASSUME ShellInv, Tame, UNCHANGED <<refr, rcv>>
  PROVE  RefrShape' /\ RcvShape' /\ CompleteRows'
<1>1. (refr.pc # "idle" => refr.gid \in Gids) /\ (rcv.pc # "idle" => rcv.gid \in Gids)
  BY DEF ShellInv, TypeOK, RefrOK, RcvOK
<1>2. RefrShape'
  BY <1>1 DEF ShellInv, RefrShape, Tame
<1>3. RcvShape'
  BY <1>1 DEF ShellInv, RcvShape, Tame
<1>4. CompleteRows'
  BY DEF ShellInv, CompleteRows, Tame
<1> QED BY <1>2, <1>3, <1>4

\* The refresh thread: what it saw and did so far carries over from step to step,
\* and it completes a row only when the task is gone or complete.
LEMMA ShellRefresh ==
  ASSUME ShellInv, Refresh
  PROVE  RefrShape' /\ RcvShape' /\ CompleteRows'
<1> USE DEF ShellInv
<1>1. UNCHANGED rcv
  BY DEF Refresh, RefrStep, RefrBegin, RefrCheck, RefrPromote, RefrShell, RefrRowStatus,
     RefrRowEngine, RefrErase, RefrEnqueue, RefrPending, RefrSnapshot, RefrWrite, RefrReact,
     RefrReactClose, RefrReactDone, RefrElse
<1>2. refr.pc # "idle" => refr.gid \in Gids /\ status[refr.gid] # "new"
  BY DEF TypeOK, RefrOK, RefrShape
<1>3. /\ refr \in [pc : RefrPcs, gid : GidOrNone, held : BOOLEAN, live : BOOLEAN,
                   seen : {"gone", "paused", "active", "complete", "error"}]
      /\ aria \in [Gids -> {"gone", "paused", "active", "complete", "error"}]
      /\ status \in [Gids -> {"new", "active", "complete", "failed", "deleted"}]
      /\ rcv.pc # "idle" => rcv.gid \in Gids
  BY DEF TypeOK, RefrOK, WorldOK, RowsOK, RcvOK
<1>4. ASSUME UNCHANGED <<status, aria>> PROVE RcvShape' /\ CompleteRows'
  BY <1>1, <1>4 DEF RcvShape, CompleteRows
<1>5. ASSUME NEW g \in Gids, RefrBegin(g) PROVE RefrShape' /\ RcvShape' /\ CompleteRows'
  <2>1. UNCHANGED aria
    BY <1>5 DEF RefrBegin, world
  <2>2. RefrShape'
    BY <1>3, <1>5, <2>1 DEF RefrBegin, RefrShape
  <2>3. RcvShape' /\ CompleteRows'
    BY <1>1, <1>3, <1>5, <2>1 DEF RefrBegin, RcvShape, CompleteRows
  <2> QED BY <2>2, <2>3
<1>6. CASE RefrCheck \/ RefrPromote \/ RefrPending \/ RefrSnapshot \/ RefrReactClose
  <2>1. UNCHANGED <<status, aria>>
    BY <1>6 DEF RefrCheck, RefrPromote, RefrPending, RefrSnapshot, RefrReactClose, rows, world
  <2>2. ASSUME RefrCheck PROVE RefrShape'
    BY <1>2, <1>3, <2>1, <2>2 DEF RefrCheck, RAt, RGoto, RefrShape
  <2>3. ASSUME RefrPromote PROVE RefrShape'
    BY <1>2, <1>3, <2>1, <2>3 DEF RefrPromote, RFallThrough, RAt, RGoto, RDone, IdleRefr,
       RefrShape
  <2>4. ASSUME RefrPending \/ RefrSnapshot PROVE RefrShape'
    BY <1>2, <1>3, <2>1, <2>4 DEF RefrPending, RefrSnapshot, RAt, RefrShape
  <2>5. ASSUME RefrReactClose PROVE RefrShape'
    BY <1>2, <1>3, <2>1, <2>5 DEF RefrReactClose, RAt, RGoto, RefrShape
  <2> QED BY <1>4, <1>6, <2>1, <2>2, <2>3, <2>4, <2>5
<1>7. CASE RefrErase \/ RefrEnqueue
  <2>1. UNCHANGED <<status, aria>>
    BY <1>7 DEF RefrErase, RefrEnqueue, rows, world
  <2>2. RefrShape'
    BY <1>2, <1>3, <1>7, <2>1
    DEF RefrErase, RefrEnqueue, RAt, RGoto, RDone, IdleRefr, RefrShape
  <2> QED BY <1>4, <2>1, <2>2
<1>8. CASE RefrShell
  <2>1. UNCHANGED status
    BY <1>8 DEF RefrShell, rows
  <2>2. CASE aria' = [aria EXCEPT ![refr.gid] = "gone"] /\ RGoto("rowStatus")
    <3>1. RefrShape'
      BY <1>2, <1>3, <1>8, <2>1, <2>2 DEF RefrShell, RAt, RGoto, RefrShape
    <3>2. RcvShape' /\ CompleteRows'
      BY <1>1, <1>3, <2>1, <2>2 DEF RcvShape, CompleteRows
    <3> QED BY <3>1, <3>2
  <2>3. CASE UNCHANGED aria /\ RFallThrough
    BY <1>2, <1>3, <1>4, <1>8, <2>1, <2>3
    DEF RefrShell, RFallThrough, RAt, RGoto, RDone, IdleRefr, RefrShape
  <2> QED BY <1>8, <2>2, <2>3 DEF RefrShell
<1>9. CASE RefrRowStatus
  <2>1. UNCHANGED aria
    BY <1>9 DEF RefrRowStatus, world
  <2>2. RefrShape'
    BY <1>2, <1>3, <1>9, <2>1 DEF RefrRowStatus, SetStatus, RAt, RGoto, RefrShape
  <2>3. RcvShape'
    BY <1>1, <1>3, <1>9, <2>1 DEF RefrRowStatus, SetStatus, RcvShape
  <2>4. CompleteRows'
    BY <1>2, <1>3, <1>9, <2>1 DEF RefrRowStatus, SetStatus, RAt, RefrShape, CompleteRows
  <2> QED BY <2>2, <2>3, <2>4
<1>10. CASE RefrRowEngine
  <2>1. UNCHANGED <<status, aria>>
    BY <1>10 DEF RefrRowEngine, world
  <2>2. RefrShape'
    BY <1>2, <1>3, <1>10, <2>1 DEF RefrRowEngine, RAt, RGoto, RefrShape
  <2> QED BY <1>4, <2>1, <2>2
<1>11. CASE RefrWrite
  <2>1. UNCHANGED aria
    BY <1>11 DEF RefrWrite, world
  <2>2. RefrShape'
    BY <1>2, <1>3, <1>11, <2>1 DEF RefrWrite, SetStatus, RowOf, RAt, RGoto, RefrShape
  <2>3. RcvShape'
    BY <1>1, <1>3, <1>11, <2>1 DEF RefrWrite, SetStatus, RowOf, RcvShape
  <2>4. CompleteRows'
    BY <1>2, <1>3, <1>11, <2>1 DEF RefrWrite, SetStatus, RowOf, RAt, RefrShape, CompleteRows
  <2> QED BY <2>2, <2>3, <2>4
<1>12. CASE RefrReact
  <2>1. UNCHANGED aria /\ RAt("react")
    BY <1>12 DEF RefrReact, world
  <2>2. UNCHANGED status \/ SetStatus(refr.gid, "failed")
    BY <1>12 DEF RefrReact
  <2>3. \/ RDone \/ RGoto("promote")
        \/ refr.seen = "complete" /\ (RGoto("reactClose") \/ RGoto("reactDone"))
    BY <1>12 DEF RefrReact
  <2>4. RefrShape'
    BY <1>2, <1>3, <2>1, <2>2, <2>3
    DEF SetStatus, RAt, RGoto, RDone, IdleRefr, RefrShape
  <2>5. RcvShape' /\ CompleteRows'
    BY <1>1, <1>3, <2>1, <2>2 DEF SetStatus, RcvShape, CompleteRows
  <2> QED BY <2>4, <2>5
<1>13. CASE RefrReactDone
  <2>1. UNCHANGED aria
    BY <1>13 DEF RefrReactDone, world
  <2>2. RefrShape'
    BY <1>3, <1>13 DEF RefrReactDone, RDone, IdleRefr, RefrShape
  <2>3. RcvShape'
    BY <1>1, <1>3, <1>13, <2>1 DEF RefrReactDone, SetStatus, RcvShape
  <2>4. CompleteRows'
    BY <1>2, <1>3, <1>13, <2>1 DEF RefrReactDone, SetStatus, RAt, RefrShape, CompleteRows
  <2> QED BY <2>2, <2>3, <2>4
<1> QED BY <1>5, <1>6, <1>7, <1>8, <1>9, <1>10, <1>11, <1>12, <1>13 DEF Refresh, RefrStep

\* Recovery completes a row only after it removed the shell.
LEMMA ShellRecovery ==
  ASSUME ShellInv, Recovery
  PROVE  RefrShape' /\ RcvShape' /\ CompleteRows'
<1> USE DEF ShellInv
<1>1. UNCHANGED refr
  BY DEF Recovery, RcvStep, RcvPick, RcvReplay, RcvHash, RcvShell, RcvRowStatus, RcvClean,
     RcvEngine, RcvResume, RcvRowActive, RcvStart, RcvElse
<1>2. rcv.pc # "idle" => rcv.gid \in Gids /\ status[rcv.gid] # "new"
  BY DEF TypeOK, RcvOK, RcvShape
<1>3. /\ rcv \in [pc : RcvPcs, gid : GidOrNone, paused : SUBSET Gids,
                  plan : [Gids -> {"idle", "engine", "hash", "replay"}]]
      /\ aria \in [Gids -> {"gone", "paused", "active", "complete", "error"}]
      /\ status \in [Gids -> {"new", "active", "complete", "failed", "deleted"}]
      /\ refr.pc # "idle" => refr.gid \in Gids
  BY DEF TypeOK, RefrOK, WorldOK, RowsOK, RcvOK
<1>4. ASSUME UNCHANGED <<status, aria>> PROVE RefrShape' /\ CompleteRows'
  BY <1>1, <1>4 DEF RefrShape, CompleteRows
<1>5. ASSUME NEW g \in Gids, RcvPick(g) PROVE RefrShape' /\ RcvShape' /\ CompleteRows'
  <2>1. UNCHANGED <<status, aria>>
    BY <1>5 DEF RcvPick, rows, world
  <2>2. RcvShape'
    <3>1. rcv'.pc = rcv.plan[g] /\ rcv'.gid = g
      BY <1>3, <1>5 DEF RcvPick
    <3>2. rcv'.plan = [rcv.plan EXCEPT ![g] = "idle"]
      BY <1>3, <1>5 DEF RcvPick
    <3>3. rcv.plan[g] # "idle"
      BY <1>5 DEF RcvPick
    <3> QED BY <1>3, <2>1, <3>1, <3>2, <3>3 DEF RcvShape
  <2> QED BY <1>4, <2>1, <2>2
<1>6. CASE RcvReplay \/ RcvHash \/ RcvClean \/ RcvEngine \/ RcvStart
  <2>1. UNCHANGED <<status, aria>>
    BY <1>6 DEF RcvReplay, RcvHash, RcvClean, RcvEngine, RcvStart, rows, world
  <2>2. ASSUME RcvReplay \/ RcvHash \/ RcvStart PROVE RcvShape'
    BY <1>2, <1>3, <2>1, <2>2 DEF RcvReplay, RcvHash, RcvStart, RcvAt, RcvGoto, RcvNext, RcvShape
  <2>3. ASSUME RcvClean \/ RcvEngine PROVE RcvShape'
    <3>1. rcv.pc # "idle" /\ \/ RcvGoto("engine") \/ RcvNext
                             \/ RcvGoto("rowActive") \/ RcvGoto("resume")
      BY <2>3 DEF RcvClean, RcvEngine, RcvAt
    <3> QED BY <1>2, <1>3, <2>1, <3>1 DEF RcvGoto, RcvNext, RcvShape
  <2> QED BY <1>4, <1>6, <2>1, <2>2, <2>3
<1>7. CASE RcvShell
  <2>1. UNCHANGED status
    BY <1>7 DEF RcvShell, rows
  <2>2. RcvShape'
    BY <1>2, <1>3, <1>7, <2>1 DEF RcvShell, RcvAt, RcvGoto, RcvNext, RcvShape
  <2>3. RefrShape' /\ CompleteRows'
    BY <1>1, <1>3, <1>7, <2>1 DEF RcvShell, RefrShape, CompleteRows
  <2> QED BY <2>2, <2>3
<1>8. CASE RcvRowStatus
  <2>1. UNCHANGED aria
    BY <1>8 DEF RcvRowStatus, world
  <2>2. RcvShape'
    BY <1>2, <1>3, <1>8, <2>1 DEF RcvRowStatus, SetStatus, RcvAt, RcvGoto, RcvShape
  <2>3. RefrShape'
    BY <1>1, <1>3, <1>8, <2>1 DEF RcvRowStatus, SetStatus, RefrShape
  <2>4. CompleteRows'
    BY <1>2, <1>3, <1>8, <2>1 DEF RcvRowStatus, SetStatus, RcvAt, RcvShape, CompleteRows
  <2> QED BY <2>2, <2>3, <2>4
<1>9. CASE RcvResume
  <2>1. UNCHANGED status /\ Unpause(rcv.gid) /\ rcv.gid \in Gids
    BY <1>2, <1>9 DEF RcvResume, RcvAt, rows
  <2>2. RcvShape'
    BY <1>2, <1>3, <1>9, <2>1 DEF RcvResume, RcvAt, RcvGoto, RcvShape
  <2>3. RefrShape' /\ CompleteRows'
    BY <1>1, <1>3, <2>1 DEF Unpause, Rpc, RefrShape, CompleteRows
  <2> QED BY <2>2, <2>3
<1>10. CASE RcvRowActive
  <2>1. UNCHANGED aria
    BY <1>10 DEF RcvRowActive, world
  <2>2. RcvShape'
    BY <1>2, <1>3, <1>10, <2>1 DEF RcvRowActive, SetStatus, RcvAt, RcvNext, RcvShape
  <2>3. RefrShape' /\ CompleteRows'
    BY <1>1, <1>3, <1>10, <2>1 DEF RcvRowActive, SetStatus, RefrShape, CompleteRows
  <2> QED BY <2>2, <2>3
<1> QED BY <1>5, <1>6, <1>7, <1>8, <1>9, <1>10 DEF Recovery, RcvStep

\* The process ends and starts with nothing under way.
LEMMA ShellLifecycle ==
  ASSUME ShellInv, Lifecycle
  PROVE  RefrShape' /\ RcvShape' /\ CompleteRows'
<1> USE DEF ShellInv
<1>1. CASE ShutBegin \/ ShutDiscovery \/ ShutWorkers
  BY <1>1 DEF ShutBegin, ShutDiscovery, ShutWorkers, ShutElse, rows, world,
     RefrShape, RcvShape, CompleteRows
<1>2. CASE ShutDown \/ Crash
  <2>1. UNCHANGED <<status, aria>> /\ refr' = IdleRefr /\ rcv' = IdleRcv
    BY <1>2 DEF ShutDown, Crash, ProcessEnds, rows
  <2> QED BY <2>1 DEF IdleRefr, IdleRcv, RefrShape, RcvShape, CompleteRows
<1>3. CASE Restart
  <2>1. UNCHANGED <<status, refr>>
    BY <1>3 DEF Restart, rows
  <2>2. \A g \in Gids : aria[g] \in {"gone", "complete"} => aria'[g] = "gone"
    BY <1>3 DEF Restart
  <2>3. refr.pc # "idle" => refr.gid \in Gids
    BY DEF TypeOK, RefrOK
  <2>4. RefrShape' /\ CompleteRows'
    BY <2>1, <2>2, <2>3 DEF RefrShape, CompleteRows
  <2>5. rcv'.pc = "idle" /\ rcv'.plan = [g \in Gids |-> RcvPlan(g)]
    BY <1>3 DEF Restart, IdleRcv
  <2>6. RcvShape'
    BY <2>1, <2>5 DEF RcvPlan, RcvShape
  <2> QED BY <2>4, <2>6
<1> QED BY <1>1, <1>2, <1>3 DEF Lifecycle

\* The invariant is inductive.
LEMMA ShellNext == ShellInv /\ [Next]_vars => ShellInv'
<1> SUFFICES ASSUME ShellInv, [Next]_vars PROVE RefrShape' /\ RcvShape' /\ CompleteRows'
  BY TypeNext DEF ShellInv
<1>1. TypeOK
  BY DEF ShellInv
<1>2. CASE Engines
  BY <1>1, <1>2, TameEngines, TameKeeps
<1>3. ASSUME NEW c \in Callers, CallBegin(c) \/ CallStep(c)
      PROVE  RefrShape' /\ RcvShape' /\ CompleteRows'
  BY <1>1, <1>3, TameCalls, TameKeeps
<1>4. CASE Discovery
  BY <1>1, <1>4, TameDiscovery, TameKeeps
<1>5. ASSUME NEW w \in Workers, Worker(w) PROVE RefrShape' /\ RcvShape' /\ CompleteRows'
  BY <1>1, <1>5, TameWorker, TameKeeps
<1>6. CASE Refresh \/ Recovery \/ Lifecycle
  BY <1>6, ShellRefresh, ShellRecovery, ShellLifecycle
<1>7. CASE UNCHANGED vars
  BY <1>1, <1>7, TameStutter, TameKeeps DEF vars, rows, world
<1> QED BY <1>2, <1>3, <1>4, <1>5, <1>6, <1>7 DEF Next

\* Whatever commands are issued and however often the process dies, a completed
\* row has no aria2 task that could be resumed or restored: the shell is removed
\* before TryFinalizeCanonicalHybrid and the recovery write the row.
THEOREM CompleteShellGoneHolds == Spec => []CompleteShellGone
<1>1. Init => ShellInv
  BY TypeInit DEF Init, IdleRefr, IdleRcv, ShellInv, RefrShape, RcvShape, CompleteRows
<1>2. ShellInv /\ [Next]_vars => ShellInv'
  BY ShellNext
<1>3. ShellInv => CompleteShellGone
  BY DEF ShellInv, CompleteRows, CompleteShellGone
<1> QED BY <1>1, <1>2, <1>3, PTL DEF Spec

-----------------------------------------------------------------------------
(* Nobody is stranded.  Commands come one after the other (Sole), no call is   *)
(* lost and the process does not end.  For a download whose aria2 task has not *)
(* ended and that is not being deleted (Going), somebody is always bound to    *)
(* advance it: it has one place at a time, with the caller, as a probe, in the *)
(* queue, with a worker, or in a phase that waits for nobody.                  *)

\* There is one caller.
Sole == \A c, d \in Callers : c = d

\* The caller, or the discovery thread, is at one of these steps for g.
CallAt(g, pcs) == \E c \in Callers : call[c].gid = g /\ call[c].pc \in pcs
DiscAt(g, pcs) == disc.gid = g /\ disc.pc \in pcs

\* aria2 has ended or forgotten the task; the others matter until they are deleted.
Over(g) == status[g] # "new" /\ aria[g] \in {"gone", "complete", "error"}
Going(g) == ~Over(g) /\ ~CallAt(g, {"delClose", "delLock", "delShell"})

\* A worker that has the download, or gives it up; a caller that pauses, that looks for
\* metadata once more, that is about to start the download.
FrontPcs == {"release", "claim", "open", "connect", "poll", "status", "close", "verify",
             "publish", "failClose", "failFile", "failJudge"}
DropPcs == {"dropClose", "dropErase"}
PausePcs == {"pauseMark", "pauseSession", "pauseCancel", "pauseClose", "pauseAria"}
TryPcs == {"tryCheck", "tryFile", "tryProbe"}
CarePcs == AddPcs \cup TryPcs \cup {"resumeMark", "tryEngine", "tryQueue", "resumeAria"}

Fronts(w, g) == work[w].gid = g /\ work[w].pc \in FrontPcs

\* A new download has left no trace.
Blank(g) ==
    (status[g] = "new" \/ CallAt(g, {"addRow", "addPolicy", "addEngine", "addProbe"}))
       => phase[g] = "none" /\ g \notin probe \cup suppressed \cup userPaused

\* One worker transfers what is Downloading, and nobody else touches the phase.
OneFront(g) ==
    /\ phase[g] = "Downloading" => \E w \in Workers : work[w].gid = g /\ work[w].pc \in FrontPcs
    /\ \A w \in Workers : work[w].gid = g =>
          /\ work[w].pc \in FrontPcs => phase[g] = "Downloading"
          /\ work[w].pc \notin DropPcs
    /\ \A v, w \in Workers :
          (Fronts(v, g) /\ Fronts(w, g)) => v = w
    /\ refr.gid = g /\ refr.pc \in {"promote", "shell"} => phase[g] = "Ready"

\* What is Pending is in the queue once, or paused.
OneJob(g) ==
    /\ hjobs[g] = IF g \in queued THEN 1 ELSE 0
    /\ g \in queued => phase[g] = "Pending"
    /\ phase[g] = "Pending" => g \in queued \cup hpaused

\* A probe has one discovery on its way.
OneProbe(g) ==
    /\ djobs[g] \in {0, 1}
    /\ g \in probe <=> \/ djobs[g] = 1
                       \/ DiscAt(g, {"lookup", "queue", "decide"})
                       \/ CallAt(g, {"addQueue", "tryEngine", "tryQueue"})
    /\ ~(djobs[g] = 1 /\ DiscAt(g, {"lookup", "queue", "decide"}))
    /\ ~(djobs[g] = 1 /\ CallAt(g, {"addQueue", "tryEngine", "tryQueue"}))
    /\ ~(DiscAt(g, {"lookup", "queue", "decide"})
          /\ CallAt(g, {"addQueue", "tryEngine", "tryQueue"}))
    /\ g \in probe => phase[g] = "none"
    /\ CallAt(g, TryPcs) => phase[g] = "none" /\ g \notin probe
    /\ CallAt(g, {"pauseCancel"}) => phase[g] \in {"none", "Failed"} /\ g \notin probe
    /\ g \in suppressed => phase[g] \in {"none", "Failed"} /\ g \notin probe

\* What memory takes for paused is so in the row, or being resumed.
PausesKept(g) ==
    (g \in userPaused \/ (phase[g] = "Pending" /\ g \in hpaused))
       => g \in pausedRec \/ CallAt(g, {"resumeMark"})

\* Whoever has stopped aria2 for a download that is wanted is about to go on with it.
Tended(g) ==
    aria[g] = "paused" /\ g \notin pausedRec =>
       \/ CallAt(g, CarePcs) \/ g \in probe \/ phase[g] # "none"
       \/ DiscAt(g, {"handBack", "resume"}) /\ disc.resume

\* Somebody advances g, or it waits for nobody.
Sure(g) ==
    /\ g \notin cancel
    /\ Blank(g) /\ OneFront(g) /\ OneJob(g) /\ OneProbe(g) /\ PausesKept(g) /\ Tended(g)

\* The caller and the refresh thread, and what they know.
Known ==
    /\ run = "up" /\ restarts = 0
    /\ \A c \in Callers :
          /\ call[c].pc \notin {"idle", "addRow"} => status[call[c].gid] # "new"
          /\ call[c].pc \in PausePcs => call[c].gid \in pausedRec
          /\ call[c].pc \in {"addEngine", "addProbe"} /\ call[c].owned
                => call[c].gid \in pausedRec
    /\ refr.pc # "idle" =>
          /\ status[refr.gid] # "new"
          /\ refr.seen \in {"complete", "error"} => Over(refr.gid)
          /\ refr.pc \in {"rowStatus", "rowEngine", "erase", "enqueue", "reactClose", "reactDone"}
                => Over(refr.gid)
    /\ \A g \in Gids : status[g] = "new" /\ aria[g] # "gone" => CallAt(g, {"addRow"})

\* The inductive part.
AllSure == Known /\ \A g \in Gids : Going(g) => Sure(g)

-----------------------------------------------------------------------------
(* What the steps keep. *)

\* One command after the other, no lost call, and one run of the program.  TLC
\* refutes the property without any of the three: an unpause that gets lost, a Pause
\* that marks memory after the Resume that followed it, a crash in AddHttpDownload.
Orderly == Sole /\ ~RpcFails /\ MaxRestarts = 0

StrandInv == TypeOK /\ AllSure

\* What has ended or is being deleted stays so.
Later ==
    \A g \in Gids : /\ status[g] # "new" => status'[g] # "new"
                    /\ Over(g) => Over(g)'
                    /\ Going(g)' => Going(g)

\* What each lemma below shows of a step.
SureParts == Known' /\ Later /\ \A g \in Gids : Going(g)' => Sure(g)'

\* The caller is where its record says.
LEMMA TheCaller ==
  ASSUME Sole, NEW c \in Callers
  PROVE  /\ \A d \in Callers : d = c
         /\ \A g, S : CallAt(g, S) <=> (call[c].gid = g /\ call[c].pc \in S)
         /\ \A g, S : CallAt(g, S)' <=> (call'[c].gid = g /\ call'[c].pc \in S)
BY DEF Sole, CallAt

\* A step of another thread leaves the caller where it is.
LEMMA CallKept ==
  ASSUME UNCHANGED call
  PROVE  \A g, S : CallAt(g, S)' <=> CallAt(g, S)
BY DEF CallAt

\* A thread works on g.
OnIt(x, g) == x.pc # "idle" /\ x.gid = g

\* A step leaves what is kept about g alone, and the threads that work on g.
SameBooks(g) ==
    /\ status'[g] = status[g] /\ aria'[g] = aria[g] /\ phase'[g] = phase[g]
    /\ djobs'[g] = djobs[g] /\ hjobs'[g] = hjobs[g]
    /\ g \in pausedRec' <=> g \in pausedRec
    /\ g \in cancel' <=> g \in cancel
    /\ g \in hpaused' <=> g \in hpaused
    /\ g \in queued' <=> g \in queued
    /\ g \in probe' <=> g \in probe
    /\ g \in suppressed' <=> g \in suppressed
    /\ g \in userPaused' <=> g \in userPaused
SamePlaces(g) ==
    /\ \A S : "idle" \notin S => (CallAt(g, S)' <=> CallAt(g, S))
    /\ \A S : "idle" \notin S => (DiscAt(g, S)' <=> DiscAt(g, S))
    /\ DiscAt(g, {"handBack", "resume"})' => disc'.resume = disc.resume
    /\ \A w \in Workers : OnIt(work'[w], g) \/ OnIt(work[w], g) => work'[w] = work[w]
    /\ OnIt(refr', g) => refr' = refr

\* Such a step leaves g as sure as it was.
LEMMA Bystander ==
  ASSUME NEW g \in Gids, Sure(g), SameBooks(g), SamePlaces(g)
  PROVE  Sure(g)'
<1>1. /\ "idle" \notin {"addRow", "addPolicy", "addEngine", "addProbe"}
      /\ "idle" \notin {"pauseCancel"}
      /\ "idle" \notin {"addQueue", "tryEngine", "tryQueue"} /\ "idle" \notin TryPcs
      /\ "idle" \notin {"resumeMark"} /\ "idle" \notin CarePcs
      /\ "idle" \notin {"lookup", "queue", "decide"} /\ "idle" \notin {"handBack", "resume"}
      /\ "idle" \notin FrontPcs /\ "idle" \notin DropPcs
  BY DEF TryPcs, CarePcs, AddPcs, FrontPcs, DropPcs
<1>2. Blank(g)' /\ PausesKept(g)'
  BY <1>1 DEF Sure, Blank, PausesKept, SameBooks, SamePlaces
<1>3. OneFront(g)'
  BY <1>1 DEF Sure, OneFront, Fronts, SameBooks, SamePlaces, OnIt
<1>4. OneJob(g)'
  BY DEF Sure, OneJob, SameBooks
<1>5. OneProbe(g)'
  BY <1>1 DEF Sure, OneProbe, SameBooks, SamePlaces
<1>6. Tended(g)'
  BY <1>1 DEF Sure, Tended, SameBooks, SamePlaces
<1> QED BY <1>2, <1>3, <1>4, <1>5, <1>6 DEF Sure, SameBooks

\* A new download, and the row it gets.
LEMMA SureAddShell ==
  ASSUME StrandInv, Orderly, NEW c \in Callers, NEW h \in Gids, AddShell(c, h)
  PROVE  SureParts
<1> USE DEF StrandInv
<1>1. /\ \A g, S : CallAt(g, S) <=> (call[c].gid = g /\ call[c].pc \in S)
      /\ \A g, S : CallAt(g, S)' <=> (call'[c].gid = g /\ call'[c].pc \in S)
      /\ \A d \in Callers : d = c
  BY TheCaller DEF Orderly
<1>2. /\ call[c].pc = "idle" /\ call'[c].pc = "addRow" /\ call'[c].gid = h
      /\ status[h] = "new" /\ aria[h] = "gone" /\ aria' = [aria EXCEPT ![h] = "paused"]
  BY DEF AddShell, MayCall, Idle, TypeOK, CallOK
<1>3. UNCHANGED <<rows, states, sets, jobs, disc, work, refr, run, restarts>>
  BY DEF AddShell, CallElse
<1>4. Later
  BY <1>1, <1>2, <1>3 DEF Later, Going, Over, rows, TypeOK, WorldOK
<1>5. Known'
  BY <1>1, <1>2, <1>3, <1>4 DEF AllSure, Known, Later, rows, PausePcs, TypeOK, RefrOK, WorldOK
<1>6. ASSUME NEW g \in Gids, Going(g)' PROVE Sure(g)'
  <2>1. Sure(g)
    BY <1>4, <1>6 DEF Later, AllSure
  <2>2. Blank(g)' /\ OneProbe(g)'
    BY <1>1, <1>2, <1>3, <2>1 DEF Sure, Blank, OneProbe, DiscAt, rows, states, sets, jobs, TryPcs
  <2>3. OneFront(g)' /\ OneJob(g)' /\ g \notin cancel'
    BY <1>3, <2>1 DEF Sure, OneFront, Fronts, OneJob, states, jobs
  <2>4. PausesKept(g)'
    BY <1>1, <1>2, <1>3, <2>1 DEF Sure, PausesKept, rows, states, sets
  <2>5. Tended(g)'
    <3>1. "addRow" \in CarePcs /\ "idle" \notin CarePcs
      BY DEF CarePcs, AddPcs, TryPcs
    <3>2. CallAt(g, CarePcs) => CallAt(g, CarePcs)'
      BY <1>1, <1>2, <3>1
    <3>3. g = h => CallAt(g, CarePcs)'
      BY <1>1, <1>2, <3>1
    <3>4. g # h => aria'[g] = aria[g]
      BY <1>2 DEF TypeOK, WorldOK
    <3> QED BY <1>3, <2>1, <3>2, <3>3, <3>4 DEF Sure, Tended, DiscAt, rows, states, sets
  <2> QED BY <2>2, <2>3, <2>4, <2>5 DEF Sure
<1> QED BY <1>4, <1>5, <1>6 DEF SureParts

\* The row is told everything before the probe is registered and queued.
LEMMA SureAdd ==
  ASSUME StrandInv, Orderly, NEW c \in Callers,
         AddRow(c) \/ AddPolicy(c) \/ AddEngine(c) \/ AddProbe(c) \/ QueueDiscovery(c)
  PROVE  SureParts
<1> USE DEF StrandInv
<1>1. /\ \A g, S : CallAt(g, S) <=> (call[c].gid = g /\ call[c].pc \in S)
      /\ \A g, S : CallAt(g, S)' <=> (call'[c].gid = g /\ call'[c].pc \in S)
      /\ \A d \in Callers : d = c
  BY TheCaller DEF Orderly
<1>2. call[c].gid \in Gids
  BY DEF AddRow, AddPolicy, AddEngine, AddProbe, QueueDiscovery, At, TypeOK, CallOK
<1>3. /\ UNCHANGED <<aria, states, suppressed, hjobs, disc, work, refr, run, restarts>>
      /\ \A g \in Gids : status'[g] = status[g] \/ status'[g] = "active"
  BY <1>2 DEF AddRow, AddPolicy, AddEngine, AddProbe, QueueDiscovery, rows, world, sets, jobs,
     CallElse, SetStatus, TypeOK, RowsOK
<1>4. Later
  BY <1>1, <1>3 DEF AddRow, AddPolicy, AddEngine, AddProbe, QueueDiscovery, At, Later, Going, Over
<1>5. Known'
  BY <1>1, <1>2, <1>3, <1>4 DEF AddRow, AddPolicy, AddEngine, AddProbe, QueueDiscovery, At, Gid,
     Goto, Done, IdleCall, SetStatus, AllSure, Known, Later, rows, PausePcs, TypeOK, RefrOK,
     CallOK, RowsOK
<1>6. ASSUME NEW g \in Gids, Going(g)' PROVE Sure(g)'
  <2>1. Sure(g)
    BY <1>4, <1>6 DEF Later, AllSure
  <2>2. Blank(g)'
    BY <1>1, <1>2, <1>3, <2>1 DEF AddRow, AddPolicy, AddEngine, AddProbe, QueueDiscovery, At,
       Gid, Goto, Done, IdleCall, SetStatus, AllSure, Known, Sure, Blank, rows, world, states,
       sets, jobs, TypeOK, RowsOK, CallOK
  <2>3. OneProbe(g)'
    BY <1>1, <1>2, <1>3, <2>1 DEF AddRow, AddPolicy, AddEngine, AddProbe, QueueDiscovery, At,
       Gid, Goto, Done, IdleCall, Sure, Blank, OneProbe, DiscAt, rows, world, states, sets,
       jobs, TypeOK, StatesOK, CallOK, TryPcs
  <2>4. OneFront(g)' /\ OneJob(g)' /\ g \notin cancel'
    BY <1>3, <2>1 DEF Sure, OneFront, Fronts, OneJob, states
  <2>5. PausesKept(g)'
    BY <1>1, <1>2, <1>3, <2>1 DEF AddRow, AddPolicy, AddEngine, AddProbe, QueueDiscovery, At,
       Gid, Goto, Done, IdleCall, AllSure, Known, Sure, Blank, PausesKept, rows, world, states,
       sets, jobs, TypeOK, StatesOK, CallOK
  <2>6. Tended(g)'
    BY <1>1, <1>2, <1>3, <2>1 DEF AddRow, AddPolicy, AddEngine, AddProbe, QueueDiscovery, At,
       Gid, Goto, Done, IdleCall, Sure, OneProbe, Tended, DiscAt, CarePcs, AddPcs, rows, world,
       states, sets, jobs, TypeOK, StatesOK, CallOK
  <2> QED BY <2>2, <2>3, <2>4, <2>5, <2>6 DEF Sure
<1> QED BY <1>4, <1>5, <1>6 DEF SureParts

\* Pause: the row says so before memory does.
LEMMA SurePause ==
  ASSUME StrandInv, Orderly, NEW c \in Callers,
         \/ \E h \in Gids : PauseRecord(c, h)
         \/ PauseMark(c) \/ PauseSession(c) \/ PauseClose(c) \/ PauseAria(c)
  PROVE  SureParts
<1> USE DEF StrandInv
<1>1. /\ \A g, S : CallAt(g, S) <=> (call[c].gid = g /\ call[c].pc \in S)
      /\ \A g, S : CallAt(g, S)' <=> (call'[c].gid = g /\ call'[c].pc \in S)
      /\ \A d \in Callers : d = c
  BY TheCaller DEF Orderly
<1>2. call[c].pc # "idle" => call[c].gid \in Gids
  BY DEF TypeOK, CallOK
<1>3. /\ UNCHANGED <<status, phase, cancel, queued, probe, suppressed, jobs, disc, work, refr,
            run, restarts>>
      /\ \A g \in Gids : aria'[g] = aria[g] \/ (aria[g] = "active" /\ aria'[g] = "paused")
  BY <1>2 DEF PauseRecord, PauseMark, PauseSession, PauseClose, PauseAria, At, Rpc, rows, world,
     states, sets, CallElse, TypeOK, WorldOK
<1>4. /\ call[c].pc \in PausePcs \cup {"idle"} /\ call'[c].pc \in PausePcs \cup {"idle"}
      /\ call'[c].pc # "idle" =>
           /\ call[c].pc = "idle" => /\ call'[c].pc = "pauseMark"
                                     /\ status[call'[c].gid] # "new"
                                     /\ call'[c].gid \in pausedRec'
           /\ call[c].pc # "idle" => call'[c].gid = call[c].gid
      /\ pausedRec \subseteq pausedRec'
      /\ pausedRec' \subseteq Gids
  BY <1>2 DEF PauseRecord, PauseMark, PauseSession, PauseClose, PauseAria, At, Begin, MayCall,
     Idle, Goto, Done, IdleCall, rows, PausePcs, TypeOK, CallOK, RowsOK
<1>5. Later
  BY <1>1, <1>3, <1>4 DEF Later, Going, Over, PausePcs
<1>6. Known'
  BY <1>1, <1>2, <1>3, <1>4, <1>5 DEF AllSure, Known, Later, PausePcs, TypeOK, RefrOK, CallOK,
     AddPcs
<1>7. ASSUME NEW g \in Gids, Going(g)' PROVE Sure(g)'
  <2>1. Sure(g)
    BY <1>5, <1>7 DEF Later, AllSure
  <2>2. g \in userPaused' \ userPaused \/ g \in hpaused' \ hpaused => g \in pausedRec
    BY <1>1, <1>2 DEF PauseRecord, PauseMark, PauseSession, PauseClose, PauseAria, At, Gid,
       AllSure, Known, PausePcs, states, sets
  <2>3. userPaused \subseteq userPaused' /\ hpaused \subseteq hpaused'
    BY DEF PauseRecord, PauseMark, PauseSession, PauseClose, PauseAria, states, sets
  <2>4. Blank(g)'
    BY <1>1, <1>3, <1>4, <2>1, <2>2 DEF PauseRecord, PauseMark, PauseSession, PauseClose,
       PauseAria, At, Gid, HybridLive, AllSure, Known, Sure, Blank, PausePcs, states, sets
  <2>5. OneProbe(g)'
    BY <1>1, <1>2, <1>3, <1>4, <2>1 DEF PauseRecord, PauseMark, PauseSession, PauseClose,
       PauseAria, Begin, At, Gid, Goto, Done, IdleCall, HybridLive, Sure, OneProbe, DiscAt,
       PausePcs, TryPcs, jobs, TypeOK, StatesOK, CallOK
  <2>6. OneFront(g)' /\ OneJob(g)' /\ g \notin cancel'
    BY <1>3, <2>1, <2>3 DEF Sure, OneFront, Fronts, OneJob, jobs
  <2>7. PausesKept(g)'
    BY <1>1, <1>3, <1>4, <2>1, <2>2 DEF Sure, PausesKept, PausePcs
  <2>8. Tended(g)'
    BY <1>1, <1>2, <1>3, <1>4, <2>1 DEF PauseRecord, PauseMark, PauseSession, PauseClose,
       PauseAria, At, Gid, Rpc, AllSure, Known, Sure, Tended, DiscAt, PausePcs, TryPcs, AddPcs,
       CarePcs, world, TypeOK, WorldOK
  <2> QED BY <2>4, <2>5, <2>6, <2>7, <2>8 DEF Sure
<1> QED BY <1>5, <1>6, <1>7 DEF SureParts

\* Pause of a download no hybrid owns: only a failed one has a state to erase.
LEMMA SureCancel ==
  ASSUME StrandInv, Orderly, NEW c \in Callers, PauseCancel(c)
  PROVE  SureParts
<1> USE DEF StrandInv
<1>1. /\ \A g, S : CallAt(g, S) <=> (call[c].gid = g /\ call[c].pc \in S)
      /\ \A g, S : CallAt(g, S)' <=> (call'[c].gid = g /\ call'[c].pc \in S)
      /\ \A d \in Callers : d = c
  BY TheCaller DEF Orderly
<1>2. call[c].gid \in Gids /\ call[c].pc = "pauseCancel" /\ call'[c].gid = call[c].gid
         /\ call'[c].pc \in {"pauseClose", "pauseAria"}
  BY DEF PauseCancel, At, Goto, TypeOK, CallOK
<1>3. UNCHANGED <<rows, aria, disc, work, refr, run, restarts>>
  BY DEF PauseCancel, CallElse, world
<1>4. Later
  BY <1>1, <1>2, <1>3 DEF Later, Going, Over, rows
<1>5. Known'
  BY <1>1, <1>2, <1>3, <1>4 DEF AllSure, Known, Later, PausePcs, rows, TypeOK, RefrOK
<1>6. ASSUME NEW g \in Gids, Going(g)' PROVE Sure(g)'
  <2>1. Sure(g)
    BY <1>4, <1>6 DEF Later, AllSure
  <2>2. CASE g = call[c].gid
    <3>1. phase[g] \in {"none", "Failed"} /\ g \notin probe /\ hjobs[g] = 0 /\ g \notin queued
      BY <1>1, <1>2, <2>1, <2>2 DEF Sure, OneProbe, OneJob
    <3>2. /\ phase'[g] = "none" /\ g \notin cancel' \cup queued' \cup probe' \cup userPaused'
          /\ hjobs'[g] = 0 /\ djobs'[g] = djobs[g]
      BY <1>2, <2>1, <2>2, <3>1 DEF PauseCancel, CancelSection, CancelErases, EraseState, Gid,
         Sure, TypeOK, StatesOK
    <3>3. Blank(g)'
      BY <1>1, <1>2, <1>3, <2>2 DEF AllSure, Known, Blank, rows
    <3>4. OneFront(g)' /\ OneJob(g)'
      BY <1>3, <2>1, <3>1, <3>2 DEF Sure, OneFront, Fronts, OneJob
    <3>5. OneProbe(g)'
      BY <1>1, <1>2, <1>3, <2>1, <2>2, <3>1, <3>2 DEF Sure, OneProbe, DiscAt, TryPcs
    <3>6. g \in pausedRec'
      BY <1>2, <1>3, <2>2 DEF AllSure, Known, PausePcs, rows
    <3> QED BY <3>2, <3>3, <3>4, <3>5, <3>6 DEF Sure, PausesKept, Tended
  <2>3. CASE g # call[c].gid
    <3>1. SameBooks(g)
      BY <1>2, <1>3, <2>3 DEF PauseCancel, CancelSection, EraseState, Gid, SameBooks, rows,
         TypeOK, StatesOK
    <3>2. SamePlaces(g)
      BY <1>1, <1>2, <1>3, <2>3 DEF SamePlaces, DiscAt
    <3> QED BY <2>1, <3>1, <3>2, Bystander
  <2> QED BY <2>2, <2>3
<1> QED BY <1>4, <1>5, <1>6 DEF SureParts

\* The steps of ResumeHttpDownload.
ResumingPcs == TryPcs \cup {"resumeMark", "resumeSession", "tryEngine", "tryQueue", "resumeAria"}

\* Resume: what the row no longer says paused is carried on by the caller.
LEMMA SureResume ==
  ASSUME StrandInv, Orderly, NEW c \in Callers, (\E h \in Gids : ResumeRecord(c,
     h)) \/ ResumeStep(c)
  PROVE  SureParts
<1> USE DEF StrandInv
<1>1. /\ \A g, S : CallAt(g, S) <=> (call[c].gid = g /\ call[c].pc \in S)
      /\ \A g, S : CallAt(g, S)' <=> (call'[c].gid = g /\ call'[c].pc \in S)
      /\ \A d \in Callers : d = c
  BY TheCaller DEF Orderly
<1>2. call[c].pc # "idle" => call[c].gid \in Gids
  BY DEF TypeOK, CallOK
<1>3. UNCHANGED <<status, djobs, disc, work, refr, run, restarts>>
  BY DEF ResumeRecord, ResumeStep, ResumeFailed, ResumeMark, ResumeSession, TryCheck, TryFile,
     TryProbe, TryEngine, ResumeAria, rows, jobs, CallElse
<1>4. /\ call[c].pc \in ResumingPcs \cup {"idle"} /\ call'[c].pc \in ResumingPcs \cup {"idle"}
      /\ call'[c].pc # "idle" =>
           /\ call[c].pc = "idle" => call'[c].pc = "resumeMark" /\ status[call'[c].gid] # "new"
           /\ call[c].pc # "idle" => call'[c].gid = call[c].gid
  BY <1>2 DEF ResumeRecord, ResumeStep, ResumeFailed, ResumeMark, ResumeSession, TryCheck,
     TryFile,
     TryProbe, TryEngine, ResumeAria, At, Begin, MayCall, Idle, Goto, Done, IdleCall,
     ResumingPcs, TryPcs,
     TypeOK, CallOK
<1>5. \A g \in Gids : aria'[g] = aria[g] \/ (aria[g] = "paused" /\ aria'[g] = "active")
  BY <1>2 DEF ResumeRecord, ResumeStep, ResumeFailed, ResumeMark, ResumeSession, TryCheck,
     TryFile,
     TryProbe, TryEngine, ResumeAria, world, Unpause, Rpc, TypeOK, WorldOK
<1>6. Later
  BY <1>1, <1>3, <1>4, <1>5 DEF Later, Going, Over, ResumingPcs, TryPcs
<1>7. Known'
  BY <1>1, <1>2, <1>3, <1>4, <1>5, <1>6 DEF AllSure, Known, Later, PausePcs, ResumingPcs,
     TryPcs, TypeOK, RefrOK, CallOK
<1>8. ASSUME NEW g \in Gids, Going(g)' PROVE Sure(g)'
  <2>1. Sure(g)
    BY <1>6, <1>8 DEF Later, AllSure
  <2>2. CASE \E h \in Gids : ResumeRecord(c, h)
    <3> PICK h \in Gids : ResumeRecord(c, h)
      BY <2>2
    <3>1. /\ call[c].pc = "idle" /\ call'[c].pc = "resumeMark" /\ call'[c].gid = h
          /\ pausedRec' = pausedRec \ {h} /\ UNCHANGED <<aria, states, sets, jobs>>
      BY DEF ResumeRecord, Begin, MayCall, Idle, TypeOK, CallOK, world
    <3>2. "resumeMark" \in CarePcs /\ "idle" \notin CarePcs
      BY DEF CarePcs, AddPcs, TryPcs
    <3>3. Blank(g)' /\ OneProbe(g)'
      BY <1>1, <1>3, <2>1, <3>1 DEF AllSure, Known, Sure, Blank, OneProbe, DiscAt, TryPcs,
         states, sets, jobs
    <3>4. OneFront(g)' /\ OneJob(g)' /\ PausesKept(g)' /\ Tended(g)' /\ g \notin cancel'
      BY <1>1, <1>3, <2>1, <3>1, <3>2 DEF Sure, OneFront, Fronts, OneJob, PausesKept, Tended,
         DiscAt, states, sets, jobs
    <3> QED BY <3>3, <3>4 DEF Sure
  <2>3. CASE ResumeFailed(c)
    <3> USE DEF ResumeFailed, At, Gid, Goto, Done, IdleCall, EraseState, rows, states, sets, jobs
    <3>1. Blank(g)' /\ OneProbe(g)'
      BY <1>1, <1>2, <1>3, <2>1, <2>3 DEF AllSure, Known, Sure, Blank, OneProbe, DiscAt, TryPcs,
         TypeOK, StatesOK, CallOK
    <3>2. OneFront(g)' /\ OneJob(g)'
      BY <1>1, <1>2, <1>3, <2>1, <2>3 DEF Sure, OneFront, Fronts, OneJob, TypeOK, StatesOK
    <3>3. PausesKept(g)' /\ g \notin cancel'
      BY <1>1, <1>2, <1>3, <2>1, <2>3 DEF Sure, PausesKept, TypeOK, StatesOK, CallOK
    <3>4. Tended(g)'
      BY <1>1, <1>2, <1>3, <2>1, <2>3 DEF Sure, Tended, DiscAt, CarePcs, TryPcs, TypeOK,
         StatesOK, CallOK
    <3> QED BY <3>1, <3>2, <3>3, <3>4 DEF Sure
  <2>4. CASE ResumeMark(c)
    <3> USE DEF ResumeMark, HybridLive, At, Gid, Goto, Done, IdleCall, rows, states, sets, jobs
    <3>1. Blank(g)' /\ OneProbe(g)'
      BY <1>1, <1>2, <1>3, <2>1, <2>4 DEF AllSure, Known, Sure, Blank, OneProbe, DiscAt, TryPcs,
         TypeOK, StatesOK, CallOK
    <3>2. OneFront(g)' /\ OneJob(g)'
      BY <1>1, <1>2, <1>3, <2>1, <2>4 DEF Sure, OneFront, Fronts, OneJob, TypeOK, StatesOK
    <3>3. PausesKept(g)' /\ g \notin cancel'
      BY <1>1, <1>2, <1>3, <2>1, <2>4 DEF Sure, PausesKept, TypeOK, StatesOK, CallOK
    <3>4. Tended(g)'
      BY <1>1, <1>2, <1>3, <2>1, <2>4 DEF Sure, Tended, DiscAt, CarePcs, TryPcs, world, TypeOK,
         StatesOK, CallOK
    <3> QED BY <3>1, <3>2, <3>3, <3>4 DEF Sure
  <2>5. CASE ResumeSession(c) \/ TryCheck(c) \/ TryFile(c) \/ TryEngine(c) \/ ResumeAria(c)
    <3> USE DEF ResumeSession, TryCheck, TryFile, TryEngine, ResumeAria, At, Gid, Goto, Done,
       IdleCall, rows, states, sets, jobs
    <3>1. UNCHANGED <<pausedRec, states, sets, jobs>>
      BY <2>5
    <3>2. OneProbe(g)'
      BY <1>1, <1>2, <1>3, <2>1, <2>5, <3>1 DEF Sure, OneProbe, DiscAt, TryPcs, CallOK, TypeOK
    <3>3. Blank(g)' /\ OneFront(g)' /\ OneJob(g)' /\ PausesKept(g)' /\ g \notin cancel'
      BY <1>1, <1>3, <1>4, <2>1, <2>5, <3>1 DEF AllSure, Known, Sure, Blank, OneFront, Fronts,
         OneJob, PausesKept, ResumingPcs, TryPcs
    <3>4. Tended(g)'
      <4>1. CASE ResumeAria(c)
        BY <1>1, <1>2, <1>3, <1>5, <2>1, <3>1, <4>1 DEF Orderly, Sure, Tended, DiscAt, Unpause,
           Rpc, TypeOK, WorldOK
      <4>2. CASE ~ResumeAria(c)
        BY <1>1, <1>2, <1>3, <1>5, <2>1, <2>5, <3>1, <4>2 DEF Sure, Tended, DiscAt, CarePcs,
           TryPcs, AddPcs, world, CallOK, TypeOK
      <4> QED BY <4>1, <4>2
    <3> QED BY <3>2, <3>3, <3>4 DEF Sure
  <2>6. CASE TryProbe(c)
    <3> USE DEF TryProbe, HybridLive, At, Gid, Goto, Done, IdleCall, rows, states, sets, jobs
    <3>1. Blank(g)' /\ OneProbe(g)'
      BY <1>1, <1>2, <1>3, <2>1, <2>6 DEF AllSure, Known, Sure, Blank, OneProbe, DiscAt, TryPcs,
         TypeOK, StatesOK, CallOK
    <3>2. OneFront(g)' /\ OneJob(g)'
      BY <1>3, <2>1, <2>6 DEF Sure, OneFront, Fronts, OneJob
    <3>3. PausesKept(g)' /\ g \notin cancel'
      BY <1>1, <1>2, <1>3, <2>1, <2>6 DEF Sure, PausesKept, TypeOK, CallOK
    <3>4. Tended(g)'
      BY <1>1, <1>2, <1>3, <2>1, <2>6 DEF Sure, Tended, DiscAt, CarePcs, TryPcs, world, TypeOK,
         CallOK
    <3> QED BY <3>1, <3>2, <3>3, <3>4 DEF Sure
  <2> QED BY <2>2, <2>3, <2>4, <2>5, <2>6 DEF ResumeStep
<1> QED BY <1>6, <1>7, <1>8 DEF SureParts

\* A deletion ends what it is about, and touches nothing else.
LEMMA SureDelete ==
  ASSUME StrandInv, Orderly, NEW c \in Callers, (\E h \in Gids : DeleteCancel(c,
     h)) \/ DeleteStep(c)
  PROVE  SureParts
<1> USE DEF StrandInv
<1>1. /\ \A g, S : CallAt(g, S) <=> (call[c].gid = g /\ call[c].pc \in S)
      /\ \A g, S : CallAt(g, S)' <=> (call'[c].gid = g /\ call'[c].pc \in S)
      /\ \A d \in Callers : d = c
  BY TheCaller DEF Orderly
<1>2. call[c].pc # "idle" => call[c].gid \in Gids
  BY DEF TypeOK, CallOK
<1>3. UNCHANGED <<pausedRec, disc, work, refr, run, restarts>>
  BY DEF DeleteCancel, DeleteStep, DeleteClose, DeleteLock, DeleteShell, DeleteFile, DeleteRow,
     rows, control, CallElse
<1>4. \A g \in Gids : status'[g] = status[g] \/ status'[g] = "deleted"
  BY <1>2 DEF DeleteCancel, DeleteStep, DeleteClose, DeleteLock, DeleteShell, DeleteFile,
     DeleteRow,
     rows, SetStatus, Gid, TypeOK, RowsOK
<1>5. \A g \in Gids : aria'[g] = aria[g] \/ (aria'[g] = "gone" /\ call[c].gid = g
         /\ call[c].pc = "delShell")
  BY <1>2 DEF Orderly, DeleteCancel, DeleteStep, DeleteClose, DeleteLock, DeleteShell,
     DeleteFile, DeleteRow,
     world, Gid, At, TypeOK, WorldOK
<1>6. \/ call[c].pc = "idle" /\ call'[c].pc \in {"delClose", "delLock"} /\ call'[c].gid \in Gids
         /\ status[call'[c].gid] # "new"
      \/ call[c].pc = "delClose" /\ call'[c].pc = "delLock" /\ call'[c].gid = call[c].gid
      \/ call[c].pc = "delLock" /\ call'[c].pc = "delShell" /\ call'[c].gid = call[c].gid
      \/ call[c].pc = "delShell" /\ call'[c].pc = "delFile" /\ call'[c].gid = call[c].gid
            /\ aria'[call[c].gid] = "gone"
      \/ call[c].pc = "delFile" /\ call'[c].pc = "delRow" /\ call'[c].gid = call[c].gid
      \/ call[c].pc \in {"delFile", "delRow"} /\ call'[c].pc = "idle"
  BY <1>2 DEF Orderly, DeleteCancel, DeleteStep, DeleteClose, DeleteLock, DeleteShell,
     DeleteFile, DeleteRow,
     MayCall, Idle, Gid, At, Goto, Done, IdleCall, TypeOK, CallOK, WorldOK
<1>7. Later
  BY <1>1, <1>2, <1>4, <1>5, <1>6 DEF AllSure, Known, Later, Going, Over, TypeOK, CallOK
<1>8. Known'
  <2>1. call'[c].pc \notin {"idle", "addRow"} => status'[call'[c].gid] # "new"
    BY <1>2, <1>4, <1>6 DEF AllSure, Known
  <2>2. call'[c].pc \notin PausePcs \cup {"addEngine", "addProbe"}
    BY <1>6 DEF PausePcs
  <2>3. (refr.pc # "idle" => refr.gid \in Gids) /\ (call[c].pc = "delShell"
           => status[call[c].gid] # "new")
    BY DEF AllSure, Known, TypeOK, RefrOK
  <2>4. \A g \in Gids : status'[g] = "new" /\ aria'[g] # "gone" => CallAt(g, {"addRow"})'
    BY <1>1, <1>4, <1>5, <1>6 DEF AllSure, Known
  <2> QED BY <1>1, <1>3, <1>7, <2>1, <2>2, <2>3, <2>4 DEF AllSure, Known, Later
<1>9. ASSUME NEW g \in Gids, Going(g)' PROVE Sure(g)'
  <2>1. Sure(g)
    BY <1>7, <1>9 DEF Later, AllSure
  <2>2. CASE \E h \in Gids : DeleteCancel(c, h)
    <3> PICK h \in Gids : DeleteCancel(c, h)
      BY <2>2
    <3>1. /\ call[c].pc = "idle" /\ call'[c].pc \in {"delClose", "delLock"} /\ call'[c].gid = h
          /\ UNCHANGED <<rows, aria>> /\ CancelSection(h)
      BY DEF DeleteCancel, MayCall, Idle, TypeOK, CallOK, world
    <3>2. g # h
      BY <1>1, <1>9, <3>1 DEF Going
    <3>3. SameBooks(g)
      BY <3>1, <3>2 DEF CancelSection, EraseState, SameBooks, rows, TypeOK, StatesOK
    <3>4. SamePlaces(g)
      BY <1>1, <1>3, <3>1, <3>2 DEF SamePlaces, DiscAt
    <3> QED BY <2>1, <3>3, <3>4, Bystander
  <2>3. CASE DeleteStep(c)
    <3>1. UNCHANGED <<states, sets, jobs>>
      BY <2>3 DEF DeleteStep, DeleteClose, DeleteLock, DeleteShell, DeleteFile, DeleteRow
    <3>2. aria'[g] = aria[g]
      BY <1>1, <1>5, <1>6, <1>7, <1>9 DEF Later, Going
    <3>3. \A S : S \cap {"idle", "delClose", "delLock", "delShell", "delFile", "delRow"} = {}
                 => ~CallAt(g, S) /\ ~CallAt(g, S)'
      BY <1>1, <1>6, <2>3 DEF DeleteStep, DeleteClose, DeleteLock, DeleteShell, DeleteFile,
         DeleteRow, At, TypeOK, CallOK
    <3>4. /\ \A S \in {{"addRow", "addPolicy", "addEngine", "addProbe"}, {"pauseCancel"},
                TryPcs, CarePcs,
                        {"addQueue", "tryEngine", "tryQueue"}, {"resumeMark"}} :
                S \cap {"idle", "delClose", "delLock", "delShell", "delFile", "delRow"} = {}
      BY DEF TryPcs, CarePcs, AddPcs
    <3>5. Blank(g)' /\ OneProbe(g)' /\ PausesKept(g)' /\ Tended(g)'
      BY <1>3, <1>4, <2>1, <3>1, <3>2, <3>3, <3>4 DEF Sure, Blank, OneProbe, PausesKept, Tended,
         DiscAt, states, sets, jobs
    <3>6. OneFront(g)' /\ OneJob(g)' /\ g \notin cancel'
      BY <1>3, <2>1, <3>1 DEF Sure, OneFront, Fronts, OneJob, states, jobs
    <3> QED BY <3>5, <3>6 DEF Sure
  <2> QED BY <2>2, <2>3
<1> QED BY <1>7, <1>8, <1>9 DEF SureParts

\* The engines: a task that ends is over.
LEMMA SureEngines ==
  ASSUME StrandInv, Engines
  PROVE  SureParts
<1> USE DEF StrandInv
<1>1. UNCHANGED <<rows, states, sets, jobs, disc, work, call, refr, run, restarts>>
  BY DEF Engines, AriaOpen, AriaReceive, AriaFinish, LtWrite, LtFinish, OnlyWorld, control
<1>2. \A g \in Gids : aria'[g] = aria[g] \/ (aria[g] = "active"
         /\ aria'[g] \in {"complete", "error"})
  BY DEF Engines, AriaOpen, AriaReceive, AriaFinish, LtWrite, LtFinish, TypeOK, WorldOK
<1>3. \A g, S : CallAt(g, S)' <=> CallAt(g, S)
  BY <1>1, CallKept
<1>4. Later
  BY <1>1, <1>2, <1>3 DEF Later, Going, Over, rows
<1>5. Known'
  BY <1>1, <1>2, <1>3, <1>4 DEF AllSure, Known, Later, rows, TypeOK, RefrOK
<1>6. ASSUME NEW g \in Gids, Going(g)' PROVE Sure(g)'
  <2>1. Sure(g)
    BY <1>4, <1>6 DEF Later, AllSure
  <2>2. Blank(g)' /\ OneProbe(g)' /\ PausesKept(g)' /\ Tended(g)'
    BY <1>1, <1>2, <1>3, <2>1 DEF Sure, Blank, OneProbe, PausesKept, Tended, DiscAt, rows,
       states, sets, jobs
  <2>3. OneFront(g)' /\ OneJob(g)' /\ g \notin cancel'
    BY <1>1, <2>1 DEF Sure, OneFront, Fronts, OneJob, states, jobs
  <2> QED BY <2>2, <2>3 DEF Sure
<1> QED BY <1>4, <1>5, <1>6 DEF SureParts

\* The discovery thread holds the probe from the queue until it has decided.
LEMMA SureDiscovery ==
  ASSUME StrandInv, Orderly, Discovery
  PROVE  SureParts
<1> USE DEF StrandInv
<1>1. UNCHANGED <<status, pausedRec, call, work, refr, run, restarts, suppressed, userPaused>>
  BY DEF Discovery, DiscStep, DiscPop, DiscLookup, DiscQueue, DiscDecide, DiscHandBack,
     DiscResume,
     DiscElse, control, rows, sets
<1>2. disc.pc # "idle" => disc.gid \in Gids
  BY DEF TypeOK, DiscOK
<1>3. \A g \in Gids : aria'[g] = aria[g] \/ (aria[g] = "paused" /\ aria'[g] = "active")
  BY DEF Discovery, DiscStep, DiscPop, DiscLookup, DiscQueue, DiscDecide, DiscHandBack,
     DiscResume,
     world, Unpause, Rpc, TypeOK, WorldOK
<1>4. \A g, S : CallAt(g, S)' <=> CallAt(g, S)
  BY <1>1, CallKept
<1>5. Later
  BY <1>1, <1>3, <1>4 DEF Later, Going, Over
<1>6. Known'
  BY <1>1, <1>3, <1>4, <1>5 DEF AllSure, Known, Later, TypeOK, RefrOK
<1>7. ASSUME NEW g \in Gids, Going(g)' PROVE Sure(g)'
  <2>1. Sure(g) /\ run = "up"
    BY <1>5, <1>7 DEF Later, AllSure, Known
  <2>2. CASE \E h \in Gids : DiscPop(h)
    <3> PICK h \in Gids : DiscPop(h)
      BY <2>2
    <3>1. /\ disc.pc = "idle" /\ disc'.pc = "lookup" /\ disc'.gid = h /\ djobs[h] > 0
          /\ djobs' = [djobs EXCEPT ![h] = @ - 1] /\ UNCHANGED <<aria, states, probe, hjobs>>
      BY DEF DiscPop, Idle, TypeOK, DiscOK, world, sets
    <3>2. OneProbe(g)'
      BY <1>1, <1>4, <2>1, <3>1 DEF Sure, OneProbe, DiscAt, states, TypeOK, StatesOK
    <3>3. Blank(g)' /\ PausesKept(g)' /\ Tended(g)'
      BY <1>1, <1>4, <2>1, <3>1 DEF Sure, Blank, PausesKept, Tended, DiscAt, states
    <3>4. OneFront(g)' /\ OneJob(g)' /\ g \notin cancel'
      BY <1>1, <2>1, <3>1 DEF Sure, OneFront, Fronts, OneJob, states
    <3> QED BY <3>2, <3>3, <3>4 DEF Sure
  <2>3. CASE DiscLookup
    <3>1. UNCHANGED <<aria, states, probe, jobs>>
      BY <2>3 DEF DiscLookup, world, sets
    <3>2. disc.pc = "lookup" /\ disc'.pc \in {"queue", "decide"} /\ disc'.gid = disc.gid
      BY <2>1, <2>3 DEF DiscLookup, DGoto, TypeOK, DiscOK
    <3>3. Blank(g)' /\ PausesKept(g)' /\ Tended(g)' /\ OneProbe(g)'
      BY <1>1, <1>4, <2>1, <3>1, <3>2 DEF Sure, Blank, PausesKept, Tended, OneProbe, DiscAt,
         states, jobs
    <3>4. OneFront(g)' /\ OneJob(g)' /\ g \notin cancel'
      BY <1>1, <2>1, <3>1 DEF Sure, OneFront, Fronts, OneJob, states, jobs
    <3> QED BY <3>3, <3>4 DEF Sure
  <2>4. CASE DiscQueue
    <3>1. disc.pc = "queue" /\ disc'.pc = "idle" /\ disc.gid \in Gids /\ UNCHANGED <<aria, djobs>>
      BY <1>2, <2>4 DEF DiscQueue, IdleDisc, world
    <3>2. CASE g # disc.gid
      <4>1. SameBooks(g)
        BY <1>1, <2>4, <3>1, <3>2 DEF DiscQueue, SameBooks, states, TypeOK, StatesOK
      <4>2. SamePlaces(g)
        BY <1>1, <1>4, <3>1, <3>2 DEF SamePlaces, DiscAt
      <4> QED BY <2>1, <4>1, <4>2, Bystander
    <3>3. CASE g = disc.gid
      <4>1. g \in probe /\ g \notin suppressed /\ phase[g] = "none" /\ hjobs[g] = 0
               /\ g \notin queued
            /\ djobs[g] = 0 /\ ~CallAt(g, {"addQueue", "tryEngine", "tryQueue"})
                  /\ ~CallAt(g, TryPcs)
            /\ ~CallAt(g, {"pauseCancel"})
        BY <2>1, <3>1, <3>3 DEF Sure, OneProbe, OneJob, DiscAt
      <4>2. /\ g \notin probe' /\ phase'[g] = "Pending" /\ g \notin cancel'
            /\ g \in hpaused' <=> g \in userPaused
            /\ g \in queued' <=> g \notin userPaused
            /\ hjobs'[g] = IF g \in userPaused THEN 0 ELSE 1
        BY <2>4, <3>3, <4>1 DEF DiscQueue, HybridLive, TypeOK, StatesOK
      <4>3. Blank(g)' /\ PausesKept(g)' /\ Tended(g)' /\ OneProbe(g)'
        BY <1>1, <1>4, <2>1, <3>1, <3>3, <4>1, <4>2 DEF Sure, Blank, PausesKept, Tended,
           OneProbe, DiscAt
      <4>4. OneFront(g)' /\ OneJob(g)' /\ g \notin cancel'
        BY <1>1, <2>1, <4>1, <4>2 DEF Sure, OneFront, Fronts, OneJob
      <4> QED BY <4>3, <4>4 DEF Sure
    <3> QED BY <3>2, <3>3
  <2>5. CASE DiscDecide
    <3>1. disc.pc = "decide" /\ disc'.pc = "handBack" /\ disc'.gid = disc.gid
             /\ UNCHANGED <<aria, states, jobs>>
          /\ probe' = probe \ {disc.gid}
          /\ disc'.resume = (disc.gid \notin suppressed /\ disc.gid \notin userPaused)
      BY <2>5 DEF DiscDecide, world, TypeOK, DiscOK
    <3>2. Blank(g)' /\ PausesKept(g)' /\ OneProbe(g)'
      BY <1>1, <1>4, <2>1, <3>1 DEF Sure, Blank, PausesKept, OneProbe, DiscAt, states, jobs
    <3>3. "resumeMark" \in CarePcs
      BY DEF CarePcs
    <3>4. CallAt(g, {"resumeMark"}) => CallAt(g, CarePcs)
      BY <3>3 DEF CallAt
    <3>5. Tended(g)'
      BY <1>1, <1>4, <2>1, <3>1, <3>4 DEF Sure, Tended, OneProbe, PausesKept, DiscAt, states
    <3>6. OneFront(g)' /\ OneJob(g)' /\ g \notin cancel'
      BY <1>1, <2>1, <3>1 DEF Sure, OneFront, Fronts, OneJob, states, jobs
    <3> QED BY <3>2, <3>5, <3>6 DEF Sure
  <2>6. CASE DiscHandBack \/ DiscResume
    <3>1. UNCHANGED <<states, probe, jobs>> /\ disc.pc \in {"handBack",
             "resume"} /\ disc'.pc \in {"idle", "resume"}
      BY <2>6 DEF DiscHandBack, DiscResume, IdleDisc, sets, TypeOK, DiscOK
    <3>2. Blank(g)' /\ PausesKept(g)' /\ OneProbe(g)'
      BY <1>1, <1>4, <2>1, <3>1 DEF Sure, Blank, PausesKept, OneProbe, DiscAt, states, jobs
    <3>3. CASE DiscHandBack
      <4>1. UNCHANGED aria /\ (disc.resume => disc'.pc = "resume" /\ disc'.gid = disc.gid
               /\ disc'.resume)
        BY <3>3 DEF DiscHandBack, world, TypeOK, DiscOK
      <4> QED BY <1>1, <1>4, <2>1, <3>1, <3>2, <4>1 DEF Sure, Tended, OneFront, Fronts,
         OneJob, DiscAt, states, jobs
    <3>4. CASE DiscResume
      <4>1. disc.pc = "resume" /\ aria'[disc.gid] # "paused"
               /\ \A h \in Gids : h # disc.gid => aria'[h] = aria[h]
        BY <1>2, <3>4 DEF Orderly, DiscResume, Unpause, Rpc, TypeOK, WorldOK
      <4> QED BY <1>1, <1>4, <2>1, <3>1, <3>2, <4>1 DEF Sure, Tended, OneFront, Fronts,
         OneJob, DiscAt, states, jobs
    <3> QED BY <2>6, <3>3, <3>4
  <2> QED BY <2>2, <2>3, <2>4, <2>5, <2>6 DEF Discovery, DiscStep
<1> QED BY <1>5, <1>6, <1>7 DEF SureParts

\* A worker whose download failed is done, or hands it back.
LEMMA JudgeMoves ==
  ASSUME TypeOK, NEW w \in Workers, WorkFailJudge(w)
  PROVE  /\ work'[w].pc \in {"idle", "handBack"}
         /\ work'[w].pc # "idle" => work'[w].gid = work[w].gid
<1>1. PICK x : work' = [work EXCEPT ![w] = IF ~@.ok THEN IdleWork
                                          ELSE [@ EXCEPT !.pc = "handBack", !.ok = x]]
  BY Zenon DEF WorkFailJudge
<1>2. work[w] \in [pc : WorkPcs, gid : GidOrNone, ok : BOOLEAN] /\ w \in DOMAIN work
  BY DEF TypeOK, WorkOK
<1>3. CASE ~work[w].ok
  <2>1. work'[w] = IdleWork
    BY <1>1, <1>2, <1>3
  <2> QED BY <2>1 DEF IdleWork
<1>4. CASE work[w].ok
  <2>1. work'[w] = [work[w] EXCEPT !.pc = "handBack", !.ok = x]
    BY <1>1, <1>2, <1>4
  <2> QED BY <1>2, <2>1
<1> QED BY <1>3, <1>4

\* A worker touches its own download only.
LEMMA WorkApart ==
  ASSUME TypeOK, NEW w \in Workers, WorkStep(w) \/ WorkTimeout(w)
  PROVE  /\ work[w].pc # "idle" /\ WGid(w) \in Gids
         /\ UNCHANGED <<status, pausedRec, call, disc, refr, run, restarts, suppressed,
               userPaused, jobs>>
         /\ \A v \in Workers : v # w => work'[v] = work[v]
         /\ work'[w].pc # "idle" => work'[w].gid = WGid(w)
         /\ \A g \in Gids : aria'[g] = aria[g] \/ (aria[g] = "paused" /\ aria'[g] = "active")
         /\ \A g \in Gids \ {WGid(w)} : SameBooks(g)
<1>1. work[w].pc # "idle"
  BY DEF WorkStep, TransferStep, FailStep, WorkRelease, WorkClaim, WorkOpen, WorkConnect,
     WorkPoll,
     WorkStatus, WorkDropClose, WorkDropErase, WorkClose, WorkVerify, WorkPublish, WorkFailClose,
     WorkFailFile, WorkFailJudge, WorkHandBack, WorkResume, WorkTimeout, WAt
<1>2. WGid(w) \in Gids
  BY <1>1 DEF WGid, TypeOK, WorkOK
<1>3. UNCHANGED <<status, pausedRec, call, disc, refr, run, restarts, suppressed, userPaused,
         jobs>>
  BY DEF WorkStep, TransferStep, FailStep, WorkRelease, WorkClaim, WorkOpen, WorkConnect,
     WorkPoll,
     WorkStatus, WorkDropClose, WorkDropErase, WorkClose, WorkVerify, WorkPublish, WorkFailClose,
     WorkFailFile, WorkFailJudge, WorkHandBack, WorkResume, WorkTimeout, WorkElse, control,
     rows, sets
<1>4. \A v \in Workers : v # w => work'[v] = work[v]
  BY DEF WorkStep, TransferStep, FailStep, WorkRelease, WorkClaim, WorkOpen, WorkConnect,
     WorkPoll,
     WorkStatus, WorkDropClose, WorkDropErase, WorkClose, WorkVerify, WorkPublish, WorkFailClose,
     WorkFailFile, WorkFailJudge, WorkHandBack, WorkResume, WorkTimeout, WGoto, WDone, TypeOK,
     WorkOK
<1>5. work'[w].pc # "idle" => work'[w].gid = WGid(w)
  <2>1. CASE WorkFailJudge(w)
    BY <2>1, JudgeMoves DEF WGid
  <2>2. CASE ~WorkFailJudge(w)
    BY <2>2 DEF WorkStep, TransferStep, FailStep, WorkRelease, WorkClaim, WorkOpen, WorkConnect,
       WorkPoll,
       WorkStatus, WorkDropClose, WorkDropErase, WorkClose, WorkVerify, WorkPublish,
       WorkFailClose,
       WorkFailFile, WorkHandBack, WorkResume, WorkTimeout, WGoto, WDone, IdleWork, WGid,
       TypeOK, WorkOK
  <2> QED BY <2>1, <2>2
<1>6. \A g \in Gids : aria'[g] = aria[g] \/ (aria[g] = "paused" /\ aria'[g] = "active")
  BY <1>2 DEF WorkStep, TransferStep, FailStep, WorkRelease, WorkClaim, WorkOpen, WorkConnect,
     WorkPoll,
     WorkStatus, WorkDropClose, WorkDropErase, WorkClose, WorkVerify, WorkPublish, WorkFailClose,
     WorkFailFile, WorkFailJudge, WorkHandBack, WorkResume, WorkTimeout, world, Unpause, Rpc,
     TypeOK, WorldOK
<1>7. ASSUME NEW g \in Gids, g # WGid(w)
      PROVE  /\ phase'[g] = phase[g] /\ aria'[g] = aria[g]
             /\ g \in cancel' <=> g \in cancel
             /\ g \in hpaused' <=> g \in hpaused
             /\ g \in queued' <=> g \in queued
             /\ g \in probe' <=> g \in probe
  BY <1>2, <1>7 DEF WorkStep, TransferStep, FailStep, WorkRelease, WorkClaim, WorkOpen,
     WorkConnect,
     WorkPoll, WorkStatus, WorkDropClose, WorkDropErase, WorkClose, WorkVerify, WorkPublish,
     WorkFailClose, WorkFailFile, WorkFailJudge, WorkHandBack, WorkResume, WorkTimeout,
     EraseState,
     world, states, sets, Unpause, Rpc, TypeOK, WorldOK, StatesOK
<1>8. \A g \in Gids \ {WGid(w)} : SameBooks(g)
  BY <1>3, <1>7 DEF SameBooks, jobs
<1> QED BY <1>1, <1>2, <1>3, <1>4, <1>5, <1>6, <1>8

\* A worker brings its download to Ready or Failed, or leaves it to a deletion.
LEMMA SureWorker ==
  ASSUME StrandInv, Orderly, NEW w \in Workers, WorkStep(w) \/ WorkTimeout(w)
  PROVE  SureParts
<1> USE DEF StrandInv
<1>1. /\ work[w].pc # "idle" /\ WGid(w) \in Gids
      /\ UNCHANGED <<status, pausedRec, call, disc, refr, run, restarts, suppressed,
            userPaused, jobs>>
      /\ \A v \in Workers : v # w => work'[v] = work[v]
      /\ work'[w].pc # "idle" => work'[w].gid = WGid(w)
      /\ \A g \in Gids : aria'[g] = aria[g] \/ (aria[g] = "paused" /\ aria'[g] = "active")
      /\ \A g \in Gids \ {WGid(w)} : SameBooks(g)
  BY WorkApart
<1>2. \A g, S : CallAt(g, S)' <=> CallAt(g, S)
  BY <1>1, CallKept
<1>3. Later
  BY <1>1, <1>2 DEF Later, Going, Over
<1>4. Known'
  BY <1>1, <1>2, <1>3 DEF AllSure, Known, Later, TypeOK, RefrOK
<1>5. ASSUME NEW g \in Gids, Going(g)' PROVE Sure(g)'
  <2>1. Sure(g) /\ run = "up"
    BY <1>3, <1>5 DEF Later, AllSure, Known
  <2>2. CASE g # WGid(w)
    <3>1. SamePlaces(g)
      BY <1>1, <1>2, <2>2 DEF SamePlaces, DiscAt, OnIt, WGid
    <3> QED BY <1>1, <2>1, <2>2, <3>1, Bystander
  <2>3. CASE g = WGid(w) /\ work[w].pc \in FrontPcs /\ work'[w].pc \in FrontPcs
           /\ UNCHANGED <<aria, states, probe>>
    <3>1. Blank(g)' /\ PausesKept(g)' /\ Tended(g)' /\ OneProbe(g)' /\ OneJob(g)'
             /\ g \notin cancel'
      BY <1>1, <1>2, <2>1, <2>3 DEF Sure, Blank, PausesKept, Tended, OneProbe, OneJob, DiscAt,
         states, jobs
    <3>2. FrontPcs \cap DropPcs = {} /\ "idle" \notin FrontPcs
      BY DEF FrontPcs, DropPcs
    <3>3. OneFront(g)'
      BY <1>1, <2>1, <2>3, <3>2 DEF Sure, OneFront, Fronts, WGid, states
    <3> QED BY <3>1, <3>3 DEF Sure
  <2>4. CASE g = WGid(w) /\ (WorkPublish(w) \/ WorkFailJudge(w))
    <3>1. work[w].pc \in FrontPcs /\ work'[w].pc \in {"idle", "handBack"} /\ UNCHANGED aria
      <4>1. CASE WorkPublish(w)
        BY <4>1 DEF WorkPublish, WAt, WDone, IdleWork, FrontPcs, world, TypeOK, WorkOK
      <4>2. CASE WorkFailJudge(w)
        <5>1. work'[w].pc \in {"idle", "handBack"}
          BY <4>2, JudgeMoves
        <5> QED BY <4>2, <5>1 DEF WorkFailJudge, WAt, FrontPcs, world
      <4> QED BY <2>4, <4>1, <4>2
    <3>2. phase[g] = "Downloading"
             /\ g \notin cancel \cup probe \cup suppressed \cup queued /\ hjobs[g] = 0
          /\ \A v \in Workers : Fronts(v, g) => v = w
      BY <2>1, <2>4, <3>1 DEF Sure, OneFront, OneProbe, OneJob, Fronts, WGid
    <3>3. phase'[g] \in {"Ready", "Failed"} /\ g \notin cancel' \cup probe' \cup queued'
      BY <1>1, <2>4, <3>2 DEF WorkPublish, WorkFailJudge, EraseState, sets, TypeOK, StatesOK
    <3>4. Blank(g)' /\ PausesKept(g)' /\ Tended(g)' /\ OneJob(g)'
      BY <1>1, <1>2, <2>1, <3>2, <3>3 DEF Sure, Blank, PausesKept, Tended, OneJob, jobs
    <3>5. OneProbe(g)'
      BY <1>1, <1>2, <2>1, <3>2, <3>3 DEF Sure, OneProbe, DiscAt, jobs
    <3>6. "idle" \notin FrontPcs \cup DropPcs /\ "handBack" \notin FrontPcs \cup DropPcs
      BY DEF FrontPcs, DropPcs
    <3>7. ~(refr.gid = g /\ refr.pc \in {"promote", "shell"})
      BY <2>1, <3>2 DEF Sure, OneFront
    <3>8. OneFront(g)'
      BY <1>1, <2>1, <2>4, <3>1, <3>2, <3>3, <3>6, <3>7 DEF Sure, OneFront, Fronts, WGid
    <3> QED BY <3>3, <3>4, <3>5, <3>8 DEF Sure
  <2>5. CASE g = WGid(w) /\ (WorkHandBack(w) \/ WorkResume(w))
    <3>1. /\ work[w].pc \in {"handBack", "resume"} /\ work'[w].pc \in {"idle", "resume"}
          /\ UNCHANGED <<states, probe>>
      BY <2>5 DEF WorkHandBack, WorkResume, WAt, WGoto, WDone, IdleWork, sets, TypeOK, WorkOK
    <3>2. Blank(g)' /\ PausesKept(g)' /\ Tended(g)' /\ OneProbe(g)' /\ OneJob(g)'
             /\ g \notin cancel'
      BY <1>1, <1>2, <2>1, <3>1 DEF Sure, Blank, PausesKept, Tended, OneProbe, OneJob, DiscAt,
         states, jobs
    <3>3. {"idle", "handBack", "resume"} \cap (FrontPcs \cup DropPcs) = {}
      BY DEF FrontPcs, DropPcs
    <3>4. OneFront(g)'
      BY <1>1, <2>1, <3>1, <3>3 DEF Sure, OneFront, Fronts, states
    <3> QED BY <3>2, <3>4 DEF Sure
  <2>6. CASE g = WGid(w) /\ (WorkDropClose(w) \/ WorkDropErase(w))
    BY <2>1, <2>6 DEF WorkDropClose, WorkDropErase, WAt, WGid, DropPcs, Sure, OneFront
  <2>7. CASE g = WGid(w) /\ ~(\/ WorkPublish(w) \/ WorkFailJudge(w) \/ WorkHandBack(w)
           \/ WorkResume(w)
                              \/ WorkDropClose(w) \/ WorkDropErase(w))
    <3>1. work[w].pc \in FrontPcs /\ UNCHANGED <<aria, states, probe>>
      BY <2>7 DEF WorkStep, TransferStep, FailStep, WorkRelease, WorkClaim, WorkOpen, WorkConnect,
         WorkPoll, WorkStatus, WorkClose, WorkVerify, WorkFailClose, WorkFailFile, WorkTimeout,
         WAt,
         FrontPcs, world, sets
    <3>2. phase[g] = "Downloading" /\ g \notin cancel
      BY <2>1, <2>7, <3>1 DEF Sure, OneFront, WGid
    <3>3. work'[w].pc \in FrontPcs
      BY <2>1, <2>7, <3>2 DEF WorkStep, TransferStep, FailStep, WorkRelease, WorkClaim,
         WorkOpen, WorkConnect,
         WorkPoll, WorkStatus, WorkClose, WorkVerify, WorkFailClose, WorkFailFile, WorkTimeout,
         WGoto,
         FrontPcs, TypeOK, WorkOK
    <3> QED BY <2>3, <2>7, <3>1, <3>3
  <2> QED BY <2>2, <2>4, <2>5, <2>6, <2>7
<1> QED BY <1>3, <1>4, <1>5 DEF SureParts

\* What a worker takes from the queue is Pending, once.
LEMMA SurePop ==
  ASSUME StrandInv, Orderly, NEW w \in Workers, NEW h \in Gids, WorkPop(w, h)
  PROVE  SureParts
<1> USE DEF StrandInv
<1>1. UNCHANGED <<status, aria, pausedRec, call, disc, refr, run, restarts, cancel, hpaused,
         sets, djobs>>
  BY DEF WorkPop, WorkElse, control, rows, world
<1>2. \A g, S : CallAt(g, S)' <=> CallAt(g, S)
  BY <1>1, CallKept
<1>3. Later
  BY <1>1, <1>2 DEF Later, Going, Over
<1>4. Known'
  BY <1>1, <1>2, <1>3 DEF AllSure, Known, Later, TypeOK, RefrOK
<1>5. ASSUME NEW g \in Gids, Going(g)' PROVE Sure(g)'
  <2>1. Sure(g)
    BY <1>3, <1>5 DEF Later, AllSure
  <2>2. /\ work[w].pc = "idle" /\ work'[w].pc \in {"idle", "release"}
        /\ work'[w].pc = "release" => work'[w].gid = h
        /\ \A v \in Workers : v # w => work'[v] = work[v]
    BY DEF WorkPop, Idle, TypeOK, WorkOK
  <2>3. CASE g # h
    <3>1. SameBooks(g)
      BY <1>1, <2>3 DEF WorkPop, SameBooks, sets, TypeOK, StatesOK
    <3>2. SamePlaces(g)
      BY <1>1, <1>2, <2>2, <2>3 DEF SamePlaces, DiscAt, OnIt
    <3> QED BY <2>1, <3>1, <3>2, Bystander
  <2>4. CASE g = h
    <3>1. hjobs[g] = 1 /\ g \in queued /\ phase[g] = "Pending" /\ g \notin cancel
      BY <2>1, <2>4 DEF WorkPop, Sure, OneJob
    <3>2. hjobs'[g] = 0 /\ g \notin queued'
      BY <2>4, <3>1 DEF WorkPop, TypeOK, StatesOK
    <3>3. \/ g \in hpaused /\ phase' = phase /\ work' = work
          \/ g \notin hpaused /\ phase'[g] = "Downloading" /\ work'[w].pc = "release"
                /\ work'[w].gid = g
      BY <2>4, <3>1 DEF WorkPop, TypeOK, StatesOK, WorkOK
    <3>4. Blank(g)' /\ PausesKept(g)' /\ Tended(g)' /\ OneJob(g)'
      BY <1>1, <1>2, <2>1, <3>1, <3>2, <3>3 DEF Sure, Blank, PausesKept, Tended, OneJob, sets
    <3>5. OneProbe(g)'
      BY <1>1, <1>2, <2>1, <3>1, <3>3 DEF Sure, OneProbe, DiscAt, sets
    <3>6. "release" \in FrontPcs \ DropPcs /\ "idle" \notin FrontPcs \cup DropPcs
      BY DEF FrontPcs, DropPcs
    <3>7. \A v \in Workers : ~Fronts(v, g)
      BY <2>1, <3>1 DEF Sure, OneFront, Fronts
    <3>8. OneFront(g)'
      BY <1>1, <2>1, <2>2, <3>1, <3>3, <3>6, <3>7 DEF Sure, OneFront, Fronts
    <3> QED BY <1>1, <3>1, <3>4, <3>5, <3>8 DEF Sure
  <2> QED BY <2>3, <2>4
<1> QED BY <1>3, <1>4, <1>5 DEF SureParts

\* The refresh thread moves on, or takes up a task that a row knows.
LEMMA SureRefresh ==
  ASSUME StrandInv, Orderly, Refresh
  PROVE  SureParts
<1> USE DEF StrandInv
<1>1. UNCHANGED <<pausedRec, call, disc, work, run, restarts, djobs>>
  BY DEF Refresh, RefrStep, RefrBegin, RefrCheck, RefrPromote, RefrShell, RefrRowStatus,
     RefrRowEngine,
     RefrErase, RefrEnqueue, RefrPending, RefrSnapshot, RefrWrite, RefrReact, RefrReactClose, RefrReactDone,
     RefrElse, CancelSection, rows, jobs, control
<1>2. \A g, S : CallAt(g, S)' <=> CallAt(g, S)
  BY <1>1, CallKept
<1>3. CASE \E h \in Gids : RefrBegin(h)
  <2> PICK h \in Gids : RefrBegin(h)
    BY <1>3
  <2>1. /\ refr' = [IdleRefr EXCEPT !.pc = "check", !.gid = h, !.seen = aria[h]]
        /\ refr'.pc = "check" /\ refr'.gid = h /\ refr'.seen = aria[h]
        /\ aria[h] # "gone"
        /\ refr.pc = "idle"
        /\ UNCHANGED <<aria, states, sets, jobs>>
    BY DEF RefrBegin, RpcFree, IdleRefr, world
  <2>2. ~CallAt(h, {"addRow"})
    BY DEF RefrBegin, RpcFree, CallAt, LockedCallPcs, AddPcs
  <2>3. status[h] # "new" /\ UNCHANGED status
    BY <2>1, <2>2 DEF RefrBegin, AllSure, Known
  <2>4. Later
    BY <1>1, <1>2, <2>1, <2>3 DEF Later, Going, Over
  <2>5. Known'
    BY <1>1, <1>2, <2>1, <2>3 DEF AllSure, Known, Over
  <2>6. ASSUME NEW g \in Gids, Going(g)' PROVE Sure(g)'
    <3>1. Sure(g)
      BY <2>4, <2>6 DEF Later, AllSure
    <3>2. Blank(g)' /\ PausesKept(g)' /\ Tended(g)' /\ OneProbe(g)'
      BY <1>1, <1>2, <2>1, <2>3, <3>1 DEF Sure, Blank, PausesKept, Tended, OneProbe, DiscAt,
         states, sets, jobs
    <3>3. OneFront(g)' /\ OneJob(g)' /\ g \notin cancel'
      BY <1>1, <2>1, <3>1 DEF Sure, OneFront, Fronts, OneJob, states, jobs
    <3> QED BY <3>2, <3>3 DEF Sure
  <2> QED BY <2>4, <2>5, <2>6 DEF SureParts
<1>4. CASE RefrStep
  <2>1. refr.pc # "idle" /\ refr.gid \in Gids /\ status[refr.gid] # "new"
    BY <1>4 DEF RefrStep, RefrCheck, RefrPromote, RefrShell, RefrRowStatus, RefrRowEngine,
       RefrErase,
       RefrEnqueue, RefrPending, RefrSnapshot, RefrWrite, RefrReact, RefrReactClose, RefrReactDone, RAt,
       TypeOK, RefrOK, AllSure, Known
  <2>2. \A g \in Gids : status'[g] = status[g] \/ (status'[g] # "new" /\ g = refr.gid)
    BY <1>4, <2>1 DEF RefrStep, RefrCheck, RefrPromote, RefrShell, RefrRowStatus, RefrRowEngine,
       RefrErase,
       RefrEnqueue, RefrPending, RefrSnapshot, RefrWrite, RefrReact, RefrReactClose, RefrReactDone,
       SetStatus, RowOf,
       rows, TypeOK, RowsOK
  <2>3. \A g \in Gids : aria'[g] = aria[g] \/ (aria'[g] = "gone" /\ g = refr.gid
           /\ refr.pc = "shell")
    BY <1>4, <2>1 DEF Orderly, RefrStep, RefrCheck, RefrPromote, RefrShell, RefrRowStatus,
       RefrRowEngine, RefrErase,
       RefrEnqueue, RefrPending, RefrSnapshot, RefrWrite, RefrReact, RefrReactClose, RefrReactDone, world, RAt,
       TypeOK, WorldOK
  <2>4. Later
    BY <1>1, <1>2, <2>1, <2>2, <2>3 DEF Later, Going, Over
  <2>5. /\ refr'.pc # "idle" => refr'.gid = refr.gid /\ refr'.seen = refr.seen
        /\ refr'.pc \in {"rowStatus", "rowEngine", "erase", "enqueue", "reactClose", "reactDone"}
              => \/ refr.pc \in {"rowStatus", "rowEngine", "erase", "enqueue", "reactClose",
                       "reactDone"}
                 \/ refr.seen = "complete" \/ aria'[refr.gid] = "gone"
    <3>1. CASE RefrPending \/ RefrSnapshot
      BY <3>1 DEF RefrPending, RefrSnapshot, RAt, TypeOK, RefrOK
    <3>2. CASE ~RefrPending /\ ~RefrSnapshot
      BY <1>4, <2>1, <3>2 DEF Orderly, RefrStep, RefrCheck, RefrPromote, RefrShell,
         RefrRowStatus, RefrRowEngine, RefrErase,
         RefrEnqueue, RefrWrite, RefrReact, RefrReactClose, RefrReactDone, RAt, RGoto, RDone,
         RFallThrough, IdleRefr, TypeOK, RefrOK, WorldOK
    <3> QED BY <3>1, <3>2
  <2>6. Known'
    <3>1. refr'.pc # "idle" /\ refr'.seen \in {"complete", "error"} => Over(refr.gid)'
      BY <2>1, <2>4, <2>5 DEF AllSure, Known, Later
    <3>2. refr'.pc \in {"rowStatus", "rowEngine", "erase", "enqueue", "reactClose",
             "reactDone"} => Over(refr.gid)'
      BY <2>1, <2>2, <2>4, <2>5 DEF AllSure, Known, Later, Over
    <3>3. \A g \in Gids : status'[g] = "new" /\ aria'[g] # "gone" => CallAt(g, {"addRow"})'
      BY <1>2, <2>2, <2>3 DEF AllSure, Known
    <3>4. status'[refr.gid] # "new"
      BY <2>1, <2>4 DEF Later
    <3>5. \A c \in Callers :
          /\ call'[c].pc \notin {"idle", "addRow"} => status'[call'[c].gid] # "new"
          /\ call'[c].pc \in PausePcs => call'[c].gid \in pausedRec'
          /\ call'[c].pc \in {"addEngine", "addProbe"} /\ call'[c].owned
                => call'[c].gid \in pausedRec'
      BY <1>1, <2>4 DEF AllSure, Known, Later, TypeOK, CallOK
    <3> QED BY <1>1, <2>5, <3>1, <3>2, <3>3, <3>4, <3>5 DEF AllSure, Known
  <2>7. ASSUME NEW g \in Gids, Going(g)' PROVE Sure(g)'
    <3>1. Sure(g) /\ ~Over(g) /\ ~Over(g)'
      BY <2>4, <2>7 DEF Later, AllSure, Going
    <3>2. CASE g # refr.gid
      <4>1. /\ phase'[g] = phase[g] /\ hjobs'[g] = hjobs[g]
            /\ g \in cancel' <=> g \in cancel
            /\ g \in hpaused' <=> g \in hpaused
            /\ g \in queued' <=> g \in queued
            /\ g \in probe' <=> g \in probe
            /\ g \in suppressed' <=> g \in suppressed
            /\ g \in userPaused' <=> g \in userPaused
        BY <1>4, <2>1, <3>2 DEF RefrStep, RefrCheck, RefrPromote, RefrShell, RefrRowStatus,
           RefrRowEngine, RefrErase,
           RefrEnqueue, RefrPending, RefrSnapshot, RefrWrite, RefrReact, RefrReactClose, RefrReactDone,
           CancelSection,
           EraseState, states, sets, jobs, TypeOK, StatesOK
      <4>2. SameBooks(g)
        BY <1>1, <2>2, <2>3, <3>2, <4>1 DEF SameBooks
      <4>3. SamePlaces(g)
        BY <1>1, <1>2, <2>5, <3>2 DEF SamePlaces, DiscAt, OnIt
      <4> QED BY <3>1, <4>2, <4>3, Bystander
    <3>3. CASE g = refr.gid
      <4>1. /\ refr.pc \notin {"rowStatus", "rowEngine", "erase", "enqueue", "reactClose",
                  "reactDone"}
            /\ refr.seen \notin {"complete", "error"}
            /\ aria'[g] = aria[g]
        BY <2>1, <2>2, <2>3, <3>1, <3>3 DEF AllSure, Known, Over
      <4>2. /\ UNCHANGED <<cancel, hpaused, queued, sets, jobs>>
            /\ \/ phase' = phase
               \/ refr.pc = "promote" /\ phase'[g] = "Failed"
            /\ refr'.pc \in {"promote", "shell"} => phase[g] = "Ready" /\ phase' = phase
        <5>1. CASE RefrPromote
          BY <1>4, <3>1, <3>3, <5>1 DEF RefrPromote, RAt, RGoto, RDone, RFallThrough, IdleRefr,
             Sure, OneFront, TypeOK, RefrOK, StatesOK
        <5>2. CASE RefrReact
          <6>1. UNCHANGED <<sets, jobs>> /\ ~Holding /\ RDone
            BY <4>1, <5>2 DEF RefrReact, Holding
          <6> QED BY <4>1, <5>2, <6>1 DEF RefrReact, RDone, IdleRefr, states
        <5>3. CASE RefrCheck \/ RefrShell \/ RefrPending \/ RefrSnapshot \/ RefrWrite
          BY <2>3, <3>1, <3>3, <4>1, <5>3 DEF Sure, OneFront, RefrCheck, RefrShell,
             RefrPending, RefrSnapshot, RefrWrite,
             RAt, RGoto, RDone, RFallThrough, Promotable, IdleRefr, Over, states, TypeOK,
             RefrOK, WorldOK
        <5>4. ~(RefrRowStatus \/ RefrRowEngine \/ RefrErase \/ RefrEnqueue
                 \/ RefrReactClose \/ RefrReactDone)
          BY <4>1 DEF RefrRowStatus, RefrRowEngine, RefrErase, RefrEnqueue, RefrReactClose,
             RefrReactDone, RAt
        <5> QED BY <1>4, <5>1, <5>2, <5>3, <5>4 DEF RefrStep
      <4>3. refr.pc = "promote" => phase[g] = "Ready"
        BY <3>1, <3>3 DEF Sure, OneFront
      <4>4. Blank(g)' /\ PausesKept(g)' /\ Tended(g)' /\ OneProbe(g)' /\ OneJob(g)'
        BY <1>1, <1>2, <2>2, <3>1, <4>1, <4>2, <4>3 DEF Sure, Blank, PausesKept, Tended,
           OneProbe, OneJob, DiscAt, sets, jobs
      <4>5. OneFront(g)'
        BY <1>1, <3>1, <4>2, <4>3 DEF Sure, OneFront, Fronts
      <4> QED BY <3>1, <4>2, <4>4, <4>5 DEF Sure
    <3> QED BY <3>2, <3>3
  <2> QED BY <2>4, <2>6, <2>7 DEF SureParts
<1> QED BY <1>3, <1>4 DEF Refresh

\* The invariant is inductive.
LEMMA SureNext == Orderly /\ StrandInv /\ [Next]_vars => StrandInv'
<1> SUFFICES ASSUME Orderly, StrandInv, [Next]_vars PROVE AllSure'
  BY TypeNext DEF StrandInv
<1>1. CASE UNCHANGED vars
  <2>1. UNCHANGED <<rows, aria, states, sets, jobs, disc, work, call, refr, run, restarts>>
    BY <1>1 DEF vars, world, control
  <2>2. \A g, S : CallAt(g, S)' <=> CallAt(g, S)
    BY <2>1, CallKept
  <2>3. Known'
    BY <2>1, <2>2 DEF StrandInv, AllSure, Known, Over, rows
  <2>4. ASSUME NEW g \in Gids, Going(g)' PROVE Sure(g)'
    <3>1. Sure(g)
      BY <2>1, <2>2, <2>4 DEF StrandInv, AllSure, Going, Over, rows
    <3>2. SameBooks(g) /\ SamePlaces(g)
      BY <2>1, <2>2 DEF SameBooks, SamePlaces, DiscAt, rows, states, sets, jobs
    <3> QED BY <3>1, <3>2, Bystander
  <2> QED BY <2>3, <2>4 DEF AllSure
<1>2. ASSUME NEW c \in Callers, CallBegin(c) \/ CallStep(c) PROVE SureParts
  <2>1. CASE CallBegin(c)
    BY <2>1, SureAddShell, SurePause, SureResume, SureDelete DEF CallBegin
  <2>2. CASE AddPauseStep(c)
    BY <2>2, SureAdd, SurePause, SureCancel DEF AddPauseStep
  <2> QED BY <1>2, <2>1, <2>2, SureResume, SureDelete DEF CallStep
<1>3. ASSUME NEW w \in Workers, Worker(w) PROVE SureParts
  BY <1>3, SureWorker, SurePop DEF Worker
<1>4. ~Recovery /\ ~Lifecycle
  BY DEF Orderly, StrandInv, AllSure, Known, Recovery, RcvStep, RcvPick, RcvReplay, RcvHash,
     RcvShell,
     RcvRowStatus, RcvClean, RcvEngine, RcvResume, RcvRowActive, RcvStart, RcvAt, Lifecycle,
     ShutBegin,
     ShutDiscovery, ShutWorkers, ShutDown, Crash, Restart
<1> QED BY <1>1, <1>2, <1>3, <1>4, SureEngines, SureDiscovery, SureRefresh DEF Next,
   SureParts, AllSure

\* When nobody has anything left to do, nobody is waited for.
LEMMA SureQuiet == StrandInv => NotStranded
<1> SUFFICES ASSUME StrandInv, Quiet, NEW g \in Gids, status[g] = "active",
   g \notin pausedRec, aria[g] = "paused"
             PROVE  phase[g] \in {"Ready", "Failed"} /\ g \notin cancel
  BY DEF NotStranded
<1>1. "idle" \notin CarePcs \cup FrontPcs \cup {"delClose", "delLock", "delShell"}
  BY DEF CarePcs, AddPcs, TryPcs, FrontPcs
<1>2. \A S : "idle" \notin S => ~CallAt(g, S) /\ ~DiscAt(g, S)
  BY DEF Quiet, Idle, CallAt, DiscAt
<1>3. Sure(g)
  BY <1>1, <1>2 DEF StrandInv, AllSure, Going, Over
<1>4. g \notin probe
  BY <1>2, <1>3 DEF Quiet, Sure, OneProbe
<1>5. phase[g] # "none"
  BY <1>1, <1>2, <1>3, <1>4 DEF Sure, Tended
<1>6. phase[g] # "Downloading"
  BY <1>1, <1>3 DEF Quiet, Idle, Sure, OneFront, Fronts
<1>7. phase[g] # "Pending"
  BY <1>2, <1>3 DEF Quiet, Sure, OneJob, PausesKept
<1> QED BY <1>3, <1>5, <1>6, <1>7 DEF StrandInv, TypeOK, StatesOK, Sure

\* With one command after the other, whatever they are and however the threads and
\* engines interleave, a download the user wants is never left with a paused aria2 task
\* and no thread to advance it: every step of AddHttpDownload, PauseHttpDownload,
\* ResumeHttpDownload and of the threads passes it on before it lets go.
THEOREM NotStrandedHolds ==
  ASSUME Orderly
  PROVE  Spec => []NotStranded
<1>1. Init => StrandInv
  <2> SUFFICES ASSUME Init PROVE AllSure
    BY TypeInit DEF StrandInv
  <2>1. \A g, S : "idle" \notin S => ~CallAt(g, S) /\ ~DiscAt(g, S)
    BY DEF Init, IdleCall, IdleDisc, CallAt, DiscAt
  <2>2. Known
    BY DEF Init, IdleCall, IdleRefr, Known, PausePcs
  <2>3. ASSUME NEW g \in Gids PROVE Sure(g)
    <3>1. "idle" \notin FrontPcs \cup DropPcs \cup TryPcs
      BY DEF FrontPcs, DropPcs, TryPcs
    <3>2. OneFront(g)
      BY <3>1 DEF Init, IdleWork, IdleRefr, OneFront, Fronts
    <3>3. OneProbe(g)
      BY <2>1, <3>1 DEF Init, OneProbe
    <3> QED BY <3>2, <3>3 DEF Init, Sure, Blank, OneJob, PausesKept, Tended
  <2> QED BY <2>2, <2>3 DEF AllSure
<1>2. StrandInv /\ [Next]_vars => StrandInv'
  BY SureNext
<1>3. StrandInv => NotStranded
  BY SureQuiet
<1> QED BY <1>1, <1>2, <1>3, PTL DEF Spec
=============================================================================
