---------------------------- MODULE HttpHybridOwners ----------------------------
(* SingleWriter and DurableOwner for every value of the constants, as long as no *)
(* Resume is issued.  Each thread acts on a decision taken under a mutex it has  *)
(* since released, so neither property is inductive.  What protects them is that *)
(* a download is in one pair of hands at a time: OneToken follows it from        *)
(* AddHttpDownload to the discovery queue, the discovery thread, the worker      *)
(* queue and a worker, and aria2 is resumed only by the last hand, as it lets go.*)
(* Resume breaks that chain: it makes a second token.                            *)
EXTENDS HttpHybridProofs

(* The invariant behind SingleWriter and DurableOwner. *)

Adder(c, g)  == call[c].pc \in AddPcs /\ call[c].gid = g
OnDisc(g)    == disc.pc # "idle" /\ disc.gid = g
OnWork(w, g) == work[w].pc # "idle" /\ work[w].gid = g
Owned(g) == \/ djobs[g] # 0 \/ OnDisc(g) \/ hjobs[g] # 0
            \/ \E c \in Callers : Adder(c, g)
            \/ \E w \in Workers : OnWork(w, g)

\* No caller resumes, and one adds at a time (it holds InstanceLock).
ResumePcs == {"resumeMark", "resumeSession", "tryCheck", "tryFile", "tryProbe",
              "tryEngine", "tryQueue", "resumeAria"}
AddersOK ==
    /\ \A c \in Callers : call[c].pc \notin ResumePcs
    /\ \A c, d \in Callers : call[c].pc \in AddPcs /\ call[d].pc \in AddPcs => c = d

\* A download travels as one token from AddHttpDownload to the discovery queue,
\* the discovery thread, the worker queue and a worker: never in two places.
OneToken ==
    \A g \in Gids :
        /\ djobs[g] \in {0, 1} /\ hjobs[g] \in {0, 1}
        /\ djobs[g] # 0 => ~OnDisc(g) /\ hjobs[g] = 0
        /\ OnDisc(g) => hjobs[g] = 0
        /\ \A c \in Callers : Adder(c, g) => djobs[g] = 0 /\ ~OnDisc(g) /\ hjobs[g] = 0
        /\ \A w \in Workers :
              OnWork(w, g) => /\ djobs[g] = 0 /\ ~OnDisc(g) /\ hjobs[g] = 0
                              /\ \A c \in Callers : ~Adder(c, g)
                              /\ \A v \in Workers : OnWork(v, g) => v = w

\* aria2 does not run while the token is under way.
OwnedQuiet == \A g \in Gids : Owned(g) => aria[g] # "active"

\* Only AddHttpDownload, before it inserts the row, works on a download without.
OwnedKnown ==
    \A g \in Gids :
        Owned(g) /\ status[g] = "new"
          => \E c \in Callers : call[c].pc = "addRow" /\ call[c].gid = g

\* A session that downloads has a worker that will close it, and its row says so.
SessPcs == {"connect", "poll", "status", "dropClose", "close", "failClose"}
HybridRow(g) == engine[g] = "Hybrid" \/ status[g] = "deleted"
SessOwned ==
    /\ \A g \in Gids : sess[g] = "open" =>
          \E w \in Workers : work[w].pc \in SessPcs /\ work[w].gid = g
    /\ \A g \in Gids : sess[g] = "open" => HybridRow(g)
    /\ \A w \in Workers : work[w].pc = "open" => HybridRow(work[w].gid)

\* Recovery has the downloads it works on to itself, and no worker and no
\* discovery beside it; a process that ended owns nothing.
RcvAlone ==
    /\ run \in {"recover", "down"} =>
          \A g \in Gids : ~OnDisc(g) /\ hjobs[g] = 0 /\ \A w \in Workers : ~OnWork(w, g)
    /\ run = "down" => \A g \in Gids : ~Owned(g)
    /\ rcv.pc # "idle" => run = "recover" /\ status[rcv.gid] # "new" /\ ~Owned(rcv.gid)
    /\ \A g \in Gids : rcv.plan[g] # "idle"
                          => run = "recover" /\ status[g] # "new" /\ ~Owned(g)

OwnerInv == TypeOK /\ AddersOK /\ OneToken /\ OwnedQuiet /\ OwnedKnown /\ SessOwned /\ RcvAlone

-----------------------------------------------------------------------------
(* Most steps move no token: some tokens may vanish, and the rest of the      *)
(* invariant follows from four facts about the step.                          *)

Fewer ==
    /\ \A c \in Callers, g \in Gids : Adder(c, g)' => Adder(c, g)
    /\ \A g \in Gids : /\ djobs'[g] \in {djobs[g], 0} /\ hjobs'[g] \in {hjobs[g], 0}
                       /\ OnDisc(g)' => OnDisc(g)
    /\ \A w \in Workers, g \in Gids : OnWork(w, g)' => OnWork(w, g)

\* No row is unmade.
RowsStay == \A g \in Gids : status'[g] = "new" => status[g] = "new"

\* aria2 is started only on a download without an owner.
StartsFree == \A g \in Gids : aria'[g] = "active" => aria[g] = "active" \/ ~Owned(g)'

\* A caller in AddHttpDownload leaves addRow only by inserting the row.
AddRowStays ==
    \A c \in Callers : call[c].pc = "addRow"
                          => call'[c] = call[c] \/ status'[call[c].gid] # "new"

TokenPart == OneToken /\ OwnedQuiet /\ OwnedKnown /\ RcvAlone

\* Vanishing tokens leave each download in at most one place.
LEMMA FewerTokens ==
  ASSUME OneToken, Fewer
  PROVE  OneToken' /\ \A g \in Gids : Owned(g)' => Owned(g)
<1>1. OneToken'
  BY DEF OneToken, Fewer
<1>2. \A g \in Gids : Owned(g)' => Owned(g)
  BY DEF OneToken, Fewer, Owned
<1> QED BY <1>1, <1>2

\* Such a step keeps the part of the invariant that speaks of tokens.
LEMMA FewerKeeps ==
  ASSUME OwnerInv, Fewer, RowsStay, StartsFree, AddRowStays, UNCHANGED <<rcv, run>>
  PROVE  TokenPart'
<1>1. OneToken' /\ \A g \in Gids : Owned(g)' => Owned(g)
  BY FewerTokens DEF OwnerInv
<1>2. OwnedQuiet'
  BY <1>1 DEF OwnerInv, OwnedQuiet, StartsFree
<1>3. OwnedKnown'
  <2> SUFFICES ASSUME NEW g \in Gids, Owned(g)', status'[g] = "new"
               PROVE  \E c \in Callers : call'[c].pc = "addRow" /\ call'[c].gid = g
    BY DEF OwnedKnown
  <2>1. PICK c \in Callers : call[c].pc = "addRow" /\ call[c].gid = g
    BY <1>1 DEF OwnerInv, OwnedKnown, RowsStay
  <2> QED BY <2>1 DEF AddRowStays
<1>4. RcvAlone'
  <2>1. rcv.pc # "idle" => rcv.gid \in Gids
    BY DEF OwnerInv, TypeOK, RcvOK
  <2>2. run \in {"recover", "down"} =>
          \A g \in Gids : ~OnDisc(g)' /\ hjobs'[g] = 0 /\ \A w \in Workers : ~OnWork(w, g)'
    BY DEF OwnerInv, RcvAlone, Fewer
  <2>3. run = "down" => \A g \in Gids : ~Owned(g)'
    BY <1>1 DEF OwnerInv, RcvAlone
  <2>4. rcv.pc # "idle" => run = "recover" /\ status'[rcv.gid] # "new" /\ ~Owned(rcv.gid)'
    BY <1>1, <2>1 DEF OwnerInv, RcvAlone, RowsStay
  <2>5. \A g \in Gids : rcv.plan[g] # "idle" => run = "recover" /\ status'[g] # "new" /\ ~Owned(g)'
    BY <1>1 DEF OwnerInv, RcvAlone, RowsStay
  <2> QED BY <2>2, <2>3, <2>4, <2>5 DEF RcvAlone
<1> QED BY <1>1, <1>2, <1>3, <1>4 DEF TokenPart

\* A step that opens no session, moves no worker and unmakes no hybrid row keeps
\* the sessions owned.
LEMMA SessKeeps ==
  ASSUME OwnerInv, UNCHANGED work, \A g \in Gids : sess'[g] = "open" => sess[g] = "open",
         \A g \in Gids : HybridRow(g) => HybridRow(g)'
  PROVE  SessOwned'
<1>1. \A w \in Workers : work[w].pc = "open" => work[w].gid \in Gids
  BY DEF OwnerInv, TypeOK, WorkOK
<1> QED BY <1>1 DEF OwnerInv, SessOwned

\* The engines: nothing but the end of a task or of a session.
LEMMA OwnerEngines == ASSUME OwnerInv, Engines PROVE AddersOK' /\ TokenPart' /\ SessOwned'
<1>1. UNCHANGED <<status, engine, djobs, hjobs, call, disc, work, rcv, run>>
  BY DEF Engines, AriaOpen, AriaReceive, AriaFinish, LtWrite, LtFinish, OnlyWorld, rows,
     jobs, control
<1>2. \A g \in Gids : /\ aria'[g] = "active" => aria[g] = "active"
                      /\ sess'[g] = "open" => sess[g] = "open"
  BY DEF Engines, AriaOpen, AriaReceive, AriaFinish, LtWrite, LtFinish, OwnerInv, TypeOK,
     WorldOK
<1>3. Fewer
  BY <1>1 DEF Fewer, Adder, OnDisc, OnWork
<1>4. RowsStay /\ StartsFree /\ AddRowStays
  BY <1>1, <1>2 DEF RowsStay, StartsFree, AddRowStays
<1>5. AddersOK'
  BY <1>1 DEF OwnerInv, AddersOK
<1>6. SessOwned'
  BY <1>1, <1>2, SessKeeps DEF HybridRow
<1> QED BY <1>1, <1>3, <1>4, <1>5, <1>6, FewerKeeps

-----------------------------------------------------------------------------
(* The callers. *)

\* A caller that is not in AddHttpDownload moves outside it, and never resumes.
Aside(c) ==
    /\ call[c].pc \notin AddPcs /\ call'[c].pc \notin AddPcs \cup ResumePcs
    /\ \A d \in Callers : d # c => call'[d] = call[d]

\* Such a caller takes no token.
LEMMA AsideFewer ==
  ASSUME OwnerInv, NEW c \in Callers, Aside(c), UNCHANGED <<disc, work, djobs>>,
         \A g \in Gids : hjobs'[g] \in {hjobs[g], 0}
  PROVE  AddersOK' /\ Fewer /\ AddRowStays
<1>1. AddersOK'
  BY DEF OwnerInv, AddersOK, Aside
<1>2. Fewer
  BY DEF Fewer, Adder, OnDisc, OnWork, Aside
<1>3. AddRowStays
  BY DEF AddRowStays, Aside, AddPcs
<1> QED BY <1>1, <1>2, <1>3

\* What CancelSection does to the worker queue.
LEMMA CancelJobs ==
  ASSUME TypeOK, NEW g \in Gids, CancelSection(g)
  PROVE  UNCHANGED djobs /\ \A h \in Gids : hjobs'[h] \in {hjobs[h], 0}
BY DEF CancelSection, TypeOK, StatesOK

\* The first steps of Pause and Delete; Resume is not issued.
LEMMA OwnerBegin ==
  ASSUME OwnerInv, "Resume" \notin Ops, NEW c \in Callers, NEW g \in Gids,
         PauseRecord(c, g) \/ ResumeRecord(c, g) \/ DeleteCancel(c, g)
  PROVE  AddersOK' /\ TokenPart' /\ SessOwned'
<1>1. UNCHANGED <<status, engine, aria, sess, disc, work, rcv, run>>
  BY DEF PauseRecord, ResumeRecord, DeleteCancel, CallElse, rows, world
<1>2. Aside(c)
  <2>1. call \in [Callers -> [pc : CallPcs, gid : GidOrNone, owned : BOOLEAN]]
    BY DEF OwnerInv, TypeOK, CallOK
  <2>2. call[c].pc = "idle"
    BY DEF PauseRecord, ResumeRecord, DeleteCancel, Begin, MayCall, Idle
  <2>3. \E r \in {"pauseMark", "delClose", "delLock"} :
           call' = [call EXCEPT ![c] = [pc |-> r, gid |-> g, owned |-> FALSE]]
    BY DEF PauseRecord, ResumeRecord, DeleteCancel, Begin
  <2> QED BY <2>1, <2>2, <2>3 DEF Aside, AddPcs, ResumePcs
<1>3. UNCHANGED djobs /\ \A h \in Gids : hjobs'[h] \in {hjobs[h], 0}
  BY CancelJobs DEF PauseRecord, ResumeRecord, DeleteCancel, jobs, OwnerInv, TypeOK, StatesOK
<1>4. AddersOK' /\ Fewer /\ AddRowStays
  BY <1>1, <1>2, <1>3, AsideFewer
<1>5. RowsStay /\ StartsFree
  BY <1>1 DEF RowsStay, StartsFree
<1>6. SessOwned'
  BY <1>1, SessKeeps DEF HybridRow
<1> QED BY <1>1, <1>4, <1>5, <1>6, FewerKeeps

\* AddHttpDownload gives a download without a row to this caller: nobody else
\* has it, because whoever has one has a row, or is the adder itself.
LEMMA OwnerAddShell ==
  ASSUME OwnerInv, NEW c \in Callers, NEW g \in Gids, AddShell(c, g)
  PROVE  AddersOK' /\ TokenPart' /\ SessOwned'
<1>1. UNCHANGED <<status, engine, sess, djobs, hjobs, disc, work, rcv, run>>
  BY DEF AddShell, CallElse, rows, jobs
<1>2. call \in [Callers -> [pc : CallPcs, gid : GidOrNone, owned : BOOLEAN]]
  BY DEF OwnerInv, TypeOK, CallOK
<1>3. call'[c].pc = "addRow" /\ call'[c].gid = g /\ \A d \in Callers : d # c => call'[d] = call[d]
  BY <1>2 DEF AddShell
<1>4. \A d \in Callers : call[d].pc \notin AddPcs
  BY DEF AddShell, RpcFree, LockedCallPcs
<1>5. status[g] = "new" /\ ~Owned(g)
  <2>1. status[g] = "new"
    BY DEF AddShell
  <2> QED BY <1>4, <2>1 DEF OwnerInv, OwnedKnown, AddPcs
<1>6. \A d \in Callers, h \in Gids : Adder(d, h)' <=> d = c /\ h = g
  BY <1>3, <1>4 DEF Adder, AddPcs
<1>7. AddersOK'
  BY <1>3, <1>4 DEF OwnerInv, AddersOK, AddPcs, ResumePcs
<1>8. OneToken'
  BY <1>1, <1>5, <1>6 DEF OwnerInv, OneToken, OnDisc, OnWork, Owned
<1>9. \A h \in Gids : Owned(h)' => Owned(h) \/ h = g
  BY <1>1, <1>6 DEF Owned, OnDisc, OnWork
<1>10. aria' = [aria EXCEPT ![g] = "paused"]
  BY DEF AddShell
<1>11. OwnedQuiet'
  BY <1>9, <1>10 DEF OwnerInv, OwnedQuiet, TypeOK, WorldOK
<1>12. OwnedKnown'
  BY <1>1, <1>3, <1>4, <1>9 DEF OwnerInv, OwnedKnown, AddPcs
<1>13. RcvAlone'
  <2>1. run \notin {"down"}
    BY DEF AddShell, MayCall
  <2>2. rcv.pc # "idle" => rcv.gid \in Gids
    BY DEF OwnerInv, TypeOK, RcvOK
  <2>3. run = "recover" =>
          \A h \in Gids : ~OnDisc(h)' /\ hjobs'[h] = 0 /\ \A w \in Workers : ~OnWork(w, h)'
    BY <1>1 DEF OwnerInv, RcvAlone, OnDisc, OnWork
  <2>4. rcv.pc # "idle" => run = "recover" /\ status[rcv.gid] # "new" /\ ~Owned(rcv.gid)'
    BY <1>1, <1>5, <1>9, <2>2 DEF OwnerInv, RcvAlone
  <2>5. \A h \in Gids : rcv.plan[h] # "idle" => run = "recover" /\ status[h] # "new" /\ ~Owned(h)'
    BY <1>5, <1>9 DEF OwnerInv, RcvAlone
  <2> QED BY <1>1, <2>1, <2>3, <2>4, <2>5 DEF RcvAlone
<1>14. SessOwned'
  BY <1>1, SessKeeps DEF HybridRow
<1> QED BY <1>7, <1>8, <1>11, <1>12, <1>13, <1>14 DEF TokenPart

\* The four steps in which the adder writes the row and registers the probe; the
\* engine it names is that of a download no worker has.
LEMMA OwnerAdd ==
  ASSUME OwnerInv, NEW c \in Callers,
         AddRow(c) \/ AddPolicy(c) \/ AddEngine(c) \/ AddProbe(c)
  PROVE  AddersOK' /\ TokenPart' /\ SessOwned'
<1>1. UNCHANGED <<aria, sess, djobs, hjobs, disc, work, rcv, run>>
  BY DEF AddRow, AddPolicy, AddEngine, AddProbe, CallElse, world, jobs
<1>2. Adder(c, Gid(c)) /\ Gid(c) \in Gids
  BY DEF AddRow, AddPolicy, AddEngine, AddProbe, At, Adder, AddPcs, Gid, OwnerInv, TypeOK, CallOK
<1>3. call'[c].pc \in AddPcs \ {"addRow"} /\ call'[c].gid = call[c].gid
  BY DEF AddRow, AddPolicy, AddEngine, AddProbe, Goto, AddPcs, OwnerInv, TypeOK, CallOK
<1>4. \A d \in Callers : d # c => call'[d] = call[d]
  BY DEF AddRow, AddPolicy, AddEngine, AddProbe, Goto, OwnerInv, TypeOK, CallOK
<1>5. AddersOK'
  BY <1>2, <1>3, <1>4 DEF OwnerInv, AddersOK, Adder, AddPcs, ResumePcs
<1>6. Fewer
  BY <1>1, <1>2, <1>3, <1>4 DEF Fewer, Adder, OnDisc, OnWork
<1>7. RowsStay
  BY <1>2 DEF AddRow, AddPolicy, AddEngine, AddProbe, SetStatus, RowsStay, rows,
     OwnerInv, TypeOK, RowsOK
<1>8. AddRowStays
  <2>1. ASSUME call[c].pc = "addRow" PROVE status'[call[c].gid] # "new"
    BY <1>2, <2>1 DEF AddRow, AddPolicy, AddEngine, AddProbe, At, SetStatus, Gid,
       OwnerInv, TypeOK, RowsOK
  <2> QED BY <1>4, <2>1 DEF AddRowStays
<1>9. TokenPart'
  BY <1>1, <1>6, <1>7, <1>8, FewerKeeps DEF StartsFree
<1>10. SessOwned'
  <2>1. CASE ~AddEngine(c)
    <3>1. \A g \in Gids : HybridRow(g) => HybridRow(g)'
      BY <2>1 DEF AddRow, AddPolicy, AddEngine, AddProbe, SetStatus, HybridRow, rows,
         OwnerInv, TypeOK, RowsOK
    <3> QED BY <1>1, <3>1, SessKeeps
  <2>2. CASE AddEngine(c)
    <3>1. status' = status /\ SetEngine(Gid(c), "Probe")
      BY <2>2 DEF AddEngine
    <3>2. \A w \in Workers : ~OnWork(w, Gid(c))
      BY <1>2 DEF OwnerInv, OneToken
    <3>3. \A g \in Gids : g # Gid(c) /\ HybridRow(g) => HybridRow(g)'
      BY <1>2, <3>1 DEF SetEngine, HybridRow, OwnerInv, TypeOK, RowsOK
    <3>4. \A w \in Workers : work[w].pc # "idle" => work[w].gid \in Gids /\ work[w].gid # Gid(c)
      BY <3>2 DEF OnWork, OwnerInv, TypeOK, WorkOK
    <3> QED BY <1>1, <3>3, <3>4 DEF OwnerInv, SessOwned, SessPcs
  <2> QED BY <2>1, <2>2
<1> QED BY <1>5, <1>9, <1>10

\* The adder's token goes to the discovery queue.
LEMMA OwnerQueue ==
  ASSUME OwnerInv, NEW c \in Callers, QueueDiscovery(c)
  PROVE  AddersOK' /\ TokenPart' /\ SessOwned'
<1> DEFINE g == Gid(c)
<1>1. UNCHANGED <<status, engine, aria, sess, hjobs, disc, work, rcv, run>>
  BY DEF QueueDiscovery, CallElse, rows, world
<1>2. call[c].pc = "addQueue" /\ Adder(c, g) /\ g \in Gids
  BY DEF QueueDiscovery, At, Adder, AddPcs, ResumePcs, Gid, OwnerInv, AddersOK, TypeOK, CallOK
<1>3. call'[c].pc = "idle" /\ \A d \in Callers : d # c => call'[d] = call[d]
  BY DEF QueueDiscovery, Done, IdleCall, OwnerInv, TypeOK, CallOK
<1>4. \A d \in Callers, h \in Gids : Adder(d, h)' => Adder(d, h) /\ h # g
  BY <1>2, <1>3 DEF Adder, AddPcs, OwnerInv, AddersOK
<1>5. djobs \in [Gids -> Nat]
  BY DEF OwnerInv, TypeOK, StatesOK
<1>6. djobs[g] = 0 /\ djobs' = [djobs EXCEPT ![g] = 1]
  <2>1. djobs[g] = 0
    BY <1>2 DEF OwnerInv, OneToken
  <2>2. djobs' = [djobs EXCEPT ![g] = djobs[g] + 1]
    BY DEF QueueDiscovery
  <2> QED BY <2>1, <2>2
<1>7. AddersOK'
  BY <1>3 DEF OwnerInv, AddersOK, AddPcs, ResumePcs
<1>8. OneToken'
  BY <1>1, <1>2, <1>4, <1>5, <1>6 DEF OwnerInv, OneToken, OnDisc, OnWork
<1>9. \A h \in Gids : Owned(h)' => Owned(h)
  BY <1>1, <1>2, <1>4, <1>5, <1>6 DEF Owned, OnDisc, OnWork
<1>10. OwnedQuiet'
  BY <1>1, <1>9 DEF OwnerInv, OwnedQuiet
<1>11. OwnedKnown'
  <2> SUFFICES ASSUME NEW h \in Gids, Owned(h)', status[h] = "new"
               PROVE  \E d \in Callers : call'[d].pc = "addRow" /\ call'[d].gid = h
    BY <1>1 DEF OwnedKnown
  <2>1. PICK d \in Callers : call[d].pc = "addRow" /\ call[d].gid = h
    BY <1>9 DEF OwnerInv, OwnedKnown
  <2>2. d # c
    BY <1>2, <2>1
  <2> QED BY <1>3, <2>1, <2>2
<1>12. RcvAlone'
  <2>1. rcv.pc # "idle" => rcv.gid \in Gids
    BY DEF OwnerInv, TypeOK, RcvOK
  <2> QED BY <1>1, <1>9, <2>1 DEF OwnerInv, RcvAlone, OnDisc, OnWork
<1>13. SessOwned'
  BY <1>1, SessKeeps DEF HybridRow
<1> QED BY <1>7, <1>8, <1>10, <1>11, <1>12, <1>13 DEF TokenPart

\* The rest of Pause and Delete.
LEMMA OwnerCallStep ==
  ASSUME OwnerInv, NEW c \in Callers, CallStep(c)
  PROVE  AddersOK' /\ TokenPart' /\ SessOwned'
<1> DEFINE Pausing == \/ PauseMark(c) \/ PauseSession(c) \/ PauseCancel(c)
                      \/ PauseClose(c) \/ PauseAria(c)
<1>1. call \in [Callers -> [pc : CallPcs, gid : GidOrNone, owned : BOOLEAN]]
  BY DEF OwnerInv, TypeOK, CallOK
<1>2. ~ResumeStep(c)
  BY DEF OwnerInv, AddersOK, ResumePcs, ResumeStep, ResumeFailed, ResumeMark, ResumeSession,
     TryCheck, TryFile, TryProbe, TryEngine, ResumeAria, At
<1>3. ASSUME Pausing \/ DeleteStep(c) PROVE AddersOK' /\ TokenPart' /\ SessOwned'
  <2>1. Gid(c) \in Gids
    BY <1>3, CallGid DEF PauseMark, PauseSession, PauseCancel, PauseClose, PauseAria,
       DeleteStep, DeleteClose, DeleteLock, DeleteShell, DeleteFile, DeleteRow, At, Idle, OwnerInv
  <2>2. UNCHANGED <<engine, disc, work, rcv, run, djobs>>
    BY <1>3 DEF PauseMark, PauseSession, PauseCancel, PauseClose, PauseAria, CancelSection,
       DeleteStep, DeleteClose, DeleteLock, DeleteShell, DeleteFile, DeleteRow, CallElse,
       rows, jobs, control
  <2>3. Aside(c)
    <3>1. CASE PauseMark(c)
      BY <1>1, <3>1 DEF PauseMark, At, Aside, AddPcs, ResumePcs
    <3>2. CASE DeleteStep(c) \/ PauseSession(c) \/ PauseCancel(c) \/ PauseClose(c) \/ PauseAria(c)
      BY <1>1, <3>2 DEF PauseSession, PauseCancel, PauseClose, PauseAria, DeleteStep,
         DeleteClose, DeleteLock, DeleteShell, DeleteFile, DeleteRow, At, Goto, Done,
         IdleCall, Aside, AddPcs, ResumePcs
    <3> QED BY <1>3, <3>1, <3>2
  <2>4. \A g \in Gids : hjobs'[g] \in {hjobs[g], 0}
    <3>1. CASE PauseCancel(c)
      BY <2>1, <3>1, CancelJobs DEF PauseCancel, OwnerInv
    <3>2. CASE ~PauseCancel(c)
      BY <1>3, <3>2 DEF PauseMark, PauseSession, PauseClose, PauseAria, DeleteStep,
         DeleteClose, DeleteLock, DeleteShell, DeleteFile, DeleteRow, jobs
    <3> QED BY <3>1, <3>2
  <2>5. AddersOK' /\ Fewer /\ AddRowStays
    BY <2>2, <2>3, <2>4, AsideFewer
  <2>6. UNCHANGED status \/ SetStatus(Gid(c), "deleted")
    BY <1>3 DEF PauseMark, PauseSession, PauseCancel, PauseClose, PauseAria,
       DeleteStep, DeleteClose, DeleteLock, DeleteShell, DeleteFile, DeleteRow, rows
  <2>7. RowsStay /\ \A g \in Gids : HybridRow(g) => HybridRow(g)'
    BY <2>1, <2>2, <2>6 DEF RowsStay, HybridRow, SetStatus, OwnerInv, TypeOK, RowsOK
  <2>8. \A g \in Gids : aria'[g] = "active" => aria[g] = "active"
    BY <1>3, <2>1 DEF PauseMark, PauseSession, PauseCancel, PauseClose, PauseAria, Rpc,
       DeleteStep, DeleteClose, DeleteLock, DeleteShell, DeleteFile, DeleteRow, world,
       OwnerInv, TypeOK, WorldOK
  <2>9. \A g \in Gids : sess'[g] = "open" => sess[g] = "open"
    BY <1>3, <2>1 DEF PauseMark, PauseSession, PauseCancel, PauseClose, PauseAria,
       DeleteStep, DeleteClose, DeleteLock, DeleteShell, DeleteFile, DeleteRow, world,
       CloseSession, OwnerInv, TypeOK, WorldOK
  <2>10. TokenPart'
    BY <2>2, <2>5, <2>7, <2>8, FewerKeeps DEF StartsFree
  <2>11. SessOwned'
    BY <2>2, <2>7, <2>9, SessKeeps
  <2> QED BY <2>5, <2>10, <2>11
<1> QED BY <1>2, <1>3, OwnerAdd, OwnerQueue DEF CallStep, AddPauseStep

-----------------------------------------------------------------------------
(* The discovery thread. *)

\* What the discovery thread leaves alone.
LEMMA DiscFrame ==
  ASSUME Discovery
  PROVE  UNCHANGED <<status, sess, call, work, rcv, run>>
BY DEF Discovery, DiscStep, DiscPop, DiscLookup, DiscQueue, DiscDecide, DiscHandBack,
   DiscResume, DiscElse, rows, world, control

\* The token goes from the queue to the thread,
LEMMA OwnerDiscPop ==
  ASSUME OwnerInv, NEW g \in Gids, DiscPop(g)
  PROVE  AddersOK' /\ TokenPart' /\ SessOwned'
<1>1. UNCHANGED <<status, engine, aria, sess, hjobs, call, work, rcv, run>>
  BY DiscFrame DEF Discovery, DiscPop, rows, world
<1>2. disc.pc = "idle" /\ disc'.pc # "idle" /\ disc'.gid = g /\ run \in {"up", "stopRefresh"}
  BY DEF DiscPop, Idle, OwnerInv, TypeOK, DiscOK
<1>3. djobs \in [Gids -> Nat] /\ djobs[g] = 1 /\ djobs' = [djobs EXCEPT ![g] = 0]
  <2>1. djobs \in [Gids -> Nat] /\ djobs[g] > 0 /\ djobs[g] \in {0, 1}
    BY DEF DiscPop, OwnerInv, OneToken, TypeOK, StatesOK
  <2>2. djobs' = [djobs EXCEPT ![g] = djobs[g] - 1]
    BY DEF DiscPop
  <2>3. djobs[g] = 1 /\ djobs[g] - 1 = 0
    BY <2>1
  <2> QED BY <2>1, <2>2, <2>3
<1>4. AddersOK'
  BY <1>1 DEF OwnerInv, AddersOK
<1>5. OneToken'
  BY <1>1, <1>2, <1>3 DEF OwnerInv, OneToken, Adder, OnDisc, OnWork
<1>6. \A h \in Gids : Owned(h)' => Owned(h)
  BY <1>1, <1>2, <1>3 DEF Owned, Adder, OnDisc, OnWork
<1>7. OwnedQuiet' /\ OwnedKnown'
  BY <1>1, <1>6 DEF OwnerInv, OwnedQuiet, OwnedKnown
<1>8. RcvAlone'
  <2>1. rcv.pc # "idle" => rcv.gid \in Gids
    BY DEF OwnerInv, TypeOK, RcvOK
  <2> QED BY <1>1, <1>2, <1>6, <2>1 DEF OwnerInv, RcvAlone
<1>9. SessOwned'
  BY <1>1, SessKeeps DEF HybridRow
<1> QED BY <1>4, <1>5, <1>7, <1>8, <1>9 DEF TokenPart

\* from the thread to the worker queue,
LEMMA OwnerDiscQueue ==
  ASSUME OwnerInv, DiscQueue
  PROVE  AddersOK' /\ TokenPart' /\ SessOwned'
<1> DEFINE g == disc.gid
<1>1. UNCHANGED <<status, engine, aria, sess, djobs, call, work, rcv, run>>
  BY DiscFrame DEF Discovery, DiscStep, DiscQueue, rows, world
<1>2. disc.pc = "queue" /\ g \in Gids /\ OnDisc(g) /\ disc'.pc = "idle"
  BY DEF DiscQueue, IdleDisc, OnDisc, OwnerInv, TypeOK, DiscOK
<1>3. hjobs \in [Gids -> Nat] /\ hjobs[g] = 0
  BY <1>2 DEF OwnerInv, OneToken, TypeOK, StatesOK
<1>4. hjobs' = hjobs \/ hjobs' = [hjobs EXCEPT ![g] = 1]
  <2>1. hjobs' = hjobs \/ hjobs' = [hjobs EXCEPT ![g] = hjobs[g] + 1]
    BY DEF DiscQueue
  <2> QED BY <1>3, <2>1
<1>5. run \notin {"recover", "down"}
  BY <1>2 DEF OwnerInv, RcvAlone
<1>6. AddersOK'
  BY <1>1 DEF OwnerInv, AddersOK
<1>7. OneToken'
  BY <1>1, <1>2, <1>3, <1>4 DEF OwnerInv, OneToken, Adder, OnDisc, OnWork
<1>8. \A h \in Gids : Owned(h)' => Owned(h)
  BY <1>1, <1>2, <1>3, <1>4 DEF Owned, Adder, OnDisc, OnWork
<1>9. OwnedQuiet' /\ OwnedKnown'
  BY <1>1, <1>8 DEF OwnerInv, OwnedQuiet, OwnedKnown
<1>10. RcvAlone'
  <2>1. rcv.pc # "idle" => rcv.gid \in Gids
    BY DEF OwnerInv, TypeOK, RcvOK
  <2> QED BY <1>1, <1>5, <1>8, <2>1 DEF OwnerInv, RcvAlone
<1>11. SessOwned'
  BY <1>1, SessKeeps DEF HybridRow
<1> QED BY <1>6, <1>7, <1>9, <1>10, <1>11 DEF TokenPart

\* or ends there, and only then aria2 is resumed.
LEMMA OwnerDiscStep ==
  ASSUME OwnerInv, DiscLookup \/ DiscDecide \/ DiscHandBack \/ DiscResume
  PROVE  AddersOK' /\ TokenPart' /\ SessOwned'
<1>1. UNCHANGED <<status, sess, djobs, hjobs, call, work, rcv, run>>
  BY DiscFrame DEF Discovery, DiscStep, DiscLookup, DiscDecide, DiscHandBack, DiscResume, jobs
<1>2. disc.pc # "idle" /\ disc.gid \in Gids /\ OnDisc(disc.gid)
  BY DEF DiscLookup, DiscDecide, DiscHandBack, DiscResume, OnDisc, OwnerInv, TypeOK, DiscOK
<1>3. disc' = IdleDisc \/ disc'.gid = disc.gid
  BY DEF DiscLookup, DiscDecide, DiscHandBack, DiscResume, DGoto, OwnerInv, TypeOK, DiscOK
<1>4. AddersOK'
  BY <1>1 DEF OwnerInv, AddersOK
<1>5. Fewer
  BY <1>1, <1>2, <1>3 DEF Fewer, Adder, OnDisc, OnWork, IdleDisc
<1>6. StartsFree
  <2>1. CASE DiscResume
    <3>1. \A h \in Gids : aria'[h] = "active" => aria[h] = "active" \/ h = disc.gid
      BY <1>2, <2>1 DEF DiscResume, Unpause, Rpc, OwnerInv, TypeOK, WorldOK
    <3>2. disc' = IdleDisc
      BY <2>1 DEF DiscResume
    <3>3. \A h \in Gids : h = disc.gid => ~Owned(h)'
      BY <1>1, <1>2, <3>2 DEF OwnerInv, OneToken, Owned, Adder, OnDisc, OnWork, IdleDisc
    <3> QED BY <3>1, <3>3 DEF StartsFree
  <2>2. CASE ~DiscResume
    BY <2>2 DEF DiscLookup, DiscDecide, DiscHandBack, world, StartsFree
  <2> QED BY <2>1, <2>2
<1>7. TokenPart'
  BY <1>1, <1>5, <1>6, FewerKeeps DEF RowsStay, AddRowStays
<1>8. SessOwned'
  <2>1. CASE ~DiscHandBack
    BY <1>1, <2>1, SessKeeps DEF DiscLookup, DiscDecide, DiscResume, rows, HybridRow
  <2>2. CASE DiscHandBack
    <3>1. SetEngine(disc.gid, "Aria2")
      BY <2>2 DEF DiscHandBack
    <3>2. \A g \in Gids : g # disc.gid /\ HybridRow(g) => HybridRow(g)'
      BY <1>1, <1>2, <3>1 DEF SetEngine, HybridRow, OwnerInv, TypeOK, RowsOK
    <3>3. \A w \in Workers : work[w].pc # "idle" => work[w].gid \in Gids /\ work[w].gid # disc.gid
      BY <1>2 DEF OnWork, OwnerInv, OneToken, TypeOK, WorkOK
    <3> QED BY <1>1, <3>2, <3>3 DEF OwnerInv, SessOwned, SessPcs
  <2> QED BY <2>1, <2>2
<1> QED BY <1>4, <1>7, <1>8

-----------------------------------------------------------------------------
(* The workers. *)

\* What a worker leaves alone.
LEMMA WorkFrame ==
  ASSUME NEW w \in Workers, Worker(w)
  PROVE  UNCHANGED <<status, djobs, call, disc, rcv, run>>
<1>1. CASE TransferStep(w)
  BY <1>1 DEF TransferStep, WorkRelease, WorkClaim, WorkOpen, WorkConnect, WorkPoll,
     WorkStatus, WorkDropClose, WorkDropErase, WorkClose, WorkVerify, WorkPublish,
     WorkElse, rows, jobs, control
<1>2. CASE FailStep(w)
  BY <1>2 DEF FailStep, WorkFailClose, WorkFailFile, WorkFailJudge, WorkHandBack,
     WorkResume, WorkElse, rows, jobs, control
<1>3. CASE WorkTimeout(w) \/ \E g \in Gids : WorkPop(w, g)
  BY <1>3 DEF WorkTimeout, WorkPop, WorkElse, rows, jobs, control
<1> QED BY <1>1, <1>2, <1>3 DEF Worker, WorkStep

\* The token goes from the queue to the worker.
LEMMA OwnerWorkPop ==
  ASSUME OwnerInv, NEW w \in Workers, NEW g \in Gids, WorkPop(w, g)
  PROVE  AddersOK' /\ TokenPart' /\ SessOwned'
<1>1. UNCHANGED <<status, engine, aria, sess, djobs, call, disc, rcv, run>>
  BY WorkFrame DEF Worker, WorkPop, rows, world
<1>2. hjobs \in [Gids -> Nat] /\ hjobs[g] = 1 /\ hjobs' = [hjobs EXCEPT ![g] = 0]
  <2>1. hjobs \in [Gids -> Nat] /\ hjobs[g] > 0 /\ hjobs[g] \in {0, 1}
    BY DEF WorkPop, OwnerInv, OneToken, TypeOK, StatesOK
  <2>2. hjobs' = [hjobs EXCEPT ![g] = hjobs[g] - 1]
    BY DEF WorkPop
  <2>3. hjobs[g] = 1 /\ hjobs[g] - 1 = 0
    BY <2>1
  <2> QED BY <2>1, <2>2, <2>3
<1>3. work[w].pc = "idle"
      /\ \/ UNCHANGED work
         \/ work' = [work EXCEPT ![w] = [pc |-> "release", gid |-> g, ok |-> FALSE]]
  BY DEF WorkPop, Idle
<1>4. work \in [Workers -> [pc : WorkPcs, gid : GidOrNone, ok : BOOLEAN]]
  BY DEF OwnerInv, TypeOK, WorkOK
<1>5. /\ \A v \in Workers : v # w => work'[v] = work[v]
      /\ work'[w] = work[w] \/ (work'[w].pc = "release" /\ work'[w].gid = g)
  BY <1>3, <1>4
<1>6. \A v \in Workers, h \in Gids : OnWork(v, h)' => OnWork(v, h) \/ (v = w /\ h = g)
  BY <1>5 DEF OnWork
<1>7. AddersOK'
  BY <1>1 DEF OwnerInv, AddersOK
<1>8. OneToken'
  <2> SUFFICES ASSUME NEW h \in Gids
      PROVE  (/\ djobs[h] \in {0, 1} /\ hjobs[h] \in {0, 1}
              /\ djobs[h] # 0 => ~OnDisc(h) /\ hjobs[h] = 0
              /\ OnDisc(h) => hjobs[h] = 0
              /\ \A c \in Callers : Adder(c, h) => djobs[h] = 0 /\ ~OnDisc(h) /\ hjobs[h] = 0
              /\ \A v \in Workers :
                    OnWork(v, h) => /\ djobs[h] = 0 /\ ~OnDisc(h) /\ hjobs[h] = 0
                                    /\ \A c \in Callers : ~Adder(c, h)
                                    /\ \A u \in Workers : OnWork(u, h) => u = v)'
    BY DEF OneToken
  <2>1. CASE h # g
    BY <1>1, <1>2, <1>6, <2>1 DEF OwnerInv, OneToken, Adder, OnDisc
  <2>2. CASE h = g
    BY <1>1, <1>2, <1>6, <2>2 DEF OwnerInv, OneToken, Adder, OnDisc
  <2> QED BY <2>1, <2>2
<1>9. \A h \in Gids : Owned(h)' => Owned(h)
  BY <1>1, <1>2, <1>6 DEF Owned, Adder, OnDisc
<1>10. OwnedQuiet' /\ OwnedKnown'
  BY <1>1, <1>9 DEF OwnerInv, OwnedQuiet, OwnedKnown
<1>11. RcvAlone'
  <2>1. rcv.pc # "idle" => rcv.gid \in Gids
    BY DEF OwnerInv, TypeOK, RcvOK
  <2>2. run \notin {"recover", "down"}
    BY <1>2 DEF OwnerInv, RcvAlone
  <2> QED BY <1>1, <1>9, <2>1, <2>2 DEF OwnerInv, RcvAlone
<1>12. SessOwned'
  BY <1>1, <1>3, <1>5 DEF OwnerInv, SessOwned, SessPcs, HybridRow
<1> QED BY <1>7, <1>8, <1>10, <1>11, <1>12 DEF TokenPart

\* The steps of a worker on its download: where it stands, and where it goes.
WorkMoves(w) ==
    /\ work[w].pc # "idle" /\ work[w].gid \in Gids
    /\ work'[w] = IdleWork \/ work'[w].gid = work[w].gid
    /\ \A v \in Workers : v # w => work'[v] = work[v]

\* Every step of a worker is of that form.
LEMMA WorkMovesOK ==
  ASSUME TypeOK, NEW w \in Workers, WorkStep(w) \/ WorkTimeout(w)
  PROVE  WorkMoves(w) /\ UNCHANGED hjobs
<1> USE DEF TypeOK, WorkOK
<1>1. CASE WorkTimeout(w) \/ WorkRelease(w) \/ WorkClaim(w) \/ WorkOpen(w) \/ WorkConnect(w)
           \/ WorkPoll(w)
  BY <1>1 DEF WorkTimeout, WorkRelease, WorkClaim, WorkOpen, WorkConnect, WorkPoll, WAt,
     WGoto, WorkMoves, jobs
<1>2. CASE WorkStatus(w) \/ WorkDropClose(w) \/ WorkDropErase(w) \/ WorkClose(w)
           \/ WorkVerify(w) \/ WorkPublish(w)
  BY <1>2 DEF WorkStatus, WorkDropClose, WorkDropErase, WorkClose, WorkVerify, WorkPublish,
     WAt, WGoto, WDone, WorkMoves, jobs
<1>3. CASE WorkFailClose(w) \/ WorkFailFile(w) \/ WorkHandBack(w) \/ WorkResume(w)
  BY <1>3 DEF WorkFailClose, WorkFailFile, WorkHandBack, WorkResume, WAt, WGid, WGoto,
     WDone, WorkMoves, jobs
<1>4. CASE WorkFailJudge(w)
  <2>1. UNCHANGED hjobs /\ work[w].pc = "failJudge"
    BY <1>4 DEF WorkFailJudge, WAt, jobs
  <2>2. /\ work'[w] = IdleWork \/ work'[w].gid = work[w].gid
        /\ \A v \in Workers : v # w => work'[v] = work[v]
    BY <1>4 DEF WorkFailJudge
  <2> QED BY <2>1, <2>2 DEF WorkMoves
<1> QED BY <1>1, <1>2, <1>3, <1>4 DEF WorkStep, TransferStep, FailStep

\* A worker that moves keeps the tokens in place, and starts aria2 only as it
\* gives its token up.
LEMMA OwnerWorkTokens ==
  ASSUME OwnerInv, NEW w \in Workers, WorkStep(w) \/ WorkTimeout(w)
  PROVE  AddersOK' /\ TokenPart'
<1>1. UNCHANGED <<status, djobs, call, disc, rcv, run>>
  BY WorkFrame DEF Worker
<1>2. WorkMoves(w) /\ UNCHANGED hjobs
  BY WorkMovesOK DEF OwnerInv
<1>3. AddersOK'
  BY <1>1 DEF OwnerInv, AddersOK
<1>4. Fewer
  BY <1>1, <1>2 DEF Fewer, Adder, OnDisc, OnWork, WorkMoves, IdleWork
<1>5. StartsFree
  <2>1. CASE WorkResume(w)
    <3>1. \A h \in Gids : aria'[h] = "active" => aria[h] = "active" \/ h = work[w].gid
      BY <1>2, <2>1 DEF WorkResume, Unpause, Rpc, WGid, WorkMoves, OwnerInv, TypeOK, WorldOK
    <3>2. work'[w].pc = "idle"
      BY <2>1 DEF WorkResume, WDone, IdleWork, OwnerInv, TypeOK, WorkOK
    <3>3. \A h \in Gids : h = work[w].gid => ~Owned(h)'
      BY <1>1, <1>2, <3>2 DEF OwnerInv, OneToken, Owned, Adder, OnDisc, OnWork, WorkMoves
    <3> QED BY <3>1, <3>3 DEF StartsFree
  <2>2. CASE ~WorkResume(w)
    <3>1. UNCHANGED aria
      BY <2>2 DEF WorkStep, TransferStep, FailStep, WorkTimeout, WorkRelease, WorkClaim,
         WorkOpen, WorkConnect, WorkPoll, WorkStatus, WorkDropClose, WorkDropErase,
         WorkClose, WorkVerify, WorkPublish, WorkFailClose, WorkFailFile, WorkFailJudge,
         WorkHandBack, world
    <3> QED BY <3>1 DEF StartsFree
  <2> QED BY <2>1, <2>2
<1> QED BY <1>1, <1>3, <1>4, <1>5, FewerKeeps DEF RowsStay, AddRowStays

\* What a worker's step must do to keep the sessions owned.
LEMMA SessWorker ==
  ASSUME OwnerInv, NEW w \in Workers, WorkMoves(w),
         \A h \in Gids : HybridRow(h) => HybridRow(h)',
         \A h \in Gids : sess'[h] = "open" =>
            \/ sess[h] = "open" /\ (work[w].gid = h => work'[w].pc \in SessPcs \/ work[w].pc \notin SessPcs)
            \/ h = work[w].gid /\ work'[w].pc \in SessPcs /\ HybridRow(h),
         \A h \in Gids : work[w].gid = h /\ work'[w].pc = "open" => HybridRow(h)'
  PROVE  SessOwned'
<1>1. \A v \in Workers : work[v].pc # "idle" => work[v].gid \in Gids
  BY DEF OwnerInv, TypeOK, WorkOK
<1>2. work'[w].pc # "idle" => work'[w].gid = work[w].gid
  BY DEF WorkMoves, IdleWork
<1>3. ASSUME NEW h \in Gids, sess'[h] = "open"
      PROVE  \E v \in Workers : work'[v].pc \in SessPcs /\ work'[v].gid = h
  <2>1. CASE h = work[w].gid /\ work'[w].pc \in SessPcs
    BY <1>2, <2>1 DEF SessPcs
  <2>2. CASE sess[h] = "open" /\ (work[w].gid = h => work[w].pc \notin SessPcs)
    <3>1. PICK v \in Workers : work[v].pc \in SessPcs /\ work[v].gid = h
      BY <2>2 DEF OwnerInv, SessOwned
    <3> QED BY <2>2, <3>1 DEF WorkMoves
  <2> QED BY <1>3, <2>1, <2>2
<1>4. \A h \in Gids : sess'[h] = "open" => HybridRow(h)'
  BY DEF OwnerInv, SessOwned
<1>5. \A v \in Workers, h \in Gids : work'[v].pc = "open" /\ work'[v].gid = h => HybridRow(h)'
  BY <1>1, <1>2 DEF OwnerInv, SessOwned, WorkMoves
<1>6. \A v \in Workers : work'[v].pc = "open" => work'[v].gid \in Gids
  BY <1>1, <1>2 DEF WorkMoves
<1> QED BY <1>3, <1>4, <1>5, <1>6 DEF SessOwned, HybridRow

\* A worker opens a session on a row it has claimed, keeps it until it closes it,
\* and names aria2 in the row only of a download no session works on.
LEMMA OwnerWorkSess ==
  ASSUME OwnerInv, NEW w \in Workers, WorkStep(w) \/ WorkTimeout(w)
  PROVE  SessOwned'
<1>1. UNCHANGED status /\ WorkMoves(w)
  BY WorkFrame, WorkMovesOK DEF Worker, OwnerInv
<1>2. /\ work \in [Workers -> [pc : WorkPcs, gid : GidOrNone, ok : BOOLEAN]]
      /\ engine \in [Gids -> {"Aria2", "Probe", "Hybrid"}]
      /\ status \in [Gids -> {"new", "active", "complete", "failed", "deleted"}]
      /\ sess \in [Gids -> {"none", "open", "paused", "finished", "error"}]
      /\ WGid(w) = work[w].gid /\ work[w].gid \in Gids
  BY <1>1 DEF OwnerInv, TypeOK, WorkOK, RowsOK, WorldOK, WorkMoves, WGid
<1>3. CASE WorkHandBack(w)
  <2>1. SetEngine(work[w].gid, "Aria2") /\ UNCHANGED sess /\ work[w].pc = "handBack"
    BY <1>2, <1>3 DEF WorkHandBack, WAt, world
  <2>2. work'[w].pc \in {"idle", "resume"}
    BY <1>2, <1>3 DEF WorkHandBack, WGoto, WDone, IdleWork
  <2>3. \A h \in Gids : h # work[w].gid /\ HybridRow(h) => HybridRow(h)'
    BY <1>1, <1>2, <2>1 DEF SetEngine, HybridRow
  <2>4. \A v \in Workers : v # w /\ work[v].pc # "idle" => work[v].gid \in Gids \ {work[w].gid}
    BY <1>1 DEF OnWork, OwnerInv, OneToken, TypeOK, WorkOK, WorkMoves
  <2>5. \A h \in Gids : sess[h] = "open" => h # work[w].gid
    BY <2>1, <2>4 DEF OwnerInv, SessOwned, SessPcs
  <2>6. \A h \in Gids : sess[h] = "open" =>
           \E v \in Workers : v # w /\ work[v].pc \in SessPcs /\ work[v].gid = h
    BY <2>1 DEF OwnerInv, SessOwned, SessPcs
  <2>7. \A v \in Workers : v # w => work'[v] = work[v]
    BY <1>1 DEF WorkMoves
  <2>8. \A v \in Workers : work[v].pc = "open" => HybridRow(work[v].gid)
    BY DEF OwnerInv, SessOwned
  <2>9. \A h \in Gids : sess[h] = "open" => HybridRow(h)
    BY DEF OwnerInv, SessOwned
  <2>10. \A v \in Workers : work'[v].pc = "open" => v # w /\ work[v].pc = "open"
    BY <2>2, <2>7
  <2>11. \A v \in Workers, h \in Gids : work'[v].pc = "open" /\ work'[v].gid = h => HybridRow(h)'
    BY <2>3, <2>4, <2>7, <2>8, <2>10
  <2>12. \A v \in Workers : work'[v].pc = "open" => work'[v].gid \in Gids
    BY <2>4, <2>7, <2>10
  <2>13. \A h \in Gids : sess'[h] = "open" =>
           \E v \in Workers : work'[v].pc \in SessPcs /\ work'[v].gid = h
    BY <2>1, <2>6, <2>7
  <2>14. \A h \in Gids : sess'[h] = "open" => HybridRow(h)'
    BY <2>1, <2>3, <2>5, <2>9
  <2> QED BY <2>11, <2>12, <2>13, <2>14 DEF SessOwned, HybridRow
<1>4. CASE WorkClaim(w)
  <2>1. SetEngine(work[w].gid, "Hybrid") /\ UNCHANGED sess /\ work[w].pc = "claim"
    BY <1>2, <1>4 DEF WorkClaim, WAt, world
  <2>2. \A h \in Gids : (HybridRow(h) \/ h = work[w].gid) => HybridRow(h)'
    BY <1>1, <1>2, <2>1 DEF SetEngine, HybridRow
  <2> QED BY <1>1, <2>1, <2>2, SessWorker DEF SessPcs
<1>5. CASE WorkOpen(w)
  <2>1. UNCHANGED engine /\ work[w].pc = "open" /\ HybridRow(work[w].gid)
    BY <1>5 DEF WorkOpen, WAt, rows, OwnerInv, SessOwned
  <2>2. work'[w].pc \in {"failClose", "connect"}
    BY <1>2, <1>5 DEF WorkOpen, WGoto
  <2>3. \A h \in Gids : sess'[h] = "open" =>
           sess[h] = "open" \/ h = work[w].gid
    BY <1>2, <1>5 DEF WorkOpen
  <2>4. \A h \in Gids : HybridRow(h) => HybridRow(h)'
    BY <1>1, <2>1 DEF HybridRow
  <2> QED BY <1>1, <2>1, <2>2, <2>3, <2>4, SessWorker DEF SessPcs
<1>6. CASE WorkConnect(w)
  <2>1. UNCHANGED sess /\ (UNCHANGED engine \/ SetEngine(work[w].gid, "Hybrid"))
    BY <1>2, <1>6 DEF WorkConnect, world
  <2>2. work'[w].pc \in {"failClose", "poll"}
    BY <1>2, <1>6 DEF WorkConnect, WGoto
  <2>3. \A h \in Gids : HybridRow(h) => HybridRow(h)'
    BY <1>1, <1>2, <2>1 DEF SetEngine, HybridRow
  <2> QED BY <1>1, <2>1, <2>2, <2>3, SessWorker DEF SessPcs
<1>7. CASE WorkPoll(w) \/ WorkStatus(w) \/ WorkTimeout(w)
  <2>1. UNCHANGED <<sess, engine>>
    BY <1>7 DEF WorkPoll, WorkStatus, WorkTimeout, rows, world
  <2>2. work'[w].pc \in {"dropClose", "status", "failClose", "close", "poll"}
    BY <1>2, <1>7 DEF WorkPoll, WorkStatus, WorkTimeout, WGoto
  <2>3. \A h \in Gids : HybridRow(h) => HybridRow(h)'
    BY <1>1, <2>1 DEF HybridRow
  <2> QED BY <1>1, <2>1, <2>2, <2>3, SessWorker DEF SessPcs
<1>8. CASE WorkDropClose(w) \/ WorkClose(w) \/ WorkFailClose(w)
  <2>1. UNCHANGED engine /\ CloseSession(work[w].gid)
    BY <1>2, <1>8 DEF WorkDropClose, WorkClose, WorkFailClose, rows
  <2>2. work'[w].pc \in {"dropErase", "verify", "failFile"}
    BY <1>2, <1>8 DEF WorkDropClose, WorkClose, WorkFailClose, WGoto
  <2>3. \A h \in Gids : HybridRow(h) => HybridRow(h)'
    BY <1>1, <2>1 DEF HybridRow
  <2>4. \A h \in Gids : sess'[h] = "open" => sess[h] = "open" /\ h # work[w].gid
    BY <1>2, <2>1 DEF CloseSession
  <2> QED BY <1>1, <2>2, <2>3, <2>4, SessWorker DEF SessPcs
<1>9. CASE WorkRelease(w) \/ WorkDropErase(w) \/ WorkVerify(w) \/ WorkPublish(w)
           \/ WorkFailFile(w) \/ WorkFailJudge(w) \/ WorkResume(w)
  <2>1. UNCHANGED <<sess, engine>>
    BY <1>9 DEF WorkRelease, WorkDropErase, WorkVerify, WorkPublish, WorkFailFile,
       WorkFailJudge, WorkResume, rows, world
  <2>2. work[w].pc \in {"release", "dropErase", "verify", "publish", "failFile", "failJudge", "resume"}
    BY <1>9 DEF WorkRelease, WorkDropErase, WorkVerify, WorkPublish, WorkFailFile,
       WorkFailJudge, WorkResume, WAt
  <2>3. work'[w].pc # "open"
    <3>1. CASE WorkFailJudge(w)
      BY <1>2, <3>1 DEF WorkFailJudge, IdleWork
    <3>2. CASE ~WorkFailJudge(w)
      BY <1>2, <1>9, <3>2 DEF WorkRelease, WorkDropErase, WorkVerify, WorkPublish,
         WorkFailFile, WorkResume, WGoto, WDone, IdleWork
    <3> QED BY <3>1, <3>2
  <2>4. \A h \in Gids : HybridRow(h) => HybridRow(h)'
    BY <1>1, <2>1 DEF HybridRow
  <2> QED BY <1>1, <2>1, <2>2, <2>3, <2>4, SessWorker DEF SessPcs
<1> QED BY <1>3, <1>4, <1>5, <1>6, <1>7, <1>8, <1>9 DEF WorkStep, TransferStep, FailStep

-----------------------------------------------------------------------------
(* The refresh thread takes tokens away, and never starts aria2. *)

\* It completes and fails rows, closes sessions and cancels queued jobs.
LEMMA OwnerRefresh == ASSUME OwnerInv, Refresh PROVE AddersOK' /\ TokenPart' /\ SessOwned'
<1>1. UNCHANGED <<call, disc, work, rcv, run, djobs>>
  BY DEF Refresh, RefrStep, RefrBegin, RefrCheck, RefrPromote, RefrShell, RefrRowStatus,
     RefrRowEngine, RefrErase, RefrEnqueue, RefrPending, RefrSnapshot, RefrWrite, RefrReact,
     RefrReactClose, RefrReactDone, RefrElse, CancelSection, jobs, control
<1>2. refr.pc # "idle" => refr.gid \in Gids
  BY DEF OwnerInv, TypeOK, RefrOK
<1>3. RefrStep => refr.gid \in Gids
  BY <1>2 DEF RefrStep, RefrCheck, RefrPromote, RefrShell, RefrRowStatus,
     RefrRowEngine, RefrErase, RefrEnqueue, RefrPending, RefrSnapshot, RefrWrite, RefrReact,
     RefrReactClose, RefrReactDone, RAt
<1>4. \A g \in Gids : hjobs'[g] \in {hjobs[g], 0}
  <2>1. CASE RefrReact
    <3>1. UNCHANGED jobs \/ CancelSection(refr.gid)
      BY <2>1 DEF RefrReact
    <3>2. refr.gid \in Gids
      BY <1>3, <2>1 DEF RefrStep
    <3> QED BY <3>1, <3>2, CancelJobs DEF jobs, OwnerInv
  <2>2. CASE ~RefrReact
    BY <2>2 DEF Refresh, RefrStep, RefrBegin, RefrCheck, RefrPromote, RefrShell, RefrRowStatus,
       RefrRowEngine, RefrErase, RefrEnqueue, RefrPending, RefrSnapshot, RefrWrite, RefrReactClose,
       RefrReactDone, jobs
  <2> QED BY <2>1, <2>2
<1>5. \A g \in Gids : (status'[g] = "new" => status[g] = "new")
                      /\ (status[g] = "deleted" => status'[g] = "deleted")
  <2>1. status \in [Gids -> {"new", "active", "complete", "failed", "deleted"}]
    BY DEF OwnerInv, TypeOK, RowsOK
  <2>2. ASSUME NEW g \in Gids, RefrBegin(g)
        PROVE  status' = status \/ (status[g] = "new" /\ status' = [status EXCEPT ![g] = "active"])
    BY <2>2 DEF RefrBegin
  <2>3. ASSUME RefrStep
        PROVE  status' = status \/ \E s \in {"active", "complete", "failed"} : SetStatus(refr.gid, s)
    <3>1. CASE RefrWrite
      BY <3>1 DEF RefrWrite, RowOf
    <3>2. CASE RefrReact
      BY <3>2 DEF RefrReact
    <3>3. CASE RefrRowStatus \/ RefrReactDone
      BY <3>3 DEF RefrRowStatus, RefrReactDone
    <3>4. CASE ~RefrWrite /\ ~RefrReact /\ ~RefrRowStatus /\ ~RefrReactDone
      BY <2>3, <3>4 DEF RefrStep, RefrCheck, RefrPromote, RefrShell, RefrRowEngine, RefrErase,
         RefrEnqueue, RefrPending, RefrSnapshot, RefrReactClose, rows
    <3> QED BY <3>1, <3>2, <3>3, <3>4
  <2> QED BY <1>3, <2>1, <2>2, <2>3 DEF Refresh, SetStatus
<1>6. UNCHANGED engine \/ SetEngine(refr.gid, "Hybrid")
  BY DEF Refresh, RefrStep, RefrBegin, RefrCheck, RefrPromote, RefrShell, RefrRowStatus,
     RefrRowEngine, RefrErase, RefrEnqueue, RefrPending, RefrSnapshot, RefrWrite, RefrReact,
     RefrReactClose, RefrReactDone, rows
<1>7. \A g \in Gids : HybridRow(g) => HybridRow(g)'
  BY <1>5, <1>6 DEF SetEngine, HybridRow, OwnerInv, TypeOK, RowsOK
<1>8. \A g \in Gids : (aria'[g] = "active" => aria[g] = "active")
                      /\ (sess'[g] = "open" => sess[g] = "open")
  BY DEF Refresh, RefrStep, RefrBegin, RefrCheck, RefrPromote, RefrShell, RefrRowStatus,
     RefrRowEngine, RefrErase, RefrEnqueue, RefrPending, RefrSnapshot, RefrWrite, RefrReact,
     RefrReactClose, RefrReactDone, CloseSession, world, OwnerInv, TypeOK, WorldOK
<1>9. AddersOK'
  BY <1>1 DEF OwnerInv, AddersOK
<1>10. Fewer
  BY <1>1, <1>4 DEF Fewer, Adder, OnDisc, OnWork
<1>11. TokenPart'
  BY <1>1, <1>5, <1>8, <1>10, FewerKeeps DEF RowsStay, StartsFree, AddRowStays
<1>12. SessOwned'
  BY <1>1, <1>7, <1>8, SessKeeps
<1> QED BY <1>9, <1>11, <1>12

-----------------------------------------------------------------------------
(* Recovery, and the ends and starts of the process. *)

\* A step of recovery stays on the download it works on, turns to one of its plan,
\* or ends.
RcvMoves ==
    /\ rcv'.pc # "idle" => (rcv.pc # "idle" /\ rcv'.gid = rcv.gid)
                           \/ (rcv'.gid \in Gids /\ rcv.plan[rcv'.gid] # "idle")
    /\ \A g \in Gids : rcv'.plan[g] # "idle" => rcv.plan[g] # "idle"

\* Every step of recovery is of that form.
LEMMA RcvMovesOK == ASSUME TypeOK, Recovery PROVE RcvMoves
<1> USE DEF TypeOK, RcvOK
<1>1. ASSUME NEW g \in Gids, RcvPick(g) PROVE RcvMoves
  <2>1. rcv'.gid = g /\ rcv.plan[g] # "idle"
    BY <1>1 DEF RcvPick
  <2>2. rcv'.plan = [rcv.plan EXCEPT ![g] = "idle"]
    BY <1>1 DEF RcvPick
  <2> QED BY <2>1, <2>2 DEF RcvMoves
<1>2. ASSUME RcvStep PROVE RcvMoves
  <2>1. UNCHANGED rcv \/ rcv.pc # "idle"
    BY <1>2 DEF RcvStep, RcvReplay, RcvHash, RcvShell, RcvRowStatus, RcvClean, RcvEngine,
       RcvResume, RcvRowActive, RcvStart, RcvAt
  <2>2. UNCHANGED rcv \/ RcvNext \/ \E pc \in RcvPcs : RcvGoto(pc)
    BY <1>2 DEF RcvStep, RcvReplay, RcvHash, RcvShell, RcvRowStatus, RcvClean, RcvEngine,
       RcvResume, RcvRowActive, RcvStart, RcvPcs
  <2> QED BY <2>1, <2>2 DEF RcvNext, RcvGoto, RcvMoves
<1> QED BY <1>1, <1>2 DEF Recovery

\* Recovery changes the engine and starts aria2 while nobody owns the download,
\* and starts the threads when nothing is left of its plan.
LEMMA OwnerRecovery == ASSUME OwnerInv, Recovery PROVE AddersOK' /\ TokenPart' /\ SessOwned'
<1>1. UNCHANGED <<call, disc, work, djobs, hjobs, sess>>
  BY DEF Recovery, RcvStep, RcvPick, RcvReplay, RcvHash, RcvShell, RcvRowStatus, RcvClean,
     RcvEngine, RcvResume, RcvRowActive, RcvStart, RcvElse, jobs, world
<1>2. run = "recover"
  BY DEF Recovery, RcvStep, RcvPick, RcvReplay, RcvHash, RcvShell, RcvRowStatus, RcvClean,
     RcvEngine, RcvResume, RcvRowActive, RcvStart, RcvAt
<1>3. RcvMoves
  BY RcvMovesOK DEF OwnerInv
<1>4. rcv.pc # "idle" => rcv.gid \in Gids
  BY DEF OwnerInv, TypeOK, RcvOK
<1>5. \A g \in Gids : status'[g] = "new" => status[g] = "new"
  <2>1. \/ UNCHANGED status
        \/ rcv.gid \in Gids /\ \E s \in {"active", "complete"} : SetStatus(rcv.gid, s)
    BY <1>4 DEF Recovery, RcvStep, RcvPick, RcvReplay, RcvHash, RcvShell, RcvRowStatus,
       RcvClean, RcvEngine, RcvResume, RcvRowActive, RcvStart, RcvAt, rows
  <2> QED BY <2>1 DEF SetStatus, OwnerInv, TypeOK, RowsOK
<1>6. \A g \in Gids : /\ OnDisc(g)' <=> OnDisc(g)
                      /\ Owned(g)' <=> Owned(g)
                      /\ \A w \in Workers : OnWork(w, g)' <=> OnWork(w, g)
                      /\ \A c \in Callers : Adder(c, g)' <=> Adder(c, g)
  BY <1>1 DEF OnDisc, Owned, OnWork, Adder
<1>7. AddersOK' /\ OneToken'
  BY <1>1, <1>6 DEF OwnerInv, AddersOK, OneToken
<1>8. OwnedQuiet'
  <2>1. \A g \in Gids : aria'[g] = "active" => aria[g] = "active" \/ (rcv.pc = "resume" /\ g = rcv.gid)
    <3>1. ASSUME NEW g \in Gids, RcvPick(g) PROVE UNCHANGED aria
      BY <3>1 DEF RcvPick, world
    <3>2. ASSUME RcvStep
          PROVE  \/ UNCHANGED aria
                 \/ aria' = [aria EXCEPT ![rcv.gid] = "gone"]
                 \/ RcvAt("resume") /\ Unpause(rcv.gid)
      BY <3>2 DEF RcvStep, RcvReplay, RcvHash, RcvShell, RcvRowStatus, RcvClean, RcvEngine,
         RcvResume, RcvRowActive, RcvStart, world
    <3> QED BY <3>1, <3>2 DEF Recovery, RcvAt, Unpause, Rpc, OwnerInv, TypeOK, WorldOK
  <2>2. rcv.pc = "resume" => ~Owned(rcv.gid)
    BY DEF OwnerInv, RcvAlone
  <2> QED BY <1>6, <2>1, <2>2 DEF OwnerInv, OwnedQuiet
<1>9. OwnedKnown'
  BY <1>1, <1>5, <1>6 DEF OwnerInv, OwnedKnown
<1>10. SessOwned'
  <2>1. \A g \in Gids, w \in Workers : ~OnWork(w, g)
    BY <1>2 DEF OwnerInv, RcvAlone
  <2>2. \A w \in Workers : work[w].pc = "idle"
    BY <2>1 DEF OnWork, OwnerInv, TypeOK, WorkOK
  <2>3. \A g \in Gids : sess[g] # "open"
    BY <2>2 DEF OwnerInv, SessOwned, SessPcs
  <2> QED BY <1>1, <2>2, <2>3 DEF SessOwned
<1>11. RcvAlone'
  <2>1. run' \in {"up", "recover"} /\ (run' = "up" =>
           rcv'.pc = "idle" /\ \A g \in Gids : rcv'.plan[g] = "idle")
    <3>1. CASE RcvStart
      BY <3>1 DEF RcvStart, RcvAt
    <3>2. CASE ~RcvStart
      BY <1>2, <3>2 DEF Recovery, RcvStep, RcvPick, RcvReplay, RcvHash, RcvShell, RcvRowStatus,
         RcvClean, RcvEngine, RcvResume, RcvRowActive, RcvElse, control
    <3> QED BY <3>1, <3>2
  <2>2. \A g \in Gids : ~OnDisc(g)' /\ hjobs'[g] = 0 /\ \A w \in Workers : ~OnWork(w, g)'
    BY <1>1, <1>2, <1>6 DEF OwnerInv, RcvAlone
  <2>3. \A g \in Gids : rcv'.plan[g] # "idle" => status'[g] # "new" /\ ~Owned(g)'
    BY <1>3, <1>5, <1>6 DEF OwnerInv, RcvAlone, RcvMoves
  <2>4. \A g \in Gids : rcv'.pc # "idle" /\ g = rcv'.gid => status'[g] # "new" /\ ~Owned(g)'
    BY <1>3, <1>5, <1>6 DEF OwnerInv, RcvAlone, RcvMoves
  <2>5. rcv'.pc # "idle" => rcv'.gid \in Gids
    BY <1>3, <1>4 DEF RcvMoves
  <2>6. rcv'.pc # "idle" => status'[rcv'.gid] # "new" /\ (\A g \in Gids : g = rcv'.gid => ~Owned(g)')
    BY <2>4, <2>5
  <2> QED BY <2>1, <2>2, <2>3, <2>5, <2>6 DEF RcvAlone
<1> QED BY <1>7, <1>8, <1>9, <1>10, <1>11 DEF TokenPart

\* Shutdown only takes jobs away; the end of the process ends everything; a new
\* one starts with nothing but the plan of its recovery.
LEMMA OwnerLifecycle == ASSUME OwnerInv, Lifecycle PROVE AddersOK' /\ TokenPart' /\ SessOwned'
<1>1. CASE ShutBegin \/ ShutDiscovery \/ ShutWorkers
  <2>1. UNCHANGED <<status, engine, aria, sess, call, disc, work, rcv>>
    BY <1>1 DEF ShutBegin, ShutDiscovery, ShutWorkers, ShutElse, rows, world
  <2>2. \A g \in Gids : djobs'[g] \in {djobs[g], 0} /\ hjobs'[g] \in {hjobs[g], 0}
    BY <1>1 DEF ShutBegin, ShutDiscovery, ShutWorkers, jobs
  <2>3. run \notin {"recover", "down"} /\ run' \notin {"recover", "down"}
    BY <1>1 DEF ShutBegin, ShutDiscovery, ShutWorkers
  <2>4. Fewer
    BY <2>1, <2>2 DEF Fewer, Adder, OnDisc, OnWork
  <2>5. OneToken' /\ \A g \in Gids : Owned(g)' => Owned(g)
    BY <2>4, FewerTokens DEF OwnerInv
  <2>6. AddersOK' /\ OwnedQuiet' /\ OwnedKnown'
    BY <2>1, <2>5 DEF OwnerInv, AddersOK, OwnedQuiet, OwnedKnown
  <2>7. RcvAlone'
    BY <2>1, <2>3 DEF OwnerInv, RcvAlone
  <2>8. SessOwned'
    BY <2>1, SessKeeps DEF HybridRow
  <2> QED BY <2>5, <2>6, <2>7, <2>8 DEF TokenPart
<1>2. CASE ShutDown \/ Crash
  <2>1. ProcessEnds
    BY <1>2 DEF ShutDown, Crash
  <2>2. /\ \A c \in Callers : call'[c].pc = "idle"
        /\ \A w \in Workers : work'[w].pc = "idle"
        /\ disc'.pc = "idle"
        /\ \A g \in Gids : djobs'[g] = 0 /\ hjobs'[g] = 0 /\ sess'[g] = "none"
        /\ rcv'.pc = "idle" /\ \A g \in Gids : rcv'.plan[g] = "idle"
    BY <2>1 DEF ProcessEnds, IdleCall, IdleWork, IdleDisc, IdleRcv
  <2>3. \A g \in Gids : /\ ~Owned(g)' /\ ~OnDisc(g)'
                        /\ \A w \in Workers : ~OnWork(w, g)'
                        /\ \A c \in Callers : ~Adder(c, g)'
    BY <2>2 DEF Owned, OnDisc, OnWork, Adder, AddPcs
  <2>4. AddersOK'
    BY <2>2 DEF AddersOK, AddPcs, ResumePcs
  <2>5. OneToken' /\ OwnedQuiet' /\ OwnedKnown'
    BY <2>2, <2>3 DEF OneToken, OwnedQuiet, OwnedKnown
  <2>6. RcvAlone' /\ SessOwned'
    BY <2>2, <2>3 DEF RcvAlone, SessOwned
  <2> QED BY <2>4, <2>5, <2>6 DEF TokenPart
<1>3. CASE Restart
  <2>1. UNCHANGED <<status, engine, sess, djobs, hjobs, disc, work, call>>
    BY <1>3 DEF Restart, rows, jobs
  <2>2. run = "down" /\ run' = "recover" /\ rcv'.pc = "idle"
        /\ rcv'.plan = [g \in Gids |-> RcvPlan(g)]
    BY <1>3 DEF Restart, IdleRcv
  <2>3. \A g \in Gids : ~Owned(g)'
    BY <2>1, <2>2 DEF OwnerInv, RcvAlone, Owned, Adder, OnDisc, OnWork
  <2>4. \A g \in Gids : ~OnDisc(g)' /\ hjobs'[g] = 0 /\ \A w \in Workers : ~OnWork(w, g)'
    BY <2>3 DEF Owned, OnDisc, OnWork
  <2>5. AddersOK'
    BY <2>1 DEF OwnerInv, AddersOK
  <2>6. OneToken'
    BY <2>1 DEF OwnerInv, OneToken, Adder, OnDisc, OnWork
  <2>7. OwnedQuiet' /\ OwnedKnown'
    BY <2>3 DEF OwnedQuiet, OwnedKnown
  <2>8. RcvAlone'
    BY <2>1, <2>2, <2>3, <2>4 DEF RcvAlone, RcvPlan
  <2>9. SessOwned'
    BY <2>1, SessKeeps DEF HybridRow
  <2> QED BY <2>5, <2>6, <2>7, <2>8, <2>9 DEF TokenPart
<1> QED BY <1>1, <1>2, <1>3 DEF Lifecycle

-----------------------------------------------------------------------------
(* The theorems. *)

\* At the start no download is owned.
LEMMA OwnerInit == Init => OwnerInv
<1> SUFFICES ASSUME Init PROVE OwnerInv
  OBVIOUS
<1>1. /\ \A c \in Callers : call[c].pc = "idle"
      /\ \A w \in Workers : work[w].pc = "idle"
      /\ disc.pc = "idle" /\ run = "up"
      /\ \A g \in Gids : djobs[g] = 0 /\ hjobs[g] = 0 /\ sess[g] = "none"
      /\ rcv.pc = "idle" /\ \A g \in Gids : rcv.plan[g] = "idle"
  BY DEF Init, IdleCall, IdleWork, IdleDisc, IdleRcv
<1>2. AddersOK /\ OneToken
  BY <1>1 DEF AddersOK, AddPcs, ResumePcs, OneToken, OnDisc, OnWork
<1>3. \A g \in Gids : ~Owned(g)
  BY <1>1 DEF Owned, OnDisc, OnWork, Adder, AddPcs
<1>4. OwnedQuiet /\ OwnedKnown
  BY <1>3 DEF OwnedQuiet, OwnedKnown
<1>5. RcvAlone /\ SessOwned
  BY <1>1 DEF RcvAlone, SessOwned
<1> QED BY <1>2, <1>4, <1>5, TypeInit DEF OwnerInv

\* The invariant is inductive as long as nobody resumes.
LEMMA OwnerNext ==
  ASSUME "Resume" \notin Ops
  PROVE  OwnerInv /\ [Next]_vars => OwnerInv'
<1> SUFFICES ASSUME OwnerInv, [Next]_vars PROVE AddersOK' /\ TokenPart' /\ SessOwned'
  BY TypeNext DEF OwnerInv, TokenPart
<1>1. ASSUME NEW c \in Callers, CallBegin(c) \/ CallStep(c)
      PROVE  AddersOK' /\ TokenPart' /\ SessOwned'
  BY <1>1, OwnerBegin, OwnerAddShell, OwnerCallStep DEF CallBegin
<1>2. CASE Discovery
  BY <1>2, OwnerDiscPop, OwnerDiscQueue, OwnerDiscStep DEF Discovery, DiscStep
<1>3. ASSUME NEW w \in Workers, Worker(w) PROVE AddersOK' /\ TokenPart' /\ SessOwned'
  BY <1>3, OwnerWorkPop, OwnerWorkTokens, OwnerWorkSess DEF Worker
<1>4. CASE Engines \/ Refresh \/ Recovery \/ Lifecycle
  BY <1>4, OwnerEngines, OwnerRefresh, OwnerRecovery, OwnerLifecycle
<1>5. CASE UNCHANGED vars
  <2>1. UNCHANGED <<status, engine, aria, sess, djobs, hjobs, call, disc, work, rcv, run>>
    BY <1>5 DEF vars, rows, world, jobs, control
  <2>2. Fewer /\ RowsStay /\ StartsFree /\ AddRowStays
    BY <2>1 DEF Fewer, RowsStay, StartsFree, AddRowStays, Adder, OnDisc, OnWork
  <2>3. AddersOK'
    BY <2>1 DEF OwnerInv, AddersOK
  <2>4. SessOwned'
    BY <2>1, SessKeeps DEF HybridRow
  <2> QED BY <2>1, <2>2, <2>3, <2>4, FewerKeeps
<1> QED BY <1>1, <1>2, <1>3, <1>4, <1>5 DEF Next

\* An owned download has a quiet aria2, and a session that downloads an owner.
LEMMA OwnerImplies == OwnerInv => SingleWriter /\ DurableOwner
<1> SUFFICES ASSUME OwnerInv PROVE SingleWriter /\ DurableOwner
  OBVIOUS
<1>1. \A g \in Gids : sess[g] = "open" => Owned(g)
  BY DEF OwnerInv, SessOwned, SessPcs, Owned, OnWork
<1>2. SingleWriter
  BY <1>1 DEF OwnerInv, OwnedQuiet, SingleWriter
<1>3. DurableOwner
  BY DEF OwnerInv, SessOwned, HybridRow, DurableOwner
<1> QED BY <1>2, <1>3

\* As long as nobody resumes a download, aria2 and the hidden session never both
\* write its file, whatever else the user does and however often the process dies.
\* (With Resume they can: the run OneWriterBroken shows how.)
THEOREM SingleWriterHolds ==
  ASSUME "Resume" \notin Ops
  PROVE  Spec => []SingleWriter
<1>1. Init => OwnerInv
  BY OwnerInit
<1>2. OwnerInv /\ [Next]_vars => OwnerInv'
  BY OwnerNext
<1>3. OwnerInv => SingleWriter
  BY OwnerImplies
<1> QED BY <1>1, <1>2, <1>3, PTL DEF Spec

\* Under the same condition a crash never finds a session writing under a row
\* that does not name it: recovery removes what libtorrent left unfinished.
THEOREM DurableOwnerHolds ==
  ASSUME "Resume" \notin Ops
  PROVE  Spec => []DurableOwner
<1>1. Init => OwnerInv
  BY OwnerInit
<1>2. OwnerInv /\ [Next]_vars => OwnerInv'
  BY OwnerNext
<1>3. OwnerInv => DurableOwner
  BY OwnerImplies
<1> QED BY <1>1, <1>2, <1>3, PTL DEF Spec
=============================================================================
