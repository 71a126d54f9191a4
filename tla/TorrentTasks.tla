----------------------------- MODULE TorrentTasks -----------------------------
(* LibtorrentHandle and the rows of TorrentStateManager: commands that arrive  *)
(* on any thread, one thread that dispatches libtorrent's alerts, a periodic   *)
(* checkpoint of resume data, and the shutdown that waits for it.              *)
(*                                                                             *)
(* The model follows one torrent, by its info hash.  Each time it is added it  *)
(* gets a fresh task ID, each time it enters the session a fresh handle.       *)
(* libtorrent keeps at most one torrent of a hash in the session, so "tor" is  *)
(* the torrent in the session, if any.  A call on a handle whose torrent has   *)
(* left the session throws; where the alert thread throws, the alerts it had   *)
(* already popped are lost.                                                    *)
EXTENDS Naturals, Sequences, FiniteSets

CONSTANTS
    Tasks,            \* task IDs
    Callers,          \* threads that run commands
    Commands,         \* commands each of them runs
    AutoStart, KeepSeeding, MoveCompleted, RecheckFirst, \* values each choice can take
    MaxBacklog,       \* bound on undispatched alerts libtorrent adds to
    MaxHandles,       \* bound on entries into the session
    MaxCommands,      \* bound on the commands of each caller
    MaxFails,         \* bound on failed database writes and failed alerts
    MaxRestarts       \* bound on shutdowns and crashes

CommandNames == {"add", "pause", "resume", "recheck", "stop",
                 "remove", "removeFiles", "uiRemove", "uiRemoveFiles"}

ASSUME TorrentBounds ==
    /\ "none" \notin Tasks
    /\ Commands \in [Callers -> SUBSET CommandNames]
    /\ {MaxBacklog, MaxHandles, MaxFails, MaxRestarts} \subseteq Nat
    /\ MaxCommands \in [Callers -> Nat]
    /\ AutoStart \cup KeepSeeding \cup MoveCompleted \cup RecheckFirst \subseteq BOOLEAN

VARIABLES
    row,        \* the row of each task, its settings and cached .torrent (durable)
    tor,        \* the torrent in the session
    map,        \* m_taskIdToHandle, and m_handleToTaskId, its inverse
    recheck,    \* m_recheckCompletionActions
    moves,      \* m_completionMoves
    pendDel,    \* m_pendingDeleteByHash
    erasing,    \* libtorrent deleting files, per handle that was removed
    queue,      \* alerts in the session
    batch,      \* alerts popped by the alert thread
    al,         \* the alert thread: the alert it looked up, and what it read
    pending,    \* m_pendingResumeDataCount
    retry,      \* m_resumeRetryTasks
    job,        \* the command each caller runs
    phase,      \* of the process: up, saving, joining, down
    handles, commands, fails, restarts,
    due,        \* history: tasks whose progress the shutdown has to save
    lapsed,     \* history: alerts were lost, with a batch or before the torrent was
                \* mapped, or the wait of the shutdown timed out
    outcome,    \* history: whether the completion of tor was handled or dropped
    asked       \* history: how each task was last removed: the row or with its files,
                \* or its row dropped by the window

entry   == <<handles, outcome>>
engine  == <<tor, erasing, queue, entry>>
memory  == <<map, recheck, moves, pendDel, pending, retry>>
thread  == <<batch, al>>
process == <<phase, restarts>>
history == <<due, lapsed, asked>>
vars == <<row, engine, memory, thread, job, commands, fails, process, history>>

None == "none"
Stored == CHOOSE t \in Tasks : TRUE  \* the task an earlier run may have left a row of
Idle == [pc |-> "idle", op |-> None, t |-> None, g |-> 0]
NoRow == [here |-> FALSE, status |-> 2, resume |-> "none", act |-> "ask", source |-> FALSE]
NoTorrent == [id |-> 0, run |-> FALSE, at |-> None, full |-> FALSE, dirty |-> FALSE, moving |-> FALSE]
NoAlert == [kind |-> None, g |-> 0, full |-> FALSE]
AtRest == [a |-> NoAlert, t |-> None, act |-> None, old |-> NoRow]

Alert(kind, g) == [NoAlert EXCEPT !.kind = kind, !.g = g]
Alive(g) == g # 0 /\ tor.id = g
Mapped(t) == map[t] # 0 /\ Alive(map[t])
TaskOf(g) == IF \E t \in Tasks : map[t] = g THEN CHOOSE t \in Tasks : map[t] = g ELSE None
Write(t, r) == row' = [row EXCEPT ![t] = r]
SetStatus(t, s) ==
    row' = IF t # None /\ row[t].here THEN [row EXCEPT ![t].status = s] ELSE row
Fail == fails < MaxFails /\ fails' = fails + 1

(* m_addRemoveMutex is held from the step that takes it to the end of the command. *)
Locked == \E c \in Callers : job[c].pc \in {"mapAdded", "mapRestored", "stopSave", "stopErase"}

(* RequestResumeDataForTorrent: the request is counted first.  libtorrent runs  *)
(* it at once and answers with the pieces of that moment.                       *)
Saved(g, full) == [kind |-> "saved", g |-> g, full |-> full]

\* Mutant of Request: the request is not counted.
RequestUncounted(to) ==
    /\ tor' = [to EXCEPT !.dirty = FALSE]
    /\ queue' = queue \o <<Saved(to.id, to.full)>>
    /\ UNCHANGED pending

Request(to) ==
    /\ tor' = [to EXCEPT !.dirty = FALSE]
    /\ queue' = queue \o <<Saved(to.id, to.full)>>
    /\ pending' = pending + 1

Init ==
    /\ \E s \in {NoRow} \cup [here : {TRUE}, status : {1, 2}, resume : {"part"},
                               act : {"ask"}, source : {TRUE}] :
         row = [t \in Tasks |-> IF t = Stored THEN s ELSE NoRow]
    /\ tor = NoTorrent /\ map = [t \in Tasks |-> 0]
    /\ recheck = [t \in Tasks |-> None] /\ moves = [t \in Tasks |-> None]
    /\ pendDel = None /\ erasing = {} /\ queue = <<>> /\ batch = <<>> /\ al = AtRest
    /\ pending = 0 /\ retry = {} /\ job = [c \in Callers |-> Idle] /\ phase = "up"
    /\ handles = 0 /\ commands = [c \in Callers |-> 0] /\ fails = 0 /\ restarts = 0
    /\ due = {} /\ lapsed = FALSE /\ outcome = None
    /\ asked = [t \in Tasks |-> None]

-----------------------------------------------------------------------------
(* libtorrent.  A torrent that enters the session checks its resume data       *)
(* whether it runs or not; a forced recheck, metadata and pieces need it to    *)
(* run.  A check that finds every piece is followed by a finished alert.       *)

EngineOnly == UNCHANGED <<row, memory, thread, job, commands, fails, process, history>>
Post(alerts) == Len(queue) < MaxBacklog /\ queue' = queue \o alerts

GetMetadata ==
    /\ tor.at = "meta" /\ tor.run
    /\ tor' = [tor EXCEPT !.at = "loading"]
    /\ Post(<<Alert("metadata", tor.id)>>)
    /\ UNCHANGED <<erasing, entry>> /\ EngineOnly

Check ==
    /\ tor.at = "loading" \/ (tor.at = "checking" /\ tor.run)
    /\ tor' = [tor EXCEPT !.at = IF tor.full THEN "done" ELSE "down"]
    /\ Post(<<Alert("checked", tor.id)>> \o
            IF tor.full THEN <<Alert("finished", tor.id)>> ELSE <<>>)
    /\ UNCHANGED <<erasing, entry>> /\ EngineOnly

Download ==
    /\ tor.at = "down" /\ tor.run
    /\ tor' = [tor EXCEPT !.at = "done", !.full = TRUE, !.dirty = TRUE]
    /\ Post(<<Alert("finished", tor.id)>>)
    /\ UNCHANGED <<erasing, entry>> /\ EngineOnly

Moved ==
    /\ tor.moving /\ tor' = [tor EXCEPT !.moving = FALSE]
    /\ \E kind \in {"moved", "moveFailed"} : Post(<<Alert(kind, tor.id)>>)
    /\ UNCHANGED <<erasing, entry>> /\ EngineOnly

Erased ==
    /\ \E g \in erasing, kind \in {"deleted", "deleteFailed"} :
         /\ erasing' = erasing \ {g}
         /\ Post(<<Alert(kind, g)>>)
    /\ UNCHANGED <<tor, entry>> /\ EngineOnly

-----------------------------------------------------------------------------
(* Entering the session.  Adding is refused while the hash is known, to the    *)
(* map or to the database.  The torrent enters paused and is started once it   *)
(* has a row and a place in the map.                                           *)

CallerOnly == UNCHANGED <<thread, process, lapsed>>
Goto(c, pc) == job' = [job EXCEPT ![c].pc = pc]
Return(c) == job' = [job EXCEPT ![c] = Idle]
Known == \E t \in Tasks : Mapped(t) \/ row[t].here
Enter(run, at, full) ==
    /\ handles < MaxHandles /\ handles' = handles + 1
    /\ tor' = [NoTorrent EXCEPT !.id = handles + 1, !.run = run, !.at = at, !.full = full]
    /\ outcome' = None

\* Mutant of Add: a torrent whose row was refused stays in the session.
AddKeeps(c) ==
    /\ job[c].pc = "add" /\ ~Locked
    /\ \/ /\ Known \/ tor # NoTorrent
          /\ Return(c) /\ UNCHANGED <<row, tor, entry, fails, asked>>
       \/ /\ ~Known /\ tor = NoTorrent /\ Fail
          /\ Enter(FALSE, "loading", FALSE)
          /\ Return(c) /\ UNCHANGED <<row, asked>>
       \/ /\ ~Known /\ tor = NoTorrent
          /\ \E magnet \in BOOLEAN, start \in AutoStart, t \in Tasks :
               /\ asked[t] = None /\ row[t] = NoRow
               /\ Enter(FALSE, IF magnet THEN "meta" ELSE "loading", FALSE)
               /\ Write(t, [NoRow EXCEPT !.here = TRUE, !.status = IF start THEN 1 ELSE 2,
                                         !.source = magnet])
               /\ job' = [job EXCEPT ![c].pc = "mapAdded", ![c].t = t]
               /\ asked' = [asked EXCEPT ![t] = "kept"]
          /\ UNCHANGED fails
    /\ UNCHANGED <<erasing, queue, memory, commands, due>> /\ CallerOnly

Add(c) ==
    /\ job[c].pc = "add" /\ ~Locked
    /\ \/ /\ Known \/ tor # NoTorrent
          /\ Return(c) /\ UNCHANGED <<row, tor, entry, fails, asked>>
       \/ /\ ~Known /\ tor = NoTorrent /\ Fail
          /\ Return(c) /\ UNCHANGED <<row, tor, entry, asked>>
       \/ /\ ~Known /\ tor = NoTorrent
          /\ \E magnet \in BOOLEAN, start \in AutoStart, t \in Tasks :
               /\ asked[t] = None /\ row[t] = NoRow
               /\ Enter(FALSE, IF magnet THEN "meta" ELSE "loading", FALSE)
               /\ Write(t, [NoRow EXCEPT !.here = TRUE, !.status = IF start THEN 1 ELSE 2,
                                         !.source = magnet])
               /\ job' = [job EXCEPT ![c].pc = "mapAdded", ![c].t = t]
               /\ asked' = [asked EXCEPT ![t] = "kept"]
          /\ UNCHANGED fails
    /\ UNCHANGED <<erasing, queue, memory, commands, due>> /\ CallerOnly

(* The .torrent cache is written here, so it may be missing after a crash. *)
MapAdded(c) ==
    LET t == job[c].t IN
    /\ job[c].pc = "mapAdded"
    /\ map' = [map EXCEPT ![t] = tor.id]
    /\ Write(t, [row[t] EXCEPT !.source = TRUE])
    /\ Request([tor EXCEPT !.run = row[t].status = 1])
    /\ Return(c)
    /\ UNCHANGED <<recheck, moves, pendDel, retry, erasing, entry, commands, fails, due, asked>>
    /\ CallerOnly

Files(op) == op \in {"removeFiles", "uiRemoveFiles"}
Ui(op) == op \in {"uiRemove", "uiRemoveFiles"}
Removal(op) == Files(op) \/ op \in {"remove", "uiRemove"}
Step(op) == IF Removal(op) THEN "remove" ELSE op
GiveUp(c) == IF Ui(job[c].op) THEN Goto(c, "drop") ELSE Return(c)

(* AddTorrentFromResumeData: resume data, else the cached .torrent or magnet.  *)
(* Unlike Add it enters the session running before it is mapped.  After it,    *)
(* the command looks its handle up again (g = 0).                              *)
ShouldRun(r) == r.status = 1 \/ (r.status = 3 /\ r.act = "seed")
Restorable(t) == row[t].here /\ (row[t].resume # "none" \/ row[t].source)

\* Mutant of Restore: the row is not read.
RestoreBlindly(c) ==
    LET t == job[c].t IN
    /\ job[c].pc = "restore" /\ ~Locked
    /\ \/ /\ Mapped(t)
          /\ Goto(c, Step(job[c].op)) /\ UNCHANGED <<tor, entry>>
       \/ /\ ~Mapped(t) /\ tor # NoTorrent
          /\ GiveUp(c) /\ UNCHANGED <<tor, entry>>
       \/ /\ ~Mapped(t) /\ tor = NoTorrent
          /\ Enter(ShouldRun(row[t]), "loading", row[t].resume = "full")
          /\ Goto(c, "mapRestored")
    /\ UNCHANGED <<row, erasing, queue, memory, commands, fails, due, asked>> /\ CallerOnly

Restore(c) ==
    LET t == job[c].t IN
    /\ job[c].pc = "restore" /\ ~Locked
    /\ \/ /\ Mapped(t)
          /\ Goto(c, Step(job[c].op)) /\ UNCHANGED <<tor, entry>>
       \/ /\ ~Mapped(t) /\ (~Restorable(t) \/ tor # NoTorrent)
          /\ GiveUp(c) /\ UNCHANGED <<tor, entry>>
       \/ /\ ~Mapped(t) /\ Restorable(t) /\ tor = NoTorrent
          /\ Enter(ShouldRun(row[t]), "loading", row[t].resume = "full")
          /\ Goto(c, "mapRestored")
    /\ UNCHANGED <<row, erasing, queue, memory, commands, fails, due, asked>> /\ CallerOnly

(* Settings that were stored are stored again; when that fails the torrent     *)
(* stays, paused, and the command gives up.                                    *)
MapRestored(c) ==
    LET t == job[c].t IN
    /\ job[c].pc = "mapRestored"
    /\ map' = [map EXCEPT ![t] = tor.id]
    /\ \/ /\ Request(tor) /\ Goto(c, Step(job[c].op)) /\ UNCHANGED fails
       \/ /\ row[t].act # "ask" /\ Fail /\ tor' = [tor EXCEPT !.run = FALSE]
          /\ GiveUp(c) /\ UNCHANGED <<queue, pending>>
    /\ UNCHANGED <<row, erasing, recheck, moves, pendDel, retry, entry, commands, due, asked>>
    /\ CallerOnly

-----------------------------------------------------------------------------
(* Commands.  Begin is the first look at the map; Handle is the torrent a      *)
(* command ends up with, looked up then or after a restore.                    *)

Handle(c) == IF job[c].g = 0 THEN map[job[c].t] ELSE job[c].g

Start(c, op, pc, t, g) ==
    /\ commands[c] < MaxCommands[c] /\ commands' = [commands EXCEPT ![c] = @ + 1]
    /\ job' = [job EXCEPT ![c] = [pc |-> pc, op |-> op, t |-> t, g |-> g]]

Begin(c) ==
    /\ phase = "up" /\ job[c] = Idle
    /\ \/ "add" \in Commands[c] /\ Start(c, "add", "add", None, 0)
       \/ \E op \in Commands[c] \ {"add", "stop"}, t \in Tasks :
            /\ row[t].here \/ Mapped(t)
            /\ \/ Mapped(t) /\ op \in {"pause", "resume"} /\ Start(c, op, op, t, map[t])
               \/ Mapped(t) /\ op \notin {"pause", "resume"} /\ Start(c, op, Step(op), t, 0)
               \/ /\ ~Mapped(t) /\ (Files(op) \/ op \in {"resume", "recheck"})
                  /\ Start(c, op, "restore", t, 0)
               \/ /\ ~Mapped(t) /\ Removal(op) /\ ~Files(op)
                  /\ Start(c, op, "remove", t, 0)
    /\ UNCHANGED <<row, engine, memory, fails, due, asked>> /\ CallerOnly

Pause(c) ==
    LET t == job[c].t IN
    /\ job[c].pc = "pause" /\ Return(c)
    /\ IF Alive(job[c].g)
       THEN SetStatus(t, 2) /\ Request([tor EXCEPT !.run = FALSE])
       ELSE UNCHANGED <<row, tor, queue, pending>>
    /\ UNCHANGED <<map, recheck, moves, pendDel, retry, erasing, entry, commands, fails, due, asked>>
    /\ CallerOnly

Resume(c) ==
    LET t == job[c].t IN
    /\ job[c].pc = "resume" /\ Return(c)
    /\ \/ /\ ~Alive(Handle(c))
          /\ UNCHANGED <<row, tor, queue, pending, recheck>>
       \/ /\ Alive(Handle(c)) /\ TRUE \in RecheckFirst /\ tor.at # "meta"
          /\ recheck' = [recheck EXCEPT ![t] = "resume"]
          /\ tor' = [tor EXCEPT !.run = TRUE, !.at = "checking"]
          /\ UNCHANGED <<row, queue, pending>>
       \/ /\ Alive(Handle(c)) /\ (FALSE \in RecheckFirst \/ tor.at = "meta")
          /\ SetStatus(t, 1) /\ Request([tor EXCEPT !.run = TRUE])
          /\ UNCHANGED recheck
    /\ UNCHANGED <<map, moves, pendDel, retry, erasing, entry, commands, fails, due, asked>>
    /\ CallerOnly

(* A paused torrent must run to be checked; the dispatcher pauses it again. *)
ForceRecheck(c) ==
    LET t == job[c].t IN
    /\ job[c].pc = "recheck" /\ Return(c)
    /\ IF Mapped(t) /\ tor.at # "meta"
       THEN /\ tor' = [tor EXCEPT !.run = TRUE, !.at = "checking"]
            /\ recheck' = IF tor.run THEN recheck ELSE [recheck EXCEPT ![t] = "pause"]
       ELSE UNCHANGED <<tor, recheck>>
    /\ UNCHANGED <<row, map, moves, pendDel, pending, retry, queue, erasing, entry, commands,
                   fails, due, asked>>
    /\ CallerOnly

(* StopTorrent pauses, writes the resume data itself and takes the torrent out *)
(* of the session.  It holds the mutex all along.                              *)
Stop(c) ==
    /\ phase = "up" /\ job[c] = Idle /\ "stop" \in Commands[c] /\ ~Locked
    /\ \E t \in Tasks :
         /\ row[t].here \/ Mapped(t)
         /\ \/ /\ ~Mapped(t) /\ SetStatus(t, 2)
               /\ commands[c] < MaxCommands[c] /\ commands' = [commands EXCEPT ![c] = @ + 1]
               /\ UNCHANGED <<tor, job>>
            \/ /\ Mapped(t) /\ Start(c, "stop", "stopSave", t, map[t])
               /\ tor' = [tor EXCEPT !.run = FALSE] /\ UNCHANGED row
    /\ UNCHANGED <<queue, erasing, entry, memory, fails, due, asked>> /\ CallerOnly

(* The result of the write is not looked at; reading the resume data may throw. *)
StopSave(c) ==
    LET t == job[c].t IN
    /\ job[c].pc = "stopSave"
    /\ \/ /\ Write(t, IF row[t].here
                        THEN [row[t] EXCEPT !.resume = IF tor.full THEN "full" ELSE "part",
                                            !.status = 2]
                        ELSE NoRow)
          /\ Goto(c, "stopErase") /\ UNCHANGED fails
       \/ Fail /\ SetStatus(t, 2) /\ (Goto(c, "stopErase") \/ Return(c))
    /\ UNCHANGED <<engine, memory, commands, due, asked>> /\ CallerOnly

EraseRuntimeState(t) ==
    /\ map' = [map EXCEPT ![t] = 0]
    /\ recheck' = [recheck EXCEPT ![t] = None]

StopErase(c) ==
    LET t == job[c].t IN
    /\ job[c].pc = "stopErase" /\ Return(c)
    /\ EraseRuntimeState(t) /\ tor' = NoTorrent /\ due' = due \ {t}
    /\ UNCHANGED <<row, queue, erasing, entry, moves, pendDel, pending, retry, commands, fails, asked>>
    /\ CallerOnly

(* RemoveTorrent.  When the files go too the row stays until libtorrent says   *)
(* how that went; the window's DeleteAsync drops it at once.                   *)

\* Mutant of Remove: the row goes whether or not the files do.
RemoveAtOnce(c) ==
    LET t == job[c].t  files == Files(job[c].op) IN
    /\ job[c].pc = "remove" /\ ~Locked
    /\ asked' = [asked EXCEPT ![t] = IF files THEN "files" ELSE "row"]
    /\ row' = [row EXCEPT ![t] = NoRow]
    /\ IF Mapped(t)
       THEN /\ EraseRuntimeState(t) /\ tor' = NoTorrent /\ due' = due \ {t}
            /\ erasing' = IF files THEN erasing \cup {tor.id} ELSE erasing
            /\ pendDel' = IF files THEN t ELSE pendDel
       ELSE UNCHANGED <<map, recheck, tor, due, erasing, pendDel>>
    /\ GiveUp(c)
    /\ UNCHANGED <<queue, entry, moves, pending, retry, commands, fails>> /\ CallerOnly

Remove(c) ==
    LET t == job[c].t  files == Files(job[c].op) IN
    /\ job[c].pc = "remove" /\ ~Locked
    /\ asked' = [asked EXCEPT ![t] = IF files THEN "files" ELSE "row"]
    /\ row' = IF files THEN row ELSE [row EXCEPT ![t] = NoRow]
    /\ IF Mapped(t)
       THEN /\ EraseRuntimeState(t) /\ tor' = NoTorrent /\ due' = due \ {t}
            /\ erasing' = IF files THEN erasing \cup {tor.id} ELSE erasing
            /\ pendDel' = IF files THEN t ELSE pendDel
       ELSE UNCHANGED <<map, recheck, tor, due, erasing, pendDel>>
    /\ GiveUp(c)
    /\ UNCHANGED <<queue, entry, moves, pending, retry, commands, fails>> /\ CallerOnly

DropRow(c) ==
    /\ job[c].pc = "drop" /\ Return(c)
    /\ row' = [row EXCEPT ![job[c].t] = NoRow]
    /\ asked' = [asked EXCEPT ![job[c].t] = "dropped"]
    /\ UNCHANGED <<engine, memory, commands, fails, due>> /\ CallerOnly

-----------------------------------------------------------------------------
(* The alert thread pops all alerts when it has none left.  Each handler looks *)
(* the task up, under the lock of the map, and acts on it after releasing it.  *)

AlertOnly == UNCHANGED <<job, commands, process, due, asked>>
Done == al' = AtRest /\ UNCHANGED <<batch, lapsed>>
Throw == al' = AtRest /\ batch' = <<>> /\ lapsed' = (lapsed \/ batch # <<>>)
At(kinds) == al.a.kind \in kinds
RequestIfAlive(to) ==
    IF Alive(al.a.g) THEN Request(to) ELSE UNCHANGED <<tor, queue, pending>>

(* TakePendingDeleteTask finds the task of a deletion by its hash. *)
LookUp ==
    LET popped == IF batch = <<>> THEN queue ELSE batch
        a == Head(popped)
        t == CASE a.kind \in {"deleted", "deleteFailed"} -> pendDel
               [] a.kind = "saved" /\ ~Alive(a.g) -> None
               [] OTHER -> TaskOf(a.g)
    IN
    /\ al = AtRest /\ popped # <<>> /\ batch' = Tail(popped)
    /\ IF batch = <<>> THEN phase \in {"up", "saving"} /\ queue' = <<>> ELSE UNCHANGED queue
    /\ al' = [a |-> a, t |-> t,
              act |-> IF a.kind = "checked" /\ t # None THEN recheck[t] ELSE None,
              old |-> IF a.kind \in {"metadata", "deleteFailed"} /\ t # None THEN row[t] ELSE NoRow]
    /\ recheck' = IF a.kind = "checked" /\ t # None THEN [recheck EXCEPT ![t] = None] ELSE recheck
    /\ pendDel' = IF a.kind \in {"deleted", "deleteFailed"} THEN None ELSE pendDel
    /\ lapsed' = (lapsed \/ (t = None /\ Alive(a.g) /\ a.kind \in {"finished", "saved"}))
    /\ UNCHANGED <<row, tor, erasing, entry, map, moves, pending, retry, fails>>
    /\ AlertOnly

DispatchChecked ==
    /\ At({"checked"})
    /\ IF al.act = None
       THEN Done /\ RequestIfAlive(tor) /\ UNCHANGED row
       ELSE IF ~Alive(al.a.g)
       THEN Throw /\ UNCHANGED <<row, tor, queue, pending>>
       ELSE /\ Done
            /\ SetStatus(al.t, IF al.act = "pause" THEN 2 ELSE 1)
            /\ Request([tor EXCEPT !.run = al.act = "resume"])
    /\ UNCHANGED <<map, recheck, moves, pendDel, retry, erasing, entry, fails>>
    /\ AlertOnly

(* torrent_finished_alert.  What the task does once complete is decided once   *)
(* and stored; when it cannot be stored the task is paused and that is all.    *)
(* Resume data asked for when the settings are applied is left out: it tells   *)
(* the row nothing that the requests here and the progress to come do not.     *)
Choices(t) == IF row[t].act = "seed" THEN {TRUE}
              ELSE IF row[t].act = "stop" \/ row[t].status = 3 THEN {FALSE}
              ELSE KeepSeeding
Completed(r, keep) == [r EXCEPT !.status = 3, !.act = IF keep THEN "seed" ELSE "stop"]

DispatchFinished ==
    LET t == al.t  g == al.a.g IN
    /\ At({"finished"})
    /\ \/ /\ t = None
          /\ Done /\ UNCHANGED <<row, tor, queue, pending, moves, fails, outcome>>
       \/ /\ t # None /\ row[t].act = "ask"
          /\ IF row[t].here THEN Fail ELSE UNCHANGED fails
          /\ IF Mapped(t) THEN SetStatus(t, 2) /\ Request([tor EXCEPT !.run = FALSE])
                          ELSE UNCHANGED <<row, tor, queue, pending>>
          /\ outcome' = IF Alive(g) THEN "dropped" ELSE outcome
          /\ Done /\ UNCHANGED moves
       \/ /\ t # None /\ row[t].here
          /\ \E keep \in Choices(t), mv \in MoveCompleted :
               \/ /\ ~Alive(g) /\ (mv \/ ~keep)
                  /\ Throw /\ Write(t, [row[t] EXCEPT !.act = Completed(row[t], keep).act])
                  /\ UNCHANGED <<tor, queue, pending, moves, outcome>>
               \/ /\ ~Alive(g) /\ keep /\ ~mv
                  /\ (Throw \/ Done) /\ Write(t, Completed(row[t], keep))
                  /\ UNCHANGED <<tor, queue, pending, moves, outcome>>
               \/ /\ Alive(g) /\ mv
                  /\ tor' = [tor EXCEPT !.run = FALSE, !.moving = TRUE]
                  /\ moves' = [moves EXCEPT ![t] = IF keep THEN "seed" ELSE "stop"]
                  /\ Done /\ Write(t, Completed(row[t], keep))
                  /\ UNCHANGED <<queue, pending, outcome>>
               \/ /\ Alive(g) /\ ~mv
                  /\ Request([tor EXCEPT !.run = @ /\ keep])
                  /\ outcome' = "settled"
                  /\ Done /\ Write(t, Completed(row[t], keep)) /\ UNCHANGED moves
          /\ UNCHANGED fails
    /\ UNCHANGED <<map, recheck, pendDel, retry, erasing, handles>> /\ AlertOnly

(* storage_moved_alert and its failure.  A move that completion asked for      *)
(* resumes the torrent if it was to seed.                                      *)

\* Mutant of DispatchMoved: a move that fails is not the end of the completion.
DispatchMovedOnly ==
    LET t == al.t  g == al.a.g
        mv == IF t = None THEN None ELSE moves[t]
        to == [tor EXCEPT !.run = @ \/ mv = "seed"]
    IN
    /\ At({"moved", "moveFailed"})
    /\ \/ /\ mv = "seed" /\ ~Alive(g)
          /\ Throw /\ UNCHANGED <<tor, queue, pending, moves, outcome>>
       \/ /\ mv # "seed" \/ Alive(g)
          /\ moves' = IF mv = None THEN moves ELSE [moves EXCEPT ![t] = None]
          /\ outcome' = IF mv # None /\ At({"moved"}) /\ Alive(g) THEN "settled" ELSE outcome
          /\ IF At({"moved"}) THEN RequestIfAlive(to)
                             ELSE tor' = to /\ UNCHANGED <<queue, pending>>
          /\ IF mv = "stop" /\ ~Alive(g) THEN Throw \/ Done ELSE Done
    /\ UNCHANGED <<row, map, recheck, pendDel, retry, erasing, handles, fails>> /\ AlertOnly

DispatchMoved ==
    LET t == al.t  g == al.a.g
        mv == IF t = None THEN None ELSE moves[t]
        to == [tor EXCEPT !.run = @ \/ mv = "seed"]
    IN
    /\ At({"moved", "moveFailed"})
    /\ \/ /\ mv = "seed" /\ ~Alive(g)
          /\ Throw /\ UNCHANGED <<tor, queue, pending, moves, outcome>>
       \/ /\ mv # "seed" \/ Alive(g)
          /\ moves' = IF mv = None THEN moves ELSE [moves EXCEPT ![t] = None]
          /\ outcome' = IF mv # None /\ Alive(g) THEN "settled" ELSE outcome
          /\ IF At({"moved"}) THEN RequestIfAlive(to)
                             ELSE tor' = to /\ UNCHANGED <<queue, pending>>
          /\ IF mv = "stop" /\ ~Alive(g) THEN Throw \/ Done ELSE Done
    /\ UNCHANGED <<row, map, recheck, pendDel, retry, erasing, handles, fails>> /\ AlertOnly

(* A row that was read is written back whole, unless its hash now belongs to   *)
(* another row.  Settings are in a table of their own.                         *)
WriteBack(t, r) ==
    row' = IF t = None \/ ~r.here \/ \E u \in Tasks \ {t} : row[u].here THEN row
           ELSE [row EXCEPT ![t] = [r EXCEPT !.act = row[t].act]]

DispatchDeleted ==
    /\ At({"deleted", "deleteFailed"}) /\ Done
    /\ \/ /\ At({"deleted"})
          /\ row' = IF al.t = None THEN row ELSE [row EXCEPT ![al.t] = NoRow]
          /\ asked' = IF al.t = None THEN asked ELSE [asked EXCEPT ![al.t] = "files"]
          /\ UNCHANGED fails
       \/ /\ At({"deleteFailed"})
          /\ WriteBack(al.t, [al.old EXCEPT !.status = 4]) /\ UNCHANGED <<fails, asked>>
       \/ At({"deleteFailed"}) /\ Fail /\ UNCHANGED <<row, asked>>
    /\ UNCHANGED <<engine, memory, job, commands, process, due>>

DispatchMetadata ==
    /\ At({"metadata"}) /\ Done
    /\ WriteBack(al.t, [al.old EXCEPT !.source = TRUE])
    /\ UNCHANGED <<engine, memory, fails>> /\ AlertOnly

(* HandleSaveResumeDataAlert, and libtorrent's failure to save, which marks    *)
(* the task for a retry as a failed write does.                                *)

\* Mutant of DispatchSaved: a failed write is not marked for a retry.
DispatchSavedOnce ==
    LET t == al.t IN
    /\ At({"saved"}) /\ Done /\ pending' = pending - 1
    /\ \/ /\ row' = IF t # None /\ row[t].here
                    THEN [row EXCEPT ![t].resume = IF al.a.full THEN "full" ELSE "part"] ELSE row
          /\ retry' = retry \ {t} /\ UNCHANGED fails
       \/ t # None /\ Fail /\ UNCHANGED <<row, retry>>
    /\ UNCHANGED <<engine, map, recheck, moves, pendDel>> /\ AlertOnly

DispatchSaved ==
    LET t == al.t IN
    /\ At({"saved"}) /\ Done /\ pending' = pending - 1
    /\ \/ /\ row' = IF t # None /\ row[t].here
                    THEN [row EXCEPT ![t].resume = IF al.a.full THEN "full" ELSE "part"] ELSE row
          /\ retry' = retry \ {t} /\ UNCHANGED fails
       \/ t # None /\ Fail /\ retry' = retry \cup {t} /\ UNCHANGED row
    /\ UNCHANGED <<engine, map, recheck, moves, pendDel>> /\ AlertOnly

(* The checkpoint of AlertLoop.  A request that is neither a retry nor about   *)
(* anything new is answered with nothing to save.  A minute is long enough for *)
(* the alerts before it to be handled.                                         *)
Checkpoint ==
    /\ phase = "up" /\ al = AtRest /\ batch = <<>> /\ queue = <<>>
    /\ \E t \in Tasks : Mapped(t) /\ (t \in retry \/ tor.dirty)
    /\ Request(tor)
    /\ UNCHANGED <<row, map, recheck, moves, pendDel, retry, erasing, entry, batch, al, fails,
                   lapsed>>
    /\ AlertOnly

-----------------------------------------------------------------------------
(* Shutdown: SaveAllResumeData, then Stop, which waits ten seconds for the     *)
(* answers, lets the alert thread finish its batch and aborts the session.     *)

ProcessOnly == UNCHANGED <<row, job, commands, fails, asked>>
Forget ==
    /\ tor' = NoTorrent /\ erasing' = {} /\ queue' = <<>> /\ batch' = <<>> /\ al' = AtRest
    /\ map' = [t \in Tasks |-> 0] /\ recheck' = [t \in Tasks |-> None]
    /\ moves' = [t \in Tasks |-> None] /\ pendDel' = None /\ pending' = 0
    /\ outcome' = None /\ UNCHANGED handles

SaveAllResumeData ==
    /\ phase = "up" /\ restarts < MaxRestarts /\ phase' = "saving"
    /\ due' = {t \in Tasks : Mapped(t) /\ tor.full}
    /\ IF \E t \in Tasks : Mapped(t) THEN Request(tor) ELSE UNCHANGED <<tor, queue, pending>>
    /\ UNCHANGED <<erasing, entry, map, recheck, moves, pendDel, retry, thread, restarts, lapsed>>
    /\ ProcessOnly

\* Mutant of StopWait: the answers are not waited for.
StopAtOnce ==
    /\ phase = "saving" /\ phase' = "joining"
    /\ queue' = <<>> /\ erasing' = {}
    /\ UNCHANGED <<lapsed, tor, entry, memory, thread, restarts, due>> /\ ProcessOnly

StopWait ==
    /\ phase = "saving" /\ phase' = "joining"
    /\ lapsed' = (lapsed \/ pending > 0)
    /\ queue' = <<>> /\ erasing' = {}
    /\ UNCHANGED <<tor, entry, memory, thread, restarts, due>> /\ ProcessOnly

StopSession ==
    /\ phase = "joining" /\ phase' = "down"
    /\ al = AtRest /\ batch = <<>> /\ \A c \in Callers : job[c] = Idle
    /\ Forget
    /\ UNCHANGED <<row, job, commands, fails, asked, retry, restarts, due, lapsed>>

Launch ==
    /\ phase' = "up" /\ restarts' = restarts + 1 /\ retry' = {} /\ due' = {} /\ lapsed' = FALSE
    /\ job' = [c \in Callers |-> Idle] /\ Forget
    /\ UNCHANGED <<row, commands, fails, asked>>
Restart == phase = "down" /\ Launch
Crash == phase # "down" /\ restarts < MaxRestarts /\ Launch

-----------------------------------------------------------------------------
Engine == GetMetadata \/ Check \/ Download \/ Moved \/ Erased
Continue(c) ==
    \/ Add(c) \/ MapAdded(c) \/ Restore(c) \/ MapRestored(c) \/ Pause(c) \/ Resume(c)
    \/ ForceRecheck(c) \/ StopSave(c) \/ StopErase(c) \/ Remove(c) \/ DropRow(c)
Dispatch ==
    \/ DispatchChecked \/ DispatchFinished \/ DispatchMoved \/ DispatchDeleted
    \/ DispatchMetadata \/ DispatchSaved
AlertThread == LookUp \/ Dispatch \/ Checkpoint
ShutDown == SaveAllResumeData \/ StopWait \/ StopSession \/ Restart \/ Crash
Next ==
    \/ phase \in {"up", "saving"} /\ Engine
    \/ AlertThread \/ ShutDown
    \/ \E c \in Callers : Begin(c) \/ Stop(c) \/ Continue(c)
Spec == Init /\ [][Next]_vars

(* The alert thread keeps running, libtorrent finishes a move it has begun and *)
(* commands that have begun go on.  No peer needs to have the pieces.          *)
FairSpec ==
    /\ Spec /\ WF_vars(AlertThread) /\ WF_vars(Moved)
    /\ \A c \in Callers : WF_vars(Continue(c))

-----------------------------------------------------------------------------
(* Properties *)

Alerts == [kind : {"metadata", "checked", "finished", "moved", "moveFailed", "deleted",
                   "deleteFailed", "saved"},
           g : 1..MaxHandles, full : BOOLEAN]
Rows == [here : BOOLEAN, status : 1..4, resume : {"none", "part", "full"},
         act : {"ask", "seed", "stop"}, source : BOOLEAN]
Torrents == [id : 0..MaxHandles, run : BOOLEAN, full : BOOLEAN, dirty : BOOLEAN,
             moving : BOOLEAN, at : {None, "meta", "loading", "checking", "down", "done"}]
Answers(alerts) == Cardinality({i \in 1..Len(alerts) : alerts[i].kind = "saved"})

\* Every variable keeps to its values; the count of awaited resume data never
\* falls below the answers still to be handled.
TypeOK ==
    /\ row \in [Tasks -> Rows] /\ map \in [Tasks -> 0..MaxHandles] /\ tor \in Torrents
    /\ recheck \in [Tasks -> {None, "pause", "resume"}] /\ moves \in [Tasks -> {None, "seed", "stop"}]
    /\ pendDel \in Tasks \cup {None} /\ erasing \subseteq 1..MaxHandles /\ retry \subseteq Tasks
    /\ queue \in Seq(Alerts) /\ batch \in Seq(Alerts) /\ al.a \in Alerts \cup {NoAlert}
    /\ pending \in Nat
    /\ pending >= Answers(queue) + Answers(batch) + (IF At({"saved"}) THEN 1 ELSE 0)
    /\ phase \in {"up", "saving", "joining", "down"}

\* While no command holds m_addRemoveMutex, the torrent in the session is in the
\* map under exactly one task, and the map names nothing else: no add, restore,
\* stop or removal, however they interleave or fail, leaves a torrent running
\* that no command can reach, or a task whose handle is dead.
OneTaskPerTorrent ==
    ~Locked => /\ \A t \in Tasks : map[t] \in {0, tor.id}
               /\ tor # NoTorrent => \E t \in Tasks : map[t] = tor.id
               /\ \A t, u \in Tasks : map[t] # 0 /\ map[t] = map[u] => t = u

\* A mapped torrent has a row: what runs is what the next launch will list
\* (RemoveTorrent against AddTorrentFromResumeData).  Two writers of the rows do
\* not take m_addRemoveMutex, and a restore that overtakes them leaves a torrent
\* without a row: the alert of deleted files, and the window's DeleteAsync.
MappedHasRow ==
    \A t \in Tasks : map[t] # 0 /\ asked[t] \notin {"files", "dropped"} => row[t].here

\* After an orderly shutdown every complete torrent that was mapped when it began
\* has its piece map in its row or is marked for a retry, unless the wait timed out.
ShutdownKeepsProgress ==
    phase = "down" /\ ~lapsed =>
        \A t \in due : row[t].here => row[t].resume = "full" \/ t \in retry

\* The row of a task whose files are being removed goes only when libtorrent has
\* reported them gone (RemoveTorrent and the two deletion alerts), unless the
\* window drops it.
RowOutlivesFiles ==
    [][\A t \in Tasks : asked'[t] = "files" /\ row[t].here /\ ~row'[t].here
                        => At({"deleted"})]_vars

\* libtorrent's failure to delete is recorded in a row that is still there.
FailedDeletionKeepsTask ==
    [][At({"deleteFailed"}) /\ al.t # None /\ al' = AtRest /\ fails' = fails /\ phase' = phase
       /\ restarts' = restarts => row'[al.t].here]_vars

\* The piece map of a complete torrent reaches its row, failed writes included.
ProgressReachesRow ==
    \A t \in Tasks :
        Mapped(t) /\ tor.full /\ phase = "up"
        ~> ~Mapped(t) \/ ~row[t].here \/ row[t].resume = "full" \/ phase # "up" \/ lapsed

\* A completion is handled to its end, the move included: the files reach the
\* catalog, unless the torrent leaves or its completion could not be recorded.
CompletionSettles ==
    \A g \in 1..MaxHandles :
        tor.id = g /\ tor.at = "done" /\ phase = "up"
        ~> tor.id # g \/ outcome # None \/ lapsed \/ phase # "up"
=============================================================================
