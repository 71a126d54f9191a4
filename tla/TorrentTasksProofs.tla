-------------------------- MODULE TorrentTasksProofs --------------------------
(* Machine-checked proofs about TorrentTasks: its types and the count of the   *)
(* answers awaited, that the session and the map name one torrent and one      *)
(* task, that what is mapped has a row, that rows outlive files, and that an   *)
(* orderly shutdown keeps the progress.                                        *)
EXTENDS TorrentTasks, FiniteSetTheorems, TLAPS

-----------------------------------------------------------------------------
(* The inductive invariant. *)

Pcs == {"idle", "add", "mapAdded", "restore", "mapRestored", "pause", "resume", "recheck",
        "stopSave", "stopErase", "remove", "drop"}
Jobs == [pc : Pcs, op : CommandNames \cup {None}, t : Tasks \cup {None}, g : 0..MaxHandles]
Looked == [a : Alerts \cup {NoAlert}, t : Tasks \cup {None}, act : {None, "pause", "resume"},
           old : Rows]

\* Threads that hold m_addRemoveMutex: an entered torrent is not mapped yet, or one
\* is being stopped.
Entering(c) == job[c].pc \in {"mapAdded", "mapRestored"}
Stopping(c) == job[c].pc \in {"stopSave", "stopErase"}

RowsTyped == row \in [Tasks -> Rows]
TorTyped ==
    /\ tor \in Torrents /\ handles \in 0..MaxHandles /\ erasing \subseteq 1..MaxHandles
    /\ tor.id <= handles
    /\ tor.id = 0 => tor = NoTorrent
MemoryTyped ==
    /\ map \in [Tasks -> 0..MaxHandles] /\ recheck \in [Tasks -> {None, "pause", "resume"}]
    /\ moves \in [Tasks -> {None, "seed", "stop"}] /\ pendDel \in Tasks \cup {None}
    /\ retry \subseteq Tasks /\ phase \in {"up", "saving", "joining", "down"}
AlertsTyped == queue \in Seq(Alerts) /\ batch \in Seq(Alerts) /\ al \in Looked
JobsTyped ==
    /\ job \in [Callers -> Jobs]
    /\ \A c \in Callers : job[c].pc \notin {"idle", "add"} => job[c].t \in Tasks
    /\ \A c \in Callers : job[c].pc \in {"restore", "mapRestored"}
                          => job[c].op \in CommandNames \ {"add", "pause", "stop"}
Counted ==
    /\ pending \in Nat
    /\ pending >= Answers(queue) + Answers(batch) + (IF At({"saved"}) THEN 1 ELSE 0)
Typed == RowsTyped /\ TorTyped /\ MemoryTyped /\ AlertsTyped /\ JobsTyped

\* The mutex, and what its holder has half done.
Exclusive ==
    /\ \A c, d \in Callers :
          (Entering(c) \/ Stopping(c)) /\ (Entering(d) \/ Stopping(d)) => c = d
    /\ \A c \in Callers : Entering(c) => tor.id # 0 /\ \A t \in Tasks : map[t] = 0
    /\ \A c \in Callers : Stopping(c) => map[job[c].t] # 0

\* Between adds and restores the map and the session agree.
Agreed ==
    /\ (\A c \in Callers : ~Entering(c)) =>
          /\ \A t \in Tasks : map[t] \in {0, tor.id}
          /\ tor.id # 0 => \E t \in Tasks : map[t] = tor.id
    /\ \A t, u \in Tasks : map[t] # 0 /\ map[t] = map[u] => t = u

RemovalsTyped == asked \in [Tasks -> {None, "kept", "row", "files", "dropped"}]

\* A torrent that enters the session has a row.
RowsKept ==
    /\ MappedHasRow
    /\ \A c \in Callers : Entering(c) /\ asked[job[c].t] \notin {"files", "dropped"}
                          => row[job[c].t].here

One == Typed /\ Exclusive /\ Agreed

-----------------------------------------------------------------------------
(* Types *)

\* The bound on handles is a number.
LEMMA HandlesBound == MaxHandles \in Nat
  BY TorrentBounds

\* The updates of the torrent in the session.
LEMMA TorUpdated ==
  ASSUME NEW to \in Torrents
  PROVE  /\ \A b \in BOOLEAN : /\ [to EXCEPT !.run = b] \in Torrents
                               /\ [to EXCEPT !.run = b].id = to.id
                               /\ [to EXCEPT !.run = b].full = to.full
         /\ [to EXCEPT !.dirty = FALSE] \in Torrents /\ [to EXCEPT !.dirty = FALSE].id = to.id
         /\ [to EXCEPT !.moving = FALSE] \in Torrents /\ [to EXCEPT !.moving = FALSE].id = to.id
         /\ [to EXCEPT !.run = FALSE, !.moving = TRUE] \in Torrents
         /\ [to EXCEPT !.run = FALSE, !.moving = TRUE].id = to.id
         /\ [to EXCEPT !.at = "done", !.full = TRUE, !.dirty = TRUE] \in Torrents
         /\ [to EXCEPT !.at = "done", !.full = TRUE, !.dirty = TRUE].id = to.id
  BY DEF Torrents

\* A torrent that keeps its handle stays typed.
LEMMA TorKept ==
  ASSUME TorTyped, tor' \in Torrents, tor'.id = tor.id, tor.id # 0 \/ tor' = tor,
         UNCHANGED <<handles, erasing>>
  PROVE  TorTyped'
  BY DEF TorTyped

\* Asking for resume data leaves a torrent.
LEMMA Requested ==
  ASSUME NEW to \in Torrents, Request(to)
  PROVE  tor' \in Torrents /\ tor'.id = to.id
  BY TorUpdated DEF Request

\* What enters the session has the newest handle.
LEMMA Entered ==
  ASSUME TorTyped, NEW run \in BOOLEAN, NEW full \in BOOLEAN,
         NEW at \in {"meta", "loading"}, Enter(run, at, full), erasing' = erasing
  PROVE  TorTyped' /\ tor'.id # 0 /\ tor'.id = handles'
  <1>1. handles' \in 1..MaxHandles
    BY HandlesBound DEF TorTyped, Enter
  <1>2. \A n \in 0..MaxHandles :
           /\ [NoTorrent EXCEPT !.id = n, !.run = run, !.at = at, !.full = full] \in Torrents
           /\ [NoTorrent EXCEPT !.id = n, !.run = run, !.at = at, !.full = full].id = n
    BY DEF Torrents, NoTorrent
  <1>3. tor' \in Torrents /\ tor'.id = handles'
    <2>1. tor' = [NoTorrent EXCEPT !.id = handles', !.run = run, !.at = at, !.full = full]
      BY DEF Enter
    <2>2. handles' \in 0..MaxHandles
      BY <1>1, HandlesBound
    <2> QED BY <1>2, <2>1, <2>2, Zenon
  <1> QED BY <1>1, <1>3, HandlesBound DEF TorTyped

\* Every alert that is posted names a torrent that was in the session.
LEMMA Posted ==
  ASSUME AlertsTyped, NEW a \in Alerts, queue' = queue \o <<a>> PROVE queue' \in Seq(Alerts)
  BY DEF AlertsTyped

\* What the session posts of its torrent are alerts.
LEMMA Alerted ==
  ASSUME TorTyped, tor.id # 0
  PROVE  /\ \A full \in BOOLEAN : Saved(tor.id, full) \in Alerts
         /\ \A kind \in {"metadata", "checked", "finished", "moved", "moveFailed"} :
               Alert(kind, tor.id) \in Alerts
  <1>1. tor.id \in 1..MaxHandles
    BY HandlesBound DEF TorTyped, Torrents
  <1> QED BY <1>1 DEF Alerts, Saved, Alert, NoAlert

\* An answer leaves the queue one of alerts.
LEMMA Answered ==
  ASSUME TorTyped, AlertsTyped, NEW to \in Torrents, to.id = tor.id, tor.id # 0, Request(to)
  PROVE  queue' \in Seq(Alerts)
  <1>1. Saved(to.id, to.full) \in Alerts
    BY Alerted DEF Torrents
  <1> QED BY <1>1, Posted DEF Request

\* The dispatcher at rest is a place of it.
LEMMA AtRestLooked == AtRest \in Looked
  BY DEF AtRest, Looked, NoAlert, NoRow, Rows

\* The dispatcher done with an alert stays typed.
LEMMA Dispatched ==
  ASSUME AlertsTyped, queue' \in Seq(Alerts), al' = AtRest, batch' = batch \/ batch' = <<>>
  PROVE  AlertsTyped'
  <1>1. <<>> \in Seq(Alerts)
    OBVIOUS
  <1> QED BY <1>1, AtRestLooked DEF AlertsTyped

\* Whoever asks for resume data holds the handle of the torrent in the session, and
\* gets the pieces it has.
Asks == tor.id # 0 /\ \E to \in Torrents : to.id = tor.id /\ to.full = tor.full /\ Request(to)

\* A request of the torrent in the session asks.
LEMMA Asking ==
  ASSUME One, NEW b \in BOOLEAN, Request([tor EXCEPT !.run = b]) \/ Request(tor), tor.id # 0
  PROVE  Asks
  BY TorUpdated DEF Asks, One, Typed, TorTyped

\* The handlers that request resume data ask, or ask nothing.
LEMMA Requests ==
  ASSUME One,
         \/ DispatchChecked \/ DispatchFinished \/ DispatchMoved \/ Checkpoint \/ SaveAllResumeData
         \/ \E c \in Callers : MapAdded(c) \/ MapRestored(c) \/ Pause(c) \/ Resume(c)
  PROVE  UNCHANGED <<queue, pending>> \/ Asks
  <1>1. CASE DispatchChecked
    <2>1. (al.act = "resume") \in BOOLEAN
      BY Zenon
    <2> QED BY <1>1, <2>1, Asking DEF DispatchChecked, RequestIfAlive, Alive
  <1>2. CASE DispatchFinished
    <2>1. ASSUME NEW keep \in BOOLEAN, Request([tor EXCEPT !.run = @ /\ keep]), Alive(al.a.g)
          PROVE  Asks
      <3>1. (tor.run /\ keep) \in BOOLEAN
        BY Zenon
      <3> QED BY <2>1, <3>1, Asking DEF Alive
    <2>2. Request([tor EXCEPT !.run = FALSE]) /\ Mapped(al.t) => Asks
      BY Asking DEF Mapped, Alive
    <2>3. \A keep \in Choices(al.t) : keep \in BOOLEAN
      BY TorrentBounds DEF Choices
    <2> QED BY <1>2, <2>1, <2>2, <2>3 DEF DispatchFinished
  <1>3. CASE DispatchMoved
    <2> DEFINE mv == IF al.t = None THEN None ELSE moves[al.t]
    <2>1. (tor.run \/ mv = "seed") \in BOOLEAN
      BY Zenon
    <2>2. Request([tor EXCEPT !.run = @ \/ mv = "seed"]) /\ Alive(al.a.g) => Asks
      BY <2>1, Asking DEF Alive
    <2> QED BY <1>3, <2>2 DEF DispatchMoved, RequestIfAlive
  <1>4. CASE Checkpoint
    BY <1>4, Asking DEF Checkpoint, Mapped, Alive
  <1>5. CASE SaveAllResumeData
    BY <1>5, Asking DEF SaveAllResumeData, Mapped, Alive
  <1>6. ASSUME NEW c \in Callers, MapAdded(c) PROVE Asks
    <2>1. (row[job[c].t].status = 1) \in BOOLEAN /\ tor.id # 0
      BY <1>6 DEF MapAdded, One, Exclusive, Entering
    <2> QED BY <1>6, <2>1, Asking DEF MapAdded
  <1>7. ASSUME NEW c \in Callers, MapRestored(c) PROVE UNCHANGED <<queue, pending>> \/ Asks
    BY <1>7, Asking DEF MapRestored, One, Exclusive, Entering
  <1>8. ASSUME NEW c \in Callers, Pause(c) PROVE UNCHANGED <<queue, pending>> \/ Asks
    BY <1>8, Asking DEF Pause, Alive
  <1>9. ASSUME NEW c \in Callers, Resume(c) PROVE UNCHANGED <<queue, pending>> \/ Asks
    BY <1>9, Asking DEF Resume, Alive
  <1> QED BY <1>1, <1>2, <1>3, <1>4, <1>5, <1>6, <1>7, <1>8, <1>9

\* A step that asks leaves the queue one of alerts.
LEMMA AskedAlerts == ASSUME One, Asks PROVE queue' \in Seq(Alerts)
  BY Answered DEF Asks, One, Typed

\* The writes of the rows: those of the settings, the status and the resume data
\* keep the row, and a row that is written back whole is there.
Stays(new) == \A t \in Tasks : row[t].here => new[t].here

\* The updates of a row leave it a row, and there if it was.
LEMMA RowUpdated ==
  ASSUME NEW r \in Rows
  PROVE  /\ \A s \in 1..4 : [r EXCEPT !.status = s] \in Rows /\ [r EXCEPT !.status = s].here = r.here
         /\ \A x \in {"ask", "seed", "stop"} :
               [r EXCEPT !.act = x] \in Rows /\ [r EXCEPT !.act = x].here = r.here
         /\ \A keep \in BOOLEAN : Completed(r, keep) \in Rows /\ Completed(r, keep).here = r.here
         /\ [r EXCEPT !.source = TRUE] \in Rows /\ [r EXCEPT !.source = TRUE].here = r.here
         /\ \A x \in {"part", "full"} :
               [r EXCEPT !.resume = x] \in Rows /\ [r EXCEPT !.resume = x].here = r.here
         /\ \A x \in {"part", "full"} :
               /\ [r EXCEPT !.resume = x, !.status = 2] \in Rows
               /\ [r EXCEPT !.resume = x, !.status = 2].here = r.here
  <1> USE DEF Rows
  <1>1. \A s \in 1..4 : [r EXCEPT !.status = s] \in Rows /\ [r EXCEPT !.status = s].here = r.here
    OBVIOUS
  <1>2. \A x \in {"ask", "seed", "stop"} :
           [r EXCEPT !.act = x] \in Rows /\ [r EXCEPT !.act = x].here = r.here
    OBVIOUS
  <1>3. \A keep \in BOOLEAN : Completed(r, keep) \in Rows /\ Completed(r, keep).here = r.here
    <2> SUFFICES ASSUME NEW keep \in BOOLEAN
                 PROVE  Completed(r, keep) \in Rows /\ Completed(r, keep).here = r.here
      OBVIOUS
    <2> DEFINE x == IF keep THEN "seed" ELSE "stop"
    <2>1. Completed(r, keep) = [r EXCEPT !.status = 3, !.act = x]
      BY DEF Completed
    <2>2. x \in {"seed", "stop"}
      OBVIOUS
    <2> HIDE DEF x
    <2>3. [r EXCEPT !.status = 3, !.act = x] \in Rows
      <3>1. \A s \in 1..4 : [r EXCEPT !.status = s, !.act = x] \in Rows
        BY <2>2
      <3>2. 3 \in 1..4
        OBVIOUS
      <3> QED BY <3>1, <3>2, Zenon
    <2>4. [r EXCEPT !.status = 3, !.act = x].here = r.here
      OBVIOUS
    <2> HIDE DEF Rows
    <2> QED BY <2>1, <2>3, <2>4, Zenon
  <1>4. [r EXCEPT !.source = TRUE] \in Rows /\ [r EXCEPT !.source = TRUE].here = r.here
    OBVIOUS
  <1>5. \A x \in {"part", "full"} :
           [r EXCEPT !.resume = x] \in Rows /\ [r EXCEPT !.resume = x].here = r.here
    OBVIOUS
  <1>6. \A x \in {"part", "full"} :
           /\ [r EXCEPT !.resume = x, !.status = 2] \in Rows
           /\ [r EXCEPT !.resume = x, !.status = 2].here = r.here
    <2> SUFFICES ASSUME NEW x \in {"part", "full"}
                 PROVE  /\ [r EXCEPT !.resume = x, !.status = 2] \in Rows
                        /\ [r EXCEPT !.resume = x, !.status = 2].here = r.here
      OBVIOUS
    <2>1. [r EXCEPT !.resume = x, !.status = 2] \in Rows
      <3>1. \A s \in 1..4 : [r EXCEPT !.resume = x, !.status = s] \in Rows
        OBVIOUS
      <3>2. 2 \in 1..4
        OBVIOUS
      <3> QED BY <3>1, <3>2, Zenon
    <2>2. [r EXCEPT !.resume = x, !.status = 2].here = r.here
      OBVIOUS
    <2> QED BY <2>1, <2>2
  <1> HIDE DEF Rows
  <1> QED BY <1>1, <1>2, <1>3, <1>4, <1>5, <1>6, Zenon

\* A row written is a row.
LEMMA Wrote ==
  ASSUME RowsTyped, NEW t \in Tasks, NEW r \in Rows, row' = [row EXCEPT ![t] = r]
  PROVE  RowsTyped' /\ (r.here = row[t].here => Stays(row'))
  BY DEF RowsTyped, Stays

\* A status written makes and removes no row.
LEMMA StatusSet ==
  ASSUME RowsTyped, NEW t \in Tasks \cup {None}, NEW s \in 1..4, SetStatus(t, s)
  PROVE  RowsTyped' /\ Stays(row')
  <1>1. CASE row' = row
    BY <1>1 DEF RowsTyped, Stays
  <1>2. ASSUME t \in Tasks, row' = [row EXCEPT ![t].status = s] PROVE RowsTyped' /\ Stays(row')
    <2>1. row' = [row EXCEPT ![t] = [row[t] EXCEPT !.status = s]] /\ row[t] \in Rows
      BY <1>2 DEF RowsTyped
    <2>2. /\ [row[t] EXCEPT !.status = s] \in Rows
          /\ [row[t] EXCEPT !.status = s].here = row[t].here
      BY <2>1, RowUpdated, Zenon
    <2> QED BY <1>2, <2>1, <2>2, Wrote, Zenon
  <1> QED BY <1>1, <1>2 DEF SetStatus

\* Nor does a row written back.
LEMMA WroteBack ==
  ASSUME RowsTyped, NEW t \in Tasks \cup {None}, NEW r \in Rows, WriteBack(t, r)
  PROVE  RowsTyped' /\ Stays(row')
  <1>1. CASE row' = row
    BY <1>1 DEF RowsTyped, Stays
  <1>2. ASSUME t \in Tasks, r.here, row' = [row EXCEPT ![t] = [r EXCEPT !.act = row[t].act]]
        PROVE  RowsTyped' /\ Stays(row')
    <2>1. row[t].act \in {"ask", "seed", "stop"}
      BY <1>2 DEF RowsTyped, Rows
    <2>2. [r EXCEPT !.act = row[t].act] \in Rows /\ [r EXCEPT !.act = row[t].act].here = r.here
      BY <2>1, RowUpdated, Zenon
    <2> QED BY <1>2, <2>2 DEF RowsTyped, Stays
  <1> QED BY <1>1, <1>2 DEF WriteBack

\* What a command begins with.
LEMMA Begun ==
  ASSUME NEW c \in Callers, Begin(c)
  PROVE  \/ Start(c, "add", "add", None, 0)
         \/ \E op \in CommandNames \ {"add", "stop"}, t \in Tasks,
               pc \in {"pause", "resume", "recheck", "restore", "remove"} : \E g \in {0, map[t]} :
               Start(c, op, pc, t, g) /\ (pc = "restore" => op # "pause")
  <1>1. Commands[c] \subseteq CommandNames
    BY TorrentBounds
  <1>2. \/ Start(c, "add", "add", None, 0)
        \/ \E op \in Commands[c] \ {"add", "stop"}, t \in Tasks :
             \/ op \in {"pause", "resume"} /\ Start(c, op, op, t, map[t])
             \/ op \notin {"pause", "resume"} /\ Start(c, op, Step(op), t, 0)
             \/ op # "pause" /\ Start(c, op, "restore", t, 0)
             \/ Start(c, op, "remove", t, 0)
    BY Zenon DEF Begin, Files
  <1>3. \A op \in CommandNames \ {"add", "stop", "pause", "resume"} :
           Step(op) \in {"recheck", "remove"}
    BY DEF Step, Removal, Files, CommandNames
  <1> QED BY <1>1, <1>2, <1>3

\* The torrent in the session keeps its handle through every action that does not take
\* it in or out.
LEMMA TorNext == ASSUME One, [Next]_vars PROVE TorTyped'
  <1> USE HandlesBound DEF One, Typed, TorTyped, Torrents, NoTorrent, None
  <1>1. CASE GetMetadata
    BY <1>1 DEF GetMetadata, entry, Post
  <1>2. CASE Check
    BY <1>2 DEF Check, entry, Post
  <1>3. CASE Download
    <2>1. tor.id # 0
      BY <1>3 DEF Download, NoTorrent
    <2> QED BY <1>3, <2>1, TorUpdated, TorKept, Zenon DEF Download, TorTyped, entry
  <1>4. CASE Moved
    <2>1. tor.id # 0
      BY <1>4 DEF Moved, NoTorrent
    <2> QED BY <1>4, <2>1, TorUpdated, TorKept, Zenon DEF Moved, TorTyped, entry
  <1>5. CASE Erased
    BY <1>5 DEF Erased, entry, Post
  <1>6. CASE DispatchChecked
    <2> DEFINE to == [tor EXCEPT !.run = (al.act = "resume")]
    <2>1. to \in Torrents /\ to.id = tor.id
      BY TorUpdated, Zenon
    <2>2. UNCHANGED <<handles, erasing>>
      BY <1>6 DEF DispatchChecked, entry
    <2>3. ASSUME Request(tor), Alive(al.a.g) PROVE TorTyped'
      BY <2>2, <2>3, Requested, TorKept DEF Alive
    <2>4. ASSUME Request(to), Alive(al.a.g) PROVE TorTyped'
      <3> HIDE DEF to
      <3> QED BY <2>1, <2>2, <2>4, Requested, TorKept DEF Alive
    <2>5. ASSUME tor' = tor PROVE TorTyped'
      BY <2>2, <2>5
    <2> QED BY <1>6, <2>3, <2>4, <2>5 DEF DispatchChecked, RequestIfAlive
  <1>7. CASE DispatchFinished
    BY <1>7 DEF DispatchFinished, Request, Alive, Mapped, SetStatus, entry
  <1>8. CASE DispatchMoved
    <2> DEFINE mv == IF al.t = None THEN None ELSE moves[al.t]
    <2> DEFINE to == [tor EXCEPT !.run = @ \/ mv = "seed"]
    <2>1. to \in Torrents /\ to.id = tor.id
      BY TorUpdated, Zenon
    <2>2. UNCHANGED <<handles, erasing>>
      BY <1>8 DEF DispatchMoved
    <2>3. ASSUME mv # "seed" PROVE to = tor
      BY <2>3
    <2> HIDE DEF to, mv
    <2>4. ASSUME Request(to), Alive(al.a.g) PROVE TorTyped'
      BY <2>1, <2>2, <2>4, Requested, TorKept DEF Alive
    <2>5. ASSUME tor' = to, mv # "seed" \/ Alive(al.a.g) PROVE TorTyped'
      BY <2>1, <2>2, <2>3, <2>5, TorKept DEF Alive
    <2>6. ASSUME tor' = tor PROVE TorTyped'
      BY <2>2, <2>6
    <2> QED BY <1>8, <2>4, <2>5, <2>6 DEF DispatchMoved, RequestIfAlive, mv, to
  <1>9. CASE Checkpoint
    BY <1>9 DEF Checkpoint, Request, Mapped, Alive, entry
  <1>10. CASE SaveAllResumeData
    BY <1>10 DEF SaveAllResumeData, Request, Mapped, Alive, entry
  <1>11. CASE StopWait
    BY <1>11 DEF StopWait, entry
  <1>12. CASE StopSession
    BY <1>12 DEF StopSession, Forget, NoTorrent
  <1>13. CASE Restart
    BY <1>13 DEF Restart, Launch, Forget, NoTorrent
  <1>14. CASE Crash
    BY <1>14 DEF Crash, Launch, Forget, NoTorrent
  <1>15. ASSUME NEW c \in Callers, Stop(c) PROVE TorTyped'
    BY <1>15 DEF Stop, Start, Mapped, Alive, entry
  <1>16. ASSUME NEW c \in Callers, Add(c) PROVE TorTyped'
    <2>1. ASSUME NEW magnet \in BOOLEAN, Enter(FALSE, IF magnet THEN "meta" ELSE "loading", FALSE)
          PROVE  TorTyped'
      BY <1>16, <2>1, Entered DEF Add
    <2>2. ASSUME UNCHANGED <<tor, handles>> PROVE TorTyped'
      BY <1>16, <2>2 DEF Add
    <2> QED BY <1>16, <2>1, <2>2 DEF Add, entry
  <1>17. ASSUME NEW c \in Callers, MapAdded(c) PROVE TorTyped'
    BY <1>17 DEF MapAdded, Request, Exclusive, Entering, entry
  <1>18. ASSUME NEW c \in Callers, Restore(c) PROVE TorTyped'
    <2>1. ASSUME Enter(ShouldRun(row[job[c].t]), "loading", row[job[c].t].resume = "full")
          PROVE  TorTyped'
      <3>1. ShouldRun(row[job[c].t]) \in BOOLEAN /\ (row[job[c].t].resume = "full") \in BOOLEAN
        BY Zenon DEF ShouldRun
      <3> QED BY <1>18, <2>1, <3>1, Entered DEF Restore
    <2>2. ASSUME UNCHANGED <<tor, handles>> PROVE TorTyped'
      BY <1>18, <2>2 DEF Restore
    <2> QED BY <1>18, <2>1, <2>2 DEF Restore, entry
  <1>19. ASSUME NEW c \in Callers, MapRestored(c) PROVE TorTyped'
    BY <1>19 DEF MapRestored, Request, Exclusive, Entering, entry
  <1>20. ASSUME NEW c \in Callers, Pause(c) PROVE TorTyped'
    BY <1>20 DEF Pause, Request, Alive, entry
  <1>21. ASSUME NEW c \in Callers, Resume(c) PROVE TorTyped'
    BY <1>21 DEF Resume, Request, Alive, entry
  <1>22. ASSUME NEW c \in Callers, ForceRecheck(c) PROVE TorTyped'
    BY <1>22 DEF ForceRecheck, Mapped, Alive, entry
  <1>23. ASSUME NEW c \in Callers, StopErase(c) PROVE TorTyped'
    BY <1>23 DEF StopErase, NoTorrent, entry
  <1>24. ASSUME NEW c \in Callers, Remove(c) PROVE TorTyped'
    <2>1. (tor' = NoTorrent \/ tor' = tor) /\ handles' = handles
      BY <1>24 DEF Remove, entry
    <2>2. erasing' = erasing \/ (erasing' = erasing \cup {tor.id} /\ tor.id # 0)
      BY <1>24 DEF Remove, Mapped, Alive
    <2>3. tor.id \in 0..MaxHandles /\ erasing \subseteq 1..MaxHandles /\ handles \in 0..MaxHandles
      OBVIOUS
    <2>4. erasing' \subseteq 1..MaxHandles
      <3>1. tor.id # 0 => tor.id \in 1..MaxHandles
        BY <2>3
      <3> SUFFICES ASSUME NEW g \in erasing' PROVE g \in 1..MaxHandles
        OBVIOUS
      <3>2. g \in erasing \/ (g = tor.id /\ tor.id # 0)
        BY <2>2
      <3> QED BY <2>3, <3>1, <3>2
    <2>5. NoTorrent \in Torrents /\ NoTorrent.id = 0 /\ tor \in Torrents
      OBVIOUS
    <2> HIDE DEF One, Torrents, NoTorrent, TorTyped
    <2>6. TorTyped
      BY DEF One, Typed
    <2> QED BY <2>1, <2>3, <2>4, <2>5, <2>6 DEF TorTyped
  <1>25. ASSUME UNCHANGED <<tor, handles, erasing>> PROVE TorTyped'
    BY <1>25 DEF One, Typed, TorTyped
  <1>26. ASSUME LookUp \/ DispatchDeleted \/ DispatchMetadata \/ DispatchSaved
        PROVE  UNCHANGED <<tor, handles, erasing>>
    BY <1>26 DEF LookUp, DispatchDeleted, DispatchMetadata, DispatchSaved, entry, engine, memory,
        thread, process, EngineOnly, CallerOnly, AlertOnly, ProcessOnly, Done, Throw, Goto, Return,
        GiveUp, Start, Fail, Forget, Launch, Enter, Post
  <1>27. ASSUME NEW c \in Callers, Begin(c) \/ StopSave(c) \/ DropRow(c)
        PROVE  UNCHANGED <<tor, handles, erasing>>
    BY <1>27 DEF Begin, StopSave, DropRow, entry, engine, memory, thread, process, EngineOnly,
        CallerOnly, AlertOnly, ProcessOnly, Done, Throw, Goto, Return, GiveUp, Start, Fail, Forget,
        Launch, Enter, Post
  <1>28. CASE UNCHANGED vars
    BY <1>28 DEF vars, engine, memory, thread, process, history, entry, One, Typed, TorTyped
  <1> QED BY <1>1, <1>2, <1>3, <1>4, <1>5, <1>6, <1>7, <1>8, <1>9, <1>10, <1>11, <1>12, <1>13,
             <1>14, <1>15, <1>16, <1>17, <1>18, <1>19, <1>20, <1>21, <1>22, <1>23, <1>24, <1>25,
             <1>26, <1>27, <1>28 DEF Next, Engine,
               AlertThread, Dispatch, ShutDown, Continue

\* What the map and the tables of pending actions hold.
LEMMA MemoryNext == ASSUME One, [Next]_vars PROVE MemoryTyped'
  <1> USE HandlesBound DEF One, Typed, MemoryTyped, JobsTyped, Jobs, AlertsTyped, Looked, None,
              memory, process, CallerOnly, AlertOnly, ProcessOnly
  <1>1. CASE LookUp
    BY <1>1 DEF LookUp, Looked
  <1>2. CASE DispatchFinished
    BY <1>2 DEF DispatchFinished, Looked, AlertsTyped
  <1>3. CASE DispatchMoved
    BY <1>3 DEF DispatchMoved, Looked
  <1>4. CASE DispatchSaved
    BY <1>4 DEF DispatchSaved, Looked
  <1>5. CASE SaveAllResumeData
    BY <1>5 DEF SaveAllResumeData
  <1>6. CASE StopWait
    BY <1>6 DEF StopWait
  <1>7. CASE StopSession
    BY <1>7 DEF StopSession, Forget
  <1>8. CASE Restart
    BY <1>8 DEF Restart, Launch, Forget
  <1>9. CASE Crash
    BY <1>9 DEF Crash, Launch, Forget
  <1>10. ASSUME NEW c \in Callers, MapAdded(c) PROVE MemoryTyped'
    BY <1>10 DEF MapAdded, TorTyped, Torrents
  <1>11. ASSUME NEW c \in Callers, MapRestored(c) PROVE MemoryTyped'
    BY <1>11 DEF MapRestored, TorTyped, Torrents
  <1>12. ASSUME NEW c \in Callers, Resume(c) PROVE MemoryTyped'
    BY <1>12 DEF Resume
  <1>13. ASSUME NEW c \in Callers, ForceRecheck(c) PROVE MemoryTyped'
    BY <1>13 DEF ForceRecheck
  <1>14. ASSUME NEW c \in Callers, StopErase(c) PROVE MemoryTyped'
    BY <1>14 DEF StopErase, EraseRuntimeState
  <1>15. ASSUME NEW c \in Callers, Remove(c) PROVE MemoryTyped'
    <2>1. ASSUME Mapped(job[c].t) PROVE MemoryTyped'
      <3>1. job[c].t \in Tasks
        BY <1>15 DEF Remove
      <3>2. /\ map' = [map EXCEPT ![job[c].t] = 0] /\ recheck' = [recheck EXCEPT ![job[c].t] = None]
            /\ UNCHANGED <<moves, retry, phase>>
            /\ pendDel' \in {pendDel, job[c].t}
        BY <1>15, <2>1 DEF Remove, EraseRuntimeState
      <3> QED BY <3>1, <3>2
    <2>2. ASSUME ~Mapped(job[c].t) PROVE MemoryTyped'
      BY <1>15, <2>2 DEF Remove
    <2> QED BY <2>1, <2>2
  <1>16. ASSUME UNCHANGED <<map, recheck, moves, pendDel, retry, phase>> PROVE MemoryTyped'
    BY <1>16 DEF One, Typed, MemoryTyped
  <1>17. ASSUME GetMetadata \/ Check \/ Download \/ Moved \/ Erased \/ DispatchChecked
            \/ DispatchDeleted \/ DispatchMetadata \/ Checkpoint
        PROVE  UNCHANGED <<map, recheck, moves, pendDel, retry, phase>>
    BY <1>17 DEF GetMetadata, Check, Download, Moved, Erased, DispatchChecked, DispatchDeleted,
        DispatchMetadata, Checkpoint, entry, engine, memory, thread, process, EngineOnly,
        CallerOnly, AlertOnly, ProcessOnly, Done, Throw, Goto, Return, GiveUp, Start, Fail, Forget,
        Launch, Enter, Post
  <1>18. ASSUME NEW c \in Callers, Begin(c) \/ Stop(c) \/ Add(c) \/ Restore(c) \/ Pause(c) \/ StopSave(c) \/ DropRow(c)
        PROVE  UNCHANGED <<map, recheck, moves, pendDel, retry, phase>>
    BY <1>18 DEF Begin, Stop, Add, Restore, Pause, StopSave, DropRow, entry, engine, memory, thread,
        process, EngineOnly, CallerOnly, AlertOnly, ProcessOnly, Done, Throw, Goto, Return, GiveUp,
        Start, Fail, Forget, Launch, Enter, Post
  <1>19. CASE UNCHANGED vars
    BY <1>19 DEF vars, engine, memory, thread, process, history, entry, One, Typed, MemoryTyped
  <1> QED BY <1>1, <1>2, <1>3, <1>4, <1>5, <1>6, <1>7, <1>8, <1>9, <1>10, <1>11, <1>12, <1>13,
             <1>14, <1>15, <1>16, <1>17, <1>18, <1>19 DEF Next, Engine,
               AlertThread, Dispatch, ShutDown, Continue

\* What the threads that run commands are at.
LEMMA JobsNext == ASSUME One, [Next]_vars PROVE JobsTyped'
  <1> USE HandlesBound DEF One, Typed, JobsTyped, Jobs, Pcs, CommandNames, None
  <1>1. CASE Restart
    BY <1>1 DEF Restart, Launch, Idle
  <1>2. CASE Crash
    BY <1>2 DEF Crash, Launch, Idle
  <1>3. ASSUME NEW c \in Callers, Begin(c) PROVE JobsTyped'
    <2>1. map \in [Tasks -> 0..MaxHandles]
      BY DEF MemoryTyped
    <2>2. ASSUME Start(c, "add", "add", None, 0) PROVE JobsTyped'
      BY <2>2 DEF Start
    <2>3. ASSUME NEW op \in CommandNames \ {"add", "stop"}, NEW t \in Tasks, NEW g \in {0, map[t]},
                 NEW pc \in {"pause", "resume", "recheck", "restore", "remove"},
                 Start(c, op, pc, t, g), pc = "restore" => op # "pause"
          PROVE  JobsTyped'
      BY <2>1, <2>3 DEF Start
    <2> HIDE DEF JobsTyped, CommandNames
    <2> QED BY <1>3, <2>2, <2>3, Begun
  <1>4. ASSUME NEW c \in Callers, Stop(c) PROVE JobsTyped'
    <2>1. map \in [Tasks -> 0..MaxHandles]
      BY DEF MemoryTyped
    <2> QED BY <1>4, <2>1 DEF Stop, Start
  <1>5. ASSUME NEW c \in Callers, Add(c) PROVE JobsTyped'
    <2>1. \/ Return(c)
          \/ \E t \in Tasks : job' = [job EXCEPT ![c].pc = "mapAdded", ![c].t = t]
      BY <1>5 DEF Add
    <2>2. job[c].op \in CommandNames \cup {None} /\ job[c].g \in 0..MaxHandles
      OBVIOUS
    <2>3. ASSUME NEW t \in Tasks, job' = [job EXCEPT ![c].pc = "mapAdded", ![c].t = t]
          PROVE  JobsTyped'
      BY <2>3
    <2> QED BY <2>1, <2>3 DEF Return, Idle
  <1>6. ASSUME NEW c \in Callers, MapAdded(c) PROVE JobsTyped'
    BY <1>6 DEF MapAdded, Return, Idle
  <1>7. ASSUME NEW c \in Callers, Restore(c) PROVE JobsTyped'
    BY <1>7 DEF Restore, Goto, GiveUp, Ui, Return, Step, Removal, Files, Idle
  <1>8. ASSUME NEW c \in Callers, MapRestored(c) PROVE JobsTyped'
    BY <1>8 DEF MapRestored, Goto, GiveUp, Ui, Return, Step, Removal, Files, Idle
  <1>9. ASSUME NEW c \in Callers, Pause(c) PROVE JobsTyped'
    BY <1>9 DEF Pause, Return, Idle
  <1>10. ASSUME NEW c \in Callers, Resume(c) PROVE JobsTyped'
    BY <1>10 DEF Resume, Return, Idle
  <1>11. ASSUME NEW c \in Callers, ForceRecheck(c) PROVE JobsTyped'
    BY <1>11 DEF ForceRecheck, Return, Idle
  <1>12. ASSUME NEW c \in Callers, StopSave(c) PROVE JobsTyped'
    BY <1>12 DEF StopSave, Return, Idle, Goto
  <1>13. ASSUME NEW c \in Callers, StopErase(c) PROVE JobsTyped'
    BY <1>13 DEF StopErase, Return, Idle
  <1>14. ASSUME NEW c \in Callers, Remove(c) PROVE JobsTyped'
    BY <1>14 DEF Remove, GiveUp, Ui, Goto, Return, Idle
  <1>15. ASSUME NEW c \in Callers, DropRow(c) PROVE JobsTyped'
    BY <1>15 DEF DropRow, Return, Idle
  <1>16. ASSUME UNCHANGED job PROVE JobsTyped'
    BY <1>16 DEF One, Typed, JobsTyped
  <1>17. ASSUME GetMetadata \/ Check \/ Download \/ Moved \/ Erased \/ LookUp \/ DispatchChecked
            \/ DispatchFinished \/ DispatchMoved \/ DispatchDeleted \/ DispatchMetadata
            \/ DispatchSaved \/ Checkpoint \/ SaveAllResumeData \/ StopWait \/ StopSession
        PROVE  UNCHANGED job
    BY <1>17 DEF GetMetadata, Check, Download, Moved, Erased, LookUp, DispatchChecked,
        DispatchFinished, DispatchMoved, DispatchDeleted, DispatchMetadata, DispatchSaved,
        Checkpoint, SaveAllResumeData, StopWait, StopSession, entry, engine, memory, thread,
        process, EngineOnly, CallerOnly, AlertOnly, ProcessOnly, Done, Throw, Goto, Return, GiveUp,
        Start, Fail, Forget, Launch, Enter, Post
  <1>18. CASE UNCHANGED vars
    BY <1>18 DEF vars, engine, memory, thread, process, history, entry, One, Typed, JobsTyped
  <1> QED BY <1>1, <1>2, <1>3, <1>4, <1>5, <1>6, <1>7, <1>8, <1>9, <1>10, <1>11, <1>12, <1>13,
             <1>14, <1>15, <1>16, <1>17, <1>18 DEF Next, Engine,
               AlertThread, Dispatch, ShutDown, Continue

\* The alerts of the session and of the alert thread.
LEMMA AlertsNext == ASSUME One, [Next]_vars PROVE AlertsTyped'
  <1> USE HandlesBound DEF One, Typed, AlertsTyped, thread, CallerOnly, AlertOnly, ProcessOnly
  <1>1. CASE GetMetadata
    <2>1. tor.id # 0
      BY <1>1 DEF GetMetadata, NoTorrent, One, Typed, TorTyped, None
    <2>2. queue' \in Seq(Alerts)
      BY <1>1, <2>1, Alerted DEF GetMetadata, Post, One, Typed, AlertsTyped
    <2> QED BY <1>1, <2>2 DEF GetMetadata, EngineOnly, thread
  <1>2. CASE Check
    <2>1. tor.id # 0
      BY <1>2 DEF Check, NoTorrent, One, Typed, TorTyped, None
    <2>2. queue' \in Seq(Alerts)
      BY <1>2, <2>1, Alerted DEF Check, Post, One, Typed, AlertsTyped
    <2> QED BY <1>2, <2>2 DEF Check, EngineOnly, thread
  <1>3. CASE Download
    <2>1. tor.id # 0
      BY <1>3 DEF Download, NoTorrent, One, Typed, TorTyped, None
    <2>2. queue' \in Seq(Alerts)
      BY <1>3, <2>1, Alerted DEF Download, Post, One, Typed, AlertsTyped
    <2> QED BY <1>3, <2>2 DEF Download, EngineOnly, thread
  <1>4. CASE Moved
    <2>1. tor.id # 0
      BY <1>4 DEF Moved, NoTorrent, One, Typed, TorTyped, None
    <2>2. queue' \in Seq(Alerts)
      BY <1>4, <2>1, Alerted DEF Moved, Post, One, Typed, AlertsTyped
    <2> QED BY <1>4, <2>2 DEF Moved, EngineOnly, thread
  <1>5. CASE Erased
    <2>1. \A g \in erasing, kind \in {"deleted", "deleteFailed"} : Alert(kind, g) \in Alerts
      BY DEF One, Typed, TorTyped, Alert, NoAlert, Alerts
    <2>2. queue' \in Seq(Alerts)
      BY <1>5, <2>1 DEF Erased, Post, One, Typed, AlertsTyped
    <2> QED BY <1>5, <2>2 DEF Erased, EngineOnly, thread
  <1>6. CASE LookUp
    <2> DEFINE popped == IF batch = <<>> THEN queue ELSE batch
    <2> DEFINE a == Head(popped)
    <2>1. popped \in Seq(Alerts) /\ popped # <<>>
      BY <1>6 DEF LookUp
    <2>2. a \in Alerts /\ Tail(popped) \in Seq(Alerts)
      BY <2>1
    <2>3. (queue' = <<>> \/ queue' = queue) /\ batch' = Tail(popped)
      BY <1>6 DEF LookUp
    <2>4. PICK t, act, old : al' = [a |-> a, t |-> t, act |-> act, old |-> old]
                             /\ t \in {pendDel, None, TaskOf(a.g)}
                             /\ (act = None \/ (t # None /\ act = recheck[t]))
                             /\ (old = NoRow \/ (t # None /\ old = row[t]))
      BY <1>6, Zenon DEF LookUp
    <2>5. t \in Tasks \cup {None}
      BY <2>4 DEF TaskOf, MemoryTyped
    <2>6. act \in {None, "pause", "resume"} /\ old \in Rows
      <3>1. NoRow \in Rows
        BY DEF NoRow, Rows
      <3>2. \A u \in Tasks : row[u] \in Rows /\ recheck[u] \in {None, "pause", "resume"}
        BY DEF MemoryTyped, RowsTyped
      <3> QED BY <2>4, <2>5, <3>1, <3>2
    <2>7. al' \in Looked
      BY <2>2, <2>4, <2>5, <2>6 DEF Looked
    <2>8. queue' \in Seq(Alerts) /\ batch' \in Seq(Alerts)
      <3>1. queue \in Seq(Alerts) /\ <<>> \in Seq(Alerts)
        OBVIOUS
      <3> HIDE DEF popped, a, One, Typed, AlertsTyped
      <3> QED BY <2>2, <2>3, <3>1, Zenon
    <2> QED BY <2>7, <2>8
  <1>7. CASE DispatchChecked
    <2>1. queue' \in Seq(Alerts)
      BY <1>7, Requests, AskedAlerts DEF One, Typed, AlertsTyped
    <2>2. Done \/ Throw
      BY <1>7 DEF DispatchChecked
    <2>3. al' = AtRest /\ (batch' = batch \/ batch' = <<>>)
      BY <2>2 DEF Done, Throw
    <2> QED BY <2>1, <2>3, Dispatched
  <1>8. CASE DispatchFinished
    <2>1. queue' \in Seq(Alerts)
      BY <1>8, Requests, AskedAlerts DEF One, Typed, AlertsTyped
    <2>2. Done \/ Throw
      BY <1>8 DEF DispatchFinished
    <2>3. al' = AtRest /\ (batch' = batch \/ batch' = <<>>)
      BY <2>2 DEF Done, Throw
    <2> QED BY <2>1, <2>3, Dispatched
  <1>9. CASE DispatchMoved
    <2>1. queue' \in Seq(Alerts)
      BY <1>9, Requests, AskedAlerts DEF One, Typed, AlertsTyped
    <2>2. Done \/ Throw
      BY <1>9 DEF DispatchMoved
    <2>3. al' = AtRest /\ (batch' = batch \/ batch' = <<>>)
      BY <2>2 DEF Done, Throw
    <2> QED BY <2>1, <2>3, Dispatched
  <1>10. CASE DispatchDeleted
    <2>1. queue' = queue /\ Done
      BY <1>10 DEF DispatchDeleted, engine
    <2> QED BY <2>1, AtRestLooked DEF Done
  <1>11. CASE DispatchMetadata
    <2>1. queue' = queue /\ Done
      BY <1>11 DEF DispatchMetadata, engine
    <2> QED BY <2>1, AtRestLooked DEF Done
  <1>12. CASE DispatchSaved
    <2>1. queue' = queue /\ Done
      BY <1>12 DEF DispatchSaved, engine
    <2> QED BY <2>1, AtRestLooked DEF Done
  <1>13. CASE Checkpoint
    <2>1. queue' \in Seq(Alerts)
      BY <1>13, Requests, AskedAlerts DEF One, Typed, AlertsTyped
    <2> QED BY <1>13, <2>1 DEF Checkpoint
  <1>14. CASE SaveAllResumeData
    <2>1. queue' \in Seq(Alerts)
      BY <1>14, Requests, AskedAlerts DEF One, Typed, AlertsTyped
    <2> QED BY <1>14, <2>1 DEF SaveAllResumeData
  <1>15. CASE StopWait
    BY <1>15 DEF StopWait
  <1>16. CASE StopSession
    <2>1. queue' = <<>> /\ batch' = <<>> /\ al' = AtRest
      BY <1>16 DEF StopSession, Launch, Forget
    <2> QED BY <2>1, AtRestLooked
  <1>17. CASE Restart
    <2>1. queue' = <<>> /\ batch' = <<>> /\ al' = AtRest
      BY <1>17 DEF Restart, Launch, Forget
    <2> QED BY <2>1, AtRestLooked
  <1>18. CASE Crash
    <2>1. queue' = <<>> /\ batch' = <<>> /\ al' = AtRest
      BY <1>18 DEF Crash, Launch, Forget
    <2> QED BY <2>1, AtRestLooked
  <1>19. ASSUME NEW c \in Callers, MapAdded(c) PROVE AlertsTyped'
    <2>1. queue' \in Seq(Alerts)
      BY <1>19, Requests, AskedAlerts DEF One, Typed, AlertsTyped
    <2> QED BY <1>19, <2>1 DEF MapAdded
  <1>20. ASSUME NEW c \in Callers, MapRestored(c) PROVE AlertsTyped'
    <2>1. queue' \in Seq(Alerts)
      BY <1>20, Requests, AskedAlerts DEF One, Typed, AlertsTyped
    <2> QED BY <1>20, <2>1 DEF MapRestored
  <1>21. ASSUME NEW c \in Callers, Pause(c) PROVE AlertsTyped'
    <2>1. queue' \in Seq(Alerts)
      BY <1>21, Requests, AskedAlerts DEF One, Typed, AlertsTyped
    <2> QED BY <1>21, <2>1 DEF Pause
  <1>22. ASSUME NEW c \in Callers, Resume(c) PROVE AlertsTyped'
    <2>1. queue' \in Seq(Alerts)
      BY <1>22, Requests, AskedAlerts DEF One, Typed, AlertsTyped
    <2> QED BY <1>22, <2>1 DEF Resume
  <1>23. ASSUME UNCHANGED <<queue, batch, al>> PROVE AlertsTyped'
    BY <1>23 DEF One, Typed, AlertsTyped
  <1>24. ASSUME NEW c \in Callers, Begin(c) \/ Stop(c) \/ Add(c) \/ Restore(c) \/ ForceRecheck(c) \/ StopSave(c)
            \/ StopErase(c) \/ Remove(c) \/ DropRow(c)
        PROVE  UNCHANGED <<queue, batch, al>>
    BY <1>24 DEF Begin, Stop, Add, Restore, ForceRecheck, StopSave, StopErase, Remove, DropRow,
        entry, engine, memory, thread, process, EngineOnly, CallerOnly, AlertOnly, ProcessOnly,
        Done, Throw, Goto, Return, GiveUp, Start, Fail, Forget, Launch, Enter, Post
  <1>25. CASE UNCHANGED vars
    BY <1>25 DEF vars, engine, memory, thread, process, history, entry, One, Typed, AlertsTyped
  <1> QED BY <1>1, <1>2, <1>3, <1>4, <1>5, <1>6, <1>7, <1>8, <1>9, <1>10, <1>11, <1>12, <1>13,
             <1>14, <1>15, <1>16, <1>17, <1>18, <1>19, <1>20, <1>21, <1>22, <1>23, <1>24, <1>25 DEF Next, Engine,
               AlertThread, Dispatch, ShutDown, Continue

\* Only a removal, the window and the alert of deleted files take a row away.
Keeping ==
  \/ Engine \/ LookUp \/ DispatchChecked \/ DispatchFinished \/ DispatchMoved
  \/ DispatchMetadata \/ DispatchSaved \/ Checkpoint \/ ShutDown \/ UNCHANGED vars
  \/ \E c \in Callers :
       \/ Begin(c) \/ Stop(c) \/ Add(c) \/ MapAdded(c) \/ Restore(c) \/ MapRestored(c)
       \/ Pause(c) \/ Resume(c) \/ ForceRecheck(c) \/ StopSave(c) \/ StopErase(c)

\* The steps that keep rows keep every one.
LEMMA RowsStay == ASSUME One, Keeping PROVE RowsTyped' /\ Stays(row')
  <1> DEFINE Good == RowsTyped' /\ Stays(row')
  <1>1. RowsTyped /\ \A t \in Tasks : row[t] \in Rows
    BY DEF One, Typed, RowsTyped
  <1>2. al.t \in Tasks \cup {None} /\ al.old \in Rows /\ al.act \in {None, "pause", "resume"}
    BY DEF One, Typed, AlertsTyped, Looked
  <1>3. NoRow \in Rows /\ ~NoRow.here
    BY DEF NoRow, Rows
  <1>4. \A c \in Callers : job[c].pc \notin {"idle", "add"} => job[c].t \in Tasks
    BY DEF One, Typed, JobsTyped
  <1>5. ASSUME row' = row PROVE Good
    BY <1>1, <1>5 DEF RowsTyped, Stays
  <1>6. CASE DispatchChecked
    <2>1. row' = row \/ SetStatus(al.t, 1) \/ SetStatus(al.t, 2)
      BY <1>6 DEF DispatchChecked
    <2> QED BY <1>1, <1>2, <1>5, <2>1, StatusSet
  <1>7. ASSUME DispatchFinished PROVE Good
    <2>1. \A keep \in Choices(al.t) : keep \in BOOLEAN
      BY TorrentBounds DEF Choices
    <2>2. \/ row' = row
          \/ SetStatus(al.t, 2)
          \/ al.t # None /\ \E keep \in BOOLEAN : Write(al.t, Completed(row[al.t], keep))
          \/ al.t # None /\ \E keep \in BOOLEAN :
               Write(al.t, [row[al.t] EXCEPT !.act = Completed(row[al.t], keep).act])
      BY <1>7, <2>1, Zenon DEF DispatchFinished
    <2>3. ASSUME NEW keep \in BOOLEAN, al.t # None, Write(al.t, Completed(row[al.t], keep)) PROVE Good
      <3>1. Completed(row[al.t], keep) \in Rows /\ Completed(row[al.t], keep).here = row[al.t].here
        BY <1>1, <1>2, <2>3, RowUpdated
      <3> QED BY <1>1, <1>2, <2>3, <3>1, Wrote DEF Write
    <2>4. ASSUME NEW keep \in BOOLEAN, al.t # None,
                 Write(al.t, [row[al.t] EXCEPT !.act = Completed(row[al.t], keep).act])
          PROVE  Good
      <3>1. Completed(row[al.t], keep).act \in {"ask", "seed", "stop"}
        BY <1>1, <1>2, <2>4 DEF Completed, Rows
      <3>2. row[al.t] \in Rows
        BY <1>1, <1>2, <2>4
      <3>3. [row[al.t] EXCEPT !.act = Completed(row[al.t], keep).act] \in Rows
        BY <3>1, <3>2, RowUpdated, Zenon
      <3>4. [row[al.t] EXCEPT !.act = Completed(row[al.t], keep).act].here = row[al.t].here
        BY <3>1, <3>2, RowUpdated, Zenon
      <3> QED BY <1>1, <1>2, <2>4, <3>3, <3>4, Wrote DEF Write
    <2>5. SetStatus(al.t, 2) => Good
      BY <1>1, <1>2, StatusSet
    <2> HIDE DEF Good
    <2> QED BY <1>5, <2>2, <2>3, <2>4, <2>5
  <1>8. CASE DispatchMetadata
    <2>1. [al.old EXCEPT !.source = TRUE] \in Rows
      BY <1>2, RowUpdated, Zenon
    <2> QED BY <1>1, <1>2, <1>8, <2>1, WroteBack DEF DispatchMetadata
  <1>9. CASE DispatchSaved
    <2>1. \/ row' = row
          \/ al.t # None /\ \E x \in {"part", "full"} : row' = [row EXCEPT ![al.t].resume = x]
      BY <1>9 DEF DispatchSaved
    <2>2. ASSUME NEW x \in {"part", "full"}, al.t # None, row' = [row EXCEPT ![al.t].resume = x]
          PROVE  Good
      <3>1. [row[al.t] EXCEPT !.resume = x] \in Rows /\ [row[al.t] EXCEPT !.resume = x].here = row[al.t].here
        BY <1>1, <1>2, <2>2, RowUpdated
      <3> QED BY <1>1, <1>2, <2>2, <3>1, Wrote
    <2> QED BY <1>5, <2>1, <2>2
  <1>10. ASSUME NEW c \in Callers, Stop(c) \/ Pause(c) \/ Resume(c) PROVE Good
    <2>1. \/ row' = row
          \/ \E t \in Tasks : SetStatus(t, 1) \/ SetStatus(t, 2)
      BY <1>4, <1>10 DEF Stop, Pause, Resume
    <2> QED BY <1>1, <1>5, <2>1, StatusSet
  <1>11. ASSUME NEW c \in Callers, Add(c) PROVE Good
    <2>1. \/ row' = row
          \/ \E t \in Tasks, s \in {1, 2}, m \in BOOLEAN :
               /\ row[t] = NoRow
               /\ row' = [row EXCEPT ![t] = [NoRow EXCEPT !.here = TRUE, !.status = s, !.source = m]]
      BY <1>11 DEF Add, Write
    <2>2. \A s \in {1, 2}, m \in BOOLEAN :
             [NoRow EXCEPT !.here = TRUE, !.status = s, !.source = m] \in Rows
      <3>1. \A s \in 1..4, m \in BOOLEAN :
               [NoRow EXCEPT !.here = TRUE, !.status = s, !.source = m] \in Rows
        BY DEF NoRow, Rows
      <3>2. 1 \in 1..4 /\ 2 \in 1..4
        OBVIOUS
      <3> QED BY <3>1, <3>2, Zenon
    <2>3. ASSUME NEW t \in Tasks, NEW r \in Rows, row[t] = NoRow, row' = [row EXCEPT ![t] = r]
          PROVE  Good
      BY <1>1, <1>3, <2>3 DEF RowsTyped, Stays
    <2> HIDE DEF Good
    <2> QED BY <1>5, <2>1, <2>2, <2>3, Zenon
  <1>12. ASSUME NEW c \in Callers, MapAdded(c) PROVE Good
    <2>1. job[c].t \in Tasks /\ Write(job[c].t, [row[job[c].t] EXCEPT !.source = TRUE])
      BY <1>4, <1>12 DEF MapAdded
    <2>2. /\ [row[job[c].t] EXCEPT !.source = TRUE] \in Rows
          /\ [row[job[c].t] EXCEPT !.source = TRUE].here = row[job[c].t].here
      BY <1>1, <2>1, RowUpdated
    <2> QED BY <1>1, <2>1, <2>2, Wrote DEF Write
  <1>13. ASSUME NEW c \in Callers, StopSave(c) PROVE Good
    <2> DEFINE t == job[c].t
    <2>1. t \in Tasks
      BY <1>4, <1>13 DEF StopSave
    <2>2. \/ SetStatus(t, 2)
          \/ ~row[t].here /\ Write(t, NoRow)
          \/ \E x \in {"part", "full"} : Write(t, [row[t] EXCEPT !.resume = x, !.status = 2])
      BY <1>13 DEF StopSave
    <2>3. ASSUME NEW x \in {"part", "full"}, Write(t, [row[t] EXCEPT !.resume = x, !.status = 2])
          PROVE  Good
      <3>1. /\ [row[t] EXCEPT !.resume = x, !.status = 2] \in Rows
            /\ [row[t] EXCEPT !.resume = x, !.status = 2].here = row[t].here
        BY <1>1, <2>1, RowUpdated
      <3> QED BY <1>1, <2>1, <2>3, <3>1, Wrote DEF Write
    <2>4. ASSUME ~row[t].here, Write(t, NoRow) PROVE Good
      BY <1>1, <1>3, <2>1, <2>4 DEF Write, RowsTyped, Stays
    <2> QED BY <1>1, <2>1, <2>2, <2>3, <2>4, StatusSet
  <1>14. ASSUME \/ Engine \/ LookUp \/ DispatchMoved \/ Checkpoint \/ ShutDown
                \/ \E c \in Callers : Begin(c) \/ Restore(c) \/ MapRestored(c) \/ ForceRecheck(c)
                                      \/ StopErase(c)
                \/ UNCHANGED vars
         PROVE  row' = row
    BY <1>14 DEF Engine, GetMetadata, Check, Download, Moved, Erased, EngineOnly, LookUp, DispatchMoved,
       Checkpoint, ShutDown, SaveAllResumeData, StopWait, StopSession, Restart, Crash, ProcessOnly,
       Launch, Begin, Restore, MapRestored, ForceRecheck, StopErase, vars
  <1> QED BY <1>5, <1>6, <1>7, <1>8, <1>9, <1>10, <1>11, <1>12, <1>13, <1>14 DEF Keeping

\* Every step keeps rows typed.
LEMMA RowsNext == ASSUME One, [Next]_vars PROVE RowsTyped'
  <1>1. RowsTyped /\ \A t \in Tasks : row[t] \in Rows
    BY DEF One, Typed, RowsTyped
  <1>2. al.t \in Tasks \cup {None} /\ al.old \in Rows
    BY DEF One, Typed, AlertsTyped, Looked
  <1>3. NoRow \in Rows
    BY DEF NoRow, Rows
  <1>6. \A c \in Callers : job[c].pc \notin {"idle", "add"} => job[c].t \in Tasks
    BY DEF One, Typed, JobsTyped
  <1>4. ASSUME DispatchDeleted PROVE RowsTyped'
    <2>1. \/ row' = row
          \/ al.t # None /\ row' = [row EXCEPT ![al.t] = NoRow]
          \/ WriteBack(al.t, [al.old EXCEPT !.status = 4])
      BY <1>4 DEF DispatchDeleted
    <2>2. [al.old EXCEPT !.status = 4] \in Rows
      <3>1. 4 \in 1..4
        OBVIOUS
      <3> QED BY <1>2, <3>1, RowUpdated, Zenon
    <2> QED BY <1>1, <1>2, <1>3, <2>1, <2>2, Wrote, WroteBack DEF RowsTyped
  <1>5. ASSUME NEW c \in Callers, Remove(c) \/ DropRow(c) PROVE RowsTyped'
    <2>1. row' = row \/ (job[c].t \in Tasks /\ row' = [row EXCEPT ![job[c].t] = NoRow])
      BY <1>6, <1>5 DEF Remove, DropRow
    <2> QED BY <1>1, <1>3, <2>1, Wrote DEF RowsTyped
  <1> QED BY <1>4, <1>5, RowsStay DEF Keeping, Next, AlertThread, Dispatch, Continue

\* Every step keeps the types.
LEMMA TypedNext == ASSUME One, [Next]_vars PROVE Typed'
  BY RowsNext, TorNext, MemoryNext, AlertsNext, JobsNext DEF Typed

-----------------------------------------------------------------------------
(* The map and the session. *)

\* libtorrent, the alert thread and the checkpoint leave the map, the commands and
\* the handle in the session alone.
LEMMA SameHandle ==
  ASSUME One, \/ Engine \/ LookUp \/ Dispatch \/ Checkpoint \/ SaveAllResumeData \/ StopWait
              \/ UNCHANGED vars
  PROVE  tor'.id = tor.id /\ UNCHANGED <<map, job>>
  <1> USE DEF One, Typed, TorTyped, Torrents
  <1>1. CASE Engine
    BY <1>1 DEF Engine, GetMetadata, Check, Download, Moved, Erased, EngineOnly, memory
  <1>2. CASE LookUp
    BY <1>2 DEF LookUp, AlertOnly
  <1>3. CASE DispatchChecked
    BY <1>3 DEF DispatchChecked, RequestIfAlive, Request, AlertOnly
  <1>4. CASE DispatchFinished
    BY <1>4 DEF DispatchFinished, Request, AlertOnly
  <1>5. CASE DispatchMoved
    BY <1>5 DEF DispatchMoved, RequestIfAlive, Request, AlertOnly
  <1>6. CASE DispatchDeleted
    BY <1>6 DEF DispatchDeleted, engine, memory
  <1>7. CASE DispatchMetadata \/ DispatchSaved
    BY <1>7 DEF DispatchMetadata, DispatchSaved, AlertOnly, engine, memory
  <1>8. CASE Checkpoint
    BY <1>8 DEF Checkpoint, Request, AlertOnly
  <1>9. CASE SaveAllResumeData
    BY <1>9 DEF SaveAllResumeData, Request, ProcessOnly
  <1>10. CASE StopWait
    BY <1>10 DEF StopWait, ProcessOnly, memory
  <1>11. CASE UNCHANGED vars
    BY <1>11 DEF vars, engine, memory
  <1> QED BY <1>1, <1>2, <1>3, <1>4, <1>5, <1>6, <1>7, <1>8, <1>9, <1>10, <1>11 DEF Dispatch

\* A command's first and last steps, and those between that neither enter nor stop a
\* torrent.
LEMMA Bystander ==
  ASSUME One, NEW c \in Callers,
         Begin(c) \/ Pause(c) \/ Resume(c) \/ ForceRecheck(c) \/ DropRow(c)
  PROVE  /\ tor'.id = tor.id /\ map' = map
         /\ job'[c].pc \notin {"mapAdded", "mapRestored", "stopSave", "stopErase"}
         /\ job[c].pc \notin {"mapAdded", "mapRestored", "stopSave", "stopErase"}
         /\ \A d \in Callers \ {c} : job'[d] = job[d]
  <1> USE DEF One, Typed, TorTyped, Torrents, JobsTyped, Jobs, Idle, Return
  <1>1. CASE Begin(c)
    <2>1. UNCHANGED <<tor, map>> /\ job[c].pc = "idle"
      BY <1>1 DEF Begin, engine, memory
    <2>2. PICK pc \in {"add", "pause", "resume", "recheck", "restore", "remove"} :
            \E op, t, g : Start(c, op, pc, t, g)
      BY <1>1, Begun
    <2> QED BY <2>1, <2>2 DEF Start
  <1>2. CASE Pause(c)
    BY <1>2 DEF Pause, Request
  <1>3. CASE Resume(c)
    BY <1>3 DEF Resume, Request
  <1>4. CASE ForceRecheck(c)
    BY <1>4 DEF ForceRecheck
  <1>5. CASE DropRow(c)
    BY <1>5 DEF DropRow, engine, memory
  <1> QED BY <1>1, <1>2, <1>3, <1>4, <1>5

\* A torrent enters while the map is empty.
LEMMA EnteredFresh ==
  ASSUME One, ~Locked, tor = NoTorrent, NEW run, NEW at, NEW full, Enter(run, at, full)
  PROVE  tor'.id # 0 /\ \A t \in Tasks : map[t] = 0
  <1>1. tor'.id = handles + 1 /\ handles \in Nat
    BY HandlesBound DEF One, Typed, TorTyped, Enter, NoTorrent
  <1>2. \A t \in Tasks : map[t] = 0
    BY DEF One, Agreed, Entering, Locked, NoTorrent
  <1> QED BY <1>1, <1>2

\* The mutex is held by one command, the session holds what it entered, and what it
\* stops is mapped.
LEMMA ExclusiveNext == ASSUME One, [Next]_vars PROVE Exclusive'
  <1> USE DEF One, Typed, Exclusive, Entering, Stopping, JobsTyped, Jobs
  <1>1. CASE tor'.id = tor.id /\ UNCHANGED <<map, job>>
    BY <1>1
  <1>2. CASE StopSession
    BY <1>2 DEF StopSession, Idle
  <1>3. CASE Restart \/ Crash
    BY <1>3 DEF Restart, Crash, Launch, Idle
  <1>4. ASSUME NEW c \in Callers,
               Begin(c) \/ Pause(c) \/ Resume(c) \/ ForceRecheck(c) \/ DropRow(c)
        PROVE  Exclusive'
    BY <1>4, Bystander
  <1>5. ASSUME NEW c \in Callers, Stop(c) PROVE Exclusive'
    BY <1>5 DEF Stop, Start, Locked, Mapped, memory
  <1>6. ASSUME NEW c \in Callers, Add(c) PROVE Exclusive'
    <2>1. CASE Return(c) /\ UNCHANGED <<tor, map>>
      BY <1>6, <2>1 DEF Add, Return, Idle
    <2>2. ASSUME NEW run, NEW at, NEW full, Enter(run, at, full), tor = NoTorrent,
                 NEW t \in Tasks, job' = [job EXCEPT ![c].pc = "mapAdded", ![c].t = t]
          PROVE  Exclusive'
      <3>1. /\ ~Locked /\ tor'.id # 0 /\ map' = map
            /\ \A u \in Tasks : map[u] = 0
        BY <1>6, <2>2, EnteredFresh DEF Add, memory
      <3>2. \A d \in Callers : d # c => job'[d] = job[d]
        BY <2>2
      <3>3. job'[c].pc = "mapAdded"
        BY <2>2
      <3>4. \A d \in Callers : d # c => ~Entering(d)' /\ ~Stopping(d)'
        BY <3>1, <3>2 DEF Locked
      <3> QED BY <3>1, <3>3, <3>4
    <2> QED BY <1>6, <2>1, <2>2 DEF Add, memory
  <1>7. ASSUME NEW c \in Callers, MapAdded(c) PROVE Exclusive'
    BY <1>7 DEF MapAdded, Return, Idle
  <1>8. ASSUME NEW c \in Callers, Restore(c) PROVE Exclusive'
    <2>1. ASSUME job'[c].pc \notin {"mapAdded", "mapRestored", "stopSave", "stopErase"},
                 \A d \in Callers : d # c => job'[d] = job[d], UNCHANGED <<tor, map>>
          PROVE  Exclusive'
      BY <1>8, <2>1 DEF Restore, Locked
    <2>2. ASSUME NEW run, NEW at, NEW full, Enter(run, at, full), tor = NoTorrent,
                 Goto(c, "mapRestored")
          PROVE  Exclusive'
      <3>1. /\ ~Locked /\ tor'.id # 0 /\ map' = map
            /\ \A u \in Tasks : map[u] = 0
        BY <1>8, <2>2, EnteredFresh DEF Restore, memory
      <3>2. \A d \in Callers : d # c => job'[d] = job[d]
        BY <2>2 DEF Goto
      <3>3. job'[c].pc = "mapRestored"
        BY <2>2 DEF Goto
      <3>4. \A d \in Callers : d # c => ~Entering(d)' /\ ~Stopping(d)'
        BY <3>1, <3>2 DEF Locked
      <3> QED BY <3>1, <3>3, <3>4
    <2>3. Step(job[c].op) \in {"resume", "recheck", "remove"}
      BY <1>8 DEF Restore, Step, Removal, Files, CommandNames
    <2>4. ASSUME Goto(c, Step(job[c].op)) \/ GiveUp(c), UNCHANGED <<tor, map>> PROVE Exclusive'
      BY <2>1, <2>3, <2>4 DEF GiveUp, Goto, Return, Idle
    <2> QED BY <1>8, <2>2, <2>4 DEF Restore, memory
  <1>9. ASSUME NEW c \in Callers, MapRestored(c) PROVE Exclusive'
    <2>1. Step(job[c].op) \in {"resume", "recheck", "remove"}
      BY <1>9 DEF MapRestored, Step, Removal, Files, CommandNames
    <2>2. job'[c].pc \notin {"mapAdded", "mapRestored", "stopSave", "stopErase"}
      BY <1>9, <2>1 DEF MapRestored, GiveUp, Goto, Return, Idle
    <2>3. \A d \in Callers : d # c => job'[d] = job[d]
      BY <1>9 DEF MapRestored, GiveUp, Goto, Return
    <2>4. \A d \in Callers : d # c => ~Entering(d) /\ ~Stopping(d)
      BY <1>9 DEF MapRestored
    <2> QED BY <2>2, <2>3, <2>4
  <1>10. ASSUME NEW c \in Callers, StopSave(c) PROVE Exclusive'
    BY <1>10 DEF StopSave, Return, Goto, Idle, memory, engine
  <1>11. ASSUME NEW c \in Callers, StopErase(c) PROVE Exclusive'
    BY <1>11 DEF StopErase, Return, Idle
  <1>12. ASSUME NEW c \in Callers, Remove(c) PROVE Exclusive'
    BY <1>12 DEF Remove, GiveUp, Goto, Return, Idle, Locked
  <1> QED BY <1>1, <1>2, <1>3, <1>4, <1>5, <1>6, <1>7, <1>8, <1>9, <1>10, <1>11, <1>12, SameHandle
          DEF Next, AlertThread, ShutDown, Continue

\* Entering a task in the map agrees with the session.
LEMMA Mapping ==
  ASSUME One, NEW c \in Callers, Entering(c), tor'.id = tor.id, job[c].t \in Tasks,
         map' = [map EXCEPT ![job[c].t] = tor.id]
  PROVE  Agreed'
  BY DEF One, Typed, MemoryTyped, Exclusive, Agreed

\* Adds, restores, stops and removals leave the map in agreement with the session.
LEMMA AgreedNext == ASSUME One, [Next]_vars PROVE Agreed'
  <1> USE DEF One, Typed, Agreed, Exclusive, Entering, Stopping, JobsTyped, Jobs, MemoryTyped
  <1>1. CASE tor'.id = tor.id /\ UNCHANGED <<map, job>>
    BY <1>1
  <1>2. CASE StopSession
    BY <1>2 DEF StopSession, Forget, NoTorrent
  <1>3. CASE Restart \/ Crash
    BY <1>3 DEF Restart, Crash, Launch, Forget, NoTorrent
  <1>4. ASSUME NEW c \in Callers,
               Begin(c) \/ Pause(c) \/ Resume(c) \/ ForceRecheck(c) \/ DropRow(c)
        PROVE  Agreed'
    BY <1>4, Bystander
  <1>5. ASSUME NEW c \in Callers, Stop(c) PROVE Agreed'
    <2>1. tor'.id = tor.id /\ map' = map /\ ~Locked
      BY <1>5 DEF Stop, memory, TorTyped, Torrents
    <2> QED BY <2>1 DEF Locked
  <1>6. ASSUME NEW c \in Callers, Add(c) PROVE Agreed'
    <2>1. map' = map /\ ~Locked
      BY <1>6 DEF Add, memory
    <2>2. tor' = tor \/ \E t \in Tasks : job' = [job EXCEPT ![c].pc = "mapAdded", ![c].t = t]
      BY <1>6, Zenon DEF Add
    <2>3. tor' = tor \/ job'[c].pc = "mapAdded"
      BY <2>2
    <2> QED BY <2>1, <2>3 DEF Locked
  <1>7. ASSUME NEW c \in Callers, MapAdded(c) PROVE Agreed'
    <2>1. tor'.id = tor.id
      BY <1>7 DEF MapAdded, Request, TorTyped, Torrents
    <2>2. job[c].t \in Tasks /\ map' = [map EXCEPT ![job[c].t] = tor.id]
      BY <1>7 DEF MapAdded
    <2> QED BY <1>7, <2>1, <2>2, Mapping DEF MapAdded
  <1>8. ASSUME NEW c \in Callers, Restore(c) PROVE Agreed'
    <2>1. map' = map /\ ~Locked
      BY <1>8 DEF Restore, memory
    <2>2. tor' = tor \/ job'[c].pc = "mapRestored"
      BY <1>8 DEF Restore, Goto
    <2> QED BY <2>1, <2>2 DEF Locked
  <1>9. ASSUME NEW c \in Callers, MapRestored(c) PROVE Agreed'
    <2>1. tor'.id = tor.id
      BY <1>9 DEF MapRestored, Request, TorTyped, Torrents
    <2>2. job[c].t \in Tasks /\ map' = [map EXCEPT ![job[c].t] = tor.id]
      BY <1>9 DEF MapRestored
    <2> QED BY <1>9, <2>1, <2>2, Mapping DEF MapRestored
  <1>10. ASSUME NEW c \in Callers, StopSave(c) PROVE Agreed'
    BY <1>10 DEF StopSave, memory, engine
  <1>11. ASSUME NEW c \in Callers, StopErase(c) PROVE Agreed'
    BY <1>11 DEF StopErase, EraseRuntimeState, NoTorrent
  <1>12. ASSUME NEW c \in Callers, Remove(c) PROVE Agreed'
    BY <1>12 DEF Remove, EraseRuntimeState, NoTorrent, Locked, Mapped
  <1> QED BY <1>1, <1>2, <1>3, <1>4, <1>5, <1>6, <1>7, <1>8, <1>9, <1>10, <1>11, <1>12, SameHandle
          DEF Next, AlertThread, ShutDown, Continue

\* Every step keeps the removals typed.
LEMMA RemovalsNext == ASSUME One, RemovalsTyped, [Next]_vars PROVE RemovalsTyped'
  <1> USE DEF One, Typed, JobsTyped, RemovalsTyped
  <1>1. ASSUME NEW c \in Callers, Add(c) \/ Remove(c) \/ DropRow(c) PROVE RemovalsTyped'
    BY <1>1 DEF Add, Remove, DropRow
  <1>2. CASE DispatchDeleted
    BY <1>2 DEF DispatchDeleted, AlertsTyped, Looked
  <1>3. ASSUME UNCHANGED asked PROVE RemovalsTyped'
    BY <1>3
  <1>4. ASSUME \/ Engine \/ LookUp \/ DispatchChecked \/ DispatchFinished \/ DispatchMoved
               \/ DispatchMetadata \/ DispatchSaved \/ Checkpoint \/ ShutDown \/ UNCHANGED vars
        PROVE  UNCHANGED asked
    BY <1>4 DEF Engine, GetMetadata, Check, Download, Moved, Erased, EngineOnly, history, LookUp,
       AlertOnly, DispatchChecked, DispatchFinished, DispatchMoved, DispatchMetadata, DispatchSaved,
       Checkpoint, ShutDown, SaveAllResumeData, StopWait, StopSession, Restart, Crash, Launch,
       ProcessOnly, vars
  <1>5. ASSUME NEW c \in Callers,
               \/ Begin(c) \/ Stop(c) \/ MapAdded(c) \/ Restore(c) \/ MapRestored(c) \/ Pause(c)
               \/ Resume(c) \/ ForceRecheck(c) \/ StopSave(c) \/ StopErase(c)
        PROVE  UNCHANGED asked
    BY <1>5 DEF Begin, Stop, MapAdded, Restore, MapRestored, Pause, Resume, ForceRecheck, StopSave,
       StopErase
  <1> QED BY <1>1, <1>2, <1>3, <1>4, <1>5 DEF Next, AlertThread, Dispatch, Continue

\* A row inserted is there, and no other changes.
LEMMA NewRow ==
  ASSUME RowsTyped, NEW t \in Tasks, NEW s, NEW m,
         row' = [row EXCEPT ![t] = [NoRow EXCEPT !.here = TRUE, !.status = s, !.source = m]]
  PROVE  row'[t].here /\ \A u \in Tasks : u # t => row'[u] = row[u]
  BY DEF RowsTyped, NoRow

\* What is mapped has a row, and what enters the session does: the rows that go are of
\* tasks that no thread has or is about to map.
LEMMA RowsKeptNext == ASSUME One, RemovalsTyped, RowsKept, [Next]_vars PROVE RowsKept'
  <1> USE DEF RemovalsTyped, One, Typed, RowsKept, MappedHasRow, Exclusive, Agreed, Entering,
          JobsTyped, Jobs
  <1>1. ASSUME Stays(row'), UNCHANGED <<map, job, asked>> PROVE RowsKept'
    BY <1>1 DEF Stays
  <1>2. ASSUME NEW c \in Callers, Stays(row'), map' = map, asked' = asked, ~Entering(c)',
               \A d \in Callers : d # c => job'[d] = job[d]
        PROVE  RowsKept'
    BY <1>2 DEF Stays
  <1>3. CASE StopSession \/ Restart \/ Crash
    <2>1. UNCHANGED <<row, asked>> /\ map' = [t \in Tasks |-> 0]
      BY <1>3 DEF StopSession, Restart, Crash, Launch, Forget
    <2>2. \A c \in Callers : ~Entering(c)'
      BY <1>3 DEF StopSession, Restart, Crash, Launch, Idle
    <2> QED BY <2>1, <2>2
  <1>4. CASE DispatchDeleted
    <2>1. al.t \in Tasks \cup {None} /\ UNCHANGED <<map, job>>
      BY <1>4 DEF AlertsTyped, Looked, DispatchDeleted, memory
    <2>2. [al.old EXCEPT !.status = 4] \in Rows
      <3>1. 4 \in 1..4 /\ al.old \in Rows
        BY DEF AlertsTyped, Looked
      <3> QED BY <3>1, RowUpdated, Zenon
    <2>3. CASE /\ row' = IF al.t = None THEN row ELSE [row EXCEPT ![al.t] = NoRow]
               /\ asked' = IF al.t = None THEN asked ELSE [asked EXCEPT ![al.t] = "files"]
      BY <2>1, <2>3 DEF RowsTyped
    <2>4. ASSUME WriteBack(al.t, [al.old EXCEPT !.status = 4]), asked' = asked PROVE RowsKept'
      BY <1>1, <2>1, <2>2, <2>4, WroteBack
    <2>5. ASSUME UNCHANGED <<row, asked>> PROVE RowsKept'
      BY <2>1, <2>5
    <2> QED BY <1>4, <2>3, <2>4, <2>5 DEF DispatchDeleted
  <1>5. ASSUME NEW c \in Callers, Begin(c) \/ Pause(c) \/ Resume(c) \/ ForceRecheck(c) PROVE RowsKept'
    <2>1. asked' = asked
      BY <1>5 DEF Begin, Pause, Resume, ForceRecheck
    <2>2. ~Entering(c)'
      BY <1>5, Bystander
    <2> QED BY <1>2, <1>5, <2>1, <2>2, Bystander, RowsStay DEF Keeping
  <1>6. ASSUME NEW c \in Callers, Stop(c) PROVE RowsKept'
    <2>1. map' = map /\ asked' = asked /\ \A d \in Callers : d # c => job'[d] = job[d]
      BY <1>6 DEF Stop, Start, memory
    <2>2. ~Entering(c)'
      BY <1>6 DEF Stop, Start, Idle
    <2> QED BY <1>2, <1>6, <2>1, <2>2, RowsStay DEF Keeping
  <1>7. ASSUME NEW c \in Callers, StopSave(c) PROVE RowsKept'
    <2>1. map' = map /\ asked' = asked /\ \A d \in Callers : d # c => job'[d] = job[d]
      BY <1>7 DEF StopSave, Goto, Return, memory
    <2>2. ~Entering(c)'
      BY <1>7 DEF StopSave, Goto, Return, Idle
    <2> QED BY <1>2, <1>7, <2>1, <2>2, RowsStay DEF Keeping
  <1>8. ASSUME NEW c \in Callers, Add(c) PROVE RowsKept'
    <2>1. CASE Return(c) /\ UNCHANGED <<row, asked>>
      BY <1>8, <2>1 DEF Add, Return, Idle, memory
    <2>2. ASSUME NEW t \in Tasks, row'[t].here, \A u \in Tasks : u # t => row'[u] = row[u],
                 asked' = [asked EXCEPT ![t] = "kept"],
                 job' = [job EXCEPT ![c].pc = "mapAdded", ![c].t = t],
                 \E run, at, full : Enter(run, at, full), tor = NoTorrent
          PROVE  RowsKept'
      <3>1. map' = map /\ ~Locked /\ \A u \in Tasks : map[u] = 0
        BY <1>8, <2>2, EnteredFresh DEF Add, memory
      <3>2. job'[c].t = t /\ \A d \in Callers : d # c => ~Entering(d)'
        BY <2>2, <3>1 DEF Locked
      <3> QED BY <2>2, <3>1, <3>2
    <2>3. ASSUME NEW magnet \in BOOLEAN, NEW start \in AutoStart, NEW t \in Tasks, tor = NoTorrent,
                 Enter(FALSE, IF magnet THEN "meta" ELSE "loading", FALSE),
                 Write(t, [NoRow EXCEPT !.here = TRUE, !.status = IF start THEN 1 ELSE 2,
                                        !.source = magnet]),
                 job' = [job EXCEPT ![c].pc = "mapAdded", ![c].t = t],
                 asked' = [asked EXCEPT ![t] = "kept"]
          PROVE  RowsKept'
      <3>1. row'[t].here /\ \A u \in Tasks : u # t => row'[u] = row[u]
        BY <2>3, NewRow, Zenon DEF Write
      <3> HIDE DEF RowsKept
      <3>2. \E run, at, full : Enter(run, at, full)
        BY <2>3, Zenon
      <3> QED BY <2>2, <2>3, <3>1, <3>2
    <2> HIDE DEF RowsKept, One, Typed, MappedHasRow, Exclusive, Agreed, JobsTyped
    <2> QED BY <1>8, <2>1, <2>3 DEF Add
  <1>9. ASSUME NEW c \in Callers, MapAdded(c) PROVE RowsKept'
    <2>1. Stays(row') /\ asked' = asked /\ \A d \in Callers : d # c => job'[d] = job[d]
      BY <1>9, RowsStay DEF Keeping, MapAdded, Return
    <2>2. ~Entering(c)' /\ job[c].t \in Tasks /\ map' = [map EXCEPT ![job[c].t] = tor.id]
      BY <1>9 DEF MapAdded, Return, Idle
    <2> QED BY <1>9, <2>1, <2>2 DEF Stays, MapAdded
  <1>10. ASSUME NEW c \in Callers, Restore(c) PROVE RowsKept'
    <2>1. UNCHANGED <<row, asked, map>> /\ \A d \in Callers : d # c => job'[d] = job[d]
      BY <1>10 DEF Restore, GiveUp, Goto, Return, memory
    <2>2. job'[c].pc = "mapRestored" => row[job[c].t].here /\ job'[c].t = job[c].t
      BY <1>10 DEF Restore, GiveUp, Goto, Return, Idle, Restorable, Step, Removal, Files, CommandNames
    <2>3. job'[c].pc # "mapAdded"
      BY <1>10 DEF Restore, GiveUp, Goto, Return, Idle, Step, Removal, Files, CommandNames
    <2> QED BY <2>1, <2>2, <2>3
  <1>11. ASSUME NEW c \in Callers, MapRestored(c) PROVE RowsKept'
    <2>1. UNCHANGED <<row, asked>> /\ \A d \in Callers : d # c => job'[d] = job[d]
      BY <1>11 DEF MapRestored, GiveUp, Goto, Return
    <2>2. ~Entering(c)'
      BY <1>11 DEF MapRestored, GiveUp, Goto, Return, Idle, Step, Removal, Files, CommandNames
    <2>3. job[c].t \in Tasks /\ map' = [map EXCEPT ![job[c].t] = tor.id]
      BY <1>11 DEF MapRestored
    <2> QED BY <1>11, <2>1, <2>2, <2>3 DEF MapRestored
  <1>12. ASSUME NEW c \in Callers, StopErase(c) PROVE RowsKept'
    <2>1. UNCHANGED <<row, asked>> /\ \A d \in Callers : d # c => job'[d] = job[d]
      BY <1>12 DEF StopErase, Return
    <2>2. ~Entering(c)' /\ job[c].t \in Tasks /\ map' = [map EXCEPT ![job[c].t] = 0]
      BY <1>12 DEF StopErase, EraseRuntimeState, Return, Idle
    <2> QED BY <2>1, <2>2 DEF MemoryTyped
  <1>13. ASSUME NEW c \in Callers, Remove(c) PROVE RowsKept'
    <2> DEFINE t == job[c].t
    <2>1. t \in Tasks /\ ~Locked
      BY <1>13 DEF Remove
    <2>2. \A d \in Callers : ~Entering(d)'
      BY <1>13, <2>1 DEF Remove, Locked, GiveUp, Goto, Return, Idle
    <2>3. map'[t] = 0 /\ \A u \in Tasks : u # t => map'[u] = map[u]
      BY <1>13, <2>1 DEF Remove, EraseRuntimeState, MemoryTyped, Locked, Mapped, Alive
    <2>4. \A u \in Tasks : u # t => row'[u] = row[u] /\ asked'[u] = asked[u]
      BY <1>13, <2>1 DEF Remove
    <2> QED BY <2>2, <2>3, <2>4
  <1>14. ASSUME NEW c \in Callers, DropRow(c) PROVE RowsKept'
    <2>1. job[c].t \in Tasks /\ map' = map /\ asked' = [asked EXCEPT ![job[c].t] = "dropped"]
      BY <1>14 DEF DropRow, memory
    <2>2. \A u \in Tasks : u # job[c].t => row'[u] = row[u]
      BY <1>14 DEF DropRow
    <2>3. ~Entering(c)' /\ \A d \in Callers : d # c => job'[d] = job[d]
      BY <1>14, Bystander
    <2> QED BY <2>1, <2>2, <2>3
  <1>15. ASSUME \/ Engine \/ LookUp \/ DispatchChecked \/ DispatchFinished \/ DispatchMoved
                \/ DispatchMetadata \/ DispatchSaved \/ Checkpoint \/ SaveAllResumeData \/ StopWait
                \/ UNCHANGED vars
         PROVE  RowsKept'
    <2>1. asked' = asked
      BY <1>15 DEF Engine, GetMetadata, Check, Download, Moved, Erased, EngineOnly, history, LookUp,
         AlertOnly, DispatchChecked, DispatchFinished, DispatchMoved, DispatchMetadata, DispatchSaved,
         Checkpoint, SaveAllResumeData, StopWait, ProcessOnly, vars
    <2> QED BY <1>1, <1>15, <2>1, RowsStay, SameHandle DEF Keeping, Dispatch, ShutDown
  <1> QED BY <1>3, <1>4, <1>5, <1>6, <1>7, <1>8, <1>9, <1>10, <1>11, <1>12, <1>13, <1>14, <1>15
          DEF Next, AlertThread, Dispatch, ShutDown, Continue

-----------------------------------------------------------------------------
(* The count of the answers awaited. *)

Awaited(alerts) == {i \in 1..Len(alerts) : alerts[i].kind = "saved"}

\* The answers in a queue can be counted.
LEMMA AwaitedFinite ==
  ASSUME NEW s \in Seq(Alerts)
  PROVE  IsFiniteSet(Awaited(s)) /\ Answers(s) = Cardinality(Awaited(s)) /\ Answers(s) \in Nat
  <1>1. IsFiniteSet(1..Len(s))
    BY FS_Interval
  <1>2. Awaited(s) \subseteq 1..Len(s)
    BY DEF Awaited
  <1>3. IsFiniteSet(Awaited(s))
    BY <1>1, <1>2, FS_Subset
  <1>4. Answers(s) = Cardinality(Awaited(s))
    BY DEF Answers, Awaited
  <1> QED BY <1>3, <1>4, FS_CardinalityType

\* An empty queue has no answers.
LEMMA NoneAwaited == Answers(<<>>) = 0
  <1>1. Awaited(<<>>) = {}
    BY DEF Awaited
  <1> QED BY <1>1, FS_EmptySet DEF Answers, Awaited

\* An answer that is posted counts, and nothing else that is posted does.
LEMMA AnswerPosted ==
  ASSUME NEW s \in Seq(Alerts), NEW a \in Alerts
  PROVE  Answers(s \o <<a>>) = Answers(s) + (IF a.kind = "saved" THEN 1 ELSE 0)
  <1> DEFINE n == Len(s) + 1
  <1>1. s \o <<a>> \in Seq(Alerts) /\ Len(s \o <<a>>) = n /\ (s \o <<a>>)[n] = a
    OBVIOUS
  <1>2. \A i \in 1..Len(s) : (s \o <<a>>)[i] = s[i]
    OBVIOUS
  <1>3. Len(s) \in Nat
    OBVIOUS
  <1>4. Awaited(s \o <<a>>) = IF a.kind = "saved" THEN Awaited(s) \cup {n} ELSE Awaited(s)
    BY <1>1, <1>2, <1>3 DEF Awaited
  <1>5. n \notin Awaited(s)
    BY <1>3 DEF Awaited
  <1> HIDE DEF n
  <1>6. Cardinality(Awaited(s) \cup {n}) = Answers(s) + 1
    BY <1>5, AwaitedFinite, FS_AddElement
  <1>7. Answers(s \o <<a>>) = Cardinality(Awaited(s \o <<a>>)) /\ Answers(s) \in Nat
        /\ Answers(s) = Cardinality(Awaited(s))
    BY <1>1, AwaitedFinite
  <1> QED BY <1>4, <1>6, <1>7

\* Taking the first alert takes its answer.
LEMMA AnswerTaken ==
  ASSUME NEW s \in Seq(Alerts), s # <<>>
  PROVE  /\ Tail(s) \in Seq(Alerts) /\ Head(s) \in Alerts
         /\ Answers(Tail(s)) + (IF Head(s).kind = "saved" THEN 1 ELSE 0) <= Answers(s)
  <1>1. /\ Tail(s) \in Seq(Alerts) /\ Head(s) \in Alerts /\ Head(s) = s[1]
        /\ Len(s) \in Nat \ {0} /\ Len(Tail(s)) = Len(s) - 1
        /\ \A i \in 1..Len(Tail(s)) : Tail(s)[i] = s[i + 1]
    OBVIOUS
  <1> DEFINE f == [i \in Awaited(Tail(s)) |-> i + 1]
  <1>2. f \in Injection(Awaited(Tail(s)), Awaited(s) \ {1})
    BY <1>1 DEF Awaited, Injection, IsInjective
  <1>3. /\ IsFiniteSet(Awaited(s) \ {1})
        /\ Cardinality(Awaited(s) \ {1}) =
             IF 1 \in Awaited(s) THEN Answers(s) - 1 ELSE Answers(s)
    BY AwaitedFinite, FS_RemoveElement
  <1>4. Answers(Tail(s)) <= Cardinality(Awaited(s) \ {1})
    <2> HIDE DEF f
    <2>1. Cardinality(Awaited(Tail(s))) <= Cardinality(Awaited(s) \ {1})
      BY <1>2, <1>3, FS_Injection
    <2> QED BY <1>1, <2>1, AwaitedFinite
  <1>5. 1 \in Awaited(s) <=> Head(s).kind = "saved"
    BY <1>1 DEF Awaited
  <1>6. Answers(s) \in Nat /\ Answers(Tail(s)) \in Nat
    BY <1>1, AwaitedFinite
  <1> QED BY <1>1, <1>3, <1>4, <1>5, <1>6

\* A request and its answer are counted together.
LEMMA AskedCounted ==
  ASSUME One, Counted, Asks,
         \/ UNCHANGED <<batch, al>>
         \/ al' = AtRest /\ (batch' = batch \/ batch' = <<>>)
  PROVE  Counted'
  <1>1. PICK to \in Torrents : to.id = tor.id /\ Request(to)
    BY DEF Asks
  <1> DEFINE a == Saved(to.id, to.full)
  <1>2. a \in Alerts /\ a.kind = "saved"
    BY <1>1, Alerted DEF One, Typed, Asks, Torrents, Saved
  <1>3. queue \in Seq(Alerts) /\ batch \in Seq(Alerts)
    BY DEF One, Typed, AlertsTyped
  <1>4. pending' = pending + 1 /\ queue' = queue \o <<a>>
    BY <1>1 DEF Request
  <1> HIDE DEF a
  <1>5. Answers(queue') = Answers(queue) + 1
    BY <1>2, <1>3, <1>4, AnswerPosted
  <1>6. Answers(queue) \in Nat /\ Answers(batch) \in Nat
    BY <1>3, AwaitedFinite
  <1>7. CASE UNCHANGED <<batch, al>>
    BY <1>4, <1>5, <1>6, <1>7 DEF Counted, At
  <1>8. CASE al' = AtRest /\ (batch' = batch \/ batch' = <<>>)
    <2>1. ~At({"saved"})' /\ (batch' = batch \/ Answers(batch') = 0)
      BY <1>8, NoneAwaited DEF At, AtRest, NoAlert, None
    <2> QED BY <1>4, <1>5, <1>6, <2>1 DEF Counted
  <1> QED BY <1>7, <1>8

\* Another alert is not counted.
LEMMA PostedCounted ==
  ASSUME One, Counted, UNCHANGED <<batch, al, pending>>, NEW a \in Alerts, a.kind # "saved",
         \/ queue' = queue \o <<a>>
         \/ \E b \in Alerts : b.kind # "saved" /\ queue' = queue \o (<<a>> \o <<b>>)
  PROVE  Counted'
  <1>1. queue \in Seq(Alerts) /\ queue \o <<a>> \in Seq(Alerts)
    BY DEF One, Typed, AlertsTyped
  <1>2. Answers(queue \o <<a>>) = Answers(queue)
    BY <1>1, AnswerPosted, AwaitedFinite
  <1>3. ASSUME NEW b \in Alerts, b.kind # "saved", queue' = queue \o (<<a>> \o <<b>>)
        PROVE  Answers(queue') = Answers(queue)
    <2>1. queue' = (queue \o <<a>>) \o <<b>>
      BY <1>1, <1>3
    <2> QED BY <1>1, <1>2, <1>3, <2>1, AnswerPosted, AwaitedFinite
  <1>4. Answers(queue') = Answers(queue)
    BY <1>2, <1>3
  <1> QED BY <1>4 DEF Counted, At

\* What libtorrent posts by itself is no answer.
LEMMA EnginePosts ==
  ASSUME One, Engine
  PROVE  /\ UNCHANGED <<batch, al, pending>>
         /\ \E a \in Alerts : /\ a.kind # "saved"
                             /\ \/ queue' = queue \o <<a>>
                                \/ \E b \in Alerts : b.kind # "saved" /\ queue' = queue \o (<<a>> \o <<b>>)
  <1> USE DEF One, Typed
  <1>1. CASE GetMetadata \/ Check \/ Download \/ Moved
    <2>1. tor.id # 0
      BY <1>1 DEF GetMetadata, Check, Download, Moved, NoTorrent, TorTyped, None
    <2>2. UNCHANGED <<batch, al, pending>>
      BY <1>1 DEF GetMetadata, Check, Download, Moved, EngineOnly, thread, memory
    <2>3. \/ \E kind \in {"metadata", "checked", "finished", "moved", "moveFailed"} :
               queue' = queue \o <<Alert(kind, tor.id)>>
          \/ queue' = queue \o (<<Alert("checked", tor.id)>> \o <<Alert("finished", tor.id)>>)
      <3>1. GetMetadata => queue' = queue \o <<Alert("metadata", tor.id)>>
        BY DEF GetMetadata, Post
      <3>2. Download => queue' = queue \o <<Alert("finished", tor.id)>>
        BY DEF Download, Post
      <3>3. Moved => \E kind \in {"moved", "moveFailed"} : queue' = queue \o <<Alert(kind, tor.id)>>
        BY DEF Moved, Post
      <3>4. ASSUME Check
            PROVE  \/ queue' = queue \o <<Alert("checked", tor.id)>>
                   \/ queue' = queue \o (<<Alert("checked", tor.id)>> \o <<Alert("finished", tor.id)>>)
        <4>1. <<Alert("checked", tor.id)>> \o <<>> = <<Alert("checked", tor.id)>>
          OBVIOUS
        <4> QED BY <3>4, <4>1 DEF Check, Post
      <3> QED BY <1>1, <3>1, <3>2, <3>3, <3>4
    <2>4. \A kind \in {"metadata", "checked", "finished", "moved", "moveFailed"} :
             Alert(kind, tor.id) \in Alerts /\ Alert(kind, tor.id).kind # "saved"
      BY <2>1, Alerted DEF Alert, NoAlert
    <2> QED BY <2>2, <2>3, <2>4
  <1>2. CASE Erased
    <2>1. UNCHANGED <<batch, al, pending>>
      BY <1>2 DEF Erased, EngineOnly, thread, memory
    <2>2. \A g \in erasing, kind \in {"deleted", "deleteFailed"} :
             Alert(kind, g) \in Alerts /\ Alert(kind, g).kind # "saved"
      BY DEF TorTyped, Alert, NoAlert, Alerts
    <2> QED BY <1>2, <2>1, <2>2 DEF Erased, Post
  <1> QED BY <1>1, <1>2 DEF Engine

\* Every answer on its way was asked for and is counted.
LEMMA CountedNext == ASSUME One, Counted, [Next]_vars PROVE Counted'
  <1> USE DEF One, Typed
  <1>1. queue \in Seq(Alerts) /\ batch \in Seq(Alerts) /\ pending \in Nat
    BY DEF AlertsTyped, Counted
  <1>2. Answers(queue) \in Nat /\ Answers(batch) \in Nat
    BY <1>1, AwaitedFinite
  <1>3. CASE Engine
    BY <1>3, EnginePosts, PostedCounted
  <1>5. CASE LookUp
    <2> DEFINE popped == IF batch = <<>> THEN queue ELSE batch
    <2>1. popped \in Seq(Alerts) /\ popped # <<>> /\ ~At({"saved"})
      BY <1>1, <1>5 DEF LookUp, At, AtRest, NoAlert, None
    <2>2. /\ batch' = Tail(popped) /\ pending' = pending
          /\ queue' = IF batch = <<>> THEN <<>> ELSE queue
          /\ At({"saved"})' <=> Head(popped).kind = "saved"
      BY <1>5 DEF LookUp, At
    <2>3. Answers(Tail(popped)) + (IF Head(popped).kind = "saved" THEN 1 ELSE 0) <= Answers(popped)
      BY <2>1, AnswerTaken
    <2>4. Answers(popped) + Answers(queue') = Answers(queue) + Answers(batch)
      BY <1>2, <2>2, NoneAwaited
    <2>5. Answers(Tail(popped)) \in Nat /\ Answers(popped) \in Nat /\ Answers(queue') \in Nat
      BY <1>2, <2>1, <2>2, AnswerTaken, AwaitedFinite, NoneAwaited
    <2> HIDE DEF popped
    <2>6. (IF At({"saved"}) THEN 1 ELSE 0)' = IF Head(popped).kind = "saved" THEN 1 ELSE 0
      BY <2>2
    <2>7. pending >= Answers(queue) + Answers(batch)
      BY <1>1, <1>2, <2>1 DEF Counted
    <2>8. Answers(queue') + Answers(Tail(popped)) + (IF Head(popped).kind = "saved" THEN 1 ELSE 0)
            <= pending
      BY <1>1, <1>2, <2>3, <2>4, <2>5, <2>7
    <2> QED BY <1>1, <2>2, <2>5, <2>6, <2>8 DEF Counted
  <1>6. CASE DispatchChecked \/ DispatchFinished \/ DispatchMoved
    <2>1. Done \/ Throw
      BY <1>6 DEF DispatchChecked, DispatchFinished, DispatchMoved
    <2>2. al' = AtRest /\ (batch' = batch \/ batch' = <<>>)
      BY <2>1 DEF Done, Throw
    <2>3. ASSUME UNCHANGED <<queue, pending>> PROVE Counted'
      BY <1>2, <2>2, <2>3, NoneAwaited DEF Counted, At, AtRest, NoAlert, None
    <2> QED BY <1>6, <2>2, <2>3, Requests, AskedCounted
  <1>7. CASE DispatchDeleted \/ DispatchMetadata
    <2>1. al' = AtRest /\ UNCHANGED <<queue, batch, pending>>
      BY <1>7 DEF DispatchDeleted, DispatchMetadata, Done, engine, memory
    <2> QED BY <1>2, <2>1 DEF Counted, At, AtRest, NoAlert, None
  <1>8. CASE DispatchSaved
    <2>1. At({"saved"}) /\ al' = AtRest /\ UNCHANGED <<queue, batch>> /\ pending' = pending - 1
      BY <1>8 DEF DispatchSaved, Done, engine
    <2> QED BY <1>1, <1>2, <2>1 DEF Counted, At, AtRest, NoAlert, None
  <1>9. ASSUME \/ Checkpoint \/ SaveAllResumeData
               \/ \E c \in Callers : MapAdded(c) \/ MapRestored(c) \/ Pause(c) \/ Resume(c)
        PROVE  Counted'
    <2>1. UNCHANGED <<batch, al>>
      BY <1>9 DEF Checkpoint, SaveAllResumeData, MapAdded, MapRestored, Pause, Resume, CallerOnly, thread
    <2>2. ASSUME UNCHANGED <<queue, pending>> PROVE Counted'
      BY <2>1, <2>2 DEF Counted, At
    <2> QED BY <1>9, <2>1, <2>2, Requests, AskedCounted
  <1>10. CASE StopWait
    <2>1. queue' = <<>> /\ UNCHANGED <<batch, al, pending>>
      BY <1>10 DEF StopWait, thread, memory
    <2> QED BY <1>1, <1>2, <2>1, NoneAwaited DEF Counted, At
  <1>11. CASE StopSession \/ Restart \/ Crash
    <2>1. queue' = <<>> /\ batch' = <<>> /\ al' = AtRest /\ pending' = 0
      BY <1>11 DEF StopSession, Restart, Crash, Launch, Forget
    <2> QED BY <2>1, NoneAwaited DEF Counted, At, AtRest, NoAlert, None
  <1>12. ASSUME UNCHANGED <<queue, batch, al, pending>> PROVE Counted'
    BY <1>12 DEF Counted, At
  <1>13. ASSUME NEW c \in Callers,
                \/ Begin(c) \/ Stop(c) \/ Add(c) \/ Restore(c) \/ ForceRecheck(c) \/ StopSave(c)
                \/ StopErase(c) \/ Remove(c) \/ DropRow(c)
         PROVE  UNCHANGED <<queue, batch, al, pending>>
    BY <1>13 DEF Begin, Stop, Add, Restore, ForceRecheck, StopSave, StopErase, Remove, DropRow,
       CallerOnly, thread, engine, memory
  <1>14. CASE UNCHANGED vars
    BY <1>12, <1>14 DEF vars, engine, memory, thread
  <1> QED BY <1>3, <1>5, <1>6, <1>7, <1>8, <1>9, <1>10, <1>11, <1>12, <1>13, <1>14
          DEF Next, AlertThread, Dispatch, ShutDown, Continue

-----------------------------------------------------------------------------
(* The shutdown.  Every task whose progress is due has its torrent in the      *)
(* session, with all pieces, and the last answer about it is full: on its way, *)
(* being handled, in its row, or its write has failed and is to be retried.    *)

Mine(a, g) == a.kind = "saved" /\ a.g = g
AllFull(alerts, g) == \A i \in 1..Len(alerts) : Mine(alerts[i], g) => alerts[i].full
Coming(alerts, g) ==
    \E i \in 1..Len(alerts) :
       /\ Mine(alerts[i], g)
       /\ \A j \in i..Len(alerts) : Mine(alerts[j], g) => alerts[j].full
Promised == Coming(queue, tor.id) \/ (Coming(batch, tor.id) /\ AllFull(queue, tor.id))

Safe(t, r) == r.here => r.resume = "full" \/ t \in retry
Saving(t) == At({"saved"}) /\ al.t = t
\* The dispatcher may have read the row before it was written, and write it back.
Settled(t) ==
    /\ AllFull(batch, tor.id) /\ AllFull(queue, tor.id)
    /\ Saving(t) => al.a.full
    /\ ~Saving(t) => Safe(t, row[t])
    /\ At({"metadata", "deleteFailed"}) /\ al.t = t => Safe(t, al.old)

Due ==
    /\ due \subseteq Tasks
    /\ phase = "up" => due = {}
    /\ phase \in {"saving", "joining"} => \A t \in due : map[t] = tor.id /\ tor.id # 0 /\ tor.full
    /\ phase = "down" => al = AtRest /\ batch = <<>> /\ \A c \in Callers : job[c] = Idle
Covered ==
    ~lapsed => \A t \in due : /\ phase = "saving" => Promised \/ Settled(t)
                              /\ phase = "joining" => Settled(t)
                              /\ phase = "down" => Safe(t, row[t])

\* A full answer, or what is no answer, keeps a sequence of alerts good.
LEMMA GoodPosted ==
  ASSUME NEW g, NEW s \in Seq(Alerts), NEW a \in Alerts, Mine(a, g) => a.full
  PROVE  /\ s \o <<a>> \in Seq(Alerts)
         /\ AllFull(s, g) => AllFull(s \o <<a>>, g)
         /\ Coming(s, g) => Coming(s \o <<a>>, g)
         /\ Mine(a, g) => Coming(s \o <<a>>, g)
  <1> DEFINE n == Len(s) + 1
             z == s \o <<a>>
  <1>1. z \in Seq(Alerts) /\ Len(z) = n /\ z[n] = a /\ Len(s) \in Nat
    OBVIOUS
  <1>2. \A i \in 1..Len(s) : z[i] = s[i]
    OBVIOUS
  <1> HIDE DEF z
  <1>3. ASSUME AllFull(s, g) PROVE AllFull(z, g)
    BY <1>1, <1>2, <1>3 DEF AllFull
  <1>4. ASSUME Coming(s, g) PROVE Coming(z, g)
    <2>1. PICK i \in 1..Len(s) : /\ Mine(s[i], g)
                                 /\ \A j \in i..Len(s) : Mine(s[j], g) => s[j].full
      BY <1>4 DEF Coming
    <2>2. i \in 1..Len(z) /\ Mine(z[i], g)
      BY <1>1, <1>2, <2>1
    <2>3. \A j \in i..Len(z) : Mine(z[j], g) => z[j].full
      BY <1>1, <1>2, <2>1
    <2> QED BY <2>2, <2>3 DEF Coming
  <1>5. ASSUME Mine(a, g) PROVE Coming(z, g)
    BY <1>1, <1>5 DEF Coming
  <1> QED BY <1>1, <1>3, <1>4, <1>5 DEF z

\* Taking the first alert of a good sequence: the answer that matters comes later, or
\* it is the one taken.
LEMMA GoodTaken ==
  ASSUME NEW g, NEW s \in Seq(Alerts), s # <<>>
  PROVE  /\ AllFull(s, g) => AllFull(Tail(s), g) /\ (Mine(Head(s), g) => Head(s).full)
         /\ Coming(s, g) => \/ Coming(Tail(s), g)
                            \/ Mine(Head(s), g) /\ Head(s).full /\ AllFull(Tail(s), g)
  <1> DEFINE z == Tail(s)
  <1>1. /\ Head(s) = s[1] /\ Len(s) \in Nat \ {0} /\ Len(z) = Len(s) - 1
        /\ \A i \in 1..Len(z) : z[i] = s[i + 1]
    OBVIOUS
  <1> HIDE DEF z
  <1>2. ASSUME AllFull(s, g) PROVE AllFull(z, g) /\ (Mine(Head(s), g) => Head(s).full)
    BY <1>1, <1>2 DEF AllFull
  <1>3. ASSUME Coming(s, g)
        PROVE  Coming(z, g) \/ (Mine(Head(s), g) /\ Head(s).full /\ AllFull(z, g))
    <2>1. PICK i \in 1..Len(s) : /\ Mine(s[i], g)
                                 /\ \A j \in i..Len(s) : Mine(s[j], g) => s[j].full
      BY <1>3 DEF Coming
    <2>2. CASE i = 1
      BY <1>1, <2>1, <2>2 DEF AllFull
    <2>3. CASE i # 1
      <3>1. i - 1 \in 1..Len(z) /\ z[i - 1] = s[i]
        BY <1>1, <2>3
      <3>2. \A j \in (i - 1)..Len(z) : z[j] = s[j + 1] /\ j + 1 \in i..Len(s)
        BY <1>1, <3>1
      <3> QED BY <2>1, <3>1, <3>2 DEF Coming
    <2> QED BY <2>2, <2>3
  <1> QED BY <1>2, <1>3 DEF z

\* Without answers there is none to be less than full, and none to come.
LEMMA NoneComing ==
  ASSUME NEW g, NEW s \in Seq(Alerts), Answers(s) = 0 PROVE AllFull(s, g) /\ ~Coming(s, g)
  <1>1. Awaited(s) = {}
    BY AwaitedFinite, FS_EmptySet DEF Answers, Awaited
  <1> QED BY <1>1 DEF Awaited, AllFull, Coming, Mine

\* What is posted while a torrent is complete leaves what was promised.
LEMMA StillGood ==
  ASSUME One, tor.full, tor'.id = tor.id, UNCHANGED queue \/ Asks \/ Engine
  PROVE  /\ AllFull(queue, tor.id) => AllFull(queue, tor.id)'
         /\ Coming(queue, tor.id) => Coming(queue, tor.id)'
  <1> DEFINE g == tor.id
  <1>1. queue \in Seq(Alerts)
    BY DEF One, Typed, AlertsTyped
  <1>2. CASE UNCHANGED queue
    BY <1>2 DEF AllFull, Coming
  <1>3. CASE Asks
    <2>1. Saved(tor.id, TRUE) \in Alerts /\ Saved(tor.id, TRUE).full
      BY <1>3, Alerted DEF Asks, One, Typed, Saved
    <2>2. queue' = queue \o <<Saved(tor.id, TRUE)>>
      BY <1>3 DEF Asks, Request
    <2> QED BY <1>1, <2>1, <2>2, GoodPosted
  <1>4. CASE Engine
    <2>1. PICK a \in Alerts : /\ a.kind # "saved"
                              /\ \/ queue' = queue \o <<a>>
                                 \/ \E b \in Alerts : /\ b.kind # "saved"
                                                      /\ queue' = queue \o (<<a>> \o <<b>>)
      BY <1>4, EnginePosts
    <2>2. queue \o <<a>> \in Seq(Alerts)
      BY <1>1
    <2>3. ASSUME NEW b \in Alerts, b.kind # "saved", queue' = queue \o (<<a>> \o <<b>>)
          PROVE  queue' = (queue \o <<a>>) \o <<b>>
      BY <1>1, <2>3
    <2>4. ~Mine(a, g) /\ \A b \in Alerts : b.kind # "saved" => ~Mine(b, g)
      BY <2>1 DEF Mine
    <2>5. /\ AllFull(queue, g) => AllFull(queue \o <<a>>, g)
          /\ Coming(queue, g) => Coming(queue \o <<a>>, g)
      BY <1>1, <2>4, GoodPosted
    <2>6. \A b \in Alerts : b.kind # "saved" =>
             /\ AllFull(queue \o <<a>>, g) => AllFull((queue \o <<a>>) \o <<b>>, g)
             /\ Coming(queue \o <<a>>, g) => Coming((queue \o <<a>>) \o <<b>>, g)
      BY <2>2, <2>4, GoodPosted
    <2> HIDE DEF g
    <2>7. (AllFull(queue, g) => AllFull(queue', g)) /\ (Coming(queue, g) => Coming(queue', g))
      BY <2>1, <2>3, <2>5, <2>6
    <2> QED BY <2>7 DEF g
  <1> QED BY <1>2, <1>3, <1>4

\* The torrent in the session does not lose pieces.
LEMMA StaysFull ==
  ASSUME One, [Next]_vars, tor.id # 0, tor'.id = tor.id, tor.full PROVE tor'.full
  <1> USE DEF One, Typed, TorTyped, Torrents
  <1>1. \A run, at, full : Enter(run, at, full) => tor'.id # tor.id
    BY HandlesBound DEF Enter, NoTorrent
  <1>2. CASE Engine
    BY <1>2 DEF Engine, GetMetadata, Check, Download, Moved, Erased
  <1>3. CASE LookUp \/ DispatchDeleted \/ DispatchMetadata \/ DispatchSaved \/ UNCHANGED vars
    BY <1>3 DEF LookUp, DispatchDeleted, DispatchMetadata, DispatchSaved, engine, vars
  <1>4. CASE DispatchChecked
    BY <1>4 DEF DispatchChecked, RequestIfAlive, Request
  <1>5. CASE DispatchFinished
    BY <1>5 DEF DispatchFinished, Request
  <1>6. CASE DispatchMoved
    BY <1>6 DEF DispatchMoved, RequestIfAlive, Request
  <1>7. CASE Checkpoint \/ SaveAllResumeData \/ StopWait
    BY <1>7 DEF Checkpoint, SaveAllResumeData, StopWait, Request
  <1>8. CASE StopSession \/ Restart \/ Crash
    BY <1>8 DEF StopSession, Restart, Crash, Launch, Forget, NoTorrent
  <1>9. ASSUME NEW c \in Callers, Add(c) PROVE tor'.full
    BY <1>1, <1>9, Zenon DEF Add
  <1>10. ASSUME NEW c \in Callers, Restore(c) PROVE tor'.full
    BY <1>1, <1>10, Zenon DEF Restore
  <1>11. ASSUME NEW c \in Callers, MapAdded(c) \/ MapRestored(c) PROVE tor'.full
    BY <1>11 DEF MapAdded, MapRestored, Request
  <1>12. ASSUME NEW c \in Callers, Pause(c) \/ Resume(c) PROVE tor'.full
    BY <1>12 DEF Pause, Resume, Request
  <1>13. ASSUME NEW c \in Callers, Begin(c) \/ StopSave(c) \/ DropRow(c) PROVE tor'.full
    BY <1>13 DEF Begin, StopSave, DropRow, engine
  <1>14. ASSUME NEW c \in Callers, Stop(c) PROVE tor'.full
    BY <1>14 DEF Stop
  <1>15. ASSUME NEW c \in Callers, ForceRecheck(c) PROVE tor'.full
    BY <1>15 DEF ForceRecheck
  <1>16. ASSUME NEW c \in Callers, StopErase(c) \/ Remove(c) PROVE tor'.full
    BY <1>16 DEF StopErase, Remove, NoTorrent
  <1> QED BY <1>2, <1>3, <1>4, <1>5, <1>6, <1>7, <1>8, <1>9, <1>10, <1>11, <1>12, <1>13,
             <1>14, <1>15, <1>16 DEF Next, AlertThread, Dispatch, ShutDown, Continue

\* A session that is down stays so until the next launch.
LEMMA DownIsDown ==
  ASSUME Due, phase = "down", [Next]_vars PROVE Restart \/ UNCHANGED vars
  <1>1. al = AtRest /\ batch = <<>> /\ \A c \in Callers : job[c].pc = "idle"
    BY DEF Due, Idle
  <1>2. ~AlertThread
    BY <1>1 DEF AlertThread, LookUp, Dispatch, DispatchChecked, DispatchFinished, DispatchMoved,
       DispatchDeleted, DispatchMetadata, DispatchSaved, Checkpoint, At, AtRest, NoAlert, None
  <1>3. \A c \in Callers : ~Begin(c) /\ ~Stop(c) /\ ~Continue(c)
    BY <1>1 DEF Begin, Stop, Continue, Add, MapAdded, Restore, MapRestored, Pause, Resume,
       ForceRecheck, StopSave, StopErase, Remove, DropRow
  <1> QED BY <1>2, <1>3 DEF Next, ShutDown, SaveAllResumeData, StopWait, StopSession, Crash

\* What is due while the session is being saved was due before, and its torrent stays:
\* a command that takes it away takes it from what is due.
LEMMA DuePinned ==
  ASSUME One, Due, [Next]_vars, phase \in {"saving", "joining"}, phase' \in {"saving", "joining"}
  PROVE  /\ due' \subseteq due
         /\ \A t \in due' : map'[t] = map[t] /\ tor'.id = tor.id /\ tor'.full
  <1> DEFINE Pinned == \A t \in due' : t \in due /\ map'[t] = map[t] /\ tor'.id = tor.id
  <1> USE DEF One, Typed, MemoryTyped, Due
  <1>1. \A t \in due : map[t] = tor.id /\ tor.id # 0 /\ tor.full /\ t \in Tasks
    OBVIOUS
  <1>2. \A t \in due : \A c \in Callers : ~Entering(c)
    BY <1>1 DEF Exclusive
  <1>3. ASSUME Engine \/ LookUp \/ Dispatch \/ Checkpoint \/ StopWait \/ UNCHANGED vars
        PROVE  Pinned
    <2>1. due' = due
      BY <1>3 DEF Engine, GetMetadata, Check, Download, Moved, Erased, EngineOnly, history, LookUp,
         Dispatch, DispatchChecked, DispatchFinished, DispatchMoved, DispatchDeleted,
         DispatchMetadata, DispatchSaved, Checkpoint, AlertOnly, StopWait, vars
    <2>2. tor'.id = tor.id /\ map' = map
      BY <1>3, SameHandle
    <2> QED BY <2>1, <2>2
  <1>4. ASSUME NEW c \in Callers, Pause(c) \/ Resume(c) \/ ForceRecheck(c) \/ DropRow(c)
        PROVE  Pinned
    <2>1. due' = due
      BY <1>4 DEF Pause, Resume, ForceRecheck, DropRow
    <2> QED BY <1>4, <2>1, Bystander
  <1>5. ASSUME NEW c \in Callers, Add(c) \/ Restore(c) PROVE Pinned
    <2>1. due' = due /\ map' = map /\ (tor' = tor \/ tor = NoTorrent)
      BY <1>5 DEF Add, Restore, memory
    <2> QED BY <1>1, <2>1 DEF NoTorrent
  <1>6. ASSUME NEW c \in Callers, MapAdded(c) \/ MapRestored(c) PROVE Pinned
    <2>1. Entering(c) /\ due' = due
      BY <1>6 DEF MapAdded, MapRestored, Entering
    <2> QED BY <1>2, <2>1
  <1>7. ASSUME NEW c \in Callers, StopSave(c) PROVE Pinned
    BY <1>7 DEF StopSave, engine, memory
  <1>8. ASSUME NEW c \in Callers, StopErase(c) PROVE Pinned
    <2>1. Stopping(c) /\ job[c].t \in Tasks /\ due' = due \ {job[c].t}
      BY <1>8 DEF StopErase, Stopping, JobsTyped
    <2>2. \A t \in due : map[job[c].t] = map[t]
      BY <1>1, <1>2, <2>1 DEF Exclusive, Agreed
    <2> QED BY <1>1, <2>1, <2>2 DEF Exclusive, Agreed
  <1>9. ASSUME NEW c \in Callers, Remove(c) PROVE Pinned
    <2>1. job[c].t \in Tasks
      BY <1>9 DEF Remove, JobsTyped
    <2>2. CASE Mapped(job[c].t)
      <3>1. due' = due \ {job[c].t} /\ map[job[c].t] = tor.id /\ tor.id # 0
        BY <1>9, <2>2 DEF Remove, Mapped, Alive
      <3> QED BY <1>1, <2>1, <3>1 DEF Agreed
    <2>3. CASE ~Mapped(job[c].t)
      BY <1>9, <2>3 DEF Remove
    <2> QED BY <2>2, <2>3
  <1>10. Pinned
    BY <1>3, <1>4, <1>5, <1>6, <1>7, <1>8, <1>9 DEF Next, AlertThread, ShutDown, SaveAllResumeData,
       StopSession, Restart, Crash, Launch, Continue, Begin, Stop
  <1> QED BY <1>1, <1>10, StaysFull

\* The phases of the process.
LEMMA Phases ==
  ASSUME One, Due, [Next]_vars
  PROVE  \/ phase' = phase
         \/ SaveAllResumeData /\ phase = "up" /\ phase' = "saving"
         \/ StopWait /\ phase = "saving" /\ phase' = "joining"
         \/ StopSession /\ phase = "joining" /\ phase' = "down"
         \/ (Restart \/ Crash) /\ phase' = "up"
  <1>1. CASE ShutDown
    BY <1>1 DEF ShutDown, SaveAllResumeData, StopWait, StopSession, Restart, Crash, Launch
  <1>2. CASE Engine \/ AlertThread \/ UNCHANGED vars
    BY <1>2 DEF Engine, GetMetadata, Check, Download, Moved, Erased, EngineOnly, process,
       AlertThread, LookUp, Dispatch, DispatchChecked, DispatchFinished, DispatchMoved,
       DispatchDeleted, DispatchMetadata, DispatchSaved, Checkpoint, AlertOnly, vars
  <1>3. ASSUME NEW c \in Callers, Begin(c) \/ Stop(c) \/ Continue(c) PROVE phase' = phase
    BY <1>3 DEF Begin, Stop, Continue, Add, MapAdded, Restore, MapRestored, Pause, Resume,
       ForceRecheck, StopSave, StopErase, Remove, DropRow, CallerOnly, process
  <1> QED BY <1>1, <1>2, <1>3 DEF Next

\* What is due stays with its torrent, and nothing is due while the process is up.
LEMMA DueNext == ASSUME One, Due, [Next]_vars PROVE Due'
  <1> USE DEF Due
  <1>1. CASE Restart \/ Crash
    BY <1>1 DEF Restart, Crash, Launch
  <1>2. CASE SaveAllResumeData
    <2>1. /\ due' = {t \in Tasks : Mapped(t) /\ tor.full} /\ phase' = "saving"
          /\ tor'.id = tor.id /\ map' = map
      BY <1>2, SameHandle DEF SaveAllResumeData
    <2>2. \A t \in due' : map[t] = tor.id /\ tor.id # 0 /\ tor.full
      BY <2>1 DEF Mapped, Alive
    <2> QED BY <2>1, <2>2, StaysFull
  <1>3. CASE StopSession
    BY <1>3 DEF StopSession, Forget
  <1>4. CASE phase \in {"saving", "joining"} /\ phase' \in {"saving", "joining"}
    BY <1>4, DuePinned DEF One, Typed, MemoryTyped
  <1>5. CASE phase = "down" /\ phase' = "down"
    <2>1. UNCHANGED vars \/ Restart
      BY <1>5, DownIsDown
    <2>2. UNCHANGED <<due, al, batch, job>>
      BY <1>5, <2>1 DEF Restart, Launch, vars, thread, history
    <2> QED BY <1>5, <2>2
  <1>6. CASE phase = "up" /\ phase' = "up" /\ ~Crash /\ ~Restart
    <2>1. due' \subseteq due
      <3>1. CASE Engine \/ AlertThread \/ UNCHANGED vars
        BY <3>1 DEF Engine, GetMetadata, Check, Download, Moved, Erased, EngineOnly, history,
           AlertThread, LookUp, Dispatch, DispatchChecked, DispatchFinished, DispatchMoved,
           DispatchDeleted, DispatchMetadata, DispatchSaved, Checkpoint, AlertOnly, vars
      <3>2. ASSUME NEW c \in Callers, Begin(c) \/ Stop(c) \/ Continue(c) PROVE due' \subseteq due
        BY <3>2 DEF Begin, Stop, Continue, Add, MapAdded, Restore, MapRestored, Pause, Resume,
           ForceRecheck, StopSave, StopErase, Remove, DropRow
      <3> QED BY <1>6, <3>1, <3>2 DEF Next, ShutDown, SaveAllResumeData, StopWait, StopSession
    <2> QED BY <1>6, <2>1
  <1> QED BY <1>1, <1>2, <1>3, <1>4, <1>5, <1>6, Phases DEF One, Typed, MemoryTyped

\* The row of a task is as good as it was: what it tells of the pieces is kept, or it
\* is complete, or the row is gone.
Better(t) ==
    \/ row'[t].here = row[t].here /\ row'[t].resume = row[t].resume
    \/ ~row'[t].here
    \/ row'[t].resume = "full"

\* A write of another column keeps the resume data.
LEMMA OtherColumn ==
  ASSUME RowsTyped, NEW t \in Tasks, NEW u,
         \/ row' = row \/ (\E s : SetStatus(u, s))
         \/ \E x : row' = [row EXCEPT ![u] = [row[u] EXCEPT !.act = x]]
         \/ \E keep : row' = [row EXCEPT ![u] = Completed(row[u], keep)]
         \/ row' = [row EXCEPT ![u] = NoRow]
  PROVE  Better(t)
  <1> USE DEF RowsTyped, Rows, Better
  <1>1. ASSUME NEW s, SetStatus(u, s) PROVE Better(t)
    BY <1>1 DEF SetStatus
  <1>2. ASSUME NEW x, row' = [row EXCEPT ![u] = [row[u] EXCEPT !.act = x]] PROVE Better(t)
    BY <1>2
  <1>3. ASSUME NEW keep, row' = [row EXCEPT ![u] = Completed(row[u], keep)] PROVE Better(t)
    <2>1. \A r \in Rows : Completed(r, keep).here = r.here /\ Completed(r, keep).resume = r.resume
      BY DEF Completed
    <2>2. row[t] \in Rows
      OBVIOUS
    <2> HIDE DEF Rows
    <2> QED BY <1>3, <2>1, <2>2
  <1>4. ASSUME row' = [row EXCEPT ![u] = NoRow] PROVE Better(t)
    BY <1>4 DEF NoRow
  <1>5. ASSUME row' = row PROVE Better(t)
    BY <1>5
  <1> QED BY <1>1, <1>2, <1>3, <1>4, <1>5

\* A command leaves the rows of what is due as good as they were: it writes resume
\* data only of the torrent in the session.
LEMMA CommandsWrite ==
  ASSUME One, Due, NEW c \in Callers, Continue(c), phase \in {"saving", "joining"}, NEW t \in due
  PROVE  Better(t)
  <1>1. /\ t \in Tasks /\ map[t] = tor.id /\ tor.id # 0 /\ tor.full /\ RowsTyped
        /\ map \in [Tasks -> 0..MaxHandles]
    BY DEF Due, One, Typed, MemoryTyped
  <1>2. ~Entering(c)
    BY <1>1 DEF One, Exclusive
  <1>3. CASE Add(c)
    <2>1. row' = row \/ tor = NoTorrent
      BY <1>3, Zenon DEF Add
    <2> QED BY <1>1, <2>1, OtherColumn DEF NoTorrent
  <1>4. CASE Restore(c) \/ ForceRecheck(c) \/ StopErase(c)
    BY <1>1, <1>4, OtherColumn DEF Restore, ForceRecheck, StopErase
  <1>5. CASE MapAdded(c) \/ MapRestored(c)
    BY <1>2, <1>5 DEF MapAdded, MapRestored, Entering
  <1>6. CASE Pause(c) \/ Resume(c)
    BY <1>1, <1>6, OtherColumn DEF Pause, Resume
  <1>7. CASE Remove(c) \/ DropRow(c)
    BY <1>1, <1>7, OtherColumn DEF Remove, DropRow
  <1>8. CASE StopSave(c)
    <2> DEFINE u == job[c].t
    <2>1. CASE SetStatus(u, 2)
      BY <1>1, <2>1, OtherColumn
    <2>2. CASE Write(u, [row[u] EXCEPT !.resume = IF tor.full THEN "full" ELSE "part", !.status = 2])
      BY <1>1, <2>2 DEF Write, Better, RowsTyped, Rows
    <2>3. CASE Write(u, NoRow)
      BY <1>1, <2>3, OtherColumn DEF Write
    <2> QED BY <1>8, <2>1, <2>2, <2>3 DEF StopSave
  <1> QED BY <1>3, <1>4, <1>5, <1>6, <1>7, <1>8 DEF Continue

\* The alert thread leaves the rows as good as they were when it handles what is not
\* resume data, metadata or a deletion.
LEMMA AlertsWrite ==
  ASSUME One, DispatchChecked \/ DispatchFinished \/ DispatchMoved, NEW t \in Tasks
  PROVE  Better(t)
  <1>1. RowsTyped
    BY DEF One, Typed
  <1>2. CASE DispatchChecked
    BY <1>1, <1>2, OtherColumn DEF DispatchChecked
  <1>3. CASE DispatchFinished
    <2>1. \/ row' = row \/ SetStatus(al.t, 2)
          \/ \E keep : Write(al.t, Completed(row[al.t], keep))
          \/ \E x : Write(al.t, [row[al.t] EXCEPT !.act = x])
      BY <1>3, Zenon DEF DispatchFinished
    <2> QED BY <1>1, <2>1, OtherColumn DEF Write
  <1>4. CASE DispatchMoved
    BY <1>1, <1>4, OtherColumn DEF DispatchMoved
  <1> QED BY <1>2, <1>3, <1>4

\* What was promised stays so while answers are only added.
LEMMA PromiseKept ==
  ASSUME One, tor.full, tor'.id = tor.id, batch' = batch, UNCHANGED queue \/ Asks \/ Engine
  PROVE  /\ Promised => Promised'
         /\ AllFull(batch, tor.id) /\ AllFull(queue, tor.id)
              => AllFull(batch, tor.id)' /\ AllFull(queue, tor.id)'
  <1>1. /\ AllFull(queue, tor.id) => AllFull(queue, tor.id)'
        /\ Coming(queue, tor.id) => Coming(queue, tor.id)'
    BY StillGood
  <1>2. /\ AllFull(batch, tor.id) => AllFull(batch, tor.id)'
        /\ Coming(batch, tor.id) => Coming(batch, tor.id)'
    BY DEF AllFull, Coming
  <1> QED BY <1>1, <1>2 DEF Promised

\* A step that is not about this task's alerts keeps it settled.
LEMMA SettledKept ==
  ASSUME One, tor.full, tor'.id = tor.id, UNCHANGED <<batch, retry>>,
         UNCHANGED queue \/ Asks \/ Engine, NEW t \in Tasks, Better(t),
         al' = al \/ (al' = AtRest /\ ~At({"saved"})), Settled(t)
  PROVE  Settled(t)'
  <1>1. AllFull(batch, tor.id)' /\ AllFull(queue, tor.id)'
    BY PromiseKept DEF Settled
  <1>2. Safe(t, row[t]) => Safe(t, row[t])'
    BY DEF Safe, Better
  <1>3. CASE al' = al
    BY <1>1, <1>2, <1>3 DEF Settled, Saving, At, Safe
  <1>4. CASE al' = AtRest /\ ~At({"saved"})
    <2>1. ~Saving(t) /\ ~Saving(t)' /\ ~At({"metadata", "deleteFailed"})'
      BY <1>4 DEF Saving, At, AtRest, NoAlert, None
    <2> QED BY <1>1, <1>2, <2>1 DEF Settled
  <1> QED BY <1>3, <1>4

\* Looking up an alert: the answer that matters is popped, or it is still to come.
LEMMA LookUpCovers ==
  ASSUME One, Due, LookUp, phase \in {"saving", "joining"}, NEW t \in due
  PROVE  /\ Promised => Promised' \/ Settled(t)'
         /\ Settled(t) => Settled(t)'
  <1> DEFINE popped == IF batch = <<>> THEN queue ELSE batch
             a == Head(popped)
             g == tor.id
  <1>1. /\ t \in Tasks /\ map[t] = g /\ g # 0 /\ map \in [Tasks -> 0..MaxHandles]
        /\ queue \in Seq(Alerts) /\ batch \in Seq(Alerts)
    BY DEF Due, One, Typed, MemoryTyped, AlertsTyped
  <1>2. t # None /\ TaskOf(g) = t
    BY <1>1, TorrentBounds DEF TaskOf, One, Agreed, None
  <1>3. /\ al = AtRest /\ popped # <<>> /\ batch' = Tail(popped)
        /\ IF batch = <<>> THEN queue' = <<>> ELSE queue' = queue
        /\ UNCHANGED <<row, tor, retry>>
    BY Zenon DEF LookUp
  <1>4. al'.a = a /\ (al'.t = t /\ a.kind \in {"metadata", "deleteFailed"} => al'.old = row[t])
    BY <1>2 DEF LookUp
  <1>5. a.kind = "saved" => al'.t = IF a.g = g THEN t ELSE None
    BY <1>1, <1>2 DEF LookUp, Alive
  <1> HIDE DEF a
  <1>6. Saving(t)' <=> Mine(a, g)
    BY <1>2, <1>4, <1>5 DEF Saving, At, Mine
  <1>7. popped \in Seq(Alerts)
    BY <1>1
  <1>8. /\ AllFull(popped, g) => AllFull(batch', g) /\ (Mine(a, g) => a.full)
        /\ Coming(popped, g) => Coming(batch', g) \/ (Mine(a, g) /\ a.full /\ AllFull(batch', g))
    BY <1>3, <1>7, GoodTaken DEF a
  <1>9. AllFull(<<>>, g) /\ ~Coming(<<>>, g)
    BY DEF AllFull, Coming
  <1>10. ~Saving(t) /\ ~At({"metadata", "deleteFailed"}) /\ UNCHANGED g
    BY <1>3 DEF Saving, At, AtRest, NoAlert, None
  <1>11. ASSUME AllFull(batch', g), AllFull(queue', g), Mine(a, g), a.full PROVE Settled(t)'
    BY <1>4, <1>6, <1>10, <1>11 DEF Settled, Mine, At
  <1>12. ASSUME Settled(t) PROVE Settled(t)'
    <2>1. AllFull(batch', g) /\ AllFull(queue', g) /\ (Mine(a, g) => a.full) /\ Safe(t, row[t])
      BY <1>3, <1>8, <1>9, <1>10, <1>12 DEF Settled
    <2>2. Safe(t, row[t])' /\ (al'.old = row[t] => Safe(t, al.old)')
      BY <1>3, <2>1 DEF Safe
    <2> QED BY <1>4, <1>6, <1>10, <2>1, <2>2 DEF Settled, At
  <1>13. ASSUME Promised PROVE Promised' \/ Settled(t)'
    <2>1. CASE batch = <<>>
      <3>1. Coming(popped, g) /\ queue' = <<>>
        BY <1>3, <1>9, <1>13, <2>1 DEF Promised
      <3>2. Coming(batch', g) => Promised'
        BY <1>9, <1>10, <3>1 DEF Promised
      <3> QED BY <1>8, <1>9, <1>11, <3>1, <3>2
    <2>2. CASE batch # <<>>
      <3>1. queue' = queue
        BY <1>3, <2>2
      <3>2. Coming(queue, g) => Promised'
        BY <1>10, <3>1 DEF Promised
      <3>3. Coming(batch', g) /\ AllFull(queue, g) => Promised'
        BY <1>10, <3>1 DEF Promised
      <3>4. ASSUME Coming(popped, g), AllFull(queue, g) PROVE Promised' \/ Settled(t)'
        BY <1>8, <1>11, <3>1, <3>3, <3>4
      <3> QED BY <1>13, <2>2, <3>2, <3>4 DEF Promised
    <2> QED BY <2>1, <2>2
  <1> QED BY <1>12, <1>13

\* Handling an answer writes it or marks the task for a retry.
LEMMA SavedCovers ==
  ASSUME One, DispatchSaved, NEW t \in Tasks
  PROVE  (Promised => Promised') /\ (Settled(t) => Settled(t)')
  <1>1. /\ At({"saved"}) /\ al' = AtRest /\ UNCHANGED <<tor, queue, batch>>
        /\ t # None /\ row \in [Tasks -> Rows]
    BY TorrentBounds DEF DispatchSaved, Done, engine, One, Typed, RowsTyped, None
  <1>2. Promised => Promised'
    BY <1>1 DEF Promised
  <1>3. ASSUME Settled(t) PROVE Safe(t, row[t])'
    <2>1. CASE al.t = t
      <3>1. al.a.full
        BY <1>1, <1>3, <2>1 DEF Settled, Saving
      <3>2. t \in retry' \/ row' = (IF row[t].here THEN [row EXCEPT ![t].resume = "full"] ELSE row)
        BY <1>1, <2>1, <3>1 DEF DispatchSaved
      <3> QED BY <1>1, <3>2 DEF Safe, Rows
    <2>2. CASE al.t # t
      <3>1. Safe(t, row[t])
        BY <1>3, <2>2 DEF Settled, Saving
      <3>2. row'[t] = row[t] /\ (t \in retry => t \in retry')
        BY <1>1, <2>2 DEF DispatchSaved
      <3> QED BY <3>1, <3>2 DEF Safe
    <2> QED BY <2>1, <2>2
  <1>4. ~Saving(t)' /\ ~At({"metadata", "deleteFailed"})'
    BY <1>1 DEF Saving, At, AtRest, NoAlert, None
  <1>5. AllFull(batch, tor.id) /\ AllFull(queue, tor.id)
           => AllFull(batch, tor.id)' /\ AllFull(queue, tor.id)'
    BY <1>1
  <1> QED BY <1>2, <1>3, <1>4, <1>5 DEF Settled

\* A row that was read earlier and is written back was as good.
LEMMA BackCovers ==
  ASSUME One, DispatchMetadata \/ DispatchDeleted, NEW t \in Tasks
  PROVE  (Promised => Promised') /\ (Settled(t) => Settled(t)')
  <1>1. /\ al' = AtRest /\ UNCHANGED <<tor, queue, batch, retry>>
        /\ At({"metadata", "deleted", "deleteFailed"})
    BY DEF DispatchMetadata, DispatchDeleted, Done, engine, memory, At
  <1>2. t # None /\ row \in [Tasks -> Rows] /\ al.old \in Rows
    BY TorrentBounds DEF One, Typed, RowsTyped, AlertsTyped, Looked, None
  <1>3. Promised => Promised'
    BY <1>1 DEF Promised
  <1>4. ASSUME Settled(t) PROVE Safe(t, row[t])'
    <2>1. Safe(t, row[t]) /\ (At({"metadata", "deleteFailed"}) /\ al.t = t => Safe(t, al.old))
      BY <1>1, <1>4 DEF Settled, Saving, At
    <2>2. ASSUME NEW r, r.here = al.old.here, r.resume = al.old.resume, r \in Rows, WriteBack(al.t, r),
                 At({"metadata", "deleteFailed"})
          PROVE  Safe(t, row[t])'
      <3>1. CASE row'[t] = row[t]
        BY <1>1, <2>1, <3>1 DEF Safe
      <3>2. CASE al.t = t /\ row' = [row EXCEPT ![t] = [r EXCEPT !.act = row[t].act]]
        BY <1>1, <1>2, <2>1, <2>2, <3>2 DEF Safe, Rows
      <3> QED BY <1>2, <2>2, <3>1, <3>2 DEF WriteBack
    <2>3. CASE DispatchMetadata
      <3>1. \A r \in Rows : /\ [r EXCEPT !.source = TRUE] \in Rows
                            /\ [r EXCEPT !.source = TRUE].here = r.here
                            /\ [r EXCEPT !.source = TRUE].resume = r.resume
        BY DEF Rows
      <3> QED BY <1>2, <2>2, <2>3, <3>1 DEF DispatchMetadata, At
    <2>4. CASE DispatchDeleted
      <3>1. \A r \in Rows : /\ [r EXCEPT !.status = 4] \in Rows
                            /\ [r EXCEPT !.status = 4].here = r.here
                            /\ [r EXCEPT !.status = 4].resume = r.resume
        <4>1. 4 \in 1..4
          OBVIOUS
        <4>2. \A r \in Rows : [r EXCEPT !.status = 4] \in Rows /\ [r EXCEPT !.status = 4].here = r.here
          BY <4>1, RowUpdated, Zenon
        <4>3. \A r \in Rows : [r EXCEPT !.status = 4].resume = r.resume
          BY DEF Rows
        <4> QED BY <4>2, <4>3, Zenon
      <3>2. CASE row' = row
        BY <1>1, <2>1, <3>2 DEF Safe
      <3>3. CASE al.t # None /\ row' = [row EXCEPT ![al.t] = NoRow]
        BY <1>1, <1>2, <2>1, <3>3 DEF Safe, NoRow
      <3>4. CASE At({"deleteFailed"}) /\ WriteBack(al.t, [al.old EXCEPT !.status = 4])
        BY <1>2, <2>2, <3>1, <3>4 DEF At
      <3> QED BY <2>4, <3>2, <3>3, <3>4 DEF DispatchDeleted
    <2> QED BY <2>3, <2>4
  <1>5. ~Saving(t)' /\ ~At({"metadata", "deleteFailed"})'
    BY <1>1 DEF Saving, At, AtRest, NoAlert, None
  <1>6. AllFull(batch, tor.id) /\ AllFull(queue, tor.id)
           => AllFull(batch, tor.id)' /\ AllFull(queue, tor.id)'
    BY <1>1
  <1> QED BY <1>3, <1>4, <1>5, <1>6 DEF Settled

\* No shutdown that waits for its answers goes down before the last one about what is
\* due has been handled.
LEMMA CoveredNext == ASSUME One, Counted, Due, Covered, [Next]_vars PROVE Covered'
  <1> SUFFICES ASSUME ~lapsed', NEW t \in due'
               PROVE  /\ phase' = "saving" => Promised' \/ Settled(t)'
                      /\ phase' = "joining" => Settled(t)'
                      /\ phase' = "down" => Safe(t, row[t])'
    BY DEF Covered
  <1>1. /\ t \in Tasks /\ phase' # "up" /\ phase' \in {"saving", "joining", "down"}
        /\ queue \in Seq(Alerts) /\ batch \in Seq(Alerts)
    BY DueNext, MemoryNext DEF Due, MemoryTyped, One, Typed, AlertsTyped
  <1>2. CASE SaveAllResumeData
    <2>1. Mapped(t) /\ tor.full /\ Request(tor) /\ phase' = "saving" /\ tor.id # 0
      BY <1>2, Zenon DEF SaveAllResumeData, Mapped, Alive
    <2>2. queue' = queue \o <<Saved(tor.id, TRUE)>> /\ tor'.id = tor.id
      BY <2>1 DEF Request, One, Typed, TorTyped, Torrents
    <2>3. Saved(tor.id, TRUE) \in Alerts /\ Mine(Saved(tor.id, TRUE), tor.id)
      BY <2>1, Alerted DEF One, Typed, Saved, Mine
    <2>4. Coming(queue \o <<Saved(tor.id, TRUE)>>, tor.id)
      BY <1>1, <2>3, GoodPosted DEF Saved
    <2>5. Promised'
      BY <2>2, <2>4 DEF Promised
    <2> QED BY <2>1, <2>5
  <1>3. CASE StopWait /\ phase = "saving" /\ phase' = "joining"
    <2>1. /\ ~lapsed /\ pending = 0 /\ queue' = <<>> /\ t \in due
          /\ UNCHANGED <<row, tor, batch, al, retry>>
      <3>1. ~lapsed /\ ~(pending > 0)
        BY <1>3, Zenon DEF StopWait
      <3> QED BY <1>3, <3>1 DEF StopWait, ProcessOnly, memory, thread, Counted
    <2>2. Answers(queue) = 0 /\ Answers(batch) = 0 /\ ~At({"saved"})
      <3>1. Answers(queue) \in Nat /\ Answers(batch) \in Nat
        BY <1>1, AwaitedFinite
      <3> QED BY <2>1, <3>1 DEF Counted
    <2>3. ~Promised
      BY <1>1, <2>2, NoneComing DEF Promised
    <2>4. Settled(t)
      BY <1>3, <2>1, <2>3 DEF Covered
    <2>5. Settled(t)'
      BY <2>1, <2>4 DEF Settled, AllFull, Saving, Safe, At
    <2> QED BY <1>3, <2>5
  <1>4. CASE StopSession /\ phase = "joining" /\ phase' = "down"
    <2>1. ~lapsed /\ t \in due /\ al = AtRest /\ UNCHANGED <<row, retry>>
      BY <1>4 DEF StopSession
    <2>2. Settled(t) /\ ~Saving(t)
      BY <1>4, <2>1 DEF Covered, Saving, At, AtRest, NoAlert, None
    <2> QED BY <1>4, <2>1, <2>2 DEF Settled, Safe
  <1>5. CASE phase = "down" /\ phase' = "down"
    <2>1. UNCHANGED <<due, lapsed, row, retry>>
      BY <1>5, DownIsDown DEF Restart, Launch, vars, history, memory
    <2> QED BY <1>5, <2>1 DEF Covered, Safe
  <1>6. CASE phase' = phase /\ phase \in {"saving", "joining"}
    <2>1. t \in due /\ tor'.id = tor.id /\ tor.full
      BY <1>6, DuePinned DEF Due
    <2> DEFINE Kept == (Promised => Promised' \/ Settled(t)') /\ (Settled(t) => Settled(t)')
    <2>2. ASSUME ~lapsed, Kept
          PROVE  /\ phase' = "saving" => Promised' \/ Settled(t)'
                 /\ phase' = "joining" => Settled(t)'
                 /\ phase' = "down" => Safe(t, row[t])'
      BY <1>6, <2>1, <2>2 DEF Covered
    <2>3. ASSUME Better(t), UNCHANGED <<batch, retry>>, UNCHANGED queue \/ Asks \/ Engine,
                 al' = al \/ (al' = AtRest /\ ~At({"saved"}))
          PROVE  Kept
      BY <1>1, <2>1, <2>3, PromiseKept, SettledKept
    <2>4. CASE Engine
      <3>1. UNCHANGED <<row, batch, al, retry, lapsed>>
        BY <2>4 DEF Engine, GetMetadata, Check, Download, Moved, Erased, EngineOnly, memory, thread,
           history
      <3> QED BY <2>2, <2>3, <2>4, <3>1 DEF Better
    <2>5. CASE LookUp
      <3>1. ~lapsed
        BY <2>5, Zenon DEF LookUp
      <3> QED BY <1>6, <2>1, <2>2, <2>5, <3>1, LookUpCovers
    <2>6. CASE DispatchChecked \/ DispatchFinished \/ DispatchMoved
      <3>1. (Done \/ Throw) /\ ~At({"saved"}) /\ retry' = retry
        BY <2>6 DEF DispatchChecked, DispatchFinished, DispatchMoved, At
      <3>2. ~lapsed /\ al' = AtRest /\ batch' = batch
        <4>1. CASE Done
          BY <4>1 DEF Done
        <4>2. CASE Throw
          <5>1. ~lapsed /\ batch = <<>>
            BY <4>2, Zenon DEF Throw
          <5> QED BY <4>2, <5>1 DEF Throw
        <4> QED BY <3>1, <4>1, <4>2
      <3>3. UNCHANGED queue \/ Asks
        BY <2>6, Requests
      <3> QED BY <1>1, <2>2, <2>3, <2>6, <3>1, <3>2, <3>3, AlertsWrite
    <2>7. CASE DispatchSaved \/ DispatchMetadata \/ DispatchDeleted
      <3>1. ~lapsed
        BY <2>7 DEF DispatchSaved, DispatchMetadata, DispatchDeleted, Done
      <3> QED BY <1>1, <2>2, <2>7, <3>1, SavedCovers, BackCovers
    <2>8. ASSUME NEW c \in Callers, Continue(c)
          PROVE  /\ phase' = "saving" => Promised' \/ Settled(t)'
                 /\ phase' = "joining" => Settled(t)'
                 /\ phase' = "down" => Safe(t, row[t])'
      <3>1. UNCHANGED <<batch, al, lapsed, retry>>
        BY <2>8 DEF Continue, Add, MapAdded, Restore, MapRestored, Pause, Resume, ForceRecheck,
           StopSave, StopErase, Remove, DropRow, CallerOnly, thread, memory
      <3>2. UNCHANGED queue \/ Asks
        <4>1. CASE MapAdded(c) \/ MapRestored(c) \/ Pause(c) \/ Resume(c)
          BY <4>1, Requests
        <4>2. CASE \/ Add(c) \/ Restore(c) \/ ForceRecheck(c) \/ StopSave(c) \/ StopErase(c)
                   \/ Remove(c) \/ DropRow(c)
          BY <4>2 DEF Add, Restore, ForceRecheck, StopSave, StopErase, Remove, DropRow, engine
        <4> QED BY <2>8, <4>1, <4>2 DEF Continue
      <3>3. Better(t)
        BY <1>6, <2>1, <2>8, CommandsWrite
      <3> QED BY <2>2, <2>3, <3>1, <3>2, <3>3
    <2>9. CASE UNCHANGED vars
      <3>1. UNCHANGED <<row, tor, queue, batch, al, retry, lapsed>>
        BY <2>9 DEF vars, engine, memory, thread, history
      <3> QED BY <2>2, <2>3, <3>1 DEF Better
    <2> HIDE DEF Kept
    <2> QED BY <1>6, <2>4, <2>5, <2>6, <2>7, <2>8, <2>9 DEF Next, AlertThread, Dispatch, Checkpoint,
            ShutDown, SaveAllResumeData, StopWait, StopSession, Restart, Crash, Launch, Begin, Stop
  <1> QED BY <1>1, <1>2, <1>3, <1>4, <1>5, <1>6, Phases DEF One, Typed, MemoryTyped

-----------------------------------------------------------------------------
(* The theorems. *)

Inv == One /\ Counted /\ RemovalsTyped /\ RowsKept /\ Due /\ Covered

\* The invariant holds at the start.
LEMMA InvInit == ASSUME Init PROVE Inv
  <1>1. RowsTyped
    <2>1. NoRow \in Rows
      BY DEF NoRow, Rows
    <2>2. [here : {TRUE}, status : {1, 2}, resume : {"part"}, act : {"ask"}, source : {TRUE}]
            \subseteq Rows
      <3>1. {1, 2} \subseteq 1..4
        OBVIOUS
      <3> QED BY <3>1 DEF Rows
    <2> QED BY <2>1, <2>2 DEF Init, RowsTyped
  <1>2. TorTyped /\ tor = NoTorrent
    BY HandlesBound DEF Init, TorTyped, NoTorrent, Torrents, None
  <1>3. MemoryTyped
    BY HandlesBound DEF Init, MemoryTyped, None
  <1>4. AlertsTyped
    BY AtRestLooked DEF Init, AlertsTyped
  <1>5. JobsTyped /\ \A c \in Callers : job[c].pc = "idle"
    BY HandlesBound DEF Init, JobsTyped, Jobs, Idle, Pcs
  <1>6. Exclusive /\ Agreed /\ RowsKept
    BY <1>2, <1>5 DEF Init, Exclusive, Agreed, RowsKept, MappedHasRow, Entering, Stopping, NoTorrent
  <1>7. Counted
    BY NoneAwaited DEF Init, Counted, At, AtRest, NoAlert, None
  <1>8. RemovalsTyped
    BY DEF Init, RemovalsTyped
  <1>9. Due /\ Covered
    BY DEF Init, Due, Covered
  <1> QED BY <1>1, <1>2, <1>3, <1>4, <1>5, <1>6, <1>7, <1>8, <1>9 DEF Inv, One, Typed

\* The inductive invariant holds in every reachable state.
THEOREM TasksInvariant == Spec => []Inv
  <1>1. Inv /\ [Next]_vars => Inv'
    BY TypedNext, ExclusiveNext, AgreedNext, CountedNext, RemovalsNext, RowsKeptNext, DueNext,
       CoveredNext DEF Inv, One
  <1> QED BY InvInit, <1>1, PTL DEF Spec

\* Every variable keeps to its values, and the count the shutdown waits on is never
\* below the answers still to be handled: it does not reach zero early.
THEOREM TasksTyped == Spec => []TypeOK
  <1>1. Inv => TypeOK
    BY DEF Inv, One, Typed, RowsTyped, TorTyped, MemoryTyped, AlertsTyped, Looked, Counted, TypeOK
  <1> QED BY TasksInvariant, <1>1, PTL

\* While nobody holds m_addRemoveMutex the torrent in the session is mapped to one
\* task and the map names nothing else, for any threads, commands and failures.
THEOREM OneTaskPerTorrentHolds == Spec => []OneTaskPerTorrent
  <1>1. Inv => OneTaskPerTorrent
    <2> SUFFICES ASSUME Inv, ~Locked PROVE /\ \A t \in Tasks : map[t] \in {0, tor.id}
                                           /\ tor # NoTorrent => \E t \in Tasks : map[t] = tor.id
                                           /\ \A t, u \in Tasks : map[t] # 0 /\ map[t] = map[u] => t = u
      BY DEF OneTaskPerTorrent
    <2>1. \A c \in Callers : ~Entering(c)
      BY DEF Locked, Entering
    <2> QED BY <2>1 DEF Inv, One, Agreed, Typed, TorTyped
  <1> QED BY TasksInvariant, <1>1, PTL

\* A mapped torrent has a row, unless the alert of deleted files or the window's
\* DeleteAsync, which do not take the mutex, took the last one away.
THEOREM MappedHasRowHolds == Spec => []MappedHasRow
  <1>1. Inv => MappedHasRow
    BY DEF Inv, RowsKept
  <1> QED BY TasksInvariant, <1>1, PTL

\* After an orderly shutdown whose wait was not cut short, every complete torrent that
\* was mapped when it began has its pieces in its row or is marked for a retry.
THEOREM ShutdownKeepsProgressHolds == Spec => []ShutdownKeepsProgress
  <1>1. Inv => ShutdownKeepsProgress
    BY DEF Inv, Due, Covered, Safe, ShutdownKeepsProgress
  <1> QED BY TasksInvariant, <1>1, PTL

\* The row of a task whose files go outlives them: it goes when libtorrent reports
\* that they are gone, or the window drops it.
THEOREM RowOutlivesFilesHolds == Spec => RowOutlivesFiles
  <1> DEFINE Outlives == \A t \in Tasks : asked'[t] = "files" /\ row[t].here /\ ~row'[t].here
                                          => At({"deleted"})
  <1>1. ASSUME Inv, [Next]_vars PROVE Outlives
    <2>0. One /\ RowsTyped /\ RemovalsTyped /\ AlertsTyped /\ JobsTyped
      BY <1>1 DEF Inv, One, Typed
    <2>1. Stays(row') => Outlives
      BY DEF Stays
    <2>2. Keeping => Outlives
      BY <2>0, <2>1, RowsStay
    <2>3. CASE DispatchDeleted
      <3>1. al.t \in Tasks \cup {None} /\ al.old \in Rows
        BY <2>0 DEF AlertsTyped, Looked
      <3>2. [al.old EXCEPT !.status = 4] \in Rows
        <4>1. 4 \in 1..4
          OBVIOUS
        <4> QED BY <3>1, <4>1, RowUpdated, Zenon
      <3>3. WriteBack(al.t, [al.old EXCEPT !.status = 4]) => Stays(row')
        BY <2>0, <3>1, <3>2, WroteBack
      <3>4. row' = row => Stays(row')
        BY DEF Stays
      <3> QED BY <2>1, <2>3, <3>3, <3>4 DEF DispatchDeleted
    <2>4. ASSUME NEW c \in Callers, Remove(c) PROVE Outlives
      BY <2>0, <2>4 DEF Remove, RemovalsTyped, RowsTyped, JobsTyped
    <2>5. ASSUME NEW c \in Callers, DropRow(c) PROVE Outlives
      BY <2>0, <2>5 DEF DropRow, RemovalsTyped, RowsTyped, JobsTyped
    <2> HIDE DEF Outlives
    <2> QED BY <1>1, <2>2, <2>3, <2>4, <2>5 DEF Keeping, Next, AlertThread, Dispatch, Continue
  <1>2. Inv /\ [Next]_vars => [Outlives]_vars
    BY <1>1
  <1> QED BY TasksInvariant, <1>2, PTL DEF Spec, RowOutlivesFiles
=============================================================================
