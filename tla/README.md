# Verification of OpenNet

OpenNet is a Windows download manager (C++/WinRT). It drives two engines, an aria2
process for HTTP and libtorrent in the process, and a content layer that catalogues what
has been downloaded and seeds it again on demand. This directory models the parts of
that program in which threads, engines, the database and the network can interleave, in
TLA+; checks them with TLC on small instances; and proves the most important results
with TLAPS for every instance.

## 1. The system

### Components

| Component | State it keeps | Operations | Hard behaviour | What makes it correct |
|---|---|---|---|---|
| `DownloadManager`, HTTP hybrid | `m_canonicalHybrids`, the probe, suppressed and paused sets, two job queues, last statuses | add, pause, resume, delete; discovery thread, two worker threads, refresh thread; recovery; shutdown | six kinds of threads over one mutex, decisions used after unlock, crash between any two writes | one writer per file; only a verified payload completes; recovery finds the owner |
| `TaskCommandService` | none | pause, resume, delete of a task, each on a background thread | commands of one task interleave | what the user asked for last holds |
| `HttpStateManager` | rows of `http_download_records` | insert, update of status, engine, pause flag | durable, written by every thread | the row names the engine that owns the file |
| `Aria2Engine`, JSON-RPC | one aria2 process with its session file | add, pause, unpause, remove, tell | lost calls, restart restores unfinished tasks | a completed download does not come back |
| `P2PManager`, `LibtorrentHandle`, `TorrentStateManager` | torrent session, hidden long-seed sessions, user torrents; rows with status and resume data | add, restore, pause, resume, recheck, stop, remove; alert loop; checkpoint; shutdown | alerts race commands and shutdown; files are deleted and moved asynchronously | one task per torrent; what runs has a row; progress and completion are not lost |
| `ContentDirectorySyncService` | three revisions, generation, lease, pending registration (durable), tracked seed sessions | start, stop, mark dirty; register, heartbeat, announce, wake up | catalog changes during a request, lost answers, crashes between writes, lapsed leases | no change is lost; a lost answer can be repeated; it gets back in |
| `ContentCatalogService`, `SqliteContentCatalog` | durable jobs with a generation, records, locations, aliases | enqueue, hash, complete, scan, validate | file changes while hashed, stale worker, crash between hash and acknowledgement | a record is bound only to the bytes that were hashed; jobs survive |
| NAT mapping (UDP, TCP) | flags, snapshot, STUN transaction, relays, worker | start, stop, new target, network recovery | answers and relays of an old network; flags set in several steps | no stale address or relay; the target is followed; a stop returns |
| Metadata fetcher | one fetch with a deadline | fetch, cancel | late completion | not modelled |
| IP filter, client filter | rule sets, bans | load, merge, ban | range edges, expiry | an address is blocked iff a rule covers it |
| RSS | subscriptions and items, in memory and in rows | subscribe, edit, remove, refresh; loop; download | fetches overlap, and race edits and removal | an item is downloaded once; nothing old is downloaded; rows agree with memory |
| `AppRuntime`, `AppEnvironment`, `App.xaml.cpp` | which services run | start, suspend, shut down | an awaited start after a stop | order of start and shutdown |
| `async_command` (MVVM) | executing flag | execute, cancel | re-entry | one execution at a time |
| Settings, graphs, GeoIP, file operations, Web UI, view models, platform services | | | I/O and presentation | not modelled, see PROJECT.json |

### How they interact

* The user interface calls `TaskCommandService`, which runs each command on a background
  thread and calls `DownloadManager` for HTTP tasks and `P2PManager` for torrents.
* `DownloadManager` calls aria2 over JSON-RPC (exceptions are swallowed), `P2PManager`
  for hidden sessions named `http-hybrid:<gid>`, `HttpStateManager` for the rows, and
  hands completed files to `ContentCatalogService`.
* `ContentCatalogService` hashes files on a thread of its own, stores records, and tells
  `ContentDirectorySyncService` through a callback that something changed.
* `ContentDirectorySyncService` keeps the remote directory informed, and opens hidden
  seeding sessions through `P2PManager` when the directory asks for a file.
* At exit `App.xaml.cpp` stops the sync service, then P2P, then downloads, then the
  catalog.

## 2. Modules

| Module | Contents |
|---|---|
| `HttpHybrid` | the canonical HTTP hybrid: the core of `DownloadManager` with its callers, threads, engines, recovery and shutdown |
| `MCHttpHybrid` | its small instances |
| `HttpHybridProofs` | proofs of `TypeOK`, `CompleteShellGone` and `NotStranded` |
| `HttpHybridOwners` | proofs of `SingleWriter` and `DurableOwner` without `Resume` |
| `HttpHybridPaths` | proofs of `AriaOwnsPath` and `VerifiedCompletion` without `Resume` |
| `DirectorySync` | `ContentDirectorySyncService` and, external, the directory it talks to |
| `DirectorySyncProofs` | proofs of `TypeOK`, `RepeatPossible`, `Lossless`, `ResourcesKnown` |
| `ContentCatalog` | `ContentCatalogService` and the tables under it: submissions, queue, worker, scan |
| `ContentCatalogProofs` | proofs of `TypeOK`, `Bound`, `AliasTrue`, `QueueCovers` and of the refinement `JobsDurable` |
| `DurableJobs` | abstract: what the catalog promises of its queue; `ContentCatalog` implements it |
| `TorrentTasks` | torrents the user sees: `LibtorrentHandle`, their rows, the alert thread, shutdown |
| `TorrentTasksProofs` | proofs of `TypeOK`, `OneTaskPerTorrent`, `MappedHasRow`, `RowOutlivesFiles`, `ShutdownKeepsProgress` |
| `NatMapping` | the UDP and the TCP mapping service with the monitor of the application |
| `NatMappingProofs` | proofs of `TypeOK`, `FreshObservation`, `RelaysCurrent` |
| `RssFeeds` | a subscription, its fetches, items and automatic downloads |
| `RssFeedsProofs` | proofs of `TypeOK`, `RowsAgree`, `AutoOnce`, `OnlyNew`, `StoredShown` |
| `MCDirectorySync`, `MCContentCatalog`, `MCTorrentTasks`, `MCNatMapping`, `MCRssFeeds` | their small instances |

The modules are not composed into one: they meet in few, narrow calls, and each models
its neighbours by the calls it sees. `HttpHybrid` ends a download with the hand-over to
the catalog (`catalog`), which is where `ContentCatalog` begins (`Fingerprint`,
`Persist`); `ContentCatalog` tells `DirectorySync` only that something changed
(`MarkDirty`), and `DirectorySync` asks it for the scan of a file (`ScanFind`).

### HttpHybrid

A download enters through `AddHttpDownload` as a *paused* aria2 task, the control shell.
The discovery thread looks for trusted canonical metadata: without, it resumes aria2;
with, it queues the download for one of two workers, which opens a hidden libtorrent
session on the same path, polls it, verifies the SHA-256 and leaves the state Ready. The
refresh thread promotes it: removes the shell, completes the row, hands the file to the
catalog. If anything fails, the worker closes the session, removes the incomplete file
and lets aria2 have the path.

How state corresponds to code:

| Variable | Code |
|---|---|
| `status`, `engine`, `pausedRec` | columns of a row of `http_download_records` (`HttpStateManager`) |
| `catalog` | downloads `ContentCatalogService` has a durable job for |
| `file` | the bytes at the target path: absent, aria2's, libtorrent's, verified, or both engines' |
| `aria`, `ariaDone`, `last` | status of the aria2 task, whether `CompletedLength` is not 0, and `m_lastHttpStatuses` |
| `sess` | the hidden session in `m_longSeedSessions` |
| `phase`, `cancel`, `hpaused`, `queued` | fields of `CanonicalHybridState` (`phase`, `cancelRequested`, `userPaused`, `workerQueued`) |
| `probe`, `suppressed`, `userPaused` | `m_hybridProbeGids`, `m_canonicalHybridSuppressedGids`, `m_userPausedHttpGids` |
| `djobs`, `hjobs` | `m_resourceDiscoveryJobs`, `m_canonicalHybridJobs` |
| `disc`, `work`, `call`, `refr`, `rcv` | program counter and locals of the discovery thread, each worker, each caller, the refresh thread and recovery |
| `run` | the life of the process |

One action is one critical section of `m_canonicalHybridMutex`, one database write, one
RPC, one file removal or one libtorrent call: exactly the points between which the
threads of the code interleave. What a thread read under the mutex and uses later is
kept in its locals (`disc.resume`, `call.owned`, `refr.seen`, ...), so that decisions
become stale in the model as they do in the code. The refresh thread looks at a state
twice, once to hold an error back (`RefrPending`) and once for the snapshot it writes
from (`RefrSnapshot`), and the state may change in between. aria2's `InstanceLock` is held through
`AddHttpDownload` and through the end of a deletion (`RpcFree`). The refresh thread
releases it between two downloads in the model, while the code keeps it for a pass over
all of them: the model has more behaviours.

A crash (`Crash`) ends the process at any point; a shutdown joins the threads in the
code's order. Both kill aria2 with the process, as its job object does
(`Aria2Engine.cpp:513`). What survives is SQLite, the files, and aria2's session file,
which is saved every second (`Aria2Engine.cpp:640`) and taken as current. `Restart`
brings aria2's tasks back and computes recovery's plan from the rows.

Not in this module: claiming the output path, matching restored GIDs with rows, clearing
of completed tasks, the `Aria2Only` policy (which never touches libtorrent), and
`RemoveHttpDownload` and `CancelHttpDownload`, which nothing calls.

### DirectorySync

`wk` is the program counter of `WorkerLoop` and its locals; `sync` is the three
revisions guarded by `m_mutex`; `db` is what the settings hold durably and `mem` the
worker's copies of it; `srv` is the directory's record of this node; `net` the
registrations under way. Each durable write of the code is an action of its own, because
a crash between two of them is what the protocol has to survive. Registration ids,
leases and generations are numbers in the order they are drawn.

Registration is split into sending, processing at the server and receiving. The other
requests change nothing that matters if they are cut in the middle, so each is one
action with an outcome: done, done but the answer lost, not done. The directory's
behaviour is not in this repository. It is modelled from what the client sends and
relies on and from sections 10 to 12 of `docs/long-term-seeding-architecture.md`, as
external: an older generation is refused, a newer one needs the lease that is active,
the same generation is accepted again under the same registration id, and an accepted
registration replaces the inventory. Where that leaves a choice the choice is a
constant: `LateRequests` (may a request arrive after the client's timeout) and
`ServerForgets` (does the directory purge a lapsed node).

An exception that the loop does not catch itself ends the worker for good
(`WorkerThrows`): the catch at `ContentDirectorySyncService.cpp:489-499` closes the tracked
sessions and lets the thread return, while `m_started` stays set. SQLite throws it when
the snapshot is read (`:203`, `:303`), `EnsureCanonicalPieceLayer` when it scans (`:368`).
Requests to the directory throw nothing (`ContentDirectoryClient` catches everything and
answers nothing), and a settings write that fails is ignored (section 6). Only a Stop and
a Start bring the service back.

Every content stands for one with a BEP 52 root and one resource key; those
without are skipped by the announcement loop.

### ContentCatalog and DurableJobs

`row` is `content_pending_job` with its aliases, `loc`, `recs`, `layer` and `res` the
tables of locations, records, piece layers and resource keys; `queue` is `m_jobs`; `sub`
is a thread inside `EnqueueFile` between reading the fingerprint and taking the mutex;
`wk` and `scan` are the program counters and locals of the worker and of
`EnsureCanonicalPieceLayer`. A fingerprint is size and time of the last write, and the
model gives every write a fresh one: a file that changes without changing either is
outside what the code can notice. What hashing makes of a file that changes while it is
read may be the identity of any bytes. The worker reads a record, adds to it and writes
it back in two critical sections, and so does the scan: the copies are in `wk.locs` and
`scan.locs`.

`DurableJobs` has three variables, the fingerprint on disk, the one pending and the pairs
committed, and one rule: what is pending is given up only when that version is committed
or no longer on disk. `JobsDurable` says that `ContentCatalog` implements it, with
`pending` the fingerprint in the row, over crashes, shutdowns and failures.

### TorrentTasks

One torrent, by its info hash: every added torrent has its own map entries, row and
alerts, and what several share (the alert thread, the mutexes) can only delay one. `map`
is `m_taskIdToHandle`, `tor` the torrent libtorrent has in its session, `queue` its
undispatched alerts, `batch` those the alert thread has popped, `al` the alert it is
handling with what it has read; `job` is the command each caller runs. An action is one
critical section, one database write or one call of libtorrent. A call on the handle of
a torrent that has left throws, and the rest of the batch is lost with it, as in
`AlertLoop`'s catch; `lapsed` remembers that. libtorrent itself is external: it checks,
downloads, moves, deletes and answers in its own time, and a torrent that enters the
session is given a fresh handle.

### NatMapping

The two services share `Start`, `Stop`, the snapshot and the recovery flag, so that one
module models both. The flags are atomics of their own in the code, and each access is an
action. `Start` with an automatic target that is the *configured* local port changes
nothing (`UdpMappingService.cpp:150-153`) and is a stutter here; with a local port of 0, as
the view model has it, the system chooses the port, `Start` goes on, and the worker finds
the two equal when it has bound (`:281`): this is the model's Start with the target
`Bound`. `route` counts network configurations; a STUN transaction is known by the route
and the server of its request, and the answer matches only the last one. What the worker
waits for outside (a resolution, an answer, a peer, an expiry) is a choice of its step,
so it may happen at any turn, or never.

### RssFeeds

Items are numbered in the order of their publication; the document lists the newest
`Window` of them, and `Limits` are the values the setting `max_items_per_feed` takes, read
anew at each pruning. A fetch reads the url under the mutex, asks the network without it,
takes it again for `ProcessNewItems`, and writes the row, calls back and starts downloads
after it; `fetch` holds what each of them has got to. `ProcessNewItems` is two actions,
because it makes two things durable: `InsertItems` commits the rows in a transaction of
its own (`RSSDatabase.cpp:296-341`), and `PruneItems` deletes the oldest in a later
statement (`RSSManager.cpp:421`). In between the fetch holds the mutex (`Locked`), so no
other thread comes between them, but the end of the process does: the restart then loads
more than the limit, and the next document inserts nothing.

`mem` is `m_feeds`, `db` the two tables. Updating a feed deletes its stored items, because
`UpsertFeed` is an `INSERT OR REPLACE` on a table the items refer to with `ON DELETE
CASCADE` (`RSSDatabase.cpp`). The properties are about one subscription: `sent`, `known`
and `lost` start anew with each, because a subscription that is removed and made again has
no memory of the one before. `lost` is the one exception they make: an item that left the
list (by pruning, or by an exit before its row was written again) while a document that
lists it was still to come. The list is all that tells the code what it has seen, so such
an item is new again.

## 3. Runs

All runs are small enough to finish in seconds to a few minutes.

| Run | Question | Bounds |
|---|---|---|
| `hybrid_transfer` | Does ownership of a path pass safely from aria2 to libtorrent and back? `TypeOK`, `SingleWriter`, `AriaOwnsPath`, `DurableOwner`, `CompleteShellGone`, `VerifiedCompletion` | one download, two workers, two commands (Pause, Delete), one crash or shutdown, lost calls |
| `hybrid_resume` | Can commands strand a download? `NotStranded` | three commands of any kind |
| `hybrid_live` | Is every probe resolved, does a deleted download stop, does a verified one get promoted and catalogued? `ProbeResolved`, `DeletedStops`, `Promoted`, `Catalogued` (liveness) | one worker, one command (Pause, Delete), two crashes or shutdowns |
| `sync_lossless` | Is a change of the catalog or a resource ever lost? `TypeOK`, `Lossless`, `ResourcesKnown` | two contents, two changes, two losses or exceptions, one wakeup, one crash or stop |
| `sync_converges` | Can a committed registration always be repeated, and does the client get back in? `RepeatPossible`, `Converges` (liveness) | late requests, purges, two changes, two losses or exceptions, one crash or stop; a dead worker may be stopped as well |
| `catalog_jobs` | Is a job ever lost or a record bound to the wrong bytes? `TypeOK`, `Bound`, `AliasTrue`, `QueueCovers`, `JobsDurable` (refinement), `JobsFinish` (liveness) | two paths, two kinds of bytes, one alias, two writes, two submissions, one scan, one failure, one crash or shutdown |
| `torrent_tasks` | Do torrents, map and rows stay together, and does progress reach the row? `TypeOK`, `OneTaskPerTorrent`, `MappedHasRow`, `RowOutlivesFiles`, `ProgressReachesRow`, `CompletionSettles` (liveness) | commands of two callers, two entries into the session, one failure, every choice of move, recheck and seeding |
| `torrent_shutdown` | Does an orderly shutdown keep what was downloaded? `ShutdownKeepsProgress` | the same, with rechecks and one crash or shutdown |
| `nat_mapping` | Is a stale address or relay ever kept, is the target followed, does a stop return? `TypeOK`, `FreshObservation`, `RelaysCurrent`, `StaleCleared`, `TargetFollows`, `StopReturns` | both services, two servers, two networks, one remote and one relay, one change of the listener, two commands |
| `rss_feeds` | Is an item downloaded twice, or one that is not new, and is what is stored shown? `TypeOK`, `AutoOnce`, `OnlyNew`, `RowsAgree`, `StoredShown` | three items (one without a guid), two listed, one or two kept, two fetches, two subscriptions, one change of the settings, one exit |

One download is enough. Each state of the manager is keyed by its GID; what downloads
share is threads, queues and mutexes, so another download can only make a thread late,
which one download already meets as an arbitrary delay. The proofs of section 5 hold for
any number. Two workers matter because a Resume can put the same download into both
(`one_writer_broken`); without Resume a download is one token (`OneToken`, proved), so
`hybrid_live` has one. Two commands make every pair of commands meet, three allow Pause
and Resume around a third. A crash can come at any step, so one crash finds every window
of the running program, and the second, in `hybrid_live`, those of recovery. Lost calls
are excluded there: an aria2 that never answers keeps a download from being promoted. In
the sync service the interesting histories need a change during a request whose answer
is lost, and a crash around the writes: two changes, two losses, one crash contain all
of them. Without bounds the revision and generation counters grow for ever; the
properties only compare them.

In the catalog one failure and one crash can fall between any two steps, and two
submissions of one path meet with the worker on the older. Two callers and two handles
let any two torrent commands overlap and a torrent leave and come back while alerts of
its first life are under way. Two networks and one notification give an answer, a relay
and a recovery every order; two commands give Stop then Start with the monitor between
any two of their steps. With one remote the relay cap never binds in the run; the theorem
covers it. With three items of which two are listed and one or two kept, the limit may be
shorter than the document or equal to it, an item is pruned while it is listed and comes
back, a second fetch brings an old answer, and the one exit falls between any two writes;
the proofs have no bound on any of them.

Deadlock checking is off where the program really stops: an idle manager, catalog,
session, mapping or feed with no command left. It is on for `MCDirectorySync`, whose loop
never stops unless by an exception, after which the service can still be stopped.

### Runs that find a disagreement

| Run | What it shows |
|---|---|
| `one_writer_broken` | A Resume between the discovery thread's decision and its act starts a second probe: aria2 and libtorrent write one file, which the architecture document rules out. |
| `delete_row_broken` | A deletion with files from the window drops the row at once; when libtorrent then fails to delete them, the error state the audit document promises has no row to be recorded in. |

The first is why `hybrid_transfer` and the proofs of section 5 exclude `Resume`: with it
`SingleWriter` is false.

## 4. Fairness

`HttpHybrid`: each thread keeps running. The mutexes are released between two passes of
their holders (the refresh thread sleeps up to a second without `InstanceLock`), so no
waiter is overtaken for ever: strong fairness for the threads that compete. A worker's
download without progress reaches its deadline, hence fairness of the timeout. Nothing
is assumed of aria2, libtorrent or the user, except that a program that has stopped is
started again, without which nothing durable could ever be recovered.

`DirectorySync`: the loop turns, callbacks run, the directory answers what reaches it,
and a lease nobody renews lapses after its 300 seconds. The heartbeat period is a clock,
so a loop that keeps finding nothing to register finds the heartbeat due again and
again: strong fairness of `TopBeat`. Calls may be lost and exceptions thrown, but only
`MaxLosses` times. The loop turns only as long as it has not thrown: `WorkerThrows` is no
part of it and has no fairness, nothing leads on from a dead worker but the user's Stop, and
`Converges` excepts a worker that has ended this way.

`ContentCatalog`: the worker keeps running, and a program that ended is started again.
`TorrentTasks`: the alert thread runs (it polls with a time-out), libtorrent ends a move
it has begun, commands that began go on; no peer needs to have the pieces. `NatMapping`:
every thread runs; `WF` of the worker does not force an answer, only a step.
`RssFeeds` states safety only and assumes no fairness.

## 5. Proofs

All proofs are checked by `tlapm` to the last leaf, and every safety property of the
passing runs but those named at the end of this section is proved. What they assume of
the constants is in the named assumptions of each module, and TLC evaluates it on every
run:

* `HttpHybrid` (`OpsAssumption`, `BoundsAssumption`, `SwitchAssumption`): any sets of
  downloads, workers and callers, any bounds, locks that hold or not, calls that fail or
  not.
* `ContentCatalog` (`CatalogBounds`, `CatalogNames`): natural numbers as bounds, finitely
  many paths, and `None` no path and no bytes.
* `DirectorySync` (`SyncBounds`, `SyncSwitches`): natural numbers, finitely many contents,
  late requests and forgetful directories or not.
* `TorrentTasks` (`TorrentBounds`): natural numbers as bounds, each caller issues commands
  the window has, the choices are Boolean, and `"none"` is no task.
* `NatMapping` (`MappingBounds`): UDP or TCP, at least one STUN server and one network,
  and a listener's port that is one.
* `RssFeeds` (`FeedBounds`): a feed lists at least one item and publishes at least one, the
  limits are at least one and have a largest (`Highest`), and what the user changes are
  settings. Nothing relates a limit to the length of the document.

A theorem that needs more has it as a hypothesis, named below with the reason. All
invariants were checked by TLC before they were proved, on instances larger than those
of the runs where that was possible.

### HttpHybrid

* **`TypeCorrect`** (`HttpHybridProofs`): `Spec => []TypeOK`. `TypeOK` is inductive,
  because it also says that a thread that is not idle works on a download. One lemma for
  each group of actions, one step for each action.

* **`CompleteShellGoneHolds`** (`HttpHybridProofs`), for all commands, crashes and lost
  calls: a completed row has no aria2 task left that could be resumed from the session
  file. Not inductive: the refresh thread completes the row several steps after it
  looked at the task, recovery several steps after it read the rows. `ShellInv` adds
  what either of them may rely on in between (`RefrShape`, `RcvShape`). The proof first
  shows every other actor *tame*: it completes or unmakes no row and brings no task
  back. Then only the refresh thread and recovery have to be looked at.

* **`NotStrandedHolds`** (`HttpHybridProofs`), under `Orderly`: one caller, so that one
  command follows the other, no lost call and no restart; any number of downloads,
  workers and commands, `Resume` among them. When all threads are idle, a download that
  is wanted is not left with a paused aria2 task and nobody to advance it. The invariant
  `StrandInv` says so at every moment instead, for each download that has not ended and
  is not being deleted: it has one place at a time, with the caller (`Blank`,
  `PausesKept`), as a probe with exactly one discovery on its way (`OneProbe`), in the
  queue exactly once (`OneJob`), with exactly one worker (`OneFront`), or in a phase that
  waits for nobody; and whoever stopped aria2 for it still holds it (`Tended`). A step
  concerns one download; `Bystander` covers all others. TLC checked `StrandInv` on one
  download with two workers (1,162,132 states) and on more than four million states of
  two downloads, and refutes `NotStranded` without any one of the three hypotheses: a
  lost `aria2.unpause` is swallowed, a Pause may mark memory after the Resume that
  followed it in the row, and a crash in `AddHttpDownload` leaves a paused shell
  (section 6).

* **`SingleWriterHolds`**, **`DurableOwnerHolds`** (`HttpHybridOwners`), under the
  hypothesis `"Resume" \notin Ops`: aria2 and libtorrent never both write, and a session
  writes only while the row says so. Each thread acts on a stale decision, so neither is
  inductive. `OwnerInv` says that a download is one token that travels from
  `AddHttpDownload` to the discovery queue, the discovery thread, the worker queue and a
  worker, never in two places (`OneToken`), and that aria2 does not run while it is
  under way (`OwnedQuiet`). Most actions move no token; one lemma (`FewerKeeps`) covers
  them. `Resume` is the operation that makes a second token, which is what
  `one_writer_broken` shows.

* **`AriaOwnsPathHolds`**, **`VerifiedCompletionHolds`** (`HttpHybridPaths`), under the
  same hypothesis: aria2 runs only on a path that is free or its own, and a canonical row
  is completed only on a payload with the right hash. A worker removes what it left
  before it hands a path back, but between its removal and aria2's start lie two locks
  and a row, and between its hash and the refresh thread's write three threads and a
  Delete may act. `PathInv` adds to `OwnerInv` what each place of each thread relies on:
  a path is clean under a token no worker has yet (`EarlyPath`), a worker that hands back
  with permission has cleaned it (`WorkPath`), a Ready state has a verified payload
  nobody works on (`ReadyGood`), a Delete has cancelled before it touches anything
  (`Deleting`), and what the refresh thread and recovery have read still holds
  (`RefrPath`, `RcvPath`). Seven *flows* say, for a step of whichever thread, how rows,
  files, tasks, engines, tokens, phases and callers can change; the parts of `PathInv` are
  shown to survive any step with these flows, and then only the moves of the thread a part
  is about. TLC checked `PathInv` and the flows on two workers with one caller, and on one
  worker with two callers and two crashes (349,639 states).

### ContentCatalog

* **`CatalogTyped`**, **`BoundHolds`**, **`AliasTrueHolds`**, **`QueueCoversHolds`**
  (`ContentCatalogProofs`): the invariants of `ContentCatalog`, all parts of one
  inductive invariant `Inv`. The worker and the scan act on copies of files, jobs and
  records that may be old, so `Inv` says what an old copy is still good for. `Handed`: a
  file read at a path is the file there as long as the fingerprint is the same; a write
  draws a new one (`NewStamp`, `HandedStays`). `WkJob`: the worker's job is the row of
  its path or an older generation, and only for an older one is the path queued again.
  `WkStep`: what the worker has found out is about the file of its job, and when it
  acknowledges, that version is in the catalog or no longer on disk. `ScanOK`: the scan
  hashed the file it found first unless the fingerprint tells. `Mirrors`: every queued
  job is the row of its path, and no path is queued twice; replacing an entry in place
  keeps that (`QueuedOK`), and so does loading the rows (`LoadedOK`). There is one lemma
  for each action, and `Frames` says which variables a part depends on.

* **`DurableJobsImplemented`** (`ContentCatalogProofs`): `Spec => JobsDurable`, by step
  simulation under `Inv`. Writing and removing files are `Change`, storing a submission
  is `Submit`, the worker's commit is `Commit`, and an acknowledgement whose generation
  is still that of the row is `Finish`, by `WkJob` and `WkStep`. Every other step, a crash
  and a shutdown among them, is a stutter.

### DirectorySync

* **`SyncTyped`**, **`RepeatPossibleHolds`** (`DirectorySyncProofs`), for any number of
  crashes, losses, late requests and purges: a registration the directory has committed
  and the client has not recorded can be sent again and is accepted. `Core` relates the
  four places that know of a registration: what is pending on disk, what the worker has
  in memory, what is under way, and what the directory last accepted, at every step of
  the loop. A step that does not register only *roams* (`RoamsKeeps`), so that the proof
  is about the few that do.
* **`LosslessHolds`**, under `~LateRequests`: a worker that has no change to publish and a
  lease the directory honours means that the directory's inventory is the catalog. `Quiet`
  says that no request is under way beside the worker, and how `uploaded`, the snapshot of
  the attempt and the directory's inventory relate. With late requests the property is
  false, because an old registration may be processed after a newer one.
* **`ResourcesKnownHolds`**, under `~LateRequests` and `~ServerForgets`: what counts as
  announced is known to the directory, across lapsed leases and restarts (`Announced`).
  Section 6 says what happens with a directory that forgets a node.

### TorrentTasks

* **`TasksTyped`**, **`OneTaskPerTorrentHolds`**, **`MappedHasRowHolds`**,
  **`RowOutlivesFilesHolds`** (`TorrentTasksProofs`), for any callers, commands, failures
  and alerts, by one inductive invariant `Inv`. `Exclusive` says that at most one caller is
  inside `m_addRemoveMutex` and `Agreed` how map and session may disagree while one is:
  exactly as far as its program counter tells. `Counted` is the count of the shutdown: the
  requests outstanding are never fewer than the answers in the queue and in the batch,
  because every request of resume data is answered by one alert.
* `MappedHasRow` excepts the tasks that were last removed with their files or dropped by
  the window (`asked`): the alert that deletes the one row and the window's `DeleteAsync`
  that deletes the other do not take `m_addRemoveMutex`, so that a
  restore of the same task that runs beside them can map a torrent whose row goes a
  moment later. An earlier form without that exception was refuted while its invariant
  was looked for.
* **`ShutdownKeepsProgressHolds`**, by the same `Inv`. `Due` says that what the shutdown
  owes has its torrent in the session with every piece, and that a command which takes
  that torrent away takes it off what is owed. `Covered` follows the last answer about
  it: it is on its way and full (`Promised`), with the thread that handles it, or
  `Settled`: the row has the pieces or the task is marked for a retry. The alert handlers
  that read a row and write it back later can only bring back a row that was as good.
  That a wait which ends with a count of zero has left no answer behind is `Counted`.

### NatMapping

* **`MappingTyped`**, **`FreshObservationHolds`**, **`RelaysCurrentHolds`**
  (`NatMappingProofs`), for any servers, ports and networks: no address of an old network
  is published after a recovery, and a relay goes to the current target. `Mapping` says at
  each step of the worker which flags it has still to look at, and what the transaction
  and the relays it holds are worth until then.

### RssFeeds

* **`FeedsTyped`**, **`RowsAgreeHolds`** (`RssFeedsProofs`): list and rows of a feed stay
  within the limit or what a document lists, whichever is more, and one document more for
  each exit, since an exit between inserting and pruning leaves the inserted rows behind;
  and memory and rows are about the same subscription with the same settings in force.
  `Base` says what a fetch that stands anywhere between its question and its last write
  may still do.
* **`AutoOnceHolds`**, **`OnlyNewHolds`**, **`StoredShownHolds`**, for any limits, changed at
  any time, any length of the document, any overlapping fetches and any exits: no item of
  a subscription is downloaded twice, none that its first document listed is downloaded by
  itself, and an item with a row that a document lists is in the list, unless it left the
  list while a document listed it (`lost`). The code keeps 100 items by default and never
  fewer than 10 (`RSSManager.cpp:414`), and nothing ties that to the length of a document,
  so the theorems have no hypothesis about it: what a short limit costs is exactly the
  items in `lost`. `History` follows an item from the document through the rows, the list
  and the fetch to the download: nothing is stored or loaded before the first document is
  in (`Shown`); what was shown or sent is held by the list, or by the rows it will be loaded
  from (`Kept`), and so is what has a row, unless the fetch with the lock is about to list
  it (`Stays`), each time except for lost items and those no document lists any more
  (`Gone`); and one fetch at most has an item to download, for the first time (`Once`).

### Only model-checked

The liveness properties, `StaleCleared` and `TargetFollows` among them: liveness under
fairness and ENABLED are beyond the prover.

## 6. Known limits

* Two callers that command the same download at once: rows and memory can disagree for
  good, since a command writes the row before the mutex. The runs have one caller; the
  proofs any number.
* A decision of the discovery thread is acted on after the unlock
  (`DownloadManager.cpp:1853`): a Pause in between is undone, against the comment at
  `:2047`, and a Resume in between starts a second probe (`one_writer_broken`).
* A Pause while the worker opens the hidden session (`DownloadManager.cpp:1205`) never
  reaches it: the download goes on although `docs/long-term-seeding-architecture.md:692`
  says that pausing pauses the session.
* Pause then Resume after a refused cleanup (`DownloadManager.cpp:1308`) resumes aria2
  onto libtorrent's leftovers, against the comment at `:1265`.
* A deletion that meets a working worker only marks the state: what the worker wrote
  after the deletion removed the file stays on disk. No document promises otherwise.
* A crash inside `AddHttpDownload`, between aria2's acceptance and the row, leaves a
  paused shell; the refresh thread makes a row for it and the user can resume it.
* `ResourcesKnown` is checked with a directory that keeps a node's record. If it purges
  the node after resources were announced under the old lease and before the next
  registration succeeds, the client does not announce them again.
* `Lossless` relies on the directory to apply a repeated registration again: the client
  keys the id of a pending registration to its generation alone and takes a new snapshot
  for every attempt, so a retry may carry a newer inventory under an old id. A directory
  that answered the repeat from memory would keep the old inventory for good, and so
  would one that processed the first request after the second.
* An exception in the snapshot or the scan ends the sync worker until the service is
  stopped and started (section 2): `Converges` excepts that, the other properties hold with
  it. The directory then lets the lease lapse.
* After a failed registration the worker's wait returns at once
  (`ContentDirectorySyncService.cpp:484`): its predicate is the revision that could not
  be published. A seeding session whose completion message is lost (`:412`) stays open
  until the application ends.
* `EnsureCanonicalPieceLayer` reads the fingerprint after hashing and writes back a copy
  of the record taken before it (`ContentCatalogService.cpp:473`). A path that changed
  or was catalogued meanwhile is written over: `Bound` excepts these paths (`overtaken`)
  until the worker commits them again.
* A finished or resume-data alert that is dispatched before its torrent is mapped, or in
  the batch of one whose handler throws, is lost; `ProgressReachesRow` and
  `CompletionSettles` except that (`lapsed`), and `ShutdownKeepsProgress` a shutdown
  whose wait of ten seconds ends first. A shutdown is modelled to wait for commands that
  have begun. The row that `metadata_received` reads and writes back whole can restore an
  older status.
* A monitor that loaded `m_followTorrentTarget` before a Stop and a Start with a manual
  target stores the listener's port over that target. A failed TCP session may leave a
  relay half-closed for its idle time; relays are in the model or not.
* When the completion choice is stored, `SetTorrentTaskSettings` asks for resume data as well
  (`libtorrentHandle.cpp:5315`). The model leaves that request out: its answer tells the row
  nothing that the requests after it, and the progress to come, do not.
* RSS: a limit below what a feed lists makes a pruned item new again, and downloads it again
  (section 5). Pruning drops the front of the list, where items loaded from the rows stand
  newest first, so that after a restart it is the newest that leaves the list while its row
  stays (`RSSManager.cpp:419`): it is listed again only when something new is inserted. A
  subscription that is removed and made again while a fetch of the first is under way can
  download an item twice: `AutoOnce` is about each subscription alone. `UpdateFeedMeta` runs
  after the unlock and can restore a title the user has changed. A download that fails, or
  an exit between storing an item and downloading it, is not made up for. An item without a
  guid marks the first such item. A document that lists an item twice is not modelled, nor
  the failure of `InitializeAsync` to load.
* `RSSDatabase` swallows SQLite errors (`RSSDatabase.cpp:119-166`): a `DeleteFeed` or
  `UpsertFeed` that fails returns as one that succeeded, and memory and rows part. The
  model's writes succeed; `RowsAgree` would not survive such a failure.
* `ContentCatalogService::Initialize` sets `m_initialized` before it validates locations and
  loads the pending jobs (`ContentCatalogService.cpp:31-36`). If SQLite throws there, the
  jobs stay in their rows but unqueued until the next start of the program. The model's
  start does not fail half-way.
* Settings writes are assumed to succeed (`AppSettingsDatabase` ignores errors).

## 7. Plan

1. `HttpHybrid` with `Resume`: what is left of the token when a second one is made.
2. `NotStranded` across orderly shutdowns, where recovery hands the downloads back.
3. The metadata fetcher, and the matching of restored GIDs with rows
   (`HttpStateManager`), which need runs of their own.

## 8. Not modelled

Most of the repository's lines are outside any model here: the XAML views, controls and
view models (presentation, on one thread), the vendored libraries, `WebUIHost.cpp` (over
six thousand lines of request parsing and JSON whose effects are the commands modelled
above), the Windows API wrappers, GeoIP, graphs, tests. Of the engines' own files the
share is much higher.

* `DownloadManager`: claiming an output path, matching restored GIDs with rows, clearing
  of completed tasks, the aria2-only policy.
* `LibtorrentHandle`: share policies, file errors, renames and moves by the user,
  trackers, TLS, settings, statistics. Their handlers touch one torrent each and no
  state the properties are about, except that a share limit stops a seeding torrent.
* `TorrentMetadataFetcher`: one fetch with a deadline for one dialog.
* IP filter and client filter: rule lists under one lock; a pure merge of ranges.
* Hashing, STUN encoding, RSS parsing, link resolution: computations over bytes.
* The application's start-up coroutines and the order of its shutdown are the
  environment of every module; `AppRuntime` itself sets paths once.
