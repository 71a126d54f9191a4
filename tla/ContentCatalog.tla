---------------------------- MODULE ContentCatalog ----------------------------
(* ContentCatalogService and the SQLite tables under it.  A file that has been *)
(* downloaded is handed in with its fingerprint, becomes a durable job, is     *)
(* hashed by one worker thread and bound to a content record; a job is         *)
(* acknowledged by its generation.  The sync thread scans a catalogued file    *)
(* once more when the directory wants it and no piece layer is known.          *)
(*                                                                             *)
(* A fingerprint (size and time of the last write) is a stamp, fresh with      *)
(* every write.  A record is named by the bytes its identities stand for.      *)
EXTENDS Naturals, FiniteSets, SequencesExt

CONSTANTS
    Paths, Bytes,
    Resources,      \* ResourceKeys, aliases observed with a download
    MaxWrites,      \* bound on the writes and removals of files
    MaxSubmits,     \* bound on EnqueueFile
    MaxScans,       \* bound on EnsureCanonicalPieceLayer
    MaxFailures,    \* bound on I/O and database errors
    MaxRestarts     \* bound on crashes and shutdowns

ASSUME CatalogBounds == {MaxWrites, MaxSubmits, MaxScans, MaxFailures, MaxRestarts} \subseteq Nat

VARIABLES
    disk,        \* the file at each path
    row,         \* content_pending_job and its aliases (durable)
    loc,         \* content_location (durable)
    recs, layer, \* content records, those with a piece layer (durable)
    res,         \* content_resource_key: the record of each alias (durable)
    svc,         \* off, on or stopping: m_initialized and m_stopping
    queue,       \* m_jobs
    sub,         \* EnqueueFile, between the fingerprint and the lock
    wk,          \* the worker: where it is, and its locals
    scan,        \* EnsureCanonicalPieceLayer: where it is, and its locals
    failed,      \* paths whose last job failed in this life of the process
    done,        \* history: versions the worker has committed
    observed,    \* history: aliases and the bytes they were observed with
    overtaken,   \* history: paths a scan has written from what it read too early
    writes, submits, scans, failures, restarts

files   == <<disk, writes>>
tables  == <<row, loc, recs, layer, res>>
threads == <<queue, sub, wk, scan, failed>>
history == <<done, observed, overtaken>>
counts  == <<writes, submits, scans, failures, restarts>>
vars    == <<disk, tables, svc, threads, history, counts>>

None == "none"
ASSUME CatalogNames == None \notin Paths \cup Bytes /\ IsFiniteSet(Paths)

NoFile == [stamp |-> 0, bytes |-> None]
NoJob == [file |-> NoFile, root |-> FALSE, keys |-> {}, gen |-> 0]
NoLoc == [key |-> None, stamp |-> 0, avail |-> "missing"]
Idle == [pc |-> "off", path |-> None, job |-> NoJob, ident |-> None, stamp |-> 0,
         locs |-> <<>>, keys |-> {}]
NoScan == [pc |-> "idle", key |-> None, path |-> None, mark |-> NoFile, stamp |-> 0,
           locs |-> <<>>, keys |-> {}]

At(pc) == wk.pc = pc
Stopping == svc = "stopping"
Failure == failures < MaxFailures /\ failures' = failures + 1
Locations(b) == [p \in {q \in Paths : loc[q].key = b} |-> loc[p]]
Aliases(b) == {r \in Resources : res[r] = b}
Over(f, g) == [x \in DOMAIN f |-> IF x \in DOMAIN g THEN g[x] ELSE f[x]]

Init ==
    /\ disk = [p \in Paths |-> NoFile]
    /\ row = [p \in Paths |-> NoJob] /\ loc = [p \in Paths |-> NoLoc]
    /\ recs = {} /\ layer = {} /\ res = [r \in Resources |-> None]
    /\ svc = "off" /\ queue = <<>> /\ sub = [p \in Paths |-> NoJob]
    /\ wk = Idle /\ scan = NoScan /\ failed = {}
    /\ done = {} /\ observed = {} /\ overtaken = {}
    /\ writes = 0 /\ submits = 0 /\ scans = 0 /\ failures = 0 /\ restarts = 0

-----------------------------------------------------------------------------
(* The files, changed by whoever writes to disk. *)

WriteFile(p) ==
    /\ writes < MaxWrites /\ writes' = writes + 1
    /\ \E b \in Bytes : disk' = [disk EXCEPT ![p] = [stamp |-> writes + 1, bytes |-> b]]
    /\ UNCHANGED <<tables, svc, threads, history, submits, scans, failures, restarts>>

RemoveFile(p) ==
    /\ disk[p] # NoFile /\ writes < MaxWrites /\ writes' = writes + 1
    /\ disk' = [disk EXCEPT ![p] = NoFile]
    /\ UNCHANGED <<tables, svc, threads, history, submits, scans, failures, restarts>>

-----------------------------------------------------------------------------
(* Starting.  Validation compares fingerprints only; the jobs are loaded in    *)
(* the order of their rows, which is any order.                                *)

Checked(p) ==
    IF loc[p] = NoLoc THEN NoLoc
    ELSE [loc[p] EXCEPT !.avail = IF disk[p] = NoFile THEN "missing"
                                  ELSE IF disk[p].stamp # loc[p].stamp THEN "modified"
                                  ELSE "available"]
ValidateLocations == loc' = [p \in Paths |-> Checked(p)]

Entry(p) == [path |-> p, job |-> row[p]]
LoadPendingJobs == SetToSeqs({Entry(p) : p \in {q \in Paths : row[q] # NoJob}})

\* Mutant of Initialize: what an earlier process left pending is not loaded.
InitializeEmpty ==
    /\ svc = "off" /\ svc' = "on"
    /\ ValidateLocations
    /\ queue' = <<>>
    /\ wk' = [Idle EXCEPT !.pc = "wait"]
    /\ UNCHANGED <<disk, row, recs, layer, res, sub, scan, failed, history, counts>>

Initialize ==
    /\ svc = "off" /\ svc' = "on"
    /\ ValidateLocations
    /\ queue' \in LoadPendingJobs
    /\ wk' = [Idle EXCEPT !.pc = "wait"]
    /\ UNCHANGED <<disk, row, recs, layer, res, sub, scan, failed, history, counts>>

-----------------------------------------------------------------------------
(* EnqueueFile.  The fingerprint is read first, the rest happens under the     *)
(* mutex.  One download owns a path, so a path is handed in by one thread at a *)
(* time.  A torrent knows the root of its file and no aliases, an HTTP         *)
(* download has aliases and no root.                                           *)

Fingerprint(p) ==
    /\ sub[p] = NoJob /\ disk[p] # NoFile
    /\ submits < MaxSubmits /\ submits' = submits + 1
    /\ \/ /\ sub' = [sub EXCEPT ![p] = [NoJob EXCEPT !.file = disk[p], !.root = TRUE]]
          /\ UNCHANGED observed
       \/ \E K \in SUBSET Resources :
             /\ sub' = [sub EXCEPT ![p] = [NoJob EXCEPT !.file = disk[p], !.keys = K]]
             /\ observed' = observed \cup (K \X {disk[p].bytes})
    /\ UNCHANGED <<disk, tables, svc, queue, wk, scan, failed, done, overtaken,
                   writes, scans, failures, restarts>>

\* The aliases of an earlier submission are kept only if it was of the same file.
Merged(old, new) ==
    IF old.file = new.file
    THEN [new EXCEPT !.root = @ \/ old.root, !.keys = @ \cup old.keys]
    ELSE new

\* Mutant of Persisted: a row that is replaced keeps its generation.
PersistedAgain(p) == [Merged(row[p], sub[p]) EXCEPT !.gen = row[p].gen]

\* Mutant of Persisted: the aliases are merged whatever the file is now.
PersistedMerging(p) ==
    [sub[p] EXCEPT !.keys = @ \cup row[p].keys, !.gen = row[p].gen + 1]

Persisted(p) == [Merged(row[p], sub[p]) EXCEPT !.gen = row[p].gen + 1]

\* Mutant of Queued: a queued job of the path is left in front of the new one.
QueuedTwice(q, p, job) == Append(q, [path |-> p, job |-> job])

\* A queued job of the path is replaced where it stands.
Queued(q, p, job) ==
    LET e == [path |-> p, job |-> job]
    IN  IF \E i \in DOMAIN q : q[i].path = p
        THEN [i \in DOMAIN q |-> IF q[i].path = p THEN e ELSE q[i]]
        ELSE Append(q, e)

Persist(p) ==
    /\ sub[p] # NoJob /\ svc # "off"
    /\ row' = [row EXCEPT ![p] = Persisted(p)]
    /\ queue' = Queued(queue, p, row'[p])
    /\ sub' = [sub EXCEPT ![p] = NoJob] /\ failed' = failed \ {p}
    /\ UNCHANGED <<disk, loc, recs, layer, res, svc, wk, scan, history, counts>>

\* The service is not running: the first submission starts it.
PersistFirst(p) ==
    /\ sub[p] # NoJob /\ svc = "off" /\ svc' = "on"
    /\ ValidateLocations
    /\ row' = [row EXCEPT ![p] = Persisted(p)]
    /\ \E q \in LoadPendingJobs : queue' = Queued(q, p, row'[p])
    /\ wk' = [Idle EXCEPT !.pc = "wait"]
    /\ sub' = [sub EXCEPT ![p] = NoJob] /\ failed' = failed \ {p}
    /\ UNCHANGED <<disk, recs, layer, res, scan, history, counts>>

\* A submission that cannot be stored is dropped.
PersistFails(p) ==
    /\ sub[p] # NoJob /\ svc # "off" /\ Failure
    /\ sub' = [sub EXCEPT ![p] = NoJob]
    /\ UNCHANGED <<disk, tables, svc, queue, wk, scan, failed, history,
                   writes, submits, scans, restarts>>

-----------------------------------------------------------------------------
(* The worker. *)

Quiet == UNCHANGED <<disk, svc, sub, scan, history, counts>>
Goto(pc) == wk' = [wk EXCEPT !.pc = pc]

Pop ==
    /\ At("wait") /\ svc = "on" /\ queue # <<>>
    /\ wk' = [Idle EXCEPT !.pc = "check", !.path = Head(queue).path, !.job = Head(queue).job]
    /\ queue' = Tail(queue)
    /\ UNCHANGED <<tables, failed>> /\ Quiet

\* A job that failed stays in its row and is taken up by the next process.
JobFails ==
    /\ failed' = IF row[wk.path].gen = wk.job.gen THEN failed \cup {wk.path} ELSE failed
    /\ wk' = [Idle EXCEPT !.pc = "wait"]

Same == disk[wk.path] = wk.job.file
Vanished == disk[wk.path] = NoFile

CheckFile ==
    /\ At("check") /\ ~Stopping
    /\ Goto(CASE ~Same -> "ack" [] Same /\ wk.job.root -> "recheck" [] OTHER -> "hash")
    /\ UNCHANGED <<tables, queue, failed>> /\ Quiet

\* HashFile reads the file over time: what it makes of a file that changes
\* meanwhile may be anything; a change of the size is noticed.
HashFile ==
    /\ At("hash") /\ ~Stopping /\ ~Vanished
    /\ \E b \in IF Same THEN {disk[wk.path].bytes} ELSE Bytes :
          wk' = [wk EXCEPT !.pc = "recheck", !.ident = b]
    /\ UNCHANGED <<tables, queue, failed>> /\ Quiet

HashFails ==
    /\ At("hash") /\ ~Stopping
    /\ IF Same THEN Failure ELSE UNCHANGED failures
    /\ JobFails
    /\ UNCHANGED <<disk, tables, svc, queue, sub, scan, history,
                   writes, submits, scans, restarts>>

Identity == IF wk.job.root THEN wk.job.file.bytes ELSE wk.ident

\* Mutant of Recheck: the fingerprint is read again and not compared.
RecheckNot ==
    /\ At("recheck") /\ ~Stopping /\ ~Vanished
    /\ wk' = [wk EXCEPT !.pc = "find", !.ident = Identity, !.stamp = disk[wk.path].stamp]
    /\ UNCHANGED <<tables, queue, failed>> /\ Quiet

Recheck ==
    /\ At("recheck") /\ ~Stopping /\ ~Vanished
    /\ IF Same
       THEN wk' = [wk EXCEPT !.pc = "find", !.ident = Identity, !.stamp = disk[wk.path].stamp]
       ELSE Goto("ack")
    /\ UNCHANGED <<tables, queue, failed>> /\ Quiet

RecheckFails ==
    /\ At("recheck") /\ ~Stopping /\ Vanished /\ JobFails
    /\ UNCHANGED <<tables, queue>> /\ Quiet

\* The record of these bytes is copied out of the database, if there is one.
FindRecord ==
    /\ At("find")
    /\ wk' = [wk EXCEPT !.pc = "upsert", !.locs = Locations(wk.ident),
                        !.keys = Aliases(wk.ident) \cup wk.job.keys]
    /\ UNCHANGED <<tables, queue, failed>> /\ Quiet

Store(b, L, K, layered) ==
    /\ recs' = recs \cup {b}
    /\ layer' = IF layered THEN layer \cup {b} ELSE layer
    /\ loc' = Over(loc, L)
    /\ res' = [r \in Resources |-> IF r \in K THEN b ELSE res[r]]

\* The whole record is written back, this path as it was found.
Upsert ==
    /\ At("upsert") /\ ~Stopping
    /\ LET mine == [key |-> wk.ident, stamp |-> wk.stamp, avail |-> "available"]
           L == [p \in DOMAIN wk.locs \cup {wk.path} |->
                    IF p = wk.path THEN mine ELSE wk.locs[p]]
       IN  Store(wk.ident, L, wk.keys, ~wk.job.root)
    /\ done' = done \cup {<<wk.path, wk.stamp>>}
    /\ overtaken' = (overtaken \ {wk.path})
                    \cup {p \in DOMAIN wk.locs \ {wk.path} : loc[p] # wk.locs[p]}
    /\ Goto("ack")
    /\ UNCHANGED <<disk, row, svc, queue, sub, scan, failed, observed, counts>>

UpsertFails ==
    /\ At("upsert") /\ ~Stopping /\ Failure /\ JobFails
    /\ UNCHANGED <<disk, tables, svc, queue, sub, scan, history,
                   writes, submits, scans, restarts>>

\* Mutant of Complete: whatever job the path has now is acknowledged.
CompleteAny ==
    /\ At("ack") /\ ~Stopping
    /\ row' = [row EXCEPT ![wk.path] = NoJob]
    /\ wk' = [Idle EXCEPT !.pc = "wait"]
    /\ UNCHANGED <<loc, recs, layer, res, queue, failed>> /\ Quiet

\* CompletePendingJob: only the generation that was worked on.
Complete ==
    /\ At("ack") /\ ~Stopping
    /\ row' = IF row[wk.path].gen = wk.job.gen THEN [row EXCEPT ![wk.path] = NoJob] ELSE row
    /\ wk' = [Idle EXCEPT !.pc = "wait"]
    /\ UNCHANGED <<loc, recs, layer, res, queue, failed>> /\ Quiet

-----------------------------------------------------------------------------
(* EnsureCanonicalPieceLayer, on the sync thread.  It copies a record, hashes  *)
(* one of its files, reads that file's fingerprint and writes the record back. *)

ScanFind(b) ==
    /\ scan.pc = "idle" /\ svc = "on" /\ b \in recs \ layer
    /\ scans < MaxScans /\ scans' = scans + 1
    /\ \E p \in Paths :
          /\ loc[p].key = b /\ loc[p].avail = "available"
          /\ scan' = [NoScan EXCEPT !.pc = "hash", !.key = b, !.path = p, !.mark = disk[p],
                                    !.locs = Locations(b), !.keys = Aliases(b)]
    /\ UNCHANGED <<disk, tables, svc, queue, sub, wk, failed, history,
                   writes, submits, failures, restarts>>

ScanOnly == UNCHANGED <<disk, row, svc, queue, sub, wk, failed, done, observed, counts>>
ScanChanged == disk[scan.path] # scan.mark

\* The file is the one that was catalogued.
ScanHash ==
    /\ scan.pc = "hash" /\ disk[scan.path] # NoFile
    /\ disk[scan.path].bytes = scan.key \/ ScanChanged
    /\ scan' = [scan EXCEPT !.pc = "stamp"]
    /\ UNCHANGED <<loc, recs, layer, res, overtaken>> /\ ScanOnly

\* It is not: the path is marked, whatever record it belongs to by now.
ScanMismatch ==
    /\ scan.pc = "hash" /\ disk[scan.path] # NoFile
    /\ disk[scan.path].bytes # scan.key \/ ScanChanged
    /\ loc' = [loc EXCEPT ![scan.path].avail = "modified"]
    /\ overtaken' = IF loc[scan.path] # scan.locs[scan.path]
                    THEN overtaken \cup {scan.path} ELSE overtaken
    /\ scan' = NoScan
    /\ UNCHANGED <<recs, layer, res>> /\ ScanOnly

ScanStamp ==
    /\ scan.pc = "stamp" /\ disk[scan.path] # NoFile
    /\ scan' = [scan EXCEPT !.pc = "upsert", !.stamp = disk[scan.path].stamp]
    /\ UNCHANGED <<loc, recs, layer, res, overtaken>> /\ ScanOnly

\* The file cannot be read: nothing is changed.
ScanFails ==
    /\ scan.pc \in {"hash", "stamp"} /\ disk[scan.path] = NoFile
    /\ scan' = NoScan
    /\ UNCHANGED <<loc, recs, layer, res, overtaken>> /\ ScanOnly

ScanUpsert ==
    /\ scan.pc = "upsert"
    /\ Store(scan.key, [scan.locs EXCEPT ![scan.path].stamp = scan.stamp], scan.keys, TRUE)
    /\ overtaken' = overtaken \cup {p \in DOMAIN scan.locs : loc[p] # scan.locs[p]}
                    \cup (IF scan.stamp # scan.mark.stamp THEN {scan.path} ELSE {})
    /\ scan' = NoScan
    /\ UNCHANGED <<disk, row, svc, queue, sub, wk, failed, done, observed, counts>>

-----------------------------------------------------------------------------
(* The end.  Shutdown waits for the worker, which looks at the stop token      *)
(* before each part of a job and does not acknowledge once it is set.  The     *)
(* sync service has been stopped before.                                       *)

Shutdown ==
    /\ svc = "on" /\ svc' = "stopping" /\ scan.pc = "idle"
    /\ restarts < MaxRestarts /\ restarts' = restarts + 1
    /\ UNCHANGED <<disk, tables, threads, history, writes, submits, scans, failures>>

WorkerStops ==
    /\ Stopping /\ wk.pc # "find" /\ svc' = "off"
    /\ wk' = Idle /\ queue' = <<>> /\ failed' = {}
    /\ UNCHANGED <<disk, tables, sub, scan, history, counts>>

Crash ==
    /\ svc # "off" /\ svc' = "off" /\ restarts < MaxRestarts /\ restarts' = restarts + 1
    /\ wk' = Idle /\ scan' = NoScan /\ queue' = <<>> /\ failed' = {}
    /\ sub' = [p \in Paths |-> NoJob]
    /\ UNCHANGED <<disk, tables, history, writes, submits, scans, failures>>

-----------------------------------------------------------------------------
Worker == Pop \/ CheckFile \/ HashFile \/ HashFails \/ Recheck \/ RecheckFails
          \/ FindRecord \/ Upsert \/ UpsertFails \/ Complete \/ WorkerStops
Scan == ScanHash \/ ScanMismatch \/ ScanStamp \/ ScanFails \/ ScanUpsert
        \/ \E b \in Bytes : ScanFind(b)
EnqueueFile(p) == Fingerprint(p) \/ Persist(p) \/ PersistFirst(p) \/ PersistFails(p)
Files(p) == WriteFile(p) \/ RemoveFile(p)

Next == Initialize \/ Worker \/ Scan \/ Shutdown \/ Crash
        \/ \E p \in Paths : EnqueueFile(p) \/ Files(p)

Spec == Init /\ [][Next]_vars

\* The worker keeps running, and a program that ended is started again.
Fairness == WF_vars(Worker) /\ WF_vars(Initialize)
FairSpec == Spec /\ Fairness

-----------------------------------------------------------------------------
(* Properties. *)

\* Every variable keeps to its values; a job has a generation.
File == [stamp : 0 .. MaxWrites, bytes : Bytes \cup {None}]
Job == [file : File, root : BOOLEAN, keys : SUBSET Resources, gen : Nat]
Location == [key : Bytes \cup {None}, stamp : 0 .. MaxWrites,
             avail : {"available", "missing", "modified"}]
TypeOK ==
    /\ disk \in [Paths -> File]
    /\ row \in [Paths -> Job] /\ loc \in [Paths -> Location]
    /\ recs \subseteq Bytes /\ layer \subseteq recs
    /\ res \in [Resources -> Bytes \cup {None}]
    /\ svc \in {"off", "on", "stopping"}
    /\ queue \in Seq([path : Paths, job : Job])
    /\ sub \in [Paths -> Job]
    /\ \A p \in Paths : row[p] # NoJob => row[p].gen > 0 /\ row[p].file # NoFile
    /\ wk.pc \in {"off", "wait", "check", "hash", "recheck", "find", "upsert", "ack"}
    /\ wk.path \in Paths \cup {None} /\ wk.job \in Job
    /\ wk.ident \in Bytes \cup {None} /\ wk.keys \subseteq Resources
    /\ scan.pc \in {"idle", "hash", "stamp", "upsert"} /\ scan.keys \subseteq Resources
    /\ scan.path \in Paths \cup {None} /\ scan.key \in Bytes \cup {None}
    /\ failed \subseteq Paths /\ overtaken \subseteq Paths

\* A record is bound only to the bytes that were hashed: a location that looks
\* valid (it is available and has the fingerprint of the file on disk) holds the
\* record's bytes, however the file changed before, while and after it was
\* hashed.  Excepted are the paths a scan wrote from what it had read too early.
LooksValid(p) == loc[p].avail = "available" /\ loc[p].stamp = disk[p].stamp
Bound == \A p \in Paths \ overtaken : LooksValid(p) => loc[p].key = disk[p].bytes

\* An alias leads only to bytes it was observed with: not to those of another
\* file that took the path before the job was done.
AliasTrue == \A r \in Resources : res[r] # None => <<r, res[r]>> \in observed

\* Table and queue agree: every pending row is queued or being worked on under
\* the same generation, or failed in this life of the process, and no path is
\* queued twice.
Covered(p) ==
    \/ \E i \in DOMAIN queue : queue[i] = Entry(p)
    \/ wk.path = p /\ wk.job = row[p]
    \/ p \in failed
QueueCovers ==
    /\ svc # "off" => \A p \in Paths : row[p] # NoJob => Covered(p)
    /\ \A i, j \in DOMAIN queue : queue[i].path = queue[j].path => i = j

\* The queue is durable: this module implements DurableJobs.
Pending == [p \in Paths |-> row[p].file.stamp]
OnDisk == [p \in Paths |-> disk[p].stamp]
Promise == INSTANCE DurableJobs WITH Stamps <- 0 .. MaxWrites, disk <- OnDisk,
                                     pending <- Pending
JobsDurable == Promise!Spec

\* Every job is finished, over crashes and shutdowns, unless it failed in the
\* process that runs: then it waits for the next one.
JobsFinish == \A p \in Paths : row[p] # NoJob ~> row[p] = NoJob \/ p \in failed
=============================================================================
