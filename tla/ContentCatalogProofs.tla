------------------------- MODULE ContentCatalogProofs -------------------------
(* ContentCatalog keeps what it promises, for every value of its constants:    *)
(* one inductive invariant, Inv, from which type correctness, Bound, AliasTrue *)
(* and QueueCovers follow, and with which every step of ContentCatalog is a    *)
(* step of DurableJobs or none.                                                *)
EXTENDS ContentCatalog, FiniteSetTheorems, SequenceTheorems, TLAPS

Entries == [path : Paths, job : Job]
Copies == UNION {[S -> Location] : S \in SUBSET Paths}
WkPcs == {"off", "wait", "check", "hash", "recheck", "find", "upsert", "ack"}
Busy == wk.pc \notin {"off", "wait"}
Queues(p) == \E i \in DOMAIN queue : queue[i].path = p

\* f was read at p: as long as the file has its stamp it is the same file.
Handed(p, f) == /\ f.stamp \in 1 .. writes /\ f.bytes \in Bytes
                /\ disk[p].stamp = f.stamp => disk[p] = f

\* Locations are written with the stamp of a file that was there.
Stamped(f) == \A p \in DOMAIN f : f[p].stamp <= writes /\ (f[p].stamp = 0 => f[p].key = None)

\* The aliases of a job were observed with its file.
Seen(job) == \A r \in job.keys : <<r, job.file.bytes>> \in observed

DiskOK == /\ writes \in 0 .. MaxWrites /\ disk \in [Paths -> File]
          /\ \A p \in Paths : /\ disk[p].stamp <= writes
                              /\ disk[p].stamp = 0 => disk[p] = NoFile
                              /\ disk[p].stamp # 0 => disk[p].bytes \in Bytes
TablesOK == /\ loc \in [Paths -> Location]
            /\ recs \subseteq Bytes /\ layer \subseteq recs
            /\ res \in [Resources -> Bytes \cup {None}]
SubOK == /\ sub \in [Paths -> Job]
         /\ \A p \in Paths : sub[p] # NoJob => Handed(p, sub[p].file)
RowOK == /\ row \in [Paths -> Job]
         /\ \A p \in Paths : row[p] # NoJob => row[p].gen > 0 /\ Handed(p, row[p].file)

\* A queue that holds rows, and no path twice.
Mirrors(q, rw) ==
    /\ q \in Seq(Entries)
    /\ \A i \in DOMAIN q : q[i].job = rw[q[i].path] /\ rw[q[i].path] # NoJob
    /\ \A i, j \in DOMAIN q : q[i].path = q[j].path => i = j
QueueOK == Mirrors(queue, row)

\* The worker's job is the row of its path, or an older one; only for an older
\* one is the path queued again.
WkType == /\ wk \in [pc : WkPcs, path : Paths \cup {None}, job : Job,
                     ident : Bytes \cup {None}, stamp : 0 .. MaxWrites,
                     locs : Copies \cup {<<>>}, keys : SUBSET Resources]
          /\ ~Busy => wk.path = None
          /\ Busy => wk.path \in Paths
WkJob == Busy => /\ Handed(wk.path, wk.job.file)
                 /\ row[wk.path] # NoJob /\ wk.job.gen > 0
                 /\ wk.job.gen <= row[wk.path].gen
                 /\ wk.job.gen = row[wk.path].gen => wk.job = row[wk.path]
                 /\ Queues(wk.path) => wk.job.gen < row[wk.path].gen

\* What the worker has found out so far is about the file of its job; when it
\* acknowledges, that file is in the catalog or no longer there.
WkStep == /\ wk.pc = "recheck" /\ ~wk.job.root /\ disk[wk.path] = wk.job.file
                => wk.ident = wk.job.file.bytes
          /\ wk.pc \in {"find", "upsert"}
                => wk.ident = wk.job.file.bytes /\ wk.stamp = wk.job.file.stamp
          /\ wk.pc = "upsert" => Stamped(wk.locs)
          /\ wk.pc = "ack" => \/ <<wk.path, wk.job.file.stamp>> \in done
                              \/ disk[wk.path].stamp # wk.job.file.stamp

\* The scan hashed the file it found at first, unless the stamp tells.
ScanOK == /\ scan \in [pc : {"idle", "hash", "stamp", "upsert"}, key : Bytes \cup {None},
                       path : Paths \cup {None}, mark : File, stamp : 0 .. MaxWrites,
                       locs : Copies \cup {<<>>}, keys : SUBSET Resources]
          /\ scan.pc # "idle" =>
                /\ scan.key \in Bytes /\ scan.path \in Paths /\ scan.path \in DOMAIN scan.locs
                /\ scan.locs[scan.path].key = scan.key /\ Stamped(scan.locs)
                /\ scan.mark.stamp # 0 => Handed(scan.path, scan.mark)
          /\ scan.pc = "stamp" /\ scan.mark.stamp # 0
                /\ disk[scan.path].stamp = scan.mark.stamp => scan.mark.bytes = scan.key
          /\ scan.pc = "upsert" => /\ scan.stamp \in 1 .. writes
                                   /\ scan.stamp = scan.mark.stamp => scan.mark.bytes = scan.key

BoundOK == /\ Stamped(loc)
           /\ \A p \in Paths \ overtaken :
                 loc[p].stamp = disk[p].stamp => loc[p].key = disk[p].bytes
AliasOK == /\ AliasTrue
           /\ \A p \in Paths : Seen(sub[p]) /\ Seen(row[p])
           /\ Seen(wk.job)
           /\ wk.pc = "upsert" => \A r \in wk.keys : <<r, wk.ident>> \in observed
           /\ scan.pc # "idle" => \A r \in scan.keys : <<r, scan.key>> \in observed
CoverOK == svc # "off" => \A p \in Paths : row[p] # NoJob => Covered(p)
HistOK == /\ svc \in {"off", "on", "stopping"}
          /\ failed \subseteq Paths /\ overtaken \subseteq Paths

Inv == /\ DiskOK /\ TablesOK /\ SubOK /\ RowOK /\ QueueOK
       /\ WkType /\ WkJob /\ WkStep /\ ScanOK
       /\ BoundOK /\ AliasOK /\ CoverOK /\ HistOK

-----------------------------------------------------------------------------
(* Small facts. *)

\* The values for nothing are of the types.
LEMMA Constants == NoFile \in File /\ NoJob \in Job /\ NoLoc \in Location
BY CatalogBounds DEF NoFile, NoJob, NoLoc, File, Job, Location

\* A copy of some locations.
LEMMA CopyOK == ASSUME NEW f \in Copies \cup {<<>>}
                PROVE  DOMAIN f \subseteq Paths /\ \A p \in DOMAIN f : f[p] \in Location
<1>1. CASE f = <<>>
  BY <1>1
<1>2. CASE f \in Copies
  BY <1>2 DEF Copies
<1> QED BY <1>1, <1>2

\* What a part speaks of is all that can disturb it.
LEMMA Frames ==
  ASSUME Inv
  PROVE  /\ UNCHANGED <<disk, writes>> => DiskOK'
         /\ UNCHANGED <<loc, recs, layer, res>> => TablesOK'
         /\ UNCHANGED <<disk, writes, sub>> => SubOK'
         /\ UNCHANGED <<disk, writes, row>> => RowOK'
         /\ UNCHANGED <<row, queue>> => QueueOK'
         /\ UNCHANGED wk => WkType'
         /\ UNCHANGED <<disk, writes, row, queue, wk>> => WkJob'
         /\ UNCHANGED <<disk, writes, wk, done>> => WkStep'
         /\ UNCHANGED <<disk, writes, scan>> => ScanOK'
         /\ UNCHANGED <<disk, writes, loc, overtaken>> => BoundOK'
         /\ UNCHANGED <<res, observed, sub, row, wk, scan>> => AliasOK'
         /\ UNCHANGED <<svc, row, queue, wk, failed>> => CoverOK'
         /\ UNCHANGED <<svc, failed, overtaken>> => HistOK'
<1>1. /\ UNCHANGED <<disk, writes>> => DiskOK'
      /\ UNCHANGED <<loc, recs, layer, res>> => TablesOK'
  BY DEF Inv, DiskOK, TablesOK
<1>2. /\ UNCHANGED <<disk, writes, sub>> => SubOK'
      /\ UNCHANGED <<disk, writes, row>> => RowOK'
  BY DEF Inv, SubOK, RowOK, Handed
<1>3. UNCHANGED <<row, queue>> => QueueOK'
  BY DEF Inv, QueueOK, Mirrors
<1>4. UNCHANGED wk => WkType'
  BY DEF Inv, WkType, Busy
<1>5. UNCHANGED <<disk, writes, row, queue, wk>> => WkJob'
  BY DEF Inv, WkJob, Busy, Handed, Queues
<1>6. UNCHANGED <<disk, writes, wk, done>> => WkStep'
  BY DEF Inv, WkStep, Stamped
<1>7. UNCHANGED <<disk, writes, scan>> => ScanOK'
  BY DEF Inv, ScanOK, Stamped, Handed
<1>8. UNCHANGED <<disk, writes, loc, overtaken>> => BoundOK'
  BY DEF Inv, BoundOK, Stamped
<1>9. UNCHANGED <<res, observed, sub, row, wk, scan>> => AliasOK'
  BY DEF Inv, AliasOK, AliasTrue, Seen
<1>10. UNCHANGED <<svc, row, queue, wk, failed>> => CoverOK'
  BY DEF Inv, CoverOK, Covered, Entry
<1>11. UNCHANGED <<svc, failed, overtaken>> => HistOK'
  BY DEF Inv, HistOK
<1> QED BY <1>1, <1>2, <1>3, <1>4, <1>5, <1>6, <1>7, <1>8, <1>9, <1>10, <1>11

-----------------------------------------------------------------------------
(* The files. *)

\* A file that changes gets a stamp no file had before, or is gone.
LEMMA NewStamp ==
  ASSUME Inv, NEW p \in Paths, WriteFile(p) \/ RemoveFile(p)
  PROVE  /\ writes' = writes + 1 /\ writes' \in 0 .. MaxWrites
         /\ disk' \in [Paths -> File]
         /\ \A q \in Paths \ {p} : disk'[q] = disk[q]
         /\ \/ disk'[p] = NoFile
            \/ disk'[p].stamp = writes + 1 /\ disk'[p].bytes \in Bytes
<1>0. writes \in 0 .. MaxWrites /\ disk \in [Paths -> File] /\ MaxWrites \in Nat
  BY CatalogBounds DEF Inv, DiskOK
<1>1. CASE RemoveFile(p)
  BY <1>0, <1>1, Constants DEF RemoveFile
<1>2. CASE WriteFile(p)
  <2>1. writes < MaxWrites /\ writes' = writes + 1
    BY <1>2 DEF WriteFile
  <2>2. PICK b \in Bytes : disk' = [disk EXCEPT ![p] = [stamp |-> writes + 1, bytes |-> b]]
    BY <1>2 DEF WriteFile
  <2>3. [stamp |-> writes + 1, bytes |-> b] \in File
    BY <1>0, <2>1 DEF File
  <2> QED BY <1>0, <2>1, <2>2, <2>3
<1> QED BY <1>1, <1>2

\* What was read at a path before stays what it was.
LEMMA HandedStays ==
  ASSUME Inv, NEW p \in Paths, WriteFile(p) \/ RemoveFile(p),
         NEW q \in Paths, NEW f \in File, Handed(q, f)
  PROVE  Handed(q, f)'
<1>1. /\ writes' = writes + 1
      /\ \A x \in Paths \ {p} : disk'[x] = disk[x]
      /\ disk'[p] = NoFile \/ disk'[p].stamp = writes + 1
  BY NewStamp
<1>2. writes \in Nat
  BY CatalogBounds DEF Inv, DiskOK
<1>3. f' = f
  OBVIOUS
<1> QED BY <1>1, <1>2 DEF Handed, NoFile

\* The file system keeps the invariant.
LEMMA FilesKeep == ASSUME Inv, NEW p \in Paths, Files(p) PROVE Inv'
<1>1. /\ writes' = writes + 1 /\ writes' \in 0 .. MaxWrites
      /\ disk' \in [Paths -> File]
      /\ \A q \in Paths \ {p} : disk'[q] = disk[q]
      /\ disk'[p] = NoFile \/ (disk'[p].stamp = writes + 1 /\ disk'[p].bytes \in Bytes)
  BY NewStamp DEF Files
<1>2. UNCHANGED <<tables, svc, threads, history>>
  BY DEF Files, WriteFile, RemoveFile
<1>3. writes \in Nat /\ MaxWrites \in Nat /\ disk \in [Paths -> File]
  BY CatalogBounds DEF Inv, DiskOK
<1>4. \A q \in Paths, f \in File : Handed(q, f) => Handed(q, f)'
  BY HandedStays DEF Files
<1>5. \A f : Stamped(f) /\ DOMAIN f \subseteq Paths /\ (\A q \in DOMAIN f : f[q] \in Location)
             => Stamped(f)'
  BY <1>1, <1>3 DEF Stamped, Location
<1>6. DiskOK'
  BY <1>1, <1>3 DEF Inv, DiskOK, NoFile, File
<1>7. SubOK'
  BY <1>2, <1>4 DEF Inv, SubOK, Job, threads
<1>8. RowOK'
  BY <1>2, <1>4 DEF Inv, RowOK, Job, tables
<1>9. WkJob'
  <2>1. Busy => Handed(wk.path, wk.job.file)'
    BY <1>2, <1>4 DEF Inv, WkType, WkJob, Job, threads
  <2> QED BY <1>2, <2>1 DEF Inv, WkJob, Busy, Queues, threads, tables, Handed
<1>10. WkStep'
  <2>1. wk' = wk /\ done' = done
    BY <1>2 DEF threads, history
  <2>2. CASE wk.pc = "recheck"
    <3>1. Handed(wk.path, wk.job.file) /\ wk.path \in Paths
      BY <2>2 DEF Inv, WkJob, WkType, Busy
    <3>2. disk'[wk.path] = wk.job.file => disk[wk.path] = wk.job.file
      BY <1>1, <1>3, <3>1 DEF Handed, NoFile
    <3> QED BY <2>1, <2>2, <3>2 DEF Inv, WkStep
  <2>3. CASE wk.pc = "ack"
    <3>1. Handed(wk.path, wk.job.file) /\ wk.path \in Paths
      BY <2>3 DEF Inv, WkJob, WkType, Busy
    <3>2. disk'[wk.path].stamp = wk.job.file.stamp => disk[wk.path].stamp = wk.job.file.stamp
      BY <1>1, <1>3, <3>1 DEF Handed, NoFile
    <3> QED BY <2>1, <2>3, <3>2 DEF Inv, WkStep
  <2>4. CASE wk.pc \notin {"recheck", "ack"}
    <3>1. wk.pc = "upsert" => Stamped(wk.locs)'
      <4>1. wk.locs \in Copies \cup {<<>>}
        BY DEF Inv, WkType
      <4> QED BY <1>5, <2>1, <4>1, CopyOK DEF Inv, WkStep
    <3> QED BY <2>1, <2>4, <3>1 DEF Inv, WkStep, Stamped
  <2> QED BY <2>2, <2>3, <2>4
<1>11. ScanOK'
  <2>1. scan' = scan /\ scan.path \in Paths \cup {None} /\ scan.mark \in File
        /\ scan.stamp \in 0 .. MaxWrites
    BY <1>2 DEF Inv, ScanOK, threads
  <2>2. scan.pc # "idle" => Stamped(scan.locs)'
    <3>1. scan.locs \in Copies \cup {<<>>}
      BY DEF Inv, ScanOK
    <3> QED BY <1>5, <2>1, <3>1, CopyOK DEF Inv, ScanOK
  <2>3. scan.pc # "idle" /\ scan.mark.stamp # 0 => Handed(scan.path, scan.mark)'
    BY <1>4, <2>1 DEF Inv, ScanOK
  <2>4. ASSUME scan.pc = "stamp", scan.mark.stamp # 0, disk'[scan.path].stamp = scan.mark.stamp
        PROVE  scan.mark.bytes = scan.key
    <3>1. Handed(scan.path, scan.mark) /\ scan.path \in Paths
      BY <2>4 DEF Inv, ScanOK
    <3>2. disk[scan.path].stamp = scan.mark.stamp
      BY <1>1, <1>3, <2>4, <3>1 DEF Handed, NoFile
    <3> QED BY <2>4, <3>2 DEF Inv, ScanOK
  <2>5. scan.pc = "upsert" => /\ scan.stamp \in 1 .. writes'
                              /\ scan.stamp = scan.mark.stamp => scan.mark.bytes = scan.key
    BY <1>1, <1>3 DEF Inv, ScanOK
  <2> QED BY <2>1, <2>2, <2>3, <2>4, <2>5 DEF Inv, ScanOK, Stamped, Handed
<1>12. BoundOK'
  <2>1. loc' = loc /\ overtaken' = overtaken /\ loc \in [Paths -> Location]
    BY <1>2 DEF Inv, TablesOK, tables, history
  <2>2. Stamped(loc)'
    BY <1>1, <1>3, <2>1 DEF Inv, BoundOK, Stamped, Location
  <2>3. ASSUME NEW q \in Paths \ overtaken, loc[q].stamp = disk'[q].stamp
        PROVE  loc[q].key = disk'[q].bytes
    <3>1. loc[q].stamp <= writes /\ loc[q].stamp \in Nat /\ (loc[q].stamp = 0 => loc[q].key = None)
      BY <2>1 DEF Inv, BoundOK, Stamped, Location
    <3> QED BY <1>1, <1>3, <2>3, <3>1 DEF Inv, BoundOK, NoFile
  <2> QED BY <2>1, <2>2, <2>3 DEF BoundOK
<1>13. TablesOK' /\ QueueOK' /\ WkType' /\ AliasOK' /\ CoverOK' /\ HistOK'
  BY <1>2, Frames DEF tables, threads, history
<1> QED BY <1>6, <1>7, <1>8, <1>9, <1>10, <1>11, <1>12, <1>13 DEF Inv

-----------------------------------------------------------------------------
(* Queues and rows. *)

\* Of a queue that mirrors the rows, an entry of a path is the row of the path.
LEMMA MirrorEntry ==
  ASSUME NEW rw \in [Paths -> Job], NEW q, Mirrors(q, rw), NEW i \in DOMAIN q
  PROVE  /\ q[i].path \in Paths /\ q[i].job \in Job
         /\ q[i] = [path |-> q[i].path, job |-> rw[q[i].path]]
<1>1. q[i] \in Entries
  BY ElementOfSeq, LenProperties DEF Mirrors
<1> QED BY <1>1 DEF Mirrors, Entries

\* EnqueueFile replaces the entry of a path or appends one: the queue mirrors
\* the changed rows, and the other paths are queued as before.
LEMMA QueuedOK ==
  ASSUME NEW rw \in [Paths -> Job], NEW q, Mirrors(q, rw),
         NEW p \in Paths, NEW job \in Job, job # NoJob,
         NEW new, new = Queued(q, p, job),
         NEW rows, rows[p] = job, \A x \in Paths \ {p} : rows[x] = rw[x]
  PROVE  /\ Mirrors(new, rows)
         /\ \E i \in DOMAIN new : new[i].path = p
         /\ \A x \in Paths \ {p} : (\E i \in DOMAIN q : q[i].path = x)
                                  <=> (\E i \in DOMAIN new : new[i].path = x)
<1> DEFINE e == [path |-> p, job |-> job]
<1>1. e \in Entries /\ e.path = p /\ e.job = job
  BY DEF Entries
<1>2. q \in Seq(Entries) /\ Len(q) \in Nat /\ DOMAIN q = 1 .. Len(q)
  BY LenProperties DEF Mirrors
<1>3. \A i \in DOMAIN q : q[i] \in Entries /\ q[i].path \in Paths
  <2>1. \A i \in DOMAIN q : q[i] \in Entries
    BY <1>2, ElementOfSeq
  <2> QED BY <2>1 DEF Entries
<1>4. CASE \E i \in DOMAIN q : q[i].path = p
  <2>1. new = [i \in DOMAIN q |-> IF q[i].path = p THEN e ELSE q[i]]
    BY <1>4 DEF Queued
  <2>2. new \in [1 .. Len(q) -> Entries] /\ DOMAIN new = DOMAIN q
    BY <1>1, <1>2, <1>3, <2>1
  <2>3. new \in Seq(Entries)
    BY <1>2, <2>2, SeqDef
  <2>4. \A i \in DOMAIN q : new[i].path = q[i].path
    BY <1>1, <2>1
  <2>5. \A i \in DOMAIN q : new[i].job = rows[new[i].path] /\ rows[new[i].path] # NoJob
    BY <1>1, <1>3, <2>1 DEF Mirrors
  <2>6. \A i, j \in DOMAIN new : new[i].path = new[j].path => i = j
    BY <2>2, <2>4 DEF Mirrors
  <2>7. Mirrors(new, rows)
    BY <2>2, <2>3, <2>5, <2>6 DEF Mirrors
  <2>8. \A x \in Paths : (\E i \in DOMAIN q : q[i].path = x) <=> (\E i \in DOMAIN new : new[i].path = x)
    BY <2>2, <2>4
  <2> QED BY <1>4, <2>7, <2>8
<1>5. CASE ~ \E i \in DOMAIN q : q[i].path = p
  <2>1. new = Append(q, e)
    BY <1>5 DEF Queued
  <2>2. /\ new \in Seq(Entries) /\ Len(new) = Len(q) + 1 /\ DOMAIN new = 1 .. Len(q) + 1
        /\ \A i \in DOMAIN q : new[i] = q[i]
        /\ new[Len(q) + 1] = e
    BY <1>1, <1>2, <2>1, AppendProperties, LenProperties
  <2> HIDE DEF e
  <2>3. \A i \in DOMAIN new : i \in DOMAIN q \/ (i = Len(q) + 1 /\ new[i] = e)
    BY <1>2, <2>2
  <2>4. \A i \in DOMAIN new : new[i].job = rows[new[i].path] /\ rows[new[i].path] # NoJob
    BY <1>1, <1>3, <1>5, <2>2, <2>3 DEF Mirrors
  <2>5. \A i, j \in DOMAIN new : new[i].path = new[j].path => i = j
    BY <1>1, <1>5, <2>2, <2>3 DEF Mirrors
  <2>6. Mirrors(new, rows)
    BY <2>2, <2>4, <2>5 DEF Mirrors
  <2>7. \E i \in DOMAIN new : new[i].path = p
    BY <1>1, <1>2, <2>2
  <2>8. \A x \in Paths \ {p} : (\E i \in DOMAIN q : q[i].path = x) <=> (\E i \in DOMAIN new : new[i].path = x)
    BY <1>1, <1>2, <2>2, <2>3
  <2> QED BY <2>6, <2>7, <2>8
<1> QED BY <1>4, <1>5

\* The jobs that are loaded mirror the rows, and no row is left out.
LEMMA LoadedOK ==
  ASSUME Inv, NEW q \in LoadPendingJobs
  PROVE  /\ Mirrors(q, row)
         /\ \A p \in Paths : row[p] # NoJob => \E i \in DOMAIN q : q[i] = Entry(p)
<1> DEFINE P == {p \in Paths : row[p] # NoJob}
           S == {Entry(p) : p \in P}
           n == Cardinality(S)
<1>1. row \in [Paths -> Job]
  BY DEF Inv, RowOK
<1>2. IsFiniteSet(S) /\ n \in Nat
  <2>1. IsFiniteSet(P)
    BY CatalogNames, FS_Subset
  <2>2. [p \in P |-> Entry(p)] \in Surjection(P, S)
    BY DEF Surjection
  <2> QED BY <2>1, <2>2, FS_Surjection, FS_CardinalityType
<1>3. q \in [1 .. n -> S] /\ \A i, j \in 1 .. n : i # j => q[i] # q[j]
  BY DEF LoadPendingJobs, SetToSeqs
<1>4. q \in Surjection(1 .. n, S)
  <2>1. q \in Injection(1 .. n, S)
    BY <1>3 DEF Injection, IsInjective
  <2>2. Cardinality(1 .. n) = Cardinality(S)
    BY <1>2, FS_Interval
  <2> HIDE DEF S, n
  <2> QED BY <1>2, <2>1, <2>2, FS_Injection
<1>5. \A s \in S : \E i \in 1 .. n : q[i] = s
  BY <1>4 DEF Surjection
<1>6. S \subseteq Entries
  BY <1>1 DEF Entry, Entries
<1>7. q \in Seq(Entries) /\ DOMAIN q = 1 .. n
  BY <1>2, <1>3, <1>6, SeqDef
<1>8. \A i \in 1 .. n : q[i].path \in P /\ q[i] = Entry(q[i].path)
  BY <1>3 DEF Entry
<1>9. \A i, j \in 1 .. n : q[i].path = q[j].path => i = j
  BY <1>3, <1>8
<1>10. \A i \in 1 .. n : q[i].job = row[q[i].path] /\ row[q[i].path] # NoJob
  <2> SUFFICES ASSUME NEW i \in 1 .. n PROVE q[i].job = row[q[i].path] /\ row[q[i].path] # NoJob
    OBVIOUS
  <2>1. q[i] = Entry(q[i].path) /\ q[i].path \in P
    BY <1>8
  <2>2. Entry(q[i].path).job = row[q[i].path]
    BY DEF Entry
  <2> QED BY <2>1, <2>2
<1>11. Mirrors(q, row)
  BY <1>7, <1>9, <1>10 DEF Mirrors
<1>12. \A p \in P : \E i \in 1 .. n : q[i] = Entry(p)
  BY <1>5
<1> QED BY <1>7, <1>11, <1>12

-----------------------------------------------------------------------------
(* Starting. *)

\* Validation compares fingerprints: a location keeps its record and its stamp.
LEMMA ValidateOK ==
  ASSUME Inv, ValidateLocations, UNCHANGED <<disk, writes, overtaken>>
  PROVE  loc' \in [Paths -> Location] /\ BoundOK'
<1>1. loc \in [Paths -> Location]
  BY DEF Inv, TablesOK
<1>2. \A p \in Paths : /\ Checked(p) \in Location
                       /\ Checked(p).key = loc[p].key /\ Checked(p).stamp = loc[p].stamp
  BY <1>1 DEF Checked, Location
<1>3. loc' = [p \in Paths |-> Checked(p)]
  BY DEF ValidateLocations
<1>4. Stamped(loc)'
  <2>1. DOMAIN loc = Paths /\ DOMAIN loc' = Paths
    BY <1>1, <1>3
  <2> QED BY <1>2, <1>3, <2>1 DEF Inv, BoundOK, Stamped
<1>5. \A p \in Paths \ overtaken' : loc'[p].stamp = disk'[p].stamp => loc'[p].key = disk'[p].bytes
  BY <1>2, <1>3 DEF Inv, BoundOK
<1> QED BY <1>2, <1>3, <1>4, <1>5 DEF BoundOK

\* An idle worker claims nothing.
LEMMA IdleOK ==
  ASSUME Inv, NEW pc \in {"off", "wait"},
         wk' = [Idle EXCEPT !.pc = pc] \/ (pc = "off" /\ wk' = Idle)
  PROVE  /\ WkType' /\ WkJob' /\ WkStep' /\ ~Busy'
         /\ wk'.job = NoJob /\ wk'.path = None /\ wk'.pc = pc
<1>1. wk' = [pc |-> pc, path |-> None, job |-> NoJob, ident |-> None, stamp |-> 0,
             locs |-> <<>>, keys |-> {}]
  BY DEF Idle
<1>2. 0 \in 0 .. MaxWrites
  BY CatalogBounds
<1>3. ~Busy' /\ wk'.job = NoJob /\ wk'.path = None /\ wk'.pc = pc
  BY <1>1 DEF Busy
<1>4. WkType'
  <2>1. \A l \in Copies \cup {<<>>} :
           [pc |-> pc, path |-> None, job |-> NoJob, ident |-> None, stamp |-> 0,
            locs |-> l, keys |-> {}]
           \in [pc : WkPcs, path : Paths \cup {None}, job : Job,
               ident : Bytes \cup {None}, stamp : 0 .. MaxWrites,
               locs : Copies \cup {<<>>}, keys : SUBSET Resources]
    BY <1>2, Constants DEF WkPcs
  <2> QED BY <1>1, <1>3, <2>1 DEF WkType
<1> QED BY <1>3, <1>4 DEF WkJob, WkStep

\* The start of the service keeps the invariant.
LEMMA InitializeKeeps == ASSUME Inv, Initialize PROVE Inv'
<1>1. /\ ValidateLocations /\ queue' \in LoadPendingJobs /\ svc' = "on"
      /\ wk' = [Idle EXCEPT !.pc = "wait"]
      /\ UNCHANGED <<disk, writes, row, recs, layer, res, sub, scan, failed, done, observed,
                     overtaken>>
  BY DEF Initialize, history, counts
<1>2. loc' \in [Paths -> Location] /\ BoundOK'
  BY <1>1, ValidateOK
<1>3. WkType' /\ WkJob' /\ WkStep' /\ wk'.job = NoJob /\ wk'.pc = "wait"
  BY <1>1, IdleOK
<1>4. Mirrors(queue', row) /\ \A p \in Paths : row[p] # NoJob => \E i \in DOMAIN queue' : queue'[i] = Entry(p)
  BY <1>1, LoadedOK
<1>5. QueueOK' /\ CoverOK'
  BY <1>1, <1>4 DEF QueueOK, Mirrors, CoverOK, Covered, Entry
<1>6. TablesOK'
  BY <1>1, <1>2 DEF Inv, TablesOK
<1>7. AliasOK'
  BY <1>1, <1>3 DEF Inv, AliasOK, AliasTrue, Seen, NoJob
<1>8. HistOK' /\ DiskOK' /\ SubOK' /\ RowOK' /\ ScanOK'
  <2>1. HistOK'
    BY <1>1 DEF Inv, HistOK
  <2> QED BY <1>1, <2>1, Frames
<1> QED BY <1>2, <1>3, <1>5, <1>6, <1>7, <1>8 DEF Inv

-----------------------------------------------------------------------------
(* Submissions. *)

\* What is stored is the submission, with the aliases of an earlier one of the
\* same file and a generation of its own.
LEMMA PersistedOK ==
  ASSUME Inv, NEW p \in Paths, sub[p] # NoJob
  PROVE  /\ Persisted(p) \in Job /\ Persisted(p) # NoJob
         /\ Persisted(p).file = sub[p].file
         /\ Persisted(p).gen = row[p].gen + 1 /\ row[p].gen \in Nat
         /\ Seen(Persisted(p))
<1>1. sub[p] \in Job /\ row[p] \in Job
  BY DEF Inv, SubOK, RowOK
<1>2. Seen(sub[p]) /\ Seen(row[p])
  BY DEF Inv, AliasOK
<1> DEFINE m == Merged(row[p], sub[p])
<1>3. m \in Job /\ m.file = sub[p].file /\ Seen(m)
  <2>1. CASE row[p].file = sub[p].file
    <3>1. m = [sub[p] EXCEPT !.root = sub[p].root \/ row[p].root, !.keys = sub[p].keys \cup row[p].keys]
      BY <2>1 DEF Merged
    <3>2. m.file = sub[p].file /\ m.gen = sub[p].gen /\ m.keys = sub[p].keys \cup row[p].keys
      BY <1>1, <3>1 DEF Job
    <3>3. m \in Job
      BY <1>1, <3>1 DEF Job
    <3> HIDE DEF m
    <3> QED BY <1>2, <2>1, <3>2, <3>3 DEF Seen
  <2>2. CASE row[p].file # sub[p].file
    BY <1>1, <1>2, <2>2 DEF Merged
  <2> QED BY <2>1, <2>2
<1>4. Persisted(p) = [m EXCEPT !.gen = row[p].gen + 1]
  BY DEF Persisted
<1>5. row[p].gen \in Nat
  BY <1>1 DEF Job
<1> HIDE DEF m
<1>6. Persisted(p).gen = row[p].gen + 1 /\ Persisted(p).file = m.file /\ Persisted(p).keys = m.keys
  BY <1>3, <1>4 DEF Job
<1>7. Persisted(p) \in Job
  BY <1>3, <1>4, <1>5 DEF Job
<1>8. Persisted(p) # NoJob
  BY <1>5, <1>6 DEF NoJob
<1> QED BY <1>3, <1>5, <1>6, <1>7, <1>8 DEF Seen

\* What storing a submission does to the rows.
LEMMA RowsPersisted ==
  ASSUME Inv, NEW p \in Paths, sub[p] # NoJob,
         row' = [row EXCEPT ![p] = Persisted(p)], sub' = [sub EXCEPT ![p] = NoJob],
         UNCHANGED <<disk, writes, observed>>
  PROVE  /\ SubOK' /\ RowOK'
         /\ \A x \in Paths : Seen(sub[x])' /\ Seen(row[x])'
<1>1. sub \in [Paths -> Job] /\ row \in [Paths -> Job]
  BY DEF Inv, SubOK, RowOK
<1>2. Persisted(p) \in Job /\ Persisted(p).file = sub[p].file /\ Persisted(p).gen > 0
      /\ Seen(Persisted(p))
  BY PersistedOK
<1>3. SubOK'
  BY <1>1, Constants DEF Inv, SubOK, Handed
<1>4. RowOK'
  BY <1>1, <1>2 DEF Inv, RowOK, SubOK, Handed
<1>5. \A x \in Paths : Seen(sub[x])' /\ Seen(row[x])'
  <2>1. \A x \in Paths : Seen(sub[x]) /\ Seen(row[x])
    BY DEF Inv, AliasOK
  <2> HIDE DEF Persisted
  <2> QED BY <1>1, <1>2, <2>1 DEF Seen, NoJob
<1> QED BY <1>3, <1>4, <1>5

\* A submission that is persisted keeps the invariant.
LEMMA PersistKeeps == ASSUME Inv, NEW p \in Paths, Persist(p) PROVE Inv'
<1>1. /\ sub[p] # NoJob
      /\ row' = [row EXCEPT ![p] = Persisted(p)]
      /\ queue' = Queued(queue, p, row'[p])
      /\ sub' = [sub EXCEPT ![p] = NoJob] /\ failed' = failed \ {p}
      /\ UNCHANGED <<disk, writes, loc, recs, layer, res, svc, wk, scan, done, observed, overtaken>>
  BY DEF Persist, history, counts
<1>2. row \in [Paths -> Job] /\ Mirrors(queue, row)
  BY DEF Inv, RowOK, QueueOK
<1>3. /\ Persisted(p) \in Job /\ Persisted(p) # NoJob
      /\ Persisted(p).gen = row[p].gen + 1 /\ row[p].gen \in Nat
  BY <1>1, PersistedOK
<1>4. SubOK' /\ RowOK' /\ \A x \in Paths : Seen(sub[x])' /\ Seen(row[x])'
  BY <1>1, RowsPersisted
<1>5. row'[p] = Persisted(p) /\ \A x \in Paths \ {p} : row'[x] = row[x]
  BY <1>1, <1>2
<1>6. /\ Mirrors(queue', row')
      /\ Queues(p)'
      /\ \A x \in Paths \ {p} : Queues(x) <=> Queues(x)'
  <2>1. queue' = Queued(queue, p, Persisted(p))
    BY <1>1, <1>5
  <2>2. \A new, rows : /\ new = Queued(queue, p, Persisted(p)) /\ rows[p] = Persisted(p)
                       /\ \A x \in Paths \ {p} : rows[x] = row[x]
           => /\ Mirrors(new, rows)
              /\ \E i \in DOMAIN new : new[i].path = p
              /\ \A x \in Paths \ {p} : (\E i \in DOMAIN queue : queue[i].path = x)
                                       <=> (\E i \in DOMAIN new : new[i].path = x)
    BY <1>2, <1>3, QueuedOK
  <2> QED BY <1>5, <2>1, <2>2 DEF Queues
<1>7. QueueOK'
  BY <1>6 DEF QueueOK
<1>8. WkJob'
  <2>1. CASE Busy /\ wk.path = p
    <3>1. Handed(p, wk.job.file) /\ wk.job.gen > 0 /\ wk.job.gen <= row[p].gen /\ wk.job \in Job
      BY <2>1 DEF Inv, WkJob, WkType
    <3>2. wk.job.gen < row'[p].gen
      BY <1>3, <1>5, <3>1 DEF Job
    <3>3. wk.job.gen # row'[p].gen /\ wk.job.gen <= row'[p].gen
      BY <1>3, <1>5, <3>1, <3>2 DEF Job
    <3> QED BY <1>1, <1>3, <1>5, <2>1, <3>1, <3>2, <3>3 DEF WkJob, Busy, Handed
  <2>2. CASE Busy /\ wk.path # p
    <3>1. wk.path \in Paths
      BY <2>2 DEF Inv, WkType
    <3> QED BY <1>1, <1>5, <1>6, <2>2, <3>1 DEF Inv, WkJob, Busy, Handed
  <2>3. CASE ~Busy
    BY <1>1, <2>3 DEF WkJob, Busy
  <2> QED BY <2>1, <2>2, <2>3
<1>9. CoverOK'
  <2> SUFFICES ASSUME svc' # "off", NEW x \in Paths, row'[x] # NoJob PROVE Covered(x)'
    BY DEF CoverOK
  <2>0. row' \in [Paths -> Job]
    BY <1>4 DEF RowOK
  <2>1. Queues(x)' => Covered(x)'
    BY <1>6, <2>0, MirrorEntry DEF Covered, Queues, Entry, Mirrors
  <2>2. CASE x # p
    <3>1. Covered(x) /\ row'[x] = row[x]
      BY <1>1, <1>5, <2>2 DEF Inv, CoverOK
    <3>2. (\E i \in DOMAIN queue : queue[i] = Entry(x)) => Queues(x)
      BY DEF Queues, Entry
    <3> QED BY <1>1, <1>6, <2>1, <2>2, <3>1, <3>2 DEF Covered
  <2> QED BY <1>6, <2>1, <2>2
<1>10. AliasOK'
  BY <1>1, <1>4 DEF Inv, AliasOK, AliasTrue, Seen
<1>11. HistOK' /\ DiskOK' /\ TablesOK' /\ WkType' /\ WkStep' /\ ScanOK' /\ BoundOK'
  <2>1. HistOK'
    BY <1>1 DEF Inv, HistOK
  <2> QED BY <1>1, <2>1, Frames
<1> QED BY <1>4, <1>7, <1>8, <1>9, <1>10, <1>11 DEF Inv

\* The service is not running, so nobody works on a job.
LEMMA PersistFirstKeeps == ASSUME Inv, NEW p \in Paths, PersistFirst(p) PROVE Inv'
<1>1. /\ sub[p] # NoJob /\ ValidateLocations
      /\ row' = [row EXCEPT ![p] = Persisted(p)]
      /\ sub' = [sub EXCEPT ![p] = NoJob] /\ failed' = failed \ {p} /\ svc' = "on"
      /\ wk' = [Idle EXCEPT !.pc = "wait"]
      /\ UNCHANGED <<disk, writes, recs, layer, res, scan, done, observed, overtaken>>
  BY DEF PersistFirst, history, counts
<1>2. row \in [Paths -> Job]
  BY DEF Inv, RowOK
<1>3. Persisted(p) \in Job /\ Persisted(p) # NoJob
  BY <1>1, PersistedOK
<1>4. SubOK' /\ RowOK' /\ \A x \in Paths : Seen(sub[x])' /\ Seen(row[x])'
  BY <1>1, RowsPersisted
<1>5. row'[p] = Persisted(p) /\ \A x \in Paths \ {p} : row'[x] = row[x]
  BY <1>1, <1>2
<1>6. loc' \in [Paths -> Location] /\ BoundOK'
  BY <1>1, ValidateOK
<1>7. WkType' /\ WkJob' /\ WkStep' /\ wk'.job = NoJob /\ wk'.pc = "wait"
  BY <1>1, IdleOK
<1>8. PICK q \in LoadPendingJobs : queue' = Queued(q, p, Persisted(p))
  BY <1>5 DEF PersistFirst
<1>9. Mirrors(q, row) /\ \A x \in Paths : row[x] # NoJob => \E i \in DOMAIN q : q[i] = Entry(x)
  BY LoadedOK
<1>10. /\ Mirrors(queue', row')
       /\ \E i \in DOMAIN queue' : queue'[i].path = p
       /\ \A x \in Paths \ {p} : (\E i \in DOMAIN q : q[i].path = x)
                                <=> (\E i \in DOMAIN queue' : queue'[i].path = x)
  <2>1. \A new, rows : /\ new = Queued(q, p, Persisted(p)) /\ rows[p] = Persisted(p)
                       /\ \A x \in Paths \ {p} : rows[x] = row[x]
           => /\ Mirrors(new, rows)
              /\ \E i \in DOMAIN new : new[i].path = p
              /\ \A x \in Paths \ {p} : (\E i \in DOMAIN q : q[i].path = x)
                                       <=> (\E i \in DOMAIN new : new[i].path = x)
    BY <1>2, <1>3, <1>9, QueuedOK
  <2> QED BY <1>5, <1>8, <2>1
<1>11. QueueOK'
  BY <1>10 DEF QueueOK
<1>12. CoverOK'
  <2> SUFFICES ASSUME NEW x \in Paths, row'[x] # NoJob PROVE Covered(x)'
    BY DEF CoverOK
  <2>1. row' \in [Paths -> Job]
    BY <1>4 DEF RowOK
  <2>2. \E i \in DOMAIN queue' : queue'[i].path = x
    BY <1>5, <1>9, <1>10 DEF Entry
  <2> QED BY <1>10, <2>1, <2>2, MirrorEntry DEF Covered, Entry, Mirrors
<1>13. AliasOK'
  BY <1>1, <1>4, <1>7 DEF Inv, AliasOK, AliasTrue, Seen, NoJob
<1>14. TablesOK' /\ HistOK'
  BY <1>1, <1>6 DEF Inv, TablesOK, HistOK
<1>15. DiskOK' /\ ScanOK'
  BY <1>1, Frames
<1> QED BY <1>4, <1>6, <1>7, <1>11, <1>12, <1>13, <1>14, <1>15 DEF Inv

\* A submission that fails to persist keeps the invariant.
LEMMA PersistFailsKeeps == ASSUME Inv, NEW p \in Paths, PersistFails(p) PROVE Inv'
<1>1. /\ sub' = [sub EXCEPT ![p] = NoJob]
      /\ UNCHANGED <<disk, writes, tables, svc, queue, wk, scan, failed, history>>
  BY DEF PersistFails
<1>2. sub' \in [Paths -> Job] /\ \A x \in Paths : sub'[x] = sub[x] \/ sub'[x] = NoJob
  BY <1>1, Constants DEF Inv, SubOK
<1>3. SubOK'
  BY <1>1, <1>2 DEF Inv, SubOK, Handed
<1>4. AliasOK'
  BY <1>1, <1>2 DEF Inv, AliasOK, AliasTrue, Seen, NoJob, tables, history
<1>5. /\ DiskOK' /\ TablesOK' /\ RowOK' /\ QueueOK' /\ WkType' /\ WkJob' /\ WkStep' /\ ScanOK'
      /\ BoundOK' /\ CoverOK' /\ HistOK'
  BY <1>1, Frames DEF tables, history
<1> QED BY <1>3, <1>4, <1>5 DEF Inv

\* The fingerprint is of a file that is there.
LEMMA FingerprintKeeps == ASSUME Inv, NEW p \in Paths, Fingerprint(p) PROVE Inv'
<1>1. /\ disk[p] # NoFile
      /\ UNCHANGED <<disk, writes, tables, svc, queue, wk, scan, failed, done, overtaken>>
  BY DEF Fingerprint
<1>2. disk[p] \in File /\ Handed(p, disk[p])
  BY <1>1, CatalogBounds DEF Inv, DiskOK, Handed, File
<1>3. \E K \in SUBSET Resources, job \in Job :
         /\ job.file = disk[p] /\ job.keys = K
         /\ sub' = [sub EXCEPT ![p] = job]
         /\ observed' = observed \cup (K \X {disk[p].bytes})
  <2>1. CASE UNCHANGED observed /\ sub' = [sub EXCEPT ![p] = [NoJob EXCEPT !.file = disk[p], !.root = TRUE]]
    <3> DEFINE job == [NoJob EXCEPT !.file = disk[p], !.root = TRUE]
    <3>1. observed \cup ({} \X {disk[p].bytes}) = observed
      OBVIOUS
    <3>2. job \in Job /\ job.file = disk[p] /\ job.keys = NoJob.keys
      BY <1>2, Constants DEF Job
    <3>3. NoJob.keys = {}
      BY DEF NoJob
    <3> HIDE DEF job
    <3>4. sub' = [sub EXCEPT ![p] = job] /\ observed' = observed
      BY <2>1 DEF job
    <3> QED BY <3>1, <3>2, <3>3, <3>4
  <2>2. CASE \E K \in SUBSET Resources :
                /\ sub' = [sub EXCEPT ![p] = [NoJob EXCEPT !.file = disk[p], !.keys = K]]
                /\ observed' = observed \cup (K \X {disk[p].bytes})
    <3>1. PICK K \in SUBSET Resources :
                /\ sub' = [sub EXCEPT ![p] = [NoJob EXCEPT !.file = disk[p], !.keys = K]]
                /\ observed' = observed \cup (K \X {disk[p].bytes})
      BY <2>2
    <3> DEFINE job == [NoJob EXCEPT !.file = disk[p], !.keys = K]
    <3>2. job \in Job /\ job.file = disk[p] /\ job.keys = K
      BY <1>2, Constants DEF Job
    <3> HIDE DEF job
    <3>3. sub' = [sub EXCEPT ![p] = job]
      BY <3>1 DEF job
    <3> QED BY <3>1, <3>2, <3>3
  <2> QED BY <2>1, <2>2 DEF Fingerprint
<1>4. PICK K \in SUBSET Resources, job \in Job :
         /\ job.file = disk[p] /\ job.keys = K
         /\ sub' = [sub EXCEPT ![p] = job]
         /\ observed' = observed \cup (K \X {disk[p].bytes})
  BY <1>3
<1>5. sub \in [Paths -> Job]
  BY DEF Inv, SubOK
<1>6. sub' \in [Paths -> Job] /\ sub'[p] = job /\ \A x \in Paths \ {p} : sub'[x] = sub[x]
  BY <1>4, <1>5
<1>7. SubOK'
  BY <1>1, <1>2, <1>4, <1>6 DEF Inv, SubOK, Handed
<1>8. observed \subseteq observed' /\ \A r \in K : <<r, disk[p].bytes>> \in observed'
  BY <1>4
<1>9. AliasOK'
  <2>1. \A x \in Paths : Seen(sub[x])' /\ Seen(row[x])'
    BY <1>1, <1>4, <1>6, <1>8 DEF Inv, AliasOK, Seen, tables
  <2> QED BY <1>1, <1>8, <2>1 DEF Inv, AliasOK, AliasTrue, Seen, tables
<1>10. /\ DiskOK' /\ TablesOK' /\ RowOK' /\ QueueOK' /\ WkType' /\ WkJob' /\ WkStep' /\ ScanOK'
       /\ BoundOK' /\ CoverOK' /\ HistOK'
  BY <1>1, Frames DEF tables
<1> QED BY <1>7, <1>9, <1>10 DEF Inv

-----------------------------------------------------------------------------
(* The worker. *)

\* The rest of a queue that holds rows does, and the first path is not in it.
LEMMA PopKeeps == ASSUME Inv, Pop PROVE Inv'
<1>1. /\ wk.pc = "wait" /\ queue # <<>> /\ queue' = Tail(queue)
      /\ wk' = [Idle EXCEPT !.pc = "check", !.path = Head(queue).path, !.job = Head(queue).job]
      /\ UNCHANGED <<disk, writes, tables, svc, sub, scan, failed, history>>
  BY DEF Pop, Quiet, At, counts
<1>2. /\ queue \in Seq(Entries) /\ row \in [Paths -> Job]
      /\ Mirrors(queue, row) /\ row' = row
  BY <1>1 DEF Inv, QueueOK, RowOK, Mirrors, tables
<1>3. /\ Len(queue) \in Nat /\ Len(queue) > 0 /\ DOMAIN queue = 1 .. Len(queue)
      /\ queue' \in Seq(Entries) /\ Len(queue') = Len(queue) - 1
      /\ DOMAIN queue' = 1 .. Len(queue) - 1
      /\ \A i \in 1 .. Len(queue) - 1 : queue'[i] = queue[i + 1]
  BY <1>1, <1>2, HeadTailProperties, LenProperties, EmptySeq
<1>4. PICK h \in Entries :
         /\ h = queue[1] /\ h = Head(queue) /\ h.path \in Paths /\ h.job \in Job
         /\ h.job = row[h.path] /\ row[h.path] # NoJob
  <2>1. 1 \in DOMAIN queue
    BY <1>3
  <2>2. queue[1] = Head(queue)
    BY <1>2, <1>3
  <2>3. queue[1] \in Entries
    BY <1>2, <1>3, <2>1, ElementOfSeq
  <2>4. queue[1].job = row[queue[1].path] /\ row[queue[1].path] # NoJob
    BY <1>2, <2>1 DEF Mirrors
  <2> QED BY <2>2, <2>3, <2>4 DEF Entries
<1>5. \A i \in DOMAIN queue' :
         i + 1 \in DOMAIN queue /\ queue'[i] = queue[i + 1] /\ queue'[i].path # h.path
  <2>1. \A i \in DOMAIN queue' : i + 1 \in DOMAIN queue /\ i + 1 # 1 /\ queue'[i] = queue[i + 1]
    BY <1>3
  <2>2. 1 \in DOMAIN queue
    BY <1>3
  <2> QED BY <1>2, <1>4, <2>1, <2>2 DEF Mirrors
<1>6. QueueOK'
  <2>1. \A i \in DOMAIN queue' : queue'[i].job = row[queue'[i].path] /\ row[queue'[i].path] # NoJob
    BY <1>2, <1>5 DEF Mirrors
  <2>2. ASSUME NEW i \in DOMAIN queue', NEW j \in DOMAIN queue', queue'[i].path = queue'[j].path
        PROVE  i = j
    <3>1. i + 1 = j + 1
      BY <1>2, <1>5, <2>2 DEF Mirrors
    <3> QED BY <1>3, <3>1
  <2> QED BY <1>2, <1>3, <2>1, <2>2 DEF QueueOK, Mirrors
<1>7. wk' = [pc |-> "check", path |-> h.path, job |-> h.job, ident |-> None, stamp |-> 0,
             locs |-> <<>>, keys |-> {}]
  BY <1>1, <1>4 DEF Idle
<1>8. WkType'
  <2>1. 0 \in 0 .. MaxWrites
    BY CatalogBounds
  <2>2. \A l \in Copies \cup {<<>>} :
           [pc |-> "check", path |-> h.path, job |-> h.job, ident |-> None, stamp |-> 0,
            locs |-> l, keys |-> {}]
           \in [pc : WkPcs, path : Paths \cup {None}, job : Job,
               ident : Bytes \cup {None}, stamp : 0 .. MaxWrites,
               locs : Copies \cup {<<>>}, keys : SUBSET Resources]
    BY <1>4, <2>1 DEF WkPcs
  <2> QED BY <1>4, <1>7, <2>2 DEF WkType, Busy
<1>9. WkJob'
  <2>1. /\ row[h.path].gen > 0 /\ Handed(h.path, row[h.path].file) /\ row[h.path].gen \in Nat
    BY <1>2, <1>4 DEF Inv, RowOK, Job
  <2>2. ~Queues(h.path)'
    BY <1>5 DEF Queues
  <2>3. wk'.path = h.path /\ wk'.job = h.job
    BY <1>7
  <2> QED BY <1>1, <1>2, <1>4, <2>1, <2>2, <2>3 DEF WkJob, Handed, Queues
<1>10. WkStep'
  BY <1>7 DEF WkStep
<1>11. AliasOK'
  <2>1. Seen(row[h.path])
    BY <1>4 DEF Inv, AliasOK
  <2> QED BY <1>1, <1>4, <1>7, <2>1 DEF Inv, AliasOK, AliasTrue, Seen, tables, history
<1>12. CoverOK'
  <2> SUFFICES ASSUME svc # "off", NEW x \in Paths, row[x] # NoJob PROVE Covered(x)'
    BY <1>1, <1>2 DEF CoverOK
  <2>1. Covered(x)
    BY DEF Inv, CoverOK
  <2>2. ASSUME NEW i \in DOMAIN queue, queue[i] = Entry(x) PROVE Covered(x)'
    <3>1. CASE i = 1
      <4>1. h.path = x /\ h.job = row[x]
        BY <1>4, <2>2, <3>1 DEF Entry
      <4> QED BY <1>2, <1>7, <4>1 DEF Covered
    <3>2. CASE i # 1
      <4>1. i - 1 \in DOMAIN queue' /\ queue'[i - 1] = Entry(x)
        BY <1>3, <2>2, <3>2
      <4> QED BY <1>2, <4>1 DEF Covered, Entry
    <3> QED BY <3>1, <3>2
  <2>3. wk.path # x
    BY <1>1, CatalogNames DEF Inv, WkType, Busy
  <2> QED BY <1>1, <2>1, <2>2, <2>3 DEF Covered
<1>13. DiskOK' /\ TablesOK' /\ SubOK' /\ RowOK' /\ ScanOK' /\ BoundOK' /\ HistOK'
  BY <1>1, Frames DEF tables, history
<1> QED BY <1>6, <1>8, <1>9, <1>10, <1>11, <1>12, <1>13 DEF Inv

\* A step of the worker within one job.
LEMMA WithinJob ==
  ASSUME Inv, Busy, Busy', WkType', WkStep', wk'.path = wk.path, wk'.job = wk.job,
         wk'.pc = "upsert" => \A r \in wk'.keys : <<r, wk'.ident>> \in observed,
         UNCHANGED <<disk, writes, tables, svc, queue, sub, scan, failed, history>>
  PROVE  Inv'
<1>1. WkJob'
  BY DEF Inv, WkJob, Handed, Queues, tables
<1>2. AliasOK'
  BY DEF Inv, AliasOK, AliasTrue, Seen, tables, history
<1>3. CoverOK'
  BY DEF Inv, CoverOK, Covered, Entry, tables
<1>4. /\ DiskOK' /\ TablesOK' /\ SubOK' /\ RowOK' /\ QueueOK' /\ ScanOK' /\ BoundOK' /\ HistOK'
  BY Frames DEF tables, history
<1> QED BY <1>1, <1>2, <1>3, <1>4 DEF Inv

\* The worker goes on with what it has.
LEMMA GotoOK ==
  ASSUME Inv, Busy, NEW pc \in {"hash", "recheck", "ack"}, Goto(pc)
  PROVE  /\ WkType' /\ Busy' /\ wk'.pc = pc /\ wk'.path = wk.path /\ wk'.job = wk.job
         /\ wk'.ident = wk.ident /\ wk'.stamp = wk.stamp
<1>1. wk' = [wk EXCEPT !.pc = pc]
  BY DEF Goto
<1>2. wk \in [pc : WkPcs, path : Paths \cup {None}, job : Job,
              ident : Bytes \cup {None}, stamp : 0 .. MaxWrites,
              locs : Copies \cup {<<>>}, keys : SUBSET Resources] /\ wk.path \in Paths
  BY DEF Inv, WkType
<1>3. pc \in WkPcs /\ pc \notin {"off", "wait"}
  BY DEF WkPcs
<1>4. wk' \in [pc : WkPcs, path : Paths \cup {None}, job : Job,
              ident : Bytes \cup {None}, stamp : 0 .. MaxWrites,
              locs : Copies \cup {<<>>}, keys : SUBSET Resources]
  BY <1>1, <1>2, <1>3
<1>5. /\ wk'.pc = pc /\ wk'.path = wk.path /\ wk'.job = wk.job
      /\ wk'.ident = wk.ident /\ wk'.stamp = wk.stamp
  BY <1>1, <1>2
<1> QED BY <1>2, <1>3, <1>4, <1>5 DEF WkType, Busy

\* The worker that looks at the file keeps the invariant.
LEMMA CheckFileKeeps == ASSUME Inv, CheckFile PROVE Inv'
<1>1. /\ Busy /\ wk.path \in Paths
      /\ UNCHANGED <<disk, writes, tables, svc, queue, sub, scan, failed, history>>
  BY DEF CheckFile, Quiet, counts, At, Inv, WkType, Busy
<1>2. PICK pc \in {"hash", "recheck", "ack"} :
         Goto(pc) /\ (pc = "ack" <=> ~Same) /\ (pc = "recheck" => wk.job.root)
  <2>1. Goto(CASE ~Same -> "ack" [] Same /\ wk.job.root -> "recheck" [] OTHER -> "hash")
    BY DEF CheckFile
  <2>2. CASE ~Same
    <3>1. Goto("ack")
      BY <2>1, <2>2 DEF Goto
    <3> QED BY <2>2, <3>1
  <2>3. CASE Same /\ wk.job.root
    <3>1. Goto("recheck")
      BY <2>1, <2>3 DEF Goto
    <3> QED BY <2>3, <3>1
  <2>4. CASE Same /\ ~wk.job.root
    <3>1. Goto("hash")
      BY <2>1, <2>4 DEF Goto
    <3> QED BY <2>4, <3>1
  <2> QED BY <2>2, <2>3, <2>4
<1>3. /\ WkType' /\ Busy' /\ wk'.pc = pc /\ wk'.path = wk.path /\ wk'.job = wk.job
  BY <1>1, <1>2, GotoOK
<1>4. WkStep'
  <2>1. pc = "ack" => disk[wk.path].stamp # wk.job.file.stamp
    BY <1>1, <1>2 DEF Same, Inv, WkJob, Handed
  <2> QED BY <1>1, <1>2, <1>3, <2>1 DEF WkStep
<1> QED BY <1>1, <1>2, <1>3, <1>4, WithinJob

\* The worker that has hashed the file keeps the invariant.
LEMMA HashFileKeeps == ASSUME Inv, HashFile PROVE Inv'
<1>1. /\ Busy /\ wk.path \in Paths
      /\ UNCHANGED <<disk, writes, tables, svc, queue, sub, scan, failed, history>>
  BY DEF HashFile, Quiet, counts, At, Inv, WkType, Busy
<1>2. wk \in [pc : WkPcs, path : Paths \cup {None}, job : Job,
              ident : Bytes \cup {None}, stamp : 0 .. MaxWrites,
              locs : Copies \cup {<<>>}, keys : SUBSET Resources]
  BY DEF Inv, WkType
<1>3. PICK b \in Bytes : /\ wk' = [wk EXCEPT !.pc = "recheck", !.ident = b]
                         /\ Same => b = wk.job.file.bytes
  BY <1>1 DEF HashFile, Same, Inv, WkJob, Handed
<1>4. /\ wk' \in [pc : WkPcs, path : Paths \cup {None}, job : Job,
                  ident : Bytes \cup {None}, stamp : 0 .. MaxWrites,
                  locs : Copies \cup {<<>>}, keys : SUBSET Resources]
      /\ wk'.pc = "recheck" /\ wk'.path = wk.path /\ wk'.job = wk.job /\ wk'.ident = b
  BY <1>2, <1>3 DEF WkPcs
<1>5. WkType' /\ Busy'
  BY <1>1, <1>4 DEF WkType, Busy
<1>6. WkStep'
  BY <1>1, <1>3, <1>4 DEF WkStep, Same
<1> QED BY <1>1, <1>4, <1>5, <1>6, WithinJob

\* The identity is that of the file of the job: the root it came with, or what
\* was hashed, as the fingerprint is still the same.
LEMMA RecheckKeeps == ASSUME Inv, Recheck PROVE Inv'
<1>1. /\ Busy /\ wk.path \in Paths /\ wk.pc = "recheck"
      /\ UNCHANGED <<disk, writes, tables, svc, queue, sub, scan, failed, history>>
  BY DEF Recheck, Quiet, counts, At, Inv, WkType, Busy
<1>2. wk \in [pc : WkPcs, path : Paths \cup {None}, job : Job,
              ident : Bytes \cup {None}, stamp : 0 .. MaxWrites,
              locs : Copies \cup {<<>>}, keys : SUBSET Resources]
  BY DEF Inv, WkType
<1>3. CASE Same
  <2>1. wk' = [wk EXCEPT !.pc = "find", !.ident = Identity, !.stamp = disk[wk.path].stamp]
    BY <1>3 DEF Recheck
  <2>2. Identity = wk.job.file.bytes /\ disk[wk.path] = wk.job.file
    BY <1>1, <1>3 DEF Identity, Inv, WkStep, Same
  <2>3. wk.job.file.bytes \in Bytes /\ disk[wk.path].stamp \in 0 .. MaxWrites
    BY <1>1 DEF Inv, WkJob, Handed, DiskOK, File
  <2>4. /\ wk' \in [pc : WkPcs, path : Paths \cup {None}, job : Job,
                    ident : Bytes \cup {None}, stamp : 0 .. MaxWrites,
                    locs : Copies \cup {<<>>}, keys : SUBSET Resources]
        /\ wk'.pc = "find" /\ wk'.path = wk.path /\ wk'.job = wk.job
        /\ wk'.ident = wk.job.file.bytes /\ wk'.stamp = wk.job.file.stamp
    BY <1>2, <2>1, <2>2, <2>3 DEF WkPcs
  <2>5. WkType' /\ Busy'
    BY <1>1, <2>4 DEF WkType, Busy
  <2>6. WkStep'
    BY <2>4 DEF WkStep
  <2> QED BY <1>1, <2>4, <2>5, <2>6, WithinJob
<1>4. CASE ~Same
  <2>1. Goto("ack")
    BY <1>4 DEF Recheck
  <2>2. /\ WkType' /\ Busy' /\ wk'.pc = "ack" /\ wk'.path = wk.path /\ wk'.job = wk.job
    BY <1>1, <2>1, GotoOK
  <2>3. disk[wk.path].stamp # wk.job.file.stamp
    BY <1>1, <1>4 DEF Same, Inv, WkJob, Handed
  <2>4. WkStep'
    BY <1>1, <2>2, <2>3 DEF WkStep
  <2> QED BY <1>1, <2>2, <2>4, WithinJob
<1> QED BY <1>3, <1>4

\* A copy of the locations of a record is a copy of locations.
LEMMA LocationsOK ==
  ASSUME Inv, NEW b
  PROVE  /\ Locations(b) \in Copies /\ Stamped(Locations(b))
         /\ \A p \in Paths : loc[p].key = b => p \in DOMAIN Locations(b)
         /\ \A p \in DOMAIN Locations(b) : Locations(b)[p] = loc[p] /\ loc[p].key = b
<1> DEFINE S == {q \in Paths : loc[q].key = b}
<1>1. loc \in [Paths -> Location] /\ Stamped(loc)
  BY DEF Inv, TablesOK, BoundOK
<1>2. Locations(b) \in [S -> Location] /\ S \in SUBSET Paths
  BY <1>1 DEF Locations
<1>3. Locations(b) \in Copies
  BY <1>2 DEF Copies
<1>4. \A p \in S : Locations(b)[p] = loc[p]
  BY DEF Locations
<1>5. DOMAIN Locations(b) = S /\ DOMAIN loc = Paths
  BY <1>1, <1>2
<1> QED BY <1>1, <1>3, <1>4, <1>5 DEF Stamped

\* The worker that finds the record keeps the invariant.
LEMMA FindRecordKeeps == ASSUME Inv, FindRecord PROVE Inv'
<1>1. /\ Busy /\ wk.path \in Paths /\ wk.pc = "find"
      /\ UNCHANGED <<disk, writes, tables, svc, queue, sub, scan, failed, history>>
  BY DEF FindRecord, Quiet, counts, At, Inv, WkType, Busy
<1>2. wk \in [pc : WkPcs, path : Paths \cup {None}, job : Job,
              ident : Bytes \cup {None}, stamp : 0 .. MaxWrites,
              locs : Copies \cup {<<>>}, keys : SUBSET Resources]
  BY DEF Inv, WkType
<1> DEFINE L == Locations(wk.ident)
           K == Aliases(wk.ident) \cup wk.job.keys
<1>3. wk' = [wk EXCEPT !.pc = "upsert", !.locs = L, !.keys = K]
  BY DEF FindRecord
<1>4. L \in Copies /\ Stamped(L) /\ K \in SUBSET Resources
  BY <1>2, LocationsOK DEF Aliases, Job
<1>5. wk.ident = wk.job.file.bytes /\ wk.stamp = wk.job.file.stamp /\ wk.ident # None
  BY <1>1, CatalogNames DEF Inv, WkStep, WkJob, Handed
<1>6. \A r \in K : <<r, wk.ident>> \in observed
  BY <1>5 DEF Inv, AliasOK, AliasTrue, Aliases, Seen
<1> HIDE DEF L, K
<1>7. /\ wk' \in [pc : WkPcs, path : Paths \cup {None}, job : Job,
                  ident : Bytes \cup {None}, stamp : 0 .. MaxWrites,
                  locs : Copies \cup {<<>>}, keys : SUBSET Resources]
      /\ wk'.pc = "upsert" /\ wk'.path = wk.path /\ wk'.job = wk.job
      /\ wk'.ident = wk.ident /\ wk'.stamp = wk.stamp /\ wk'.locs = L /\ wk'.keys = K
  BY <1>2, <1>3, <1>4 DEF WkPcs
<1>8. WkType' /\ Busy'
  BY <1>1, <1>7 DEF WkType, Busy
<1>9. WkStep'
  BY <1>1, <1>4, <1>5, <1>7 DEF WkStep, Stamped
<1> QED BY <1>1, <1>6, <1>7, <1>8, <1>9, WithinJob

\* The end of a job: the worker waits again, and the row is done with, or the
\* job has failed, or the row is of a later submission.
LEMMA JobEnds ==
  ASSUME Inv, Busy, wk' = [Idle EXCEPT !.pc = "wait"],
         \/ row' = row
         \/ row' = [row EXCEPT ![wk.path] = NoJob] /\ row[wk.path].gen = wk.job.gen,
         failed' \subseteq Paths, failed \subseteq failed',
         row'[wk.path] = NoJob \/ row[wk.path].gen # wk.job.gen \/ wk.path \in failed',
         UNCHANGED <<disk, writes, loc, recs, layer, res, svc, queue, sub, scan, done, observed,
                     overtaken>>
  PROVE  Inv'
<1>1. WkType' /\ WkJob' /\ WkStep' /\ wk'.job = NoJob /\ wk'.path = None /\ wk'.pc = "wait"
  BY IdleOK
<1>2. wk.path \in Paths /\ wk.job \in Job /\ wk.job.gen \in Nat
  BY DEF Inv, WkType, Job
<1>3. row \in [Paths -> Job] /\ Mirrors(queue, row)
  BY DEF Inv, RowOK, QueueOK
<1>4. /\ row' \in [Paths -> Job]
      /\ \A x \in Paths : row'[x] = row[x] \/ (x = wk.path /\ row'[x] = NoJob)
  BY <1>2, <1>3, Constants
<1>5. RowOK'
  BY <1>4 DEF Inv, RowOK, Handed
<1>6. QueueOK'
  <2>1. ASSUME NEW i \in DOMAIN queue PROVE row'[queue[i].path] = row[queue[i].path]
    <3>1. queue[i].path \in Paths
      BY <1>3, MirrorEntry
    <3>2. queue[i].path = wk.path => wk.job.gen < row[wk.path].gen /\ row[wk.path].gen \in Nat
      BY <1>2, <1>3 DEF Inv, WkJob, Queues, Job
    <3>3. wk.job.gen < row[wk.path].gen /\ row[wk.path].gen \in Nat => wk.job.gen # row[wk.path].gen
      BY <1>2
    <3> QED BY <1>4, <3>1, <3>2, <3>3
  <2> QED BY <1>3, <2>1 DEF QueueOK, Mirrors
<1>7. AliasOK'
  <2>1. \A x \in Paths : Seen(row[x])'
    BY <1>4 DEF Inv, AliasOK, Seen, NoJob
  <2>2. \A x \in Paths : Seen(sub[x])'
    BY DEF Inv, AliasOK, Seen
  <2> QED BY <1>1, <2>1, <2>2 DEF Inv, AliasOK, AliasTrue, Seen, NoJob
<1>8. CoverOK'
  <2> SUFFICES ASSUME svc # "off", NEW x \in Paths, row'[x] # NoJob PROVE Covered(x)'
    BY DEF CoverOK
  <2>1. row'[x] = row[x]
    BY <1>4
  <2>2. Covered(x)
    BY <2>1 DEF Inv, CoverOK
  <2>3. x # wk.path \/ wk.job # row[x] \/ x \in failed'
    BY <2>1
  <2> QED BY <2>1, <2>2, <2>3 DEF Covered, Entry
<1>9. HistOK'
  BY DEF Inv, HistOK
<1>10. DiskOK' /\ TablesOK' /\ SubOK' /\ ScanOK' /\ BoundOK'
  BY Frames
<1> QED BY <1>1, <1>5, <1>6, <1>7, <1>8, <1>9, <1>10 DEF Inv

\* A job that fails keeps the invariant.
LEMMA FailsKeep == ASSUME Inv, HashFails \/ RecheckFails \/ UpsertFails PROVE Inv'
<1>1. /\ Busy /\ JobFails
      /\ UNCHANGED <<disk, writes, tables, svc, queue, sub, scan, history>>
  BY DEF HashFails, RecheckFails, UpsertFails, Quiet, counts, At, Busy
<1>2. wk.path \in Paths /\ failed \subseteq Paths
  BY <1>1 DEF Inv, WkType, HistOK
<1>3. /\ wk' = [Idle EXCEPT !.pc = "wait"]
      /\ failed \subseteq failed' /\ failed' \subseteq Paths
      /\ row[wk.path].gen # wk.job.gen \/ wk.path \in failed'
  BY <1>1, <1>2 DEF JobFails
<1> QED BY <1>1, <1>3, JobEnds DEF tables, history

\* A job that is completed keeps the invariant.
LEMMA CompleteKeeps == ASSUME Inv, Complete PROVE Inv'
<1>1. /\ Busy /\ wk' = [Idle EXCEPT !.pc = "wait"]
      /\ row' = IF row[wk.path].gen = wk.job.gen THEN [row EXCEPT ![wk.path] = NoJob] ELSE row
      /\ UNCHANGED <<disk, writes, loc, recs, layer, res, svc, queue, sub, scan, failed, done,
                     observed, overtaken>>
  BY DEF Complete, Quiet, counts, history, At, Busy
<1>2. wk.path \in Paths /\ failed \subseteq Paths /\ row \in [Paths -> Job]
  BY <1>1 DEF Inv, WkType, HistOK, RowOK
<1>3. row'[wk.path] = NoJob \/ row[wk.path].gen # wk.job.gen
  BY <1>1, <1>2
<1>4. \/ row' = row
      \/ row' = [row EXCEPT ![wk.path] = NoJob] /\ row[wk.path].gen = wk.job.gen
  BY <1>1
<1> QED BY <1>1, <1>2, <1>3, <1>4, JobEnds

\* The process ends: nothing is queued and nobody works.
LEMMA ProcessEnds ==
  ASSUME Inv, svc' = "off", wk' = Idle, queue' = <<>>, failed' = {},
         SubOK', ScanOK', \A p \in Paths : Seen(sub[p])',
         scan'.pc # "idle" => \A r \in scan'.keys : <<r, scan'.key>> \in observed,
         UNCHANGED <<disk, writes, tables, history>>
  PROVE  Inv'
<1>2. WkType' /\ WkJob' /\ WkStep' /\ wk'.job = NoJob /\ wk'.pc = "off"
  BY IdleOK
<1>3. QueueOK'
  <2>1. <<>> \in Seq(Entries) /\ DOMAIN queue' = {}
    OBVIOUS
  <2> QED BY <2>1 DEF QueueOK, Mirrors
<1>4. CoverOK' /\ HistOK'
  BY DEF Inv, CoverOK, HistOK, history
<1>5. AliasOK'
  <2>1. \A x \in Paths : Seen(row[x])'
    BY DEF Inv, AliasOK, Seen, tables, history
  <2> QED BY <1>2, <2>1 DEF Inv, AliasOK, AliasTrue, Seen, NoJob, tables, history
<1>6. DiskOK' /\ TablesOK' /\ RowOK' /\ BoundOK'
  BY Frames DEF tables, history
<1> QED BY <1>2, <1>3, <1>4, <1>5, <1>6 DEF Inv

\* A worker that stops keeps the invariant.
LEMMA WorkerStopsKeeps == ASSUME Inv, WorkerStops PROVE Inv'
<1>1. /\ svc' = "off" /\ wk' = Idle /\ queue' = <<>> /\ failed' = {}
      /\ UNCHANGED <<disk, writes, tables, sub, scan, history>>
  BY DEF WorkerStops, counts
<1>2. SubOK' /\ ScanOK'
  BY <1>1, Frames
<1>3. \A p \in Paths : Seen(sub[p])'
  BY <1>1 DEF Inv, AliasOK, Seen, history
<1>4. scan'.pc # "idle" => \A r \in scan'.keys : <<r, scan'.key>> \in observed
  BY <1>1 DEF Inv, AliasOK
<1> QED BY <1>1, <1>2, <1>3, <1>4, ProcessEnds

\* No scan.
LEMMA NoScanOK == ASSUME Inv, scan' = NoScan PROVE ScanOK' /\ scan'.pc = "idle"
<1>1. scan' = [pc |-> "idle", key |-> None, path |-> None, mark |-> NoFile, stamp |-> 0,
               locs |-> <<>>, keys |-> {}]
  BY DEF NoScan
<1>2. 0 \in 0 .. MaxWrites
  BY CatalogBounds
<1>3. \A l \in Copies \cup {<<>>} :
         [pc |-> "idle", key |-> None, path |-> None, mark |-> NoFile, stamp |-> 0,
          locs |-> l, keys |-> {}]
         \in [pc : {"idle", "hash", "stamp", "upsert"}, key : Bytes \cup {None},
              path : Paths \cup {None}, mark : File, stamp : 0 .. MaxWrites,
              locs : Copies \cup {<<>>}, keys : SUBSET Resources]
  BY <1>2, Constants
<1>4. scan'.pc = "idle"
  BY <1>1
<1>5. scan' \in [pc : {"idle", "hash", "stamp", "upsert"}, key : Bytes \cup {None},
                 path : Paths \cup {None}, mark : File, stamp : 0 .. MaxWrites,
                 locs : Copies \cup {<<>>}, keys : SUBSET Resources]
  BY <1>1, <1>3
<1> QED BY <1>4, <1>5 DEF ScanOK

\* A crash keeps the invariant.
LEMMA CrashKeeps == ASSUME Inv, Crash PROVE Inv'
<1>1. /\ svc' = "off" /\ wk' = Idle /\ queue' = <<>> /\ failed' = {} /\ scan' = NoScan
      /\ sub' = [p \in Paths |-> NoJob]
      /\ UNCHANGED <<disk, writes, tables, history>>
  BY DEF Crash
<1>2. SubOK' /\ \A p \in Paths : Seen(sub[p])'
  <2>1. \A p \in Paths : sub'[p] = NoJob
    BY <1>1
  <2>2. sub' \in [Paths -> Job]
    BY <1>1, Constants
  <2> QED BY <2>1, <2>2 DEF SubOK, Seen, NoJob
<1>3. ScanOK' /\ scan'.pc = "idle"
  BY <1>1, NoScanOK
<1> QED BY <1>1, <1>2, <1>3, ProcessEnds

\* A shutdown keeps the invariant.
LEMMA ShutdownKeeps == ASSUME Inv, Shutdown PROVE Inv'
<1>1. /\ svc = "on" /\ svc' = "stopping"
      /\ UNCHANGED <<disk, writes, tables, threads, history>>
  BY DEF Shutdown
<1>2. CoverOK' /\ HistOK'
  BY <1>1 DEF Inv, CoverOK, HistOK, Covered, Entry, tables, threads, history
<1>3. /\ DiskOK' /\ TablesOK' /\ SubOK' /\ RowOK' /\ QueueOK' /\ WkType' /\ WkJob' /\ WkStep'
      /\ ScanOK' /\ BoundOK' /\ AliasOK'
  BY <1>1, Frames DEF tables, threads, history
<1> QED BY <1>2, <1>3 DEF Inv

-----------------------------------------------------------------------------
(* Writing a record back. *)

\* Locations written over the table: those of L, and the others as they were.
LEMMA OverOK ==
  ASSUME Inv, NEW L, DOMAIN L \subseteq Paths, \A p \in DOMAIN L : L[p] \in Location,
         loc' = Over(loc, L)
  PROVE  /\ loc' \in [Paths -> Location]
         /\ \A p \in Paths : loc'[p] = IF p \in DOMAIN L THEN L[p] ELSE loc[p]
<1>1. loc \in [Paths -> Location] /\ DOMAIN loc = Paths
  BY DEF Inv, TablesOK
<1>2. loc' = [p \in Paths |-> IF p \in DOMAIN L THEN L[p] ELSE loc[p]]
  BY <1>1 DEF Over
<1> QED BY <1>1, <1>2

\* The records, the piece layers and the aliases after a record was stored.
LEMMA StoreOK ==
  ASSUME Inv, NEW b \in Bytes, NEW L, NEW K, NEW layered, Store(b, L, K, layered),
         \A r \in K : <<r, b>> \in observed, observed' = observed
  PROVE  /\ recs' \subseteq Bytes /\ layer' \subseteq recs'
         /\ res' \in [Resources -> Bytes \cup {None}] /\ AliasTrue'
<1>1. recs \subseteq Bytes /\ layer \subseteq recs /\ res \in [Resources -> Bytes \cup {None}]
  BY DEF Inv, TablesOK
<1>2. recs' = recs \cup {b} /\ layer' \subseteq layer \cup {b}
  BY DEF Store
<1>3. res' = [r \in Resources |-> IF r \in K THEN b ELSE res[r]]
  BY DEF Store
<1> QED BY <1>1, <1>2, <1>3 DEF Inv, AliasOK, AliasTrue

\* The worker stores its path as it was found; another path is either what it
\* was when the record was copied, or overtaken.
LEMMA UpsertKeeps == ASSUME Inv, Upsert PROVE Inv'
<1>1. /\ Busy /\ wk.pc = "upsert" /\ wk.path \in Paths /\ Goto("ack")
      /\ UNCHANGED <<disk, writes, row, svc, queue, sub, scan, failed, observed>>
  BY DEF Upsert, counts, At, Busy, Inv, WkType
<1>2. /\ done' = done \cup {<<wk.path, wk.stamp>>}
      /\ overtaken' = (overtaken \ {wk.path})
                      \cup {p \in DOMAIN wk.locs \ {wk.path} : loc[p] # wk.locs[p]}
  BY DEF Upsert
<1> DEFINE mine == [key |-> wk.ident, stamp |-> wk.stamp, avail |-> "available"]
           M == [p \in DOMAIN wk.locs \cup {wk.path} |->
                    IF p = wk.path THEN mine ELSE wk.locs[p]]
<1>3. Store(wk.ident, M, wk.keys, ~wk.job.root)
  BY DEF Upsert
<1>4. /\ wk.ident = wk.job.file.bytes /\ wk.stamp = wk.job.file.stamp
      /\ Handed(wk.path, wk.job.file) /\ wk.ident \in Bytes /\ wk.stamp \in 1 .. writes
      /\ wk.stamp \in 0 .. MaxWrites
  BY <1>1 DEF Inv, WkStep, WkJob, Handed, WkType
<1>5. /\ DOMAIN wk.locs \subseteq Paths /\ Stamped(wk.locs)
      /\ \A p \in DOMAIN wk.locs : wk.locs[p] \in Location
  <2>1. wk.locs \in Copies \cup {<<>>}
    BY DEF Inv, WkType
  <2> QED BY <1>1, <2>1, CopyOK DEF Inv, WkStep
<1>6. mine \in Location /\ mine.key = wk.ident /\ mine.stamp = wk.stamp
  BY <1>4 DEF Location
<1> HIDE DEF mine
<1>7. \E L : /\ DOMAIN L = DOMAIN wk.locs \cup {wk.path} /\ L[wk.path] = mine
             /\ \A p \in DOMAIN wk.locs \ {wk.path} : L[p] = wk.locs[p]
             /\ Store(wk.ident, L, wk.keys, ~wk.job.root)
  <2>1. /\ DOMAIN M = DOMAIN wk.locs \cup {wk.path} /\ M[wk.path] = mine
        /\ \A p \in DOMAIN wk.locs \ {wk.path} : M[p] = wk.locs[p]
    OBVIOUS
  <2> HIDE DEF M
  <2> QED BY <1>3, <2>1
<1>8. PICK L : /\ DOMAIN L = DOMAIN wk.locs \cup {wk.path} /\ L[wk.path] = mine
               /\ \A p \in DOMAIN wk.locs \ {wk.path} : L[p] = wk.locs[p]
               /\ Store(wk.ident, L, wk.keys, ~wk.job.root)
  BY <1>7
<1>9. DOMAIN L \subseteq Paths /\ \A p \in DOMAIN L : L[p] \in Location
  BY <1>1, <1>5, <1>6, <1>8
<1>10. /\ loc' \in [Paths -> Location] /\ loc'[wk.path] = mine
       /\ \A p \in DOMAIN wk.locs \ {wk.path} : loc'[p] = wk.locs[p]
       /\ \A p \in Paths \ (DOMAIN wk.locs \cup {wk.path}) : loc'[p] = loc[p]
  <2>1. loc' = Over(loc, L)
    BY <1>8 DEF Store
  <2>2. /\ loc' \in [Paths -> Location]
        /\ \A p \in Paths : loc'[p] = IF p \in DOMAIN L THEN L[p] ELSE loc[p]
    BY <1>9, <2>1, OverOK
  <2> QED BY <1>1, <1>5, <1>8, <2>2
<1>11. \A r \in wk.keys : <<r, wk.ident>> \in observed
  BY <1>1 DEF Inv, AliasOK
<1>12. TablesOK' /\ AliasTrue'
  BY <1>1, <1>4, <1>8, <1>10, <1>11, StoreOK DEF TablesOK
<1>13. BoundOK'
  <2>1. loc \in [Paths -> Location] /\ Stamped(loc)
    BY DEF Inv, TablesOK, BoundOK
  <2>2. Stamped(loc)'
    <3> SUFFICES ASSUME NEW p \in Paths
                 PROVE  loc'[p].stamp <= writes /\ (loc'[p].stamp = 0 => loc'[p].key = None)
      BY <1>1, <1>10 DEF Stamped
    <3>1. CASE p = wk.path
      BY <1>4, <1>6, <1>10, <3>1
    <3>2. CASE p # wk.path
      BY <1>5, <1>10, <2>1, <3>2 DEF Stamped
    <3> QED BY <3>1, <3>2
  <2>3. ASSUME NEW p \in Paths \ overtaken', loc'[p].stamp = disk[p].stamp
        PROVE  loc'[p].key = disk[p].bytes
    <3>1. CASE p = wk.path
      BY <1>4, <1>6, <1>10, <2>3, <3>1 DEF Handed
    <3>2. CASE p # wk.path
      <4>1. p \in Paths \ overtaken /\ loc'[p] = loc[p]
        BY <1>2, <1>10, <3>2
      <4> QED BY <2>3, <4>1 DEF Inv, BoundOK
    <3> QED BY <3>1, <3>2
  <2> QED BY <1>1, <2>2, <2>3 DEF BoundOK
<1>14. /\ WkType' /\ Busy' /\ wk'.pc = "ack" /\ wk'.path = wk.path /\ wk'.job = wk.job
  BY <1>1, GotoOK
<1>15. WkStep'
  BY <1>2, <1>4, <1>14 DEF WkStep
<1>16. WkJob' /\ CoverOK'
  BY <1>1, <1>14 DEF Inv, WkJob, Handed, Queues, CoverOK, Covered, Entry
<1>17. AliasOK'
  BY <1>1, <1>12, <1>14 DEF Inv, AliasOK, Seen
<1>18. HistOK'
  BY <1>1, <1>2, <1>5 DEF Inv, HistOK
<1>19. DiskOK' /\ SubOK' /\ RowOK' /\ QueueOK' /\ ScanOK'
  BY <1>1, Frames
<1> QED BY <1>12, <1>13, <1>14, <1>15, <1>16, <1>17, <1>18, <1>19 DEF Inv

-----------------------------------------------------------------------------
(* The scan. *)

\* A scan that begins keeps the invariant.
LEMMA ScanFindKeeps == ASSUME Inv, NEW b \in Bytes, ScanFind(b) PROVE Inv'
<1>1. /\ b \in recs \ layer
      /\ UNCHANGED <<disk, writes, tables, svc, queue, sub, wk, failed, history>>
  BY DEF ScanFind
<1> DEFINE L == Locations(b)
           K == Aliases(b)
<1>2. PICK p \in Paths :
         /\ loc[p].key = b
         /\ scan' = [NoScan EXCEPT !.pc = "hash", !.key = b, !.path = p, !.mark = disk[p],
                                   !.locs = L, !.keys = K]
  BY DEF ScanFind
<1>3. L \in Copies /\ Stamped(L) /\ p \in DOMAIN L /\ L[p] = loc[p]
  BY <1>2, LocationsOK
<1>4. K \in SUBSET Resources /\ \A r \in K : <<r, b>> \in observed
  BY <1>1, CatalogNames DEF Inv, AliasOK, AliasTrue, Aliases
<1>5. disk[p] \in File /\ (disk[p].stamp # 0 => Handed(p, disk[p])) /\ 0 \in 0 .. MaxWrites
  BY CatalogBounds DEF Inv, DiskOK, Handed, File
<1> HIDE DEF L, K
<1>6. scan' = [pc |-> "hash", key |-> b, path |-> p, mark |-> disk[p], stamp |-> 0,
               locs |-> L, keys |-> K]
  BY <1>2 DEF NoScan
<1>7. ScanOK'
  <2>1. scan' \in [pc : {"idle", "hash", "stamp", "upsert"}, key : Bytes \cup {None},
                   path : Paths \cup {None}, mark : File, stamp : 0 .. MaxWrites,
                   locs : Copies \cup {<<>>}, keys : SUBSET Resources]
    BY <1>3, <1>4, <1>5, <1>6
  <2>2. /\ scan'.pc = "hash" /\ scan'.key = b /\ scan'.path = p /\ scan'.mark = disk[p]
        /\ scan'.locs = L
    BY <1>6
  <2> QED BY <1>1, <1>2, <1>3, <1>5, <2>1, <2>2 DEF ScanOK, Stamped, Handed
<1>8. AliasOK'
  <2>1. scan'.key = b /\ scan'.keys = K
    BY <1>6
  <2> QED BY <1>1, <1>4, <2>1 DEF Inv, AliasOK, AliasTrue, Seen, tables, history
<1>9. /\ DiskOK' /\ TablesOK' /\ SubOK' /\ RowOK' /\ QueueOK' /\ WkType' /\ WkJob' /\ WkStep'
      /\ BoundOK' /\ CoverOK' /\ HistOK'
  BY <1>1, Frames DEF tables, history
<1> QED BY <1>7, <1>8, <1>9 DEF Inv

\* A step of the scan that writes nothing: what it reads stays, and so does
\* what was read before.
LEMMA ScanReadsKeep == ASSUME Inv, ScanHash \/ ScanStamp PROVE Inv'
<1>1. /\ scan.pc \in {"hash", "stamp"} /\ disk[scan.path] # NoFile
      /\ UNCHANGED <<disk, writes, tables, svc, queue, sub, wk, failed, history>>
  BY DEF ScanHash, ScanStamp, ScanOnly, counts, tables, history
<1>2. /\ scan \in [pc : {"idle", "hash", "stamp", "upsert"}, key : Bytes \cup {None},
                   path : Paths \cup {None}, mark : File, stamp : 0 .. MaxWrites,
                   locs : Copies \cup {<<>>}, keys : SUBSET Resources]
      /\ scan.key \in Bytes /\ scan.path \in Paths /\ scan.path \in DOMAIN scan.locs
      /\ scan.locs[scan.path].key = scan.key /\ Stamped(scan.locs)
      /\ scan.mark.stamp # 0 => Handed(scan.path, scan.mark)
  BY <1>1 DEF Inv, ScanOK
<1>3. disk[scan.path].stamp \in 1 .. writes /\ disk[scan.path].stamp \in 0 .. MaxWrites
  BY <1>1, <1>2, CatalogBounds DEF Inv, DiskOK, File
<1>4. ScanOK' /\ scan'.keys = scan.keys /\ scan'.key = scan.key
  <2>1. CASE ScanHash
    <3>1. scan' = [scan EXCEPT !.pc = "stamp"]
      BY <2>1 DEF ScanHash
    <3>2. scan' \in [pc : {"idle", "hash", "stamp", "upsert"}, key : Bytes \cup {None},
                     path : Paths \cup {None}, mark : File, stamp : 0 .. MaxWrites,
                     locs : Copies \cup {<<>>}, keys : SUBSET Resources]
      BY <1>2, <3>1
    <3>3. /\ scan'.pc = "stamp" /\ scan'.key = scan.key /\ scan'.path = scan.path
          /\ scan'.mark = scan.mark /\ scan'.locs = scan.locs /\ scan'.keys = scan.keys
      BY <1>2, <3>1
    <3>4. scan.mark.stamp # 0 /\ disk[scan.path].stamp = scan.mark.stamp
             => scan.mark.bytes = scan.key
      BY <1>2, <2>1 DEF ScanHash, ScanChanged, Handed
    <3> QED BY <1>1, <1>2, <3>2, <3>3, <3>4 DEF ScanOK, Stamped, Handed
  <2>2. CASE ScanStamp
    <3>1. scan' = [scan EXCEPT !.pc = "upsert", !.stamp = disk[scan.path].stamp]
      BY <2>2 DEF ScanStamp
    <3>2. scan' \in [pc : {"idle", "hash", "stamp", "upsert"}, key : Bytes \cup {None},
                     path : Paths \cup {None}, mark : File, stamp : 0 .. MaxWrites,
                     locs : Copies \cup {<<>>}, keys : SUBSET Resources]
      BY <1>2, <1>3, <3>1
    <3>3. /\ scan'.pc = "upsert" /\ scan'.key = scan.key /\ scan'.path = scan.path
          /\ scan'.mark = scan.mark /\ scan'.locs = scan.locs /\ scan'.keys = scan.keys
          /\ scan'.stamp = disk[scan.path].stamp
      BY <1>2, <3>1
    <3>4. disk[scan.path].stamp = scan.mark.stamp => scan.mark.bytes = scan.key
      <4>1. disk[scan.path].stamp # 0
        BY <1>3, CatalogBounds DEF Inv, DiskOK
      <4> QED BY <2>2, <4>1 DEF ScanStamp, Inv, ScanOK
    <3> QED BY <1>1, <1>2, <1>3, <3>2, <3>3, <3>4 DEF ScanOK, Stamped, Handed
  <2> QED BY <2>1, <2>2
<1>5. AliasOK'
  BY <1>1, <1>4 DEF Inv, AliasOK, AliasTrue, Seen, tables, history
<1>6. /\ DiskOK' /\ TablesOK' /\ SubOK' /\ RowOK' /\ QueueOK' /\ WkType' /\ WkJob' /\ WkStep'
      /\ BoundOK' /\ CoverOK' /\ HistOK'
  BY <1>1, Frames DEF tables, history
<1> QED BY <1>4, <1>5, <1>6 DEF Inv

\* The availability of a location says nothing of its record.
LEMMA ScanEndsKeep == ASSUME Inv, ScanFails \/ ScanMismatch PROVE Inv'
<1>1. /\ scan.pc # "idle" /\ scan' = NoScan
      /\ UNCHANGED <<disk, writes, row, recs, layer, res, svc, queue, sub, wk, failed, done,
                     observed>>
  BY DEF ScanFails, ScanMismatch, ScanOnly, counts
<1>2. scan.path \in Paths /\ loc \in [Paths -> Location]
  BY <1>1 DEF Inv, ScanOK, TablesOK
<1>3. /\ loc' \in [Paths -> Location]
      /\ \A p \in Paths : loc'[p].key = loc[p].key /\ loc'[p].stamp = loc[p].stamp
      /\ overtaken \subseteq overtaken' /\ overtaken' \subseteq overtaken \cup {scan.path}
  <2>1. CASE ScanFails
    BY <1>2, <2>1 DEF ScanFails
  <2>2. CASE ScanMismatch
    <3>1. loc' = [loc EXCEPT ![scan.path].avail = "modified"]
      BY <2>2 DEF ScanMismatch
    <3>2. loc' \in [Paths -> Location]
      BY <1>2, <3>1 DEF Location
    <3>3. \A p \in Paths : loc'[p].key = loc[p].key /\ loc'[p].stamp = loc[p].stamp
      BY <1>2, <3>1 DEF Location
    <3> QED BY <2>2, <3>2, <3>3 DEF ScanMismatch
  <2> QED BY <2>1, <2>2
<1>4. BoundOK'
  <2>1. DOMAIN loc = Paths /\ DOMAIN loc' = Paths
    BY <1>2, <1>3
  <2> QED BY <1>1, <1>3, <2>1 DEF Inv, BoundOK, Stamped
<1>5. ScanOK' /\ scan'.pc = "idle"
  BY <1>1, NoScanOK
<1>6. AliasOK'
  BY <1>1, <1>5 DEF Inv, AliasOK, AliasTrue, Seen
<1>7. TablesOK' /\ HistOK'
  BY <1>1, <1>2, <1>3 DEF Inv, TablesOK, HistOK
<1>8. DiskOK' /\ SubOK' /\ RowOK' /\ QueueOK' /\ WkType' /\ WkJob' /\ WkStep' /\ CoverOK'
  BY <1>1, Frames
<1> QED BY <1>4, <1>5, <1>6, <1>7, <1>8 DEF Inv

\* The scan writes its path with the bytes it hashed, or counts it as overtaken
\* when the fingerprint it stores is not that of the file it started on.
LEMMA ScanUpsertKeeps == ASSUME Inv, ScanUpsert PROVE Inv'
<1>1. /\ scan.pc = "upsert" /\ scan' = NoScan
      /\ UNCHANGED <<disk, writes, row, svc, queue, sub, wk, failed, done, observed>>
  BY DEF ScanUpsert, counts
<1> DEFINE M == [scan.locs EXCEPT ![scan.path].stamp = scan.stamp]
<1>2. /\ Store(scan.key, M, scan.keys, TRUE)
      /\ overtaken' = overtaken \cup {p \in DOMAIN scan.locs : loc[p] # scan.locs[p]}
                      \cup (IF scan.stamp # scan.mark.stamp THEN {scan.path} ELSE {})
  BY DEF ScanUpsert
<1>3. /\ scan.key \in Bytes /\ scan.path \in Paths /\ scan.path \in DOMAIN scan.locs
      /\ scan.locs[scan.path].key = scan.key /\ Stamped(scan.locs)
      /\ scan.stamp \in 1 .. writes /\ scan.stamp \in 0 .. MaxWrites
      /\ scan.mark.stamp # 0 => Handed(scan.path, scan.mark)
      /\ scan.stamp = scan.mark.stamp => scan.mark.bytes = scan.key
  BY <1>1 DEF Inv, ScanOK
<1>4. DOMAIN scan.locs \subseteq Paths /\ \A p \in DOMAIN scan.locs : scan.locs[p] \in Location
  <2>1. scan.locs \in Copies \cup {<<>>}
    BY DEF Inv, ScanOK
  <2> QED BY <2>1, CopyOK
<1>5. /\ DOMAIN M = DOMAIN scan.locs
      /\ M[scan.path] \in Location
      /\ M[scan.path].key = scan.key /\ M[scan.path].stamp = scan.stamp
      /\ \A p \in DOMAIN scan.locs \ {scan.path} : M[p] = scan.locs[p]
  <2>1. M[scan.path] = [scan.locs[scan.path] EXCEPT !.stamp = scan.stamp]
    BY <1>3
  <2>2. scan.locs[scan.path] \in Location
    BY <1>3, <1>4
  <2>3. /\ M[scan.path] \in Location
        /\ M[scan.path].key = scan.key /\ M[scan.path].stamp = scan.stamp
    BY <1>3, <2>1, <2>2 DEF Location
  <2>4. DOMAIN M = DOMAIN scan.locs /\ \A p \in DOMAIN scan.locs \ {scan.path} : M[p] = scan.locs[p]
    OBVIOUS
  <2> QED BY <2>3, <2>4
<1> HIDE DEF M
<1>6. /\ loc' \in [Paths -> Location]
      /\ loc'[scan.path].key = scan.key /\ loc'[scan.path].stamp = scan.stamp
      /\ \A p \in DOMAIN scan.locs \ {scan.path} : loc'[p] = scan.locs[p]
      /\ \A p \in Paths \ DOMAIN scan.locs : loc'[p] = loc[p]
  <2>1. loc' = Over(loc, M)
    BY <1>2 DEF Store
  <2>2. DOMAIN M \subseteq Paths /\ \A p \in DOMAIN M : M[p] \in Location
    BY <1>4, <1>5
  <2>3. /\ loc' \in [Paths -> Location]
        /\ \A p \in Paths : loc'[p] = IF p \in DOMAIN M THEN M[p] ELSE loc[p]
    BY <2>1, <2>2, OverOK
  <2> QED BY <1>3, <1>4, <1>5, <2>3
<1>7. \A r \in scan.keys : <<r, scan.key>> \in observed
  BY <1>1 DEF Inv, AliasOK
<1>8. TablesOK' /\ AliasTrue'
  BY <1>1, <1>2, <1>3, <1>6, <1>7, StoreOK DEF TablesOK
<1>9. BoundOK'
  <2>1. loc \in [Paths -> Location] /\ Stamped(loc)
    BY DEF Inv, TablesOK, BoundOK
  <2>2. Stamped(loc)'
    <3> SUFFICES ASSUME NEW p \in Paths
                 PROVE  loc'[p].stamp <= writes /\ (loc'[p].stamp = 0 => loc'[p].key = None)
      BY <1>1, <1>6 DEF Stamped
    <3>1. CASE p = scan.path
      BY <1>3, <1>6, <3>1
    <3>2. CASE p # scan.path
      BY <1>3, <1>6, <2>1, <3>2 DEF Stamped
    <3> QED BY <3>1, <3>2
  <2>3. ASSUME NEW p \in Paths \ overtaken', loc'[p].stamp = disk[p].stamp
        PROVE  loc'[p].key = disk[p].bytes
    <3>1. CASE p = scan.path
      <4>1. scan.stamp = scan.mark.stamp
        BY <1>2, <2>3, <3>1
      <4>2. disk[p] = scan.mark /\ scan.mark.bytes = scan.key
        BY <1>3, <1>6, <2>3, <3>1, <4>1 DEF Handed
      <4> QED BY <1>6, <3>1, <4>2
    <3>2. CASE p # scan.path
      <4>1. p \in Paths \ overtaken /\ loc'[p] = loc[p]
        BY <1>2, <1>6, <2>3, <3>2
      <4> QED BY <2>3, <4>1 DEF Inv, BoundOK
    <3> QED BY <3>1, <3>2
  <2> QED BY <1>1, <2>2, <2>3 DEF BoundOK
<1>10. ScanOK' /\ scan'.pc = "idle"
  BY <1>1, NoScanOK
<1>11. AliasOK'
  BY <1>1, <1>8, <1>10 DEF Inv, AliasOK, Seen
<1>12. HistOK'
  BY <1>1, <1>2, <1>3, <1>4 DEF Inv, HistOK
<1>13. DiskOK' /\ SubOK' /\ RowOK' /\ QueueOK' /\ WkType' /\ WkJob' /\ WkStep' /\ CoverOK'
  BY <1>1, Frames
<1> QED BY <1>8, <1>9, <1>10, <1>11, <1>12, <1>13 DEF Inv

-----------------------------------------------------------------------------
(* The invariant. *)

\* The invariant holds at the start.
LEMMA InitInv == ASSUME Init PROVE Inv
<1>1. 0 \in 0 .. MaxWrites /\ MaxWrites \in Nat
  BY CatalogBounds
<1>2. /\ disk = [p \in Paths |-> NoFile] /\ writes = 0
      /\ row = [p \in Paths |-> NoJob] /\ sub = [p \in Paths |-> NoJob]
      /\ loc = [p \in Paths |-> NoLoc] /\ res = [r \in Resources |-> None]
      /\ recs = {} /\ layer = {} /\ svc = "off" /\ queue = <<>> /\ failed = {} /\ overtaken = {}
  BY DEF Init
<1>3. DiskOK /\ TablesOK
  BY <1>1, <1>2, Constants DEF DiskOK, TablesOK, NoFile
<1>4. SubOK /\ RowOK
  BY <1>2, Constants DEF SubOK, RowOK
<1>5. QueueOK
  <2>1. <<>> \in Seq(Entries) /\ DOMAIN queue = {}
    BY <1>2
  <2> QED BY <1>2, <2>1 DEF QueueOK, Mirrors
<1>6. wk = [pc |-> "off", path |-> None, job |-> NoJob, ident |-> None, stamp |-> 0,
            locs |-> <<>>, keys |-> {}]
  BY DEF Init, Idle
<1>7. WkType /\ ~Busy /\ wk.job = NoJob /\ wk.pc = "off"
  <2>1. \A l \in Copies \cup {<<>>} :
           [pc |-> "off", path |-> None, job |-> NoJob, ident |-> None, stamp |-> 0,
            locs |-> l, keys |-> {}]
           \in [pc : WkPcs, path : Paths \cup {None}, job : Job,
               ident : Bytes \cup {None}, stamp : 0 .. MaxWrites,
               locs : Copies \cup {<<>>}, keys : SUBSET Resources]
    BY <1>1, Constants DEF WkPcs
  <2> QED BY <1>6, <2>1 DEF WkType, Busy
<1>8. WkJob /\ WkStep
  BY <1>7 DEF WkJob, WkStep, Busy
<1>9. scan = [pc |-> "idle", key |-> None, path |-> None, mark |-> NoFile, stamp |-> 0,
              locs |-> <<>>, keys |-> {}]
  BY DEF Init, NoScan
<1>10. ScanOK /\ scan.pc = "idle"
  <2>1. \A l \in Copies \cup {<<>>} :
           [pc |-> "idle", key |-> None, path |-> None, mark |-> NoFile, stamp |-> 0,
            locs |-> l, keys |-> {}]
           \in [pc : {"idle", "hash", "stamp", "upsert"}, key : Bytes \cup {None},
                path : Paths \cup {None}, mark : File, stamp : 0 .. MaxWrites,
                locs : Copies \cup {<<>>}, keys : SUBSET Resources]
    BY <1>1, Constants
  <2> QED BY <1>9, <2>1 DEF ScanOK
<1>11. BoundOK
  BY <1>2 DEF BoundOK, Stamped, NoLoc, NoFile
<1>12. AliasOK
  BY <1>2, <1>7, <1>10 DEF AliasOK, AliasTrue, Seen, NoJob
<1>13. CoverOK /\ HistOK
  BY <1>2 DEF CoverOK, HistOK
<1> QED BY <1>3, <1>4, <1>5, <1>7, <1>8, <1>10, <1>11, <1>12, <1>13 DEF Inv

\* Every step keeps the invariant.
LEMMA NextInv == ASSUME Inv, [Next]_vars PROVE Inv'
<1>1. CASE Initialize
  BY <1>1, InitializeKeeps
<1>2. CASE Worker
  BY <1>2, PopKeeps, CheckFileKeeps, HashFileKeeps, RecheckKeeps, FailsKeep, FindRecordKeeps,
     UpsertKeeps, CompleteKeeps, WorkerStopsKeeps DEF Worker
<1>3. CASE Scan
  BY <1>3, ScanFindKeeps, ScanReadsKeep, ScanEndsKeep, ScanUpsertKeeps DEF Scan
<1>4. CASE Shutdown \/ Crash
  BY <1>4, ShutdownKeeps, CrashKeeps
<1>5. ASSUME NEW p \in Paths, EnqueueFile(p) PROVE Inv'
  BY <1>5, FingerprintKeeps, PersistKeeps, PersistFirstKeeps, PersistFailsKeeps DEF EnqueueFile
<1>6. ASSUME NEW p \in Paths, Files(p) PROVE Inv'
  BY <1>6, FilesKeep
<1>7. CASE UNCHANGED vars
  BY <1>7, Frames DEF Inv, vars, tables, threads, history, counts
<1> QED BY <1>1, <1>2, <1>3, <1>4, <1>5, <1>6, <1>7 DEF Next

\* The invariant holds in every state: what the worker and the scan hold in
\* their locals is about the files as they were when they read them.
THEOREM Invariant == Spec => []Inv
<1> QED BY InitInv, NextInv, PTL DEF Spec

\* The invariant implies TypeOK,
LEMMA InvType == ASSUME Inv PROVE TypeOK
<1>1. /\ disk \in [Paths -> File] /\ row \in [Paths -> Job] /\ loc \in [Paths -> Location]
      /\ recs \subseteq Bytes /\ layer \subseteq recs /\ res \in [Resources -> Bytes \cup {None}]
      /\ sub \in [Paths -> Job] /\ svc \in {"off", "on", "stopping"}
      /\ failed \subseteq Paths /\ overtaken \subseteq Paths
  BY DEF Inv, DiskOK, TablesOK, SubOK, RowOK, HistOK
<1>2. queue \in Seq([path : Paths, job : Job])
  BY DEF Inv, QueueOK, Mirrors, Entries
<1>3. \A p \in Paths : row[p] # NoJob => row[p].gen > 0 /\ row[p].file # NoFile
  BY CatalogBounds DEF Inv, RowOK, Handed, NoFile, DiskOK
<1>4. /\ wk.pc \in WkPcs /\ wk.path \in Paths \cup {None} /\ wk.job \in Job
      /\ wk.ident \in Bytes \cup {None} /\ wk.keys \subseteq Resources
  BY DEF Inv, WkType
<1>5. /\ scan.pc \in {"idle", "hash", "stamp", "upsert"} /\ scan.keys \subseteq Resources
      /\ scan.path \in Paths \cup {None} /\ scan.key \in Bytes \cup {None}
  BY DEF Inv, ScanOK
<1> QED BY <1>1, <1>2, <1>3, <1>4, <1>5 DEF TypeOK, WkPcs

\* Every variable of the catalog keeps to its values.
THEOREM CatalogTyped == Spec => []TypeOK
<1> QED BY Invariant, InvType, PTL

\* Bound,
LEMMA InvBound == ASSUME Inv PROVE Bound
BY DEF Inv, BoundOK, Bound, LooksValid

\* A location that looks valid holds the bytes of its record, however the file
\* changed while it was hashed, unless a scan wrote it from an old copy.
THEOREM BoundHolds == Spec => []Bound
<1> QED BY Invariant, InvBound, PTL

\* AliasTrue,
LEMMA InvAlias == ASSUME Inv PROVE AliasTrue
BY DEF Inv, AliasOK

\* An alias leads only to bytes it was observed with.
THEOREM AliasTrueHolds == Spec => []AliasTrue
<1> QED BY Invariant, InvAlias, PTL

\* and QueueCovers.
LEMMA InvCovers == ASSUME Inv PROVE QueueCovers
BY DEF Inv, QueueCovers, CoverOK, QueueOK, Mirrors

\* No pending job is forgotten while the process runs, and none is queued twice.
THEOREM QueueCoversHolds == Spec => []QueueCovers
<1> QED BY Invariant, InvCovers, PTL

-----------------------------------------------------------------------------
(* The refinement of DurableJobs. *)

\* One pending stamp changes when one row does.
LEMMA PendingChanges ==
  ASSUME Inv, NEW p \in Paths, NEW job \in Job, row' = [row EXCEPT ![p] = job]
  PROVE  Pending' = [Pending EXCEPT ![p] = job.file.stamp] /\ Pending[p] = row[p].file.stamp
<1>1. row \in [Paths -> Job]
  BY DEF Inv, RowOK
<1>2. \A x \in Paths : row'[x].file.stamp = IF x = p THEN job.file.stamp ELSE row[x].file.stamp
  BY <1>1
<1>3. \A x \in Paths : Pending[x] = row[x].file.stamp
  BY DEF Pending
<1> QED BY <1>2, <1>3 DEF Pending

\* A file that changes changes one stamp.
LEMMA FilesRefine == ASSUME Inv, NEW p \in Paths, Files(p) PROVE Promise!Next
<1>1. /\ disk' \in [Paths -> File] /\ \A x \in Paths \ {p} : disk'[x] = disk[x]
  BY NewStamp DEF Files
<1>2. disk'[p].stamp \in 0 .. MaxWrites
  BY <1>1 DEF File
<1>3. OnDisk' = [OnDisk EXCEPT ![p] = disk'[p].stamp]
  BY <1>1 DEF OnDisk
<1>4. UNCHANGED <<Pending, done>>
  BY DEF Files, WriteFile, RemoveFile, tables, history, Pending
<1> QED BY <1>2, <1>3, <1>4 DEF Promise!Next, Promise!Change

\* A submission that is stored is pending.
LEMMA PersistRefines ==
  ASSUME Inv, NEW p \in Paths, Persist(p) \/ PersistFirst(p) PROVE Promise!Next
<1>1. /\ sub[p] # NoJob /\ row' = [row EXCEPT ![p] = Persisted(p)]
      /\ UNCHANGED <<disk, done>>
  BY DEF Persist, PersistFirst, history
<1>2. Persisted(p) \in Job /\ Persisted(p).file = sub[p].file
  BY <1>1, PersistedOK
<1>3. sub[p].file.stamp \in (0 .. MaxWrites) \ {0}
  BY <1>1, CatalogBounds DEF Inv, SubOK, Handed, DiskOK
<1>4. Pending' = [Pending EXCEPT ![p] = sub[p].file.stamp]
  BY <1>1, <1>2, PendingChanges
<1>5. UNCHANGED <<OnDisk, done>>
  BY <1>1 DEF OnDisk
<1> QED BY <1>3, <1>4, <1>5 DEF Promise!Next, Promise!Submit

\* What the worker commits is a version of its path.
LEMMA UpsertRefines == ASSUME Inv, Upsert PROVE Promise!Next
<1>1. /\ wk.pc = "upsert" /\ done' = done \cup {<<wk.path, wk.stamp>>}
      /\ UNCHANGED <<disk, row>>
  BY DEF Upsert, At
<1>2. wk.path \in Paths /\ wk.stamp \in (0 .. MaxWrites) \ {0}
  BY <1>1, CatalogBounds DEF Inv, WkType, WkJob, WkStep, Busy, Handed, DiskOK
<1>3. UNCHANGED <<OnDisk, Pending>>
  BY <1>1 DEF OnDisk, Pending
<1> QED BY <1>1, <1>2, <1>3 DEF Promise!Next, Promise!Commit

\* A row that is acknowledged is the job the worker had, and the file of that
\* job is in the catalog or gone.
LEMMA CompleteRefines ==
  ASSUME Inv, Complete PROVE Promise!Next \/ UNCHANGED Promise!vars
<1>1. /\ wk.pc = "ack" /\ Busy /\ UNCHANGED <<disk, done>>
      /\ row' = IF row[wk.path].gen = wk.job.gen THEN [row EXCEPT ![wk.path] = NoJob] ELSE row
  BY DEF Complete, Quiet, At, Busy, history
<1>2. CASE row[wk.path].gen # wk.job.gen
  BY <1>1, <1>2 DEF Promise!vars, OnDisk, Pending
<1>3. CASE row[wk.path].gen = wk.job.gen
  <2>1. PICK p \in Paths : p = wk.path
    BY <1>1 DEF Inv, WkType
  <2>2. wk.job = row[p] /\ row[p] # NoJob /\ row[p].file.stamp \in 1 .. writes
    BY <1>1, <1>3, <2>1 DEF Inv, WkJob, Handed
  <2>3. <<p, row[p].file.stamp>> \in done \/ disk[p].stamp # row[p].file.stamp
    BY <1>1, <2>1, <2>2 DEF Inv, WkStep
  <2>4. NoJob \in Job /\ NoJob.file.stamp = 0
    BY Constants DEF NoJob, NoFile
  <2>5. Pending' = [Pending EXCEPT ![p] = 0] /\ Pending[p] = row[p].file.stamp
    BY <1>1, <1>3, <2>1, <2>4, PendingChanges
  <2>6. OnDisk[p] = disk[p].stamp /\ UNCHANGED <<OnDisk, done>>
    BY <1>1 DEF OnDisk
  <2>7. Pending[p] # 0
    BY <2>2, <2>5, CatalogBounds DEF Inv, DiskOK
  <2> QED BY <2>3, <2>5, <2>6, <2>7 DEF Promise!Next, Promise!Finish, Promise!Settled
<1> QED BY <1>2, <1>3

\* Every step is one of the promise, or none.
LEMMA NextRefines ==
  ASSUME Inv, [Next]_vars PROVE Promise!Next \/ UNCHANGED Promise!vars
<1>1. UNCHANGED <<disk, row, done>> => UNCHANGED Promise!vars
  BY DEF Promise!vars, OnDisk, Pending
<1>2. CASE Initialize
  BY <1>1, <1>2 DEF Initialize, history
<1>3. CASE Worker
  <2>1. CASE Pop \/ CheckFile \/ HashFile \/ HashFails \/ Recheck \/ RecheckFails
             \/ FindRecord \/ UpsertFails \/ WorkerStops
    BY <1>1, <2>1 DEF Pop, CheckFile, HashFile, HashFails, Recheck, RecheckFails, FindRecord,
       UpsertFails, WorkerStops, Quiet, tables, history
  <2> QED BY <1>3, <2>1, UpsertRefines, CompleteRefines DEF Worker
<1>4. CASE Scan
  BY <1>1, <1>4 DEF Scan, ScanFind, ScanHash, ScanMismatch, ScanStamp, ScanFails, ScanUpsert,
     ScanOnly, tables, history
<1>5. CASE Shutdown \/ Crash
  BY <1>1, <1>5 DEF Shutdown, Crash, tables, history
<1>6. ASSUME NEW p \in Paths, EnqueueFile(p)
      PROVE  Promise!Next \/ UNCHANGED Promise!vars
  <2>1. CASE Fingerprint(p) \/ PersistFails(p)
    BY <1>1, <2>1 DEF Fingerprint, PersistFails, tables, history
  <2> QED BY <1>6, <2>1, PersistRefines DEF EnqueueFile
<1>7. ASSUME NEW p \in Paths, Files(p) PROVE Promise!Next
  BY <1>7, FilesRefine
<1>8. CASE UNCHANGED vars
  BY <1>1, <1>8 DEF vars, tables, history
<1> QED BY <1>2, <1>3, <1>4, <1>5, <1>6, <1>7, <1>8 DEF Next

\* The queue is durable: what was handed in stays pending until this version of
\* the file is in the catalog or is no longer the file on disk.
THEOREM DurableJobsImplemented == Spec => JobsDurable
<1>1. Init => Promise!Init
  BY DEF Init, Promise!Init, OnDisk, Pending, NoJob, NoFile
<1>2. Inv /\ [Next]_vars => [Promise!Next]_(Promise!vars)
  BY NextRefines
<1> QED BY Invariant, <1>1, <1>2, PTL DEF Spec, JobsDurable, Promise!Spec
=============================================================================
