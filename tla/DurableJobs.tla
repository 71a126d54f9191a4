----------------------------- MODULE DurableJobs -----------------------------
(* What the content catalog promises of its queue: a file that was handed in   *)
(* stays pending, across crashes and shutdowns, until this very version of it  *)
(* is in the catalog or is no longer the file on disk.                         *)
EXTENDS Naturals

CONSTANTS
    Paths,
    Stamps     \* the fingerprints a file can have, and 0: no file, nothing pending

VARIABLES
    disk,      \* the fingerprint of the file at each path
    pending,   \* the fingerprint that is to be catalogued, per path
    done       \* the pairs of path and fingerprint committed to the catalog

vars == <<disk, pending, done>>

Init == /\ disk = [p \in Paths |-> 0] /\ pending = [p \in Paths |-> 0]
        /\ done = {}

Change(p) == /\ \E s \in Stamps : disk' = [disk EXCEPT ![p] = s]
             /\ UNCHANGED <<pending, done>>

Submit(p) == /\ \E s \in Stamps \ {0} : pending' = [pending EXCEPT ![p] = s]
             /\ UNCHANGED <<disk, done>>

Commit(p) == /\ \E s \in Stamps \ {0} : done' = done \cup {<<p, s>>}
             /\ UNCHANGED <<disk, pending>>

Settled(p) == <<p, pending[p]>> \in done \/ disk[p] # pending[p]

Finish(p) == /\ pending[p] # 0 /\ Settled(p)
             /\ pending' = [pending EXCEPT ![p] = 0]
             /\ UNCHANGED <<disk, done>>

Next == \E p \in Paths : Change(p) \/ Submit(p) \/ Commit(p) \/ Finish(p)

Spec == Init /\ [][Next]_vars
=============================================================================
