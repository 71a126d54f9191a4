---------------------------- MODULE MCHttpHybrid ----------------------------
(* Small instances of HttpHybrid for TLC.  The workers are interchangeable, so *)
(* safety runs may identify states that differ only in their names.            *)
EXTENDS HttpHybrid, TLC

CONSTANTS g1, g2, w1, w2, c1

OneGid == {g1}
TwoGids == {g1, g2}
OneWorker == {w1}
TwoWorkers == {w1, w2}
OneCaller == {c1}

PauseOnly == {"Pause"}
ResumeOnly == {"Resume"}
DeleteOnly == {"Delete"}
PauseDelete == {"Pause", "Delete"}
PauseResume == {"Pause", "Resume"}
AllOps == {"Pause", "Resume", "Delete"}

WorkerSymmetry == Permutations(Workers)
=============================================================================
