--------------------------- MODULE MCDirectorySync ---------------------------
(* Small instances of DirectorySync. *)
EXTENDS DirectorySync, TLC

CONSTANTS c1, c2

TwoContents == {c1, c2}
OneContent == {c1}

\* The contents are interchangeable (safety runs only).
ContentSymmetry == Permutations(Contents)
=============================================================================
