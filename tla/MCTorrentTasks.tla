---------------------------- MODULE MCTorrentTasks ----------------------------
(* Small instances of TorrentTasks. *)
EXTENDS TorrentTasks

MCTasks == {"t", "u"}
MCCallers == {"c", "d"}
MCCommands == [c |-> {"add", "resume", "recheck"},
               d |-> {"pause", "stop", "removeFiles", "uiRemove"}]
MCMaxCommands == [c |-> 1, d |-> 1]
DeleteCommands == [c |-> {"add"}, d |-> {"uiRemoveFiles"}]
MCBoth == BOOLEAN
MCNo == {FALSE}
MCYes == {TRUE}
=============================================================================
