----------------------------- MODULE MCRssFeeds -----------------------------
(* Instances of RssFeeds: item 2 has no guid.                                *)
EXTENDS RssFeeds, TLC

Bare == {2}
Either == Permutations(Slots)
Automatic ==
    {[auto |-> TRUE, enabled |-> TRUE, title |-> "first"]}
=============================================================================
