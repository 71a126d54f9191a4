------------------------------ MODULE RssFeeds ------------------------------
(* RSSManager and its database: a subscription, the fetches of its document    *)
(* that run at the same time, the items they find, and the torrents they start.*)
(*                                                                             *)
(* One subscription exists at a time; a new one gets a new id.  Items are the  *)
(* numbers 1, 2, ... in the order of their publication, which is the order of  *)
(* pub_date; the document lists the Window newest, newest first.  A fetch is a *)
(* coroutine nobody waits for: it reads the url under m_feedsMutex, asks the   *)
(* network without it, takes the lock again for ProcessNewItems, and releases  *)
(* it before it writes the row, calls back and starts downloads.  Under the    *)
(* lock two things become durable one after the other, the rows inserted and   *)
(* the rows pruned; the process may end in between.  The minutes between two   *)
(* rounds of the loop are left to chance.                                      *)
EXTENDS Naturals, Sequences, FiniteSets

CONSTANTS
    MaxItems,     \* bound on published items
    Window,       \* items the document lists
    Limits,       \* what max_items_per_feed may be set to
    Highest,      \* the largest of them
    NoGuid,       \* items published without a guid
    Slots,        \* fetches that may be in flight at once
    MaxAdds,      \* bound on subscriptions made
    Changes,      \* settings the user may change to
    MaxUpdates,   \* bound on changes of the settings
    MaxCrashes    \* bound on exits and crashes

Settings == [auto : BOOLEAN, enabled : BOOLEAN, title : {"first", "renamed"}]

ASSUME FeedBounds ==
    /\ Changes \subseteq Settings
    /\ {Window, Highest, MaxItems} \subseteq Nat \ {0} /\ NoGuid \subseteq 1..MaxItems
    /\ Limits \subseteq 1..Highest
    /\ {MaxAdds, MaxUpdates, MaxCrashes} \subseteq Nat

VARIABLES
    up,        \* the process runs and InitializeAsync has loaded the rows
    mem,       \* the feed in m_feeds
    db,        \* its row in rss_feeds and its rows in rss_items
    fetch,     \* what each fetch in flight has got to
    jobs,      \* DownloadItem coroutines in flight
    pub,       \* newest item published
    sent,      \* how often the fetches of this subscription handed an item to DownloadItem
    known,     \* items its first document listed
    lost,      \* items that left its list while a document still to be processed lists them
    adds, updates, crashes

vars == <<up, mem, db, fetch, jobs, pub, sent, known, lost, adds, updates, crashes>>
counters == <<adds, updates, crashes>>

Items == 1..MaxItems
NewFeed == [auto |-> FALSE, enabled |-> TRUE, title |-> "first"]

NoFeed == [id |-> 0]
NoRow == [id |-> 0]
Idle == [pc |-> "idle"]

Listed(n) == {i \in 1..n : i + Window > n}
Newer(S, i) == {j \in S : j > i}
NewestFirst(S) ==
    [k \in 1..Cardinality(S) |-> CHOOSE i \in S : Cardinality(Newer(S, i)) = k - 1]
Held(s) == {s[k] : k \in DOMAIN s}

(* Mutation: the pruning is late by one.                                     *)
PruneMemoryLate(s, n) == IF Len(s) > n + 1 THEN SubSeq(s, Len(s) - n + 1, Len(s)) ELSE s

(* feed.items loses its front, the rows lose the oldest by pub_date.         *)
PruneMemory(s, n) == IF Len(s) > n THEN SubSeq(s, Len(s) - n + 1, Len(s)) ELSE s

PruneItems(S, n) == {i \in S : Cardinality(Newer(S, i)) < n}

Init ==
    /\ up = TRUE /\ mem = NoFeed /\ db = NoRow
    /\ fetch = [s \in Slots |-> Idle] /\ jobs = {} /\ pub = 1
    /\ sent = [i \in Items |-> 0] /\ known = {} /\ lost = {}
    /\ adds = 0 /\ updates = 0 /\ crashes = 0

-----------------------------------------------------------------------------
(* A fetch that is between inserting rows and pruning them holds m_feedsMutex. *)
Locked == \E s \in Slots : fetch[s].pc = "held"

(* A fetch that starts has read the url of the feed it is for.               *)
FetchFeed(s) ==
    /\ up /\ ~Locked /\ mem # NoFeed /\ fetch[s] = Idle
    /\ fetch' = [fetch EXCEPT ![s] = [pc |-> "net", id |-> mem.id]]

(* AddSubscription keeps and stores the feed, then fetches it at once.       *)
AddSubscription(s) ==
    /\ up /\ ~Locked /\ mem = NoFeed /\ fetch[s] = Idle /\ adds < MaxAdds /\ adds' = adds + 1
    /\ mem' = [id |-> adds', set |-> NewFeed, items |-> <<>>, bare |-> {}, marked |-> {}]
    /\ db' = [id |-> adds', set |-> NewFeed, items |-> {}, marked |-> {}]
    /\ fetch' = [fetch EXCEPT ![s] = [pc |-> "net", id |-> adds']]
    /\ sent' = [i \in Items |-> 0] /\ known' = {} /\ lost' = {}
    /\ UNCHANGED <<up, jobs, pub, updates, crashes>>

(* DeleteFeed takes the items of the feed along.                             *)
RemoveSubscription ==
    /\ up /\ ~Locked /\ mem # NoFeed /\ mem' = NoFeed /\ db' = NoRow
    /\ UNCHANGED <<up, fetch, jobs, pub, sent, known, lost, counters>>

(* UpsertFeed is INSERT OR REPLACE: the row it replaces is deleted first, and *)
(* every stored item of the feed with it.                                    *)
UpdateSubscription ==
    /\ up /\ ~Locked /\ mem # NoFeed /\ updates < MaxUpdates /\ updates' = updates + 1
    /\ \E new \in Changes \ {mem.set} :
        /\ mem' = [mem EXCEPT !.set = new]
        /\ db' = [id |-> mem.id, set |-> new, items |-> {}, marked |-> {}]
    /\ UNCHANGED <<up, fetch, jobs, pub, sent, known, lost, adds, crashes>>

Idling == UNCHANGED <<up, mem, db, jobs, pub, sent, known, lost, counters>>

(* A round of UpdateLoop that finds the feed due, and RefreshFeed.           *)
LoopFetch == mem # NoFeed /\ mem.set.enabled /\ (\E s \in Slots : FetchFeed(s)) /\ Idling
Refresh == (\E s \in Slots : FetchFeed(s)) /\ Idling

Answer(s) ==
    /\ fetch[s].pc = "net"
    /\ fetch' = [fetch EXCEPT ![s] = [pc |-> "got", id |-> fetch[s].id, newest |-> pub]]
    /\ Idling

(* The network fails, or the document cannot be parsed.                      *)
Fail(s) == fetch[s].pc = "net" /\ fetch' = [fetch EXCEPT ![s] = Idle] /\ Idling

(* ProcessNewItems, under the lock, when the feed still exists.  InsertItems   *)
(* stores the rows of the document in a transaction of its own and tells       *)
(* whether there were new ones.  When the feed is gone, so is its row:         *)
(* UpdateFeedMeta will find none.                                              *)
Missing(s) == mem = NoFeed \/ mem.id # fetch[s].id

(* Mutation: the feed is not looked up again after the network was asked.    *)
InsertAnyway(s) ==
    /\ fetch[s].pc = "got" /\ ~Locked
    /\ IF Missing(s)
       THEN /\ mem' = [id |-> fetch[s].id, set |-> NewFeed, items |-> <<>>, bare |-> {}, marked |-> {}]
            /\ fetch' = [fetch EXCEPT ![s] = Idle]
            /\ UNCHANGED <<db, known>>
       ELSE LET stored == db.items \cup Listed(fetch[s].newest)
            IN /\ db' = [db EXCEPT !.items = stored]
               /\ fetch' = [fetch EXCEPT ![s] = [pc |-> "held", id |-> fetch[s].id,
                                newest |-> fetch[s].newest, inserted |-> stored # db.items]]
               /\ known' = IF known = {} THEN stored ELSE known
               /\ UNCHANGED mem
    /\ UNCHANGED <<up, jobs, pub, sent, lost, counters>>

InsertItems(s) ==
    /\ fetch[s].pc = "got" /\ ~Locked
    /\ IF Missing(s)
       THEN /\ fetch' = [fetch EXCEPT ![s] = Idle]
            /\ UNCHANGED <<db, known>>
       ELSE LET stored == db.items \cup Listed(fetch[s].newest)
            IN /\ db' = [db EXCEPT !.items = stored]
               /\ fetch' = [fetch EXCEPT ![s] = [pc |-> "held", id |-> fetch[s].id,
                                newest |-> fetch[s].newest, inserted |-> stored # db.items]]
               /\ known' = IF known = {} THEN stored ELSE known
    /\ UNCHANGED <<up, mem, jobs, pub, sent, lost, counters>>

(* The lock is released; what is to be downloaded is kept for later.         *)
Release(s, load) ==
    fetch' = [fetch EXCEPT ![s] = [pc |-> "meta", id |-> mem.id, title |-> mem.set.title,
                                   load |-> load]]

(* Mutation: what a first load finds is downloaded as well.                  *)
FirstLoadDownloads(s) ==
    /\ fetch[s].pc = "held" /\ mem.items = <<>>
    /\ mem' = [mem EXCEPT !.items = NewestFirst(db.items), !.bare = {}, !.marked = db.marked]
    /\ Release(s, IF mem.set.auto THEN db.items ELSE {})
    /\ UNCHANGED <<up, db, jobs, pub, sent, known, lost, counters>>

(* A feed without items in memory only loads what is stored.                 *)
FirstLoad(s) ==
    /\ fetch[s].pc = "held" /\ mem.items = <<>>
    /\ mem' = [mem EXCEPT !.items = NewestFirst(db.items), !.bare = {}, !.marked = db.marked]
    /\ Release(s, {})
    /\ UNCHANGED <<up, db, jobs, pub, sent, known, lost, counters>>

(* The document still listed now, or one that was answered, brings it back.  *)
Returns(i) ==
    \/ i \in Listed(pub)
    \/ \E s \in Slots : fetch[s].pc = "got" /\ i \in Listed(fetch[s].newest)

(* Mutation: items are compared by guid alone, and an empty one is in no set. *)
FreshByGuid(s) ==
    IF fetch[s].inserted THEN Listed(fetch[s].newest) \ (Held(mem.items) \ mem.bare) ELSE {}

(* What memory does not hold is new, provided that a row was inserted.       *)
Fresh(s) == IF fetch[s].inserted THEN Listed(fetch[s].newest) \ Held(mem.items) ELSE {}

(* The new items join the list, then the list and the rows are pruned to what *)
(* the setting says now.                                                      *)
FindNew(s) ==
    /\ fetch[s].pc = "held" /\ mem.items # <<>>
    /\ \E n \in Limits :
        LET listed == mem.items \o NewestFirst(Fresh(s) \ Held(mem.items))
            kept == PruneMemory(listed, n)
            rows == PruneItems(db.items, n)
        IN /\ mem' = [mem EXCEPT !.items = kept, !.marked = @ \cap Held(kept),
                                 !.bare = (@ \cup (Fresh(s) \cap NoGuid)) \cap Held(kept)]
           /\ db' = [db EXCEPT !.items = rows, !.marked = @ \cap rows]
           /\ lost' = lost \cup {i \in Held(listed) \ Held(kept) : Returns(i)}
    /\ Release(s, IF mem.set.auto THEN Fresh(s) ELSE {})
    /\ UNCHANGED <<up, jobs, pub, sent, known, counters>>

(* UpdateFeedMeta, after the lock was released, with the title read under it. *)
Meta(s) ==
    /\ fetch[s].pc = "meta"
    /\ db' = IF db.id = fetch[s].id THEN [db EXCEPT !.set.title = fetch[s].title] ELSE db
    /\ fetch' = [fetch EXCEPT ![s].pc = "tell"]
    /\ UNCHANGED <<up, mem, jobs, pub, sent, known, lost, counters>>

(* The callbacks, then DownloadItem for every item that is to be downloaded. *)
Tell(s) ==
    /\ fetch[s].pc = "tell" /\ ~Locked
    /\ LET load == fetch[s].load
           ours == IF fetch[s].id = adds THEN load ELSE {}
       IN /\ sent' = [i \in Items |-> IF i \in ours /\ sent[i] < 2 THEN sent[i] + 1 ELSE sent[i]]
          /\ jobs' = jobs \cup {[id |-> fetch[s].id, item |-> i, bare |-> i \in NoGuid] : i \in load}
    /\ fetch' = [fetch EXCEPT ![s] = Idle]
    /\ UNCHANGED <<up, mem, db, pub, known, lost, counters>>

(* MarkItemAsDownloaded looks for the guid of the item: an empty one is that *)
(* of the first item without a guid, and of no stored row.                   *)
FirstBare ==
    {mem.items[k] : k \in {n \in DOMAIN mem.items :
        mem.items[n] \in mem.bare /\ \A m \in 1..(n - 1) : mem.items[m] \notin mem.bare}}

MarkItemAsDownloaded(j) ==
    LET hit == IF mem = NoFeed \/ mem.id # j.id THEN {}
               ELSE IF j.bare THEN FirstBare
               ELSE {j.item} \cap (Held(mem.items) \ mem.bare)
    IN /\ mem' = IF hit = {} THEN mem ELSE [mem EXCEPT !.marked = @ \cup hit]
       /\ db' = IF db.id # j.id \/ j.bare THEN db
                ELSE [db EXCEPT !.marked = @ \cup ({j.item} \cap db.items)]

(* DownloadItem: resolve the link, start the torrent core, add the torrent.  *)
Downloaded(j) ==
    /\ ~Locked /\ jobs' = jobs \ {j}
    /\ MarkItemAsDownloaded(j)
    /\ UNCHANGED <<up, fetch, pub, sent, known, lost, counters>>

(* Any of it fails: the error is shown and the item is not tried again.      *)
Rejected(j) ==
    /\ jobs' = jobs \ {j}
    /\ UNCHANGED <<up, mem, db, fetch, pub, sent, known, lost, counters>>

(* What was published before the first subscription is the item 1.           *)
Publish ==
    /\ adds > 0 /\ pub < MaxItems /\ pub' = pub + 1
    /\ UNCHANGED <<up, mem, db, fetch, jobs, sent, known, lost, counters>>

(* Stop ends the loop, nobody waits for the fetches: an exit is a crash.     *)
Crash ==
    /\ up /\ crashes < MaxCrashes /\ crashes' = crashes + 1
    /\ up' = FALSE /\ mem' = NoFeed /\ jobs' = {} /\ fetch' = [s \in Slots |-> Idle]
    /\ lost' = lost \cup IF mem = NoFeed THEN {}
                          ELSE (Held(mem.items) \ db.items) \cap Listed(pub)
    /\ UNCHANGED <<db, pub, sent, known, adds, updates>>

(* Mutation: the rows are loaded up to the limit.                            *)
InitializeLimited ==
    /\ ~up /\ up' = TRUE
    /\ \E n \in Limits :
        mem' = IF db = NoRow THEN NoFeed
               ELSE [id |-> db.id, set |-> db.set, items |-> NewestFirst(PruneItems(db.items, n)),
                     bare |-> {}, marked |-> db.marked \cap PruneItems(db.items, n)]
    /\ UNCHANGED <<db, fetch, jobs, pub, sent, known, lost, counters>>

(* InitializeAsync: LoadItems returns the rows newest first.                 *)
Initialize ==
    /\ ~up /\ up' = TRUE
    /\ mem' = IF db = NoRow THEN NoFeed
              ELSE [id |-> db.id, set |-> db.set, items |-> NewestFirst(db.items),
                    bare |-> {}, marked |-> db.marked]
    /\ UNCHANGED <<db, fetch, jobs, pub, sent, known, lost, counters>>

Next ==
    \/ \E s \in Slots : \/ AddSubscription(s) \/ Answer(s) \/ Fail(s)
                        \/ InsertItems(s) \/ FirstLoad(s) \/ FindNew(s) \/ Meta(s) \/ Tell(s)
    \/ RemoveSubscription \/ UpdateSubscription \/ LoopFetch \/ Refresh
    \/ \E j \in jobs : Downloaded(j) \/ Rejected(j)
    \/ Publish \/ Crash \/ Initialize

Spec == Init /\ [][Next]_vars

-----------------------------------------------------------------------------
(* Every variable keeps to its values, and no item is twice in the list.  The *)
(* list and the rows stay within the limit, or the length of the document if a *)
(* first load stored that many; but an exit between inserting and pruning      *)
(* leaves a document more behind, which the restart loads.                     *)
Longest == IF Window > Highest THEN Window ELSE Highest
Unpruned == Window * crashes + IF Locked THEN Window ELSE 0

TypeOK ==
    /\ mem = NoFeed \/
        /\ mem.id \in 1..adds /\ mem.set \in Settings
        /\ mem.items \in Seq(1..pub)
        /\ \A a, b \in DOMAIN mem.items : mem.items[a] = mem.items[b] => a = b
        /\ Len(mem.items) <= Longest + Window * crashes
        /\ mem.bare \subseteq Held(mem.items) /\ mem.marked \subseteq Held(mem.items)
    /\ db = NoRow \/
        /\ db.id \in 1..adds /\ db.set \in Settings
        /\ db.items \subseteq 1..pub /\ db.marked \subseteq db.items
        /\ Cardinality(db.items) <= Longest + Unpruned
    /\ \A s \in Slots :
        \/ fetch[s] = Idle
        \/ fetch[s].pc = "net" /\ fetch[s].id \in 1..adds
        \/ fetch[s].pc = "got" /\ fetch[s].id \in 1..adds /\ fetch[s].newest \in 1..pub
        \/ /\ fetch[s].pc = "held" /\ mem # NoFeed /\ fetch[s].id = mem.id
           /\ fetch[s].newest \in 1..pub /\ fetch[s].inserted \in BOOLEAN
           /\ \A r \in Slots \ {s} : fetch[r].pc # "held"
        \/ fetch[s].pc \in {"meta", "tell"} /\ fetch[s].id \in 1..adds /\ fetch[s].load \subseteq 1..pub
    /\ jobs \subseteq [id : 1..adds, item : 1..pub, bare : BOOLEAN]
    /\ sent \in [Items -> 0..2] /\ known \cup lost \subseteq Items
    /\ up \in BOOLEAN /\ pub \in Items
    /\ adds \in 0..MaxAdds /\ updates \in 0..MaxUpdates /\ crashes \in 0..MaxCrashes

(* However many fetches run at once, in whatever order their answers are       *)
(* processed, wherever the process ends and however short the limit is, a      *)
(* subscription starts a second download of an item by itself only if the item *)
(* left the list while a document that lists it was still to come: the list is *)
(* all that tells the code what it has seen.                                   *)
AutoOnce == \A i \in Items \ lost : sent[i] <= 1

(* What the feed listed when it was subscribed to is not downloaded by         *)
(* itself, even when automatic downloads are switched on later; again unless   *)
(* it left the list while a document listed it.                                *)
OnlyNew ==
    \A s \in Slots :
        fetch[s].pc \in {"meta", "tell"} /\ ~Missing(s) => fetch[s].load \cap known \subseteq lost

(* The rows tell of the feed in memory and of no other: a fetch that ends    *)
(* after the subscription was removed brings nothing back, and a restart     *)
(* finds the settings in force.  (The title is another matter: see Meta.)    *)
RowsAgree ==
    up => /\ mem = NoFeed <=> db = NoRow
          /\ mem # NoFeed => /\ mem.id = db.id
                             /\ mem.set.auto = db.set.auto /\ mem.set.enabled = db.set.enabled

(* A row makes the code take an item for known, and the list is what the user  *)
(* sees: an item with a row that a document lists, now or in an answer still   *)
(* to be processed, is in the list or has been there, wherever the process     *)
(* ended between inserting, loading and pruning.                               *)
StoredShown ==
    mem # NoFeed /\ ~Locked =>
        \A i \in db.items \ lost : Returns(i) => i \in Held(mem.items)
=============================================================================
