---------------------------- MODULE RssFeedsProofs ----------------------------
(* Machine-checked proofs about RssFeeds: its types and bounds, that an item   *)
(* starts at most one download and what the first document listed none unless  *)
(* it was lost, that stored items are shown, and that the rows tell of the     *)
(* feed in memory.                                                             *)
EXTENDS RssFeeds, FiniteSetTheorems, SequenceTheorems, TLAPS

-----------------------------------------------------------------------------
(* Lists without repetition, and the order of the rows. *)

Distinct(q) == \A a, b \in DOMAIN q : q[a] = q[b] => a = b
Rank(S, i) == Cardinality(Newer(S, i))

\* Items are finitely many.
LEMMA FinitelyMany ==
  ASSUME NEW n \in Nat, NEW S, S \subseteq 1..n
  PROVE  IsFiniteSet(S) /\ Cardinality(S) \in Nat
  <1>1. IsFiniteSet(1..n)
    BY FS_Interval
  <1>2. S \in SUBSET (1..n)
    OBVIOUS
  <1>3. IsFiniteSet(S)
    BY <1>1, <1>2, FS_Subset
  <1> QED BY <1>3, FS_CardinalityType

\* The items of a feed with their newest first are ranked 0, 1, ...
LEMMA RankBounds ==
  ASSUME NEW n \in Nat, NEW S, S \subseteq 1..n, NEW i \in S
  PROVE  IsFiniteSet(S) /\ Cardinality(S) \in Nat /\ Rank(S, i) \in 0..(Cardinality(S) - 1)
  <1>1. IsFiniteSet(S)
    BY FinitelyMany
  <1>2. IsFiniteSet(Newer(S, i)) /\ Cardinality(Newer(S, i)) <= Cardinality(S)
        /\ (Cardinality(S) = Cardinality(Newer(S, i)) => S = Newer(S, i))
    BY <1>1, FS_Subset DEF Newer
  <1>3. Cardinality(S) \in Nat /\ Cardinality(Newer(S, i)) \in Nat
    BY <1>1, <1>2, FS_CardinalityType
  <1>4. i \notin Newer(S, i)
    BY DEF Newer
  <1> QED BY <1>1, <1>2, <1>3, <1>4 DEF Rank

\* The newer of two items ranks first.
LEMMA RankOrder ==
  ASSUME NEW n \in Nat, NEW S, S \subseteq 1..n, NEW i \in S, NEW j \in S, i < j
  PROVE  Rank(S, j) < Rank(S, i)
  <1>1. IsFiniteSet(Newer(S, i)) /\ IsFiniteSet(Newer(S, j))
    BY RankBounds, FS_Subset DEF Newer
  <1>0. i \in 1..n /\ j \in 1..n /\ \A x \in S : x \in Nat
    OBVIOUS
  <1>2. Newer(S, j) \subseteq Newer(S, i) /\ j \in Newer(S, i) /\ j \notin Newer(S, j)
    <2>1. ASSUME NEW x \in S, x > j PROVE x > i
      BY <1>0, <2>1
    <2>2. Newer(S, j) \subseteq Newer(S, i)
      BY <2>1 DEF Newer
    <2>3. j > i /\ ~(j > j)
      BY <1>0
    <2> QED BY <2>2, <2>3 DEF Newer
  <1>3. Cardinality(Newer(S, j)) <= Cardinality(Newer(S, i))
        /\ (Cardinality(Newer(S, i)) = Cardinality(Newer(S, j)) => Newer(S, i) = Newer(S, j))
    BY <1>1, <1>2, FS_Subset
  <1>4. Cardinality(Newer(S, i)) \in Nat /\ Cardinality(Newer(S, j)) \in Nat
    BY <1>1, FS_CardinalityType
  <1> QED BY <1>2, <1>3, <1>4 DEF Rank

\* Two items never share a rank.
LEMMA RankInjective ==
  ASSUME NEW n \in Nat, NEW S, S \subseteq 1..n, NEW i \in S, NEW j \in S, Rank(S, i) = Rank(S, j)
  PROVE  i = j
  <1>1. Rank(S, i) \in Nat /\ Rank(S, j) \in Nat /\ i \in Nat /\ j \in Nat
    <2>1. Rank(S, i) \in 0..(Cardinality(S) - 1) /\ Rank(S, j) \in 0..(Cardinality(S) - 1)
      BY RankBounds
    <2> QED BY <2>1
  <1>2. i < j \/ j < i \/ i = j
    BY <1>1
  <1>3. ASSUME i < j PROVE FALSE
    <2>1. Rank(S, j) < Rank(S, i)
      BY <1>3, RankOrder
    <2> QED BY <1>1, <2>1
  <1>4. ASSUME j < i PROVE FALSE
    <2>1. Rank(S, i) < Rank(S, j)
      BY <1>4, RankOrder
    <2> QED BY <1>1, <2>1
  <1> QED BY <1>2, <1>3, <1>4

\* Every rank below the number of items is taken.
LEMMA RankOnto ==
  ASSUME NEW n \in Nat, NEW S, S \subseteq 1..n, NEW r \in 0..(Cardinality(S) - 1)
  PROVE  \E i \in S : Rank(S, i) = r
  <1> DEFINE R == {Rank(S, i) : i \in S}
             f == [i \in S |-> Rank(S, i)]
  <1>1. IsFiniteSet(S) /\ Cardinality(S) \in Nat
    BY FinitelyMany
  <1>2. R \subseteq 0..(Cardinality(S) - 1)
    BY RankBounds
  <1>3. f \in Bijection(S, R)
    BY RankInjective DEF Bijection, Injection, Surjection, IsInjective
  <1>4. IsFiniteSet(R) /\ Cardinality(R) = Cardinality(S)
    BY <1>1, <1>3, FS_Bijection DEF ExistsBijection
  <1>5. IsFiniteSet(0..(Cardinality(S) - 1))
        /\ Cardinality(0..(Cardinality(S) - 1)) = Cardinality(S)
    BY <1>1, FS_Interval
  <1>6. R = 0..(Cardinality(S) - 1)
    BY <1>2, <1>4, <1>5, FS_Subset
  <1> QED BY <1>6

\* NewestFirst lists each item of its set once.
LEMMA NewestFirstLists ==
  ASSUME NEW n \in Nat, NEW S, S \subseteq 1..n
  PROVE  /\ NewestFirst(S) \in Seq(S) /\ Len(NewestFirst(S)) = Cardinality(S)
         /\ Distinct(NewestFirst(S)) /\ Held(NewestFirst(S)) = S
  <1> DEFINE q == NewestFirst(S)
  <1>1. Cardinality(S) \in Nat
    BY FinitelyMany
  <1>2. \A k \in 1..Cardinality(S) : q[k] \in S /\ Rank(S, q[k]) = k - 1
    <2> TAKE k \in 1..Cardinality(S)
    <2>1. k - 1 \in 0..(Cardinality(S) - 1)
      BY <1>1
    <2>2. \E i \in S : Rank(S, i) = k - 1
      BY <2>1, RankOnto
    <2>3. q[k] = CHOOSE i \in S : Rank(S, i) = k - 1
      BY DEF NewestFirst, Rank
    <2> QED BY <2>2, <2>3
  <1>3. DOMAIN q = 1..Cardinality(S) /\ q \in [1..Cardinality(S) -> S]
    BY <1>2 DEF NewestFirst
  <1>4. q \in Seq(S) /\ Len(q) = Cardinality(S)
    BY <1>1, <1>3
  <1>5. Distinct(q)
    <2> SUFFICES ASSUME NEW a \in 1..Cardinality(S), NEW b \in 1..Cardinality(S), q[a] = q[b]
                 PROVE  a = b
      BY <1>3 DEF Distinct
    <2> QED BY <1>1, <1>2
  <1>6. Held(q) \subseteq S
    BY <1>2, <1>3 DEF Held
  <1>7. ASSUME NEW i \in S PROVE i \in Held(q)
    <2>0. Rank(S, i) \in 0..(Cardinality(S) - 1)
      BY RankBounds
    <2>1. Rank(S, i) + 1 \in 1..Cardinality(S) /\ Rank(S, i) \in Nat
          /\ (Rank(S, i) + 1) - 1 = Rank(S, i)
      BY <1>1, <2>0
    <2>2. q[Rank(S, i) + 1] = i
      <3>1. q[Rank(S, i) + 1] \in S /\ Rank(S, q[Rank(S, i) + 1]) = Rank(S, i)
        BY <2>1, <1>2
      <3> QED BY <3>1, RankInjective
    <2> QED BY <1>3, <2>1, <2>2 DEF Held
  <1> QED BY <1>4, <1>5, <1>6, <1>7

\* The rows of a feed are pruned to the limit.
LEMMA PruneItemsBound ==
  ASSUME NEW n \in Nat, NEW S, S \subseteq 1..n, NEW m \in Limits
  PROVE  PruneItems(S, m) \subseteq S /\ Cardinality(PruneItems(S, m)) <= m
  <1> DEFINE P == PruneItems(S, m)
             f == [i \in P |-> Rank(S, i)]
  <1>1. P \subseteq S
    BY DEF PruneItems
  <1>2. m \in Nat /\ m > 0
    BY FeedBounds
  <1>3. \A i \in P : Rank(S, i) \in 0..(m - 1)
    <2> TAKE i \in P
    <2>0. i \in S
      BY <1>1
    <2>3. Rank(S, i) \in 0..(Cardinality(S) - 1)
      BY <2>0, RankBounds
    <2>1. Rank(S, i) \in Nat
      BY <2>3
    <2>2. Rank(S, i) < m
      BY DEF PruneItems, Rank
    <2> QED BY <1>2, <2>1, <2>2
  <1>4. f \in Injection(P, 0..(m - 1))
    BY <1>1, <1>3, RankInjective DEF Injection, IsInjective
  <1>5. IsFiniteSet(0..(m - 1)) /\ Cardinality(0..(m - 1)) = m
    <2>1. 0 \in Int /\ m - 1 \in Int
      BY <1>2
    <2>2. Cardinality(0..(m - 1)) = IF 0 > m - 1 THEN 0 ELSE (m - 1) - 0 + 1
      BY <2>1, FS_Interval
    <2> QED BY <2>1, <2>2, <1>2, FS_Interval
  <1>6. Cardinality(P) <= Cardinality(0..(m - 1))
    BY <1>4, <1>5, FS_Injection
  <1> QED BY <1>1, <1>5, <1>6

\* A document lists no more than Window items.
LEMMA ListedBound ==
  ASSUME NEW n \in Nat
  PROVE  Listed(n) \subseteq 1..n /\ Cardinality(Listed(n)) <= Window
  <1>1. Window \in Nat \ {0}
    BY FeedBounds
  <1>2. Listed(n) \subseteq (n - Window + 1)..n
    BY <1>1 DEF Listed
  <1>3. IsFiniteSet((n - Window + 1)..n) /\ Cardinality((n - Window + 1)..n) = Window
    BY <1>1, FS_Interval
  <1>4. Cardinality(Listed(n)) <= Cardinality((n - Window + 1)..n)
    BY <1>2, <1>3, FS_Subset
  <1> QED BY <1>3, <1>4 DEF Listed

\* Pruning the list leaves entries of it, as many as the limit at most.
LEMMA PruneMemoryKeeps ==
  ASSUME NEW S, NEW q \in Seq(S), Distinct(q), NEW n \in Limits
  PROVE  /\ PruneMemory(q, n) \in Seq(S) /\ Distinct(PruneMemory(q, n))
         /\ Len(PruneMemory(q, n)) <= n
         /\ Held(PruneMemory(q, n)) \subseteq Held(q)
         /\ q # <<>> => PruneMemory(q, n) # <<>>
  <1>1. n \in Nat \ {0} /\ Len(q) \in Nat /\ DOMAIN q = 1..Len(q)
    BY FeedBounds
  <1>2. CASE Len(q) > n
    <2> DEFINE m == Len(q) - n + 1
               p == SubSeq(q, m, Len(q))
    <2>1. PruneMemory(q, n) = p
      BY <1>2 DEF PruneMemory
    <2>2. m \in Int /\ m >= 1 /\ m <= Len(q) /\ Len(q) - m + 1 = n
      BY <1>1, <1>2
    <2>3. \A k \in m..Len(q) : q[k] \in S
      BY <1>1, <2>2
    <2> HIDE DEF m
    <2>4. p \in Seq(S) /\ Len(p) = n
      BY <1>1, <2>2, <2>3, SubSeqProperties
    <2>5. \A k \in 1..n : p[k] = q[m + k - 1] /\ m + k - 1 \in 1..Len(q)
      BY <1>1, <2>2, <2>3, SubSeqProperties
    <2> HIDE DEF p
    <2>6. DOMAIN p = 1..n
      BY <2>4, <1>1
    <2>7. Distinct(p)
      <3> SUFFICES ASSUME NEW a \in 1..n, NEW b \in 1..n, p[a] = p[b]
                   PROVE  a = b
        BY <2>6 DEF Distinct
      <3>1. m + a - 1 = m + b - 1
        BY <2>5, <1>1 DEF Distinct
      <3> QED BY <3>1, <2>2
    <2>8. Held(p) \subseteq Held(q)
      BY <2>5, <2>6, <1>1 DEF Held
    <2>9. p # <<>>
      BY <2>4, <1>1
    <2> QED BY <2>1, <2>4, <2>7, <2>8, <2>9, <1>1
  <1>3. CASE ~(Len(q) > n)
    BY <1>1, <1>3 DEF PruneMemory
  <1> QED BY <1>2, <1>3

\* Joining two lists that have nothing in common.
LEMMA Joined ==
  ASSUME NEW S, NEW q \in Seq(S), NEW r \in Seq(S), Distinct(q), Distinct(r),
         Held(q) \cap Held(r) = {}
  PROVE  /\ q \o r \in Seq(S) /\ Distinct(q \o r) /\ Held(q \o r) = Held(q) \cup Held(r)
         /\ q # <<>> => q \o r # <<>>
  <1> DEFINE j == q \o r
  <1>1. j \in Seq(S) /\ Len(j) = Len(q) + Len(r) /\ Len(q) \in Nat /\ Len(r) \in Nat
        /\ DOMAIN q = 1..Len(q) /\ DOMAIN r = 1..Len(r)
    BY ConcatProperties
  <1>2. \A k \in 1..Len(j) : j[k] = IF k <= Len(q) THEN q[k] ELSE r[k - Len(q)]
    BY <1>1, ConcatProperties
  <1>3. DOMAIN j = 1..Len(j)
    BY <1>1
  <1> HIDE DEF j
  <1>4. \A k \in 1..Len(q) : k \in 1..Len(j) /\ j[k] = q[k]
    BY <1>1, <1>2
  <1>5. \A k \in 1..Len(r) : Len(q) + k \in 1..Len(j) /\ j[Len(q) + k] = r[k]
    BY <1>1, <1>2
  <1>6. \A k \in 1..Len(j) : k \in 1..Len(q) \/ k - Len(q) \in 1..Len(r)
    BY <1>1
  <1>7. Held(j) = Held(q) \cup Held(r)
    <2>1. \A k \in 1..Len(j) : j[k] \in Held(q) \cup Held(r)
      <3> TAKE k \in 1..Len(j)
      <3>1. CASE k <= Len(q)
        BY <3>1, <1>1, <1>2 DEF Held
      <3>2. CASE k > Len(q)
        <4>1. k - Len(q) \in 1..Len(r) /\ j[k] = r[k - Len(q)]
          BY <3>2, <1>1, <1>2
        <4> QED BY <4>1, <1>1 DEF Held
      <3> QED BY <3>1, <3>2, <1>1
    <2>4. Held(j) \subseteq Held(q) \cup Held(r)
      BY <1>3, <2>1 DEF Held
    <2>2. Held(q) \subseteq Held(j)
      BY <1>1, <1>3, <1>4 DEF Held
    <2>3. Held(r) \subseteq Held(j)
      BY <1>1, <1>3, <1>5 DEF Held
    <2> QED BY <2>4, <2>2, <2>3
  <1>8. Distinct(j)
    <2> SUFFICES ASSUME NEW a \in 1..Len(j), NEW b \in 1..Len(j), j[a] = j[b]
                 PROVE  a = b
      BY <1>3 DEF Distinct
    <2>1. CASE a <= Len(q) /\ b <= Len(q)
      BY <2>1, <1>1, <1>2 DEF Distinct
    <2>2. CASE a > Len(q) /\ b > Len(q)
      BY <2>2, <1>1, <1>2, <1>6 DEF Distinct
    <2>0. \A k \in 1..Len(q), m \in 1..Len(r) : q[k] # r[m]
      BY <1>1 DEF Held
    <2>3. CASE a <= Len(q) /\ b > Len(q)
      <3>1. a \in 1..Len(q) /\ b - Len(q) \in 1..Len(r)
        BY <2>3, <1>1
      <3>2. j[a] = q[a] /\ j[b] = r[b - Len(q)]
        BY <2>3, <1>1, <1>2
      <3> QED BY <3>1, <3>2, <2>0
    <2>4. CASE a > Len(q) /\ b <= Len(q)
      <3>1. b \in 1..Len(q) /\ a - Len(q) \in 1..Len(r)
        BY <2>4, <1>1
      <3>2. j[b] = q[b] /\ j[a] = r[a - Len(q)]
        BY <2>4, <1>1, <1>2
      <3> QED BY <3>1, <3>2, <2>0
    <2> QED BY <2>1, <2>2, <2>3, <2>4, <1>1
  <1>9. ASSUME q # <<>> PROVE j # <<>>
    BY <1>1, <1>9
  <1> QED BY <1>1, <1>7, <1>8, <1>9 DEF j

-----------------------------------------------------------------------------
(* The inductive invariant. *)

Feeds == [id : Nat \ {0}, set : Settings, items : Seq(Items), bare : SUBSET Items,
          marked : SUBSET Items]
Rows == [id : Nat \ {0}, set : Settings, items : SUBSET Items, marked : SUBSET Items]
Asking == [pc : {"net"}, id : Nat]
Answered == [pc : {"got"}, id : Nat, newest : Items]
Inserting == [pc : {"held"}, id : Nat, newest : Items, inserted : BOOLEAN]
Storing == [pc : {"meta", "tell"}, id : Nat, title : {"first", "renamed"}, load : SUBSET Items]
Fetches == {Idle} \cup Asking \cup Answered \cup Inserting \cup Storing

Kinds ==
    /\ mem \in {NoFeed} \cup Feeds /\ db \in {NoRow} \cup Rows
    /\ fetch \in [Slots -> Fetches]
    /\ jobs \subseteq [id : 1..adds, item : 1..pub, bare : BOOLEAN]
    /\ sent \in [Items -> 0..2] /\ known \subseteq Items /\ lost \subseteq Items
    /\ up \in BOOLEAN /\ pub \in Items
    /\ adds \in 0..MaxAdds /\ updates \in 0..MaxUpdates /\ crashes \in 0..MaxCrashes

\* The list in memory: published items, none twice, and not too many.
ListOK ==
    mem # NoFeed =>
        /\ Held(mem.items) \subseteq 1..pub /\ Distinct(mem.items)
        /\ Len(mem.items) <= Longest + Window * crashes
        /\ mem.bare \subseteq Held(mem.items) /\ mem.marked \subseteq Held(mem.items)

RowOK ==
    db # NoRow =>
        /\ db.items \subseteq 1..pub /\ db.marked \subseteq db.items
        /\ Cardinality(db.items) <= Longest + Unpruned

\* A fetch is for a subscription made, and an answer lists what was published.
FetchOK ==
    \A s \in Slots :
        /\ fetch[s].pc # "idle" => fetch[s].id \in 1..adds
        /\ fetch[s].pc \in {"got", "held"} => fetch[s].newest <= pub
        /\ fetch[s].pc \in {"meta", "tell"} => fetch[s].load \subseteq 1..pub

\* One fetch holds the lock, and the feed cannot go away while it does.
LockOK ==
    \A s \in Slots : fetch[s].pc = "held" =>
        /\ mem # NoFeed /\ fetch[s].id = mem.id
        /\ \A r \in Slots : fetch[r].pc = "held" => r = s

\* The feed and its row are those of the last subscription.
Ids == (mem # NoFeed => mem.id = adds) /\ (db # NoRow => db.id = adds)

\* No process has no memory.  A feed without items in memory has none stored, or those
\* of the document that is about to be loaded.
Paired ==
    /\ ~up => mem = NoFeed
    /\ RowsAgree
    /\ mem # NoFeed /\ mem.items = <<>> =>
            IF Locked THEN Cardinality(db.items) <= Window ELSE db.items = {}

Base == Kinds /\ ListOK /\ RowOK /\ FetchOK /\ LockOK /\ Ids /\ Paired

-----------------------------------------------------------------------------
(* The kinds of values. *)

\* The bounds are numbers.
LEMMA Numbers ==
  /\ Window \in Nat \ {0} /\ Highest \in Nat \ {0} /\ MaxItems \in Nat \ {0}
  /\ MaxAdds \in Nat /\ MaxUpdates \in Nat /\ MaxCrashes \in Nat
  /\ Longest \in Nat /\ Window <= Longest /\ \A n \in Limits : n \in Nat \ {0} /\ n <= Longest
  <1>1. Window \in Nat \ {0} /\ Highest \in Nat \ {0} /\ Limits \subseteq 1..Highest
    BY FeedBounds
  <1>2. Longest \in Nat /\ Window <= Longest /\ Highest <= Longest
    BY <1>1 DEF Longest
  <1>3. \A n \in Limits : n \in Nat \ {0} /\ n <= Longest
    BY <1>1, <1>2
  <1> QED BY <1>1, <1>2, <1>3, FeedBounds

\* What exits left behind unpruned.
LEMMA Leftover ==
  ASSUME NEW c \in Nat
  PROVE  /\ Window * c \in Nat /\ Window * (c + 1) = Window * c + Window
         /\ Longest <= Longest + Window * c
  BY Numbers

\* What a fetch has got so far follows from where it stands.
LEMMA FetchKinds ==
  ASSUME NEW f \in Fetches
  PROVE  /\ f.pc \in {"idle", "net", "got", "held", "meta", "tell"}
         /\ f.pc = "idle" <=> f = Idle
         /\ f.pc = "net" => f \in Asking
         /\ f.pc = "got" => f \in Answered
         /\ f.pc = "held" => f \in Inserting
         /\ f.pc \in {"meta", "tell"} => f \in Storing
  <1>1. Idle.pc = "idle"
    BY DEF Idle
  <1>2. CASE f = Idle
    BY <1>1, <1>2
  <1>3. CASE f \in Asking
    BY <1>1, <1>3 DEF Asking
  <1>4. CASE f \in Answered
    BY <1>1, <1>4 DEF Answered
  <1>5. CASE f \in Storing
    BY <1>1, <1>5 DEF Storing
  <1>6. CASE f \in Inserting
    BY <1>1, <1>6 DEF Inserting
  <1> QED BY <1>2, <1>3, <1>4, <1>5, <1>6 DEF Fetches

\* What a loaded subscription consists of.
LEMMA FeedKind ==
  ASSUME NEW m \in Feeds
  PROVE  /\ m # NoFeed /\ m.id \in Nat \ {0} /\ m.set \in Settings /\ m.items \in Seq(Items)
         /\ m.bare \subseteq Items /\ m.marked \subseteq Items
  BY DEF Feeds, NoFeed

\* What a stored subscription consists of.
LEMMA RowKind ==
  ASSUME NEW r \in Rows
  PROVE  /\ r # NoRow /\ r.id \in Nat \ {0} /\ r.set \in Settings /\ r.items \subseteq Items
         /\ r.marked \subseteq Items
  BY DEF Rows, NoRow

\* Changing the settings changes nothing else.
LEMMA FeedSet ==
  ASSUME NEW m \in Feeds, NEW x \in Settings
  PROVE  LET n == [m EXCEPT !.set = x]
         IN n \in Feeds /\ n.id = m.id /\ n.set = x /\ n.items = m.items /\ n.bare = m.bare
            /\ n.marked = m.marked
  BY DEF Feeds

\* Marking changes nothing else.
LEMMA FeedMarked ==
  ASSUME NEW m \in Feeds, NEW k \in SUBSET Items
  PROVE  LET n == [m EXCEPT !.marked = k]
         IN n \in Feeds /\ n.id = m.id /\ n.set = m.set /\ n.items = m.items /\ n.bare = m.bare
            /\ n.marked = k
  BY DEF Feeds

\* Storing items changes nothing else of the row.
LEMMA RowStored ==
  ASSUME NEW r \in Rows, NEW i \in SUBSET Items
  PROVE  LET n == [r EXCEPT !.items = i]
         IN n \in Rows /\ n.id = r.id /\ n.set = r.set /\ n.items = i /\ n.marked = r.marked
  BY DEF Rows

\* Marking items changes nothing else of the row.
LEMMA RowMarked ==
  ASSUME NEW r \in Rows, NEW k \in SUBSET Items
  PROVE  LET n == [r EXCEPT !.marked = k]
         IN n \in Rows /\ n.id = r.id /\ n.set = r.set /\ n.items = r.items /\ n.marked = k
  BY DEF Rows

\* Renaming changes nothing else of the row.
LEMMA RowTitled ==
  ASSUME NEW r \in Rows, NEW t \in {"first", "renamed"}
  PROVE  LET n == [r EXCEPT !.set.title = t]
         IN n \in Rows /\ n.id = r.id /\ n.items = r.items /\ n.marked = r.marked
            /\ n.set.auto = r.set.auto /\ n.set.enabled = r.set.enabled
  <1>1. r.set \in Settings /\ [r.set EXCEPT !.title = t] \in Settings
        /\ [r.set EXCEPT !.title = t].auto = r.set.auto
        /\ [r.set EXCEPT !.title = t].enabled = r.set.enabled
    BY DEF Rows, Settings
  <1>2. \A x \in Settings : LET n == [r EXCEPT !.set = x]
          IN n \in Rows /\ n.id = r.id /\ n.items = r.items /\ n.marked = r.marked /\ n.set = x
    BY DEF Rows
  <1>3. [r EXCEPT !.set.title = t] = [r EXCEPT !.set = [r.set EXCEPT !.title = t]]
    OBVIOUS
  <1> QED BY <1>1, <1>2, <1>3

-----------------------------------------------------------------------------
(* Every action keeps Base. *)

\* What Base says of a feed, of its row and of a fetch that waits for the lock.
LEMMA OfFeed ==
  ASSUME Base, mem # NoFeed
  PROVE  /\ mem \in Feeds /\ mem.id = adds /\ adds \in 1..MaxAdds
         /\ mem.items \in Seq(Items) /\ mem.set \in Settings
         /\ Held(mem.items) \subseteq 1..pub /\ Distinct(mem.items)
         /\ Len(mem.items) <= Longest + Window * crashes
         /\ mem.bare \subseteq Held(mem.items) /\ mem.marked \subseteq Held(mem.items)
         /\ up /\ db # NoRow /\ db.set.auto = mem.set.auto /\ db.set.enabled = mem.set.enabled
         /\ mem.items = <<>> => IF Locked THEN Cardinality(db.items) <= Window ELSE db.items = {}
  <1>1. mem \in Feeds
    BY DEF Base, Kinds
  <1>2. mem.id = adds /\ adds \in 0..MaxAdds
    BY DEF Base, Ids, Kinds
  <1>3. mem.id \in Nat \ {0} /\ mem.items \in Seq(Items) /\ mem.set \in Settings
    BY <1>1, FeedKind
  <1>4. up /\ db # NoRow /\ db.set.auto = mem.set.auto /\ db.set.enabled = mem.set.enabled
        /\ (mem.items = <<>> => IF Locked THEN Cardinality(db.items) <= Window ELSE db.items = {})
    BY DEF Base, Paired, RowsAgree
  <1>5. adds \in 1..MaxAdds
    BY <1>2, <1>3, Numbers
  <1> QED BY <1>1, <1>2, <1>3, <1>4, <1>5 DEF Base, ListOK

\* What the invariant says of the stored subscription.
LEMMA OfRow ==
  ASSUME Base, db # NoRow
  PROVE  /\ db \in Rows /\ db.id = adds /\ adds \in 1..MaxAdds
         /\ db.items \subseteq 1..pub /\ db.marked \subseteq db.items
         /\ Cardinality(db.items) <= Longest + Unpruned
         /\ db.set \in Settings
  <1>1. db \in Rows
    BY DEF Base, Kinds
  <1>2. db.id = adds /\ adds \in 0..MaxAdds
    BY DEF Base, Ids, Kinds
  <1>3. db.id \in Nat \ {0} /\ db.set \in Settings
    BY <1>1, RowKind
  <1>4. adds \in 1..MaxAdds
    BY <1>2, <1>3, Numbers
  <1> QED BY <1>1, <1>2, <1>3, <1>4 DEF Base, RowOK

\* What the invariant says of a fetch.
LEMMA OfFetch ==
  ASSUME Base, NEW s \in Slots
  PROVE  /\ fetch[s] \in Fetches
         /\ fetch[s].pc # "idle" => fetch[s].id \in 1..adds
         /\ fetch[s].pc \in {"got", "held"} => fetch[s].newest \in 1..pub
         /\ fetch[s].pc = "held" => fetch[s].inserted \in BOOLEAN
         /\ fetch[s].pc \in {"meta", "tell"} =>
                /\ fetch[s].load \subseteq 1..pub /\ fetch[s].load \subseteq Items
                /\ fetch[s].title \in {"first", "renamed"}
  <1>1. fetch[s] \in Fetches /\ pub \in Items
    BY DEF Base, Kinds
  <1>2. /\ fetch[s].pc # "idle" => fetch[s].id \in 1..adds
        /\ fetch[s].pc \in {"got", "held"} => fetch[s].newest <= pub
        /\ fetch[s].pc \in {"meta", "tell"} => fetch[s].load \subseteq 1..pub
    BY DEF Base, FetchOK
  <1>3. fetch[s].pc \in {"got", "held"} =>
            fetch[s].newest \in Items /\ (fetch[s].pc = "held" => fetch[s].inserted \in BOOLEAN)
    <2> HAVE fetch[s].pc \in {"got", "held"}
    <2>1. fetch[s] \in Answered \/ (fetch[s].pc = "held" /\ fetch[s] \in Inserting)
      BY <1>1, FetchKinds
    <2>2. CASE fetch[s] \in Answered
      BY <2>2 DEF Answered
    <2>3. CASE fetch[s] \in Inserting
      BY <2>3 DEF Inserting
    <2> QED BY <2>1, <2>2, <2>3
  <1>4. fetch[s].pc \in {"got", "held"} => fetch[s].newest \in 1..pub
    BY <1>1, <1>2, <1>3, Numbers DEF Items
  <1>5. fetch[s].pc \in {"meta", "tell"} =>
          fetch[s].title \in {"first", "renamed"} /\ fetch[s].load \subseteq Items
    <2> HAVE fetch[s].pc \in {"meta", "tell"}
    <2>1. fetch[s] \in Storing
      BY <1>1, FetchKinds
    <2> QED BY <2>1 DEF Storing
  <1> QED BY <1>1, <1>2, <1>3, <1>4, <1>5

\* The items published so far.
LEMMA Published == ASSUME Kinds PROVE 1..pub \subseteq Items /\ pub \in Nat /\ pub >= 1
  BY Numbers DEF Kinds, Items

\* A fetch of slot s goes on as f; what else happens does not reach the fetches.
LEMMA FetchMoves ==
  ASSUME Base, NEW s \in Slots, NEW f \in Fetches, fetch' = [fetch EXCEPT ![s] = f],
         pub' = pub, adds' = adds \/ adds' = adds + 1,
         f.pc # "idle" => f.id \in 1..adds',
         f.pc \in {"got", "held"} => f.newest <= pub,
         f.pc \in {"meta", "tell"} => f.load \subseteq 1..pub
  PROVE  fetch' \in [Slots -> Fetches] /\ FetchOK'
  <1>1. fetch \in [Slots -> Fetches] /\ adds \in Nat
    BY Numbers DEF Base, Kinds
  <1>2. fetch' \in [Slots -> Fetches]
    BY <1>1
  <1>3. \A r \in Slots : fetch'[r] = IF r = s THEN f ELSE fetch[r]
    BY <1>1
  <1>4. \A x \in 1..adds : x \in 1..adds'
    BY <1>1
  <1>5. ASSUME NEW r \in Slots
        PROVE  /\ fetch'[r].pc # "idle" => fetch'[r].id \in 1..adds'
               /\ fetch'[r].pc \in {"got", "held"} => fetch'[r].newest <= pub'
               /\ fetch'[r].pc \in {"meta", "tell"} => fetch'[r].load \subseteq 1..pub'
    <2>1. CASE r = s
      BY <2>1, <1>3
    <2>2. CASE r # s
      <3>1. fetch'[r] = fetch[r]
        BY <2>2, <1>3
      <3>2. /\ fetch[r].pc # "idle" => fetch[r].id \in 1..adds
            /\ fetch[r].pc \in {"got", "held"} => fetch[r].newest <= pub
            /\ fetch[r].pc \in {"meta", "tell"} => fetch[r].load \subseteq 1..pub
        BY DEF Base, FetchOK
      <3> QED BY <3>1, <3>2, <1>4
    <2> QED BY <2>1, <2>2
  <1> QED BY <1>2, <1>5 DEF FetchOK

\* A fetch that neither takes nor releases the lock leaves it with its holder.
LEMMA LockStays ==
  ASSUME Base, NEW s \in Slots, NEW f, fetch' = [fetch EXCEPT ![s] = f], fetch[s].pc # "held",
         f.pc # "held", mem' = mem \/ ~Locked
  PROVE  LockOK' /\ (Locked' <=> Locked)
  <1>1. \A r \in Slots : fetch'[r] = IF r = s THEN f ELSE fetch[r]
    BY DEF Base, Kinds
  <1>2. \A r \in Slots : fetch'[r].pc = "held" <=> fetch[r].pc = "held"
    BY <1>1
  <1>3. \A r \in Slots : fetch'[r].pc = "held" => fetch'[r] = fetch[r]
    BY <1>1
  <1>4. Locked' <=> Locked
    BY <1>2 DEF Locked
  <1>5. LockOK'
    BY <1>2, <1>3 DEF Locked, Base, LockOK
  <1> QED BY <1>4, <1>5

\* Steps of nobody who fetches, without the lock or without effect on the feed.
LEMMA LockSame ==
  ASSUME Base, fetch' = fetch, mem' = mem \/ ~Locked
  PROVE  LockOK' /\ (Locked' <=> Locked)
  <1>1. Locked' <=> Locked
    BY DEF Locked
  <1>2. LockOK'
    BY DEF Locked, Base, LockOK
  <1> QED BY <1>1, <1>2

\* As many rows may be unpruned as before.
LEMMA UnprunedSame ==
  ASSUME crashes' = crashes, Locked' <=> Locked PROVE Unpruned' = Unpruned
  BY DEF Unpruned

\* A step that moves only a fetch, within what a fetch may be, keeps the invariant.
LEMMA OnlyFetch ==
  ASSUME Base, Idling, NEW s \in Slots, NEW f, fetch' = [fetch EXCEPT ![s] = f],
         fetch[s].pc # "held", f.pc # "held", fetch' \in [Slots -> Fetches], FetchOK'
  PROVE  Base'
  <1>1. LockOK' /\ (Locked' <=> Locked)
    BY LockStays DEF Idling
  <1>2. Unpruned' = Unpruned
    BY <1>1, UnprunedSame DEF Idling, counters
  <1>3. Kinds' /\ ListOK' /\ RowOK' /\ Ids'
    BY <1>2 DEF Base, Idling, counters, Kinds, ListOK, RowOK, Ids
  <1>4. Paired'
    BY <1>1 DEF Base, Idling, counters, Paired, RowsAgree
  <1> QED BY <1>1, <1>3, <1>4 DEF Base

\* What may be unpruned is told by the exits and the lock.
LEMMA UnprunedIs ==
  ASSUME crashes \in Nat
  PROVE  /\ Window * crashes \in Nat /\ Longest \in Nat /\ Unpruned \in Nat
         /\ Unpruned = IF Locked THEN Window * crashes + Window ELSE Window * crashes
  <1>1. Window * crashes \in Nat /\ Longest \in Nat /\ Window \in Nat
    BY Leftover, Numbers
  <1> DEFINE w == Window * crashes
  <1>2. w \in Nat /\ Unpruned = w + IF Locked THEN Window ELSE 0
    BY <1>1 DEF Unpruned
  <1> HIDE DEF w
  <1>3. Unpruned \in Nat /\ Unpruned = IF Locked THEN w + Window ELSE w
    BY <1>1, <1>2
  <1> QED BY <1>1, <1>3 DEF w

\* So it is after a step.
LEMMA UnprunedNext ==
  ASSUME crashes' \in Nat
  PROVE  /\ Window * crashes' \in Nat /\ Longest + Window * crashes' >= 0
         /\ Longest \in Nat /\ Unpruned' \in Nat /\ Longest + Unpruned' >= 0
  <1>1. Window * crashes' \in Nat /\ Longest \in Nat /\ Window \in Nat
    BY Leftover, Numbers
  <1> DEFINE w == Window * crashes'
  <1>2. w \in Nat /\ Unpruned' = w + IF Locked' THEN Window ELSE 0
    BY <1>1 DEF Unpruned
  <1> HIDE DEF w
  <1>3. Unpruned' \in Nat /\ Longest + w >= 0 /\ Longest + Unpruned' >= 0
    BY <1>1, <1>2
  <1> QED BY <1>1, <1>3 DEF w

\* A fetch that starts keeps types and identities.
LEMMA StartBase == ASSUME Base, NEW s \in Slots, FetchFeed(s), Idling PROVE Base'
  <1> DEFINE f == [pc |-> "net", id |-> mem.id]
  <1>1. mem.id = adds /\ adds \in 1..adds /\ mem.id \in Nat
    BY OfFeed, Numbers DEF FetchFeed
  <1>2. f \in Asking /\ f.pc = "net" /\ f.id = mem.id
    BY <1>1 DEF Asking
  <1>3. f \in Fetches /\ fetch[s].pc # "held"
    BY <1>2 DEF Fetches, FetchFeed, Idle
  <1>4. fetch' = [fetch EXCEPT ![s] = f] /\ pub' = pub /\ adds' = adds
    BY DEF FetchFeed, Idling, counters
  <1> HIDE DEF f
  <1> QED BY <1>1, <1>2, <1>3, <1>4, FetchMoves, OnlyFetch

\* A feed that answers keeps types and identities.
LEMMA AnswerBase == ASSUME Base, NEW s \in Slots, Answer(s) PROVE Base'
  <1> DEFINE f == [pc |-> "got", id |-> fetch[s].id, newest |-> pub]
  <1>1. fetch[s].id \in 1..adds /\ adds \in Nat /\ pub \in Items
    BY OfFetch, Numbers DEF Answer, Base, Kinds
  <1>2. f \in Answered /\ f.pc = "got" /\ f.id = fetch[s].id /\ f.newest = pub
    BY <1>1 DEF Answered
  <1>3. f \in Fetches /\ fetch[s].pc # "held"
    BY <1>2 DEF Fetches, Answer
  <1>4. fetch' = [fetch EXCEPT ![s] = f] /\ pub' = pub /\ adds' = adds /\ Idling
    BY DEF Answer, Idling, counters
  <1>5. pub <= pub
    BY Published DEF Base
  <1> HIDE DEF f
  <1> QED BY <1>1, <1>2, <1>3, <1>4, <1>5, FetchMoves, OnlyFetch

\* A fetch that ends is a fetch.
LEMMA IdleFetch ==
  ASSUME Base, NEW s \in Slots, fetch' = [fetch EXCEPT ![s] = Idle], pub' = pub, adds' = adds
  PROVE  fetch' \in [Slots -> Fetches] /\ FetchOK' /\ Idle.pc # "held"
  <1>1. Idle \in Fetches /\ Idle.pc = "idle"
    BY DEF Fetches, Idle
  <1> QED BY <1>1, FetchMoves

\* A fetch that fails keeps types and identities.
LEMMA FailBase == ASSUME Base, NEW s \in Slots, Fail(s) PROVE Base'
  <1>1. fetch[s].pc = "net" /\ fetch' = [fetch EXCEPT ![s] = Idle] /\ Idling
    BY DEF Fail
  <1>2. pub' = pub /\ adds' = adds
    BY <1>1 DEF Idling, counters
  <1> QED BY <1>1, <1>2, IdleFetch, OnlyFetch

\* A subscription added keeps types and identities.
LEMMA AddBase == ASSUME Base, NEW s \in Slots, AddSubscription(s) PROVE Base'
  <1> DEFINE f == [pc |-> "net", id |-> adds']
  <1>1. adds' = adds + 1 /\ adds' \in 1..MaxAdds /\ adds' \in 1..adds' /\ adds' \in Nat \ {0}
    BY Numbers DEF AddSubscription, Base, Kinds
  <1>2. f \in Asking /\ f.pc = "net" /\ f.id = adds'
    BY <1>1 DEF Asking
  <1>3. f \in Fetches /\ fetch[s].pc # "held" /\ ~Locked
    BY <1>2 DEF Fetches, AddSubscription, Idle
  <1>4. fetch' = [fetch EXCEPT ![s] = f] /\ pub' = pub
    BY DEF AddSubscription
  <1> HIDE DEF f
  <1>5. fetch' \in [Slots -> Fetches] /\ FetchOK' /\ LockOK' /\ ~Locked'
    BY <1>1, <1>2, <1>3, <1>4, FetchMoves, LockStays
  <1>6. NewFeed \in Settings
    BY DEF NewFeed, Settings
  <1>7. mem' \in Feeds /\ mem'.id = adds' /\ mem'.set = NewFeed /\ mem'.items = <<>>
        /\ mem'.bare = {} /\ mem'.marked = {}
    BY <1>1, <1>6 DEF AddSubscription, Feeds
  <1>8. db' \in Rows /\ db'.id = adds' /\ db'.set = NewFeed /\ db'.items = {} /\ db'.marked = {}
    BY <1>1, <1>6 DEF AddSubscription, Rows
  <1>9. mem' # NoFeed /\ db' # NoRow
    BY <1>7, <1>8, FeedKind, RowKind
  <1>10. Kinds'
    <2>1. jobs' \subseteq [id : 1..adds', item : 1..pub', bare : BOOLEAN]
      BY <1>1, Numbers DEF AddSubscription, Base, Kinds
    <2> QED BY <1>1, <1>5, <1>7, <1>8, <2>1 DEF AddSubscription, Base, Kinds
  <1>15. crashes \in Nat /\ crashes' \in Nat
    BY Numbers, <1>10 DEF Base, Kinds
  <1>11. ListOK'
    <2>1. Held(<<>>) = {} /\ Distinct(<<>>) /\ Len(<<>>) = 0
      BY DEF Held, Distinct
    <2>2. Longest + Window * crashes' >= 0
      BY <1>15, UnprunedNext
    <2> QED BY <1>7, <2>1, <2>2 DEF ListOK
  <1>12. RowOK'
    <2>1. Longest + Unpruned' >= 0 /\ Longest \in Nat /\ Unpruned' \in Nat
      BY <1>15, UnprunedNext
    <2>2. 0 <= Longest + Unpruned'
      BY <2>1
    <2> QED BY <1>8, <2>2, FS_EmptySet DEF RowOK
  <1>13. Ids'
    BY <1>7, <1>8 DEF Ids
  <1>14. Paired'
    BY <1>5, <1>7, <1>8, <1>9 DEF Paired, RowsAgree, AddSubscription
  <1> QED BY <1>5, <1>10, <1>11, <1>12, <1>13, <1>14 DEF Base

\* A subscription removed keeps types and identities.
LEMMA RemoveBase == ASSUME Base, RemoveSubscription PROVE Base'
  <1>1. LockOK' /\ (Locked' <=> Locked)
    BY LockSame DEF RemoveSubscription
  <1>2. Kinds' /\ ListOK' /\ RowOK' /\ FetchOK' /\ Ids'
    BY DEF Base, RemoveSubscription, counters, Kinds, ListOK, RowOK, FetchOK, Ids
  <1>3. Paired'
    BY DEF Base, RemoveSubscription, Paired, RowsAgree
  <1> QED BY <1>1, <1>2, <1>3 DEF Base

\* A subscription updated keeps types and identities.
LEMMA UpdateBase == ASSUME Base, UpdateSubscription PROVE Base'
  <1>1. mem # NoFeed /\ ~Locked
    BY DEF UpdateSubscription
  <1>2. PICK x \in Changes \ {mem.set} :
          /\ mem' = [mem EXCEPT !.set = x]
          /\ db' = [id |-> mem.id, set |-> x, items |-> {}, marked |-> {}]
    BY DEF UpdateSubscription
  <1>3. x \in Settings
    BY <1>2, FeedBounds
  <1>4. mem \in Feeds /\ mem.id = adds /\ mem.id \in Nat \ {0}
    BY <1>1, OfFeed, FeedKind
  <1>5. mem' \in Feeds /\ mem'.id = mem.id /\ mem'.set = x /\ mem'.items = mem.items
        /\ mem'.bare = mem.bare /\ mem'.marked = mem.marked
    BY <1>2, <1>3, <1>4, FeedSet
  <1>6. db' \in Rows /\ db'.id = mem.id /\ db'.set = x /\ db'.items = {} /\ db'.marked = {}
    BY <1>2, <1>3, <1>4 DEF Rows
  <1>7. mem' # NoFeed /\ db' # NoRow
    BY <1>5, <1>6, FeedKind, RowKind
  <1>8. updates' \in 0..MaxUpdates
    BY Numbers DEF Base, Kinds, UpdateSubscription
  <1>9. UNCHANGED <<up, fetch, jobs, pub, sent, known, lost, adds, crashes>>
    BY DEF UpdateSubscription
  <1>10. Kinds'
    BY <1>5, <1>6, <1>8, <1>9 DEF Base, Kinds
  <1>11. ListOK'
    BY <1>1, <1>5, <1>9 DEF Base, ListOK
  <1>12. RowOK'
    <2>1. crashes' \in Nat
      BY Numbers, <1>10 DEF Kinds
    <2>2. Longest + Unpruned' >= 0 /\ Longest \in Nat /\ Unpruned' \in Nat
      BY <2>1, UnprunedNext
    <2>3. 0 <= Longest + Unpruned'
      BY <2>2
    <2> QED BY <1>6, <2>3, FS_EmptySet DEF RowOK
  <1>13. FetchOK'
    BY <1>9 DEF Base, FetchOK
  <1>16. LockOK' /\ ~Locked'
    BY <1>1, <1>9, LockSame
  <1>14. Ids'
    BY <1>4, <1>5, <1>6, <1>9 DEF Ids
  <1>15. Paired'
    BY <1>1, <1>5, <1>6, <1>7, <1>9, <1>16, OfFeed DEF Paired, RowsAgree
  <1> QED BY <1>10, <1>11, <1>12, <1>13, <1>14, <1>15, <1>16 DEF Base

\* What a fetch that found its feed works with.
LEMMA AtLock ==
  ASSUME Base, NEW s \in Slots, fetch[s].pc \in {"got", "held"},
         fetch[s].pc = "got" => ~Missing(s)
  PROVE  /\ mem # NoFeed /\ db # NoRow /\ fetch[s].id = mem.id
         /\ fetch[s].newest \in 1..pub /\ fetch[s].newest \in Nat
         /\ Listed(fetch[s].newest) \subseteq 1..pub
         /\ Listed(fetch[s].newest) # {}
         /\ db.items \subseteq 1..pub /\ pub \in Nat /\ 1..pub \subseteq Items /\ crashes \in Nat
  <1>1. mem # NoFeed /\ mem.id = fetch[s].id
    BY DEF Missing, Base, LockOK
  <1>2. db # NoRow /\ mem.id = adds /\ db.items \subseteq 1..pub
    BY <1>1, OfFeed, OfRow
  <1>3. fetch[s].newest \in 1..pub /\ pub \in Nat /\ crashes \in Nat /\ 1..pub \subseteq Items
    BY OfFetch, Published, Numbers DEF Base, Kinds
  <1>4. Listed(fetch[s].newest) \subseteq 1..pub /\ fetch[s].newest \in Listed(fetch[s].newest)
    BY <1>3, Numbers DEF Listed
  <1> QED BY <1>1, <1>2, <1>3, <1>4

Stored(s) == db.items \cup Listed(fetch[s].newest)
HeldOf(s) == [pc |-> "held", id |-> fetch[s].id, newest |-> fetch[s].newest,
              inserted |-> Stored(s) # db.items]

\* What a fetch does that takes the lock and finds its feed.
LEMMA InsertShape ==
  ASSUME NEW s, InsertItems(s), ~Missing(s)
  PROVE  /\ fetch[s].pc = "got" /\ ~Locked
         /\ db' = [db EXCEPT !.items = Stored(s)]
         /\ fetch' = [fetch EXCEPT ![s] = HeldOf(s)]
         /\ known' = IF known = {} THEN Stored(s) ELSE known
         /\ UNCHANGED <<up, mem, jobs, pub, sent, lost, adds, updates, crashes>>
  BY DEF InsertItems, Stored, HeldOf, counters

\* The rows grow by a document at most.
LEMMA StoredBound ==
  ASSUME Base, NEW s \in Slots, fetch[s].pc = "got", ~Missing(s)
  PROVE  /\ Stored(s) \subseteq 1..pub /\ Stored(s) # {}
         /\ Cardinality(db.items) \in Nat /\ Cardinality(Stored(s)) \in Nat
         /\ Cardinality(Stored(s)) <= Cardinality(db.items) + Window
         /\ db.items = {} => Cardinality(Stored(s)) <= Window
  <1> DEFINE doc == Listed(fetch[s].newest)
  <1>1. fetch[s].newest \in Nat /\ doc \subseteq 1..pub /\ doc # {} /\ db.items \subseteq 1..pub
        /\ pub \in Nat
    BY AtLock
  <1>2. IsFiniteSet(doc) /\ Cardinality(doc) \in Nat /\ Cardinality(doc) <= Window
    BY <1>1, FinitelyMany, ListedBound
  <1>3. IsFiniteSet(db.items) /\ Cardinality(db.items) \in Nat
    BY <1>1, FinitelyMany
  <1>4. Stored(s) = db.items \cup doc
    BY DEF Stored
  <1> HIDE DEF doc
  <1>5. /\ IsFiniteSet(Stored(s)) /\ Cardinality(Stored(s)) \in Nat
        /\ Cardinality(Stored(s)) = Cardinality(db.items) + Cardinality(doc)
                                        - Cardinality(db.items \cap doc)
    BY <1>2, <1>3, <1>4, FS_Union, FS_CardinalityType
  <1>6. Cardinality(db.items \cap doc) \in Nat
    <2>1. IsFiniteSet(db.items \cap doc)
      BY <1>3, FS_Intersection
    <2> QED BY <2>1, FS_CardinalityType
  <1>7. Cardinality(Stored(s)) <= Cardinality(db.items) + Window
    BY <1>2, <1>3, <1>5, <1>6, Numbers
  <1>8. db.items = {} => Stored(s) = doc
    BY <1>4
  <1> QED BY <1>1, <1>2, <1>3, <1>4, <1>5, <1>7, <1>8

\* A document whose rows are inserted keeps types and identities.
LEMMA InsertBase == ASSUME Base, NEW s \in Slots, InsertItems(s) PROVE Base'
  <1>1. CASE Missing(s)
    <2>1. fetch[s].pc = "got" /\ fetch' = [fetch EXCEPT ![s] = Idle] /\ Idling
      BY <1>1 DEF InsertItems, Idling, counters
    <2>2. pub' = pub /\ adds' = adds
      BY <2>1 DEF Idling, counters
    <2> QED BY <2>1, <2>2, IdleFetch, OnlyFetch
  <1>2. CASE ~Missing(s)
    <2> DEFINE f == HeldOf(s)
    <2>1. /\ fetch[s].pc = "got" /\ ~Locked
          /\ db' = [db EXCEPT !.items = Stored(s)] /\ fetch' = [fetch EXCEPT ![s] = f]
          /\ known' = IF known = {} THEN Stored(s) ELSE known
          /\ UNCHANGED <<up, mem, jobs, pub, sent, lost, adds, updates, crashes>>
      BY <1>2, InsertShape
    <2>2. /\ mem # NoFeed /\ db # NoRow /\ fetch[s].id = mem.id
          /\ fetch[s].newest \in 1..pub /\ fetch[s].newest \in Nat
          /\ pub \in Nat /\ 1..pub \subseteq Items /\ crashes \in Nat
      BY <1>2, <2>1, AtLock
    <2>3. /\ Stored(s) \subseteq 1..pub
          /\ Cardinality(db.items) \in Nat /\ Cardinality(Stored(s)) \in Nat
          /\ Cardinality(Stored(s)) <= Cardinality(db.items) + Window
          /\ db.items = {} => Cardinality(Stored(s)) <= Window
      BY <1>2, <2>1, StoredBound
    <2>4. fetch[s].id \in 1..adds /\ fetch[s].id \in Nat /\ fetch[s].newest \in Items
          /\ fetch[s].newest <= pub
      BY <2>1, <2>2, OfFetch, Numbers DEF Base, Kinds
    <2>5. f.pc = "held" /\ f.id = fetch[s].id /\ f.newest = fetch[s].newest /\ f \in Inserting
      BY <2>4 DEF HeldOf, Inserting
    <2>6. f \in Fetches
      BY <2>5 DEF Fetches
    <2> HIDE DEF f
    <2>7. fetch' \in [Slots -> Fetches] /\ FetchOK'
      BY <2>1, <2>4, <2>5, <2>6, FetchMoves
    <2>8. \A r \in Slots : fetch'[r] = IF r = s THEN f ELSE fetch[r]
      BY <2>1 DEF Base, Kinds
    <2>9. Locked' /\ LockOK'
      <3>1. \A r \in Slots : fetch'[r].pc = "held" <=> r = s
        BY <2>1, <2>5, <2>8 DEF Locked
      <3>2. fetch'[s].id = mem'.id /\ mem' # NoFeed
        BY <2>1, <2>2, <2>5, <2>8
      <3> QED BY <3>1, <3>2 DEF Locked, LockOK
    <2>10. db \in Rows /\ db.marked \subseteq db.items /\ db.id = adds
           /\ Cardinality(db.items) <= Longest + Unpruned
      BY <2>2, OfRow
    <2>11. db' \in Rows /\ db'.id = db.id /\ db'.set = db.set /\ db'.items = Stored(s)
           /\ db'.marked = db.marked
      BY <2>1, <2>2, <2>3, <2>10, RowStored
    <2>12. Kinds'
      BY <2>1, <2>2, <2>3, <2>7, <2>11 DEF Base, Kinds
    <2>13. ListOK'
      BY <2>1 DEF Base, ListOK
    <2>14. RowOK'
      <3>1. Longest \in Nat /\ Unpruned \in Nat /\ Unpruned' = Unpruned + Window
        BY <2>1, <2>2, <2>9, UnprunedIs DEF Unpruned
      <3>2. Cardinality(Stored(s)) <= Longest + Unpruned'
        BY <2>3, <2>10, <3>1, Numbers
      <3>3. db.items \subseteq Stored(s)
        BY DEF Stored
      <3> QED BY <2>1, <2>3, <2>10, <2>11, <3>2, <3>3 DEF RowOK
    <2>15. Ids'
      BY <2>1, <2>10, <2>11 DEF Base, Ids
    <2>16. db' # NoRow /\ up /\ db.set.auto = mem.set.auto /\ db.set.enabled = mem.set.enabled
           /\ (mem.items = <<>> => db.items = {}) /\ mem.id = adds
      BY <2>1, <2>2, <2>11, OfFeed, RowKind
    <2>17. Paired'
      BY <2>1, <2>2, <2>3, <2>9, <2>10, <2>11, <2>16 DEF Paired, RowsAgree
    <2> QED BY <2>7, <2>9, <2>12, <2>13, <2>14, <2>15, <2>17 DEF Base
  <1> QED BY <1>1, <1>2

\* The fetch goes on to write the row.
MetaOf(load) == [pc |-> "meta", id |-> mem.id, title |-> mem.set.title, load |-> load]

\* A fetch releases the lock with what is to be downloaded.
LEMMA ToMeta ==
  ASSUME Base, NEW s \in Slots, fetch[s].pc = "held", pub' = pub, adds' = adds, NEW load,
         load \subseteq 1..pub, fetch' = [fetch EXCEPT ![s] = MetaOf(load)]
  PROVE  fetch' \in [Slots -> Fetches] /\ FetchOK' /\ LockOK' /\ ~Locked'
  <1> DEFINE f == MetaOf(load)
  <1>0. mem # NoFeed
    BY DEF Base, LockOK
  <1>1. mem.id \in 1..adds /\ mem.id \in Nat /\ mem.set \in Settings
    BY <1>0, OfFeed, Numbers
  <1>2. mem.set.title \in {"first", "renamed"}
    BY <1>1 DEF Settings
  <1>3. load \subseteq Items
    BY Published DEF Base
  <1>4. f \in Storing /\ f.pc = "meta" /\ f.id = mem.id /\ f.load = load
    BY <1>1, <1>2, <1>3 DEF Storing, MetaOf
  <1>5. f \in Fetches
    BY <1>4 DEF Fetches
  <1>6. fetch' = [fetch EXCEPT ![s] = f]
    OBVIOUS
  <1> HIDE DEF f
  <1>7. fetch' \in [Slots -> Fetches] /\ FetchOK'
    BY <1>1, <1>4, <1>5, <1>6, FetchMoves
  <1>8. \A r \in Slots : fetch'[r] = IF r = s THEN f ELSE fetch[r]
    BY <1>6 DEF Base, Kinds
  <1>9. \A r \in Slots : fetch'[r].pc # "held"
    BY <1>4, <1>8 DEF Base, LockOK
  <1> QED BY <1>7, <1>9 DEF Locked, LockOK

\* Both ways of taking a document in.
LEMMA TakenBase ==
  ASSUME Base, NEW s \in Slots, fetch[s].pc = "held",
         fetch' \in [Slots -> Fetches], FetchOK', LockOK', ~Locked',
         UNCHANGED <<up, jobs, pub, sent, known, adds, updates, crashes>>,
         mem' \in Feeds, mem'.id = mem.id, mem'.set = mem.set,
         mem'.items = <<>> => db'.items = {},
         Held(mem'.items) \subseteq 1..pub, Distinct(mem'.items),
         Len(mem'.items) \in Nat, Len(mem'.items) <= Longest,
         mem'.bare \subseteq Held(mem'.items), mem'.marked \subseteq Held(mem'.items),
         db' \in Rows, db'.id = db.id, db'.set = db.set, db'.items \subseteq 1..pub,
         db'.marked \subseteq db'.items, Cardinality(db'.items) <= Longest,
         lost' \subseteq Items
  PROVE  Base'
  <1>0. mem # NoFeed /\ crashes \in Nat /\ pub \in Nat
    BY AtLock
  <1>1. mem # NoFeed /\ mem.id = adds /\ up /\ db # NoRow /\ db.set.auto = mem.set.auto
        /\ db.set.enabled = mem.set.enabled
    BY <1>0, OfFeed
  <1>2. mem' # NoFeed /\ db' # NoRow /\ db.id = adds
    BY <1>1, FeedKind, RowKind, OfRow
  <1>3. Kinds'
    BY DEF Base, Kinds
  <1>4. Cardinality(db'.items) \in Nat
    BY <1>0, FinitelyMany
  <1>5. ListOK'
    <2>1. Longest <= Longest + Window * crashes /\ Longest \in Nat /\ Window * crashes \in Nat
      BY <1>0, Leftover, Numbers
    <2>2. Len(mem'.items) <= Longest + Window * crashes'
      BY <2>1
    <2> QED BY <2>2 DEF ListOK
  <1>6. RowOK'
    <2>1. Longest \in Nat /\ Unpruned' \in Nat
      BY <1>0, UnprunedNext
    <2>2. Cardinality(db'.items) <= Longest + Unpruned'
      BY <1>4, <2>1
    <2> QED BY <2>2 DEF RowOK
  <1>7. Ids'
    BY <1>1, <1>2 DEF Ids
  <1>8. Paired'
    BY <1>1, <1>2 DEF Paired, RowsAgree
  <1> QED BY <1>3, <1>5, <1>6, <1>7, <1>8 DEF Base

\* What the first load of a subscription leaves.
LEMMA FirstLoadShape ==
  ASSUME Base, NEW s \in Slots, FirstLoad(s)
  PROVE  /\ fetch[s].pc = "held" /\ mem # NoFeed /\ mem.items = <<>>
         /\ fetch' = [fetch EXCEPT ![s] = MetaOf({})]
         /\ mem' \in Feeds /\ mem'.id = mem.id /\ mem'.set = mem.set
         /\ mem'.items \in Seq(Items)
         /\ Held(mem'.items) = db.items /\ Distinct(mem'.items)
         /\ Len(mem'.items) = Cardinality(db.items)
         /\ mem'.bare = {} /\ mem'.marked = db.marked
         /\ UNCHANGED <<up, db, jobs, pub, sent, known, lost, adds, updates, crashes>>
  <1>0. fetch[s].pc = "held" /\ mem.items = <<>>
        /\ mem' = [mem EXCEPT !.items = NewestFirst(db.items), !.bare = {}, !.marked = db.marked]
        /\ fetch' = [fetch EXCEPT ![s] = MetaOf({})]
        /\ UNCHANGED <<up, db, jobs, pub, sent, known, lost, adds, updates, crashes>>
    BY DEF FirstLoad, Release, MetaOf, counters
  <1>1. mem # NoFeed /\ db # NoRow /\ db.items \subseteq 1..pub /\ pub \in Nat /\ 1..pub \subseteq Items
    BY <1>0, AtLock
  <1>2. mem \in Feeds /\ db \in Rows /\ db.marked \subseteq db.items
    BY <1>1, OfFeed, OfRow
  <1>4. /\ NewestFirst(db.items) \in Seq(db.items)
        /\ Len(NewestFirst(db.items)) = Cardinality(db.items)
        /\ Distinct(NewestFirst(db.items)) /\ Held(NewestFirst(db.items)) = db.items
    BY <1>1, NewestFirstLists
  <1>5. NewestFirst(db.items) \in Seq(Items)
    BY <1>1, <1>4, SeqMonotonic
  <1>6. mem' \in Feeds /\ mem'.id = mem.id /\ mem'.set = mem.set
        /\ mem'.items = NewestFirst(db.items) /\ mem'.bare = {} /\ mem'.marked = db.marked
    <2>1. {} \in SUBSET Items /\ db.marked \in SUBSET Items
      BY <1>1, <1>2
    <2> QED BY <1>0, <1>2, <1>5, <2>1 DEF Feeds
  <1> QED BY <1>0, <1>1, <1>4, <1>5, <1>6

\* The first load keeps types and identities.
LEMMA FirstLoadBase == ASSUME Base, NEW s \in Slots, FirstLoad(s) PROVE Base'
  <1>1. /\ fetch[s].pc = "held" /\ mem # NoFeed /\ mem.items = <<>>
        /\ fetch' = [fetch EXCEPT ![s] = MetaOf({})]
        /\ mem' \in Feeds /\ mem'.id = mem.id /\ mem'.set = mem.set
        /\ mem'.items \in Seq(Items)
        /\ Held(mem'.items) = db.items /\ Distinct(mem'.items)
        /\ Len(mem'.items) = Cardinality(db.items)
        /\ mem'.bare = {} /\ mem'.marked = db.marked
        /\ UNCHANGED <<up, db, jobs, pub, sent, known, lost, adds, updates, crashes>>
    BY FirstLoadShape
  <1>2. db # NoRow /\ db.items \subseteq 1..pub /\ pub \in Nat
    BY <1>1, AtLock
  <1>3. db \in Rows /\ db.marked \subseteq db.items
    BY <1>2, OfRow
  <1>4. Cardinality(db.items) \in Nat /\ Cardinality(db.items) <= Longest
    <2>1. Locked
      BY <1>1 DEF Locked
    <2>2. Cardinality(db.items) <= Window
      BY <1>1, <2>1, OfFeed
    <2>3. Cardinality(db.items) \in Nat
      BY <1>2, FinitelyMany
    <2> QED BY <2>2, <2>3, Numbers
  <1>5. fetch' \in [Slots -> Fetches] /\ FetchOK' /\ LockOK' /\ ~Locked'
    <2>1. {} \subseteq 1..pub
      OBVIOUS
    <2> QED BY <1>1, <2>1, ToMeta
  <1>6. mem'.items = <<>> => db'.items = {}
    BY <1>1 DEF Held
  <1>7. lost' \subseteq Items
    BY <1>1 DEF Base, Kinds
  <1> QED BY <1>1, <1>2, <1>3, <1>4, <1>5, <1>6, <1>7, TakenBase

\* The list with the items that joined it, and what it keeps of them.
Joint(s) == mem.items \o NewestFirst(Fresh(s) \ Held(mem.items))
Wanted(s) == IF mem.set.auto THEN Fresh(s) ELSE {}

\* What a later load leaves.
LEMMA FindNewShape ==
  ASSUME Base, NEW s \in Slots, FindNew(s)
  PROVE  /\ fetch[s].pc = "held" /\ mem # NoFeed /\ mem.items # <<>>
         /\ fetch' = [fetch EXCEPT ![s] = MetaOf(Wanted(s))]
         /\ Fresh(s) \subseteq 1..pub /\ Wanted(s) \subseteq Fresh(s)
         /\ mem' \in Feeds /\ mem'.id = mem.id /\ mem'.set = mem.set
         /\ mem'.items \in Seq(Items) /\ mem'.items # <<>>
         /\ Held(mem'.items) \subseteq Held(mem.items) \cup Fresh(s)
         /\ Distinct(mem'.items) /\ Len(mem'.items) <= Longest
         /\ mem'.bare \subseteq Held(mem'.items) /\ mem'.marked \subseteq Held(mem'.items)
         /\ lost' = lost \cup {i \in (Held(mem.items) \cup Fresh(s)) \ Held(mem'.items) : Returns(i)}
         /\ lost' \subseteq Items
         /\ db' \in Rows /\ db'.id = db.id /\ db'.set = db.set
         /\ db'.items \subseteq db.items /\ db'.marked \subseteq db'.items
         /\ Cardinality(db'.items) <= Longest
         /\ UNCHANGED <<up, jobs, pub, sent, known, adds, updates, crashes>>
  <1>0. PICK n \in Limits :
          LET listed == mem.items \o NewestFirst(Fresh(s) \ Held(mem.items))
              kept == PruneMemory(listed, n)
              rows == PruneItems(db.items, n)
          IN /\ mem' = [mem EXCEPT !.items = kept, !.marked = mem.marked \cap Held(kept),
                            !.bare = (mem.bare \cup (Fresh(s) \cap NoGuid)) \cap Held(kept)]
             /\ db' = [db EXCEPT !.items = rows, !.marked = db.marked \cap rows]
             /\ lost' = lost \cup {i \in Held(listed) \ Held(kept) : Returns(i)}
    BY DEF FindNew
  <1>00. /\ fetch[s].pc = "held" /\ mem.items # <<>>
         /\ fetch' = [fetch EXCEPT ![s] = MetaOf(Wanted(s))]
         /\ UNCHANGED <<up, jobs, pub, sent, known, adds, updates, crashes>>
    BY DEF FindNew, Release, MetaOf, Wanted, counters
  <1> DEFINE kept == PruneMemory(Joint(s), n)
             bare == (mem.bare \cup (Fresh(s) \cap NoGuid)) \cap Held(kept)
             marked == mem.marked \cap Held(kept)
             rows == PruneItems(db.items, n)
  <1>1. mem # NoFeed /\ db # NoRow /\ db.items \subseteq 1..pub /\ pub \in Nat /\ 1..pub \subseteq Items
        /\ Listed(fetch[s].newest) \subseteq 1..pub
    BY <1>00, AtLock
  <1>2. mem \in Feeds /\ db \in Rows /\ mem.items \in Seq(Items) /\ Distinct(mem.items)
        /\ mem.bare \subseteq Items /\ mem.marked \subseteq Items
        /\ Held(mem.items) \subseteq 1..pub
    BY <1>1, OfFeed, OfRow, FeedKind
  <1>3. Fresh(s) \subseteq 1..pub /\ Fresh(s) \ Held(mem.items) = Fresh(s) /\ Wanted(s) \subseteq Fresh(s)
    BY <1>1 DEF Fresh, Wanted
  <1>4. /\ NewestFirst(Fresh(s)) \in Seq(Fresh(s)) /\ Distinct(NewestFirst(Fresh(s)))
        /\ Held(NewestFirst(Fresh(s))) = Fresh(s)
    BY <1>1, <1>3, NewestFirstLists
  <1>5. NewestFirst(Fresh(s)) \in Seq(Items)
    BY <1>1, <1>3, <1>4, SeqMonotonic
  <1>6. Joint(s) \in Seq(Items) /\ Distinct(Joint(s)) /\ Joint(s) # <<>>
        /\ Held(Joint(s)) = Held(mem.items) \cup Fresh(s)
    <2>1. Joint(s) = mem.items \o NewestFirst(Fresh(s))
      BY <1>3 DEF Joint
    <2>2. Held(mem.items) \cap Held(NewestFirst(Fresh(s))) = {}
      BY <1>4 DEF Fresh
    <2> QED BY <1>00, <1>2, <1>4, <1>5, <2>1, <2>2, Joined
  <1>7. kept \in Seq(Items) /\ Distinct(kept) /\ Len(kept) <= n /\ kept # <<>>
        /\ Held(kept) \subseteq Held(Joint(s))
    BY <1>6, PruneMemoryKeeps
  <1>8. mem' = [mem EXCEPT !.items = kept, !.bare = bare, !.marked = marked]
        /\ db' = [db EXCEPT !.items = rows, !.marked = db.marked \cap rows]
        /\ lost' = lost \cup {i \in Held(Joint(s)) \ Held(kept) : Returns(i)}
    BY <1>0 DEF Joint
  <1>9. bare \subseteq Items /\ marked \subseteq Items /\ bare \subseteq Held(kept)
        /\ marked \subseteq Held(kept)
    BY <1>1, <1>2, <1>3
  <1>11. rows \subseteq db.items /\ Cardinality(rows) <= n
    BY <1>1, PruneItemsBound
  <1> HIDE DEF kept, bare, marked, rows
  <1>10. mem' \in Feeds /\ mem'.id = mem.id /\ mem'.set = mem.set
         /\ mem'.items = kept /\ mem'.bare = bare /\ mem'.marked = marked
    <2>1. bare \in SUBSET Items /\ marked \in SUBSET Items
      BY <1>9
    <2> QED BY <1>2, <1>7, <1>8, <2>1 DEF Feeds
  <1>12. db' \in Rows /\ db'.id = db.id /\ db'.set = db.set
         /\ db'.items = rows /\ db'.marked = db.marked \cap rows
    <2>1. rows \in SUBSET Items /\ db.marked \cap rows \in SUBSET Items
      BY <1>1, <1>11
    <2> QED BY <1>2, <1>8, <2>1 DEF Rows
  <1>13. lost' \subseteq Items
    BY <1>1, <1>2, <1>3, <1>6, <1>8 DEF Base, Kinds
  <1>14. Len(kept) <= Longest /\ Cardinality(rows) <= Longest
    <2>1. Len(kept) \in Nat /\ Cardinality(rows) \in Nat
      BY <1>1, <1>7, <1>11, FinitelyMany
    <2>2. n \in Nat /\ n <= Longest /\ Longest \in Nat
      BY Numbers
    <2> QED BY <1>7, <1>11, <2>1, <2>2
  <1> QED BY <1>00, <1>1, <1>3, <1>6, <1>7, <1>8, <1>9, <1>10, <1>11, <1>12, <1>13, <1>14

\* A later load keeps types and identities.
LEMMA FindNewBase == ASSUME Base, NEW s \in Slots, FindNew(s) PROVE Base'
  <1>1. /\ fetch[s].pc = "held" /\ mem # NoFeed /\ mem.items # <<>>
        /\ fetch' = [fetch EXCEPT ![s] = MetaOf(Wanted(s))]
        /\ Fresh(s) \subseteq 1..pub /\ Wanted(s) \subseteq Fresh(s)
        /\ mem' \in Feeds /\ mem'.id = mem.id /\ mem'.set = mem.set
        /\ mem'.items \in Seq(Items) /\ mem'.items # <<>>
        /\ Held(mem'.items) \subseteq Held(mem.items) \cup Fresh(s)
        /\ Distinct(mem'.items) /\ Len(mem'.items) <= Longest
        /\ mem'.bare \subseteq Held(mem'.items) /\ mem'.marked \subseteq Held(mem'.items)
        /\ lost' \subseteq Items
        /\ db' \in Rows /\ db'.id = db.id /\ db'.set = db.set
        /\ db'.items \subseteq db.items /\ db'.marked \subseteq db'.items
        /\ Cardinality(db'.items) <= Longest
        /\ UNCHANGED <<up, jobs, pub, sent, known, adds, updates, crashes>>
    BY FindNewShape
  <1>2. db.items \subseteq 1..pub /\ Held(mem.items) \subseteq 1..pub
    BY <1>1, AtLock, OfFeed
  <1>3. fetch' \in [Slots -> Fetches] /\ FetchOK' /\ LockOK' /\ ~Locked'
    <2>1. Wanted(s) \subseteq 1..pub
      BY <1>1
    <2> QED BY <1>1, <2>1, ToMeta
  <1>4. Len(mem'.items) \in Nat
    BY <1>1
  <1>5. Held(mem'.items) \subseteq 1..pub /\ db'.items \subseteq 1..pub
    BY <1>1, <1>2
  <1> QED BY <1>1, <1>3, <1>4, <1>5, TakenBase

\* A fetch that stores its metadata keeps types and identities.
LEMMA MetaBase == ASSUME Base, NEW s \in Slots, Meta(s) PROVE Base'
  <1> DEFINE f == [fetch[s] EXCEPT !.pc = "tell"]
  <1>1. fetch[s].pc = "meta" /\ UNCHANGED <<up, mem, jobs, pub, sent, known, lost, adds, updates,
                                            crashes>>
    BY DEF Meta, counters
  <1>2. /\ fetch[s] \in Storing /\ fetch[s].id \in 1..adds /\ fetch[s].load \subseteq 1..pub
        /\ fetch[s].title \in {"first", "renamed"}
    BY <1>1, OfFetch, FetchKinds
  <1>3. f \in Storing /\ f.pc = "tell" /\ f.id = fetch[s].id /\ f.load = fetch[s].load
    BY <1>2 DEF Storing
  <1>4. f \in Fetches
    BY <1>3 DEF Fetches
  <1>5. fetch' = [fetch EXCEPT ![s] = f]
    BY DEF Meta
  <1> HIDE DEF f
  <1>6. fetch' \in [Slots -> Fetches] /\ FetchOK'
    BY <1>1, <1>2, <1>3, <1>4, <1>5, FetchMoves
  <1>9. LockOK' /\ (Locked' <=> Locked)
    BY <1>1, <1>3, <1>5, LockStays
  <1>10. Unpruned' = Unpruned
    BY <1>1, <1>9, UnprunedSame
  <1>7. CASE db.id # fetch[s].id
    <2>1. db' = db
      BY <1>7 DEF Meta
    <2> QED BY <1>1, <1>3, <1>5, <1>6, <2>1, OnlyFetch DEF Idling, counters
  <1>8. CASE db.id = fetch[s].id
    <2>1. db.id \in 1..adds /\ adds \in Nat
      BY <1>2, <1>8, Numbers DEF Base, Kinds
    <2>2. db # NoRow
      BY <2>1 DEF NoRow
    <2>3. db' = [db EXCEPT !.set.title = fetch[s].title]
      BY <1>8 DEF Meta
    <2>4. db' \in Rows /\ db'.id = db.id /\ db'.items = db.items /\ db'.marked = db.marked
          /\ db'.set.auto = db.set.auto /\ db'.set.enabled = db.set.enabled
      BY <1>2, <2>2, <2>3, OfRow, RowTitled
    <2>5. db' # NoRow
      BY <2>4, RowKind
    <2>6. Kinds'
      BY <1>1, <1>6, <2>4 DEF Base, Kinds
    <2>7. ListOK' /\ RowOK' /\ Ids'
      BY <1>1, <1>10, <2>2, <2>4 DEF Base, ListOK, RowOK, Ids
    <2>8. Paired'
      BY <1>1, <1>9, <2>2, <2>4, <2>5 DEF Base, Paired, RowsAgree
    <2> QED BY <1>6, <1>9, <2>6, <2>7, <2>8 DEF Base
  <1> QED BY <1>7, <1>8

\* A fetch that hands its downloads over keeps types and identities.
LEMMA TellBase == ASSUME Base, NEW s \in Slots, Tell(s) PROVE Base'
  <1>1. fetch[s].pc = "tell" /\ UNCHANGED <<up, mem, db, pub, known, lost, adds, updates, crashes>>
    BY DEF Tell, counters
  <1>2. fetch' = [fetch EXCEPT ![s] = Idle]
    BY DEF Tell
  <1>3. fetch' \in [Slots -> Fetches] /\ FetchOK' /\ Idle.pc # "held"
    BY <1>1, <1>2, IdleFetch
  <1>4. fetch[s].id \in 1..adds /\ fetch[s].load \subseteq 1..pub
    BY <1>1, OfFetch
  <1>5. \A i \in fetch[s].load : [id |-> fetch[s].id, item |-> i, bare |-> i \in NoGuid]
                                   \in [id : 1..adds, item : 1..pub, bare : BOOLEAN]
    BY <1>4
  <1>6. jobs' \subseteq [id : 1..adds, item : 1..pub, bare : BOOLEAN]
    BY <1>5 DEF Tell, Base, Kinds
  <1>7. sent' \in [Items -> 0..2]
    <2>1. \A i \in Items : sent[i] \in 0..2
      BY DEF Base, Kinds
    <2> QED BY <2>1 DEF Tell
  <1>8. Kinds'
    BY <1>1, <1>3, <1>6, <1>7 DEF Base, Kinds
  <1>9. LockOK' /\ (Locked' <=> Locked)
    BY <1>1, <1>2, <1>3, LockStays
  <1>10. Unpruned' = Unpruned
    BY <1>1, <1>9, UnprunedSame
  <1>11. ListOK' /\ RowOK' /\ Ids'
    BY <1>1, <1>10 DEF Base, ListOK, RowOK, Ids
  <1>12. Paired'
    BY <1>1, <1>9 DEF Base, Paired, RowsAgree
  <1> QED BY <1>3, <1>8, <1>9, <1>11, <1>12 DEF Base

\* Marking an item changes neither the list nor the rows.
LEMMA MarkShape ==
  ASSUME Base, NEW j \in jobs, MarkItemAsDownloaded(j)
  PROVE  /\ mem = NoFeed <=> mem' = NoFeed
         /\ mem # NoFeed => /\ mem' \in Feeds /\ mem'.id = mem.id /\ mem'.set = mem.set
                            /\ mem'.items = mem.items /\ mem'.bare = mem.bare
                            /\ mem'.marked \subseteq Held(mem.items)
         /\ db = NoRow <=> db' = NoRow
         /\ db # NoRow => /\ db' \in Rows /\ db'.id = db.id /\ db'.set = db.set
                          /\ db'.items = db.items /\ db'.marked \subseteq db.items
  <1> DEFINE hit == IF mem = NoFeed \/ mem.id # j.id THEN {}
                    ELSE IF j.bare THEN FirstBare
                    ELSE {j.item} \cap (Held(mem.items) \ mem.bare)
  <1>1. mem' = (IF hit = {} THEN mem ELSE [mem EXCEPT !.marked = mem.marked \cup hit])
    BY DEF MarkItemAsDownloaded
  <1>2. db' = IF db.id # j.id \/ j.bare THEN db
              ELSE [db EXCEPT !.marked = db.marked \cup ({j.item} \cap db.items)]
    BY DEF MarkItemAsDownloaded
  <1>3. FirstBare \subseteq Held(mem.items)
    BY DEF FirstBare, Held
  <1>4. hit \subseteq Held(mem.items) /\ (mem = NoFeed => hit = {})
    BY <1>3
  <1> HIDE DEF hit
  <1>5. ASSUME mem = NoFeed PROVE mem' = NoFeed
    BY <1>1, <1>4, <1>5
  <1>6. ASSUME mem # NoFeed
        PROVE  /\ mem' # NoFeed
               /\ mem' \in Feeds /\ mem'.id = mem.id /\ mem'.set = mem.set
               /\ mem'.items = mem.items /\ mem'.bare = mem.bare
               /\ mem'.marked \subseteq Held(mem.items)
    <2>1. mem \in Feeds /\ mem.marked \subseteq Held(mem.items) /\ Held(mem.items) \subseteq 1..pub
          /\ 1..pub \subseteq Items
      BY <1>6, OfFeed, Published DEF Base
    <2>2. CASE hit = {}
      BY <1>1, <1>6, <2>1, <2>2
    <2>3. CASE hit # {}
      <3>1. mem.marked \cup hit \in SUBSET Items /\ mem.marked \cup hit \subseteq Held(mem.items)
        BY <1>4, <2>1
      <3>2. mem' = [mem EXCEPT !.marked = mem.marked \cup hit]
        BY <1>1, <2>3
      <3> QED BY <2>1, <3>1, <3>2, FeedMarked, FeedKind
    <2> QED BY <2>2, <2>3
  <1>7. ASSUME db # NoRow
        PROVE  /\ db' # NoRow
               /\ db' \in Rows /\ db'.id = db.id /\ db'.set = db.set
               /\ db'.items = db.items /\ db'.marked \subseteq db.items
    <2>1. db \in Rows /\ db.marked \subseteq db.items /\ db.items \subseteq Items
      BY <1>7, OfRow, RowKind
    <2>2. CASE db.id # j.id \/ j.bare
      BY <1>2, <1>7, <2>1, <2>2
    <2>3. CASE ~(db.id # j.id \/ j.bare)
      <3>1. db.marked \cup ({j.item} \cap db.items) \in SUBSET Items
            /\ db.marked \cup ({j.item} \cap db.items) \subseteq db.items
        BY <2>1
      <3>2. db' = [db EXCEPT !.marked = db.marked \cup ({j.item} \cap db.items)]
        BY <1>2, <2>3
      <3> QED BY <2>1, <3>1, <3>2, RowMarked, RowKind
    <2> QED BY <2>2, <2>3
  <1>8. ASSUME db = NoRow PROVE db' = NoRow
    <2>1. j.id \in 1..adds /\ adds \in Nat
      BY Numbers DEF Base, Kinds
    <2>2. db.id # j.id
      BY <1>8, <2>1 DEF NoRow
    <2> QED BY <1>2, <1>8, <2>2
  <1> QED BY <1>5, <1>6, <1>7, <1>8

\* An item marked as downloaded keeps types and identities.
LEMMA DownloadedBase == ASSUME Base, NEW j \in jobs, Downloaded(j) PROVE Base'
  <1>1. UNCHANGED <<up, fetch, pub, sent, known, lost, adds, updates, crashes>>
        /\ jobs' = jobs \ {j} /\ MarkItemAsDownloaded(j) /\ ~Locked
    BY DEF Downloaded, counters
  <1>2. /\ mem = NoFeed <=> mem' = NoFeed
        /\ mem # NoFeed => /\ mem' \in Feeds /\ mem'.id = mem.id /\ mem'.set = mem.set
                           /\ mem'.items = mem.items /\ mem'.bare = mem.bare
                           /\ mem'.marked \subseteq Held(mem.items)
        /\ db = NoRow <=> db' = NoRow
        /\ db # NoRow => /\ db' \in Rows /\ db'.id = db.id /\ db'.set = db.set
                         /\ db'.items = db.items /\ db'.marked \subseteq db.items
    BY <1>1, MarkShape
  <1>3. Kinds'
    BY <1>1, <1>2 DEF Base, Kinds
  <1>4. FetchOK'
    BY <1>1 DEF Base, FetchOK
  <1>8. LockOK' /\ (Locked' <=> Locked)
    BY <1>1, LockSame
  <1>9. Unpruned' = Unpruned
    BY <1>1, <1>8, UnprunedSame
  <1>5. ListOK'
    BY <1>1, <1>2, Zenon DEF Base, ListOK
  <1>6. RowOK' /\ Ids'
    BY <1>1, <1>2, <1>9, Zenon DEF Base, RowOK, Ids
  <1>7. Paired'
    BY <1>1, <1>2, <1>8, Zenon DEF Base, Paired, RowsAgree
  <1> QED BY <1>3, <1>4, <1>5, <1>6, <1>7, <1>8 DEF Base

\* A download that is rejected keeps types and identities.
LEMMA RejectedBase == ASSUME Base, NEW j \in jobs, Rejected(j) PROVE Base'
  <1>1. LockOK' /\ (Locked' <=> Locked)
    BY LockSame DEF Rejected
  <1>2. Unpruned' = Unpruned
    BY <1>1, UnprunedSame DEF Rejected, counters
  <1>3. Kinds' /\ ListOK' /\ RowOK' /\ FetchOK' /\ Ids'
    BY <1>2 DEF Base, Rejected, counters, Kinds, ListOK, RowOK, FetchOK, Ids
  <1>4. Paired'
    BY <1>1 DEF Base, Rejected, Paired, RowsAgree
  <1> QED BY <1>1, <1>3, <1>4 DEF Base

\* An item published keeps types and identities.
LEMMA PublishBase == ASSUME Base, Publish PROVE Base'
  <1>1. UNCHANGED <<up, mem, db, fetch, jobs, sent, known, lost, adds, updates, crashes>>
        /\ pub' = pub + 1 /\ pub < MaxItems
    BY DEF Publish, counters
  <1>2. pub \in Nat /\ pub >= 1 /\ pub' \in Items /\ 1..pub \subseteq 1..pub'
    BY <1>1, Published, Numbers DEF Base, Kinds, Items
  <1>3. Kinds'
    BY <1>1, <1>2 DEF Base, Kinds
  <1>4. LockOK' /\ (Locked' <=> Locked)
    BY <1>1, LockSame
  <1>5. Unpruned' = Unpruned
    BY <1>1, <1>4, UnprunedSame
  <1>6. ListOK' /\ RowOK'
    BY <1>1, <1>2, <1>5 DEF Base, ListOK, RowOK
  <1>7. FetchOK'
    <2>1. ASSUME NEW s \in Slots, fetch[s].pc \in {"got", "held"}
          PROVE  fetch[s].newest <= pub'
      <3>1. fetch[s].newest \in 1..pub
        BY <2>1, OfFetch
      <3> QED BY <1>1, <1>2, <3>1
    <2> QED BY <1>1, <1>2, <2>1 DEF Base, FetchOK
  <1>8. Ids' /\ Paired'
    BY <1>1, <1>4 DEF Base, Ids, Paired, RowsAgree
  <1> QED BY <1>3, <1>4, <1>6, <1>7, <1>8 DEF Base

\* A crash keeps types and identities.
LEMMA CrashBase == ASSUME Base, Crash PROVE Base'
  <1>1. UNCHANGED <<db, pub, sent, known, adds, updates>> /\ up' = FALSE /\ mem' = NoFeed
        /\ jobs' = {} /\ fetch' = [s \in Slots |-> Idle] /\ crashes' \in 0..MaxCrashes
        /\ crashes' = crashes + 1 /\ crashes \in Nat /\ crashes' \in Nat
    BY Numbers DEF Crash, Base, Kinds
  <1>2. Idle \in Fetches /\ Idle.pc = "idle"
    BY DEF Idle, Fetches
  <1>3. fetch' \in [Slots -> Fetches] /\ FetchOK' /\ LockOK' /\ ~Locked'
    BY <1>1, <1>2 DEF FetchOK, LockOK, Locked
  <1>4. lost' \subseteq Items
    <2>1. mem # NoFeed => Held(mem.items) \subseteq Items
      BY OfFeed, Published DEF Base
    <2> QED BY <2>1 DEF Crash, Base, Kinds
  <1>5. Kinds'
    BY <1>1, <1>3, <1>4 DEF Base, Kinds
  <1>6. ListOK' /\ Ids' /\ Paired'
    BY <1>1 DEF Base, ListOK, Ids, Paired, RowsAgree
  <1>7. RowOK'
    <2>0. SUFFICES ASSUME db # NoRow PROVE RowOK'
      BY <1>1 DEF RowOK
    <2>1. Unpruned = IF Locked THEN Window * crashes + Window ELSE Window * crashes
      BY <1>1, UnprunedIs
    <2>2. Unpruned' = Window * crashes'
      BY <1>1, <1>3, UnprunedIs, Leftover DEF Unpruned
    <2>3. Window * crashes' = Window * crashes + Window /\ Window * crashes \in Nat
      BY <1>1, Leftover
    <2>4. /\ db.items \subseteq 1..pub /\ db.marked \subseteq db.items
          /\ Cardinality(db.items) <= Longest + Unpruned
          /\ Cardinality(db.items) \in Nat /\ Longest \in Nat
      BY <2>0, OfRow, FinitelyMany, Published, Numbers DEF Base
    <2> DEFINE w == Window * crashes
    <2>5. w \in Nat /\ Unpruned' = w + Window /\ Unpruned = IF Locked THEN w + Window ELSE w
      BY <2>1, <2>2, <2>3
    <2> HIDE DEF w
    <2>6. Cardinality(db.items) <= Longest + Unpruned'
      BY <2>4, <2>5, Numbers
    <2> QED BY <1>1, <2>4, <2>6 DEF RowOK
  <1> QED BY <1>3, <1>5, <1>6, <1>7 DEF Base

\* The list of a program that starts is that of the rows.
LEMMA LoadedShape ==
  ASSUME Base, Initialize, db # NoRow
  PROVE  /\ mem' \in Feeds /\ mem'.id = db.id /\ mem'.set = db.set
         /\ Held(mem'.items) = db.items /\ Distinct(mem'.items)
         /\ Len(mem'.items) = Cardinality(db.items)
         /\ mem'.bare = {} /\ mem'.marked = db.marked
  <1>1. db \in Rows /\ db.items \subseteq 1..pub /\ db.marked \subseteq db.items
        /\ db.id \in Nat \ {0} /\ db.set \in Settings
    BY OfRow, RowKind
  <1>2. pub \in Nat /\ 1..pub \subseteq Items
    BY Published DEF Base
  <1>3. /\ NewestFirst(db.items) \in Seq(db.items) /\ Distinct(NewestFirst(db.items))
        /\ Len(NewestFirst(db.items)) = Cardinality(db.items)
        /\ Held(NewestFirst(db.items)) = db.items
    BY <1>1, <1>2, NewestFirstLists
  <1>4. NewestFirst(db.items) \in Seq(Items)
    BY <1>1, <1>2, <1>3, SeqMonotonic
  <1>5. mem' = [id |-> db.id, set |-> db.set, items |-> NewestFirst(db.items),
                bare |-> {}, marked |-> db.marked]
    BY DEF Initialize
  <1>6. mem' \in Feeds /\ mem'.id = db.id /\ mem'.set = db.set
        /\ mem'.items = NewestFirst(db.items) /\ mem'.bare = {} /\ mem'.marked = db.marked
    BY <1>1, <1>2, <1>4, <1>5 DEF Feeds
  <1> QED BY <1>3, <1>6

\* A restart keeps types and identities.
LEMMA InitializeBase == ASSUME Base, Initialize PROVE Base'
  <1>1. UNCHANGED <<db, fetch, jobs, pub, sent, known, lost, adds, updates, crashes>> /\ up' = TRUE
    BY DEF Initialize, counters
  <1>2. FetchOK'
    BY <1>1 DEF Base, FetchOK
  <1>6. ~Locked /\ crashes \in Nat
    BY Numbers DEF Initialize, Base, Kinds, Paired, Locked, LockOK
  <1>7. LockOK' /\ ~Locked'
    BY <1>1, <1>6, LockSame
  <1>8. Unpruned' = Unpruned /\ Unpruned = Window * crashes
    BY <1>1, <1>6, <1>7, UnprunedIs, UnprunedSame
  <1>3. RowOK'
    BY <1>1, <1>8 DEF Base, RowOK
  <1>4. CASE db = NoRow
    <2>1. mem' = NoFeed
      BY <1>4 DEF Initialize
    <2>2. Kinds'
      BY <1>1, <2>1 DEF Base, Kinds
    <2>3. ListOK' /\ Ids' /\ Paired'
      BY <1>1, <1>4, <2>1 DEF Base, ListOK, Ids, Paired, RowsAgree
    <2> QED BY <1>2, <1>3, <1>7, <2>2, <2>3 DEF Base
  <1>5. CASE db # NoRow
    <2>1. /\ mem' \in Feeds /\ mem'.id = db.id /\ mem'.set = db.set
          /\ Held(mem'.items) = db.items /\ Distinct(mem'.items)
          /\ Len(mem'.items) = Cardinality(db.items)
          /\ mem'.bare = {} /\ mem'.marked = db.marked
      BY <1>5, LoadedShape
    <2>2. mem' # NoFeed
      BY <2>1, FeedKind
    <2>3. db.id = adds /\ db.items \subseteq 1..pub /\ db.marked \subseteq db.items
          /\ Cardinality(db.items) <= Longest + Window * crashes
      BY <1>5, <1>8, OfRow
    <2>4. Kinds'
      BY <1>1, <2>1 DEF Base, Kinds
    <2>5. ListOK' /\ Ids'
      BY <1>1, <2>1, <2>3 DEF ListOK, Ids
    <2>6. mem'.items = <<>> => db'.items = {}
      <3>1. Held(<<>>) = {}
        BY DEF Held
      <3> QED BY <1>1, <2>1, <3>1
    <2>7. Paired'
      BY <1>1, <1>5, <1>7, <2>1, <2>2, <2>6 DEF Paired, RowsAgree
    <2> QED BY <1>2, <1>3, <1>7, <2>4, <2>5, <2>7 DEF Base
  <1> QED BY <1>4, <1>5

\* The types and identities hold at the start.
LEMMA BaseInit == ASSUME Init PROVE Base
  <1>1. Idle \in Fetches /\ Idle.pc = "idle"
    BY DEF Idle, Fetches
  <1>2. 1 \in Items /\ 0 \in 0..MaxAdds /\ 0 \in 0..MaxUpdates /\ 0 \in 0..MaxCrashes
    BY Numbers DEF Items
  <1>3. Kinds
    BY <1>1, <1>2 DEF Init, Kinds
  <1>4. FetchOK /\ LockOK
    BY <1>1 DEF Init, FetchOK, LockOK
  <1> QED BY <1>3, <1>4 DEF Init, Base, ListOK, RowOK, Ids, Paired, RowsAgree, NoFeed, NoRow

\* Every step keeps the types and identities.
LEMMA BaseNext == ASSUME Base, [Next]_vars PROVE Base'
  <1>1. CASE \E s \in Slots : \/ AddSubscription(s) \/ Answer(s) \/ Fail(s)
                              \/ InsertItems(s) \/ FirstLoad(s) \/ FindNew(s) \/ Meta(s) \/ Tell(s)
    BY <1>1, AddBase, AnswerBase, FailBase, InsertBase, FirstLoadBase, FindNewBase, MetaBase, TellBase
  <1>2. CASE RemoveSubscription \/ UpdateSubscription
    BY <1>2, RemoveBase, UpdateBase
  <1>3. CASE LoopFetch \/ Refresh
    BY <1>3, StartBase DEF LoopFetch, Refresh
  <1>4. CASE \E j \in jobs : Downloaded(j) \/ Rejected(j)
    BY <1>4, DownloadedBase, RejectedBase
  <1>5. CASE Publish \/ Crash \/ Initialize
    BY <1>5, PublishBase, CrashBase, InitializeBase
  <1>6. CASE UNCHANGED vars
    <2>1. LockOK' /\ (Locked' <=> Locked)
      BY <1>6, LockSame DEF vars
    <2>2. Unpruned' = Unpruned
      BY <1>6, <2>1, UnprunedSame DEF vars, counters
    <2>3. Kinds' /\ ListOK' /\ RowOK' /\ FetchOK' /\ Ids'
      BY <1>6, <2>2 DEF vars, counters, Base, Kinds, ListOK, RowOK, FetchOK, Ids
    <2>4. Paired'
      BY <1>6, <2>1 DEF vars, Base, Paired, RowsAgree
    <2> QED BY <2>1, <2>3, <2>4 DEF Base
  <1> QED BY <1>1, <1>2, <1>3, <1>4, <1>5, <1>6 DEF Next

\* The types, the bounds and the agreement of rows and memory hold in every
\* reachable state.
THEOREM FeedsInvariant == Spec => []Base
  <1>1. Base /\ [Next]_vars => Base'
    BY BaseNext
  <1> QED BY BaseInit, <1>1, PTL DEF Spec

\* Every variable keeps to its values: no item is twice in the list, and the list and
\* the rows stay within the limit or the length of the document and a document for each
\* exit, for any limits, documents and overlapping fetches.
THEOREM FeedsTyped == Spec => []TypeOK
  <1>1. ASSUME Base PROVE TypeOK
    <2>1. mem # NoFeed => /\ mem.id \in 1..adds /\ mem.set \in Settings
                          /\ mem.items \in Seq(1..pub)
                          /\ \A a, b \in DOMAIN mem.items : mem.items[a] = mem.items[b] => a = b
                          /\ Len(mem.items) <= Longest + Window * crashes
                          /\ mem.bare \subseteq Held(mem.items)
                          /\ mem.marked \subseteq Held(mem.items)
      <3> HAVE mem # NoFeed
      <3>1. mem.items \in Seq(Items) /\ Held(mem.items) \subseteq 1..pub
        BY <1>1, OfFeed
      <3>2. mem.items \in Seq(1..pub)
        <4>1. Len(mem.items) \in Nat /\ DOMAIN mem.items = 1..Len(mem.items)
              /\ mem.items = [k \in 1..Len(mem.items) |-> mem.items[k]]
          BY <3>1
        <4>2. \A k \in 1..Len(mem.items) : mem.items[k] \in 1..pub
          BY <3>1, <4>1 DEF Held
        <4>3. mem.items \in [1..Len(mem.items) -> 1..pub]
          BY <4>1, <4>2
        <4> QED BY <4>1, <4>3, SeqDef
      <3>3. mem.id = adds /\ adds \in 1..MaxAdds
        BY <1>1, OfFeed
      <3> QED BY <1>1, <3>2, <3>3, OfFeed, Numbers DEF Distinct
    <2>2. db # NoRow => /\ db.id \in 1..adds /\ db.set \in Settings
                        /\ db.items \subseteq 1..pub /\ db.marked \subseteq db.items
                        /\ Cardinality(db.items) <= Longest + Unpruned
      <3> HAVE db # NoRow
      <3>1. db.id = adds /\ adds \in 1..MaxAdds
        BY <1>1, OfRow
      <3> QED BY <1>1, <3>1, OfRow, Numbers
    <2>3. ASSUME NEW s \in Slots
          PROVE  \/ fetch[s] = Idle
                 \/ fetch[s].pc = "net" /\ fetch[s].id \in 1..adds
                 \/ fetch[s].pc = "got" /\ fetch[s].id \in 1..adds /\ fetch[s].newest \in 1..pub
                 \/ /\ fetch[s].pc = "held" /\ mem # NoFeed /\ fetch[s].id = mem.id
                    /\ fetch[s].newest \in 1..pub /\ fetch[s].inserted \in BOOLEAN
                    /\ \A r \in Slots \ {s} : fetch[r].pc # "held"
                 \/ /\ fetch[s].pc \in {"meta", "tell"} /\ fetch[s].id \in 1..adds
                    /\ fetch[s].load \subseteq 1..pub
      <3>1. fetch[s].pc = "held" => /\ mem # NoFeed /\ fetch[s].id = mem.id
                                    /\ \A r \in Slots \ {s} : fetch[r].pc # "held"
        BY <1>1 DEF Base, LockOK
      <3> QED BY <1>1, <2>3, <3>1, OfFetch, FetchKinds
    <2>4. known \cup lost \subseteq Items
      BY <1>1 DEF Base, Kinds
    <2> QED BY <1>1, <2>1, <2>2, <2>3, <2>4 DEF TypeOK, Base, Kinds
  <1> QED BY FeedsInvariant, <1>1, PTL

\* The rows tell of the feed in memory and of no other, whatever fetches are under way
\* when a subscription is made, changed or removed, and whenever the program ends.
THEOREM RowsAgreeHolds == Spec => []RowsAgree
  <1>1. Base => RowsAgree
    BY DEF Base, Paired
  <1> QED BY FeedsInvariant, <1>1, PTL

-----------------------------------------------------------------------------
(* What is downloaded, and what of the rows is shown.                        *)

\* The item i is about to be downloaded for the last subscription.
Loading(s, i) ==
    fetch[s].pc \in {"meta", "tell"} /\ fetch[s].id = adds /\ i \in fetch[s].load
Claimed(i) == sent[i] > 0 \/ i \in known \/ \E s \in Slots : Loading(s, i)

\* Before the first load nothing is listed, stored or about to be downloaded.
Shown ==
    known = {} => /\ mem # NoFeed => mem.items = <<>>
                  /\ db # NoRow => db.items = {}
                  /\ \A s \in Slots : \A i \in Items : ~Loading(s, i)

\* The list, or the rows it will be loaded from.
Holding == IF up /\ mem.items # <<>> THEN Held(mem.items) ELSE db.items

\* No document lists i any more, neither the next one nor one that was answered.
Gone(i) ==
    /\ i <= pub /\ i \notin Listed(pub)
    /\ \A s \in Slots : fetch[s].pc \in {"got", "held"} => i \notin Listed(fetch[s].newest)

\* The fetch that holds the lock is about to list i.
Inserted(i) ==
    \E s \in Slots : fetch[s].pc = "held" /\ fetch[s].inserted /\ i \in Listed(fetch[s].newest)

\* What has to be told from new items is held, unless it is lost or no document lists it;
\* and so is what is stored, unless it is about to be listed.
Kept == db # NoRow => \A i \in Items \ lost : Claimed(i) => i \in Holding \/ Gone(i)
Stays == db # NoRow => \A i \in db.items \ lost : i \in Holding \/ Gone(i) \/ Inserted(i)

\* At most one fetch has the item, for the first time, and none that the first load
\* showed.
Once ==
    \A i \in Items \ lost :
        /\ sent[i] <= 1
        /\ \A s \in Slots : Loading(s, i) => sent[i] = 0 /\ i \notin known
        /\ \A s, r \in Slots : Loading(s, i) /\ Loading(r, i) => s = r

History == Shown /\ Kept /\ Stays /\ Once

\* A step neither adds to the downloads to come nor to the documents to be processed,
\* and leaves the lock where it is.
LoadsLess == \A s \in Slots : \A i \in Items : Loading(s, i)' => Loading(s, i)
GoneStays == \A i \in Items : Gone(i) => Gone(i)'
Quiet ==
    /\ LoadsLess /\ GoneStays
    /\ \A i \in Items : Inserted(i) => Inserted(i)'

\* Nothing is loaded by a fetch that moves on without adding to its downloads.
LEMMA LoadsMove ==
  ASSUME Base, NEW s \in Slots, NEW f, fetch' = [fetch EXCEPT ![s] = f], adds' = adds,
         f.pc \in {"meta", "tell"} /\ f.id = adds
            => \A i \in f.load : i \in Items => Loading(s, i)
  PROVE  LoadsLess
  <1>1. \A r \in Slots : fetch'[r] = IF r = s THEN f ELSE fetch[r]
    BY DEF Base, Kinds
  <1>2. ASSUME NEW r \in Slots, NEW i \in Items, Loading(r, i)' PROVE Loading(r, i)
    <2>1. fetch'[r].pc \in {"meta", "tell"} /\ fetch'[r].id = adds /\ i \in fetch'[r].load
      BY <1>2 DEF Loading
    <2>2. CASE r = s
      BY <1>1, <2>1, <2>2
    <2>3. CASE r # s
      BY <1>1, <2>1, <2>3 DEF Loading
    <2> QED BY <2>2, <2>3
  <1> QED BY <1>2 DEF LoadsLess

\* What no document lists stays so when a fetch moves on: an answer lists what is
\* listed now.
LEMMA GoneMoves ==
  ASSUME Base, NEW s \in Slots, NEW f, fetch' = [fetch EXCEPT ![s] = f], pub' = pub,
         f.pc \in {"got", "held"} =>
            f.newest = pub \/ (fetch[s].pc \in {"got", "held"} /\ f.newest = fetch[s].newest)
  PROVE  GoneStays
  <1>1. \A r \in Slots : fetch'[r] = IF r = s THEN f ELSE fetch[r]
    BY DEF Base, Kinds
  <1>2. ASSUME NEW i \in Items, Gone(i) PROVE Gone(i)'
    <2>1. i <= pub' /\ i \notin Listed(pub')
      BY <1>2 DEF Gone
    <2>2. ASSUME NEW r \in Slots, fetch'[r].pc \in {"got", "held"}
          PROVE  i \notin Listed(fetch'[r].newest)
      <3>1. CASE r = s
        BY <1>1, <1>2, <2>2, <3>1 DEF Gone
      <3>2. CASE r # s
        BY <1>1, <1>2, <2>2, <3>2 DEF Gone
      <3> QED BY <3>1, <3>2
    <2> QED BY <2>1, <2>2 DEF Gone
  <1> QED BY <1>2 DEF GoneStays

\* A fetch that moves on without the lock is quiet.
LEMMA QuietMove ==
  ASSUME Base, NEW s \in Slots, NEW f, fetch' = [fetch EXCEPT ![s] = f], adds' = adds, pub' = pub,
         fetch[s].pc # "held", f.pc # "held", f.pc = "got" => f.newest = pub,
         f.pc \in {"meta", "tell"} /\ f.id = adds
            => \A i \in f.load : i \in Items => Loading(s, i)
  PROVE  Quiet
  <1>1. LoadsLess
    BY LoadsMove
  <1>2. GoneStays
    BY GoneMoves
  <1>3. \A r \in Slots : fetch'[r] = IF r = s THEN f ELSE fetch[r]
    BY DEF Base, Kinds
  <1>4. \A r \in Slots : fetch[r].pc = "held" => fetch'[r] = fetch[r]
    BY <1>3
  <1>5. \A i \in Items : Inserted(i) => Inserted(i)'
    BY <1>4 DEF Inserted
  <1> QED BY <1>1, <1>2, <1>5 DEF Quiet

\* So is a step of nobody who fetches.
LEMMA QuietSame == ASSUME fetch' = fetch, adds' = adds, pub' = pub PROVE Quiet
  BY DEF Quiet, LoadsLess, GoneStays, Loading, Gone, Inserted

\* And a fetch that ends.
LEMMA QuietEnd ==
  ASSUME Base, NEW s \in Slots, fetch' = [fetch EXCEPT ![s] = Idle], adds' = adds, pub' = pub,
         fetch[s].pc # "held"
  PROVE  Quiet
  <1>1. Idle.pc = "idle"
    BY DEF Idle
  <1> QED BY <1>1, QuietMove

\* Steps that download nothing, show nothing and forget nothing but lost items.
LEMMA HistoryFrame ==
  ASSUME Base, History, LoadsLess, GoneStays, UNCHANGED <<sent, known>>, lost \subseteq lost',
         db' # NoRow => db # NoRow
                        /\ \A i \in Items \ lost' : i \in Holding => i \in Holding' \/ Gone(i)',
         Stays',
         mem' # NoFeed /\ known = {} => mem'.items = <<>>,
         db' # NoRow /\ known = {} => db'.items = {}
  PROVE  History'
  <1>1. Shown'
    <2>1. known = {} => \A s \in Slots : \A i \in Items : ~Loading(s, i)'
      BY DEF History, Shown, LoadsLess
    <2> QED BY <2>1 DEF Shown
  <1>2. Once'
    <2>1. ASSUME NEW i \in Items \ lost'
          PROVE  /\ sent'[i] <= 1
                 /\ \A s \in Slots : Loading(s, i)' => sent'[i] = 0 /\ i \notin known'
                 /\ \A s, r \in Slots : Loading(s, i)' /\ Loading(r, i)' => s = r
      <3>1. /\ sent[i] <= 1
            /\ \A s \in Slots : Loading(s, i) => sent[i] = 0 /\ i \notin known
            /\ \A s, r \in Slots : Loading(s, i) /\ Loading(r, i) => s = r
        BY DEF History, Once
      <3>2. \A s \in Slots : Loading(s, i)' => Loading(s, i)
        BY DEF LoadsLess
      <3> QED BY <3>1, <3>2
    <2> QED BY <2>1 DEF Once
  <1>3. Kept'
    <2>1. ASSUME db' # NoRow, NEW i \in Items \ lost', Claimed(i)'
          PROVE  i \in Holding' \/ Gone(i)'
      <3>1. Claimed(i)
        BY <2>1 DEF Claimed, LoadsLess
      <3>2. i \in Holding \/ Gone(i)
        BY <2>1, <3>1 DEF History, Kept
      <3> QED BY <2>1, <3>2 DEF GoneStays
    <2> QED BY <2>1 DEF Kept
  <1> QED BY <1>1, <1>2, <1>3 DEF History

\* Steps that leave the list and the rows' items alone, or delete the rows that nobody
\* is about to load.
LEMMA ListFrame ==
  ASSUME Base, Base', History, Quiet, UNCHANGED <<up, sent, known, lost>>,
         mem' # NoFeed => mem # NoFeed, db' # NoRow => db # NoRow,
         db' # NoRow => db'.items = db.items \/ (up /\ ~Locked /\ db'.items = {}),
         mem' # NoFeed => mem'.items = mem.items
  PROVE  History'
  <1>1. mem' # NoFeed /\ known = {} => mem'.items = <<>>
    BY DEF History, Shown
  <1>2. db' # NoRow /\ known = {} => db'.items = {}
    BY DEF History, Shown
  <1>3. ASSUME db' # NoRow PROVE Holding' = Holding
    <2>1. CASE up
      <3>1. mem' # NoFeed /\ mem # NoFeed /\ mem'.items = mem.items
        BY <1>3, <2>1 DEF Base, Paired, RowsAgree
      <3>2. CASE mem.items # <<>>
        BY <2>1, <3>1, <3>2 DEF Holding
      <3>3. CASE mem.items = <<>>
        <4>1. ~Locked => db.items = {}
          BY <3>1, <3>3, OfFeed
        <4> QED BY <1>3, <3>1, <3>3, <4>1 DEF Holding
      <3> QED BY <3>2, <3>3
    <2>2. CASE ~up
      BY <1>3, <2>2 DEF Holding
    <2> QED BY <2>1, <2>2
  <1>4. Stays'
    <2>1. ASSUME db' # NoRow, NEW i \in db'.items \ lost'
          PROVE  i \in Holding' \/ Gone(i)' \/ Inserted(i)'
      <3>1. i \in db.items \ lost /\ db # NoRow
        BY <2>1
      <3>2. i \in Items
        BY <3>1, OfRow, RowKind
      <3>3. i \in Holding \/ Gone(i) \/ Inserted(i)
        BY <3>1 DEF History, Stays
      <3> QED BY <1>3, <2>1, <3>2, <3>3 DEF Quiet, GoneStays
    <2> QED BY <2>1 DEF Stays
  <1> QED BY <1>1, <1>2, <1>3, <1>4, HistoryFrame DEF Quiet

-----------------------------------------------------------------------------
(* Every action keeps History. *)

\* A fetch that starts keeps the history.
LEMMA StartHistory ==
  ASSUME Base, Base', History, NEW s \in Slots, FetchFeed(s), Idling PROVE History'
  <1> DEFINE f == [pc |-> "net", id |-> mem.id]
  <1>1. fetch' = [fetch EXCEPT ![s] = f] /\ f.pc = "net" /\ fetch[s].pc # "held"
        /\ UNCHANGED <<up, mem, db, pub, sent, known, lost, adds>>
    BY DEF FetchFeed, Idling, counters, Idle
  <1> HIDE DEF f
  <1>2. Quiet
    BY <1>1, QuietMove
  <1> QED BY <1>1, <1>2, ListFrame

\* A feed that answers keeps the history.
LEMMA AnswerHistory == ASSUME Base, Base', History, NEW s \in Slots, Answer(s) PROVE History'
  <1> DEFINE f == [pc |-> "got", id |-> fetch[s].id, newest |-> pub]
  <1>1. fetch' = [fetch EXCEPT ![s] = f] /\ f.pc = "got" /\ f.newest = pub /\ fetch[s].pc = "net"
        /\ UNCHANGED <<up, mem, db, pub, sent, known, lost, adds>>
    BY DEF Answer, Idling, counters
  <1> HIDE DEF f
  <1>2. Quiet
    BY <1>1, QuietMove
  <1> QED BY <1>1, <1>2, ListFrame

\* A fetch that fails keeps the history.
LEMMA FailHistory == ASSUME Base, Base', History, NEW s \in Slots, Fail(s) PROVE History'
  <1>1. fetch' = [fetch EXCEPT ![s] = Idle] /\ fetch[s].pc = "net"
        /\ UNCHANGED <<up, mem, db, pub, sent, known, lost, adds>>
    BY DEF Fail, Idling, counters
  <1>2. Quiet
    BY <1>1, QuietEnd
  <1> QED BY <1>1, <1>2, ListFrame

\* A subscription added keeps the history.
LEMMA AddHistory ==
  ASSUME Base, Base', History, NEW s \in Slots, AddSubscription(s) PROVE History'
  <1>1. fetch' = [fetch EXCEPT ![s] = [pc |-> "net", id |-> adds']] /\ adds' = adds + 1
        /\ sent' = [i \in Items |-> 0] /\ known' = {} /\ lost' = {}
        /\ mem'.items = <<>> /\ db'.items = {}
    BY DEF AddSubscription
  <1>2. ASSUME NEW r \in Slots, NEW i \in Items PROVE ~Loading(r, i)'
    <2>1. CASE r = s
      <3>1. fetch'[r].pc = "net"
        BY <1>1, <2>1 DEF Base, Kinds
      <3> QED BY <3>1 DEF Loading
    <2>2. CASE r # s
      <3>1. fetch'[r] = fetch[r]
        BY <1>1, <2>2 DEF Base, Kinds
      <3>2. fetch[r].pc \in {"meta", "tell"} => fetch[r].id \in 1..adds /\ adds \in Nat
        BY OfFetch, Numbers DEF Base, Kinds
      <3> QED BY <1>1, <3>1, <3>2 DEF Loading
    <2> QED BY <2>1, <2>2
  <1>3. \A i \in Items : sent'[i] = 0
    BY <1>1
  <1>4. Shown'
    BY <1>1, <1>2 DEF Shown
  <1>5. Kept' /\ Stays' /\ Once'
    BY <1>1, <1>2, <1>3 DEF Kept, Stays, Once, Claimed
  <1> QED BY <1>4, <1>5 DEF History

\* A subscription removed keeps the history.
LEMMA RemoveHistory == ASSUME Base, Base', History, RemoveSubscription PROVE History'
  <1>1. mem' = NoFeed /\ db' = NoRow
        /\ UNCHANGED <<up, fetch, pub, sent, known, lost, adds>>
    BY DEF RemoveSubscription, counters
  <1>2. Quiet
    BY <1>1, QuietSame
  <1> QED BY <1>1, <1>2, ListFrame

\* A subscription updated keeps the history.
LEMMA UpdateHistory == ASSUME Base, Base', History, UpdateSubscription PROVE History'
  <1>1. mem # NoFeed /\ up /\ ~Locked /\ UNCHANGED <<up, fetch, pub, sent, known, lost, adds>>
    BY DEF UpdateSubscription
  <1>2. mem'.items = mem.items /\ db'.items = {}
    <2>1. PICK x \in Changes \ {mem.set} :
            /\ mem' = [mem EXCEPT !.set = x]
            /\ db' = [id |-> mem.id, set |-> x, items |-> {}, marked |-> {}]
      BY DEF UpdateSubscription
    <2>2. x \in Settings /\ mem \in Feeds
      BY <1>1, <2>1, FeedBounds, OfFeed
    <2> QED BY <2>1, <2>2, FeedSet
  <1>3. db # NoRow
    BY <1>1, OfFeed
  <1>4. Quiet
    BY <1>1, QuietSame
  <1> QED BY <1>1, <1>2, <1>3, <1>4, ListFrame

\* A fetch that stores its metadata keeps the history.
LEMMA MetaHistory == ASSUME Base, Base', History, NEW s \in Slots, Meta(s) PROVE History'
  <1> DEFINE f == [fetch[s] EXCEPT !.pc = "tell"]
  <1>1. fetch[s].pc = "meta" /\ UNCHANGED <<up, mem, pub, sent, known, lost, adds>>
        /\ fetch' = [fetch EXCEPT ![s] = f]
    BY DEF Meta, counters
  <1>2. fetch[s] \in Storing /\ fetch[s].id \in 1..adds /\ adds \in Nat
    BY <1>1, OfFetch, FetchKinds, Numbers DEF Base, Kinds
  <1>3. f.pc = "tell" /\ f.id = fetch[s].id /\ f.load = fetch[s].load
    BY <1>2 DEF Storing
  <1> HIDE DEF f
  <1>4. Quiet
    <2>1. f.id = adds => \A i \in f.load : i \in Items => Loading(s, i)
      BY <1>1, <1>3 DEF Loading
    <2> QED BY <1>1, <1>3, <2>1, QuietMove
  <1>5. db' # NoRow => db # NoRow /\ db'.items = db.items
    <2>1. CASE db.id # fetch[s].id
      BY <2>1 DEF Meta
    <2>2. CASE db.id = fetch[s].id
      <3>1. db # NoRow
        BY <1>2, <2>2 DEF NoRow
      <3>2. db' = [db EXCEPT !.set.title = fetch[s].title]
            /\ fetch[s].title \in {"first", "renamed"}
        BY <1>1, <2>2, OfFetch DEF Meta
      <3> QED BY <3>1, <3>2, OfRow, RowTitled
    <2> QED BY <2>1, <2>2
  <1> QED BY <1>1, <1>4, <1>5, ListFrame

\* An item marked as downloaded keeps the history.
LEMMA DownloadedHistory ==
  ASSUME Base, Base', History, NEW j \in jobs, Downloaded(j) PROVE History'
  <1>1. UNCHANGED <<up, fetch, pub, sent, known, lost, adds>> /\ MarkItemAsDownloaded(j)
    BY DEF Downloaded, counters
  <1>2. /\ mem' # NoFeed => mem # NoFeed /\ mem'.items = mem.items
        /\ db' # NoRow => db # NoRow /\ db'.items = db.items
    BY <1>1, MarkShape
  <1>3. Quiet
    BY <1>1, QuietSame
  <1> QED BY <1>1, <1>2, <1>3, ListFrame

\* A download that is rejected keeps the history.
LEMMA RejectedHistory ==
  ASSUME Base, Base', History, NEW j \in jobs, Rejected(j) PROVE History'
  <1>1. UNCHANGED <<up, mem, db, fetch, pub, sent, known, lost, adds>>
    BY DEF Rejected, counters
  <1>2. Quiet
    BY <1>1, QuietSame
  <1> QED BY <1>1, <1>2, ListFrame

\* An item published keeps the history: what the document no longer lists it will not
\* list again.
LEMMA PublishHistory == ASSUME Base, Base', History, Publish PROVE History'
  <1>1. UNCHANGED <<up, mem, db, fetch, sent, known, lost, adds>> /\ pub' = pub + 1
    BY DEF Publish, counters
  <1>2. Quiet
    <2>1. pub \in Nat /\ Window \in Nat
      BY Published, Numbers DEF Base
    <2>2. ASSUME NEW i \in Items, Gone(i) PROVE Gone(i)'
      <3>1. i \in Nat /\ i >= 1 /\ i <= pub /\ i + Window <= pub
        BY <2>1, <2>2 DEF Items, Gone, Listed
      <3>2. i <= pub' /\ i \notin Listed(pub')
        BY <1>1, <2>1, <3>1 DEF Listed
      <3> QED BY <1>1, <2>2, <3>2 DEF Gone
    <2> QED BY <1>1, <2>2 DEF Quiet, LoadsLess, GoneStays, Loading, Inserted
  <1> QED BY <1>1, <1>2, ListFrame

\* A crash keeps the history.
LEMMA CrashHistory == ASSUME Base, Base', History, Crash PROVE History'
  <1>1. UNCHANGED <<db, pub, sent, known, adds>> /\ up /\ up' = FALSE /\ mem' = NoFeed
        /\ fetch' = [s \in Slots |-> Idle]
    BY DEF Crash
  <1>2. LoadsLess
    BY <1>1 DEF LoadsLess, Loading, Idle
  <1>3. GoneStays
    BY <1>1 DEF GoneStays, Gone, Idle
  <1>4. lost \subseteq lost'
        /\ (mem # NoFeed => (Held(mem.items) \ db.items) \cap Listed(pub) \subseteq lost')
    BY DEF Crash
  <1>5. db # NoRow => mem # NoFeed
    BY <1>1 DEF Base, Paired, RowsAgree
  <1>6. Holding' = db.items
    BY <1>1 DEF Holding
  <1>7. ASSUME db # NoRow, NEW i \in Items \ lost', i \in Holding PROVE i \in Holding' \/ Gone(i)'
    <2>1. CASE mem.items = <<>>
      BY <1>1, <1>6, <1>7, <2>1 DEF Holding
    <2>2. CASE mem.items # <<>>
      <3>1. i \in Held(mem.items) /\ i \in 1..pub
        BY <1>1, <1>5, <1>7, <2>2, OfFeed DEF Holding
      <3>2. i \in db.items \/ i \notin Listed(pub)
        BY <1>4, <1>5, <1>7, <3>1
      <3>3. i \notin Listed(pub) => Gone(i)'
        BY <1>1, <3>1 DEF Gone, Idle
      <3> QED BY <1>6, <3>2, <3>3
    <2> QED BY <2>1, <2>2
  <1>8. Stays'
    BY <1>1, <1>6 DEF Stays
  <1>9. db' # NoRow /\ known = {} => db'.items = {}
    BY <1>1 DEF History, Shown
  <1> QED BY <1>1, <1>2, <1>3, <1>4, <1>7, <1>8, <1>9, HistoryFrame

\* A restart keeps the history.
LEMMA InitializeHistory == ASSUME Base, Base', History, Initialize PROVE History'
  <1>1. UNCHANGED <<db, fetch, pub, sent, known, lost, adds>> /\ ~up /\ up' = TRUE
    BY DEF Initialize, counters
  <1>2. Quiet
    BY <1>1, QuietSame
  <1>3. ASSUME db # NoRow PROVE Holding' = db.items /\ Holding = db.items
    <2>1. Held(mem'.items) = db.items
      BY <1>3, LoadedShape
    <2> QED BY <1>1, <2>1 DEF Holding
  <1>4. db' # NoRow /\ known = {} => db'.items = {}
    BY <1>1 DEF History, Shown
  <1>5. mem' # NoFeed /\ known = {} => mem'.items = <<>>
    <2> HAVE mem' # NoFeed /\ known = {}
    <2>1. db # NoRow
      BY DEF Initialize
    <2>2. Held(mem'.items) = {} /\ mem' \in Feeds
      BY <1>1, <1>4, <2>1, LoadedShape
    <2>3. mem'.items \in Seq(Items)
      BY <2>2, FeedKind
    <2>4. DOMAIN mem'.items = 1..Len(mem'.items) /\ Len(mem'.items) \in Nat
      BY <2>3
    <2>5. 1 \notin DOMAIN mem'.items
      BY <2>2 DEF Held
    <2> QED BY <2>3, <2>4, <2>5
  <1>6. Stays'
    BY <1>1, <1>3 DEF Stays
  <1> QED BY <1>1, <1>2, <1>3, <1>4, <1>5, <1>6, HistoryFrame DEF Quiet

\* A fetch that hands its downloads over keeps the history.
LEMMA TellHistory == ASSUME Base, Base', History, NEW s \in Slots, Tell(s) PROVE History'
  <1>1. fetch[s].pc = "tell" /\ UNCHANGED <<up, mem, db, pub, known, lost, adds>>
        /\ fetch' = [fetch EXCEPT ![s] = Idle]
    BY DEF Tell, counters
  <1>2. Quiet /\ LoadsLess
    <2>1. fetch[s].pc # "held" /\ pub' = pub /\ adds' = adds
      BY <1>1
    <2> QED BY <1>1, <2>1, QuietEnd DEF Quiet
  <1>3. \A i \in Items : ~Loading(s, i)'
    <2>1. fetch'[s] = Idle
      BY <1>1 DEF Base, Kinds
    <2> QED BY <2>1 DEF Loading, Idle
  <1>4. ASSUME NEW i \in Items
        PROVE  sent'[i] = IF Loading(s, i) /\ sent[i] < 2 THEN sent[i] + 1 ELSE sent[i]
    <2>1. sent' = [k \in Items |-> IF k \in (IF fetch[s].id = adds THEN fetch[s].load ELSE {})
                                      /\ sent[k] < 2 THEN sent[k] + 1 ELSE sent[k]]
      BY DEF Tell
    <2>2. i \in (IF fetch[s].id = adds THEN fetch[s].load ELSE {}) <=> Loading(s, i)
      BY <1>1 DEF Loading
    <2> QED BY <2>1, <2>2
  <1>5. ASSUME NEW i \in Items PROVE sent[i] \in 0..2 /\ (sent'[i] > 0 => sent[i] > 0 \/ Loading(s, i))
    <2>1. sent[i] \in 0..2
      BY DEF Base, Kinds
    <2> QED BY <1>4, <2>1
  <1>6. Shown'
    BY <1>1, <1>2 DEF History, Shown, LoadsLess
  <1>7. Once'
    <2>1. ASSUME NEW i \in Items \ lost
          PROVE  /\ sent'[i] <= 1
                 /\ \A r \in Slots : Loading(r, i)' => sent'[i] = 0 /\ i \notin known'
                 /\ \A q, r \in Slots : Loading(q, i)' /\ Loading(r, i)' => q = r
      <3>1. /\ sent[i] <= 1
            /\ \A r \in Slots : Loading(r, i) => sent[i] = 0 /\ i \notin known
            /\ \A q, r \in Slots : Loading(q, i) /\ Loading(r, i) => q = r
        BY DEF History, Once
      <3>2. \A r \in Slots : Loading(r, i)' => Loading(r, i) /\ r # s
        BY <1>2, <1>3 DEF LoadsLess
      <3>3. sent'[i] <= 1
        BY <1>4, <1>5, <3>1
      <3>4. ASSUME NEW r \in Slots, Loading(r, i)' PROVE sent'[i] = 0 /\ i \notin known'
        <4>1. Loading(r, i) /\ ~Loading(s, i)
          BY <3>1, <3>2, <3>4
        <4> QED BY <1>1, <1>4, <3>1, <4>1
      <3>5. \A q, r \in Slots : Loading(q, i)' /\ Loading(r, i)' => q = r
        BY <3>1, <3>2
      <3> QED BY <3>3, <3>4, <3>5
    <2> QED BY <1>1, <2>1 DEF Once
  <1>8. Holding' = Holding
    BY <1>1 DEF Holding
  <1>9. Kept'
    <2>1. ASSUME db # NoRow, NEW i \in Items \ lost, Claimed(i)'
          PROVE  i \in Holding' \/ Gone(i)'
      <3>1. Claimed(i)
        BY <1>1, <1>2, <1>5, <2>1 DEF Claimed, LoadsLess
      <3>2. i \in Holding \/ Gone(i)
        BY <2>1, <3>1 DEF History, Kept
      <3> QED BY <1>2, <1>8, <3>2 DEF Quiet, GoneStays
    <2> QED BY <1>1, <2>1 DEF Kept
  <1>10. Stays'
    <2>1. ASSUME db # NoRow, NEW i \in db.items \ lost
          PROVE  i \in Holding' \/ Gone(i)' \/ Inserted(i)'
      <3>1. i \in Items
        BY <2>1, OfRow, RowKind
      <3>2. i \in Holding \/ Gone(i) \/ Inserted(i)
        BY <2>1 DEF History, Stays
      <3> QED BY <1>2, <1>8, <3>1, <3>2 DEF Quiet, GoneStays
    <2> QED BY <1>1, <2>1 DEF Stays
  <1> QED BY <1>6, <1>7, <1>9, <1>10 DEF History

\* A fetch that takes the lock and goes on keeps what no document lists.
LEMMA LockTaken ==
  ASSUME Base, NEW s \in Slots, InsertItems(s), ~Missing(s)
  PROVE  /\ GoneStays /\ LoadsLess
         /\ fetch' = [fetch EXCEPT ![s] = HeldOf(s)] /\ HeldOf(s).pc = "held"
         /\ HeldOf(s).newest = fetch[s].newest /\ HeldOf(s).inserted = (Stored(s) # db.items)
  <1>1. /\ fetch[s].pc = "got" /\ fetch' = [fetch EXCEPT ![s] = HeldOf(s)]
        /\ pub' = pub /\ adds' = adds
    BY InsertShape
  <1>2. HeldOf(s).pc = "held" /\ HeldOf(s).newest = fetch[s].newest
        /\ HeldOf(s).inserted = (Stored(s) # db.items)
    BY DEF HeldOf
  <1>3. LoadsLess
    BY <1>1, <1>2, LoadsMove
  <1>4. GoneStays
    BY <1>1, <1>2, GoneMoves
  <1> QED BY <1>1, <1>2, <1>3, <1>4

\* Rows that are inserted keep the history: they wait for the lock's holder to list them.
LEMMA InsertHistory ==
  ASSUME Base, Base', History, NEW s \in Slots, InsertItems(s) PROVE History'
  <1>1. CASE Missing(s)
    <2>1. fetch[s].pc = "got" /\ fetch' = [fetch EXCEPT ![s] = Idle]
          /\ UNCHANGED <<up, mem, db, pub, sent, known, lost, adds>>
      BY <1>1 DEF InsertItems, counters
    <2>2. Quiet
      BY <2>1, QuietEnd
    <2> QED BY <2>1, <2>2, ListFrame
  <1>2. CASE ~Missing(s)
    <2>1. /\ fetch[s].pc = "got" /\ ~Locked
          /\ db' = [db EXCEPT !.items = Stored(s)]
          /\ known' = IF known = {} THEN Stored(s) ELSE known
          /\ UNCHANGED <<up, mem, pub, sent, lost, adds>>
      BY <1>2, InsertShape
    <2>2. mem # NoFeed /\ db # NoRow /\ up /\ db \in Rows
      BY <1>2, <2>1, AtLock, OfFeed, OfRow
    <2>3. Stored(s) \subseteq 1..pub /\ Stored(s) # {} /\ 1..pub \subseteq Items
      BY <1>2, <2>1, StoredBound, Published DEF Base
    <2>4. db'.items = Stored(s)
      BY <2>1, <2>2, <2>3, RowStored
    <2>5. /\ GoneStays /\ LoadsLess
          /\ fetch' = [fetch EXCEPT ![s] = HeldOf(s)] /\ HeldOf(s).pc = "held"
          /\ HeldOf(s).newest = fetch[s].newest /\ HeldOf(s).inserted = (Stored(s) # db.items)
      BY <1>2, LockTaken
    <2>6. Holding' = IF mem.items # <<>> THEN Held(mem.items) ELSE Stored(s)
      BY <2>1, <2>2, <2>4 DEF Holding
    <2>7. Holding \subseteq Holding'
      BY <2>2, <2>6 DEF Holding, Stored
    <2>8. known = {} => mem.items = <<>> /\ \A r \in Slots : \A i \in Items : ~Loading(r, i)
      BY <2>2 DEF History, Shown
    <2>9. Shown'
      BY <2>1, <2>3 DEF Shown
    <2>10. Once'
      <3>1. ASSUME NEW i \in Items \ lost
            PROVE  /\ sent[i] <= 1
                   /\ \A r \in Slots : Loading(r, i)' => sent[i] = 0 /\ i \notin known'
                   /\ \A q, r \in Slots : Loading(q, i)' /\ Loading(r, i)' => q = r
        <4>1. /\ sent[i] <= 1
              /\ \A r \in Slots : Loading(r, i) => sent[i] = 0 /\ i \notin known
              /\ \A q, r \in Slots : Loading(q, i) /\ Loading(r, i) => q = r
          BY <3>1 DEF History, Once
        <4>2. \A r \in Slots : Loading(r, i)' => Loading(r, i)
          BY <2>5 DEF LoadsLess
        <4>3. \A r \in Slots : Loading(r, i) => known # {}
          BY <2>8
        <4> QED BY <2>1, <4>1, <4>2, <4>3
      <3> QED BY <2>1, <3>1 DEF Once
    <2>11. Kept'
      <3>1. ASSUME NEW i \in Items \ lost, Claimed(i)' PROVE i \in Holding' \/ Gone(i)'
        <4>1. CASE Claimed(i)
          <5>1. i \in Holding \/ Gone(i)
            BY <2>2, <3>1, <4>1 DEF History, Kept
          <5> QED BY <2>5, <2>7, <5>1 DEF GoneStays
        <4>2. CASE ~Claimed(i)
          <5>1. i \in known' /\ i \notin known
            BY <2>1, <2>5, <3>1, <4>2 DEF Claimed, LoadsLess
          <5>2. known = {} /\ i \in Stored(s)
            BY <2>1, <5>1
          <5> QED BY <2>6, <2>8, <5>2
        <4> QED BY <4>1, <4>2
      <3> QED BY <2>1, <3>1 DEF Kept
    <2>12. Stays'
      <3>1. ASSUME NEW i \in Stored(s) \ lost PROVE i \in Holding' \/ Gone(i)' \/ Inserted(i)'
        <4>0. i \in Items
          BY <2>3
        <4>1. CASE i \in db.items
          <5>1. ~Inserted(i)
            BY <2>1 DEF Inserted, Locked
          <5>2. i \in Holding \/ Gone(i)
            BY <2>2, <3>1, <4>1, <5>1 DEF History, Stays
          <5> QED BY <2>5, <2>7, <4>0, <5>2 DEF GoneStays
        <4>2. CASE i \notin db.items
          <5>1. i \in Listed(fetch[s].newest) /\ Stored(s) # db.items
            BY <3>1, <4>2 DEF Stored
          <5>2. fetch'[s] = HeldOf(s)
            BY <2>5 DEF Base, Kinds
          <5>3. fetch'[s].pc = "held" /\ fetch'[s].inserted /\ i \in Listed(fetch'[s].newest)
            BY <2>5, <5>1, <5>2
          <5> QED BY <5>3 DEF Inserted
        <4> QED BY <4>1, <4>2
      <3> QED BY <2>1, <2>4, <3>1 DEF Stays
    <2> QED BY <2>9, <2>10, <2>11, <2>12 DEF History
  <1> QED BY <1>1, <1>2

\* A fetch that releases the lock keeps what no document lists.
LEMMA LockReleased ==
  ASSUME Base, NEW s \in Slots, NEW load, pub' = pub, fetch' = [fetch EXCEPT ![s] = MetaOf(load)]
  PROVE  GoneStays
  <1>1. MetaOf(load).pc = "meta"
    BY DEF MetaOf
  <1> QED BY <1>1, GoneMoves

\* The first load downloads nothing and shows what is stored.
LEMMA FirstLoadHistory ==
  ASSUME Base, Base', History, NEW s \in Slots, FirstLoad(s) PROVE History'
  <1>1. /\ fetch[s].pc = "held" /\ mem # NoFeed /\ mem.items = <<>>
        /\ fetch' = [fetch EXCEPT ![s] = MetaOf({})]
        /\ mem'.items \in Seq(Items) /\ Held(mem'.items) = db.items
        /\ UNCHANGED <<up, db, pub, sent, known, lost, adds>>
    BY FirstLoadShape
  <1>2. LoadsLess
    <2>1. MetaOf({}).load = {}
      BY DEF MetaOf
    <2> QED BY <1>1, <2>1, LoadsMove
  <1>3. GoneStays
    BY <1>1, LockReleased
  <1>4. up /\ db # NoRow
    BY <1>1, OfFeed
  <1>5. Holding = db.items /\ Holding' = db.items
    BY <1>1, <1>4 DEF Holding
  <1>6. known = {} => db.items = {}
    BY <1>4 DEF History, Shown
  <1>7. db.items = {} => mem'.items = <<>>
    <2> HAVE db.items = {}
    <2>1. DOMAIN mem'.items = 1..Len(mem'.items) /\ Len(mem'.items) \in Nat
      BY <1>1
    <2>2. 1 \notin DOMAIN mem'.items
      BY <1>1 DEF Held
    <2> QED BY <1>1, <2>1, <2>2
  <1>8. Stays'
    BY <1>1, <1>5 DEF Stays
  <1> QED BY <1>1, <1>2, <1>3, <1>4, <1>5, <1>6, <1>7, <1>8, HistoryFrame

\* A later load keeps the history: what it takes for new nobody has claimed, and what it
\* drops and a document may still bring back is lost.
LEMMA FindNewHistory ==
  ASSUME Base, Base', History, NEW s \in Slots, FindNew(s) PROVE History'
  <1>1. /\ fetch[s].pc = "held" /\ mem # NoFeed /\ mem.items # <<>>
        /\ fetch' = [fetch EXCEPT ![s] = MetaOf(Wanted(s))]
        /\ Fresh(s) \subseteq 1..pub /\ Wanted(s) \subseteq Fresh(s)
        /\ mem' \in Feeds /\ mem'.items # <<>>
        /\ lost' = lost \cup {i \in (Held(mem.items) \cup Fresh(s)) \ Held(mem'.items) : Returns(i)}
        /\ db'.items \subseteq db.items
        /\ UNCHANGED <<up, pub, sent, known, adds>>
    BY FindNewShape
  <1>2. up /\ db # NoRow /\ mem' # NoFeed /\ Held(mem.items) \subseteq 1..pub /\ 1..pub \subseteq Items
        /\ db.items \subseteq 1..pub
    BY <1>1, OfFeed, OfRow, FeedKind, Published DEF Base
  <1>3. Holding = Held(mem.items) /\ Holding' = Held(mem'.items)
    BY <1>1, <1>2 DEF Holding
  <1>4. GoneStays
    BY <1>1, LockReleased
  <1>5. known # {}
    BY <1>1 DEF History, Shown
  <1>6. ASSUME NEW r \in Slots, NEW i \in Items, Loading(r, i)'
        PROVE  (r = s /\ i \in Fresh(s)) \/ (r # s /\ Loading(r, i))
    <2>1. fetch'[r] = IF r = s THEN MetaOf(Wanted(s)) ELSE fetch[r]
      BY <1>1 DEF Base, Kinds
    <2>2. fetch'[r].pc \in {"meta", "tell"} /\ fetch'[r].id = adds /\ i \in fetch'[r].load
      BY <1>1, <1>6 DEF Loading
    <2>3. ASSUME r = s PROVE i \in Fresh(s)
      <3>1. fetch'[r].load = Wanted(s)
        BY <2>1, <2>3 DEF MetaOf
      <3> QED BY <1>1, <2>2, <3>1
    <2>4. ASSUME r # s PROVE Loading(r, i)
      BY <2>1, <2>2, <2>4 DEF Loading
    <2> QED BY <2>3, <2>4
  <1>7. ASSUME NEW i \in Items \ lost, i \in Fresh(s) PROVE ~Claimed(i)
    <2>1. i \notin Holding
      BY <1>3, <1>7 DEF Fresh
    <2>2. i \in Listed(fetch[s].newest)
      BY <1>7 DEF Fresh
    <2>3. ~Gone(i)
      BY <1>1, <2>2 DEF Gone
    <2> QED BY <1>2, <1>7, <2>1, <2>3 DEF History, Kept
  <1>8. ASSUME NEW i \in Items \ lost', i \in Held(mem.items) \cup Fresh(s)
        PROVE  i \in Holding' \/ Gone(i)'
    <2> SUFFICES ASSUME i \notin Held(mem'.items) PROVE Gone(i)'
      BY <1>3
    <2>1. ~Returns(i) /\ i \in 1..pub
      BY <1>1, <1>2, <1>8
    <2>2. ASSUME NEW r \in Slots, fetch'[r].pc \in {"got", "held"}
          PROVE  i \notin Listed(fetch'[r].newest)
      <3>1. fetch'[r] = IF r = s THEN MetaOf(Wanted(s)) ELSE fetch[r]
        BY <1>1 DEF Base, Kinds
      <3>2. MetaOf(Wanted(s)).pc = "meta"
        BY DEF MetaOf
      <3>3. r # s /\ fetch'[r] = fetch[r]
        BY <2>2, <3>1, <3>2
      <3>4. fetch[r].pc = "got"
        BY <1>1, <2>2, <3>3 DEF Base, LockOK
      <3> QED BY <2>1, <3>3, <3>4 DEF Returns
    <2> QED BY <1>1, <2>1, <2>2 DEF Gone, Returns
  <1>9. Shown'
    BY <1>1, <1>5 DEF Shown
  <1>10. Kept'
    <2>1. ASSUME NEW i \in Items \ lost', Claimed(i)' PROVE i \in Holding' \/ Gone(i)'
      <3>1. i \notin lost
        BY <1>1
      <3>2. Claimed(i) \/ i \in Fresh(s)
        BY <1>1, <1>6, <2>1 DEF Claimed
      <3>3. Claimed(i) => i \in Holding \/ Gone(i)
        BY <1>2, <3>1 DEF History, Kept
      <3> QED BY <1>3, <1>4, <1>8, <3>2, <3>3 DEF GoneStays
    <2> QED BY <2>1 DEF Kept
  <1>11. Stays'
    <2>1. ASSUME NEW i \in db'.items \ lost' PROVE i \in Holding' \/ Gone(i)'
      <3>1. i \in db.items \ lost /\ i \in Items
        BY <1>1, <1>2
      <3>2. i \in Holding \/ Gone(i) \/ Inserted(i)
        BY <1>2, <3>1 DEF History, Stays
      <3>3. Inserted(i) => i \in Held(mem.items) \cup Fresh(s)
        <4> SUFFICES ASSUME NEW r \in Slots, fetch[r].pc = "held", fetch[r].inserted,
                            i \in Listed(fetch[r].newest)
                     PROVE  i \in Held(mem.items) \cup Fresh(s)
          BY DEF Inserted
        <4>1. r = s
          BY <1>1 DEF Base, LockOK
        <4> QED BY <4>1 DEF Fresh
      <3> QED BY <1>3, <1>4, <1>8, <2>1, <3>1, <3>2, <3>3 DEF GoneStays
    <2> QED BY <2>1 DEF Stays
  <1>12. Once'
    <2>1. ASSUME NEW i \in Items \ lost'
          PROVE  /\ sent[i] <= 1
                 /\ \A r \in Slots : Loading(r, i)' => sent[i] = 0 /\ i \notin known
                 /\ \A q, r \in Slots : Loading(q, i)' /\ Loading(r, i)' => q = r
      <3>1. i \in Items \ lost
        BY <1>1
      <3>2. /\ sent[i] <= 1
            /\ \A r \in Slots : Loading(r, i) => sent[i] = 0 /\ i \notin known
            /\ \A q, r \in Slots : Loading(q, i) /\ Loading(r, i) => q = r
        BY <3>1 DEF History, Once
      <3>3. i \in Fresh(s) => sent[i] = 0 /\ i \notin known /\ \A r \in Slots : ~Loading(r, i)
        <4> HAVE i \in Fresh(s)
        <4>1. ~Claimed(i)
          BY <1>7, <3>1
        <4>2. sent[i] \in 0..2
          BY <3>1 DEF Base, Kinds
        <4> QED BY <4>1, <4>2 DEF Claimed
      <3>4. \A r \in Slots : Loading(r, i)' =>
                (r = s /\ i \in Fresh(s)) \/ (r # s /\ Loading(r, i))
        BY <1>6, <3>1
      <3> QED BY <3>2, <3>3, <3>4
    <2> QED BY <1>1, <2>1 DEF Once
  <1> QED BY <1>9, <1>10, <1>11, <1>12 DEF History

\* Every step keeps the history.
LEMMA HistoryNext == ASSUME Base, Base', History, [Next]_vars PROVE History'
  <1>1. CASE \E s \in Slots : \/ AddSubscription(s) \/ Answer(s) \/ Fail(s)
                              \/ InsertItems(s) \/ FirstLoad(s) \/ FindNew(s) \/ Meta(s) \/ Tell(s)
    BY <1>1, AddHistory, AnswerHistory, FailHistory, InsertHistory, FirstLoadHistory,
       FindNewHistory, MetaHistory, TellHistory
  <1>2. CASE RemoveSubscription \/ UpdateSubscription
    BY <1>2, RemoveHistory, UpdateHistory
  <1>3. CASE LoopFetch \/ Refresh
    BY <1>3, StartHistory DEF LoopFetch, Refresh
  <1>4. CASE \E j \in jobs : Downloaded(j) \/ Rejected(j)
    BY <1>4, DownloadedHistory, RejectedHistory
  <1>5. CASE Publish \/ Crash \/ Initialize
    BY <1>5, PublishHistory, CrashHistory, InitializeHistory
  <1>6. CASE UNCHANGED vars
    <2>1. UNCHANGED <<up, mem, db, fetch, pub, sent, known, lost, adds>>
      BY <1>6 DEF vars
    <2>2. Quiet
      BY <2>1, QuietSame
    <2> QED BY <2>1, <2>2, ListFrame
  <1> QED BY <1>1, <1>2, <1>3, <1>4, <1>5, <1>6 DEF Next

\* Nothing has been sent at the start.
LEMMA HistoryInit == ASSUME Init PROVE History
  BY DEF Init, History, Shown, Kept, Stays, Once, Loading, Claimed, Idle, NoFeed, NoRow

\* The history is an invariant.
THEOREM HistoryInvariant == Spec => [](Base /\ History)
  <1>1. Base /\ History /\ [Next]_vars => (Base /\ History)'
    BY BaseNext, HistoryNext
  <1>2. Init => Base /\ History
    BY BaseInit, HistoryInit
  <1> QED BY <1>1, <1>2, PTL DEF Spec

\* A subscription starts a second download of an item by itself only if the item left
\* the list while a document still to come listed it, for any limits, changed at any
\* time, any length of the document, any number of overlapping fetches, any
\* subscriptions and any exits.
THEOREM AutoOnceHolds == Spec => []AutoOnce
  <1>1. History => AutoOnce
    BY DEF History, Once, AutoOnce
  <1> QED BY <1>1, HistoryInvariant, PTL

\* What the first document of a subscription listed is not downloaded by itself, under
\* the same conditions.
THEOREM OnlyNewHolds == Spec => []OnlyNew
  <1>1. ASSUME Base, History PROVE OnlyNew
    <2>1. ASSUME NEW s \in Slots, fetch[s].pc \in {"meta", "tell"}, ~Missing(s),
                 NEW i \in fetch[s].load \cap known, i \notin lost
          PROVE  FALSE
      <3>1. fetch[s].id = adds
        BY <1>1, <2>1, OfFeed DEF Missing
      <3>2. Loading(s, i) /\ i \in Items
        BY <1>1, <2>1, <3>1 DEF Loading, Base, Kinds
      <3> QED BY <1>1, <2>1, <3>2 DEF History, Once
    <2> QED BY <2>1 DEF OnlyNew
  <1> QED BY <1>1, HistoryInvariant, PTL

\* An item that has a row and that a document lists is in the list or has been there,
\* wherever the process ended between inserting, loading and pruning.
THEOREM StoredShownHolds == Spec => []StoredShown
  <1>1. ASSUME Base, History PROVE StoredShown
    <2>1. ASSUME mem # NoFeed, ~Locked, NEW i \in db.items \ lost, Returns(i)
          PROVE  i \in Held(mem.items)
      <3>1. up /\ db # NoRow /\ (mem.items = <<>> => db.items = {})
        BY <1>1, <2>1, OfFeed
      <3>2. ~Gone(i) /\ ~Inserted(i)
        BY <2>1 DEF Gone, Inserted, Returns, Locked
      <3>3. i \in Holding
        BY <1>1, <2>1, <3>1, <3>2 DEF History, Stays
      <3> QED BY <2>1, <3>1, <3>3 DEF Holding
    <2> QED BY <2>1 DEF StoredShown
  <1> QED BY <1>1, HistoryInvariant, PTL

=============================================================================
