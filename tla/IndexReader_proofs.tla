------------------------- MODULE IndexReader_proofs -------------------------
(***************************************************************************)
(* Batches of the index are contiguous and lose nothing, for every length  *)
(* of the feed, size of a page, limit of a batch and number of faults.     *)
(***************************************************************************)
EXTENDS IndexReader, FiniteSetTheorems, TLAPS

Feed == 1..Len(feed)

Types ==
  /\ limit \in Nat
  /\ feed \in Seq(Nat)
  /\ pc \in {"idle", "ask", "page"}
  /\ since \in Nat /\ cursor \in Nat
  /\ entries \in Seq(Nat) /\ page \in Seq(Nat)
  /\ pageSize \in Nat /\ at \in Nat \ {0} /\ newEntries \in Nat

\* The feed is ordered and no timestamp has more than MaxShared entries.
Sorted == \A i, j \in Feed : i <= j => feed[i] <= feed[j]
Shared == \A i \in Feed : i + MaxShared \in Feed => feed[i] < feed[i + MaxShared]

\* No entry older than time t arrives any more.
Closed(t) ==
  \/ t = 0
  \/ Len(feed) > 0 /\ feed[Len(feed)] >= t
  \/ Len(feed) >= MaxShared /\ feed[Len(feed) - MaxShared + 1] = t - 1

\* A stretch of the feed.
Stretch(s) == \A k \in 1..Len(s) : s[k] = s[1] + k - 1 /\ s[k] \in Feed

First == entries[1]
Last == entries[Len(entries)]

\* The running batch has everything between since and the cursor, and
\* nothing older than the cursor arrives any more.
BatchInv ==
  pc # "idle" =>
    /\ entries = <<>> => cursor = since
    /\ entries # <<>> =>
         /\ \A i \in Feed : i < First => feed[i] < since
         /\ since <= cursor
         /\ \A i \in Feed : feed[i] < cursor => i <= Last
         /\ feed[Last] <= cursor
         /\ Closed(cursor)

\* There is room in the batch whenever an entry is asked for or read.
RoomInv ==
  /\ pc = "ask" => limit = 0 \/ Len(entries) < limit
  /\ pc = "page" => limit = 0 \/ Len(entries) <= limit
  /\ pc = "page" /\ at <= Len(page) => ~Full(entries)

\* The page joins the entries read so far without a gap.
PageInv ==
  pc = "page" =>
    /\ Stretch(page) /\ Len(page) <= pageSize
    /\ entries = <<>> => at = 1
    /\ page # <<>> =>
         /\ since <= feed[page[1]]
         /\ entries = <<>> => \A i \in Feed : i < page[1] => feed[i] < since
         /\ entries # <<>> => First <= page[1]
         /\ entries # <<>> /\ at <= Len(page) => page[at] <= Last + 1
    /\ at > 1 /\ ~Full(entries) =>
         entries # <<>> /\ at <= Len(page) + 1 /\ page[at - 1] <= Last

\* A page without news starts at the cursor, and when it is full it was as
\* long as the index allows.
NewsInv ==
  pc = "page" /\ page # <<>> =>
    /\ newEntries = 0 => cursor <= feed[page[1]]
    /\ newEntries = 0 /\ entries # <<>> /\ Len(page) = pageSize /\ page[Len(page)] <= Last =>
         pageSize = PageLimit
    /\ newEntries > 0 => entries # <<>> /\ Last <= page[Len(page)]

IInv ==
  /\ Types
  /\ Sorted /\ Shared
  /\ Closed(since) /\ NothingSkipped
  /\ Stretch(entries)
  /\ BatchInv /\ RoomInv /\ PageInv /\ NewsInv

-----------------------------------------------------------------------------
(* Stretches of the feed.                                                  *)

\* The elements of a stretch are what lies between its ends.
LEMMA StretchElems ==
  ASSUME NEW s \in Seq(Nat), s # <<>>, Stretch(s), NEW i \in Int
  PROVE  i \in Elems(s) <=> s[1] <= i /\ i <= s[Len(s)]
<1>1. Len(s) \in 1..Len(s) /\ 1 \in 1..Len(s)
  OBVIOUS
<1>2. \A k \in 1..Len(s) : s[k] = s[1] + k - 1
  BY DEF Stretch
<1>a. s[1] \in Nat /\ Len(s) \in Nat /\ s[Len(s)] = s[1] + Len(s) - 1
  BY <1>1, <1>2
<1>3. ASSUME s[1] <= i, i <= s[Len(s)]
      PROVE  \E k \in 1..Len(s) : s[k] = i
  <2>1. i - s[1] + 1 \in 1..Len(s)
    BY <1>a, <1>3
  <2>2. s[i - s[1] + 1] = i
    <3>1. s[i - s[1] + 1] = s[1] + (i - s[1] + 1) - 1
      BY <1>2, <2>1
    <3> QED
      BY <1>a, <3>1
  <2> QED
    BY <2>1, <2>2
<1>4. ASSUME NEW k \in 1..Len(s), s[k] = i
      PROVE  s[1] <= i /\ i <= s[Len(s)]
  <2>1. i = s[1] + k - 1
    BY <1>2, <1>4
  <2> QED
    BY <1>a, <2>1
<1> QED
  BY <1>3, <1>4 DEF Elems

\* Adding the position after the last one prolongs a stretch.
LEMMA StretchAppend ==
  ASSUME NEW s \in Seq(Nat), Stretch(s), NEW i \in Feed,
         s # <<>> => i = s[Len(s)] + 1
  PROVE  /\ Append(s, i) \in Seq(Nat)
         /\ Stretch(Append(s, i))
<1>1. Append(s, i) \in Seq(Nat) /\ Len(Append(s, i)) = Len(s) + 1
  BY DEF Feed
<1>2. CASE s = <<>>
  BY <1>1, <1>2 DEF Stretch, Feed
<1>3. CASE s # <<>>
  <2>1. i = s[1] + Len(s) /\ s[1] \in Nat
    BY <1>3 DEF Stretch
  <2>2. \A k \in 1..Len(s) : Append(s, i)[k] = s[k]
    OBVIOUS
  <2>3. Append(s, i)[Len(s) + 1] = i
    OBVIOUS
  <2>4. Append(s, i)[1] = s[1]
    <3>1. 1 \in 1..Len(s)
      BY <1>3
    <3> QED
      BY <2>2, <3>1
  <2>5. ASSUME NEW k \in 1..(Len(s) + 1)
        PROVE  Append(s, i)[k] = s[1] + k - 1 /\ Append(s, i)[k] \in Feed
    <3>1. CASE k \in 1..Len(s)
      BY <2>2, <3>1 DEF Stretch
    <3>2. CASE k = Len(s) + 1
      BY <2>1, <2>3, <3>2
    <3> QED
      BY <3>1, <3>2
  <2> QED
    BY <1>1, <2>4, <2>5 DEF Stretch
<1> QED
  BY <1>2, <1>3

\* An interval of positions in a set of positions is no larger than the set.
LEMMA IntervalFits ==
  ASSUME NEW a \in Int, NEW n \in Nat, NEW S, IsFiniteSet(S), a..(a + n - 1) \subseteq S
  PROVE  n <= Cardinality(S) /\ Cardinality(S) \in Nat
<1>1. Cardinality(a..(a + n - 1)) = n
  <2>1. CASE n = 0
    BY <2>1, FS_Interval
  <2>2. CASE n # 0
    BY <2>2, FS_Interval
  <2> QED
    BY <2>1, <2>2
<1>2. Cardinality(a..(a + n - 1)) <= Cardinality(S)
  BY FS_Subset
<1> QED
  BY <1>1, <1>2, FS_CardinalityType

-----------------------------------------------------------------------------
(* The index gains an entry.                                               *)

\* What Publish leaves of the feed.
LEMMA PublishFeed ==
  ASSUME IInv, Publish
  PROVE  \E t \in Nat :
           /\ feed' = Append(feed, t)
           /\ \A i \in Feed : feed[i] <= t
           /\ Len(feed) >= MaxShared => feed[Len(feed) - MaxShared + 1] # t
<1>1. PICK t \in 1..MaxTime :
        /\ \A i \in 1..Len(feed) : feed[i] <= t
        /\ Cardinality({i \in 1..Len(feed) : feed[i] = t}) < MaxShared
        /\ feed' = Append(feed, t)
  BY DEF Publish
<1> DEFINE a == Len(feed) - MaxShared + 1
           S == {i \in 1..Len(feed) : feed[i] = t}
<1>2. MaxShared \in Nat /\ MaxShared > 0 /\ Len(feed) \in Nat /\ t \in Nat /\ feed \in Seq(Nat)
  BY BoundsAssumption DEF IInv, Types
<1>3. ASSUME Len(feed) >= MaxShared, feed[a] = t
      PROVE  FALSE
  <2>1. a \in Feed
    BY <1>2, <1>3 DEF Feed
  <2>2. a..(a + MaxShared - 1) \subseteq S
    <3>1. ASSUME NEW i \in a..(a + MaxShared - 1)
          PROVE  i \in S
      <4>1. i \in Feed /\ a <= i
        BY <1>2, <1>3, <2>1 DEF Feed
      <4>2. feed[a] <= feed[i]
        BY <2>1, <4>1 DEF IInv, Sorted
      <4>3. feed[i] <= t /\ feed[i] \in Nat
        BY <1>1, <1>2, <4>1 DEF Feed
      <4> QED
        BY <1>2, <1>3, <4>1, <4>2, <4>3 DEF Feed
    <3> QED
      BY <3>1
  <2>3. IsFiniteSet(S)
    <3>1. IsFiniteSet(1..Len(feed))
      BY <1>2, FS_Interval
    <3> QED
      BY <3>1, FS_Subset
  <2>4. MaxShared <= Cardinality(S) /\ Cardinality(S) \in Nat
    <3>1. a \in Int
      BY <1>2
    <3> HIDE DEF a, S
    <3> QED
      BY <1>2, <2>2, <2>3, <3>1, IntervalFits
  <2> QED
    BY <1>1, <1>2, <2>4
<1> QED
  BY <1>1, <1>2, <1>3 DEF Feed

\* New entries arrive behind everything that was read.
LEMMA PublishInv ==
  ASSUME IInv, Publish
  PROVE  IInv'
<1>1. PICK t \in Nat :
        /\ feed' = Append(feed, t)
        /\ \A i \in Feed : feed[i] <= t
        /\ Len(feed) >= MaxShared => feed[Len(feed) - MaxShared + 1] # t
  BY PublishFeed
<1>2. UNCHANGED <<limit, pc, since, cursor, entries, collected, pageSize, page, at, newEntries>>
  BY DEF Publish, batch, request, loop
<1>3. /\ feed \in Seq(Nat) /\ feed' \in Seq(Nat) /\ Len(feed) \in Nat
      /\ Len(feed') = Len(feed) + 1 /\ feed'[Len(feed) + 1] = t
      /\ \A i \in Feed : feed'[i] = feed[i] /\ i \in Feed'
      /\ \A i \in Feed' : i \in Feed \/ i = Len(feed) + 1
  BY <1>1 DEF IInv, Types, Feed
<1>4. MaxShared \in Nat \ {0}
  BY BoundsAssumption
<1>5. ASSUME NEW c \in Nat, Closed(c)
      PROVE  c <= t /\ Closed(c)'
  <2>1. CASE c = 0
    BY <2>1 DEF Closed
  <2>2. CASE Len(feed) > 0 /\ feed[Len(feed)] >= c
    <3>1. Len(feed) \in Feed /\ feed[Len(feed)] \in Nat
      BY <1>3, <2>2 DEF Feed
    <3>2. feed[Len(feed)] <= t
      BY <1>1, <3>1
    <3> QED
      BY <1>3, <2>2, <3>1, <3>2 DEF Closed
  <2>3. CASE Len(feed) >= MaxShared /\ feed[Len(feed) - MaxShared + 1] = c - 1
    <3>1. Len(feed) - MaxShared + 1 \in Feed
      BY <1>3, <1>4, <2>3 DEF Feed
    <3>2. c - 1 <= t /\ c - 1 # t
      BY <1>1, <2>3, <3>1
    <3> QED
      BY <1>3, <3>2 DEF Closed
  <2> QED
    BY <1>5, <2>1, <2>2, <2>3 DEF Closed
<1>6. Types'
  BY <1>2, <1>3 DEF IInv, Types
<1>7. Sorted'
  <2>1. ASSUME NEW i \in Feed', NEW j \in Feed', i <= j
        PROVE  feed'[i] <= feed'[j]
    <3>1. CASE j \in Feed
      <4>1. i \in Feed
        BY <1>3, <2>1, <3>1 DEF Feed
      <4> QED
        BY <1>3, <2>1, <3>1, <4>1 DEF IInv, Sorted
    <3>2. CASE j = Len(feed) + 1
      <4>1. feed'[j] = t
        BY <1>3, <3>2
      <4>2. CASE i \in Feed
        BY <1>1, <1>3, <4>1, <4>2
      <4>3. CASE i = Len(feed) + 1
        BY <1>3, <4>1, <4>3
      <4> QED
        BY <1>3, <4>2, <4>3
    <3> QED
      BY <1>3, <3>1, <3>2
  <2> QED
    BY <2>1 DEF Sorted
<1>8. Shared'
  <2>1. ASSUME NEW i \in Feed', i + MaxShared \in Feed'
        PROVE  feed'[i] < feed'[i + MaxShared]
    <3>1. i \in Feed
      BY <1>3, <1>4, <2>1 DEF Feed
    <3>2. CASE i + MaxShared \in Feed
      BY <1>3, <3>1, <3>2 DEF IInv, Shared
    <3>3. CASE i + MaxShared = Len(feed) + 1
      <4>1. Len(feed) >= MaxShared /\ i = Len(feed) - MaxShared + 1
        BY <1>3, <1>4, <3>1, <3>3 DEF Feed
      <4>2. feed[i] <= t /\ feed[i] # t /\ feed[i] \in Nat
        BY <1>1, <1>3, <3>1, <4>1 DEF Feed
      <4> QED
        BY <1>3, <3>1, <3>3, <4>2
    <3> QED
      BY <1>3, <2>1, <3>2, <3>3
  <2> QED
    BY <2>1 DEF Shared
<1>9. Closed(since)' /\ NothingSkipped'
  <2>1. since \in Nat /\ Closed(since)
    BY DEF IInv, Types
  <2>2. since <= t /\ Closed(since)'
    BY <1>2, <1>5, <2>1 DEF Closed
  <2>3. ASSUME NEW i \in Feed', feed'[i] < since
        PROVE  i \in collected
    <3>1. i \in Feed
      BY <1>3, <2>1, <2>2, <2>3
    <3> QED
      BY <1>3, <2>3, <3>1 DEF IInv, NothingSkipped, Feed
  <2> QED
    BY <1>2, <2>2, <2>3 DEF NothingSkipped, Feed
<1>10. ASSUME NEW s \in Seq(Nat), Stretch(s)
       PROVE  \A k \in 1..Len(s) : s[k] = s[1] + k - 1 /\ s[k] \in Feed'
  BY <1>3, <1>10 DEF Stretch
<1>11. Stretch(entries)'
  BY <1>2, <1>10 DEF IInv, Types, Stretch
<1>12. BatchInv'
  <2>1. ASSUME pc # "idle", entries # <<>>
        PROVE  /\ \A i \in Feed' : i < First => feed'[i] < since
               /\ since <= cursor
               /\ \A i \in Feed' : feed'[i] < cursor => i <= Last
               /\ feed'[Last] <= cursor
               /\ Closed(cursor)'
    <3>1. /\ \A i \in Feed : i < First => feed[i] < since
          /\ since <= cursor
          /\ \A i \in Feed : feed[i] < cursor => i <= Last
          /\ feed[Last] <= cursor
          /\ Closed(cursor) /\ cursor \in Nat
      BY <2>1 DEF IInv, BatchInv, Types
    <3>2. First \in Feed /\ Last \in Feed
      BY <2>1 DEF IInv, Types, Stretch, First, Last
    <3>3. cursor <= t /\ Closed(cursor)'
      BY <1>2, <1>5, <3>1 DEF Closed
    <3>4. ~(Len(feed) + 1 < First)
      BY <1>3, <3>2 DEF Feed
    <3>5. ASSUME NEW i \in Feed'
          PROVE  /\ i < First => feed'[i] < since
                 /\ feed'[i] < cursor => i <= Last
      <4>1. CASE i \in Feed
        BY <1>3, <3>1, <4>1
      <4>2. CASE i = Len(feed) + 1
        BY <1>3, <3>1, <3>3, <3>4, <4>2
      <4> QED
        BY <1>3, <4>1, <4>2
    <3>6. feed'[Last] <= cursor
      BY <1>3, <3>1, <3>2
    <3> QED
      BY <3>1, <3>3, <3>5, <3>6
  <2> QED
    BY <1>2, <2>1 DEF IInv, BatchInv, First, Last
<1>13. RoomInv'
  BY <1>2 DEF IInv, RoomInv, Full
<1>14. PageInv'
  <2>1. CASE pc = "page"
    <3>1. Stretch(page)'
      BY <1>2, <1>10, <2>1 DEF IInv, Types, PageInv, Stretch
    <3>2. ASSUME page # <<>>
          PROVE  /\ page[1] \in Feed
                 /\ feed'[page[1]] = feed[page[1]]
                 /\ ~(Len(feed) + 1 < page[1])
      <4>1. page[1] \in Feed
        BY <2>1, <3>2 DEF IInv, Types, PageInv, Stretch
      <4> QED
        BY <1>3, <4>1 DEF Feed
    <3>3. ASSUME page # <<>>, entries = <<>>
          PROVE  \A i \in Feed' : i < page[1] => feed'[i] < since
      BY <1>3, <2>1, <3>2, <3>3 DEF IInv, PageInv
    <3> QED
      BY <1>2, <2>1, <3>1, <3>2, <3>3 DEF IInv, PageInv, Full, First, Last
  <2> QED
    BY <1>2, <2>1 DEF PageInv
<1>15. NewsInv'
  <2>1. CASE pc = "page" /\ page # <<>>
    <3>1. page[1] \in Feed
      BY <2>1 DEF IInv, Types, PageInv, Stretch
    <3>2. feed'[page[1]] = feed[page[1]]
      BY <1>3, <3>1
    <3> QED
      BY <1>2, <2>1, <3>2 DEF IInv, NewsInv, Last
  <2> QED
    BY <1>2, <2>1 DEF NewsInv
<1> QED
  BY <1>6, <1>7, <1>8, <1>9, <1>11, <1>12, <1>13, <1>14, <1>15 DEF IInv

-----------------------------------------------------------------------------
(* Batches and requests.                                                   *)

\* A batch starts empty at next_since of the last report.
LEMMA StartBatchInv ==
  ASSUME IInv, StartBatch
  PROVE  IInv'
<1>1. /\ UNCHANGED <<limit, feed, since, collected, pageSize, page, at, newEntries>>
      /\ pc' = "ask" /\ entries' = <<>> /\ cursor' = since
  BY DEF StartBatch, loop
<1>2. limit \in Nat /\ Len(entries') = 0
  BY <1>1 DEF IInv, Types
<1>3. Types' /\ Sorted' /\ Shared' /\ Closed(since)' /\ NothingSkipped'
  BY <1>1 DEF IInv, Types, Sorted, Shared, Closed, NothingSkipped, Feed
<1>4. Stretch(entries)'
  BY <1>1, <1>2 DEF Stretch
<1>5. BatchInv' /\ PageInv' /\ NewsInv'
  BY <1>1 DEF BatchInv, PageInv, NewsInv
<1>6. RoomInv'
  BY <1>1, <1>2 DEF RoomInv
<1> QED
  BY <1>3, <1>4, <1>5, <1>6 DEF IInv

\* A failed request changes nothing that was read.
LEMMA FaultInv ==
  ASSUME IInv, Fault
  PROVE  IInv'
<1>1. UNCHANGED <<limit, feed, since, cursor, entries, collected, pageSize, page, at, newEntries>>
  BY DEF Fault, batch, loop
<1>2. pc = "ask" /\ pc' \in {"ask", "idle"}
  BY DEF Fault
<1>3. Types' /\ Sorted' /\ Shared' /\ Closed(since)' /\ NothingSkipped' /\ Stretch(entries)'
  BY <1>1, <1>2 DEF IInv, Types, Sorted, Shared, Closed, NothingSkipped, Stretch, Feed
<1>4. BatchInv'
  BY <1>1, <1>2 DEF IInv, BatchInv, Closed, Feed, First, Last
<1>5. RoomInv' /\ PageInv' /\ NewsInv'
  BY <1>1, <1>2 DEF IInv, RoomInv, PageInv, NewsInv
<1> QED
  BY <1>3, <1>4, <1>5 DEF IInv

\* The size of a request is a number: what was seen at a time is finite.
LEMMA PageSizeNat ==
  ASSUME IInv, pc = "ask"
  PROVE  /\ NextPageSize \in Nat
         /\ IsFiniteSet({i \in Elems(entries) : feed[i] = cursor})
<1>1. /\ feed \in Seq(Nat) /\ entries \in Seq(Nat) /\ Stretch(entries)
      /\ limit \in Nat /\ PageLimit \in Nat /\ Len(feed) \in Nat
      /\ limit = 0 \/ limit - Len(entries) > 0
  BY BoundsAssumption DEF IInv, Types, RoomInv
<1> DEFINE S == {i \in Elems(entries) : feed[i] = cursor}
<1>2. IsFiniteSet(S)
  <2>1. IsFiniteSet(1..Len(feed))
    BY <1>1, FS_Interval
  <2>2. S \subseteq 1..Len(feed)
    BY <1>1 DEF Elems, Stretch, Feed
  <2> QED
    BY <2>1, <2>2, FS_Subset
<1>3. SeenAt(cursor) = Cardinality(S) /\ Cardinality(S) \in Nat
  BY <1>2, FS_CardinalityType DEF SeenAt
<1>4. NextPageSize \in Nat
  BY <1>1, <1>3 DEF NextPageSize, Smaller
<1> QED
  BY <1>2, <1>4

\* A full page of entries the batch already has is as long as a page can be:
\* shorter ones make room for every entry seen at the cursor.
LEMMA FullPageIsLong ==
  ASSUME IInv, pc = "ask", entries # <<>>,
         NEW first \in 1..(Len(feed) + 1),
         \A i \in 1..Len(feed) : feed[i] < cursor <=> i < first,
         First <= first,
         first + NextPageSize - 1 <= Last
  PROVE  NextPageSize = PageLimit
<1>1. /\ feed \in Seq(Nat) /\ entries \in Seq(Nat) /\ Stretch(entries)
      /\ limit \in Nat /\ cursor \in Nat /\ PageLimit \in Nat
      /\ Len(feed) \in Nat
      /\ limit = 0 \/ limit - Len(entries) > 0
      /\ feed[Last] <= cursor
  BY BoundsAssumption DEF IInv, Types, BatchInv, RoomInv
<1>2. First \in Feed /\ Last \in Feed
  BY <1>1 DEF Stretch, First, Last
<1>a. \A i \in 1..Len(feed) : feed[i] \in Nat
  BY <1>1
<1>b. \A i \in 1..Len(feed) : i >= first => ~(feed[i] < cursor)
  OBVIOUS
<1> DEFINE S == {i \in Elems(entries) : feed[i] = cursor}
<1>3. IsFiniteSet(S) /\ NextPageSize \in Nat
  BY PageSizeNat
<1>4. SeenAt(cursor) = Cardinality(S) /\ Cardinality(S) \in Nat
  BY <1>3, FS_CardinalityType DEF SeenAt
<1>5. first..(first + NextPageSize - 1) \subseteq S
  <2>1. ASSUME NEW i \in first..(first + NextPageSize - 1)
        PROVE  i \in S
    <3>1. i \in Int /\ First <= i /\ i <= Last /\ first <= i
      BY <1>2, <1>3, <2>1 DEF Feed
    <3>2. i \in Elems(entries)
      BY <1>1, <3>1, StretchElems DEF First, Last
    <3>3. i \in Feed /\ feed[i] \in Nat
      <4>1. First \in 1..Len(feed) /\ Last \in 1..Len(feed)
        BY <1>2 DEF Feed
      <4>2. i \in 1..Len(feed)
        BY <1>1, <3>1, <4>1
      <4> QED
        BY <1>a, <4>2, Zenon DEF Feed
    <3>4. ~(feed[i] < cursor)
      <4>1. i \in 1..Len(feed) /\ i >= first
        BY <3>1, <3>3 DEF Feed
      <4> QED
        BY <1>b, <4>1, Zenon
    <3>5. feed[i] <= feed[Last] /\ feed[Last] \in Nat
      <4>1. feed[Last] \in Nat
        BY <1>a, <1>2, Zenon DEF Feed
      <4> QED
        BY <1>2, <3>1, <3>3, <4>1 DEF IInv, Sorted
    <3>6. feed[i] = cursor
      <4>1. feed[Last] <= cursor /\ cursor \in Nat
        BY <1>1
      <4> QED
        BY <3>3, <3>4, <3>5, <4>1
    <3> QED
      BY <3>2, <3>6, Zenon
  <2> QED
    BY <2>1
<1>6. NextPageSize <= SeenAt(cursor)
  <2>1. first \in Int
    BY <1>1
  <2> HIDE DEF S
  <2> QED
    BY <1>3, <1>4, <1>5, <2>1, IntervalFits
<1> QED
  BY <1>1, <1>3, <1>4, <1>6 DEF NextPageSize, Smaller

\* An answer starts at the oldest entry from the cursor on.
LEMMA RespondInv ==
  ASSUME IInv, Respond
  PROVE  IInv'
<1> DEFINE size == NextPageSize
<1>1. PICK first \in 1..(Len(feed) + 1) :
        /\ \A i \in 1..Len(feed) : feed[i] < cursor <=> i < first
        /\ page' = Answer(first, size)
  BY DEF Respond
<1>2. /\ UNCHANGED <<limit, feed, since, cursor, entries, collected>>
      /\ pc = "ask" /\ pc' = "page" /\ pageSize' = size /\ at' = 1 /\ newEntries' = 0
  BY DEF Respond, batch
<1>3. size \in Nat
  BY <1>2, PageSizeNat
<1> DEFINE n == Smaller(Len(feed) - first + 1, size)
<1>4. /\ feed \in Seq(Nat) /\ Len(feed) \in Nat /\ entries \in Seq(Nat)
      /\ cursor \in Nat /\ since \in Nat /\ first \in Nat \ {0}
  BY DEF IInv, Types
<1>6. page' = [k \in 1..n |-> first + k - 1]
  BY <1>1 DEF Answer
<1> HIDE DEF size
<1>5. /\ n \in Nat /\ n <= size /\ n <= Len(feed) - first + 1
      /\ n = size \/ n = Len(feed) - first + 1
  BY <1>3, <1>4 DEF Smaller
<1> HIDE DEF n
<1>7. /\ page' \in Seq(Nat) /\ Len(page') = n
      /\ \A k \in 1..n : page'[k] = first + k - 1 /\ page'[k] \in Feed
  <2>1. \A k \in 1..n : first + k - 1 \in Nat /\ first + k - 1 \in Feed
    BY <1>4, <1>5 DEF Feed
  <2>2. page' \in [1..n -> Nat]
    BY <1>6, <2>1
  <2>3. page' \in Seq(Nat) /\ Len(page') = n
    BY <1>5, <2>2
  <2> QED
    BY <1>6, <2>1, <2>3
<1>8. ASSUME page' # <<>>
      PROVE  n > 0 /\ page'[1] = first /\ first \in Feed /\ ~(feed[first] < cursor)
  <2>1. n > 0
    BY <1>5, <1>7, <1>8
  <2>2. page'[1] = first /\ first \in Feed
    BY <1>4, <1>5, <1>7, <2>1
  <2> QED
    BY <1>1, <1>4, <2>1, <2>2 DEF Feed
<1>9. entries # <<>> =>
        /\ \A i \in Feed : i < First => feed[i] < since
        /\ since <= cursor
        /\ \A i \in Feed : feed[i] < cursor => i <= Last
        /\ First \in Feed /\ Last \in Feed
  BY <1>2, <1>4 DEF IInv, BatchInv, Stretch, First, Last
<1>10. ASSUME page' # <<>>, entries # <<>>
       PROVE  First <= first /\ first <= Last + 1
  <2>1. ~(first < First)
    <3>1. first \in Feed /\ ~(feed[first] < cursor) /\ since <= cursor
      BY <1>8, <1>9, <1>10
    <3>2. feed[first] \in Nat /\ since \in Nat /\ cursor \in Nat
      BY <3>1 DEF IInv, Types, Feed
    <3>3. first < First => feed[first] < since
      BY <1>9, <1>10, <3>1
    <3> QED
      BY <3>1, <3>2, <3>3
  <2>2. CASE first = 1
    BY <1>4, <1>9, <1>10, <2>1, <2>2 DEF Feed
  <2>3. CASE first # 1
    <3>1. first - 1 \in Feed /\ first - 1 < first
      BY <1>4, <2>3 DEF Feed
    <3>2. feed[first - 1] < cursor
      BY <1>1, <3>1 DEF Feed
    <3>3. first - 1 <= Last
      BY <1>9, <1>10, <3>1, <3>2
    <3> QED
      BY <1>4, <1>9, <1>10, <2>1, <3>3 DEF Feed
  <2> QED
    BY <2>2, <2>3
<1>11. Types' /\ Sorted' /\ Shared' /\ Closed(since)' /\ NothingSkipped' /\ Stretch(entries)'
  BY <1>2, <1>3, <1>7 DEF IInv, Types, Sorted, Shared, Closed, NothingSkipped, Stretch, Feed
<1>12. BatchInv'
  BY <1>2 DEF IInv, BatchInv, Closed, Feed, First, Last
<1>13. RoomInv'
  <2>1. limit \in Nat
    BY DEF IInv, Types
  <2> QED
    BY <1>2, <1>4, <2>1 DEF IInv, RoomInv, Full
<1>14. PageInv'
  <2>1. Stretch(page)' /\ Len(page') <= pageSize'
    <3>1. \A k \in 1..n : page'[1] = first
      BY <1>4, <1>5, <1>7
    <3> QED
      BY <1>2, <1>5, <1>7, <3>1 DEF Stretch, Feed
  <2>2. ASSUME page' # <<>>
        PROVE  /\ since <= feed[page'[1]]
               /\ entries = <<>> => \A i \in Feed : i < page'[1] => feed[i] < since
    <3>1. feed[first] \in Nat
      BY <1>4, <1>8, <2>2 DEF Feed
    <3>2. since <= cursor /\ (entries = <<>> => cursor = since)
      BY <1>2, <1>4, <1>9 DEF IInv, BatchInv
    <3>3. \A i \in Feed : i < first => feed[i] < cursor
      BY <1>1 DEF Feed
    <3> QED
      BY <1>4, <1>8, <2>2, <3>1, <3>2, <3>3
  <2>3. ASSUME page' # <<>>, entries # <<>>
        PROVE  First <= page'[1] /\ page'[1] <= Last + 1
    BY <1>8, <1>10, <2>3
  <2>4. ~(at' > 1)
    BY <1>2
  <2> QED
    BY <1>2, <2>1, <2>2, <2>3, <2>4 DEF PageInv, First, Last, Feed
<1>15. NewsInv'
  <2>1. ASSUME page' # <<>>
        PROVE  cursor <= feed[page'[1]]
    <3>1. feed[first] \in Nat
      BY <1>4, <1>8, <2>1 DEF Feed
    <3> QED
      BY <1>4, <1>8, <2>1, <3>1
  <2>2. ASSUME page' # <<>>, entries # <<>>, Len(page') = size, page'[Len(page')] <= Last
        PROVE  size = PageLimit
    <3>1. First <= first
      BY <1>10, <2>2
    <3>2. page'[n] = first + size - 1
      BY <1>5, <1>7, <1>8, <2>2
    <3>3. first + size - 1 <= Last
      BY <1>7, <2>2, <3>2
    <3> QED
      BY <1>1, <1>2, <2>2, <3>1, <3>3, FullPageIsLong DEF size
  <2>3. ~(newEntries' > 0)
    BY <1>2
  <2> QED
    BY <1>2, <2>1, <2>2, <2>3 DEF NewsInv, Last
<1> QED
  BY <1>11, <1>12, <1>13, <1>14, <1>15 DEF IInv

-----------------------------------------------------------------------------
(* Reading a page.                                                         *)

\* The entry under the loop is one the batch has, or the one after its last.
LEMMA NextEntry ==
  ASSUME IInv, pc = "page", at <= Len(page)
  PROVE  /\ at \in 1..Len(page) /\ page # <<>>
         /\ page[at] \in Feed /\ page[at] = page[1] + at - 1
         /\ page[1] \in Feed /\ page[1] <= page[at]
         /\ Seen(page[at]) <=> entries # <<>> /\ page[at] <= Last
         /\ entries # <<>> /\ ~Seen(page[at]) => page[at] = Last + 1
<1>1. /\ page \in Seq(Nat) /\ entries \in Seq(Nat) /\ at \in Nat \ {0}
      /\ Stretch(page) /\ Stretch(entries)
  BY DEF IInv, Types, PageInv
<1>2. at \in 1..Len(page) /\ 1 \in 1..Len(page) /\ page # <<>>
  BY <1>1
<1>3. page[at] \in Feed /\ page[at] = page[1] + at - 1 /\ page[1] \in Feed
  BY <1>1, <1>2 DEF Stretch
<1>4. page[1] \in Int /\ page[at] \in Int /\ page[1] <= page[at]
  BY <1>2, <1>3 DEF Feed
<1>5. CASE entries = <<>>
  <2>1. Elems(entries) = {}
    BY <1>5 DEF Elems
  <2> QED
    BY <1>2, <1>3, <1>4, <1>5, <2>1 DEF Seen
<1>6. CASE entries # <<>>
  <2>1. First <= page[1] /\ page[at] <= Last + 1
    BY <1>2, <1>6 DEF IInv, PageInv
  <2>2. First \in Int /\ Last \in Int
    BY <1>1, <1>6 DEF First, Last
  <2>3. Seen(page[at]) <=> First <= page[at] /\ page[at] <= Last
    BY <1>1, <1>4, <1>6, StretchElems DEF Seen, First, Last
  <2> QED
    BY <1>2, <1>3, <1>4, <1>6, <2>1, <2>2, <2>3
<1> QED
  BY <1>5, <1>6

\* The loop over the page drops what was seen and takes the rest in order.
LEMMA ReadEntryInv ==
  ASSUME IInv, ReadEntry
  PROVE  IInv'
<1>1. /\ UNCHANGED <<limit, feed, pc, since, collected, pageSize, page>>
      /\ pc = "page" /\ at <= Len(page)
  BY DEF ReadEntry, request
<1> DEFINE i == page[at]
<1>2. /\ page \in Seq(Nat) /\ entries \in Seq(Nat) /\ at \in Nat \ {0}
      /\ feed \in Seq(Nat) /\ since \in Nat /\ limit \in Nat /\ newEntries \in Nat
  BY DEF IInv, Types
<1>a. \A j \in Feed : feed[j] \in Nat
  BY <1>2 DEF Feed
<1>b. Stretch(page) /\ Stretch(entries) /\ ~Full(entries)
  BY <1>1 DEF IInv, PageInv, RoomInv
<1>3. /\ at \in 1..Len(page) /\ page # <<>>
      /\ i \in Feed /\ i = page[1] + at - 1
      /\ page[1] \in Feed /\ page[1] <= i
      /\ i \in Nat /\ page[1] \in Nat
  BY <1>1, NextEntry DEF Feed
<1>c. /\ Seen(i) <=> entries # <<>> /\ i <= Last
      /\ entries # <<>> /\ ~Seen(i) => i = Last + 1
  BY <1>1, NextEntry
<1>4. at + 1 <= Len(page) => page[at + 1] = i + 1
  <2>1. at + 1 <= Len(page) => page[at + 1] = page[1] + (at + 1) - 1
    BY <1>2, <1>b DEF Stretch
  <2> QED
    BY <1>2, <1>3, <2>1
<1>5. i <= page[Len(page)]
  <2>1. page[Len(page)] = page[1] + Len(page) - 1
    BY <1>2, <1>3, <1>b DEF Stretch
  <2> QED
    BY <1>2, <1>3, <2>1
<1> HIDE DEF i
<1>6. Sorted' /\ Shared' /\ Closed(since)' /\ NothingSkipped'
  BY <1>1 DEF IInv, Sorted, Shared, Closed, NothingSkipped, Feed
<1>7. CASE Seen(i) /\ at' = at + 1 /\ UNCHANGED <<cursor, entries, newEntries>>
  <2>1. Types' /\ Stretch(entries)'
    BY <1>1, <1>2, <1>b, <1>7 DEF IInv, Types, Stretch, Feed
  <2>2. BatchInv'
    BY <1>1, <1>7 DEF IInv, BatchInv, Closed, Feed, First, Last
  <2>3. RoomInv'
    BY <1>1, <1>2, <1>b, <1>7 DEF IInv, RoomInv, Full
  <2>4. PageInv'
    <3>1. /\ Stretch(page)' /\ Len(page') <= pageSize'
          /\ entries' # <<>>
          /\ since' <= feed'[page'[1]] /\ First' <= page'[1]
      BY <1>1, <1>3, <1>c, <1>7 DEF IInv, PageInv, Stretch, Feed, First
    <3>2. at' <= Len(page') => page'[at'] <= Last' + 1
      <4>1. Last \in Int /\ i <= Last
        BY <1>2, <1>c, <1>7 DEF Last
      <4>2. page' = page /\ at' = at + 1 /\ Last' = Last
        BY <1>1, <1>7 DEF Last
      <4>3. at + 1 <= Len(page) => page[at + 1] <= Last + 1
        BY <1>3, <1>4, <4>1
      <4> QED
        BY <4>2, <4>3
    <3>3. at' <= Len(page') + 1 /\ page'[at' - 1] <= Last'
      <4>1. page'[at' - 1] = i
        BY <1>1, <1>2, <1>7 DEF i
      <4> QED
        BY <1>1, <1>2, <1>3, <1>c, <1>7, <4>1 DEF Last
    <3> QED
      BY <3>1, <3>2, <3>3 DEF PageInv
  <2>5. NewsInv'
    BY <1>1, <1>7 DEF IInv, NewsInv, Last
  <2> QED
    BY <1>6, <2>1, <2>2, <2>3, <2>4, <2>5 DEF IInv
<1>8. CASE /\ ~Seen(i)
           /\ entries' = Append(entries, i)
           /\ newEntries' = newEntries + 1
           /\ cursor' = feed[i]
           /\ at' = IF Full(entries') THEN Len(page) + 1 ELSE at + 1
  <2>1. i \in Nat /\ feed[i] \in Nat /\ i \in Feed'
    <3>1. Feed' = Feed
      BY <1>1 DEF Feed
    <3> QED
      BY <1>3, <1>a, <3>1
  <2>2. /\ entries' \in Seq(Nat) /\ Stretch(entries')
        /\ Len(entries') = Len(entries) + 1 /\ entries' # <<>>
    <3>1. entries # <<>> => i = entries[Len(entries)] + 1
      BY <1>c, <1>8 DEF Last
    <3>2. Append(entries, i) \in Seq(Nat) /\ Stretch(Append(entries, i))
      BY <1>2, <1>3, <1>b, <3>1, StretchAppend
    <3>3. Len(Append(entries, i)) = Len(entries) + 1 /\ Append(entries, i) # <<>>
      <4>1. Len(Append(entries, i)) = Len(entries) + 1 /\ Len(entries) \in Nat
        BY <1>2, <1>3
      <4> QED
        BY <3>2, <4>1
    <3> QED
      BY <1>8, <3>2, <3>3, Zenon
  <2>3. Last' = i
    BY <1>2, <1>8, <2>1, <2>2 DEF Last
  <2>4. /\ entries = <<>> => First' = i /\ at = 1 /\ i = page[1]
        /\ entries # <<>> => First' = First
    <3>1. entries = <<>> => at = 1
      BY <1>1 DEF IInv, PageInv
    <3>2. at = 1 => i = page[1]
      BY DEF i
    <3>3. entries = <<>> => Append(entries, i)[1] = i
      OBVIOUS
    <3>4. entries # <<>> => Append(entries, i)[1] = entries[1]
      BY <1>2
    <3> QED
      BY <1>8, <3>1, <3>2, <3>3, <3>4 DEF First
  <2>5. Types' /\ Stretch(entries)'
    <3>1. at' \in Nat \ {0}
      BY <1>2, <1>8
    <3>2. Stretch(entries)'
      BY <1>1, <2>2 DEF Stretch, Feed
    <3> QED
      BY <1>1, <1>2, <1>8, <2>1, <2>2, <3>1, <3>2 DEF IInv, Types
  <2>6. BatchInv'
    <3>1. \A j \in Feed : j < First' => feed[j] < since
      BY <1>1, <1>3, <2>4 DEF IInv, BatchInv, PageInv
    <3>2. since <= feed[i]
      <4>1. since <= feed[page[1]] /\ feed[page[1]] <= feed[i]
        BY <1>1, <1>3 DEF IInv, PageInv, Sorted
      <4>2. feed[page[1]] \in Nat
        BY <1>3, <1>a
      <4> QED
        BY <1>2, <2>1, <4>1, <4>2
    <3>3. ASSUME NEW j \in Feed, feed[j] < feed[i]
          PROVE  j <= i
      <4>1. j \in Nat /\ feed[j] \in Nat
        BY <1>2 DEF Feed
      <4>2. i <= j => feed[i] <= feed[j]
        BY <1>3 DEF IInv, Sorted
      <4> QED
        BY <2>1, <3>3, <4>1, <4>2
    <3>4. Len(feed) > 0 /\ feed[Len(feed)] >= feed[i]
      <4>1. Len(feed) \in Feed /\ i <= Len(feed) /\ Len(feed) > 0
        <5>1. Len(feed) \in Nat /\ i \in 1..Len(feed)
          BY <1>2, <1>3 DEF Feed
        <5> QED
          BY <2>1, <5>1 DEF Feed
      <4>2. feed[i] <= feed[Len(feed)] /\ feed[Len(feed)] \in Nat
        BY <1>3, <1>a, <4>1 DEF IInv, Sorted
      <4> QED
        BY <2>1, <4>1, <4>2
    <3>5. Closed(cursor)'
      BY <1>1, <1>8, <3>4 DEF Closed
    <3> QED
      BY <1>1, <1>8, <2>1, <2>2, <2>3, <3>1, <3>2, <3>3, <3>5 DEF BatchInv, Feed
  <2>7. RoomInv'
    <3>1. limit = 0 \/ Len(entries') <= limit
      BY <1>1, <1>2, <1>b, <2>2 DEF IInv, RoomInv, Full
    <3>2. at' <= Len(page) => ~Full(entries')
      BY <1>2, <1>8
    <3> QED
      BY <1>1, <3>1, <3>2 DEF RoomInv, Full
  <2>8. PageInv'
    <3>1. /\ Stretch(page)' /\ Len(page') <= pageSize'
          /\ since' <= feed'[page'[1]]
      BY <1>1, <1>3 DEF IInv, PageInv, Stretch, Feed
    <3>2. First' <= page'[1]
      BY <1>1, <1>3, <2>1, <2>4 DEF IInv, PageInv
    <3>3. at' <= Len(page') => page'[at'] <= Last' + 1
      <4>1. at' <= Len(page) => at' = at + 1
        BY <1>2, <1>8
      <4>2. at' <= Len(page) => page[at'] = i + 1
        BY <1>4, <4>1
      <4> QED
        BY <1>1, <2>1, <2>3, <4>2
    <3>4. ~Full(entries') => at' <= Len(page') + 1 /\ page'[at' - 1] <= Last'
      <4>1. ASSUME ~Full(entries')
            PROVE  at' = at + 1 /\ page'[at' - 1] = i
        BY <1>1, <1>2, <1>8, <4>1 DEF i
      <4> QED
        BY <1>1, <1>2, <1>3, <2>1, <2>3, <4>1
    <3> QED
      BY <1>1, <2>2, <3>1, <3>2, <3>3, <3>4 DEF PageInv, Full
  <2>9. NewsInv'
    <3>1. newEntries' > 0 /\ ~(newEntries' = 0)
      BY <1>2, <1>8
    <3>2. Last' <= page'[Len(page')]
      BY <1>1, <1>5, <2>3
    <3> QED
      BY <2>2, <3>1, <3>2 DEF NewsInv
  <2> QED
    BY <1>6, <2>5, <2>6, <2>7, <2>8, <2>9 DEF IInv
<1> QED
  BY <1>7, <1>8 DEF ReadEntry, i

\* The report closes what was read; the next cursor leaves nothing behind,
\* and the tick over a full page without news skips no entry either.
LEMMA EndPageInv ==
  ASSUME IInv, EndPage
  PROVE  IInv'
<1>1. /\ UNCHANGED <<limit, feed, entries, pageSize, page, at, newEntries>>
      /\ pc = "page" /\ at > Len(page)
  BY DEF EndPage, request, loop
<1>2. /\ page \in Seq(Nat) /\ entries \in Seq(Nat) /\ at \in Nat \ {0}
      /\ feed \in Seq(Nat) /\ since \in Nat /\ cursor \in Nat /\ limit \in Nat
      /\ newEntries \in Nat /\ pageSize \in Nat /\ Len(feed) \in Nat
  BY DEF IInv, Types
<1>3. \A j \in Feed : feed[j] \in Nat /\ j \in Nat
  BY <1>2 DEF Feed
<1>4. Stretch(page) /\ Stretch(entries) /\ Len(page) <= pageSize
  BY <1>1 DEF IInv, PageInv
<1>5. Sorted' /\ Shared'
  BY <1>1 DEF IInv, Sorted, Shared, Feed
<1>6. entries # <<>> =>
        /\ \A i \in Feed : i < First => feed[i] < since
        /\ since <= cursor
        /\ \A i \in Feed : feed[i] < cursor => i <= Last
        /\ feed[Last] <= cursor
        /\ Closed(cursor)
  BY <1>1 DEF IInv, BatchInv
<1>7. entries # <<>> => First \in Feed /\ Last \in Feed
  BY <1>2, <1>4 DEF Stretch, First, Last
<1>8. CASE /\ pc' = "idle"
           /\ since' = cursor
           /\ collected' = collected \cup Elems(entries)
           /\ UNCHANGED cursor
  <2>1. Types' /\ Stretch(entries)'
    BY <1>1, <1>2, <1>4, <1>8 DEF IInv, Types, Stretch, Feed
  <2>2. Closed(since)'
    <3>1. Closed(cursor)
      BY <1>1, <1>6 DEF IInv, BatchInv
    <3> QED
      BY <1>1, <1>8, <3>1 DEF Closed
  <2>3. NothingSkipped'
    <3>1. ASSUME NEW i \in Feed, feed[i] < cursor
          PROVE  i \in collected'
      <4>1. CASE entries = <<>>
        <5>1. cursor = since
          BY <1>1, <4>1 DEF IInv, BatchInv
        <5> QED
          BY <1>8, <3>1, <5>1 DEF IInv, NothingSkipped, Feed
      <4>2. CASE entries # <<>> /\ i < First
        BY <1>6, <1>8, <4>2 DEF IInv, NothingSkipped, Feed
      <4>3. CASE entries # <<>> /\ ~(i < First)
        <5>1. First <= i /\ i <= Last
          BY <1>3, <1>6, <1>7, <3>1, <4>3
        <5>2. i \in Elems(entries)
          BY <1>2, <1>3, <1>4, <4>3, <5>1, StretchElems DEF First, Last
        <5> QED
          BY <1>8, <5>2
      <4> QED
        BY <4>1, <4>2, <4>3
    <3> QED
      BY <1>1, <1>8, <3>1 DEF NothingSkipped, Feed
  <2>4. BatchInv' /\ RoomInv' /\ PageInv' /\ NewsInv'
    BY <1>8 DEF BatchInv, RoomInv, PageInv, NewsInv
  <2> QED
    BY <1>5, <2>1, <2>2, <2>3, <2>4 DEF IInv
<1>9. CASE ~LastPage /\ pc' = "ask" /\ cursor' = NextCursor /\ UNCHANGED <<since, collected>>
  <2> DEFINE n == Len(page)
             i == page[Len(page)]
  <2>1. page # <<>> /\ ~Full(entries) /\ n = pageSize
    BY <1>2, <1>4, <1>9 DEF LastPage
  <2>2. /\ n \in Nat /\ n > 0 /\ page[1] \in Feed /\ i \in Feed
        /\ i = page[1] + n - 1
    BY <1>2, <1>4, <2>1 DEF Stretch
  <2>3. at > 1
    BY <1>1, <1>2, <2>2
  <2>4. entries # <<>> /\ page[at - 1] <= Last /\ at = n + 1
    <3>1. entries # <<>> /\ at <= n + 1 /\ page[at - 1] <= Last
      BY <1>1, <2>1, <2>3 DEF IInv, PageInv
    <3> QED
      BY <1>1, <1>2, <3>1
  <2>5. i <= Last
    BY <2>2, <2>4
  <2>6. /\ since <= feed[page[1]]
        /\ newEntries = 0 => cursor <= feed[page[1]] /\ pageSize = PageLimit
        /\ newEntries > 0 => Last <= i
    BY <1>1, <2>1, <2>4, <2>5 DEF IInv, PageInv, NewsInv
  <2> HIDE DEF n, i
  <2>7. /\ feed[i] \in Nat /\ feed[page[1]] \in Nat /\ feed[Last] \in Nat
        /\ Last \in Nat /\ i \in Nat /\ page[1] \in Nat
    BY <1>3, <1>7, <2>2, <2>4
  <2>8. feed[page[1]] <= feed[i] /\ feed[i] <= feed[Last]
    <3>1. page[1] <= i /\ i <= Last
      BY <2>2, <2>5, <2>7
    <3> QED
      BY <1>7, <2>2, <2>4, <3>1 DEF IInv, Sorted
  <2> DEFINE Good(c) == /\ c \in Nat /\ since <= c /\ feed[Last] <= c /\ Closed(c)
                        /\ \A j \in Feed : feed[j] < c => j <= Last
  <2>9. ASSUME newEntries = 0, feed[i] = cursor
        PROVE  Good(cursor')
    <3>1. cursor' = cursor + 1
      BY <1>9, <2>9 DEF NextCursor, LastTime, i
    <3>2. /\ PageLimit \in Nat /\ MaxShared \in Nat \ {0} /\ MaxShared <= PageLimit
          /\ i = page[1] + PageLimit - 1
      BY <2>1, <2>2, <2>6, <2>9, BoundsAssumption, SharedAssumption
    <3>3. feed[page[1]] = cursor
      <4>1. cursor <= feed[page[1]] /\ cursor \in Nat
        BY <1>2, <2>6, <2>9
      <4>2. feed[page[1]] <= cursor
        BY <2>8, <2>9
      <4> QED
        BY <2>7, <4>1, <4>2
    <3>4. ASSUME NEW j \in Feed, feed[j] = cursor
          PROVE  j <= i
      <4>1. SUFFICES ASSUME i < j PROVE FALSE
        BY <1>3, <2>7
      <4>2. page[1] + MaxShared \in Feed /\ page[1] + MaxShared <= j
        <5>1. j \in Nat /\ j <= Len(feed)
          BY <1>2 DEF Feed
        <5>2. page[1] + MaxShared <= j
          BY <2>7, <3>2, <4>1, <5>1
        <5>3. 1 <= page[1]
          BY <2>2 DEF Feed
        <5>4. page[1] + MaxShared \in Nat /\ 1 <= page[1] + MaxShared
          BY <2>7, <3>2, <5>3
        <5>5. page[1] + MaxShared <= Len(feed) /\ Len(feed) \in Nat
          BY <1>2, <5>1, <5>2, <5>4
        <5> QED
          BY <5>2, <5>4, <5>5 DEF Feed
      <4>3. feed[page[1]] < feed[page[1] + MaxShared]
        BY <2>2, <4>2 DEF IInv, Shared
      <4>4. feed[page[1] + MaxShared] <= feed[j]
        BY <4>2 DEF IInv, Sorted
      <4>5. feed[page[1] + MaxShared] \in Nat
        BY <1>3, <4>2
      <4> QED
        BY <1>2, <3>3, <3>4, <4>3, <4>4, <4>5
    <3>5. ASSUME NEW j \in Feed, feed[j] < cursor + 1
          PROVE  j <= Last
      <4>1. feed[j] \in Nat /\ j \in Nat
        BY <1>3
      <4>2. CASE feed[j] < cursor
        BY <1>6, <2>4, <4>2
      <4>3. CASE feed[j] = cursor
        BY <2>5, <2>7, <3>4, <4>1, <4>3 DEF i
      <4> QED
        BY <1>2, <3>5, <4>1, <4>2, <4>3
    <3>6. Closed(cursor + 1)
      <4>1. Len(feed) \in Feed /\ feed[Len(feed)] \in Nat /\ i <= Len(feed) /\ Len(feed) > 0
        BY <1>2, <1>3, <2>2 DEF Feed
      <4>2. feed[i] <= feed[Len(feed)]
        BY <2>2, <4>1 DEF IInv, Sorted
      <4>3. CASE feed[Len(feed)] > cursor
        BY <1>2, <4>1, <4>3 DEF Closed
      <4>4. CASE feed[Len(feed)] = cursor
        <5>1. Len(feed) = i
          BY <1>2, <2>7, <3>4, <4>1, <4>4
        <5> DEFINE k == Len(feed) - MaxShared + 1
        <5>2. Len(feed) >= MaxShared /\ k \in Feed /\ page[1] <= k /\ k <= i
          <6>1. 1 <= page[1]
            BY <2>2 DEF Feed
          <6>2. k \in Int /\ page[1] <= k /\ k <= i /\ i >= MaxShared
            <7>1. /\ i \in Int /\ page[1] \in Int /\ MaxShared \in Int /\ PageLimit \in Int
                  /\ MaxShared >= 1 /\ MaxShared <= PageLimit
                  /\ i = page[1] + PageLimit - 1
              BY <2>7, <3>2
            <7>2. k = i - MaxShared + 1
              BY <5>1
            <7> HIDE DEF k
            <7> QED
              BY <6>1, <7>1, <7>2
          <6> QED
            BY <1>2, <2>7, <5>1, <6>1, <6>2 DEF Feed
        <5>3. feed[page[1]] <= feed[k] /\ feed[k] <= feed[i] /\ feed[k] \in Nat
          BY <1>3, <2>2, <5>2 DEF IInv, Sorted
        <5>4. feed[k] = cursor
          BY <1>2, <2>9, <3>3, <5>3
        <5> QED
          BY <1>2, <5>2, <5>4 DEF Closed
      <4> QED
        BY <1>2, <2>9, <4>1, <4>2, <4>3, <4>4
    <3>7. cursor + 1 \in Nat /\ since <= cursor + 1 /\ feed[Last] <= cursor + 1
      BY <1>2, <1>6, <2>4, <2>7
    <3>8. Good(cursor + 1)
      BY <3>5, <3>6, <3>7
    <3> HIDE DEF Good
    <3> QED
      BY <3>1, <3>8
  <2>10. ASSUME ~(newEntries = 0 /\ feed[i] = cursor)
         PROVE  Good(cursor')
    <3>1. cursor' = feed[i]
      BY <1>9, <2>10 DEF NextCursor, LastTime, i
    <3>2. newEntries > 0
      <4>1. SUFFICES ASSUME newEntries = 0 PROVE FALSE
        BY <1>2
      <4>2. cursor <= feed[page[1]] /\ feed[Last] <= cursor
        BY <1>6, <2>4, <2>6, <4>1
      <4> QED
        BY <1>2, <2>7, <2>8, <2>10, <4>1, <4>2, SMTT(30)
    <3>3. Last = i
      BY <2>5, <2>6, <2>7, <3>2
    <3>4. since <= feed[i] /\ feed[Last] <= feed[i]
      BY <1>2, <2>6, <2>8, <2>7, <3>3
    <3>5. ASSUME NEW j \in Feed, feed[j] < feed[i]
          PROVE  j <= Last
      <4>1. i <= j => feed[i] <= feed[j]
        BY <2>2 DEF IInv, Sorted
      <4> QED
        BY <1>3, <2>7, <3>3, <3>5, <4>1
    <3>6. Closed(feed[i])
      <4>1. Len(feed) \in Feed /\ i <= Len(feed) /\ Len(feed) > 0
        BY <1>2, <2>2 DEF Feed
      <4>2. feed[i] <= feed[Len(feed)] /\ feed[Len(feed)] \in Nat
        BY <1>3, <2>2, <4>1 DEF IInv, Sorted
      <4> QED
        BY <2>7, <4>1, <4>2 DEF Closed
    <3>7. Good(feed[i])
      BY <2>7, <3>4, <3>5, <3>6
    <3> HIDE DEF Good
    <3> QED
      BY <3>1, <3>7
  <2>11. Good(cursor')
    BY <2>9, <2>10
  <2>12. Types' /\ Stretch(entries)' /\ Closed(since)' /\ NothingSkipped'
    BY <1>1, <1>2, <1>4, <1>9, <2>11
      DEF IInv, Types, Stretch, Closed, NothingSkipped, Feed
  <2>13. BatchInv'
    <3>1. \A j \in Feed : j < First => feed[j] < since
      BY <1>6, <2>4
    <3>2. Closed(cursor)'
      BY <1>1, <2>11 DEF Closed
    <3> QED
      BY <1>1, <1>9, <2>4, <2>11, <3>1, <3>2 DEF BatchInv, Feed, First, Last
  <2>14. RoomInv'
    <3>1. limit = 0 \/ Len(entries) <= limit
      BY <1>1 DEF IInv, RoomInv
    <3> QED
      BY <1>1, <1>2, <1>9, <2>1, <3>1 DEF RoomInv, Full
  <2>15. PageInv' /\ NewsInv'
    BY <1>9 DEF PageInv, NewsInv
  <2> QED
    BY <1>5, <2>12, <2>13, <2>14, <2>15 DEF IInv
<1> QED
  BY <1>8, <1>9 DEF EndPage

-----------------------------------------------------------------------------
(* The theorems.                                                           *)

\* The reader starts before the first entry.
LEMMA InitInv == Init => IInv
<1> SUFFICES ASSUME Init PROVE IInv
  OBVIOUS
<1>1. /\ feed = <<>> /\ entries = <<>> /\ page = <<>> /\ pc = "idle"
      /\ since = 0 /\ cursor = 0 /\ at = 1 /\ newEntries = 0 /\ pageSize = PageLimit
  BY DEF Init
<1>2. limit \in Nat /\ PageLimit \in Nat
  BY BoundsAssumption DEF Init
<1>3. Feed = {}
  BY <1>1 DEF Feed
<1>4. Types
  BY <1>1, <1>2 DEF Types
<1>5. Sorted /\ Shared /\ NothingSkipped /\ Closed(since) /\ Stretch(entries)
  BY <1>1, <1>3 DEF Sorted, Shared, NothingSkipped, Closed, Stretch, Feed
<1>6. BatchInv /\ RoomInv /\ PageInv /\ NewsInv
  BY <1>1 DEF BatchInv, RoomInv, PageInv, NewsInv
<1> QED
  BY <1>4, <1>5, <1>6 DEF IInv

\* Steps that change nothing keep the invariant.
LEMMA StutterInv ==
  ASSUME IInv, UNCHANGED vars
  PROVE  IInv'
<1>1. UNCHANGED <<limit, feed, pc, since, cursor, entries, collected,
                  pageSize, page, at, newEntries>>
  BY DEF vars, batch, request, loop
<1>2. Types' /\ Sorted' /\ Shared' /\ Closed(since)' /\ NothingSkipped' /\ Stretch(entries)'
  BY <1>1 DEF IInv, Types, Sorted, Shared, Closed, NothingSkipped, Stretch, Feed
<1>3. BatchInv' /\ RoomInv'
  BY <1>1 DEF IInv, BatchInv, RoomInv, Full, Closed, Feed, First, Last
<1>4. PageInv' /\ NewsInv'
  BY <1>1 DEF IInv, PageInv, NewsInv, Full, Stretch, Feed, First, Last
<1> QED
  BY <1>2, <1>3, <1>4 DEF IInv

\* The inductive invariant behind both theorems.
THEOREM Inductive == Spec => []IInv
<1>1. IInv /\ [Next]_vars => IInv'
  <2> SUFFICES ASSUME IInv, [Next]_vars PROVE IInv'
    OBVIOUS
  <2>1. CASE Publish       BY <2>1, PublishInv
  <2>2. CASE StartBatch    BY <2>2, StartBatchInv
  <2>3. CASE Respond       BY <2>3, RespondInv
  <2>4. CASE Fault         BY <2>4, FaultInv
  <2>5. CASE ReadEntry     BY <2>5, ReadEntryInv
  <2>6. CASE EndPage       BY <2>6, EndPageInv
  <2>7. CASE UNCHANGED vars  BY <2>7, StutterInv
  <2> QED
    BY <2>1, <2>2, <2>3, <2>4, <2>5, <2>6, <2>7 DEF Next
<1> QED
  BY InitInv, <1>1, PTL DEF Spec

\* Overlapping pages bring no entry twice and skip none, whatever the limits.
THEOREM BatchesContiguous == Spec => []BatchContiguous
<1>1. IInv => BatchContiguous
  <2> SUFFICES ASSUME IInv, NEW k \in 1..(Len(entries) - 1)
               PROVE  entries[k + 1] = entries[k] + 1
    BY DEF BatchContiguous
  <2>1. /\ entries \in Seq(Nat) /\ Len(entries) \in Nat
        /\ \A j \in 1..Len(entries) : entries[j] = entries[1] + j - 1
    BY DEF IInv, Types, Stretch
  <2>2. k \in 1..Len(entries) /\ k + 1 \in 1..Len(entries) /\ entries[1] \in Nat
    BY <2>1
  <2> QED
    BY <2>1, <2>2
<1> QED
  BY <1>1, Inductive, PTL

\* Batches that continue at next_since lose nothing, whatever is published
\* between them and however many requests fail.
THEOREM NoneSkipped == Spec => []NothingSkipped
<1>1. IInv => NothingSkipped
  BY DEF IInv
<1> QED
  BY <1>1, Inductive, PTL

=============================================================================
