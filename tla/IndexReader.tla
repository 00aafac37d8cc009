---------------------------- MODULE IndexReader ----------------------------
(***************************************************************************)
(* Reading the public module index in batches: readIndex of                *)
(* cmd/plan9asmdiscover and the batches an operator runs one after the     *)
(* other, each from the next_since of the report before it.                *)
(*                                                                         *)
(* The index is a feed ordered by timestamp that grows while it is read.   *)
(* A request names a timestamp, not a position, and several entries may    *)
(* share one: pages and batches overlap and the reader drops what it has   *)
(* already seen in this batch.  Entries are named by their place in the    *)
(* feed.                                                                   *)
(***************************************************************************)
EXTENDS Integers, Sequences, FiniteSets

CONSTANTS
  MaxTime,       \* bound: timestamps are 1..MaxTime
  MaxFeed,       \* bound: length of the feed
  MaxShared,     \* bound: entries that share a timestamp
  MaxFaults,     \* bound: requests that get no usable answer
  PageLimit,     \* indexPageLimit
  Limits,        \* values of -limit: entries of a batch, 0 for all
  HTTPAttempts   \* httpAttempts

ASSUME BoundsAssumption ==
  /\ {MaxTime, MaxFeed, MaxShared, PageLimit, HTTPAttempts} \subseteq Nat \ {0}
  /\ MaxFaults \in Nat /\ Limits \subseteq Nat

\* The entries of one timestamp fit a page: pages have 2000 entries, the
\* timestamps of the index have microseconds.
ASSUME SharedAssumption == MaxShared <= PageLimit

VARIABLES
  limit,      \* -limit, the same for every batch
  feed,       \* Seq of timestamps, not decreasing
  pc,         \* "idle" between batches, "ask" or "page"
  since,      \* where the next batch starts: next_since of the last report
  cursor,     \* cursor of the running batch
  entries,    \* Seq of feed positions read by the running batch
  pageSize,   \* limit of the request under way
  page,       \* Seq of feed positions in the answer
  at,         \* the next entry of the page
  newEntries, \* entries taken from the page
  attempt,    \* attempts made for the request under way
  faults,     \* attempts that failed so far
  collected   \* positions in the reports of the batches that ended

request == <<pageSize, page, attempt>>
loop == <<at, newEntries>>
batch == <<since, cursor, entries, collected>>
vars == <<limit, feed, pc, batch, request, loop, faults>>

Elems(s) == {s[i] : i \in 1..Len(s)}
Smaller(a, b) == IF a < b THEN a ELSE b

-----------------------------------------------------------------------------
\* The index gains an entry: never older than the last one.
Publish ==
  /\ Len(feed) < MaxFeed
  /\ \E t \in 1..MaxTime :
       /\ \A i \in 1..Len(feed) : feed[i] <= t
       /\ Cardinality({i \in 1..Len(feed) : feed[i] = t}) < MaxShared
       /\ feed' = Append(feed, t)
  /\ UNCHANGED <<limit, pc, batch, request, loop, faults>>

\* seenAt[cursor]: entries of this batch at the cursor's timestamp.
SeenAt(t) == Cardinality({i \in Elems(entries) : feed[i] = t})

NextPageSizeNoOverlap ==  \* mutant: no room for the entries seen again
  IF limit = 0 THEN PageLimit ELSE Smaller(limit - Len(entries), PageLimit)
NextPageSize ==
  IF limit = 0 THEN PageLimit
  ELSE Smaller(limit - Len(entries) + SeenAt(cursor), PageLimit)

\* Positions the index answers with: the oldest ones from a time on, when
\* first is the oldest of them.
Answer(first, size) ==
  [k \in 1..Smaller(Len(feed) - first + 1, size) |-> first + k - 1]

StartBatch ==
  /\ pc = "idle"
  /\ pc' = "ask"
  /\ cursor' = since
  /\ entries' = <<>>
  /\ attempt' = 1
  /\ UNCHANGED <<limit, feed, since, collected, pageSize, page, loop, faults>>

Respond ==
  /\ pc = "ask"
  /\ pageSize' = NextPageSize
  /\ \E first \in 1..(Len(feed) + 1) :
       /\ \A i \in 1..Len(feed) : feed[i] < cursor <=> i < first
       /\ page' = Answer(first, NextPageSize)
  /\ pc' = "page"
  /\ at' = 1 /\ newEntries' = 0
  /\ attempt' = 1
  /\ UNCHANGED <<limit, feed, batch, faults>>

\* A transient answer or none: doHTTPRequest tries again, and after its last
\* attempt the batch ends without a report.
Fault ==
  /\ pc = "ask"
  /\ faults < MaxFaults
  /\ faults' = faults + 1
  /\ IF attempt < HTTPAttempts
     THEN attempt' = attempt + 1 /\ pc' = pc
     ELSE attempt' = 1 /\ pc' = "idle"
  /\ UNCHANGED <<limit, feed, batch, pageSize, page, loop>>

SeenNever(i) == FALSE  \* mutant: entries seen before are taken again
Seen(i) == i \in Elems(entries)

\* The batch has its limit of entries.
Full(read) == limit > 0 /\ Len(read) = limit

\* One round of the loop over the page; it ends at the limit of the batch.
ReadEntry ==
  /\ pc = "page"
  /\ at <= Len(page)
  /\ \/ /\ Seen(page[at])
        /\ at' = at + 1
        /\ UNCHANGED <<cursor, entries, newEntries>>
     \/ /\ ~Seen(page[at])
        /\ entries' = Append(entries, page[at])
        /\ newEntries' = newEntries + 1
        /\ cursor' = feed[page[at]]
        /\ at' = IF Full(entries') THEN Len(page) + 1 ELSE at + 1
  /\ UNCHANGED <<limit, feed, pc, since, collected, request, faults>>

LastTime == feed[page[Len(page)]]

\* Where the next page starts: at the last entry of this one, or one tick
\* later when a full page brought nothing new.
NextCursorStays == LastTime  \* mutant: no tick over a page without news
NextCursor ==
  IF newEntries = 0 /\ LastTime = cursor THEN cursor + 1 ELSE LastTime

\* The page is read: another one, or the report of the batch.
LastPage == page = <<>> \/ Full(entries) \/ Len(page) < pageSize

EndPage ==
  /\ pc = "page"
  /\ at > Len(page)
  /\ \/ /\ LastPage
        /\ pc' = "idle"
        /\ since' = cursor
        /\ collected' = collected \cup Elems(entries)
        /\ UNCHANGED cursor
     \/ /\ ~LastPage
        /\ pc' = "ask"
        /\ cursor' = NextCursor
        /\ UNCHANGED <<since, collected>>
  /\ UNCHANGED <<limit, feed, entries, request, loop, faults>>

-----------------------------------------------------------------------------
Init ==
  /\ limit \in Limits
  /\ feed = <<>> /\ pc = "idle" /\ since = 0 /\ cursor = 0 /\ entries = <<>>
  /\ pageSize = PageLimit /\ page = <<>> /\ at = 1 /\ newEntries = 0
  /\ attempt = 1 /\ faults = 0 /\ collected = {}

Next == Publish \/ StartBatch \/ Respond \/ Fault \/ ReadEntry \/ EndPage

Spec == Init /\ [][Next]_vars

\* The operator starts another batch, requests are answered in the end (the
\* faults are bounded) and the reader is a sequential loop.
FairSpec ==
  /\ Spec
  /\ WF_vars(StartBatch) /\ WF_vars(Respond)
  /\ WF_vars(ReadEntry) /\ WF_vars(EndPage)

-----------------------------------------------------------------------------
\* A batch is a contiguous stretch of the feed: overlapping pages bring no
\* entry twice and skip none ("readIndex() does not skip a shared boundary
\* timestamp").
BatchContiguous ==
  \A k \in 1..(Len(entries) - 1) : entries[k + 1] = entries[k] + 1

\* Everything older than the point where the next batch starts is in some
\* report: continuing at next_since loses nothing, whatever entries arrive
\* at the boundary timestamp in the meantime.
NothingSkipped ==
  \A i \in 1..Len(feed) : feed[i] < since => i \in collected

\* Batches that continue at next_since reach the end of the feed, also when
\* requests fail: no batch reads the same entries for ever.
CatchesUp == <>[](collected = 1..Len(feed))
=============================================================================
