--------------------------- MODULE LogQueueProofs ---------------------------
(***************************************************************************)
(* Theorems about the replicated log, for every set of timestamps, every   *)
(* pruning limit and every sequence of sorted updates, delivered any       *)
(* number of times.                                                        *)
(***************************************************************************)
EXTENDS LogQueue, SequenceTheorems, FiniteSetTheorems, WellFoundedInduction, TLAPS

\* The types of the parts the order of the log depends on.
LogTypes ==
    /\ logs \in Seq(Entries)
    /\ DOMAIN index \subseteq Timestamps
    /\ \A t \in DOMAIN index : index[t] \in Nat
    /\ incoming \in Seq(Entries)
    /\ filling \in BOOLEAN

\* A batch that fills an empty log continues behind what is already there.
FillInOrder ==
    filling /\ logs # <<>> =>
        \A i \in 1..Len(incoming) : Last(logs).ts <= incoming[i].ts

\* The merging loop runs on a log that is not empty.
MergeNotEmpty == incoming # <<>> /\ ~filling => logs # <<>>

\* A stale position of the last entry lies behind the log, never inside it.
LastNotBefore ==
    logs # <<>> /\ Last(logs).ts \in DOMAIN index =>
        index[Last(logs).ts] >= Len(logs) - 1

\* The inductive invariant behind SortedLogs.  Order alone is not inductive:
\* a replacement would break it if the map sent the last timestamp to an
\* earlier entry.
LogInv ==
    /\ LogTypes
    /\ SortedLogs
    /\ SortedByTs(incoming)
    /\ FillInOrder
    /\ MergeNotEmpty
    /\ LastNotBefore

-----------------------------------------------------------------------------
\* What InsertAt makes of a log.
LEMMA InsertAtFacts ==
    ASSUME NEW s \in Seq(Entries), NEW i \in 0..Len(s), NEW e \in Entries
    PROVE  /\ InsertAt(s, i + 1, e) \in Seq(Entries)
           /\ Len(InsertAt(s, i + 1, e)) = Len(s) + 1
           /\ \A j \in 1..(Len(s) + 1) : InsertAt(s, i + 1, e)[j] =
                IF j <= i THEN s[j] ELSE IF j = i + 1 THEN e ELSE s[j - 1]
<1> DEFINE a == SubSeq(s, 1, i)
           b == SubSeq(s, i + 1, Len(s))
<1>1. /\ a \in Seq(Entries)
      /\ Len(a) = i
      /\ \A j \in 1..i : a[j] = s[j]
  OBVIOUS
<1>2. /\ b \in Seq(Entries)
      /\ Len(b) = Len(s) - i
      /\ \A j \in 1..(Len(s) - i) : b[j] = s[i + j]
  OBVIOUS
<1>3. <<e>> \in Seq(Entries) /\ Len(<<e>>) = 1 /\ <<e>>[1] = e
  OBVIOUS
<1>4. InsertAt(s, i + 1, e) = (a \o <<e>>) \o b
  <2>1. (i + 1) - 1 = i
    OBVIOUS
  <2>2. InsertAt(s, i + 1, e) = SubSeq(s, 1, (i + 1) - 1) \o <<e>> \o SubSeq(s, i + 1, Len(s))
    BY Zenon DEF InsertAt
  <2> QED
    BY <2>1, <2>2, Zenon
<1> HIDE DEF a, b
<1> DEFINE r == a \o <<e>>
           d == r \o b
<1>5. /\ r \in Seq(Entries)
      /\ Len(r) = i + 1
      /\ \A j \in 1..(i + 1) : r[j] = IF j <= i THEN s[j] ELSE e
  BY <1>1, <1>3
<1> HIDE DEF r
<1>6. /\ d \in Seq(Entries)
      /\ Len(d) = Len(s) + 1
      /\ \A j \in 1..(Len(s) + 1) : d[j] = IF j <= i + 1 THEN r[j] ELSE b[j - (i + 1)]
  <2>1. r \in Seq(Entries) /\ b \in Seq(Entries)
    BY <1>2, <1>5
  <2>2. /\ d \in Seq(Entries)
        /\ Len(d) = Len(r) + Len(b)
        /\ \A j \in 1..(Len(r) + Len(b)) : d[j] = IF j <= Len(r) THEN r[j] ELSE b[j - Len(r)]
    BY <2>1, ConcatProperties, Zenon
  <2> HIDE DEF d
  <2>3. Len(r) + Len(b) = Len(s) + 1
    BY <1>2, <1>5
  <2> QED
    BY <1>5, <2>2, <2>3
<1> HIDE DEF d
<1>7. ASSUME NEW j \in 1..(Len(s) + 1)
      PROVE  d[j] = IF j <= i THEN s[j] ELSE IF j = i + 1 THEN e ELSE s[j - 1]
  <2>1. CASE j <= i + 1
    BY <1>5, <1>6, <2>1
  <2>2. CASE j > i + 1
    <3>1. j - (i + 1) \in 1..(Len(s) - i) /\ i + (j - (i + 1)) = j - 1
      BY <2>2
    <3>2. b[j - (i + 1)] = s[j - 1]
      BY <1>2, <3>1
    <3> QED
      BY <1>6, <2>2, <3>2
  <2> QED
    BY <2>1, <2>2
<1>8. InsertAt(s, i + 1, e) = d
  BY <1>4 DEF d, r
<1> QED
  BY <1>6, <1>7, <1>8

\* The increments of update()'s loop: a number, and at least one for a
\* timestamp that occurs.
LEMMA CountFacts ==
    ASSUME NEW a \in Int, NEW b \in Int, NEW t
    PROVE  /\ Occurrences(t, a, b) \in Nat
           /\ (\E j \in a..b : logs[j].ts = t) => Occurrences(t, a, b) >= 1
<1> DEFINE S == {j \in a..b : logs[j].ts = t}
<1>1. IsFiniteSet(a..b)
  BY FS_Interval
<1>2. IsFiniteSet(S)
  BY <1>1, FS_Subset
<1>3. Cardinality(S) \in Nat
  BY <1>2, FS_CardinalityType
<1>4. Cardinality(S) = 0 <=> S = {}
  BY <1>2, FS_EmptySet
<1> QED
  BY <1>3, <1>4 DEF Occurrences

\* SetIndex keeps the type of the map.
LEMMA SetIndexFacts ==
    ASSUME LogTypes, NEW t \in Timestamps, NEW i \in Nat
    PROVE  /\ DOMAIN SetIndex(t, i) = DOMAIN index \cup {t}
           /\ DOMAIN SetIndex(t, i) \subseteq Timestamps
           /\ \A u \in DOMAIN SetIndex(t, i) : SetIndex(t, i)[u] \in Nat
           /\ SetIndex(t, i)[t] = i
           /\ \A u \in DOMAIN index \ {t} : SetIndex(t, i)[u] = index[u]
BY DEF SetIndex, LogTypes

\* Shifted only moves positions up, and the last entry's by at least one
\* when it is among those shifted.
LEMMA ShiftedFacts ==
    ASSUME LogTypes, Entry.ts \in Timestamps, NEW i \in Nat, NEW n \in Int
    PROVE  /\ DOMAIN Shifted(i, n) = DOMAIN index \cup {Entry.ts}
           /\ DOMAIN Shifted(i, n) \subseteq Timestamps
           /\ \A u \in DOMAIN Shifted(i, n) : Shifted(i, n)[u] \in Nat
           /\ \A u \in DOMAIN index \ {Entry.ts} : Shifted(i, n)[u] >= index[u]
           /\ \A u \in DOMAIN index \ {Entry.ts} :
                (\E j \in (i + 1)..(i + n) : logs[j].ts = u) =>
                    Shifted(i, n)[u] >= index[u] + 1
<1> DEFINE idx == SetIndex(Entry.ts, i)
           c(u) == Occurrences(u, i + 1, i + n)
<1>1. /\ DOMAIN idx = DOMAIN index \cup {Entry.ts}
      /\ DOMAIN idx \subseteq Timestamps
      /\ \A u \in DOMAIN idx : idx[u] \in Nat
      /\ \A u \in DOMAIN index \ {Entry.ts} : idx[u] = index[u]
  BY SetIndexFacts
<1>2. ASSUME NEW u
      PROVE  /\ c(u) \in Nat
             /\ (\E j \in (i + 1)..(i + n) : logs[j].ts = u) => c(u) >= 1
  <2>1. i + 1 \in Int /\ i + n \in Int
    OBVIOUS
  <2> QED
    BY <2>1, CountFacts
<1>3. Shifted(i, n) = [u \in DOMAIN idx |-> idx[u] + c(u)]
  BY DEF Shifted
<1>4. \A u \in DOMAIN index : index[u] \in Nat
  BY DEF LogTypes
<1> HIDE DEF idx, c
<1> QED
  BY <1>1, <1>2, <1>3, <1>4

-----------------------------------------------------------------------------
\* The head and the tail of the batch update() is going through.
LEMMA IncomingFacts ==
    ASSUME LogTypes, incoming # <<>>
    PROVE  /\ Entry \in Entries
           /\ Entry.ts \in Timestamps /\ Entry.ts \in Nat
           /\ Len(incoming) >= 1
           /\ Entry = incoming[1]
           /\ Tail(incoming) \in Seq(Entries)
           /\ Len(Tail(incoming)) = Len(incoming) - 1
           /\ \A i \in 1..Len(Tail(incoming)) : Tail(incoming)[i] = incoming[i + 1]
<1>1. incoming \in Seq(Entries)
  BY DEF LogTypes
<1>2. /\ Entry = incoming[1]
      /\ Len(incoming) >= 1
      /\ Tail(incoming) \in Seq(Entries)
      /\ Len(Tail(incoming)) = Len(incoming) - 1
      /\ \A i \in 1..Len(Tail(incoming)) : Tail(incoming)[i] = incoming[i + 1]
  BY <1>1 DEF Entry
<1>3. Entry \in Entries
  BY <1>1, <1>2
<1>4. Entry.ts \in Timestamps
  BY <1>3 DEF Entries
<1> QED
  BY <1>2, <1>3, <1>4, LogAssumption

\* The rest of a sorted batch is sorted.
LEMMA TailSorted ==
    ASSUME LogTypes, incoming # <<>>, SortedByTs(incoming), incoming' = Tail(incoming)
    PROVE  SortedByTs(incoming)'
<1>1. /\ Len(incoming') = Len(incoming) - 1
      /\ Len(incoming) >= 1
      /\ \A i \in 1..Len(incoming') : incoming'[i] = incoming[i + 1]
  BY IncomingFacts
<1>2. Len(incoming) \in Nat
  BY DEF LogTypes
<1>3. ASSUME NEW i \in 1..Len(incoming'), NEW j \in 1..Len(incoming'), i < j
      PROVE  incoming'[i].ts <= incoming'[j].ts
  <2>1. i + 1 \in 1..Len(incoming) /\ j + 1 \in 1..Len(incoming) /\ i + 1 < j + 1
    BY <1>1, <1>2, <1>3
  <2>2. incoming[i + 1].ts <= incoming[j + 1].ts
    BY <2>1 DEF SortedByTs
  <2> QED
    BY <1>1, <2>2
<1> QED
  BY <1>3 DEF SortedByTs

\* Entries of the log have timestamps, and a log that is not empty a last
\* entry.
LEMMA LogFacts ==
    ASSUME LogTypes
    PROVE  /\ Len(logs) \in Nat
           /\ \A i \in 1..Len(logs) : logs[i] \in Entries /\ logs[i].ts \in Nat
           /\ logs # <<>> => /\ Len(logs) \in 1..Len(logs)
                            /\ Last(logs) = logs[Len(logs)]
                            /\ Last(logs).ts \in Nat
<1>1. logs \in Seq(Entries)
  BY DEF LogTypes
<1>2. Len(logs) \in Nat /\ (logs # <<>> => Len(logs) \in 1..Len(logs))
  BY <1>1
<1>3. \A i \in 1..Len(logs) : logs[i] \in Entries
  BY <1>1
<1>4. \A e \in Entries : e.ts \in Nat
  BY LogAssumption DEF Entries
<1>5. Last(logs) = logs[Len(logs)]
  BY DEF Last
<1> QED
  BY <1>2, <1>3, <1>4, <1>5

\* Adding an entry that is not earlier than the last one.
LEMMA AddLastStep ==
    ASSUME LogInv, incoming # <<>>, AddLast,
           logs # <<>> => Last(logs).ts <= Entry.ts,
           filling \/ logs # <<>>
    PROVE  LogInv'
<1> USE DEF LogInv
<1>1. /\ logs' = Append(logs, Entry)
      /\ index' = SetIndex(Entry.ts, Len(logs))
      /\ incoming' = Tail(incoming)
      /\ filling' = (filling /\ Len(incoming) > 1)
      /\ UNCHANGED <<term, commits, updates, now>>
  BY DEF AddLast, NextEntry, clockVars
<1>2. /\ Entry \in Entries
      /\ Entry.ts \in Timestamps /\ Entry.ts \in Nat
      /\ Len(incoming) >= 1
      /\ Entry = incoming[1]
      /\ Tail(incoming) \in Seq(Entries)
      /\ Len(Tail(incoming)) = Len(incoming) - 1
      /\ \A i \in 1..Len(Tail(incoming)) : Tail(incoming)[i] = incoming[i + 1]
  BY IncomingFacts
<1>3. /\ Len(logs) \in Nat
      /\ \A i \in 1..Len(logs) : logs[i] \in Entries /\ logs[i].ts \in Nat
      /\ logs # <<>> => /\ Len(logs) \in 1..Len(logs)
                       /\ Last(logs) = logs[Len(logs)]
  BY LogFacts
<1>4. /\ logs' \in Seq(Entries)
      /\ logs' # <<>>
      /\ Len(logs') = Len(logs) + 1
      /\ \A i \in 1..Len(logs) : logs'[i] = logs[i]
      /\ logs'[Len(logs) + 1] = Entry
      /\ Last(logs') = Entry
  BY <1>1, <1>2 DEF LogTypes, Last
<1>5. LogTypes'
  <2>1. /\ DOMAIN index' \subseteq Timestamps
        /\ \A t \in DOMAIN index' : index'[t] \in Nat
    BY <1>1, <1>2, <1>3, SetIndexFacts
  <2>2. filling' \in BOOLEAN
    BY <1>1, Zenon DEF LogTypes
  <2> QED
    BY <1>1, <1>2, <1>4, <2>1, <2>2 DEF LogTypes
<1>6. \A i \in 1..Len(logs) : logs[i].ts <= Entry.ts
  <2> SUFFICES ASSUME NEW i \in 1..Len(logs) PROVE logs[i].ts <= Entry.ts
    OBVIOUS
  <2>1. logs # <<>> /\ Last(logs).ts <= Entry.ts
    BY <1>3 DEF LogTypes
  <2>2. logs[i].ts <= logs[Len(logs)].ts
    BY <1>3, <2>1 DEF SortedLogs, SortedByTs
  <2> QED
    BY <1>2, <1>3, <2>1, <2>2
<1>7. SortedLogs'
  <2>1. ASSUME NEW i \in 1..Len(logs'), NEW j \in 1..Len(logs'), i < j
        PROVE  logs'[i].ts <= logs'[j].ts
    <3>1. i \in 1..Len(logs) /\ logs'[i] = logs[i]
      BY <1>3, <1>4, <2>1
    <3>2. CASE j <= Len(logs)
      <4>1. j \in 1..Len(logs) /\ logs'[j] = logs[j]
        BY <1>3, <1>4, <3>2
      <4> QED
        BY <2>1, <3>1, <4>1 DEF SortedLogs, SortedByTs
    <3>3. CASE j = Len(logs) + 1
      BY <1>4, <1>6, <3>1, <3>3
    <3> QED
      BY <1>3, <1>4, <3>2, <3>3
  <2> QED
    BY <2>1 DEF SortedLogs, SortedByTs
<1>8. SortedByTs(incoming)'
  BY TailSorted, <1>1
<1>9. FillInOrder'
  <2>1. \A i \in 1..Len(incoming') : Entry.ts <= incoming'[i].ts
    BY <1>1, <1>2 DEF SortedByTs, LogTypes
  <2> QED
    BY <1>4, <2>1 DEF FillInOrder
<1>10. MergeNotEmpty'
  BY <1>4 DEF MergeNotEmpty
<1>11. LastNotBefore'
  <2>1. index'[Entry.ts] = Len(logs)
    BY <1>1, <1>2, <1>3, SetIndexFacts
  <2> QED
    BY <1>3, <1>4, <2>1 DEF LastNotBefore
<1> QED
  BY <1>5, <1>7, <1>8, <1>9, <1>10, <1>11

\* Inserting a late entry: the last entry stays the last, and its position,
\* right or stale, moves up with the length of the log.
LEMMA InsertStep ==
    ASSUME LogInv, InsertEntry
    PROVE  LogInv'
<1> USE DEF LogInv
<1>1. /\ incoming # <<>> /\ ~filling
      /\ Entry.ts < Last(logs).ts
      /\ logs # <<>>
      /\ incoming' = Tail(incoming)
      /\ filling' = (filling /\ Len(incoming) > 1)
      /\ UNCHANGED <<term, commits, updates, now>>
  BY DEF InsertEntry, NextEntry, clockVars, MergeNotEmpty
<1>2. PICK i \in 0..(Len(logs) - 1) :
        /\ InsertsAt(i)
        /\ logs' = InsertAt(logs, i + 1, Entry)
        /\ index' = Shifted(i, Len(logs) - i)
  BY DEF InsertEntry
<1>3. /\ Entry \in Entries
      /\ Entry.ts \in Timestamps /\ Entry.ts \in Nat
      /\ Tail(incoming) \in Seq(Entries)
  BY <1>1, IncomingFacts
<1>4. /\ Len(logs) \in Nat
      /\ \A k \in 1..Len(logs) : logs[k] \in Entries /\ logs[k].ts \in Nat
      /\ Len(logs) \in 1..Len(logs)
      /\ Last(logs) = logs[Len(logs)]
      /\ Last(logs).ts \in Nat
  BY <1>1, LogFacts
<1>5. i \in 0..Len(logs) /\ i \in Nat /\ Len(logs) - i \in Int /\ i + (Len(logs) - i) = Len(logs)
  BY <1>2, <1>4
<1>6. logs \in Seq(Entries)
  BY DEF LogTypes
<1>7. /\ logs' \in Seq(Entries)
      /\ Len(logs') = Len(logs) + 1
      /\ \A j \in 1..(Len(logs) + 1) : logs'[j] =
            IF j <= i THEN logs[j] ELSE IF j = i + 1 THEN Entry ELSE logs[j - 1]
  <2> DEFINE L == InsertAt(logs, i + 1, Entry)
  <2>1. /\ L \in Seq(Entries)
        /\ Len(L) = Len(logs) + 1
        /\ \A j \in 1..(Len(logs) + 1) : L[j] =
              IF j <= i THEN logs[j] ELSE IF j = i + 1 THEN Entry ELSE logs[j - 1]
    BY <1>3, <1>5, <1>6, InsertAtFacts
  <2>2. logs' = L
    BY <1>2
  <2> HIDE DEF L
  <2> QED
    BY <2>1, <2>2
<1>8. /\ DOMAIN index' = DOMAIN index \cup {Entry.ts}
      /\ DOMAIN index' \subseteq Timestamps
      /\ \A u \in DOMAIN index' : index'[u] \in Nat
      /\ \A u \in DOMAIN index \ {Entry.ts} :
            (\E j \in (i + 1)..Len(logs) : logs[j].ts = u) => index'[u] >= index[u] + 1
  <2> DEFINE n == Len(logs) - i
  <2>1. n \in Int /\ i + n = Len(logs)
    BY <1>5
  <2>2. index' = Shifted(i, n)
    BY <1>2
  <2> HIDE DEF n
  <2>3. /\ DOMAIN index' = DOMAIN index \cup {Entry.ts}
        /\ DOMAIN index' \subseteq Timestamps
        /\ \A u \in DOMAIN index' : index'[u] \in Nat
        /\ \A u \in DOMAIN index \ {Entry.ts} :
            (\E j \in (i + 1)..(i + n) : logs[j].ts = u) => index'[u] >= index[u] + 1
    BY <1>3, <1>5, <2>1, <2>2, ShiftedFacts
  <2> QED
    BY <2>1, <2>3
<1>9. LogTypes'
  <2>1. filling' \in BOOLEAN
    BY <1>1, Zenon DEF LogTypes
  <2> QED
    BY <1>1, <1>3, <1>7, <1>8, <2>1 DEF LogTypes
<1>10. \A j \in 1..i : logs[j].ts < Entry.ts
  <2> SUFFICES ASSUME NEW j \in 1..i PROVE logs[j].ts < Entry.ts
    OBVIOUS
  <2>1. i \in 1..Len(logs) /\ j \in 1..Len(logs) /\ logs[i].ts < Entry.ts
    BY <1>2, <1>5 DEF InsertsAt
  <2>2. logs[j].ts <= logs[i].ts
    <3>1. CASE j = i
      BY <1>4, <2>1, <3>1
    <3>2. CASE j < i
      BY <2>1, <3>2 DEF SortedLogs, SortedByTs
    <3> QED
      BY <1>5, <2>1, <3>1, <3>2
  <2> QED
    BY <1>3, <1>4, <2>1, <2>2
<1>11. \A j \in (i + 1)..Len(logs) : Entry.ts <= logs[j].ts
  <2> SUFFICES ASSUME NEW j \in (i + 1)..Len(logs) PROVE Entry.ts <= logs[j].ts
    OBVIOUS
  <2>1. j \in 1..Len(logs) /\ ~(j <= i)
    BY <1>4, <1>5
  <2>2. ~(logs[j].ts < Entry.ts)
    BY <1>2, <2>1 DEF InsertsAt
  <2> QED
    BY <1>3, <1>4, <2>1, <2>2
<1>12. SortedLogs'
  <2>1. ASSUME NEW j \in 1..Len(logs'), NEW k \in 1..Len(logs'), j < k
        PROVE  logs'[j].ts <= logs'[k].ts
    <3>0. /\ j \in 1..(Len(logs) + 1) /\ k \in 1..(Len(logs) + 1)
          /\ logs'[j] = IF j <= i THEN logs[j] ELSE IF j = i + 1 THEN Entry ELSE logs[j - 1]
          /\ logs'[k] = IF k <= i THEN logs[k] ELSE IF k = i + 1 THEN Entry ELSE logs[k - 1]
      BY <1>7
    <3>1. CASE k <= i
      <4>1. logs'[j] = logs[j] /\ logs'[k] = logs[k] /\ j \in 1..Len(logs) /\ k \in 1..Len(logs)
        BY <2>1, <3>0, <3>1, <1>5
      <4> QED
        BY <2>1, <4>1 DEF SortedLogs, SortedByTs
    <3>2. CASE k = i + 1
      <4>1. logs'[j] = logs[j] /\ logs'[k] = Entry /\ j \in 1..i /\ j \in 1..Len(logs)
        BY <2>1, <3>0, <3>2, <1>5
      <4>2. logs[j].ts < Entry.ts /\ logs[j].ts \in Nat
        BY <4>1, <1>10, <1>4
      <4> QED
        BY <4>1, <4>2, <1>3
    <3>3. CASE k > i + 1 /\ j <= i
      <4>1. /\ logs'[j] = logs[j] /\ logs'[k] = logs[k - 1]
            /\ j \in 1..Len(logs) /\ k - 1 \in 1..Len(logs) /\ j < k - 1
        BY <2>1, <3>0, <3>3, <1>5
      <4> QED
        BY <4>1 DEF SortedLogs, SortedByTs
    <3>4. CASE k > i + 1 /\ j = i + 1
      <4>1. logs'[j] = Entry /\ logs'[k] = logs[k - 1] /\ k - 1 \in (i + 1)..Len(logs)
        BY <2>1, <3>0, <3>4, <1>5
      <4> QED
        BY <4>1, <1>11
    <3>5. CASE j > i + 1
      <4>1. /\ logs'[j] = logs[j - 1] /\ logs'[k] = logs[k - 1]
            /\ j - 1 \in 1..Len(logs) /\ k - 1 \in 1..Len(logs) /\ j - 1 < k - 1
        BY <2>1, <3>0, <3>5, <1>5
      <4> QED
        BY <4>1 DEF SortedLogs, SortedByTs
    <3> QED
      BY <2>1, <3>0, <3>1, <3>2, <3>3, <3>4, <3>5, <1>5
  <2> QED
    BY <2>1 DEF SortedLogs, SortedByTs
<1>13. SortedByTs(incoming)'
  BY TailSorted, <1>1
<1>14. FillInOrder'
  BY <1>1 DEF FillInOrder
<1>15. logs' # <<>> /\ Last(logs') = Last(logs)
  <2>1. /\ Len(logs) + 1 \in 1..(Len(logs) + 1)
        /\ ~(Len(logs) + 1 <= i) /\ Len(logs) + 1 # i + 1
        /\ (Len(logs) + 1) - 1 = Len(logs)
    BY <1>2, <1>4
  <2>2. logs'[Len(logs) + 1] = logs[(Len(logs) + 1) - 1]
    BY <1>7, <2>1, Zenon
  <2>3. logs' # <<>>
    BY <1>4, <1>7
  <2> QED
    BY <1>4, <1>7, <2>1, <2>2, <2>3 DEF Last
<1>16. MergeNotEmpty'
  BY <1>15 DEF MergeNotEmpty
<1>17. LastNotBefore'
  <2>1. Last(logs).ts # Entry.ts
    BY <1>1, <1>3, <1>4
  <2>2. ASSUME Last(logs).ts \in DOMAIN index'
        PROVE  index'[Last(logs).ts] >= Len(logs)
    <3>1. Last(logs).ts \in DOMAIN index \ {Entry.ts}
      BY <1>8, <2>1, <2>2
    <3>2. Len(logs) \in (i + 1)..Len(logs) /\ logs[Len(logs)].ts = Last(logs).ts
      BY <1>2, <1>4
    <3>3. index'[Last(logs).ts] >= index[Last(logs).ts] + 1
      BY <1>8, <3>1, <3>2
    <3>4. index[Last(logs).ts] >= Len(logs) - 1 /\ index[Last(logs).ts] \in Nat
      BY <1>1, <3>1 DEF LastNotBefore, LogTypes
    <3>5. index'[Last(logs).ts] \in Nat
      BY <1>8, <2>2
    <3> QED
      BY <1>4, <3>3, <3>4, <3>5
  <2> QED
    BY <1>4, <1>7, <1>15, <2>2 DEF LastNotBefore
<1> QED
  BY <1>9, <1>12, <1>13, <1>14, <1>16, <1>17

\* A replacement hits the last entry or raises.
LEMMA ReplaceHitsLast ==
    ASSUME LogInv, ReplaceEntry
    PROVE  /\ logs # <<>>
           /\ logs' = [logs EXCEPT ![Len(logs)] = Entry]
           /\ Entry.ts = logs[Len(logs)].ts
<1>1. /\ incoming # <<>> /\ ~filling
      /\ Entry.ts = Last(logs).ts
      /\ Entry.ts \in DOMAIN index
      /\ index[Entry.ts] < Len(logs)
      /\ logs' = [logs EXCEPT ![index[Entry.ts] + 1] = Entry]
  BY DEF ReplaceEntry, Replaceable
<1>2. logs # <<>>
  BY <1>1 DEF LogInv, MergeNotEmpty
<1>3. index[Entry.ts] \in Nat /\ index[Entry.ts] >= Len(logs) - 1
  BY <1>1, <1>2 DEF LogInv, LastNotBefore, LogTypes
<1>4. Len(logs) \in Nat /\ Last(logs) = logs[Len(logs)]
  BY <1>2, LogFacts DEF LogInv
<1>5. index[Entry.ts] + 1 = Len(logs)
  BY <1>1, <1>3, <1>4
<1> QED
  BY <1>1, <1>2, <1>4, <1>5

\* A replacement keeps the timestamp, so the order too.
LEMMA ReplaceStep ==
    ASSUME LogInv, ReplaceEntry
    PROVE  LogInv'
<1> USE DEF LogInv
<1>1. /\ incoming # <<>>
      /\ incoming' = Tail(incoming)
      /\ ~filling
      /\ filling' = (filling /\ Len(incoming) > 1)
      /\ UNCHANGED <<index, term, commits, updates, now>>
  BY DEF ReplaceEntry, NextEntry, clockVars
<1>2. /\ logs # <<>>
      /\ logs' = [logs EXCEPT ![Len(logs)] = Entry]
      /\ Entry.ts = logs[Len(logs)].ts
  BY ReplaceHitsLast
<1>3. Entry \in Entries /\ Tail(incoming) \in Seq(Entries)
  BY <1>1, IncomingFacts
<1>4. logs \in Seq(Entries) /\ Len(logs) \in 1..Len(logs)
  BY <1>2, LogFacts DEF LogTypes
<1>5. /\ logs' \in Seq(Entries)
      /\ Len(logs') = Len(logs)
      /\ logs' # <<>>
      /\ \A j \in 1..Len(logs) : logs'[j].ts = logs[j].ts
      /\ Last(logs').ts = Last(logs).ts
  BY <1>2, <1>3, <1>4 DEF Last
<1>6. LogTypes'
  <2>1. filling' \in BOOLEAN
    BY <1>1, Zenon DEF LogTypes
  <2> QED
    BY <1>1, <1>3, <1>5, <2>1 DEF LogTypes
<1>7. SortedLogs'
  BY <1>5 DEF SortedLogs, SortedByTs
<1>8. SortedByTs(incoming)'
  BY TailSorted, <1>1
<1>9. FillInOrder' /\ MergeNotEmpty'
  BY <1>1, <1>5 DEF FillInOrder, MergeNotEmpty
<1>10. LastNotBefore'
  BY <1>1, <1>2, <1>5 DEF LastNotBefore
<1> QED
  BY <1>6, <1>7, <1>8, <1>9, <1>10

\* An exception inside the loop leaves the log as it was; the increments
\* made so far only move positions up.
LEMMA RaiseStep ==
    ASSUME LogInv, InsertRaises \/ ReplaceRaises
    PROVE  LogInv'
<1> USE DEF LogInv
<1>1. /\ incoming # <<>> /\ ~filling
      /\ incoming' = <<>>
      /\ UNCHANGED <<logs, term, commits, filling, updates, now>>
  BY DEF InsertRaises, ReplaceRaises, Raise, clockVars
<1>2. /\ DOMAIN index' \subseteq Timestamps
      /\ \A u \in DOMAIN index' : index'[u] \in Nat
      /\ LastNotBefore'
  <2>1. CASE ReplaceRaises
    <3>1. index' = index
      BY <2>1 DEF ReplaceRaises
    <3> QED
      BY <1>1, <3>1 DEF LogTypes, LastNotBefore
  <2>2. CASE InsertRaises
    <3>1. Entry.ts \in Timestamps /\ Entry.ts \in Nat
      BY <1>1, IncomingFacts
    <3>2. logs # <<>> /\ Last(logs).ts \in Nat /\ Entry.ts < Last(logs).ts /\ Len(logs) \in Nat
      BY <1>1, <2>2, LogFacts DEF InsertRaises, MergeNotEmpty
    <3>3. PICK i \in 0..(Len(logs) - 1) :
             \E j \in Unmapped(i) : index' = Shifted(i, j - i - 1)
      BY <2>2 DEF InsertRaises
    <3> PICK j \in Unmapped(i) : index' = Shifted(i, j - i - 1)
      BY <3>3
    <3>4. i \in Nat /\ j - i - 1 \in Int
      BY <3>2, <3>3 DEF Unmapped
    <3>5. /\ DOMAIN index' = DOMAIN index \cup {Entry.ts}
          /\ DOMAIN index' \subseteq Timestamps
          /\ \A u \in DOMAIN index' : index'[u] \in Nat
          /\ \A u \in DOMAIN index \ {Entry.ts} : index'[u] >= index[u]
      <4> DEFINE n == j - i - 1
      <4>1. n \in Int /\ index' = Shifted(i, n)
        BY <3>3, <3>4
      <4> HIDE DEF n
      <4> QED
        BY <3>1, <3>4, <4>1, ShiftedFacts
    <3>6. ASSUME Last(logs).ts \in DOMAIN index'
          PROVE  index'[Last(logs).ts] >= Len(logs) - 1
      <4>1. Last(logs).ts \in DOMAIN index \ {Entry.ts}
        BY <3>1, <3>2, <3>5, <3>6
      <4>2. index[Last(logs).ts] >= Len(logs) - 1 /\ index[Last(logs).ts] \in Nat
        BY <3>2, <4>1 DEF LastNotBefore, LogTypes
      <4>3. index'[Last(logs).ts] >= index[Last(logs).ts] /\ index'[Last(logs).ts] \in Nat
        BY <3>5, <3>6, <4>1
      <4> QED
        BY <3>2, <4>2, <4>3
    <3> QED
      BY <1>1, <3>5, <3>6 DEF LastNotBefore
  <2> QED
    BY <2>1, <2>2
<1>3. LogTypes'
  <2>1. filling' \in BOOLEAN
    BY <1>1, Zenon DEF LogTypes
  <2> QED
    BY <1>1, <1>2, <2>1 DEF LogTypes
<1>4. SortedLogs' /\ SortedByTs(incoming)' /\ FillInOrder' /\ MergeNotEmpty'
  BY <1>1 DEF SortedLogs, SortedByTs, FillInOrder, MergeNotEmpty
<1> QED
  BY <1>2, <1>3, <1>4

\* Pruning cuts a prefix off: the last entry keeps its place behind it.
LEMMA PruneStep ==
    ASSUME LogInv, PruneAll \/ PruneSome
    PROVE  LogInv'
<1> USE DEF LogInv
<1>1. /\ incoming = <<>>
      /\ UNCHANGED <<term, incoming, filling, updates, now>>
  BY DEF PruneAll, PruneSome
<1>2. logs \in Seq(Entries) /\ Len(logs) \in Nat
  BY DEF LogTypes
<1>3. FillInOrder' /\ MergeNotEmpty' /\ SortedByTs(incoming)'
  BY <1>1 DEF FillInOrder, MergeNotEmpty, SortedByTs
<1>4. filling' \in BOOLEAN
  BY <1>1, Zenon DEF LogTypes
<1>5. CASE PruneAll
  <2>1. logs' = <<>> /\ index' = [t \in {} |-> 0]
    BY <1>5 DEF PruneAll
  <2>2. LogTypes'
    BY <1>1, <1>4, <2>1 DEF LogTypes
  <2> QED
    BY <1>3, <2>1, <2>2 DEF SortedLogs, SortedByTs, LastNotBefore
<1>6. CASE PruneSome
  <2> DEFINE c == PruneCount
             D == {t \in DOMAIN index : ~(t \in TsOf(SubSeq(logs, 1, PruneCount)) /\ index[t] # 0)}
  <2>1. c \in Nat
    <3>1. OldEntries \in Nat
      <4>1. IsFiniteSet(1..Len(logs))
        BY <1>2, FS_Interval
      <4>2. IsFiniteSet({i \in 1..Len(logs) : now - logs[i].ts > PruneMaxAge})
        BY <4>1, FS_Subset
      <4> QED
        BY <4>2, FS_CardinalityType DEF OldEntries
    <3> QED
      BY <3>1, LogAssumption DEF PruneCount
  <2>2. /\ c < Len(logs)
        /\ logs' = SubSeq(logs, c + 1, Len(logs))
        /\ index' = [t \in D |-> index[t]]
    BY <1>6 DEF PruneSome, Restrict
  <2>3. D \subseteq DOMAIN index
    OBVIOUS
  <2> HIDE DEF c, D
  <2>5. /\ logs' \in Seq(Entries)
        /\ Len(logs') = Len(logs) - c
        /\ \A i \in 1..(Len(logs) - c) : logs'[i] = logs[c + i]
    BY <1>2, <2>1, <2>2
  <2>6. LogTypes'
    BY <1>1, <1>4, <2>2, <2>3, <2>5 DEF LogTypes
  <2>7. SortedLogs'
    <3>1. ASSUME NEW i \in 1..Len(logs'), NEW j \in 1..Len(logs'), i < j
          PROVE  logs'[i].ts <= logs'[j].ts
      <4>1. /\ c + i \in 1..Len(logs) /\ c + j \in 1..Len(logs) /\ c + i < c + j
            /\ logs'[i] = logs[c + i] /\ logs'[j] = logs[c + j]
        BY <1>2, <2>1, <2>5, <3>1
      <4> QED
        BY <4>1 DEF SortedLogs, SortedByTs
    <3> QED
      BY <3>1 DEF SortedLogs, SortedByTs
  <2>8. LastNotBefore'
    <3>1. logs # <<>> /\ Last(logs') = Last(logs)
      <4>1. Len(logs) - c \in 1..(Len(logs) - c) /\ c + (Len(logs) - c) = Len(logs)
        BY <1>2, <2>1, <2>2
      <4>2. logs # <<>>
        BY <1>2, <2>1, <2>2
      <4> QED
        BY <2>5, <4>1, <4>2 DEF Last
    <3>2. ASSUME Last(logs).ts \in DOMAIN index'
          PROVE  index'[Last(logs).ts] >= Len(logs) - c - 1
      <4>1. index'[Last(logs).ts] = index[Last(logs).ts] /\ Last(logs).ts \in DOMAIN index
        BY <2>2, <2>3, <3>2
      <4>2. index[Last(logs).ts] >= Len(logs) - 1 /\ index[Last(logs).ts] \in Nat
        BY <3>1, <4>1 DEF LastNotBefore, LogTypes
      <4> QED
        BY <1>2, <2>1, <4>1, <4>2
    <3> QED
      BY <2>5, <3>1, <3>2 DEF LastNotBefore
  <2> QED
    BY <1>3, <2>6, <2>7, <2>8
<1> QED
  BY <1>5, <1>6

-----------------------------------------------------------------------------
\* The log begins empty.
LEMMA LogInit ==
    Init => LogInv
<1> SUFFICES ASSUME Init PROVE LogInv
  OBVIOUS
<1>1. logs = <<>> /\ incoming = <<>> /\ filling = FALSE /\ index = [t \in {} |-> 0]
  BY DEF Init
<1>2. LogTypes
  <2>1. DOMAIN index = {}
    BY <1>1
  <2>2. filling \in BOOLEAN
    BY <1>1, Zenon
  <2> QED
    BY <1>1, <2>1, <2>2 DEF LogTypes
<1> QED
  BY <1>1, <1>2 DEF LogInv, SortedLogs, SortedByTs, FillInOrder, MergeNotEmpty, LastNotBefore

\* Every step keeps the order of the log.
LEMMA LogStep ==
    ASSUME ~Forwarding, LogInv, [Next]_vars
    PROVE  LogInv'
<1>1. ASSUME NEW b \in Batches, Update(b)
      PROVE  LogInv'
  <2>1. b \in Seq(Entries) /\ SortedByTs(b)
    BY DEF Batches
  <2>2. /\ incoming' = b
        /\ filling' = (logs = <<>>)
        /\ UNCHANGED <<logs, index>>
    BY <1>1 DEF Update
  <2>3. filling' \in BOOLEAN
    BY <2>2, Zenon
  <2>4. LogTypes'
    BY <2>1, <2>2, <2>3 DEF LogInv, LogTypes
  <2>5. FillInOrder' /\ MergeNotEmpty'
    BY <2>2 DEF FillInOrder, MergeNotEmpty
  <2>6. SortedLogs' /\ SortedByTs(incoming)' /\ LastNotBefore'
    BY <2>1, <2>2 DEF LogInv, SortedLogs, SortedByTs, LastNotBefore
  <2> QED
    BY <2>4, <2>5, <2>6 DEF LogInv
<1>2. CASE FillEntry
  <2>1. incoming # <<>> /\ filling /\ AddLast
    BY <1>2 DEF FillEntry
  <2>2. Entry = incoming[1] /\ Len(incoming) >= 1
    BY <2>1, IncomingFacts DEF LogInv
  <2>3. logs # <<>> => Last(logs).ts <= Entry.ts
    BY <2>1, <2>2 DEF LogInv, FillInOrder, LogTypes
  <2> QED
    BY <2>1, <2>3, AddLastStep
<1>3. CASE AppendEntry
  <2>1. incoming # <<>> /\ ~filling /\ AddLast /\ Entry.ts > Last(logs).ts
    BY <1>3 DEF AppendEntry
  <2>2. logs # <<>>
    BY <2>1 DEF LogInv, MergeNotEmpty
  <2>3. Entry.ts \in Nat /\ Last(logs).ts \in Nat
    BY <2>1, <2>2, IncomingFacts, LogFacts DEF LogInv
  <2> QED
    BY <2>1, <2>2, <2>3, AddLastStep
<1>4. CASE InsertEntry
  BY <1>4, InsertStep
<1>5. CASE InsertRaises
  BY <1>5, RaiseStep
<1>6. CASE ReplaceEntry
  BY <1>6, ReplaceStep
<1>7. CASE ReplaceRaises
  BY <1>7, RaiseStep
<1>8. CASE Commit \/ Tick \/ UNCHANGED vars
  <2>1. UNCHANGED <<logs, index, incoming, filling>>
    BY <1>8 DEF Commit, Tick, vars, queueVars
  <2> QED
    BY <2>1 DEF LogInv, LogTypes, SortedLogs, SortedByTs, FillInOrder, MergeNotEmpty, LastNotBefore
<1>9. CASE PruneAll
  BY <1>9, PruneStep
<1>10. CASE PruneSome
  BY <1>10, PruneStep
<1> QED
  BY <1>1, <1>2, <1>3, <1>4, <1>5, <1>6, <1>7, <1>8, <1>9, <1>10 DEF Next

\* The replicated log stays in timestamp order when every batch is sorted,
\* as receive_log_update sorts it: for any redelivery, any late entry and
\* any pruning, with the stale positions prune() leaves in the map.
THEOREM LogOrdered == ~Forwarding => (Spec => []SortedLogs)
<1> SUFFICES ASSUME ~Forwarding PROVE Spec => []SortedLogs
  OBVIOUS
<1>1. Init => LogInv
  BY LogInit
<1>2. LogInv /\ [Next]_vars => LogInv'
  BY LogStep
<1>3. LogInv => SortedLogs
  BY DEF LogInv
<1> QED
  BY <1>1, <1>2, <1>3, PTL DEF Spec

\* An update keeps the timestamps that were in the log.
LEMMA UpdateKeepsStep ==
    ASSUME LogInv, [Next]_vars, incoming # <<>>
    PROVE  TsOf(logs) \subseteq TsOf(logs')
<1>1. CASE UNCHANGED logs
  BY <1>1 DEF TsOf
<1>2. CASE FillEntry \/ AppendEntry
  <2>1. logs' = Append(logs, Entry) /\ logs \in Seq(Entries)
    BY <1>2 DEF FillEntry, AppendEntry, AddLast, LogInv, LogTypes
  <2>2. \A i \in 1..Len(logs) : i \in 1..Len(logs') /\ logs'[i] = logs[i]
    BY <2>1
  <2> QED
    BY <2>2 DEF TsOf
<1>3. CASE InsertEntry
  <2>1. PICK i \in 0..(Len(logs) - 1) : logs' = InsertAt(logs, i + 1, Entry)
    BY <1>3 DEF InsertEntry
  <2>2. logs \in Seq(Entries) /\ Entry \in Entries /\ i \in 0..Len(logs)
    BY IncomingFacts, <2>1 DEF LogInv, LogTypes
  <2>3. /\ Len(logs') = Len(logs) + 1
        /\ \A j \in 1..(Len(logs) + 1) : logs'[j] =
              IF j <= i THEN logs[j] ELSE IF j = i + 1 THEN Entry ELSE logs[j - 1]
    <3> DEFINE L == InsertAt(logs, i + 1, Entry)
    <3>1. /\ Len(L) = Len(logs) + 1
          /\ \A j \in 1..(Len(logs) + 1) : L[j] =
                IF j <= i THEN logs[j] ELSE IF j = i + 1 THEN Entry ELSE logs[j - 1]
      BY <2>2, InsertAtFacts
    <3>2. logs' = L
      BY <2>1
    <3> HIDE DEF L
    <3> QED
      BY <3>1, <3>2
  <2>4. ASSUME NEW k \in 1..Len(logs)
        PROVE  logs[k].ts \in TsOf(logs')
    <3>1. CASE k <= i
      <4>1. k \in 1..Len(logs') /\ logs'[k] = logs[k]
        BY <2>2, <2>3, <3>1
      <4> QED
        BY <4>1 DEF TsOf
    <3>2. CASE k > i
      <4>1. k + 1 \in 1..Len(logs') /\ logs'[k + 1] = logs[k]
        BY <2>2, <2>3, <3>2
      <4> QED
        BY <4>1 DEF TsOf
    <3> QED
      BY <2>2, <3>1, <3>2
  <2> QED
    BY <2>4 DEF TsOf
<1>4. CASE ReplaceEntry
  <2>1. /\ logs # <<>>
        /\ logs' = [logs EXCEPT ![Len(logs)] = Entry]
        /\ Entry.ts = logs[Len(logs)].ts
    BY <1>4, ReplaceHitsLast
  <2>2. logs \in Seq(Entries)
    BY DEF LogInv, LogTypes
  <2>3. Len(logs') = Len(logs) /\ \A j \in 1..Len(logs) : logs'[j].ts = logs[j].ts
    BY <2>1, <2>2
  <2> QED
    BY <2>3 DEF TsOf
<1>5. InsertRaises \/ ReplaceRaises => UNCHANGED logs
  BY DEF InsertRaises, ReplaceRaises, Raise
<1>6. ~Commit /\ ~Tick /\ ~PruneAll /\ ~PruneSome /\ \A b \in Batches : ~Update(b)
  BY DEF Commit, Tick, PruneAll, PruneSome, Update
<1>7. UNCHANGED vars => UNCHANGED logs
  BY DEF vars, queueVars
<1> QED
  BY <1>1, <1>2, <1>3, <1>4, <1>5, <1>6, <1>7 DEF Next

\* update() never takes an entry's timestamp out of the log, however stale
\* the positions it replaces by.
THEOREM UpdateKeeps == ~Forwarding => (Spec => UpdateKeepsEntries)
<1> SUFFICES ASSUME ~Forwarding PROVE Spec => UpdateKeepsEntries
  OBVIOUS
<1>1. Init => LogInv
  BY LogInit
<1>2. LogInv /\ [Next]_vars => LogInv'
  BY LogStep
<1>3. LogInv /\ [Next]_vars => [incoming # <<>> => TsOf(logs) \subseteq TsOf(logs')]_vars
  BY UpdateKeepsStep
<1> QED
  BY <1>1, <1>2, <1>3, PTL DEF Spec, UpdateKeepsEntries

-----------------------------------------------------------------------------
(* The commits prune() keeps *)

\* The order of the numbers, as a set of pairs.
Below == {pair \in Nat \X Nat : pair[1] < pair[2]}

\* The order of the numbers is well founded.
LEMMA BelowWellFounded ==
    /\ IsWellFoundedOn(Below, Nat)
    /\ \A x, y \in Nat : <<x, y>> \in Below <=> x < y
BY NatLessThanWellFounded DEF Below, OpToRel

\* A set of numbers that is not empty has a least one.
LEMMA LeastNumber ==
    ASSUME NEW T \in SUBSET Nat, T # {}
    PROVE  \E x \in T : \A y \in T : x <= y
<1>1. IsWellFoundedOn(Below, Nat) /\ T \subseteq Nat
  BY BelowWellFounded
<1>2. \E x \in T : \A y \in T : ~ (<<y, x>> \in Below)
  BY <1>1, WFMin, Zenon
<1>3. PICK x \in T : \A y \in T : ~ (<<y, x>> \in Below)
  BY <1>2
<1>4. ASSUME NEW y \in T PROVE x <= y
  <2>1. x \in Nat /\ y \in Nat /\ ~ (<<y, x>> \in Below)
    BY <1>3
  <2>2. ~ (y < x)
    BY <2>1, BelowWellFounded
  <2> QED
    BY <2>1, <2>2
<1> QED
  BY <1>4

\* In a finite set of positions every rank up to its size is taken.
LEMMA RankTaken ==
    ASSUME NEW n \in Nat, NEW K \in SUBSET (1..n), NEW j \in 1..Cardinality(K)
    PROVE  \E i \in K : Cardinality({k \in K : k <= i}) = j
<1> DEFINE UpTo(i) == {k \in K : k <= i}
           R(i) == Cardinality(UpTo(i))
           T == {i \in 0..n : R(i) >= j}
<1>0. \A k \in K : k \in Int /\ 1 <= k /\ k <= n
  OBVIOUS
<1>1. IsFiniteSet(1..n) /\ IsFiniteSet(K)
  <2>1. IsFiniteSet(1..n)
    BY FS_Interval
  <2> QED
    BY <2>1, FS_Subset
<1>2. ASSUME NEW i PROVE IsFiniteSet(UpTo(i)) /\ R(i) \in Nat
  <2>1. UpTo(i) \in SUBSET K
    OBVIOUS
  <2>2. IsFiniteSet(UpTo(i))
    BY <1>1, <2>1, FS_Subset
  <2> QED
    BY <2>2, FS_CardinalityType
<1>3. UpTo(0) = {} /\ UpTo(n) = K
  <2>1. \A k \in K : ~(k <= 0) /\ k <= n
    BY <1>0
  <2> QED
    BY <2>1, Zenon
<1>4. R(0) = 0 /\ R(n) = Cardinality(K)
  BY <1>3, FS_EmptySet
<1>5. Cardinality(K) \in Nat /\ j \in Nat /\ j >= 1 /\ j <= Cardinality(K)
  BY <1>1, FS_CardinalityType
<1>6. T \in SUBSET Nat /\ T # {}
  <2>1. n \in T
    BY <1>4, <1>5
  <2>2. T \subseteq 0..n /\ 0..n \subseteq Nat
    OBVIOUS
  <2> HIDE DEF T
  <2> QED
    BY <2>1, <2>2
<1>7. PICK i \in T : \A y \in T : i <= y
  <2> HIDE DEF T
  <2> QED
    BY <1>6, LeastNumber
<1>8. i \in 0..n /\ R(i) >= j
  BY <1>7
<1>9. i # 0
  BY <1>4, <1>5, <1>8
<1>10. i \in 1..n /\ i - 1 \in 0..n
  BY <1>8, <1>9
<1>11. R(i - 1) < j
  <2>1. i - 1 \notin T
    <3> HIDE DEF T
    <3> QED
      BY <1>7, <1>10
  <2>2. ~(R(i - 1) >= j)
    BY <1>10, <2>1
  <2>3. R(i - 1) \in Nat
    BY <1>2
  <2> HIDE DEF R
  <2> QED
    BY <1>5, <2>2, <2>3
<1>12. i \in K
  <2> SUFFICES ASSUME i \notin K PROVE FALSE
    OBVIOUS
  <2>1. \A k \in K : k <= i <=> k <= i - 1
    BY <1>0, <1>10
  <2>2. UpTo(i) = UpTo(i - 1)
    BY <2>1, Zenon
  <2>3. R(i) = R(i - 1) /\ R(i) \in Nat
    BY <1>2, <2>2
  <2> HIDE DEF R
  <2> QED
    BY <1>5, <1>8, <1>11, <2>3
<1>13. R(i) = R(i - 1) + 1
  <2>1. UpTo(i) = UpTo(i - 1) \cup {i} /\ i \notin UpTo(i - 1)
    <3>1. \A k \in K : k <= i <=> k <= i - 1 \/ k = i
      BY <1>0, <1>10
    <3>2. ~(i <= i - 1) /\ i <= i
      BY <1>10
    <3>3. \A k : k \in UpTo(i) <=> k \in UpTo(i - 1) \cup {i}
      BY <1>12, <3>1, <3>2
    <3>4. UpTo(i) = UpTo(i - 1) \cup {i}
      <4> HIDE DEF UpTo
      <4> QED
        BY <3>3, Zenon
    <3> QED
      BY <3>2, <3>4
  <2> HIDE DEF UpTo
  <2> QED
    BY <1>2, <2>1, FS_AddElement
<1>14. R(i) = j
  <2>1. R(i) \in Nat /\ R(i - 1) \in Nat
    BY <1>2
  <2> HIDE DEF R
  <2> QED
    BY <1>5, <1>8, <1>11, <1>13, <2>1
<1> QED
  BY <1>12, <1>14

\* prune() keeps commits that are later than the first entry it keeps, and
\* invents none.
LEMMA KeptFacts ==
    ASSUME commits \in Seq(Timestamps), NEW f
    PROVE  /\ KeptCommits(f) \in Seq(Timestamps)
           /\ \A j \in 1..Len(KeptCommits(f)) :
                \E i \in 1..Len(commits) :
                    KeptCommits(f)[j] = commits[i] /\ commits[i] > f
<1> DEFINE K == {i \in 1..Len(commits) : commits[i] > f}
           At(j) == CHOOSE i \in K : Cardinality({k \in K : k <= i}) = j
           m == Cardinality(K)
<1>1. Len(commits) \in Nat
  OBVIOUS
<1>2. KeptCommits(f) = [j \in 1..m |-> commits[At(j)]]
  BY DEF KeptCommits
<1>3. K \in SUBSET (1..Len(commits))
  OBVIOUS
<1>4. m \in Nat
  <2>1. IsFiniteSet(1..Len(commits))
    BY <1>1, FS_Interval
  <2>2. IsFiniteSet(K)
    BY <1>3, <2>1, FS_Subset
  <2> QED
    BY <2>2, FS_CardinalityType
<1>5. ASSUME NEW j \in 1..m PROVE At(j) \in K
  <2> HIDE DEF K
  <2>1. \E i \in K : Cardinality({k \in K : k <= i}) = j
    BY <1>1, <1>3, RankTaken
  <2> QED
    BY <2>1
<1> HIDE DEF At, m
<1>6. ASSUME NEW j \in 1..m
      PROVE  At(j) \in 1..Len(commits) /\ commits[At(j)] > f /\ commits[At(j)] \in Timestamps
  BY <1>5
<1> HIDE DEF K
<1>7. KeptCommits(f) \in Seq(Timestamps) /\ Len(KeptCommits(f)) = m
  BY <1>2, <1>4, <1>6
<1> QED
  BY <1>2, <1>6, <1>7

-----------------------------------------------------------------------------
(* While no timestamp came twice *)

\* No timestamp of the batch update() goes through is in the log.
BatchIsNew ==
    \A i \in 1..Len(logs), j \in 1..Len(incoming) : logs[i].ts # incoming[j].ts

\* The map has a position for every entry of the log.
LogMapped == \A i \in 1..Len(logs) : logs[i].ts \in DOMAIN index

\* Commits are of entries that are still in the log.
CommitsInLog == \A c \in 1..Len(commits) : \E i \in 1..Len(logs) : commits[c] = logs[i].ts

\* The positions of the map are those of the log.
Positions == \A i \in 1..Len(logs) : index[logs[i].ts] = i - 1

\* What holds while no timestamp has come again.
Fresh ==
    /\ Distinct(logs)
    /\ Distinct(incoming)
    /\ BatchIsNew
    /\ LogMapped
    /\ CommitsInLog
    /\ ~pruned => Positions

\* The inductive invariant behind LatestDefined and UncommittedInLatest.  A
\* commit has a position because its entry has one, and an entry keeps its
\* own because no other has its timestamp.
FreshInv == LogInv /\ commits \in Seq(Timestamps) /\ (~repeated => Fresh)

\* A timestamp that occurs once, or not at all, is counted so.
LEMMA CountOnce ==
    ASSUME NEW a \in Int, NEW b \in Int, NEW t
    PROVE  /\ (\A j \in a..b : logs[j].ts # t) => Occurrences(t, a, b) = 0
           /\ \A j \in a..b :
                logs[j].ts = t /\ (\A k \in a..b : k # j => logs[k].ts # t) =>
                    Occurrences(t, a, b) = 1
<1> DEFINE S == {j \in a..b : logs[j].ts = t}
<1>1. ASSUME \A j \in a..b : logs[j].ts # t PROVE Occurrences(t, a, b) = 0
  <2>1. S = {}
    BY <1>1
  <2> QED
    BY <2>1, FS_EmptySet DEF Occurrences
<1>2. ASSUME NEW j \in a..b, logs[j].ts = t, \A k \in a..b : k # j => logs[k].ts # t
      PROVE  Occurrences(t, a, b) = 1
  <2>1. S = {j}
    BY <1>2
  <2> QED
    BY <2>1, FS_Singleton DEF Occurrences
<1> QED
  BY <1>1, <1>2

\* The batch that is left is as new as the whole.
LEMMA RestIsNew ==
    ASSUME LogInv, incoming # <<>>, Distinct(incoming), BatchIsNew, incoming' = Tail(incoming)
    PROVE  /\ Distinct(incoming)'
           /\ \A j \in 1..Len(incoming') : incoming'[j].ts # Entry.ts
           /\ \A i \in 1..Len(logs) : logs[i].ts # Entry.ts
           /\ \A i \in 1..Len(logs), j \in 1..Len(incoming') : logs[i].ts # incoming'[j].ts
<1>1. /\ Len(incoming) >= 1 /\ Entry = incoming[1]
      /\ Len(incoming') = Len(incoming) - 1
      /\ \A i \in 1..Len(incoming') : incoming'[i] = incoming[i + 1]
  BY IncomingFacts DEF LogInv
<1>2. Len(incoming) \in Nat /\ 1 \in 1..Len(incoming)
  BY <1>1 DEF LogInv, LogTypes
<1>3. \A i \in 1..Len(incoming') : i + 1 \in 1..Len(incoming) /\ i + 1 # 1
  BY <1>1, <1>2
<1>4. \A i, j \in 1..Len(incoming') : i # j => i + 1 # j + 1
  BY <1>1, <1>2
<1>5. \A j \in 1..Len(incoming') : incoming'[j].ts # Entry.ts
  BY <1>1, <1>2, <1>3 DEF Distinct
<1>6. Distinct(incoming)'
  BY <1>1, <1>3, <1>4 DEF Distinct
<1>7. \A i \in 1..Len(logs) : logs[i].ts # Entry.ts
  BY <1>1, <1>2 DEF BatchIsNew
<1>8. \A i \in 1..Len(logs), j \in 1..Len(incoming') : logs[i].ts # incoming'[j].ts
  BY <1>1, <1>3 DEF BatchIsNew
<1> QED
  BY <1>5, <1>6, <1>7, <1>8

\* A new entry behind the last one.
LEMMA FreshAddLast ==
    ASSUME LogInv, Fresh, incoming # <<>>, AddLast
    PROVE  Fresh'
<1> USE DEF Fresh
<1>1. /\ logs' = Append(logs, Entry)
      /\ index' = SetIndex(Entry.ts, Len(logs))
      /\ incoming' = Tail(incoming)
      /\ commits' = commits /\ pruned' = pruned
  BY DEF AddLast, NextEntry, clockVars
<1>2. /\ Distinct(incoming)'
      /\ \A j \in 1..Len(incoming') : incoming'[j].ts # Entry.ts
      /\ \A i \in 1..Len(logs) : logs[i].ts # Entry.ts
      /\ \A i \in 1..Len(logs), j \in 1..Len(incoming') : logs[i].ts # incoming'[j].ts
  BY <1>1, RestIsNew
<1>3. Entry \in Entries /\ Entry.ts \in Timestamps /\ logs \in Seq(Entries) /\ Len(logs) \in Nat
  BY IncomingFacts, LogFacts DEF LogInv, LogTypes
<1>4. /\ Len(logs') = Len(logs) + 1
      /\ \A i \in 1..Len(logs) : i \in 1..Len(logs') /\ logs'[i] = logs[i]
      /\ logs'[Len(logs) + 1] = Entry
  BY <1>1, <1>3
<1>5. \A i \in 1..Len(logs') : i \in 1..Len(logs) \/ i = Len(logs) + 1
  BY <1>3, <1>4
<1>6. /\ DOMAIN index' = DOMAIN index \cup {Entry.ts}
      /\ index'[Entry.ts] = Len(logs)
      /\ \A u \in DOMAIN index \ {Entry.ts} : index'[u] = index[u]
  BY <1>1 DEF SetIndex
<1>7. Distinct(logs)'
  BY <1>2, <1>4, <1>5 DEF Distinct
<1>8. BatchIsNew'
  BY <1>2, <1>4, <1>5 DEF BatchIsNew
<1>9. LogMapped'
  BY <1>4, <1>5, <1>6 DEF LogMapped
<1>10. CommitsInLog'
  BY <1>1, <1>4 DEF CommitsInLog
<1>11. ~pruned' => Positions'
  <2> SUFFICES ASSUME ~pruned', NEW i \in 1..Len(logs') PROVE index'[logs'[i].ts] = i - 1
    BY DEF Positions
  <2>1. Positions
    BY <1>1
  <2>2. CASE i \in 1..Len(logs)
    <3>1. logs[i].ts \in DOMAIN index \ {Entry.ts} /\ index[logs[i].ts] = i - 1
      BY <1>2, <2>1, <2>2 DEF LogMapped, Positions
    <3> QED
      BY <1>4, <1>6, <2>2, <3>1
  <2>3. CASE i = Len(logs) + 1
    BY <1>3, <1>4, <1>6, <2>3
  <2> QED
    BY <1>5, <2>2, <2>3
<1> QED
  BY <1>2, <1>7, <1>8, <1>9, <1>10, <1>11

\* A late entry in its place: the positions behind it move up by one.
LEMMA FreshInsert ==
    ASSUME LogInv, Fresh, InsertEntry
    PROVE  Fresh'
<1> USE DEF Fresh
<1>1. /\ incoming # <<>>
      /\ incoming' = Tail(incoming)
      /\ commits' = commits /\ pruned' = pruned
  BY DEF InsertEntry, NextEntry, clockVars
<1>2. PICK i \in 0..(Len(logs) - 1) :
        /\ logs' = InsertAt(logs, i + 1, Entry)
        /\ index' = Shifted(i, Len(logs) - i)
  BY DEF InsertEntry
<1>3. /\ Distinct(incoming)'
      /\ \A j \in 1..Len(incoming') : incoming'[j].ts # Entry.ts
      /\ \A k \in 1..Len(logs) : logs[k].ts # Entry.ts
      /\ \A k \in 1..Len(logs), j \in 1..Len(incoming') : logs[k].ts # incoming'[j].ts
  BY <1>1, RestIsNew
<1>4. Entry \in Entries /\ Entry.ts \in Timestamps /\ logs \in Seq(Entries) /\ Len(logs) \in Nat
  BY <1>1, IncomingFacts, LogFacts DEF LogInv, LogTypes
<1>5. i \in 0..Len(logs) /\ i \in Nat /\ i + 1 <= Len(logs)
  BY <1>2, <1>4
<1>6. /\ Len(logs') = Len(logs) + 1
      /\ \A j \in 1..(Len(logs) + 1) : logs'[j] =
            IF j <= i THEN logs[j] ELSE IF j = i + 1 THEN Entry ELSE logs[j - 1]
  <2> DEFINE L == InsertAt(logs, i + 1, Entry)
  <2>1. /\ Len(L) = Len(logs) + 1
        /\ \A j \in 1..(Len(logs) + 1) : L[j] =
              IF j <= i THEN logs[j] ELSE IF j = i + 1 THEN Entry ELSE logs[j - 1]
    BY <1>4, <1>5, InsertAtFacts
  <2>2. logs' = L
    BY <1>2
  <2> HIDE DEF L
  <2> QED
    BY <2>1, <2>2
\* Where an entry of the new log was before.
<1> DEFINE Old(j) == IF j <= i THEN j ELSE j - 1
           New(k) == IF k <= i THEN k ELSE k + 1
<1>7. ASSUME NEW j \in 1..Len(logs'), j # i + 1
      PROVE  Old(j) \in 1..Len(logs) /\ logs'[j] = logs[Old(j)]
  BY <1>4, <1>5, <1>6, <1>7
<1>8. ASSUME NEW k \in 1..Len(logs)
      PROVE  New(k) \in 1..Len(logs') /\ logs'[New(k)] = logs[k]
  <2>1. CASE k <= i
    BY <1>4, <1>5, <1>6, <2>1
  <2>2. CASE ~(k <= i)
    <3>1. k + 1 \in 1..(Len(logs) + 1) /\ ~(k + 1 <= i) /\ k + 1 # i + 1 /\ (k + 1) - 1 = k
      BY <1>4, <1>5, <2>2
    <3> QED
      BY <1>6, <2>2, <3>1
  <2> QED
    BY <2>1, <2>2
<1>9. i + 1 \in 1..Len(logs') /\ logs'[i + 1] = Entry
  BY <1>4, <1>5, <1>6
<1>10. \A j, k \in 1..Len(logs') : j # i + 1 /\ k # i + 1 /\ j # k => Old(j) # Old(k)
  BY <1>4, <1>5, <1>6
<1>11. Distinct(logs)'
  <2> SUFFICES ASSUME NEW j \in 1..Len(logs'), NEW k \in 1..Len(logs'), j # k
               PROVE  logs'[j].ts # logs'[k].ts
    BY DEF Distinct
  <2>1. CASE j # i + 1 /\ k # i + 1
    <3>1. Old(j) # Old(k)
      BY <1>10, <2>1
    <3>2. /\ Old(j) \in 1..Len(logs) /\ logs'[j] = logs[Old(j)]
          /\ Old(k) \in 1..Len(logs) /\ logs'[k] = logs[Old(k)]
      BY <1>7, <2>1
    <3> HIDE DEF Old
    <3> QED
      BY <3>1, <3>2 DEF Distinct
  <2>2. CASE j = i + 1
    <3>1. Old(k) \in 1..Len(logs) /\ logs'[k] = logs[Old(k)]
      BY <1>7, <2>2
    <3> HIDE DEF Old
    <3> QED
      BY <1>3, <1>9, <2>2, <3>1
  <2>3. CASE k = i + 1
    <3>1. Old(j) \in 1..Len(logs) /\ logs'[j] = logs[Old(j)]
      BY <1>7, <2>3
    <3> HIDE DEF Old
    <3> QED
      BY <1>3, <1>9, <2>3, <3>1
  <2> QED
    BY <2>1, <2>2, <2>3
<1>12. BatchIsNew'
  <2> HIDE DEF Old
  <2> QED
    BY <1>3, <1>7, <1>9 DEF BatchIsNew
<1>13. /\ DOMAIN index' = DOMAIN index \cup {Entry.ts}
       /\ index'[Entry.ts] = i + Occurrences(Entry.ts, i + 1, i + (Len(logs) - i))
       /\ \A u \in DOMAIN index \ {Entry.ts} :
            index'[u] = index[u] + Occurrences(u, i + 1, i + (Len(logs) - i))
  BY <1>2 DEF Shifted, SetIndex
<1>14. i + (Len(logs) - i) = Len(logs) /\ i + 1 \in Int /\ Len(logs) \in Int
  BY <1>4, <1>5
<1>15. LogMapped'
  <2> HIDE DEF Old
  <2> QED
    BY <1>7, <1>9, <1>13 DEF LogMapped
<1>16. CommitsInLog'
  <2> SUFFICES ASSUME NEW c \in 1..Len(commits)
               PROVE  \E k \in 1..Len(logs') : commits[c] = logs'[k].ts
    BY <1>1 DEF CommitsInLog
  <2>1. PICK k \in 1..Len(logs) : commits[c] = logs[k].ts
    BY DEF CommitsInLog
  <2> HIDE DEF New
  <2> QED
    BY <1>8, <2>1
<1>17. ~pruned' => Positions'
  <2> SUFFICES ASSUME ~pruned', NEW j \in 1..Len(logs') PROVE index'[logs'[j].ts] = j - 1
    BY DEF Positions
  <2>1. Positions
    BY <1>1
  <2>2. CASE j = i + 1
    <3>1. \A k \in (i + 1)..Len(logs) : logs[k].ts # Entry.ts
      BY <1>3, <1>5
    <3>2. Occurrences(Entry.ts, i + 1, Len(logs)) = 0
      BY <1>14, <3>1, CountOnce
    <3> QED
      BY <1>5, <1>9, <1>13, <1>14, <2>2, <3>2
  <2>3. CASE j # i + 1
    <3> DEFINE k == Old(j)
    <3>1. k \in 1..Len(logs) /\ logs'[j] = logs[k]
      BY <1>7, <2>3
    <3>2. k <= i => j = k
      BY <1>5, <1>6, <2>3
    <3>3. ~(k <= i) => j = k + 1 /\ k \in (i + 1)..Len(logs)
      BY <1>4, <1>5, <1>6, <2>3
    <3> HIDE DEF k
    <3>4. logs[k].ts \in DOMAIN index \ {Entry.ts} /\ index[logs[k].ts] = k - 1
      BY <1>3, <2>1, <3>1 DEF LogMapped, Positions
    <3>5. index'[logs[k].ts] = (k - 1) + Occurrences(logs[k].ts, i + 1, Len(logs))
      BY <1>13, <1>14, <3>4
    <3>6. CASE k <= i
      <4>1. \A m \in (i + 1)..Len(logs) : m \in 1..Len(logs) /\ m # k
        BY <1>4, <1>5, <3>1, <3>6
      <4>2. \A m \in (i + 1)..Len(logs) : logs[m].ts # logs[k].ts
        BY <3>1, <4>1 DEF Distinct
      <4>3. Occurrences(logs[k].ts, i + 1, Len(logs)) = 0
        BY <1>14, <4>2, CountOnce
      <4> QED
        BY <3>1, <3>2, <3>5, <3>6, <4>3
    <3>7. CASE ~(k <= i)
      <4>1. \A m \in (i + 1)..Len(logs) : m \in 1..Len(logs)
        BY <1>4, <1>5
      <4>2. \A m \in (i + 1)..Len(logs) : m # k => logs[m].ts # logs[k].ts
        BY <3>1, <4>1 DEF Distinct
      <4>3. Occurrences(logs[k].ts, i + 1, Len(logs)) = 1
        BY <1>14, <3>3, <3>7, <4>2, CountOnce
      <4> QED
        BY <3>1, <3>3, <3>5, <3>7, <4>3
    <3> QED
      BY <3>6, <3>7
  <2> QED
    BY <2>2, <2>3
<1> QED
  BY <1>3, <1>11, <1>12, <1>15, <1>16, <1>17

\* prune() takes a prefix of the log: the timestamps of the rest are not
\* among those it takes out of the map, and the commits it keeps are later
\* than the first entry it keeps.
LEMMA FreshPruneSome ==
    ASSUME LogInv, Fresh, commits \in Seq(Timestamps), PruneSome
    PROVE  Fresh'
<1> USE DEF Fresh
<1> DEFINE c == PruneCount
           Cut == SubSeq(logs, 1, c)
           D == {t \in DOMAIN index : ~(t \in TsOf(Cut) /\ index[t] # 0)}
<1>1. logs \in Seq(Entries) /\ Len(logs) \in Nat /\ SortedLogs
  BY DEF LogInv, LogTypes
<1>2. c \in Nat
  <2>1. OldEntries \in Nat
    <3>1. IsFiniteSet(1..Len(logs))
      BY <1>1, FS_Interval
    <3>2. IsFiniteSet({i \in 1..Len(logs) : now - logs[i].ts > PruneMaxAge})
      BY <3>1, FS_Subset
    <3> QED
      BY <3>2, FS_CardinalityType DEF OldEntries
  <2> QED
    BY <2>1, LogAssumption DEF PruneCount
<1>3. /\ incoming' = incoming /\ incoming = <<>>
      /\ c < Len(logs)
      /\ logs' = SubSeq(logs, c + 1, Len(logs))
      /\ index' = [t \in D |-> index[t]]
      /\ commits' = KeptCommits(logs[c + 1].ts)
      /\ pruned' = (pruned \/ c > 0)
  BY DEF PruneSome, Restrict
<1>4. /\ Len(Cut) = c
      /\ \A i \in 1..c : Cut[i] = logs[i] /\ i \in 1..Len(logs)
  BY <1>1, <1>2, <1>3
<1>5. TsOf(Cut) = {logs[i].ts : i \in 1..c}
  BY <1>4 DEF TsOf
<1> HIDE DEF Cut
<1>6. \A t \in DOMAIN index : (\A i \in 1..c : logs[i].ts # t) => t \in D
  BY <1>5
<1> HIDE DEF c, D
<1>7. /\ Len(logs') = Len(logs) - c
      /\ \A i \in 1..Len(logs') : c + i \in 1..Len(logs) /\ logs'[i] = logs[c + i]
  BY <1>1, <1>2, <1>3
<1>8. \A i, j \in 1..Len(logs') : i # j => c + i # c + j
  BY <1>2, <1>7
<1>9. Distinct(logs)'
  BY <1>7, <1>8 DEF Distinct
<1>10. Distinct(incoming)' /\ BatchIsNew'
  BY <1>3 DEF Distinct, BatchIsNew
<1>11. ASSUME NEW i \in 1..Len(logs')
       PROVE  logs'[i].ts \in DOMAIN index' /\ index'[logs'[i].ts] = index[logs'[i].ts]
  <2>1. \A k \in 1..c : k \in 1..Len(logs) /\ k # c + i
    BY <1>1, <1>2, <1>3, <1>11
  <2>2. \A k \in 1..c : logs[k].ts # logs[c + i].ts
    BY <1>7, <2>1 DEF Distinct
  <2>3. logs[c + i].ts \in DOMAIN index
    BY <1>7 DEF LogMapped
  <2>4. logs[c + i].ts \in D
    BY <1>6, <2>2, <2>3
  <2> QED
    BY <1>3, <1>7, <2>4
<1>12. LogMapped'
  BY <1>11 DEF LogMapped
<1>13. CommitsInLog'
  <2> SUFFICES ASSUME NEW d \in 1..Len(commits')
               PROVE  \E i \in 1..Len(logs') : commits'[d] = logs'[i].ts
    BY DEF CommitsInLog
  <2>1. PICK e \in 1..Len(commits) :
            commits'[d] = commits[e] /\ commits[e] > logs[c + 1].ts
    BY <1>3, KeptFacts
  <2>2. PICK k \in 1..Len(logs) : commits[e] = logs[k].ts
    BY DEF CommitsInLog
  <2>3. c + 1 \in 1..Len(logs) /\ logs[c + 1].ts \in Nat /\ logs[k].ts \in Nat
    <3>1. c + 1 \in 1..Len(logs)
      BY <1>1, <1>2, <1>3
    <3> QED
      BY <3>1, LogFacts DEF LogInv
  <2>4. ~(k < c + 1)
    BY <2>1, <2>2, <2>3 DEF SortedLogs, SortedByTs, LogInv
  <2>5. k - c \in 1..Len(logs') /\ c + (k - c) = k
    BY <1>1, <1>2, <1>3, <1>7, <2>4
  <2>6. logs'[k - c] = logs[k]
    BY <1>7, <2>5
  <2> QED
    BY <2>1, <2>2, <2>5, <2>6
<1>14. ~pruned' => Positions'
  <2> SUFFICES ASSUME ~pruned', NEW i \in 1..Len(logs') PROVE index'[logs'[i].ts] = i - 1
    BY DEF Positions
  <2>1. ~pruned /\ ~(c > 0)
    BY <1>3
  <2>2. c = 0 /\ c + i = i
    BY <1>2, <2>1
  <2>3. i \in 1..Len(logs) /\ logs'[i] = logs[i]
    BY <1>7, <2>2
  <2> QED
    BY <1>11, <2>1, <2>3 DEF Positions
<1> QED
  BY <1>9, <1>10, <1>12, <1>13, <1>14

\* While nothing was repeated, update() neither replaces nor raises.
LEMMA FreshRaisesNot ==
    ASSUME LogInv, Fresh
    PROVE  ~InsertRaises /\ ~ReplaceEntry /\ ~ReplaceRaises
<1>1. ASSUME InsertRaises PROVE FALSE
  <2>1. PICK i \in 0..(Len(logs) - 1) : Unmapped(i) # {}
    BY <1>1 DEF InsertRaises
  <2>2. \A j \in (i + 1)..Len(logs) : j \in 1..Len(logs)
    BY LogFacts DEF LogInv
  <2> QED
    BY <2>1, <2>2 DEF Unmapped, Fresh, LogMapped
<1>2. ASSUME ReplaceEntry \/ ReplaceRaises PROVE FALSE
  <2>1. incoming # <<>> /\ ~filling /\ Entry.ts = Last(logs).ts
    BY <1>2 DEF ReplaceEntry, ReplaceRaises
  <2>2. logs # <<>>
    BY <2>1 DEF LogInv, MergeNotEmpty
  <2>3. Len(logs) \in 1..Len(logs) /\ Last(logs) = logs[Len(logs)]
    BY <2>2, LogFacts DEF LogInv
  <2>4. 1 \in 1..Len(incoming) /\ Entry = incoming[1]
    BY <2>1, IncomingFacts DEF LogInv, LogTypes
  <2> QED
    BY <2>1, <2>3, <2>4 DEF Fresh, BatchIsNew
<1> QED
  BY <1>1, <1>2

\* Before the first update nothing was repeated and nothing is committed.
LEMMA FreshInit == Init => FreshInv
<1> SUFFICES ASSUME Init PROVE FreshInv
  OBVIOUS
<1>1. logs = <<>> /\ incoming = <<>> /\ commits = <<>>
  BY DEF Init
<1> QED
  BY <1>1, LogInit
     DEF FreshInv, Fresh, Distinct, BatchIsNew, LogMapped, CommitsInLog, Positions

\* The commits stay a sequence of timestamps.
LEMMA CommitsTyped ==
    ASSUME LogInv, commits \in Seq(Timestamps), [Next]_vars
    PROVE  commits' \in Seq(Timestamps)
<1>1. CASE UNCHANGED commits
  BY <1>1
<1>2. CASE Commit
  <2>1. logs # <<>> /\ commits' = Append(commits, Last(logs).ts)
    BY <1>2 DEF Commit
  <2>2. Last(logs) \in Entries
    BY <2>1, LogFacts DEF LogInv
  <2> QED
    BY <2>1, <2>2 DEF Entries
<1>3. CASE PruneAll
  BY <1>3 DEF PruneAll
<1>4. CASE PruneSome
  BY <1>4, KeptFacts DEF PruneSome
<1>5. ASSUME FillEntry \/ AppendEntry \/ InsertEntry \/ InsertRaises \/ ReplaceEntry
             \/ ReplaceRaises \/ Tick \/ (\E b \in Batches : Update(b)) \/ UNCHANGED vars
      PROVE  UNCHANGED commits
  BY <1>5 DEF FillEntry, AppendEntry, AddLast, InsertEntry, InsertRaises, ReplaceEntry,
              ReplaceRaises, NextEntry, Raise, Tick, Update, vars, queueVars
<1> QED
  BY <1>1, <1>2, <1>3, <1>4, <1>5 DEF Next

\* Every step keeps the invariant; only an update can repeat a timestamp.
LEMMA FreshStep ==
    ASSUME ~Forwarding, FreshInv, [Next]_vars
    PROVE  FreshInv'
<1>1. LogInv /\ commits \in Seq(Timestamps) /\ (~repeated => Fresh)
  BY DEF FreshInv
<1>2. LogInv' /\ commits' \in Seq(Timestamps)
  BY <1>1, LogStep, CommitsTyped
<1> SUFFICES ASSUME ~repeated' PROVE Fresh'
  BY <1>2 DEF FreshInv
<1>3. ~repeated
  <2>1. repeated' = repeated \/ \E b \in Batches : Update(b)
    BY DEF Next, FillEntry, AppendEntry, AddLast, InsertEntry, InsertRaises, ReplaceEntry,
           ReplaceRaises, NextEntry, Raise, Commit, PruneAll, PruneSome, Tick, clockVars,
           vars, queueVars
  <2>2. ASSUME NEW b \in Batches, Update(b) PROVE ~repeated
    BY <2>2 DEF Update
  <2> QED
    BY <2>1, <2>2
<1>4. Fresh
  BY <1>1, <1>3
<1>5. ASSUME NEW b \in Batches, Update(b) PROVE Fresh'
  <2>1. /\ Distinct(b) /\ TsOf(b) \cap TsOf(logs) = {}
        /\ incoming' = b
        /\ UNCHANGED <<logs, index, commits, pruned>>
    BY <1>5 DEF Update
  <2>2. BatchIsNew'
    BY <2>1 DEF BatchIsNew, TsOf
  <2> QED
    BY <1>4, <2>1, <2>2 DEF Fresh, Distinct, LogMapped, CommitsInLog, Positions
<1>6. CASE FillEntry \/ AppendEntry
  BY <1>1, <1>4, <1>6, FreshAddLast DEF FillEntry, AppendEntry
<1>7. CASE InsertEntry
  BY <1>1, <1>4, <1>7, FreshInsert
<1>8. ~InsertRaises /\ ~ReplaceEntry /\ ~ReplaceRaises
  BY <1>1, <1>4, FreshRaisesNot
<1>9. CASE Commit
  <2>1. /\ logs # <<>> /\ commits' = Append(commits, Last(logs).ts)
        /\ UNCHANGED <<logs, index, incoming, pruned>>
    BY <1>9 DEF Commit, clockVars
  <2>2. Len(logs) \in 1..Len(logs) /\ Last(logs) = logs[Len(logs)]
    BY <1>1, <2>1, LogFacts DEF LogInv
  <2>3. /\ Len(commits') = Len(commits) + 1
        /\ \A k \in 1..Len(commits) : commits'[k] = commits[k]
        /\ commits'[Len(commits) + 1] = logs[Len(logs)].ts
        /\ \A k \in 1..Len(commits') : k \in 1..Len(commits) \/ k = Len(commits) + 1
    BY <1>1, <2>1, <2>2
  <2>4. CommitsInLog'
    BY <1>4, <2>1, <2>2, <2>3 DEF Fresh, CommitsInLog
  <2> QED
    BY <1>4, <2>1, <2>4 DEF Fresh, Distinct, BatchIsNew, LogMapped, Positions
<1>10. CASE PruneAll
  <2>1. logs' = <<>> /\ commits' = <<>> /\ UNCHANGED incoming
    BY <1>10 DEF PruneAll
  <2> QED
    BY <1>4, <2>1 DEF Fresh, Distinct, BatchIsNew, LogMapped, CommitsInLog, Positions
<1>11. CASE PruneSome
  BY <1>1, <1>4, <1>11, FreshPruneSome
<1>12. CASE Tick \/ UNCHANGED vars
  <2>1. UNCHANGED <<logs, index, commits, incoming, pruned>>
    BY <1>12 DEF Tick, vars, queueVars, clockVars
  <2> QED
    BY <1>4, <2>1 DEF Fresh, Distinct, BatchIsNew, LogMapped, CommitsInLog, Positions
<1> QED
  BY <1>5, <1>6, <1>7, <1>8, <1>9, <1>10, <1>11, <1>12 DEF Next

\* With nothing delivered twice, latest() finds the last commit in the map.
THEOREM LastCommitMapped == ~Forwarding => (Spec => []LatestDefined)
<1> SUFFICES ASSUME ~Forwarding PROVE Spec => []LatestDefined
  OBVIOUS
<1>1. Init => FreshInv
  BY FreshInit
<1>2. FreshInv /\ [Next]_vars => FreshInv'
  BY FreshStep
<1>3. FreshInv => LatestDefined
  <2> SUFFICES ASSUME FreshInv, ~repeated, commits # <<>>
               PROVE  Last(commits) \in DOMAIN index
    BY DEF LatestDefined
  <2>1. Len(commits) \in 1..Len(commits) /\ Last(commits) = commits[Len(commits)]
    BY DEF FreshInv, Last
  <2> QED
    BY <2>1 DEF FreshInv, Fresh, CommitsInLog, LogMapped
<1> QED
  BY <1>1, <1>2, <1>3, PTL DEF Spec

\* With nothing delivered twice and nothing pruned, latest() misses no entry
\* behind the last commit: the leader sends its members all they have not got.
THEOREM UncommittedSent == ~Forwarding => (Spec => []UncommittedInLatest)
<1> SUFFICES ASSUME ~Forwarding PROVE Spec => []UncommittedInLatest
  OBVIOUS
<1>1. Init => FreshInv
  BY FreshInit
<1>2. FreshInv /\ [Next]_vars => FreshInv'
  BY FreshStep
<1>3. FreshInv => UncommittedInLatest
  <2> SUFFICES ASSUME FreshInv, ~repeated, ~pruned, commits # <<>>,
                      NEW i \in 1..Len(logs), logs[i].ts > Last(commits)
               PROVE  logs[i] \in ToSet(Latest)
    BY DEF UncommittedInLatest
  <2>1. Len(commits) \in 1..Len(commits) /\ Last(commits) = commits[Len(commits)]
    BY DEF FreshInv, Last
  <2>2. LogInv /\ Fresh /\ Positions /\ SortedLogs
    BY DEF FreshInv, Fresh, LogInv
  <2>3. PICK k \in 1..Len(logs) : Last(commits) = logs[k].ts
    BY <2>1, <2>2 DEF Fresh, CommitsInLog
  <2>4. LatestIndex = k - 1
    BY <2>2, <2>3 DEF LatestIndex, Positions
  <2>5. logs \in Seq(Entries) /\ Len(logs) \in Nat /\ logs[i].ts \in Nat /\ logs[k].ts \in Nat
    BY <2>2, LogFacts DEF LogInv, LogTypes
  <2>6. ~(i < k) /\ i # k
    BY <2>2, <2>3, <2>5 DEF SortedLogs, SortedByTs
  <2>7. Latest = SubSeq(logs, k, Len(logs))
    <3>1. LatestIndex + 1 = k
      BY <2>4
    <3> QED
      BY <3>1 DEF Latest
  <2>8. /\ i - k + 1 \in 1..(Len(logs) - k + 1)
        /\ k + (i - k + 1) - 1 = i
    BY <2>5, <2>6
  <2>9. i - k + 1 \in DOMAIN Latest /\ Latest[i - k + 1] = logs[i]
    BY <2>5, <2>7, <2>8
  <2> QED
    BY <2>9 DEF ToSet
<1> QED
  BY <1>1, <1>2, <1>3, PTL DEF Spec

-----------------------------------------------------------------------------
\* The types of what the order of the log does not depend on.
OtherTypes ==
    /\ term \in {0} \cup Terms
    /\ updates \in Nat
    /\ now \in Nat
    /\ repeated \in BOOLEAN
    /\ pruned \in BOOLEAN

\* Every step keeps them: the term is that of a batch, and a batch has a
\* last entry.
LEMMA OtherTypesStep ==
    ASSUME OtherTypes, [Next]_vars
    PROVE  OtherTypes'
<1> USE DEF OtherTypes
<1>1. ASSUME NEW b \in Batches, Update(b) PROVE OtherTypes'
  <2>1. b \in Seq(Entries) /\ Len(b) >= 1
    BY LogAssumption DEF Batches
  <2>2. b[Len(b)] \in Entries
    BY <2>1
  <2>3. Last(b).term \in Terms
    BY <2>2 DEF Last, Entries
  <2>4. /\ term' = Last(b).term
        /\ updates' = updates + 1
        /\ repeated' = (repeated \/ ~Distinct(b) \/ TsOf(b) \cap TsOf(logs) # {})
        /\ UNCHANGED <<now, pruned>>
    BY <1>1 DEF Update
  <2>5. repeated' \in BOOLEAN
    BY <2>4, Zenon
  <2> QED
    BY <2>3, <2>4, <2>5
<1>2. ASSUME PruneAll \/ PruneSome PROVE OtherTypes'
  <2>1. UNCHANGED <<term, updates, now, repeated>>
    BY <1>2 DEF PruneAll, PruneSome
  <2>2. pruned' \in BOOLEAN
    BY <1>2, Zenon DEF PruneAll, PruneSome
  <2> QED
    BY <2>1, <2>2
<1>3. CASE Tick
  BY <1>3 DEF Tick, queueVars
<1>4. ASSUME FillEntry \/ AppendEntry \/ InsertEntry \/ InsertRaises \/ ReplaceEntry
             \/ ReplaceRaises \/ Commit \/ UNCHANGED vars
      PROVE  OtherTypes'
  <2>1. UNCHANGED <<term, clockVars>>
    BY <1>4 DEF FillEntry, AppendEntry, AddLast, InsertEntry, InsertRaises, ReplaceEntry,
                ReplaceRaises, NextEntry, Raise, Commit, vars, queueVars
  <2> QED
    BY <2>1 DEF clockVars
<1> QED
  BY <1>1, <1>2, <1>3, <1>4 DEF Next

\* The variables keep their types: the map holds only timestamps of entries,
\* and positions.
THEOREM LogTypeCorrect == ~Forwarding => (Spec => []TypeOK)
<1> SUFFICES ASSUME ~Forwarding PROVE Spec => []TypeOK
  OBVIOUS
<1>1. Init => FreshInv /\ OtherTypes
  <2> SUFFICES ASSUME Init PROVE FreshInv /\ OtherTypes
    OBVIOUS
  <2>1. term = 0 /\ updates = 0 /\ now = 0
    BY DEF Init
  <2>2. repeated \in BOOLEAN /\ pruned \in BOOLEAN
    BY Zenon DEF Init
  <2> QED
    BY <2>1, <2>2, FreshInit DEF OtherTypes
<1>2. FreshInv /\ OtherTypes /\ [Next]_vars => FreshInv' /\ OtherTypes'
  BY FreshStep, OtherTypesStep
<1>3. FreshInv /\ OtherTypes => TypeOK
  BY DEF FreshInv, OtherTypes, LogInv, LogTypes, TypeOK
<1> QED
  BY <1>1, <1>2, <1>3, PTL DEF Spec
=============================================================================
