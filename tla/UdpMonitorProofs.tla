-------------------------- MODULE UdpMonitorProofs --------------------------
(***************************************************************************)
(* Theorems about how responses meet requests over UDP, for any number of  *)
(* requests and any number of lost, doubled and overtaking datagrams; and  *)
(* about the suspicions of the monitor that runs on it, for any number of  *)
(* nodes, suspicions and requests.                                         *)
(***************************************************************************)
EXTENDS UdpConnection, Monitor, FiniteSetTheorems, SequenceTheorems, TLAPS

-----------------------------------------------------------------------------
(* The UDP connection *)

\* The types, the counters of what the network did included; a request that
\* was not sent is idle.
Types ==
    /\ TypeOK
    /\ lost \in Nat /\ duplicated \in Nat /\ overtaken \in Nat
    /\ \A r \in Ids : r > sent => pc[r] = "idle"

\* The waiters are queued in the order of the send() calls.
QueueInv ==
    /\ \A i \in 1..Len(queue) : queue[i] <= sent
    /\ \A i, j \in 1..Len(queue) : i < j => queue[i] < queue[j]

\* As many tasks are about to run as there are waiters that were queued while
\* others were parked.
ParkedInv == parked # <<>> => Len(queue) <= Len(ready)

\* Four sequences, one after the other.
Chain(a, b, c, d) == a \o (b \o (c \o d))

\* What is under way from the send() of a request to the _receive_response of
\* its answer, the oldest first.
Pipe == Chain(ready, toClient, handling, toPeer)

\* While nothing overtakes, no task parks, and the k-th answer to come is not
\* older than the k-th waiter.
OrderInv ==
    Ordered => /\ parked = <<>>
               /\ Len(Pipe) <= Len(queue)
               /\ \A k \in 1..Len(Pipe) : queue[k] <= Pipe[k]

\* If nothing is lost either, they are the same requests.
LosslessInv == Ordered /\ lost = 0 => Pipe = queue

-----------------------------------------------------------------------------
(* Sequences *)

\* The elements of two sequences one after the other.
LEMMA ConcatElements ==
    ASSUME NEW S, NEW s \in Seq(S), NEW t \in Seq(S)
    PROVE  /\ s \o t \in Seq(S)
           /\ Len(s \o t) = Len(s) + Len(t)
           /\ \A k \in 1..Len(s) : (s \o t)[k] = s[k]
           /\ \A k \in 1..Len(t) : (s \o t)[Len(s) + k] = t[k]
<1> DEFINE p == s \o t
           m == Len(s)
           n == Len(t)
<1>1. m \in Nat /\ n \in Nat
  OBVIOUS
<1>2. /\ p \in Seq(S)
      /\ Len(p) = m + n
      /\ \A k \in 1..(m + n) : p[k] = IF k <= m THEN s[k] ELSE t[k - m]
  BY ConcatProperties
<1> HIDE DEF p, m, n
<1>3. \A k \in 1..m : p[k] = s[k]
  BY <1>1, <1>2
<1>4. ASSUME NEW k \in 1..n PROVE p[m + k] = t[k]
  <2>1. m + k \in 1..(m + n) /\ ~(m + k <= m) /\ m + k - m = k
    BY <1>1
  <2>2. p[m + k] = IF m + k <= m THEN s[m + k] ELSE t[m + k - m]
    BY <1>1, <1>2, <2>1
  <2> QED
    BY <2>1, <2>2
<1> QED
  BY <1>2, <1>3, <1>4 DEF p, m, n

\* What RemoveAt leaves of a sequence.
LEMMA RemoveAtElements ==
    ASSUME NEW S, NEW s \in Seq(S), NEW i \in 1..Len(s), NEW n \in Nat, Len(s) = n + 1
    PROVE  /\ RemoveAt(s, i) \in Seq(S)
           /\ Len(RemoveAt(s, i)) = n
           /\ \A k \in 1..n : RemoveAt(s, i)[k] = IF k < i THEN s[k] ELSE s[k + 1]
<1> DEFINE a == SubSeq(s, 1, i - 1)
           b == SubSeq(s, i + 1, Len(s))
<1>1. i \in Nat /\ i - 1 \in Nat /\ n + 1 - i \in Nat
  OBVIOUS
<1>2. a \in Seq(S) /\ Len(a) = i - 1 /\ \A k \in 1..(i - 1) : a[k] = s[k]
  <2>1. \A k \in 1..(i - 1) : s[k] \in S
    BY ElementOfSeq
  <2> QED
    BY <1>1, <2>1, SubSeqProperties
<1>3. b \in Seq(S) /\ Len(b) = n + 1 - i /\ \A k \in 1..(n + 1 - i) : b[k] = s[k + i]
  <2>1. \A k \in (i + 1)..Len(s) : s[k] \in S
    BY ElementOfSeq
  <2> QED
    BY <1>1, <2>1, SubSeqProperties
<1>4. RemoveAt(s, i) = a \o b
  BY DEF RemoveAt
<1> HIDE DEF a, b
<1> DEFINE p == a \o b
<1>5. /\ p \in Seq(S)
      /\ Len(p) = (i - 1) + (n + 1 - i)
      /\ \A k \in 1..(i - 1) : p[k] = a[k]
      /\ \A k \in 1..(n + 1 - i) : p[i - 1 + k] = b[k]
  <2>0. a \in Seq(S) /\ b \in Seq(S)
    BY <1>2, <1>3
  <2>1. /\ p \in Seq(S)
        /\ Len(p) = Len(a) + Len(b)
        /\ \A k \in 1..Len(a) : p[k] = a[k]
        /\ \A k \in 1..Len(b) : p[Len(a) + k] = b[k]
    BY <2>0, ConcatElements
  <2> HIDE DEF p
  <2> QED
    BY <1>1, <1>2, <1>3, <2>1
<1> HIDE DEF p
<1>6. ASSUME NEW k \in 1..n
      PROVE  p[k] = IF k < i THEN s[k] ELSE s[k + 1]
  <2>1. CASE k < i
    BY <1>1, <1>2, <1>5, <2>1
  <2>2. CASE k >= i
    <3> DEFINE j == k - (i - 1)
    <3>1. j \in 1..(n + 1 - i) /\ i - 1 + j = k /\ j + i = k + 1
      BY <1>1, <2>2
    <3> HIDE DEF j
    <3>2. p[k] = b[j] /\ b[j] = s[j + i]
      BY <1>3, <1>5, <3>1
    <3>3. ~(k < i)
      BY <1>1, <2>2
    <3> QED
      BY <3>1, <3>2, <3>3
  <2> QED
    BY <1>1, <2>1, <2>2
<1> QED
  BY <1>4, <1>5, <1>6 DEF p

\* Removing an element keeps the type of a sequence.
LEMMA RemoveAtInSeq ==
    ASSUME NEW S, NEW s \in Seq(S), NEW i \in 1..Len(s)
    PROVE  RemoveAt(s, i) \in Seq(S)
<1> DEFINE n == Len(s) - 1
<1>1. n \in Nat /\ Len(s) = n + 1
  OBVIOUS
<1> HIDE DEF n
<1> QED
  BY <1>1, RemoveAtElements

\* The first of a sequence goes to the end of the one before it: together
\* they stay what they were.
LEMMA PassOn ==
    ASSUME NEW S, NEW s \in Seq(S), NEW t \in Seq(S), NEW i \in 1..Len(t), i = 1
    PROVE  /\ Append(s, t[i]) \in Seq(S) /\ RemoveAt(t, i) \in Seq(S)
           /\ Append(s, t[i]) \o RemoveAt(t, i) = s \o t
<1> DEFINE u == Append(s, t[1])
           v == RemoveAt(t, 1)
           m == Len(s)
           n == Len(t) - 1
<1>1. m \in Nat /\ n \in Nat /\ t[1] \in S /\ Len(s) = m /\ Len(t) = n + 1
  BY ElementOfSeq
<1>2. /\ u \in Seq(S) /\ Len(u) = m + 1
      /\ \A k \in 1..m : u[k] = s[k]
      /\ u[m + 1] = t[1]
  BY <1>1, AppendProperties
<1> HIDE DEF m, n, u
<1>3. v \in Seq(S) /\ Len(v) = n /\ \A k \in 1..n : v[k] = t[k + 1]
  <2>1. /\ v \in Seq(S)
        /\ Len(v) = n
        /\ \A k \in 1..n : v[k] = IF k < 1 THEN t[k] ELSE t[k + 1]
    BY <1>1, RemoveAtElements
  <2> HIDE DEF v
  <2> QED
    BY <1>1, <2>1
<1> HIDE DEF v
<1> DEFINE p == u \o v
           q == s \o t
<1>4. /\ p \in Seq(S) /\ Len(p) = m + 1 + n
      /\ \A k \in 1..(m + 1) : p[k] = u[k]
      /\ \A k \in 1..n : p[m + 1 + k] = v[k]
  <2>0. u \in Seq(S) /\ v \in Seq(S)
    BY <1>2, <1>3
  <2>1. /\ p \in Seq(S)
        /\ Len(p) = Len(u) + Len(v)
        /\ \A k \in 1..Len(u) : p[k] = u[k]
        /\ \A k \in 1..Len(v) : p[Len(u) + k] = v[k]
    BY <2>0, ConcatElements
  <2> HIDE DEF p
  <2> QED
    BY <1>1, <1>2, <1>3, <2>1
<1>5. /\ q \in Seq(S) /\ Len(q) = m + (n + 1)
      /\ \A k \in 1..m : q[k] = s[k]
      /\ \A k \in 1..(n + 1) : q[m + k] = t[k]
  <2>1. /\ q \in Seq(S)
        /\ Len(q) = Len(s) + Len(t)
        /\ \A k \in 1..Len(s) : q[k] = s[k]
        /\ \A k \in 1..Len(t) : q[Len(s) + k] = t[k]
    BY ConcatElements
  <2> HIDE DEF q
  <2> QED
    BY <1>1, <2>1
<1> HIDE DEF p, q
<1>6. ASSUME NEW k \in 1..(m + 1 + n)
      PROVE  p[k] = q[k]
  <2>1. CASE k <= m
    BY <1>1, <1>2, <1>4, <1>5, <2>1
  <2>2. CASE k = m + 1
    <3>1. m + 1 \in 1..(m + 1) /\ 1 \in 1..(n + 1)
      BY <1>1
    <3>2. p[m + 1] = u[m + 1] /\ q[m + 1] = t[1]
      BY <1>4, <1>5, <3>1
    <3> QED
      BY <1>2, <2>2, <3>2
  <2>3. CASE k > m + 1
    <3> DEFINE j == k - (m + 1)
    <3>1. j \in 1..n /\ m + 1 + j = k /\ m + (j + 1) = k /\ j + 1 \in 1..(n + 1)
      BY <1>1, <2>3
    <3> HIDE DEF j
    <3>2. p[m + 1 + j] = t[j + 1] /\ q[m + (j + 1)] = t[j + 1]
      BY <1>3, <1>4, <1>5, <3>1
    <3> QED
      BY <3>1, <3>2
  <2> QED
    BY <1>1, <2>1, <2>2, <2>3
<1>7. p = q
  <2>1. Len(p) = Len(q) /\ \A k \in 1..Len(p) : p[k] = q[k]
    BY <1>1, <1>4, <1>5, <1>6
  <2> QED
    BY <1>4, <1>5, <2>1, SeqEqual
<1> QED
  BY <1>2, <1>3, <1>7 DEF u, v, p, q

\* Whatever comes after them.
LEMMA PassOnBefore ==
    ASSUME NEW s \in Seq(Ids), NEW t \in Seq(Ids), NEW u \in Seq(Ids), NEW i \in 1..Len(t), i = 1
    PROVE  Append(s, t[i]) \o (RemoveAt(t, i) \o u) = s \o (t \o u)
<1> DEFINE v == Append(s, t[i])
           w == RemoveAt(t, i)
<1>1. v \in Seq(Ids) /\ w \in Seq(Ids)
  BY PassOn
<1>2. v \o w = s \o t
  BY PassOn
<1> HIDE DEF v, w
<1>3. \A x \in Seq(Ids), y \in Seq(Ids), z \in Seq(Ids) : (x \o y) \o z = x \o (y \o z)
  OBVIOUS
<1>4. (v \o w) \o u = v \o (w \o u)
  BY <1>1, <1>3, Zenon
<1>5. (s \o t) \o u = s \o (t \o u)
  BY <1>3, Zenon
<1> QED
  BY <1>2, <1>4, <1>5, Zenon DEF v, w

\* Removing from the second of two sequences is removing from both together.
LEMMA RemoveFromSecond ==
    ASSUME NEW S, NEW s \in Seq(S), NEW t \in Seq(S), NEW i \in 1..Len(t)
    PROVE  s \o RemoveAt(t, i) = RemoveAt(s \o t, Len(s) + i) /\ Len(s) + i \in 1..Len(s \o t)
<1> DEFINE v == RemoveAt(t, i)
           q == s \o t
           m == Len(s)
           n == Len(t) - 1
<1>1. m \in Nat /\ n \in Nat /\ i \in 1..(n + 1) /\ Len(s) = m /\ Len(t) = n + 1
  OBVIOUS
<1> HIDE DEF m, n
<1>2. v \in Seq(S) /\ Len(v) = n
      /\ \A k \in 1..n : v[k] = IF k < i THEN t[k] ELSE t[k + 1]
  BY <1>1, RemoveAtElements
<1>3. /\ q \in Seq(S) /\ Len(q) = m + (n + 1)
      /\ \A k \in 1..m : q[k] = s[k]
      /\ \A k \in 1..(n + 1) : q[m + k] = t[k]
  <2>1. /\ q \in Seq(S)
        /\ Len(q) = Len(s) + Len(t)
        /\ \A k \in 1..Len(s) : q[k] = s[k]
        /\ \A k \in 1..Len(t) : q[Len(s) + k] = t[k]
    BY ConcatElements
  <2> HIDE DEF q
  <2> QED
    BY <1>1, <2>1
<1> HIDE DEF v, q
<1> DEFINE w == RemoveAt(q, m + i)
           p == s \o v
<1>4. m + i \in 1..Len(q) /\ m + n \in Nat /\ Len(q) = m + n + 1
  BY <1>1, <1>3
<1>5. w \in Seq(S) /\ Len(w) = m + n
      /\ \A k \in 1..(m + n) : w[k] = IF k < m + i THEN q[k] ELSE q[k + 1]
  BY <1>3, <1>4, RemoveAtElements
<1>6. /\ p \in Seq(S) /\ Len(p) = m + n
      /\ \A k \in 1..m : p[k] = s[k]
      /\ \A k \in 1..n : p[m + k] = v[k]
  <2>0. s \in Seq(S) /\ v \in Seq(S)
    BY <1>2
  <2>1. /\ p \in Seq(S)
        /\ Len(p) = Len(s) + Len(v)
        /\ \A k \in 1..Len(s) : p[k] = s[k]
        /\ \A k \in 1..Len(v) : p[Len(s) + k] = v[k]
    BY <2>0, ConcatElements
  <2> HIDE DEF p
  <2> QED
    BY <1>1, <1>2, <2>1
<1> HIDE DEF w, p
<1>7. ASSUME NEW k \in 1..(m + n)
      PROVE  p[k] = w[k]
  <2>1. CASE k <= m
    BY <1>1, <1>3, <1>5, <1>6, <2>1
  <2>2. CASE k > m
    <3> DEFINE j == k - m
    <3>1. j \in 1..n /\ m + j = k /\ m + (j + 1) = k + 1 /\ j + 1 \in 1..(n + 1) /\ j \in 1..(n + 1)
      BY <1>1, <2>2
    <3> HIDE DEF j
    <3>2. p[k] = IF j < i THEN t[j] ELSE t[j + 1]
      BY <1>2, <1>6, <3>1
    <3>3. w[k] = IF k < m + i THEN t[j] ELSE t[j + 1]
      BY <1>3, <1>5, <3>1
    <3>4. j < i <=> k < m + i
      BY <1>1, <3>1
    <3> QED
      BY <3>2, <3>3, <3>4
  <2> QED
    BY <1>1, <2>1, <2>2
<1>8. p = w
  BY <1>5, <1>6, <1>7, SeqEqual
<1> QED
  BY <1>4, <1>8 DEF v, w, p, q, m

\* Removing from the first of them, too.
LEMMA RemoveFromFirst ==
    ASSUME NEW S, NEW s \in Seq(S), NEW t \in Seq(S), NEW i \in 1..Len(s)
    PROVE  RemoveAt(s, i) \o t = RemoveAt(s \o t, i) /\ i \in 1..Len(s \o t)
<1> DEFINE v == RemoveAt(s, i)
           q == s \o t
           m == Len(s) - 1
           n == Len(t)
<1>1. m \in Nat /\ n \in Nat /\ i \in 1..(m + 1) /\ Len(s) = m + 1 /\ Len(t) = n
  OBVIOUS
<1> HIDE DEF m, n
<1>2. v \in Seq(S) /\ Len(v) = m
      /\ \A k \in 1..m : v[k] = IF k < i THEN s[k] ELSE s[k + 1]
  BY <1>1, RemoveAtElements
<1>3. /\ q \in Seq(S) /\ Len(q) = m + 1 + n
      /\ \A k \in 1..(m + 1) : q[k] = s[k]
      /\ \A k \in 1..n : q[m + 1 + k] = t[k]
  <2>1. /\ q \in Seq(S)
        /\ Len(q) = Len(s) + Len(t)
        /\ \A k \in 1..Len(s) : q[k] = s[k]
        /\ \A k \in 1..Len(t) : q[Len(s) + k] = t[k]
    BY ConcatElements
  <2> HIDE DEF q
  <2> QED
    BY <1>1, <2>1
<1> HIDE DEF v, q
<1> DEFINE w == RemoveAt(q, i)
           p == v \o t
<1>4. i \in 1..Len(q) /\ m + n \in Nat /\ Len(q) = m + n + 1
  BY <1>1, <1>3
<1>5. w \in Seq(S) /\ Len(w) = m + n
      /\ \A k \in 1..(m + n) : w[k] = IF k < i THEN q[k] ELSE q[k + 1]
  BY <1>3, <1>4, RemoveAtElements
<1>6. /\ p \in Seq(S) /\ Len(p) = m + n
      /\ \A k \in 1..m : p[k] = v[k]
      /\ \A k \in 1..n : p[m + k] = t[k]
  <2>0. v \in Seq(S) /\ t \in Seq(S)
    BY <1>2
  <2>1. /\ p \in Seq(S)
        /\ Len(p) = Len(v) + Len(t)
        /\ \A k \in 1..Len(v) : p[k] = v[k]
        /\ \A k \in 1..Len(t) : p[Len(v) + k] = t[k]
    BY <2>0, ConcatElements
  <2> HIDE DEF p
  <2> QED
    BY <1>1, <1>2, <2>1
<1> HIDE DEF w, p
<1>7. ASSUME NEW k \in 1..(m + n)
      PROVE  p[k] = w[k]
  <2>1. CASE k <= m
    <3>1. k \in 1..m /\ k \in 1..(m + 1) /\ k + 1 \in 1..(m + 1)
      BY <1>1, <2>1
    <3>2. p[k] = IF k < i THEN s[k] ELSE s[k + 1]
      BY <1>2, <1>6, <3>1
    <3>3. w[k] = IF k < i THEN s[k] ELSE s[k + 1]
      BY <1>3, <1>5, <3>1
    <3> QED
      BY <3>2, <3>3
  <2>2. CASE k > m
    <3> DEFINE j == k - m
    <3>1. j \in 1..n /\ m + j = k /\ m + 1 + j = k + 1 /\ ~(k < i)
      BY <1>1, <2>2
    <3> HIDE DEF j
    <3> QED
      BY <1>3, <1>5, <1>6, <3>1
  <2> QED
    BY <1>1, <2>1, <2>2
<1>8. p = w
  BY <1>5, <1>6, <1>7, SeqEqual
<1> QED
  BY <1>4, <1>8 DEF v, w, p, q

\* What passing an element on and losing one do to four sequences seen as one:
\* the first of a part goes to the end of the part before it and the whole
\* does not change; an element that a part loses is lost to the whole.
ChainMoves(a, b, c, d) ==
    /\ Chain(a, b, c, d) \in Seq(Ids)
    /\ \A i \in 1..Len(d) : i = 1 => Chain(a, b, Append(c, d[i]), RemoveAt(d, i)) = Chain(a, b, c, d)
    /\ \A i \in 1..Len(c) : i = 1 => Chain(a, Append(b, c[i]), RemoveAt(c, i), d) = Chain(a, b, c, d)
    /\ \A i \in 1..Len(b) : i = 1 => Chain(Append(a, b[i]), RemoveAt(b, i), c, d) = Chain(a, b, c, d)
    /\ \A i \in 1..Len(d) : \E j \in 1..Len(Chain(a, b, c, d)) :
         Chain(a, b, c, RemoveAt(d, i)) = RemoveAt(Chain(a, b, c, d), j)
    /\ \A i \in 1..Len(c) : \E j \in 1..Len(Chain(a, b, c, d)) :
         Chain(a, b, RemoveAt(c, i), d) = RemoveAt(Chain(a, b, c, d), j)
    /\ \A i \in 1..Len(b) : \E j \in 1..Len(Chain(a, b, c, d)) :
         Chain(a, RemoveAt(b, i), c, d) = RemoveAt(Chain(a, b, c, d), j)

\* What is appended to the last of them joins the whole at its end, and the
\* first of the first one is the first of the whole.
ChainEnds(a, b, c, d) ==
    /\ \A r \in Ids : Chain(a, b, c, Append(d, r)) = Append(Chain(a, b, c, d), r)
    /\ a # <<>> => /\ Chain(Tail(a), b, c, d) = Tail(Chain(a, b, c, d))
                   /\ Chain(a, b, c, d) # <<>>
                   /\ Head(a) = Chain(a, b, c, d)[1]

\* Datagrams and tasks that pass their request on keep what is under way, and
\* a loss takes one request out of it.
LEMMA PipeParts ==
    ASSUME NEW a \in Seq(Ids), NEW b \in Seq(Ids), NEW c \in Seq(Ids), NEW d \in Seq(Ids)
    PROVE  ChainMoves(a, b, c, d)
<1> USE DEF Chain, ChainMoves
<1>1. c \o d \in Seq(Ids) /\ b \o (c \o d) \in Seq(Ids) /\ a \o (b \o (c \o d)) \in Seq(Ids)
  <2>1. \A s, t \in Seq(Ids) : s \o t \in Seq(Ids)
    BY ConcatProperties
  <2> QED
    BY <2>1, Zenon
<1>2. ASSUME NEW i \in 1..Len(d), i = 1
      PROVE  Append(c, d[i]) \o RemoveAt(d, i) = c \o d
  BY <1>2, PassOn
<1>3. \A s \in Seq(Ids), t \in Seq(Ids), u \in Seq(Ids) : \A i \in 1..Len(t) : i = 1 =>
          Append(s, t[i]) \o (RemoveAt(t, i) \o u) = s \o (t \o u)
  BY PassOnBefore
<1>4. ASSUME NEW s \in Seq(Ids), NEW t \in Seq(Ids), NEW i \in 1..Len(t)
      PROVE  \E j \in 1..Len(s \o t) : s \o RemoveAt(t, i) = RemoveAt(s \o t, j)
  <2>1. s \o RemoveAt(t, i) = RemoveAt(s \o t, Len(s) + i) /\ Len(s) + i \in 1..Len(s \o t)
    BY RemoveFromSecond
  <2> QED
    BY <2>1, Zenon
<1>5. ASSUME NEW s \in Seq(Ids), NEW t \in Seq(Ids), NEW i \in 1..Len(s)
      PROVE  \E j \in 1..Len(s \o t) : RemoveAt(s, i) \o t = RemoveAt(s \o t, j)
  <2>1. RemoveAt(s, i) \o t = RemoveAt(s \o t, i) /\ i \in 1..Len(s \o t)
    BY RemoveFromFirst
  <2> QED
    BY <2>1, Zenon
<1>6. ASSUME NEW i \in 1..Len(b)
      PROVE  \E j \in 1..Len(a \o (b \o (c \o d))) :
                a \o (RemoveAt(b, i) \o (c \o d)) = RemoveAt(a \o (b \o (c \o d)), j)
  <2>1. PICK j \in 1..Len(b \o (c \o d)) : RemoveAt(b, i) \o (c \o d) = RemoveAt(b \o (c \o d), j)
    BY <1>1, <1>5, Zenon
  <2>2. \E l \in 1..Len(a \o (b \o (c \o d))) : a \o RemoveAt(b \o (c \o d), j) = RemoveAt(a \o (b \o (c \o d)), l)
    BY <1>1, <1>4, Zenon
  <2> QED
    BY <2>1, <2>2, Zenon
<1>7. ASSUME NEW x \in Seq(Ids), NEW j \in 1..Len(c \o d), x = RemoveAt(c \o d, j)
      PROVE  \E l \in 1..Len(a \o (b \o (c \o d))) : a \o (b \o x) = RemoveAt(a \o (b \o (c \o d)), l)
  <2>1. PICK k \in 1..Len(b \o (c \o d)) : b \o RemoveAt(c \o d, j) = RemoveAt(b \o (c \o d), k)
    BY <1>1, <1>4, Zenon
  <2>2. \E l \in 1..Len(a \o (b \o (c \o d))) : a \o RemoveAt(b \o (c \o d), k) = RemoveAt(a \o (b \o (c \o d)), l)
    BY <1>1, <1>4, Zenon
  <2> QED
    BY <1>7, <2>1, <2>2, Zenon
<1>8. ASSUME NEW i \in 1..Len(c)
      PROVE  \E j \in 1..Len(a \o (b \o (c \o d))) :
                a \o (b \o (RemoveAt(c, i) \o d)) = RemoveAt(a \o (b \o (c \o d)), j)
  <2>1. PICK j \in 1..Len(c \o d) : RemoveAt(c, i) \o d = RemoveAt(c \o d, j)
    BY <1>5, Zenon
  <2>2. RemoveAt(c \o d, j) \in Seq(Ids)
    BY <1>1, RemoveAtInSeq
  <2> QED
    BY <1>7, <2>1, <2>2, Zenon
<1>9. ASSUME NEW i \in 1..Len(d)
      PROVE  \E j \in 1..Len(a \o (b \o (c \o d))) :
                a \o (b \o (c \o RemoveAt(d, i))) = RemoveAt(a \o (b \o (c \o d)), j)
  <2>1. PICK j \in 1..Len(c \o d) : c \o RemoveAt(d, i) = RemoveAt(c \o d, j)
    BY <1>4, Zenon
  <2>2. RemoveAt(c \o d, j) \in Seq(Ids)
    BY <1>1, RemoveAtInSeq
  <2> QED
    BY <1>7, <2>1, <2>2, Zenon
<1>10. ASSUME NEW i \in 1..Len(d), i = 1
       PROVE  a \o (b \o (Append(c, d[i]) \o RemoveAt(d, i))) = a \o (b \o (c \o d))
  BY <1>2, <1>10, Zenon
<1>11. ASSUME NEW i \in 1..Len(c), i = 1
       PROVE  a \o (Append(b, c[i]) \o (RemoveAt(c, i) \o d)) = a \o (b \o (c \o d))
  BY <1>3, <1>11, Zenon
<1>12. ASSUME NEW i \in 1..Len(b), i = 1
       PROVE  Append(a, b[i]) \o (RemoveAt(b, i) \o (c \o d)) = a \o (b \o (c \o d))
  <2>1. c \o d \in Seq(Ids) /\ a \in Seq(Ids) /\ b \in Seq(Ids)
    BY <1>1
  <2> QED
    BY <1>3, <1>12, <2>1, Zenon
<1> QED
  BY <1>1, <1>6, <1>8, <1>9, <1>10, <1>11, <1>12, Zenon

\* What is appended to the second of two sequences is appended to both.
LEMMA ConcatAppend ==
    ASSUME NEW s \in Seq(Ids), NEW t \in Seq(Ids), NEW r \in Ids
    PROVE  s \o Append(t, r) = Append(s \o t, r)
<1>1. \A x \in Seq(Ids) : Append(x, r) = x \o <<r>>
  BY AppendIsConcat
<1>2. <<r>> \in Seq(Ids)
  OBVIOUS
<1>3. s \o t \in Seq(Ids)
  BY ConcatProperties
<1>4. \A x \in Seq(Ids), y \in Seq(Ids), z \in Seq(Ids) : (x \o y) \o z = x \o (y \o z)
  OBVIOUS
<1>5. (s \o t) \o <<r>> = s \o (t \o <<r>>)
  BY <1>2, <1>4, Zenon
<1> QED
  BY <1>1, <1>3, <1>5, Zenon

\* The first element of two sequences is that of the first one.
LEMMA ConcatTail ==
    ASSUME NEW s \in Seq(Ids), NEW t \in Seq(Ids), s # <<>>
    PROVE  Tail(s) \o t = Tail(s \o t) /\ s \o t # <<>> /\ Head(s) = (s \o t)[1]
<1> DEFINE m == Len(s) - 1
           n == Len(t)
           p == s \o t
           v == Tail(s)
<1>1. m \in Nat /\ n \in Nat /\ Len(s) = m + 1 /\ Len(t) = n /\ Head(s) = s[1]
  BY EmptySeq
<1>2. /\ p \in Seq(Ids) /\ Len(p) = Len(s) + Len(t)
      /\ \A k \in 1..Len(s) : p[k] = s[k]
      /\ \A k \in 1..Len(t) : p[Len(s) + k] = t[k]
  BY ConcatElements
<1>3. /\ v \in Seq(Ids) /\ Len(v) = Len(s) - 1
      /\ \A k \in 1..Len(v) : v[k] = s[k + 1]
  BY HeadTailProperties
<1> HIDE DEF p, v
<1>4. p # <<>> /\ p[1] = s[1]
  BY <1>1, <1>2
<1> DEFINE q == v \o t
           w == Tail(p)
<1>5. /\ q \in Seq(Ids) /\ Len(q) = Len(v) + Len(t)
      /\ \A k \in 1..Len(v) : q[k] = v[k]
      /\ \A k \in 1..Len(t) : q[Len(v) + k] = t[k]
  <2>1. v \in Seq(Ids)
    BY <1>3
  <2> QED
    BY <2>1, ConcatElements
<1>6. /\ w \in Seq(Ids) /\ Len(w) = Len(p) - 1
      /\ \A k \in 1..Len(w) : w[k] = p[k + 1]
  <2>1. p \in Seq(Ids)
    BY <1>2
  <2> QED
    BY <1>4, <2>1, HeadTailProperties
<1> HIDE DEF q, w, m, n
<1>7. Len(v) = m /\ Len(p) = m + 1 + n /\ Len(q) = m + n /\ Len(w) = m + n
  BY <1>1, <1>2, <1>3, <1>5, <1>6
<1>8. ASSUME NEW k \in 1..(m + n)
      PROVE  q[k] = w[k]
  <2>1. CASE k <= m
    <3>1. k \in 1..m /\ k + 1 \in 1..(m + 1)
      BY <1>1, <2>1
    <3> QED
      BY <1>1, <1>2, <1>3, <1>5, <1>6, <1>7, <3>1
  <2>2. CASE k > m
    <3> DEFINE j == k - m
    <3>1. j \in 1..n /\ m + j = k /\ m + 1 + j = k + 1
      BY <1>1, <2>2
    <3> HIDE DEF j
    <3>2. q[m + j] = t[j] /\ p[m + 1 + j] = t[j]
      BY <1>1, <1>2, <1>5, <1>7, <3>1
    <3> QED
      BY <1>6, <1>7, <3>1, <3>2
  <2> QED
    BY <1>1, <2>1, <2>2
<1>9. q = w
  BY <1>5, <1>6, <1>7, <1>8, SeqEqual
<1> QED
  BY <1>1, <1>4, <1>9 DEF p, q, v, w

\* A request joins what is under way at its end, and the answer that is
\* handled first leaves it at its beginning.
LEMMA PipeEnds ==
    ASSUME NEW a \in Seq(Ids), NEW b \in Seq(Ids), NEW c \in Seq(Ids), NEW d \in Seq(Ids)
    PROVE  ChainEnds(a, b, c, d)
<1> USE DEF Chain, ChainMoves, ChainEnds
<1>1. \A s \in Seq(Ids), t \in Seq(Ids), r \in Ids : s \o Append(t, r) = Append(s \o t, r)
  BY ConcatAppend
<1>2. c \o d \in Seq(Ids) /\ b \o (c \o d) \in Seq(Ids)
  BY PipeParts, ConcatProperties
<1>3. ASSUME NEW r \in Ids
      PROVE  a \o (b \o (c \o Append(d, r))) = Append(a \o (b \o (c \o d)), r)
  <2>1. c \o Append(d, r) = Append(c \o d, r)
    BY <1>1, Zenon
  <2>2. b \o Append(c \o d, r) = Append(b \o (c \o d), r)
    BY <1>1, <1>2, Zenon
  <2>3. a \o Append(b \o (c \o d), r) = Append(a \o (b \o (c \o d)), r)
    BY <1>1, <1>2, Zenon
  <2> QED
    BY <2>1, <2>2, <2>3, Zenon
<1>4. \A s \in Seq(Ids), t \in Seq(Ids) : s # <<>> =>
        Tail(s) \o t = Tail(s \o t) /\ s \o t # <<>> /\ Head(s) = (s \o t)[1]
  BY ConcatTail
<1> QED
  BY <1>2, <1>3, <1>4, Zenon

-----------------------------------------------------------------------------
\* Every step keeps the types: an answer is set once, for a request that was
\* sent and waits.
LEMMA TypesStep ==
    ASSUME Types, [Next]_vars
    PROVE  Types'
<1> USE UdpAssumption DEF Types, TypeOK
<1>1. ASSUME NEW r \in Ids, Send(r)
      PROVE  Types'
  <2>1. ready' \in Seq(Ids) /\ parked' \in Seq(Ids) /\ queue' \in Seq(Ids)
    <3>1. queue' \in Seq(Ids)
      BY <1>1 DEF Send, PutWaiter
    <3>2. CASE parked = <<>>
      BY <1>1, <3>1, <3>2 DEF Send, PutWaiter
    <3>3. CASE parked # <<>>
      <4>1. Head(parked) \in Ids /\ Tail(parked) \in Seq(Ids)
        BY <3>3, HeadTailProperties
      <4>2. ready' = Append(ready, Head(parked)) /\ parked' = Tail(parked)
        BY <1>1, <3>3 DEF Send, PutWaiter
      <4> QED
        BY <3>1, <4>1, <4>2
    <3> QED
      BY <3>2, <3>3
  <2>2. toPeer' \in Seq(Ids) /\ sent' \in 0..Requests /\ pc[r] = "idle"
    BY <1>1 DEF Send, Ids
  <2>3. \A q \in Ids : /\ answer'[q] # 0 <=> pc'[q] = "answered"
                       /\ q > sent' => pc'[q] = "idle"
    BY <1>1, <2>2 DEF Send, Ids
  <2> QED
    BY <1>1, <2>1, <2>2, <2>3 DEF Send
<1>2. ASSUME NEW r \in Ids, SendFails(r)
      PROVE  Types'
  BY <1>2 DEF SendFails, netVars, Ids
<1>3. ASSUME NEW r \in Ids, Timeout(r)
      PROVE  Types'
  BY <1>3 DEF Timeout, netVars, Ids
<1>4. CASE ReceiveResponse
  <2>1. ready' \in Seq(Ids) /\ queue' \in Seq(Ids) /\ Head(queue) \in Ids /\ Head(ready) \in Ids
    BY <1>4, HeadTailProperties DEF ReceiveResponse
  <2>2. Head(ready) \in 0..Requests /\ Head(ready) # 0
    <3>1. \A x \in Ids : x \in 0..Requests /\ x # 0
      BY DEF Ids
    <3> QED
      BY <2>1, <3>1
  <2>3. pc' \in [Ids -> {"idle", "waiting", "answered", "timedOut"}] /\ answer' \in [Ids -> 0..Requests]
    BY <1>4, <2>1, <2>2 DEF ReceiveResponse
  <2>4. \A q \in Ids : /\ answer'[q] # 0 <=> pc'[q] = "answered"
                       /\ q > sent => pc'[q] = "idle"
    BY <1>4, <2>1, <2>2 DEF ReceiveResponse
  <2> QED
    BY <1>4, <2>1, <2>3, <2>4 DEF ReceiveResponse, netVars
<1>5. CASE ReceiveParks
  BY <1>5 DEF ReceiveParks, netVars
<1>6. CASE Close
  BY <1>6 DEF Close, netVars
<1>7. CASE PeerRead
  BY <1>7, RemoveAtInSeq DEF PeerRead, Picks, clientVars
<1>8. CASE PeerRespond
  BY <1>8, RemoveAtInSeq DEF PeerRespond, Picks, clientVars
<1>9. CASE PeerRaises
  BY <1>9, RemoveAtInSeq DEF PeerRaises, clientVars
<1>10. CASE ClientRead
  BY <1>10, RemoveAtInSeq DEF ClientRead, Picks
<1>11. CASE LoseRequest
  BY <1>11, RemoveAtInSeq DEF LoseRequest, clientVars
<1>12. CASE LoseResponse
  BY <1>12, RemoveAtInSeq DEF LoseResponse, clientVars
<1>13. CASE DuplicateResponse
  BY <1>13 DEF DuplicateResponse, clientVars
<1>14. CASE UNCHANGED vars
  BY <1>14 DEF vars, clientVars, netVars
<1> QED
  BY <1>1, <1>2, <1>3, <1>4, <1>5, <1>6, <1>7, <1>8, <1>9, <1>10, <1>11, <1>12, <1>13, <1>14 DEF Next

\* What a step does to the waiters and to the tasks: a waiter is queued for
\* the newest request, the oldest one is taken, or they are left alone.
LEMMA QueueChange ==
    ASSUME Types, [Next]_vars
    PROVE  \/ /\ queue' = Append(queue, sent + 1) /\ sent' = sent + 1
              /\ IF parked = <<>> THEN ready' = ready /\ parked' = parked
                 ELSE ready' = Append(ready, Head(parked)) /\ parked' = Tail(parked)
           \/ queue # <<>> /\ ready # <<>> /\ queue' = Tail(queue) /\ ready' = Tail(ready) /\ UNCHANGED <<sent, parked>>
           \/ queue = <<>> /\ ready # <<>> /\ UNCHANGED <<queue, sent>>
           \/ queue' = queue /\ sent' >= sent /\ UNCHANGED parked
              /\ (ready' = ready \/ \E x \in Ids : ready' = Append(ready, x))
<1> USE DEF clientVars, netVars
<1>0. sent \in Nat /\ sent + 1 >= sent /\ sent >= sent
  BY UdpAssumption DEF Types, TypeOK
<1>1. ASSUME NEW r \in Ids, Send(r)
      PROVE  /\ queue' = Append(queue, sent + 1) /\ sent' = sent + 1
             /\ IF parked = <<>> THEN ready' = ready /\ parked' = parked
                ELSE ready' = Append(ready, Head(parked)) /\ parked' = Tail(parked)
  BY <1>1 DEF Send, PutWaiter
<1>5. ASSUME NEW r \in Ids, SendFails(r) \/ Timeout(r)
      PROVE  queue' = queue /\ sent' >= sent /\ UNCHANGED <<parked, ready>>
  BY <1>0, <1>5 DEF SendFails, Timeout
<1>2. CASE ReceiveResponse \/ ReceiveParks
  BY <1>2 DEF ReceiveResponse, ReceiveParks
<1>3. ASSUME ClientRead
      PROVE  UNCHANGED <<queue, sent, parked>> /\ \E x \in Ids : ready' = Append(ready, x)
  <2>1. \A i \in 1..Len(toClient) : toClient[i] \in Ids
    BY ElementOfSeq DEF Types, TypeOK
  <2> QED
    BY <1>3, <2>1 DEF ClientRead
<1>4. ASSUME \/ Close \/ PeerRead \/ PeerRespond \/ PeerRaises \/ LoseRequest \/ LoseResponse
             \/ DuplicateResponse \/ UNCHANGED vars
      PROVE  UNCHANGED <<queue, sent, parked, ready>>
  BY <1>4 DEF Close, PeerRead, PeerRespond, PeerRaises, LoseRequest, LoseResponse, DuplicateResponse, vars
<1> QED
  BY <1>0, <1>1, <1>2, <1>3, <1>4, <1>5 DEF Next

\* The queue stays in the order of the send() calls: a new waiter belongs to
\* the newest request and the oldest one leaves first.
LEMMA QueueStep ==
    ASSUME Types, QueueInv, [Next]_vars
    PROVE  QueueInv'
<1>1. sent \in Nat /\ queue \in Seq(Ids) /\ Len(queue) \in Nat /\ \A i \in 1..Len(queue) : queue[i] \in Nat
  <2>1. \A x \in Ids : x \in Nat
    BY UdpAssumption DEF Ids
  <2> QED
    BY <2>1, UdpAssumption, ElementOfSeq DEF Types, TypeOK
<1>2. CASE queue' = Append(queue, sent + 1) /\ sent' = sent + 1
  <2>1. /\ Len(queue') = Len(queue) + 1
        /\ \A i \in 1..Len(queue) : queue'[i] = queue[i]
        /\ queue'[Len(queue) + 1] = sent + 1
    BY <1>1, <1>2, AppendProperties
  <2> QED
    BY <1>1, <1>2, <2>1 DEF QueueInv
<1>3. CASE queue # <<>> /\ queue' = Tail(queue) /\ sent' = sent
  <2>1. Len(queue') = Len(queue) - 1 /\ \A i \in 1..Len(queue') : queue'[i] = queue[i + 1]
    BY <1>1, <1>3, HeadTailProperties
  <2>2. Len(queue) > 0
    BY <1>1, <1>3, EmptySeq
  <2> QED
    BY <1>1, <1>3, <2>1, <2>2 DEF QueueInv
<1>4. CASE queue' = queue /\ sent' \in Nat /\ sent' >= sent
  BY <1>1, <1>4 DEF QueueInv
<1>5. sent' \in Nat /\ sent >= sent
  BY <1>1, TypesStep, UdpAssumption DEF Types, TypeOK
<1> QED
  BY <1>2, <1>3, <1>4, <1>5, QueueChange

\* While a task is parked the others suffice for the waiters: put_nowait wakes
\* one for every waiter it adds.
LEMMA ParkedStep ==
    ASSUME Types, ParkedInv, [Next]_vars
    PROVE  ParkedInv'
<1>1. queue \in Seq(Ids) /\ ready \in Seq(Ids) /\ parked \in Seq(Ids) /\ Len(queue) \in Nat /\ Len(ready) \in Nat
  BY DEF Types, TypeOK
<1>2. CASE /\ queue' = Append(queue, sent + 1)
           /\ IF parked = <<>> THEN ready' = ready /\ parked' = parked
              ELSE ready' = Append(ready, Head(parked)) /\ parked' = Tail(parked)
  <2>1. CASE parked = <<>>
    BY <1>2, <2>1 DEF ParkedInv
  <2>2. CASE parked # <<>>
    <3>1. Len(queue') = Len(queue) + 1 /\ Len(ready') = Len(ready) + 1
      BY <1>1, <1>2, <2>2
    <3> QED
      BY <1>1, <2>2, <3>1 DEF ParkedInv
  <2> QED
    BY <2>1, <2>2
<1>3. CASE queue # <<>> /\ ready # <<>> /\ queue' = Tail(queue) /\ ready' = Tail(ready) /\ parked' = parked
  <2>1. Len(queue') = Len(queue) - 1 /\ Len(ready') = Len(ready) - 1
    BY <1>1, <1>3, HeadTailProperties
  <2> QED
    BY <1>1, <1>3, <2>1 DEF ParkedInv
<1>4. CASE queue = <<>> /\ queue' = queue
  <2>1. Len(queue') = 0 /\ Len(ready') \in Nat
    BY <1>4, TypesStep DEF Types, TypeOK
  <2> QED
    BY <2>1 DEF ParkedInv
<1>5. CASE queue' = queue /\ parked' = parked /\ (ready' = ready \/ \E x \in Ids : ready' = Append(ready, x))
  <2>1. Len(ready') = Len(ready) \/ Len(ready') = Len(ready) + 1
    BY <1>1, <1>5
  <2> QED
    BY <1>1, <1>5, <2>1 DEF ParkedInv
<1> QED
  BY <1>2, <1>3, <1>4, <1>5, QueueChange

\* While the network keeps the order, a step adds a request at the end of the
\* queue and of what is under way, takes the first of both, loses one of the
\* latter, or leaves both alone; no response finds the queue empty.
LEMMA PipeChange ==
    ASSUME Types, OrderInv, [Next]_vars, Ordered'
    PROVE  /\ Ordered /\ parked' = <<>>
           /\ \/ /\ queue' = Append(queue, sent + 1) /\ Pipe' = Append(Pipe, sent + 1)
                 /\ sent' = sent + 1 /\ sent + 1 \in Ids /\ lost' = lost
              \/ /\ queue # <<>> /\ Pipe # <<>> /\ queue' = Tail(queue) /\ Pipe' = Tail(Pipe)
                 /\ lost' = lost
              \/ queue' = queue /\ Pipe' = Pipe /\ lost' = lost
              \/ queue' = queue /\ lost' # 0 /\ \E j \in 1..Len(Pipe) : Pipe' = RemoveAt(Pipe, j)
<1>1. /\ ready \in Seq(Ids) /\ toClient \in Seq(Ids) /\ handling \in Seq(Ids) /\ toPeer \in Seq(Ids)
      /\ queue \in Seq(Ids) /\ lost \in Nat /\ duplicated \in Nat /\ overtaken \in Nat
  BY DEF Types, TypeOK
<1>2. Ordered
  <2>1. ASSUME NEW i \in Int, Picks(i) PROVE overtaken = 0
    BY <1>1, <2>1 DEF Picks, Ordered
  <2>2. CASE PeerRead \/ PeerRespond \/ ClientRead
    <3>1. overtaken = 0
      BY <2>1, <2>2 DEF PeerRead, PeerRespond, ClientRead
    <3> QED
      BY <2>2, <3>1 DEF PeerRead, PeerRespond, ClientRead, Ordered
  <2>3. CASE DuplicateResponse
    BY <1>1, <2>3 DEF DuplicateResponse, Ordered
  <2>4. ASSUME NEW r \in Ids, Send(r) \/ SendFails(r) \/ Timeout(r) PROVE Ordered
    BY <2>4 DEF Send, SendFails, Timeout, netVars, Ordered
  <2>5. CASE ReceiveResponse \/ ReceiveParks \/ Close \/ PeerRaises \/ LoseRequest \/ LoseResponse \/ UNCHANGED vars
    BY <2>5 DEF ReceiveResponse, ReceiveParks, Close, PeerRaises, LoseRequest, LoseResponse, vars, netVars, Ordered
  <2> QED
    BY <2>2, <2>3, <2>4, <2>5 DEF Next
<1>3. parked = <<>> /\ Len(Pipe) <= Len(queue)
  BY <1>2 DEF OrderInv
<1>4. ASSUME NEW i \in Nat, Picks(i), i >= 1 PROVE i = 1
  BY <1>1, <1>2, <1>4 DEF Picks, Ordered
<1>0. ChainMoves(ready, toClient, handling, toPeer) /\ ChainEnds(ready, toClient, handling, toPeer)
  BY <1>1, PipeParts, PipeEnds, Zenon
<1>5. /\ Pipe \in Seq(Ids)
      /\ \A r \in Ids : Chain(ready, toClient, handling, Append(toPeer, r)) = Append(Pipe, r)
      /\ ready # <<>> => Chain(Tail(ready), toClient, handling, toPeer) = Tail(Pipe) /\ Pipe # <<>>
  BY <1>0, Zenon DEF Pipe, ChainMoves, ChainEnds
<1>6. /\ \A i \in 1..Len(toPeer) : i = 1 =>
             Chain(ready, toClient, Append(handling, toPeer[i]), RemoveAt(toPeer, i)) = Pipe
      /\ \A i \in 1..Len(handling) : i = 1 =>
             Chain(ready, Append(toClient, handling[i]), RemoveAt(handling, i), toPeer) = Pipe
      /\ \A i \in 1..Len(toClient) : i = 1 =>
             Chain(Append(ready, toClient[i]), RemoveAt(toClient, i), handling, toPeer) = Pipe
  BY <1>0, Zenon DEF Pipe, ChainMoves
<1>7. /\ \A i \in 1..Len(toPeer) : \E j \in 1..Len(Pipe) :
             Chain(ready, toClient, handling, RemoveAt(toPeer, i)) = RemoveAt(Pipe, j)
      /\ \A i \in 1..Len(handling) : \E j \in 1..Len(Pipe) :
             Chain(ready, toClient, RemoveAt(handling, i), toPeer) = RemoveAt(Pipe, j)
      /\ \A i \in 1..Len(toClient) : \E j \in 1..Len(Pipe) :
             Chain(ready, RemoveAt(toClient, i), handling, toPeer) = RemoveAt(Pipe, j)
  BY <1>0, Zenon DEF Pipe, ChainMoves
<1>8. Pipe' = Chain(ready', toClient', handling', toPeer')
  BY DEF Pipe
<1>9. \A i : i \in 1..Len(toPeer) \/ i \in 1..Len(handling) \/ i \in 1..Len(toClient) => i \in Nat /\ i >= 1
  BY <1>1
<1>10. ready # <<>> => queue # <<>>
  <2>1. Pipe # <<>> => Len(Pipe) \in Nat /\ Len(Pipe) # 0
    BY <1>5, EmptySeq
  <2>2. queue = <<>> => Len(queue) = 0
    OBVIOUS
  <2> QED
    BY <1>3, <1>5, <2>1, <2>2
<1>11. ASSUME NEW r \in Ids, Send(r)
       PROVE  /\ queue' = Append(queue, sent + 1) /\ Pipe' = Append(Pipe, sent + 1)
              /\ sent' = sent + 1 /\ sent + 1 \in Ids /\ lost' = lost /\ parked' = <<>>
  <2>1. /\ queue' = Append(queue, r) /\ sent' = r /\ r = sent + 1 /\ lost' = lost /\ parked' = <<>>
        /\ ready' = ready /\ toClient' = toClient /\ handling' = handling /\ toPeer' = Append(toPeer, r)
    BY <1>3, <1>11 DEF Send, PutWaiter
  <2>2. Pipe' = Append(Pipe, r)
    BY <1>5, <1>8, <2>1, Zenon
  <2> QED
    BY <2>1, <2>2
<1>12. ASSUME ReceiveResponse
       PROVE  /\ queue # <<>> /\ Pipe # <<>> /\ queue' = Tail(queue) /\ Pipe' = Tail(Pipe)
              /\ lost' = lost /\ parked' = <<>>
  <2>1. /\ ready # <<>> /\ queue # <<>> /\ ready' = Tail(ready) /\ queue' = Tail(queue)
        /\ toClient' = toClient /\ handling' = handling /\ toPeer' = toPeer /\ lost' = lost /\ parked' = parked
    BY <1>12 DEF ReceiveResponse, netVars
  <2> QED
    BY <1>3, <1>5, <1>8, <2>1, Zenon
<1>13. ASSUME NEW r \in Ids, SendFails(r) \/ Timeout(r)
       PROVE  queue' = queue /\ Pipe' = Pipe /\ lost' = lost /\ parked' = <<>>
  BY <1>3, <1>13 DEF SendFails, Timeout, netVars, Pipe
<1>14. ASSUME Close \/ UNCHANGED vars
       PROVE  queue' = queue /\ Pipe' = Pipe /\ lost' = lost /\ parked' = <<>>
  BY <1>3, <1>14 DEF Close, vars, clientVars, netVars, Pipe
<1>15. ~ReceiveParks
  BY <1>10 DEF ReceiveParks
<1>16. ~DuplicateResponse
  BY <1>1 DEF DuplicateResponse, Ordered
<1>17. ASSUME PeerRead
       PROVE  queue' = queue /\ Pipe' = Pipe /\ lost' = lost /\ parked' = <<>>
  <2>1. PICK i \in 1..Len(toPeer) : Picks(i) /\ handling' = Append(handling, toPeer[i]) /\ toPeer' = RemoveAt(toPeer, i)
    BY <1>17 DEF PeerRead
  <2>2. i = 1
    BY <1>4, <1>9, <2>1
  <2>3. ready' = ready /\ toClient' = toClient /\ queue' = queue /\ lost' = lost /\ parked' = parked
    BY <1>17 DEF PeerRead, clientVars
  <2> QED
    BY <1>3, <1>6, <1>8, <2>1, <2>2, <2>3, Zenon
<1>18. ASSUME PeerRespond
       PROVE  queue' = queue /\ Pipe' = Pipe /\ lost' = lost /\ parked' = <<>>
  <2>1. PICK i \in 1..Len(handling) : Picks(i) /\ toClient' = Append(toClient, handling[i]) /\ handling' = RemoveAt(handling, i)
    BY <1>18 DEF PeerRespond
  <2>2. i = 1
    BY <1>4, <1>9, <2>1
  <2>3. ready' = ready /\ toPeer' = toPeer /\ queue' = queue /\ lost' = lost /\ parked' = parked
    BY <1>18 DEF PeerRespond, clientVars
  <2> QED
    BY <1>3, <1>6, <1>8, <2>1, <2>2, <2>3, Zenon
<1>19. ASSUME ClientRead
       PROVE  queue' = queue /\ Pipe' = Pipe /\ lost' = lost /\ parked' = <<>>
  <2>1. PICK i \in 1..Len(toClient) : Picks(i) /\ ready' = Append(ready, toClient[i]) /\ toClient' = RemoveAt(toClient, i)
    BY <1>19 DEF ClientRead
  <2>2. i = 1
    BY <1>4, <1>9, <2>1
  <2>3. handling' = handling /\ toPeer' = toPeer /\ queue' = queue /\ lost' = lost /\ parked' = parked
    BY <1>19 DEF ClientRead
  <2> QED
    BY <1>3, <1>6, <1>8, <2>1, <2>2, <2>3, Zenon
<1>20. ASSUME PeerRaises \/ LoseRequest \/ LoseResponse
       PROVE  queue' = queue /\ lost' # 0 /\ parked' = <<>> /\ \E j \in 1..Len(Pipe) : Pipe' = RemoveAt(Pipe, j)
  <2>1. lost' # 0
    BY <1>1, <1>20 DEF PeerRaises, LoseRequest, LoseResponse
  <2>2. queue' = queue /\ ready' = ready /\ parked' = parked
    BY <1>20 DEF PeerRaises, LoseRequest, LoseResponse, clientVars
  <2>3. CASE PeerRaises
    <3>1. PICK i \in 1..Len(handling) : handling' = RemoveAt(handling, i)
      BY <2>3 DEF PeerRaises
    <3>2. toPeer' = toPeer /\ toClient' = toClient
      BY <2>3 DEF PeerRaises
    <3> QED
      BY <1>3, <1>7, <1>8, <2>1, <2>2, <3>1, <3>2, Zenon
  <2>4. CASE LoseRequest
    <3>1. PICK i \in 1..Len(toPeer) : toPeer' = RemoveAt(toPeer, i)
      BY <2>4 DEF LoseRequest
    <3>2. handling' = handling /\ toClient' = toClient
      BY <2>4 DEF LoseRequest
    <3> QED
      BY <1>3, <1>7, <1>8, <2>1, <2>2, <3>1, <3>2, Zenon
  <2>5. CASE LoseResponse
    <3>1. PICK i \in 1..Len(toClient) : toClient' = RemoveAt(toClient, i)
      BY <2>5 DEF LoseResponse
    <3>2. handling' = handling /\ toPeer' = toPeer
      BY <2>5 DEF LoseResponse
    <3> QED
      BY <1>3, <1>7, <1>8, <2>1, <2>2, <3>1, <3>2, Zenon
  <2> QED
    BY <1>20, <2>3, <2>4, <2>5
<1> QED
  BY <1>2, <1>11, <1>12, <1>13, <1>14, <1>15, <1>16, <1>17, <1>18, <1>19, <1>20, Zenon DEF Next

\* While nothing overtakes, the k-th answer to come stays no older than the
\* k-th waiter: a loss only brings later answers forward.
LEMMA OrderStep ==
    ASSUME Types, QueueInv, OrderInv, [Next]_vars
    PROVE  OrderInv'
<1> SUFFICES ASSUME Ordered'
             PROVE  parked' = <<>> /\ Len(Pipe') <= Len(queue') /\ \A k \in 1..Len(Pipe') : queue'[k] <= Pipe'[k]
  BY DEF OrderInv
<1> DEFINE P == Pipe
           Q == queue
           m == Len(P)
           n == Len(Q)
<1>1. P \in Seq(Ids) /\ Q \in Seq(Ids) /\ m \in Nat /\ n \in Nat
  <2>1. Pipe \in Seq(Ids)
    BY PipeParts DEF Pipe, ChainMoves, Types, TypeOK
  <2>2. queue \in Seq(Ids)
    BY DEF Types, TypeOK
  <2> QED
    BY <2>1, <2>2
<1>2. /\ \A k \in 1..m : P[k] \in Nat
      /\ \A k \in 1..n : Q[k] \in Nat
      /\ sent \in Nat
  <2>1. \A x \in Ids : x \in Nat
    BY UdpAssumption DEF Ids
  <2>2. \A x \in Seq(Ids) : \A k \in 1..Len(x) : x[k] \in Nat
    BY <2>1, ElementOfSeq
  <2>3. sent \in Nat
    BY UdpAssumption DEF Types, TypeOK
  <2> QED
    BY <1>1, <2>2, <2>3
<1>3. m <= n /\ \A k \in 1..m : Q[k] <= P[k]
  BY PipeChange DEF OrderInv
<1>4. /\ \A k \in 1..n : Q[k] <= sent
      /\ \A k, l \in 1..n : k < l => Q[k] < Q[l]
  BY DEF QueueInv
<1>5. parked' = <<>>
  BY PipeChange
<1>6. CASE queue' = Append(queue, sent + 1) /\ Pipe' = Append(Pipe, sent + 1) /\ sent + 1 \in Ids
  <2>1. /\ Len(queue') = n + 1
        /\ \A k \in 1..n : queue'[k] = Q[k]
        /\ queue'[n + 1] = sent + 1
    BY <1>1, <1>6, AppendProperties
  <2>2. /\ Len(Pipe') = m + 1
        /\ \A k \in 1..m : Pipe'[k] = P[k]
        /\ Pipe'[m + 1] = sent + 1
    BY <1>1, <1>6, AppendProperties
  <2> HIDE DEF P, Q, m, n
  <2>3. ASSUME NEW k \in 1..(m + 1) PROVE queue'[k] <= Pipe'[k]
    <3>1. CASE k \in 1..m
      <4>1. k \in 1..n
        BY <1>1, <1>3, <3>1
      <4> QED
        BY <1>3, <2>1, <2>2, <3>1, <4>1
    <3>2. CASE k = m + 1 /\ k \in 1..n
      BY <1>2, <1>4, <2>1, <2>2, <3>2
    <3>3. CASE k = m + 1 /\ k = n + 1
      BY <1>2, <2>1, <2>2, <3>3
    <3> QED
      BY <1>1, <1>3, <3>1, <3>2, <3>3
  <2> QED
    BY <1>1, <1>3, <1>5, <2>1, <2>2, <2>3
<1>7. CASE queue # <<>> /\ Pipe # <<>> /\ queue' = Tail(queue) /\ Pipe' = Tail(Pipe)
  <2>1. Len(queue') = n - 1 /\ \A k \in 1..Len(queue') : queue'[k] = Q[k + 1]
    BY <1>1, <1>7, HeadTailProperties
  <2>2. Len(Pipe') = m - 1 /\ \A k \in 1..Len(Pipe') : Pipe'[k] = P[k + 1]
    BY <1>1, <1>7, HeadTailProperties
  <2>3. m # 0
    BY <1>1, <1>7, EmptySeq
  <2> HIDE DEF P, Q, m, n
  <2>4. ASSUME NEW k \in 1..(m - 1) PROVE queue'[k] <= Pipe'[k]
    <3>1. k + 1 \in 1..m /\ k \in 1..(n - 1)
      BY <1>1, <1>3, <2>3
    <3> QED
      BY <1>3, <2>1, <2>2, <3>1
  <2> QED
    BY <1>1, <1>3, <1>5, <2>1, <2>2, <2>4
<1>8. CASE queue' = queue /\ Pipe' = Pipe
  BY <1>3, <1>5, <1>8
<1>9. CASE queue' = queue /\ \E j \in 1..Len(Pipe) : Pipe' = RemoveAt(Pipe, j)
  <2>1. PICK j \in 1..m : Pipe' = RemoveAt(P, j)
    BY <1>9
  <2> DEFINE l == m - 1
  <2>2. l \in Nat /\ m = l + 1
    BY <1>1, <2>1
  <2>3. /\ Len(Pipe') = l
        /\ \A k \in 1..l : Pipe'[k] = IF k < j THEN P[k] ELSE P[k + 1]
    <3> HIDE DEF l, P
    <3>1. j \in 1..Len(P) /\ Len(P) = l + 1 /\ P \in Seq(Ids) /\ l \in Nat
      BY <1>1, <2>2
    <3> QED
      BY <2>1, <3>1, RemoveAtElements
  <2> HIDE DEF l, P, Q, m, n
  <2>4. ASSUME NEW k \in 1..l PROVE Q[k] <= Pipe'[k]
    <3>1. k \in 1..m /\ k + 1 \in 1..m /\ k \in 1..n /\ k + 1 \in 1..n /\ k < k + 1
      BY <1>1, <1>3, <2>2
    <3>2. Q[k] <= P[k] /\ Q[k + 1] <= P[k + 1] /\ Q[k] < Q[k + 1]
      BY <1>3, <1>4, <3>1
    <3>3. Q[k] \in Nat /\ Q[k + 1] \in Nat /\ P[k] \in Nat /\ P[k + 1] \in Nat
      BY <1>2, <3>1
    <3>4. Q[k] <= P[k + 1]
      BY <3>2, <3>3
    <3> QED
      BY <2>3, <3>2, <3>4
  <2> QED
    BY <1>1, <1>3, <1>5, <1>9, <2>2, <2>3, <2>4 DEF Q, n
<1> QED
  BY <1>6, <1>7, <1>8, <1>9, PipeChange

\* While nothing is lost either, the waiters are those of what is under way.
LEMMA LosslessStep ==
    ASSUME Types, OrderInv, LosslessInv, [Next]_vars
    PROVE  LosslessInv'
<1> SUFFICES ASSUME Ordered', lost' = 0
             PROVE  Pipe' = queue'
  BY DEF LosslessInv
<1>1. Ordered
  BY PipeChange
<1>2. lost' = lost => Pipe = queue
  BY <1>1 DEF LosslessInv
<1>3. lost' = lost
  BY PipeChange
<1>4. \/ queue' = Append(queue, sent + 1) /\ Pipe' = Append(Pipe, sent + 1)
      \/ queue' = Tail(queue) /\ Pipe' = Tail(Pipe)
      \/ queue' = queue /\ Pipe' = Pipe
  BY PipeChange
<1>5. Pipe = queue
  BY <1>2, <1>3
<1>6. CASE queue' = Append(queue, sent + 1) /\ Pipe' = Append(Pipe, sent + 1)
  BY <1>5, <1>6, Zenon
<1>7. CASE queue' = Tail(queue) /\ Pipe' = Tail(Pipe)
  BY <1>5, <1>7, Zenon
<1>8. CASE queue' = queue /\ Pipe' = Pipe
  BY <1>5, <1>8, Zenon
<1> QED
  BY <1>4, <1>6, <1>7, <1>8, Zenon

\* An answer that is set belongs to the request at the head of the queue; it
\* is not older and, without losses, its own.
LEMMA AnswerStep ==
    ASSUME Types, OrderInv, LosslessInv, AnswersNotOlder, OwnResponse, [Next]_vars
    PROVE  AnswersNotOlder' /\ OwnResponse'
<1>1. CASE ReceiveResponse
  <2>1. /\ queue # <<>> /\ ready # <<>> /\ queue \in Seq(Ids) /\ Head(queue) \in Ids
        /\ Head(queue) = queue[1] /\ lost' = lost /\ (Ordered' <=> Ordered)
    BY <1>1, HeadTailProperties DEF ReceiveResponse, Types, TypeOK, Ordered, netVars
  <2>2. /\ Pipe \in Seq(Ids) /\ Pipe # <<>> /\ Head(ready) = Pipe[1]
    <3>1. /\ ready \in Seq(Ids) /\ toClient \in Seq(Ids) /\ handling \in Seq(Ids) /\ toPeer \in Seq(Ids)
      BY DEF Types, TypeOK
    <3>2. ChainMoves(ready, toClient, handling, toPeer) /\ ChainEnds(ready, toClient, handling, toPeer)
      BY <3>1, PipeParts, PipeEnds, Zenon
    <3> QED
      BY <2>1, <3>2, Zenon DEF Pipe, ChainMoves, ChainEnds
  <2>3. 1 \in 1..Len(Pipe)
    BY <2>2, EmptySeq
  <2>4. Ordered => Head(queue) <= Head(ready)
    BY <2>1, <2>2, <2>3 DEF OrderInv
  <2>5. Ordered /\ lost = 0 => Head(ready) = Head(queue)
    BY <2>1, <2>2 DEF LosslessInv
  <2>6. \A q \in Ids : pc'[q] = "answered" =>
          \/ pc[q] = "answered" /\ answer'[q] = answer[q]
          \/ q = Head(queue) /\ answer'[q] = Head(ready)
    BY <1>1, <2>1 DEF ReceiveResponse, Types, TypeOK
  <2>7. Ids \subseteq Int /\ Head(ready) \in Int
    <3>1. Head(ready) \in Ids
      BY <2>1, HeadTailProperties DEF Types, TypeOK
    <3> QED
      BY <3>1, UdpAssumption DEF Ids
  <2>8. ASSUME Ordered', NEW q \in Ids, pc'[q] = "answered"
        PROVE  answer'[q] >= q /\ (lost' = 0 => answer'[q] = q)
    <3>1. CASE pc[q] = "answered" /\ answer'[q] = answer[q]
      BY <2>1, <2>8, <3>1 DEF AnswersNotOlder, OwnResponse
    <3>2. CASE q = Head(queue) /\ answer'[q] = Head(ready)
      BY <2>1, <2>4, <2>5, <2>7, <2>8, <3>2
    <3> QED
      BY <2>6, <2>8, <3>1, <3>2
  <2> QED
    BY <2>8 DEF AnswersNotOlder, OwnResponse
<1>2. CASE ~ReceiveResponse
  <2>1. answer' = answer /\ \A q \in Ids : pc'[q] = "answered" => pc[q] = "answered"
    <3>1. ASSUME NEW r \in Ids, Send(r) \/ SendFails(r) \/ Timeout(r)
          PROVE  answer' = answer /\ \A q \in Ids : pc'[q] = "answered" => pc[q] = "answered"
      BY <3>1 DEF Send, SendFails, Timeout, Types, TypeOK
    <3>2. CASE \/ ReceiveParks \/ Close \/ PeerRead \/ PeerRespond \/ PeerRaises \/ ClientRead
               \/ LoseRequest \/ LoseResponse \/ DuplicateResponse \/ UNCHANGED vars
      BY <3>2 DEF ReceiveParks, Close, PeerRead, PeerRespond, PeerRaises, ClientRead,
                  LoseRequest, LoseResponse, DuplicateResponse, vars, clientVars
    <3> QED
      BY <1>2, <3>1, <3>2 DEF Next
  <2>2. Ordered' => Ordered /\ (lost' = 0 => lost = 0)
    <3>1. Ordered' => Ordered /\ (lost' = lost \/ lost' # 0)
      BY PipeChange
    <3> QED
      BY <3>1
  <2> QED
    BY <2>1, <2>2 DEF AnswersNotOlder, OwnResponse
<1> QED
  BY <1>1, <1>2

\* The whole inductive invariant.
UdpInv ==
    /\ Types
    /\ QueueInv
    /\ ParkedInv
    /\ OrderInv
    /\ LosslessInv
    /\ AnswersNotOlder
    /\ OwnResponse

\* It holds when the connection is made and every step keeps it.
LEMMA UdpInvHolds == Spec => []UdpInv
<1>1. Init => UdpInv
  <2> SUFFICES ASSUME Init PROVE UdpInv
    OBVIOUS
  <2> USE DEF Init
  <2>1. Types /\ AnswersNotOlder /\ OwnResponse
    BY UdpAssumption DEF Types, TypeOK, AnswersNotOlder, OwnResponse, Ids
  <2>2. QueueInv /\ ParkedInv
    BY DEF QueueInv, ParkedInv
  <2>3. Pipe = <<>>
    BY DEF Pipe, Chain
  <2> QED
    BY <2>1, <2>2, <2>3 DEF UdpInv, OrderInv, LosslessInv
<1>2. UdpInv /\ [Next]_vars => UdpInv'
  BY TypesStep, QueueStep, ParkedStep, OrderStep, LosslessStep, AnswerStep DEF UdpInv
<1> QED
  BY <1>1, <1>2, PTL DEF Spec

-----------------------------------------------------------------------------
\* The connection's state keeps its types, for any number of requests: a
\* request has an answer exactly when its send() returned one.
THEOREM UdpTypeCorrect == Spec => []TypeOK
<1>1. UdpInv => TypeOK
  BY DEF UdpInv, Types
<1> QED
  BY <1>1, UdpInvHolds, PTL

\* However many datagrams are lost and however many requests time out, send()
\* never returns the response of an earlier request as long as nothing is
\* doubled or overtaken.
THEOREM NoStaleAnswer == Spec => []AnswersNotOlder
<1>1. UdpInv => AnswersNotOlder
  BY DEF UdpInv
<1> QED
  BY <1>1, UdpInvHolds, PTL

\* Without losses send() returns the response of its own request although the
\* responses carry no request id and other requests time out.
THEOREM OwnResponsePaired == Spec => []OwnResponse
<1>1. UdpInv => OwnResponse
  BY DEF UdpInv
<1> QED
  BY <1>1, UdpInvHolds, PTL

\* A parked response and a queued waiter never face each other with no task
\* about to run, whatever the network does: put_nowait wakes one task for
\* every waiter it adds.
THEOREM WakeupNotLost == Spec => []NoLostWakeup
<1>1. UdpInv => NoLostWakeup
  <2> SUFFICES ASSUME UdpInv, parked # <<>>, queue # <<>>, ready = <<>> PROVE FALSE
    BY DEF NoLostWakeup
  <2>1. Len(queue) \in Nat /\ Len(queue) # 0 /\ Len(ready) = 0
    BY EmptySeq DEF UdpInv, Types, TypeOK
  <2> QED
    BY <2>1 DEF UdpInv, ParkedInv
<1> QED
  BY <1>1, UdpInvHolds, PTL

-----------------------------------------------------------------------------
(* The monitor *)

PCs == {"created", "probing", "healed", "sleeping", "woken", "done", "cancelled"}

\* A suspicion task: it never asks a node about itself, nor too many.
SuspicionTask ==
    {u \in [pc : PCs, about : Peers, rounds : 0..MaxRounds, cancelling : BOOLEAN, members : SUBSET Peers,
            tcp : {"running", "answered", "failed"}, goes : BOOLEAN, confirmed : BOOLEAN] :
        /\ Cardinality(u.members) <= CheckNodes
        /\ u.about \notin u.members
        /\ u.pc = "created" => u.rounds = 0}

Cancellation == [node : Peers, task : Nat, copy : [Peers -> Nat]]

MonitorTypes ==
    /\ status \in [Peers -> Statuses]
    /\ failing \in SUBSET Peers /\ leaving \in SUBSET Peers
    /\ stack \in Seq(Peers)
    /\ tasks \in Seq(SuspicionTask)
    /\ table \in [Peers -> 0..Len(tasks)]
    /\ cancels \in Seq(Cancellation)
    /\ \A i \in 1..Len(cancels) : \A p \in Peers : cancels[i].copy[p] <= Len(tasks)
    /\ checkNodes \in 0..CheckNodes
    /\ since \in [Peers -> Nat]
    /\ crossed \in SUBSET Peers /\ overwritten \in SUBSET Peers

Pending(p) == \E i \in 1..Len(cancels) : cancels[i].node = p

\* The tasks that may still judge: they have not ended and nobody cancels them.
Live(k) == k \in 1..Len(tasks) /\ ~Finished(k) /\ ~tasks[k].cancelling

\* The table, and a copy of it, leads from a node to a task that probes it,
\* or the node that it probes was probed by another node's task.
TableInv ==
    \A p \in Peers : \A k \in 1..Len(tasks) :
        (k = table[p] \/ \E i \in 1..Len(cancels) : cancels[i].copy[p] = k) => tasks[k].about \in {p} \cup crossed

\* A suspect whose cancellation is pending met a race.
PendingInv == \A p \in Peers : Pending(p) /\ status[p] = "suspect" => p \in crossed \cup leaving

\* The live task about a node is that of its latest suspicion and the table
\* holds it; if the node looks healthy, or is about to be suspected again, its
\* cancellation is pending or it has healed.
FreshInv ==
    \A k \in 1..Len(tasks) : Live(k) /\ tasks[k].about \notin crossed \cup overwritten =>
        /\ since[tasks[k].about] = k /\ table[tasks[k].about] = k
        /\ \/ Pending(tasks[k].about)
           \/ tasks[k].pc = "healed"
           \/ tasks[k].about \notin failing /\ status[tasks[k].about] # "healthy"

\* A cancellation that waits leaves no live task about its node.
WaitInv ==
    \A i \in 1..Len(cancels) : Waiting(i) =>
        \A k \in 1..Len(tasks) : Live(k) /\ tasks[k].about = cancels[i].node => tasks[k].about \in crossed \cup overwritten

MonitorInv == MonitorTypes /\ TableInv /\ PendingInv /\ FreshInv /\ WaitInv /\ SuspectProbed

-----------------------------------------------------------------------------
(* Tasks *)

\* The constants of a monitor.
LEMMA PeersFinite ==
    /\ IsFiniteSet(Peers) /\ Bootstrap \in Peers /\ CheckNodes \in Nat /\ MaxRounds \in Nat /\ MaxRounds # 0
    /\ MaxSuspicions \in Nat
BY MonitorAssumption

\* A task asks nobody before its first round.
LEMMA NoMembers == Cardinality({}) <= CheckNodes
BY FS_EmptySet, PeersFinite

\* A task when it ends, and when it heals its node.
Ended(end, p, c) == [Task(end, p, 0) EXCEPT !.cancelling = c]
Healed(p, c, b) == [[Task("healed", p, 0) EXCEPT !.confirmed = b] EXCEPT !.cancelling = c]

\* It keeps its type, and whether it is cancelled.
LEMMA TaskEnds ==
    ASSUME NEW p \in Peers, NEW c \in BOOLEAN, NEW end \in {"done", "cancelled"}
    PROVE  /\ Ended(end, p, c) \in SuspicionTask
           /\ Ended(end, p, c).pc = end /\ Ended(end, p, c).about = p /\ Ended(end, p, c).cancelling = c
<1>1. 0 \in 0..MaxRounds /\ {} \in SUBSET Peers /\ p \notin {} /\ end \in PCs /\ end # "created"
  BY PeersFinite DEF PCs
<1> QED
  BY <1>1, NoMembers DEF Task, SuspicionTask, Ended

\* So does one that heals its node.
LEMMA TaskHeals ==
    ASSUME NEW p \in Peers, NEW c \in BOOLEAN, NEW b \in BOOLEAN
    PROVE  /\ Healed(p, c, b) \in SuspicionTask
           /\ Healed(p, c, b).pc = "healed" /\ Healed(p, c, b).about = p /\ Healed(p, c, b).cancelling = c
<1>1. 0 \in 0..MaxRounds /\ {} \in SUBSET Peers /\ p \notin {}
  BY PeersFinite
<1> QED
  BY <1>1, NoMembers DEF Task, SuspicionTask, Healed, PCs

\* One task changes.
LEMMA Replaced ==
    ASSUME NEW s \in Seq(SuspicionTask), NEW k \in 1..Len(s), NEW u \in SuspicionTask, NEW t, t = [s EXCEPT ![k] = u]
    PROVE  /\ t \in Seq(SuspicionTask) /\ Len(t) = Len(s)
           /\ t[k] = u /\ \A l \in 1..Len(s) : l # k => t[l] = s[l]
OBVIOUS

\* A task is created.
LEMMA Created ==
    ASSUME NEW s \in Seq(SuspicionTask), NEW u \in SuspicionTask, NEW t, t = Append(s, u)
    PROVE  /\ t \in Seq(SuspicionTask) /\ Len(t) = Len(s) + 1
           /\ t[Len(s) + 1] = u /\ \A l \in 1..Len(s) : t[l] = s[l]
OBVIOUS

\* Task k becomes u, which does not change whether it is cancelled.
Becomes(k, u) ==
    /\ k \in 1..Len(tasks) /\ u \in SuspicionTask
    /\ tasks' = [tasks EXCEPT ![k] = u]
    /\ u.cancelling = tasks[k].cancelling

\* The tasks of a state are tasks.
LEMMA TaskFields ==
    ASSUME MonitorTypes, NEW k \in 1..Len(tasks)
    PROVE  /\ tasks[k] \in SuspicionTask
           /\ tasks[k].pc \in PCs /\ tasks[k].about \in Peers /\ tasks[k].rounds \in 0..MaxRounds
           /\ tasks[k].cancelling \in BOOLEAN
           /\ DOMAIN tasks = 1..Len(tasks) /\ Len(tasks) \in Nat
           /\ tasks[k].pc = "created" => tasks[k].rounds = 0
<1>1. tasks \in Seq(SuspicionTask)
  BY DEF MonitorTypes
<1>2. tasks[k] \in SuspicionTask /\ DOMAIN tasks = 1..Len(tasks) /\ Len(tasks) \in Nat
  BY <1>1
<1> QED
  BY <1>2 DEF SuspicionTask

\* A round of probes asks members other than the node, and not too many.
LEMMA RoundTask ==
    ASSUME MonitorTypes, NEW k \in 1..Len(tasks), NEW p \in Peers, Round(k, p), tasks[k].rounds < MaxRounds
    PROVE  /\ \E u : Becomes(k, u) /\ u.pc = "probing" /\ u.about = p
           /\ checkNodes' \in 0..CheckNodes
<1>1. IsFiniteSet(Others(p)) /\ Cardinality(Others(p)) \in Nat /\ Others(p) \in SUBSET (Peers \ {p})
  <2>1. Others(p) \in SUBSET (Peers \ {p})
    BY DEF Others
  <2>2. IsFiniteSet(Others(p))
    BY <2>1, PeersFinite, FS_Subset
  <2> QED
    BY <2>1, <2>2, FS_CardinalityType
<1>2. checkNodes \in 0..CheckNodes /\ CheckNodes \in Nat
  BY PeersFinite DEF MonitorTypes
<1>3. Asked(p) \in 0..CheckNodes
  BY <1>1, <1>2 DEF Asked
<1>4. PICK members \in kSubset(Asked(p), Others(p)) :
        tasks' = Set(k, [Task("probing", p, tasks[k].rounds + 1) EXCEPT !.members = members])
  BY DEF Round
<1>5. members \in SUBSET Others(p) /\ Cardinality(members) = Asked(p)
  BY <1>4 DEF kSubset
<1>6. members \in SUBSET Peers /\ p \notin members /\ Cardinality(members) <= CheckNodes
  BY <1>1, <1>2, <1>3, <1>5
<1>7. tasks[k].rounds + 1 \in 0..MaxRounds /\ tasks[k].cancelling \in BOOLEAN
  BY TaskFields, PeersFinite
<1> DEFINE u == [[Task("probing", p, tasks[k].rounds + 1) EXCEPT !.members = members]
                     EXCEPT !.cancelling = tasks[k].cancelling]
<1>8. u \in SuspicionTask /\ u.pc = "probing" /\ u.about = p /\ u.cancelling = tasks[k].cancelling
  BY <1>6, <1>7 DEF Task, SuspicionTask, PCs
<1>9. tasks' = [tasks EXCEPT ![k] = u]
  BY <1>4 DEF Set
<1>10. Becomes(k, u)
  BY <1>8, <1>9 DEF Becomes
<1>11. checkNodes' \in 0..CheckNodes
  BY <1>3 DEF Round
<1> QED
  BY <1>8, <1>10, <1>11

-----------------------------------------------------------------------------
(* Steps *)

NoCopy == [q \in Peers |-> 0]

\* What the cancellations a handler asks for look like: they do not wait yet,
\* and their node is not a suspect that met no race.
AsksFor(c) ==
    /\ c \in Cancellation /\ c.task = 0 /\ c.copy = NoCopy
    /\ status'[c.node] = "suspect" => c.node \in crossed' \cup leaving'

\* A handler or a health check: it leaves the tasks and their table alone.  A
\* node becomes suspect or failed by hearsay only; it looks healthy, or is found failing,
\* only if it did before, no task is about it, it met a race, or its
\* cancellation was asked for.
Handles ==
    /\ UNCHANGED <<tasks, stack, checkNodes, table, since, overwritten>>
    /\ status' \in [Peers -> Statuses] /\ failing' \in SUBSET Peers /\ leaving' \in SUBSET Peers
    /\ crossed' \in SUBSET Peers /\ crossed \in SUBSET crossed'
    /\ cancels' \in Seq(Cancellation) /\ Len(cancels) <= Len(cancels')
    /\ \A i \in 1..Len(cancels) : cancels'[i] = cancels[i]
    /\ \A i \in 1..Len(cancels') : i > Len(cancels) => AsksFor(cancels'[i])
    /\ \A p \in Peers :
        /\ status'[p] = "suspect" => status[p] = "suspect" \/ p \in crossed'
        /\ status'[p] = "failed" => status[p] = "failed" \/ p \in crossed'
        /\ p \in leaving \ leaving' => status'[p] # "suspect"
        /\ (p \in failing' \ failing \/ status'[p] = "healthy") =>
                status[p] = "healthy" \/ About(p) = {} \/ p \in crossed' \/ Pending(p)' \/ table[p] = 0

\* Node p is suspected.
Suspected(p) ==
    /\ p \in Peers
    /\ Suspect(p)
    /\ \/ p \in failing \ failing'
       \/ status[p] = "healthy" /\ \E k \in 1..Len(tasks) : Live(k) /\ tasks[k].pc = "probing" /\ tasks[k].about = p
    /\ failing' \in SUBSET failing
    /\ tasks' \in Seq(SuspicionTask) /\ Len(tasks') = Len(tasks) + 1
    /\ \A l \in 1..Len(tasks) :
        tasks'[l].pc = tasks[l].pc /\ tasks'[l].about = tasks[l].about /\ tasks'[l].cancelling = tasks[l].cancelling
    /\ tasks'[Len(tasks) + 1] = Task("created", p, 0)
    /\ UNCHANGED <<leaving, checkNodes, cancels, overwritten>>

\* Task k goes on, heals its node, judges it or ends.
Goes(k, u) ==
    /\ Becomes(k, u)
    /\ ~Finished(k)
    /\ u.about = tasks[k].about /\ u.pc # "created"
    /\ tasks[k].pc = "created" => tasks[k].cancelling
    /\ tasks[k].pc = "healed" => u.pc \in {"done", "cancelled"}
    /\ status' \in [Peers -> Statuses] /\ \A q \in Peers : q # u.about => status'[q] = status[q]
    /\ status' = status \/ ~tasks[k].cancelling
    /\ \/ status' = status /\ (tasks[k].cancelling \/ u.pc \notin {"done", "cancelled"})
       \/ u.about \in crossed' /\ status'[u.about] = "healthy"
       \/ u.pc = "healed" /\ status'[u.about] = "healthy"
       \/ u.pc = "done" /\ status'[u.about] # "suspect" /\ (status'[u.about] = "healthy" => status[u.about] = "healthy")
    /\ crossed' \in SUBSET Peers /\ crossed \in SUBSET crossed'
    /\ checkNodes' \in 0..CheckNodes
    /\ UNCHANGED <<failing, leaving, stack, table, cancels, since, overwritten>>

\* Task k starts and takes the newest suspect.
Starts(k, u) ==
    /\ Becomes(k, u)
    /\ Runs(k, "created")
    /\ u.pc \in {"probing", "done"}
    /\ \/ stack = <<>> /\ u.pc = "done" /\ u.about = tasks[k].about /\ UNCHANGED <<stack, crossed>>
       \/ /\ stack # <<>>
          /\ stack' = SubSeq(stack, 1, Len(stack) - 1)
          /\ crossed' = crossed \cup IF stack[Len(stack)] = tasks[k].about THEN {} ELSE {stack[Len(stack)], tasks[k].about}
          /\ \/ u.pc = "probing" /\ u.about = stack[Len(stack)]
             \/ u.pc = "done" /\ u.about = tasks[k].about /\ status[stack[Len(stack)]] # "suspect"
    /\ checkNodes' \in 0..CheckNodes
    /\ UNCHANGED <<status, failing, leaving, table, cancels, since, overwritten>>

\* A request for the cancellation of a node's suspicion.
LEMMA RequestFacts ==
    ASSUME NEW c \in Seq(Cancellation), NEW p \in Peers
    PROVE  /\ Request(c, p) \in Seq(Cancellation) /\ Len(Request(c, p)) = Len(c) + 1
           /\ \A i \in 1..Len(c) : Request(c, p)[i] = c[i]
           /\ Request(c, p)[Len(c) + 1] = [node |-> p, task |-> 0, copy |-> NoCopy]
           /\ Request(c, p)[Len(c) + 1] \in Cancellation
<1>1. [node |-> p, task |-> 0, copy |-> NoCopy] \in Cancellation
  BY DEF Cancellation, NoCopy
<1> QED
  BY <1>1 DEF Request, NoCopy

\* The statuses of update_node_status and of the checks are statuses.
LEMMA StatusSet ==
    ASSUME MonitorTypes, NEW p \in Peers, NEW s \in Statuses
    PROVE  /\ [status EXCEPT ![p] = s] \in [Peers -> Statuses]
           /\ [status EXCEPT ![p] = s][p] = s
           /\ \A q \in Peers : q # p => [status EXCEPT ![p] = s][q] = status[q]
BY DEF MonitorTypes

\* The handlers of requests, but for register_node.
LEMMA HandlerSteps ==
    ASSUME MonitorTypes, NEW p \in Peers
    PROVE  /\ DeregisterNode(p) => Handles
           /\ RequestDeregistration(p) => Handles
           /\ UpdateNodeHealth(p) => Handles
           /\ \A s \in Statuses \ {"none"} : UpdateNodeStatus(p, s) => Handles
           /\ CheckAnswered(p) => Handles
           /\ CheckUnanswered(p) => Handles
<1>0. /\ status \in [Peers -> Statuses] /\ failing \in SUBSET Peers /\ leaving \in SUBSET Peers
      /\ crossed \in SUBSET Peers /\ cancels \in Seq(Cancellation) /\ Len(cancels) \in Nat
  BY DEF MonitorTypes
<1>1. ASSUME DeregisterNode(p) PROVE Handles
  <2>1. UNCHANGED <<failing, tasks, stack, checkNodes, table, cancels, since, crossed, overwritten>>
    BY <1>1 DEF DeregisterNode, taskVars, historyVars
  <2>2. /\ leaving' = leaving \ {p}
        /\ status' = [status EXCEPT ![p] = IF status[p] = "none" THEN status[p] ELSE "inactive"]
    BY <1>1 DEF DeregisterNode
  <2>3. /\ status' \in [Peers -> Statuses] /\ status'[p] \in {"none", "inactive"}
        /\ \A q \in Peers : q # p => status'[q] = status[q]
    BY <1>0, <2>2 DEF Statuses
  <2> QED
    BY <1>0, <2>1, <2>2, <2>3 DEF Handles
<1>2. ASSUME RequestDeregistration(p) PROVE Handles
  <2>1. UNCHANGED <<status, failing, tasks, stack, checkNodes, table, since, crossed, overwritten>>
    BY <1>2 DEF RequestDeregistration, taskVars, historyVars
  <2>2. leaving' = leaving \cup {p} /\ cancels' = IF table[p] # 0 THEN Request(cancels, p) ELSE cancels
    BY <1>2 DEF RequestDeregistration
  <2>3. CASE table[p] = 0
    BY <1>0, <2>1, <2>2, <2>3 DEF Handles
  <2>4. CASE table[p] # 0
    <3>1. cancels' = Request(cancels, p)
      BY <2>2, <2>4
    <3>0. cancels'[Len(cancels) + 1] = [node |-> p, task |-> 0, copy |-> NoCopy] /\ cancels'[Len(cancels) + 1] \in Cancellation
      BY <1>0, <3>1, RequestFacts
    <3>2. AsksFor(cancels'[Len(cancels) + 1])
      BY <2>2, <3>0 DEF AsksFor
    <3>3. /\ cancels' \in Seq(Cancellation) /\ Len(cancels') = Len(cancels) + 1
          /\ \A i \in 1..Len(cancels) : cancels'[i] = cancels[i]
      BY <1>0, <3>1, RequestFacts
    <3> QED
      BY <1>0, <2>1, <2>2, <3>2, <3>3 DEF Handles
  <2> QED
    BY <2>3, <2>4
<1>3. ASSUME UpdateNodeHealth(p) PROVE Handles
  <2>1. UNCHANGED <<failing, leaving, tasks, stack, checkNodes, table, since, crossed, overwritten>>
    BY <1>3 DEF UpdateNodeHealth, taskVars, waitVars, historyVars
  <2>2. status' = [status EXCEPT ![p] = "healthy"] /\ cancels' = IF table[p] # 0 THEN Request(cancels, p) ELSE cancels
    BY <1>3 DEF UpdateNodeHealth
  <2>3. status' \in [Peers -> Statuses] /\ status'[p] = "healthy" /\ \A q \in Peers : q # p => status'[q] = status[q]
    BY <2>2, StatusSet DEF Statuses
  <2>4. CASE table[p] = 0
    BY <1>0, <2>1, <2>2, <2>3, <2>4 DEF Handles
  <2>5. CASE table[p] # 0
    <3>1. cancels' = Request(cancels, p)
      BY <2>2, <2>5
    <3>2. /\ cancels' \in Seq(Cancellation) /\ Len(cancels') = Len(cancels) + 1
          /\ \A i \in 1..Len(cancels) : cancels'[i] = cancels[i]
      BY <1>0, <3>1, RequestFacts
    <3>0. cancels'[Len(cancels) + 1] = [node |-> p, task |-> 0, copy |-> NoCopy] /\ cancels'[Len(cancels) + 1] \in Cancellation
      BY <1>0, <3>1, RequestFacts
    <3>3. AsksFor(cancels'[Len(cancels) + 1]) /\ cancels'[Len(cancels) + 1].node = p
      BY <2>3, <3>0 DEF AsksFor
    <3>4. Pending(p)'
      BY <1>0, <3>2, <3>3 DEF Pending
    <3> QED
      BY <1>0, <2>1, <2>3, <3>2, <3>3, <3>4 DEF Handles
  <2> QED
    BY <2>4, <2>5
<1>4. ASSUME NEW s \in Statuses \ {"none"}, UpdateNodeStatus(p, s) PROVE Handles
  <2>1. UNCHANGED <<failing, leaving, tasks, stack, checkNodes, table, cancels, since, overwritten>>
    BY <1>4 DEF UpdateNodeStatus, taskVars, waitVars
  <2>2. status' = [status EXCEPT ![p] = s] /\ crossed' = crossed \cup {p}
    BY <1>4 DEF UpdateNodeStatus
  <2>3. status' \in [Peers -> Statuses] /\ \A q \in Peers : q # p => status'[q] = status[q]
    BY <2>2, StatusSet
  <2> QED
    BY <1>0, <2>1, <2>2, <2>3 DEF Handles
<1>5. ASSUME CheckAnswered(p) PROVE Handles
  <2>1. UNCHANGED <<failing, leaving, tasks, stack, checkNodes, table, cancels, since, overwritten>>
    BY <1>5 DEF CheckAnswered, taskVars, waitVars
  <2>2. status' = [status EXCEPT ![p] = "healthy"] /\ crossed' = crossed \cup Revived(p)
    BY <1>5 DEF CheckAnswered
  <2>3. status' \in [Peers -> Statuses] /\ status'[p] = "healthy" /\ \A q \in Peers : q # p => status'[q] = status[q]
    BY <2>2, StatusSet DEF Statuses
  <2>4. About(p) # {} => p \in crossed'
    BY <2>2 DEF Revived
  <2>5. crossed' \in SUBSET Peers /\ crossed \in SUBSET crossed'
    BY <1>0, <2>2 DEF Revived
  <2> QED
    BY <1>0, <2>1, <2>3, <2>4, <2>5 DEF Handles
<1>6. ASSUME CheckUnanswered(p) PROVE Handles
  <2>1. UNCHANGED <<status, leaving, tasks, stack, checkNodes, table, cancels, since, crossed, overwritten>>
    BY <1>6 DEF CheckUnanswered, taskVars, historyVars
  <2>2. status[p] = "healthy" /\ failing' = failing \cup {p}
    BY <1>6 DEF CheckUnanswered
  <2> QED
    BY <1>0, <2>1, <2>2 DEF Handles
<1> QED
  BY <1>1, <1>2, <1>3, <1>4, <1>5, <1>6

\* register_node asks for one cancellation or two.
LEMMA RegisterStep ==
    ASSUME MonitorTypes, NEW p \in Peers, NEW q \in Peers, RegisterNode(p, q)
    PROVE  Handles
<1>0. /\ status \in [Peers -> Statuses] /\ crossed \in SUBSET Peers /\ failing \in SUBSET Peers /\ leaving \in SUBSET Peers
      /\ cancels \in Seq(Cancellation) /\ Len(cancels) \in Nat
  BY DEF MonitorTypes
<1> DEFINE fresh == {r \in {p, q} : CheckIsNotSelf(r) /\ status[r] = "none"}
           c == IF q \in fresh \ {p} THEN Request(cancels, q) ELSE cancels
<1>1. UNCHANGED <<failing, leaving, tasks, stack, checkNodes, table, since, overwritten>>
  BY DEF RegisterNode, taskVars, waitVars
<1>2. /\ status' = [r \in Peers |-> IF r \in fresh THEN "healthy" ELSE status[r]]
      /\ cancels' = Request(c, p)
      /\ crossed' = crossed \cup IF status[p] = "suspect" THEN {p} ELSE {}
  BY DEF RegisterNode
<1>3. status' \in [Peers -> Statuses] /\ \A r \in Peers : status'[r] = IF r \in fresh THEN "healthy" ELSE status[r]
  BY <1>0, <1>2 DEF Statuses
<1>4. \A r \in Peers : r \in fresh => r \in {p, q} /\ status[r] = "none"
  OBVIOUS
<1> HIDE DEF fresh
<1>5. /\ c \in Seq(Cancellation) /\ Len(cancels) <= Len(c) /\ Len(c) <= Len(cancels) + 1
      /\ \A i \in 1..Len(cancels) : c[i] = cancels[i]
      /\ \A i \in 1..Len(c) : i > Len(cancels) =>
            q \in fresh /\ c[i] = [node |-> q, task |-> 0, copy |-> NoCopy] /\ c[i] \in Cancellation
      /\ q \in fresh \ {p} => Len(c) = Len(cancels) + 1
  <2>1. CASE q \in fresh \ {p}
    <3>1. c = Request(cancels, q)
      BY <2>1
    <3> HIDE DEF c
    <3>2. /\ c \in Seq(Cancellation) /\ Len(c) = Len(cancels) + 1
          /\ \A i \in 1..Len(cancels) : c[i] = cancels[i]
          /\ c[Len(cancels) + 1] = [node |-> q, task |-> 0, copy |-> NoCopy] /\ c[Len(cancels) + 1] \in Cancellation
      BY <1>0, <3>1, RequestFacts
    <3>3. \A i \in 1..Len(c) : i > Len(cancels) => i = Len(cancels) + 1
      BY <1>0, <3>2
    <3> QED
      BY <1>0, <2>1, <3>2, <3>3
  <2>2. CASE q \notin fresh \ {p}
    BY <1>0, <2>2
  <2> QED
    BY <2>1, <2>2
<1> HIDE DEF c
<1>6. /\ cancels' \in Seq(Cancellation) /\ Len(cancels') = Len(c) + 1
      /\ \A i \in 1..Len(c) : cancels'[i] = c[i]
      /\ cancels'[Len(c) + 1] = [node |-> p, task |-> 0, copy |-> NoCopy]
      /\ cancels'[Len(c) + 1] \in Cancellation
  BY <1>2, <1>5, RequestFacts
<1>7. Len(c) \in Nat
  BY <1>5
<1>8. \A i \in 1..Len(cancels') : i > Len(cancels) => AsksFor(cancels'[i])
  <2> SUFFICES ASSUME NEW i \in 1..Len(cancels'), i > Len(cancels) PROVE AsksFor(cancels'[i])
    OBVIOUS
  <2>1. CASE i = Len(c) + 1
    <3>1. cancels'[i] = [node |-> p, task |-> 0, copy |-> NoCopy] /\ cancels'[i] \in Cancellation
      BY <1>6, <2>1
    <3>2. status'[p] = "suspect" => p \in crossed'
      BY <1>2, <1>3, <1>4
    <3> QED
      BY <3>1, <3>2 DEF AsksFor
  <2>2. CASE i # Len(c) + 1
    <3>1. i \in 1..Len(c)
      BY <1>6, <1>7, <2>2
    <3>2. q \in fresh /\ cancels'[i] = [node |-> q, task |-> 0, copy |-> NoCopy] /\ cancels'[i] \in Cancellation
      BY <1>5, <1>6, <3>1
    <3>3. status'[q] = "healthy"
      BY <1>3, <3>2
    <3> QED
      BY <3>2, <3>3 DEF AsksFor
  <2> QED
    BY <2>1, <2>2
<1>9. Pending(p)' /\ (q \in fresh => Pending(q)')
  <2>1. Len(c) + 1 \in 1..Len(cancels') /\ cancels'[Len(c) + 1].node = p
    BY <1>6, <1>7
  <2>2. Pending(p)'
    BY <2>1 DEF Pending
  <2>3. ASSUME q \in fresh, q # p PROVE Pending(q)'
    <3>1. Len(cancels) + 1 \in 1..Len(c) /\ Len(c) \in 1..Len(cancels')
      BY <1>0, <1>5, <1>6, <1>7, <2>3
    <3>2. cancels'[Len(cancels) + 1].node = q /\ Len(cancels) + 1 \in 1..Len(cancels')
      BY <1>0, <1>5, <1>6, <1>7, <3>1
    <3> QED
      BY <3>2 DEF Pending
  <2> QED
    BY <2>2, <2>3
<1>10. \A i \in 1..Len(cancels) : cancels'[i] = cancels[i]
  BY <1>0, <1>5, <1>6, <1>7
<1>11. crossed' \in SUBSET Peers /\ crossed \in SUBSET crossed'
  BY <1>0, <1>2
<1>12. Len(cancels) <= Len(cancels')
  BY <1>0, <1>5, <1>6, <1>7
<1>13. ASSUME NEW r \in Peers
       PROVE  /\ status'[r] = "suspect" => status[r] = "suspect"
              /\ status'[r] = "failed" => status[r] = "failed"
              /\ status'[r] = "healthy" => status[r] = "healthy" \/ Pending(r)'
  <2>1. r \in fresh => Pending(r)'
    BY <1>4, <1>9
  <2> QED
    BY <1>3, <2>1
<1> QED
  BY <1>0, <1>1, <1>3, <1>6, <1>8, <1>10, <1>11, <1>12, <1>13 DEF Handles

\* A check without an answer suspects the node, the periodic one and the one
\* of a round.
LEMMA SuspectSteps ==
    ASSUME MonitorTypes
    PROVE  /\ \A p \in Peers : CheckFails(p) => Suspected(p)
           /\ \A k \in 1..Len(tasks) : TcpFails(k) => (\E u : Goes(k, u)) \/ Suspected(tasks[k].about)
<1>0. /\ tasks \in Seq(SuspicionTask) /\ Len(tasks) \in Nat /\ failing \in SUBSET Peers /\ status \in [Peers -> Statuses]
      /\ crossed \in SUBSET Peers /\ checkNodes \in 0..CheckNodes
  BY DEF MonitorTypes
<1>1. \A p \in Peers : Task("created", p, 0) \in SuspicionTask
  BY NoMembers, PeersFinite DEF Task, SuspicionTask, PCs
<1>2. ASSUME NEW p \in Peers, CheckFails(p) PROVE Suspected(p)
  <2>1. /\ p \in failing /\ failing' = failing \ {p} /\ Suspect(p) /\ tasks' = Append(tasks, Task("created", p, 0))
        /\ UNCHANGED <<leaving, checkNodes, cancels, overwritten>>
    BY <1>2 DEF CheckFails
  <2>2. /\ tasks' \in Seq(SuspicionTask) /\ Len(tasks') = Len(tasks) + 1
        /\ tasks'[Len(tasks) + 1] = Task("created", p, 0) /\ \A l \in 1..Len(tasks) : tasks'[l] = tasks[l]
    BY <1>0, <1>1, <2>1, Created
  <2> QED
    BY <1>0, <2>1, <2>2 DEF Suspected
<1>3. ASSUME NEW k \in 1..Len(tasks), TcpFails(k)
      PROVE  (\E u : Goes(k, u)) \/ Suspected(tasks[k].about)
  <2> DEFINE p == tasks[k].about
             u == [tasks[k] EXCEPT !.tcp = "failed"]
             t == [tasks EXCEPT ![k] = u]
  <2>0. tasks[k] \in SuspicionTask /\ p \in Peers
    BY TaskFields
  <2>1. /\ tasks[k].pc = "probing" /\ ~tasks[k].cancelling
        /\ UNCHANGED <<failing, leaving, checkNodes, cancels, overwritten>>
    BY <1>3 DEF TcpFails, Runs, waitVars
  <2>2. /\ u \in SuspicionTask /\ u.pc = "probing" /\ u.about = p /\ u.cancelling = tasks[k].cancelling
    BY <2>0, <2>1 DEF SuspicionTask
  <2>3. \/ status[p] = "healthy" /\ Suspect(p) /\ tasks' = Append(t, Task("created", p, 0))
        \/ tasks' = t /\ UNCHANGED <<status, stack, table, since, crossed>>
    BY <1>3 DEF TcpFails
  <2> HIDE DEF u
  <2>4. t \in Seq(SuspicionTask) /\ Len(t) = Len(tasks) /\ t[k] = u /\ \A l \in 1..Len(tasks) : l # k => t[l] = tasks[l]
    BY <1>0, <2>2, Replaced
  <2>5. CASE status[p] = "healthy" /\ Suspect(p) /\ tasks' = Append(t, Task("created", p, 0))
    <3> HIDE DEF t
    <3>0. Task("created", p, 0) \in SuspicionTask
      BY <1>1, <2>0
    <3>1. /\ tasks' \in Seq(SuspicionTask) /\ Len(tasks') = Len(tasks) + 1
          /\ tasks'[Len(tasks) + 1] = Task("created", p, 0) /\ \A l \in 1..Len(tasks) : tasks'[l] = t[l]
      BY <2>4, <2>5, <3>0, Created
    <3>2. \A l \in 1..Len(tasks) :
            tasks'[l].pc = tasks[l].pc /\ tasks'[l].about = tasks[l].about /\ tasks'[l].cancelling = tasks[l].cancelling
      BY <2>1, <2>2, <2>4, <3>1
    <3>3. Live(k)
      BY <2>1 DEF Live, Finished
    <3>4. Suspected(p)
      BY <1>0, <2>0, <2>1, <2>5, <3>1, <3>2, <3>3 DEF Suspected
    <3> QED
      BY <3>4
  <2>6. CASE tasks' = t /\ UNCHANGED <<status, stack, table, since, crossed>>
    <3>1. Becomes(k, u)
      BY <2>2, <2>6 DEF Becomes
    <3>2. Goes(k, u)
      BY <1>0, <2>1, <2>2, <2>6, <3>1 DEF Goes, Finished
    <3> QED
      BY <3>2
  <2> QED
    BY <2>3, <2>5, <2>6
<1> QED
  BY <1>2, <1>3

\* The steps of a task that has started, and its cancellation.
LEMMA GoingSteps ==
    ASSUME MonitorTypes, NEW k \in 1..Len(tasks)
    PROVE  TcpAnswered(k) \/ EndRound(k) \/ Wake(k) \/ NextRound(k) \/ Judge(k) \/ Cancelled(k) => \E u : Goes(k, u)
<1> DEFINE p == tasks[k].about
<1>0. /\ tasks[k] \in SuspicionTask /\ p \in Peers /\ tasks[k].pc \in PCs /\ tasks[k].rounds \in 0..MaxRounds
      /\ tasks[k].cancelling \in BOOLEAN
  BY TaskFields
<1>1. /\ tasks \in Seq(SuspicionTask) /\ status \in [Peers -> Statuses] /\ crossed \in SUBSET Peers
      /\ checkNodes \in 0..CheckNodes /\ MaxRounds \in Nat
  BY PeersFinite DEF MonitorTypes
<1>2. ASSUME TcpAnswered(k) PROVE \E u : Goes(k, u)
  <2> DEFINE u == [tasks[k] EXCEPT !.tcp = "answered"]
  <2>1. /\ tasks[k].pc = "probing" /\ ~tasks[k].cancelling /\ tasks' = [tasks EXCEPT ![k] = u]
        /\ status' = [status EXCEPT ![p] = "healthy"] /\ crossed' = crossed \cup {p}
        /\ UNCHANGED <<failing, leaving, stack, checkNodes, table, cancels, since, overwritten>>
    BY <1>2 DEF TcpAnswered, Runs, waitVars
  <2>2. u \in SuspicionTask /\ u.pc = "probing" /\ u.about = p /\ u.cancelling = tasks[k].cancelling
    BY <1>0, <2>1 DEF SuspicionTask
  <2>3. status' \in [Peers -> Statuses] /\ status'[p] = "healthy" /\ \A q \in Peers : q # p => status'[q] = status[q]
    BY <1>0, <2>1, StatusSet DEF Statuses
  <2> HIDE DEF u
  <2>4. Goes(k, u)
    BY <1>0, <1>1, <2>1, <2>2, <2>3 DEF Goes, Becomes, Finished
  <2> QED
    BY <2>4
<1>3. ASSUME EndRound(k) PROVE \E u : Goes(k, u)
  <2>1. /\ tasks[k].pc = "probing" /\ ~tasks[k].cancelling
        /\ UNCHANGED <<failing, leaving, stack, checkNodes, table, cancels, since, crossed, overwritten>>
    BY <1>3 DEF EndRound, Runs, waitVars, historyVars
  <2>2. \/ \E c : /\ status' = [status EXCEPT ![p] = "healthy"]
                  /\ c \in BOOLEAN
                  /\ tasks' = Set(k, [Task("healed", p, 0) EXCEPT !.confirmed = c])
        \/ tasks' = Set(k, Task("sleeping", p, tasks[k].rounds)) /\ status' = status
    BY <1>3 DEF EndRound, Confirmed
  <2>3. ASSUME NEW c \in BOOLEAN, status' = [status EXCEPT ![p] = "healthy"],
               tasks' = Set(k, [Task("healed", p, 0) EXCEPT !.confirmed = c])
        PROVE  \E u : Goes(k, u)
    <3> DEFINE u == Healed(p, tasks[k].cancelling, c)
    <3>1. tasks' = [tasks EXCEPT ![k] = u]
      BY <2>3 DEF Set, Healed
    <3>2. u \in SuspicionTask /\ u.pc = "healed" /\ u.about = p /\ u.cancelling = tasks[k].cancelling
      <4>1. c \in BOOLEAN /\ p \in Peers /\ tasks[k].cancelling \in BOOLEAN
        BY <1>0
      <4> HIDE DEF p
      <4> QED
        BY ONLY <4>1, TaskHeals, Zenon
    <3>3. status' \in [Peers -> Statuses] /\ status'[p] = "healthy" /\ \A q \in Peers : q # p => status'[q] = status[q]
      BY <1>0, <2>3, StatusSet DEF Statuses
    <3> HIDE DEF u
    <3>4. Goes(k, u)
      BY <1>0, <1>1, <2>1, <3>1, <3>2, <3>3 DEF Goes, Becomes, Finished
    <3> QED
      BY <3>4
  <2>4. ASSUME tasks' = Set(k, Task("sleeping", p, tasks[k].rounds)), status' = status PROVE \E u : Goes(k, u)
    <3> DEFINE u == [Task("sleeping", p, tasks[k].rounds) EXCEPT !.cancelling = tasks[k].cancelling]
    <3>1. tasks' = [tasks EXCEPT ![k] = u]
      BY <2>4 DEF Set
    <3>2. u \in SuspicionTask /\ u.pc = "sleeping" /\ u.about = p /\ u.cancelling = tasks[k].cancelling
      BY <1>0, NoMembers DEF Task, SuspicionTask, PCs
    <3> HIDE DEF u
    <3>4. Goes(k, u)
      BY <1>0, <1>1, <2>1, <2>4, <3>1, <3>2 DEF Goes, Becomes, Finished
    <3> QED
      BY <3>4
  <2> QED
    BY <2>2, <2>3, <2>4
<1>4. ASSUME Wake(k) PROVE \E u : Goes(k, u)
  <2>1. /\ tasks[k].pc = "sleeping" /\ ~tasks[k].cancelling
        /\ UNCHANGED <<status, failing, leaving, stack, checkNodes, table, cancels, since, crossed, overwritten>>
    BY <1>4 DEF Wake, Runs, waitVars, historyVars
  <2>2. PICK late \in BOOLEAN :
            tasks' = [tasks EXCEPT ![k].pc = "woken", ![k].goes = (status[tasks[k].about] = "suspect" /\ ~late)]
    BY <1>4 DEF Wake
  <2> DEFINE g == (status[tasks[k].about] = "suspect" /\ ~late)
             u == [tasks[k] EXCEPT !.pc = "woken", !.goes = g]
  <2>3. g \in BOOLEAN
    OBVIOUS
  <2>4. tasks' = [tasks EXCEPT ![k] = u]
    BY <1>1, <2>2
  <2> HIDE DEF g
  <2>5. u \in SuspicionTask /\ u.pc = "woken" /\ u.about = p /\ u.cancelling = tasks[k].cancelling
    BY <1>0, <2>3 DEF SuspicionTask, PCs
  <2> HIDE DEF u
  <2>6. Goes(k, u)
    BY <1>0, <1>1, <2>1, <2>4, <2>5 DEF Goes, Becomes, Finished
  <2> QED
    BY <2>6
<1>5. ASSUME NextRound(k) PROVE \E u : Goes(k, u)
  <2>1. /\ tasks[k].pc = "woken" /\ ~tasks[k].cancelling /\ tasks[k].rounds < MaxRounds /\ Round(k, p)
        /\ UNCHANGED <<status, failing, leaving, stack, table, cancels, since, crossed, overwritten>>
    BY <1>5 DEF NextRound, Runs, waitVars, historyVars
  <2>2. PICK u : Becomes(k, u) /\ u.pc = "probing" /\ u.about = p
    BY <1>0, <2>1, RoundTask
  <2>3. checkNodes' \in 0..CheckNodes
    BY <1>0, <2>1, RoundTask
  <2>4. Goes(k, u)
    BY <1>0, <1>1, <2>1, <2>2, <2>3 DEF Goes, Becomes, Finished
  <2> QED
    BY <2>4
<1>6. ASSUME Judge(k) PROVE \E u : Goes(k, u)
  <2>1. /\ tasks[k].pc \in {"healed", "woken"} /\ ~tasks[k].cancelling
        /\ tasks' = Set(k, Task("done", p, 0))
        /\ status' = [status EXCEPT ![p] = IF status[p] = "suspect" THEN "failed" ELSE status[p]]
        /\ UNCHANGED <<failing, leaving, stack, checkNodes, table, cancels, since, crossed, overwritten>>
    BY <1>6 DEF Judge, Judges, Runs, waitVars, historyVars
  <2> DEFINE u == Ended("done", p, tasks[k].cancelling)
  <2>2. tasks' = [tasks EXCEPT ![k] = u]
    BY <2>1 DEF Set, Ended
  <2>3. u \in SuspicionTask /\ u.pc = "done" /\ u.about = p /\ u.cancelling = tasks[k].cancelling
    BY <1>0, TaskEnds, Zenon
  <2>4. /\ status' \in [Peers -> Statuses] /\ status'[p] # "suspect" /\ (status'[p] = "healthy" => status[p] = "healthy")
        /\ \A q \in Peers : q # p => status'[q] = status[q]
    BY <1>0, <1>1, <2>1 DEF Statuses
  <2> HIDE DEF u
  <2>5. Goes(k, u)
    BY <1>0, <1>1, <2>1, <2>2, <2>3, <2>4 DEF Goes, Becomes, Finished
  <2> QED
    BY <2>5
<1>7. ASSUME Cancelled(k) PROVE \E u : Goes(k, u)
  <2>1. /\ tasks[k].cancelling /\ ~Finished(k)
        /\ tasks' = Set(k, Task("cancelled", p, 0))
        /\ UNCHANGED <<status, failing, leaving, stack, checkNodes, table, cancels, since, crossed, overwritten>>
    BY <1>7 DEF Cancelled, waitVars, historyVars
  <2> DEFINE u == Ended("cancelled", p, tasks[k].cancelling)
  <2>2. tasks' = [tasks EXCEPT ![k] = u]
    BY <2>1 DEF Set, Ended
  <2>3. u \in SuspicionTask /\ u.pc = "cancelled" /\ u.about = p /\ u.cancelling = tasks[k].cancelling
    BY <1>0, TaskEnds, Zenon
  <2> HIDE DEF u
  <2>5. Goes(k, u)
    BY <1>0, <1>1, <2>1, <2>2, <2>3 DEF Goes, Becomes
  <2> QED
    BY <2>5
<1> QED
  BY <1>2, <1>3, <1>4, <1>5, <1>6, <1>7

\* The first step of a task.
LEMMA StartingStep ==
    ASSUME MonitorTypes, NEW k \in 1..Len(tasks), StartSuspectMonitor(k)
    PROVE  \E u : Starts(k, u)
<1> DEFINE p == stack[Len(stack)]
           a == tasks[k].about
           d == Ended("done", a, tasks[k].cancelling)
<1>0. /\ a \in Peers /\ tasks[k].cancelling \in BOOLEAN /\ checkNodes \in 0..CheckNodes /\ stack \in Seq(Peers)
      /\ MaxRounds \in Nat /\ MaxRounds # 0
  BY TaskFields, PeersFinite DEF MonitorTypes
<1>1. Runs(k, "created") /\ tasks[k].rounds = 0
  BY TaskFields DEF StartSuspectMonitor, Runs
<1>2. UNCHANGED <<status, failing, leaving, table, cancels, since, overwritten>>
  BY DEF StartSuspectMonitor, waitVars
<1>3. \/ stack = <<>> /\ tasks' = Set(k, Task("done", a, 0)) /\ UNCHANGED <<stack, checkNodes, crossed>>
      \/ /\ stack # <<>> /\ stack' = SubSeq(stack, 1, Len(stack) - 1)
         /\ crossed' = crossed \cup IF p = a THEN {} ELSE {p, a}
         /\ \/ status[p] = "suspect" /\ Round(k, p)
            \/ status[p] # "suspect" /\ tasks' = Set(k, Task("done", a, 0)) /\ UNCHANGED checkNodes
  BY DEF StartSuspectMonitor
<1>4. d \in SuspicionTask /\ d.pc = "done" /\ d.about = a /\ d.cancelling = tasks[k].cancelling
  BY <1>0, TaskEnds, Zenon
<1>5. Set(k, Task("done", a, 0)) = [tasks EXCEPT ![k] = d]
  BY DEF Set, Ended
<1> HIDE DEF d
<1>6. CASE tasks' = Set(k, Task("done", a, 0)) /\ UNCHANGED checkNodes
  <2>1. Becomes(k, d)
    BY <1>4, <1>5, <1>6 DEF Becomes
  <2>2. ASSUME status[p] = "suspect", Round(k, p), stack # <<>> PROVE \E u : Becomes(k, u) /\ u.pc = "probing" /\ u.about = p
    <3>1. p \in Peers
      BY <1>0, <2>2
    <3> QED
      BY <1>0, <1>1, <2>2, <3>1, RoundTask
  <2>3. CASE stack = <<>> \/ status[p] # "suspect"
    <3>1. Starts(k, d)
      BY <1>0, <1>1, <1>2, <1>3, <1>4, <1>6, <2>1, <2>3 DEF Starts
    <3> QED
      BY <3>1
  <2>4. CASE stack # <<>> /\ status[p] = "suspect"
    <3>1. PICK u : Becomes(k, u) /\ u.pc = "probing" /\ u.about = p
      BY <1>3, <2>2, <2>4
    <3>2. Starts(k, u)
      BY <1>0, <1>1, <1>2, <1>3, <1>6, <2>4, <3>1 DEF Starts
    <3> QED
      BY <3>2
  <2> QED
    BY <2>3, <2>4
<1>7. CASE stack # <<>> /\ status[p] = "suspect" /\ Round(k, p)
  <2>1. p \in Peers
    BY <1>0, <1>7
  <2>2. PICK u : Becomes(k, u) /\ u.pc = "probing" /\ u.about = p
    BY <1>0, <1>1, <1>7, <2>1, RoundTask
  <2>3. checkNodes' \in 0..CheckNodes
    BY <1>0, <1>1, <1>7, <2>1, RoundTask
  <2>4. Starts(k, u)
    BY <1>1, <1>2, <1>3, <1>7, <2>2, <2>3 DEF Starts
  <2> QED
    BY <2>4
<1> QED
  BY <1>3, <1>6, <1>7

\* Every step is one of these.
LEMMA MonitorSteps ==
    ASSUME MonitorTypes, MonitorNext
    PROVE  \/ Handles
           \/ \E p \in Peers : Suspected(p)
           \/ \E k \in 1..Len(tasks) : \E u : Goes(k, u)
           \/ \E k \in 1..Len(tasks) : \E u : Starts(k, u)
           \/ \E i \in 1..Len(cancels) : CancelProbe(i) \/ EndCancelProbe(i)
<1>1. DOMAIN tasks = 1..Len(tasks) /\ DOMAIN cancels = 1..Len(cancels)
  BY DEF MonitorTypes
<1>2. \A k \in 1..Len(tasks) : tasks[k].about \in Peers
  BY TaskFields
<1> QED
  BY <1>1, <1>2, HandlerSteps, RegisterStep, SuspectSteps, GoingSteps, StartingStep DEF MonitorNext, Loop, TaskStep

\* Cancellation i cancels the task of the table and waits for it.
Withdraws(i, k) ==
    /\ i \in 1..Len(cancels) /\ k \in 1..Len(tasks)
    /\ k = table[cancels[i].node] /\ ~Finished(k)
    /\ tasks' \in Seq(SuspicionTask) /\ Len(tasks') = Len(tasks)
    /\ tasks'[k].pc = tasks[k].pc /\ tasks'[k].about = tasks[k].about /\ tasks'[k].cancelling = TRUE
    /\ \A l \in 1..Len(tasks) : l # k => tasks'[l] = tasks[l]
    /\ cancels' \in Seq(Cancellation) /\ Len(cancels') = Len(cancels)
    /\ cancels'[i].node = cancels[i].node /\ cancels'[i].copy = table
    /\ \A j \in 1..Len(cancels) : j # i => cancels'[j] = cancels[j]
    /\ crossed' = crossed \cup IF tasks[k].pc = "created" THEN Range(stack) ELSE {}
    /\ UNCHANGED <<status, failing, leaving, stack, checkNodes, table, since, overwritten>>

\* Cancellation i is over and leaves the table without its node: the task
\* there has ended, or was waited for.
Forgets(i) ==
    /\ i \in 1..Len(cancels)
    /\ Waiting(i) \/ table[cancels[i].node] \notin Unfinished
    /\ cancels' = Without(i)
    /\ table' \in [Peers -> 0..Len(tasks)] /\ table'[cancels[i].node] = 0
    /\ \A q \in Peers : q # cancels[i].node =>
        \/ table'[q] = table[q]
        \/ table'[q] = cancels[i].copy[q] /\ (q \in overwritten' \/ table[q] = 0)
    /\ overwritten' \in SUBSET Peers /\ overwritten \in SUBSET overwritten'
    /\ UNCHANGED <<status, failing, leaving, stack, checkNodes, tasks, since, crossed>>

\* The requests that are left when one is done.
LEMMA WithoutFacts ==
    ASSUME MonitorTypes, NEW i \in 1..Len(cancels)
    PROVE  /\ Without(i) \in Seq(Cancellation) /\ Len(Without(i)) = Len(cancels) - 1
           /\ \A j \in 1..Len(Without(i)) : \E l \in 1..Len(cancels) : l # i /\ Without(i)[j] = cancels[l]
           /\ \A l \in 1..Len(cancels) : l # i => \E j \in 1..Len(Without(i)) : Without(i)[j] = cancels[l]
<1> DEFINE n == Len(cancels) - 1
           w == Without(i)
<1>0. cancels \in Seq(Cancellation) /\ Len(cancels) \in Nat /\ n \in Nat
  BY DEF MonitorTypes
<1>1. \A j \in 1..n : (IF j < i THEN j ELSE j + 1) \in 1..Len(cancels) \ {i}
  BY <1>0
<1>2. w = [j \in 1..n |-> cancels[IF j < i THEN j ELSE j + 1]]
  BY DEF Without
<1>3. \A j \in 1..n : cancels[IF j < i THEN j ELSE j + 1] \in Cancellation
  BY <1>0, <1>1
<1> HIDE DEF w
<1>4. w \in Seq(Cancellation) /\ Len(w) = n
  BY <1>0, <1>2, <1>3, IsASeq
<1>5. \A j \in 1..n : \E l \in 1..Len(cancels) : l # i /\ w[j] = cancels[l]
  BY <1>1, <1>2
<1>6. ASSUME NEW l \in 1..Len(cancels), l # i PROVE \E j \in 1..n : w[j] = cancels[l]
  <2>1. CASE l < i
    <3>1. l \in 1..n /\ w[l] = cancels[l]
      BY <1>0, <1>2, <2>1
    <3> QED
      BY <3>1
  <2>2. CASE l > i
    <3>1. l - 1 \in 1..n /\ ~(l - 1 < i) /\ l - 1 + 1 = l
      BY <1>0, <2>2
    <3>2. w[l - 1] = cancels[l]
      BY <1>2, <3>1
    <3> QED
      BY <3>1, <3>2
  <2> QED
    BY <1>6, <2>1, <2>2
<1> QED
  BY <1>4, <1>5, <1>6 DEF w

\* The steps of _cancel_suspicion_probe.
LEMMA CancelSteps ==
    ASSUME MonitorTypes, NEW i \in 1..Len(cancels)
    PROVE  /\ CancelProbe(i) => (\E k \in 1..Len(tasks) : Withdraws(i, k)) \/ Forgets(i)
           /\ EndCancelProbe(i) => Forgets(i)
<1> DEFINE p == cancels[i].node
           k == table[p]
<1>0. /\ cancels \in Seq(Cancellation) /\ tasks \in Seq(SuspicionTask) /\ Len(tasks) \in Nat
      /\ table \in [Peers -> 0..Len(tasks)] /\ overwritten \in SUBSET Peers
      /\ \A q \in Peers : cancels[i].copy[q] <= Len(tasks)
  BY DEF MonitorTypes
<1>1. cancels[i] \in Cancellation
  BY <1>0
<1>2. p \in Peers /\ cancels[i].copy \in [Peers -> Nat] /\ k \in 0..Len(tasks)
  BY <1>0, <1>1 DEF Cancellation
<1>3. ASSUME CancelProbe(i) PROVE (\E l \in 1..Len(tasks) : Withdraws(i, l)) \/ Forgets(i)
  <2>1. UNCHANGED <<status, failing, leaving, stack, checkNodes, since, overwritten>>
    BY <1>3 DEF CancelProbe, waitVars
  <2>2. CASE k \in Unfinished
    <3>1. /\ tasks' = [tasks EXCEPT ![k].cancelling = TRUE]
          /\ cancels' = [cancels EXCEPT ![i].task = k, ![i].copy = table]
          /\ crossed' = crossed \cup IF tasks[k].pc = "created" THEN Range(stack) ELSE {}
          /\ UNCHANGED table
      BY <1>3, <2>2 DEF CancelProbe
    <3>2. k \in 1..Len(tasks) /\ ~Finished(k)
      BY <1>0, <2>2 DEF Unfinished
    <3>3. tasks[k] \in SuspicionTask
      BY <1>0, <3>2
    <3> DEFINE u == [tasks[k] EXCEPT !.cancelling = TRUE]
               c == [cancels[i] EXCEPT !.task = k, !.copy = table]
    <3>4. u \in SuspicionTask /\ u.pc = tasks[k].pc /\ u.about = tasks[k].about /\ u.cancelling = TRUE
      BY <3>3 DEF SuspicionTask
    <3>5. tasks' = [tasks EXCEPT ![k] = u]
      BY <3>1
    <3>6. table \in [Peers -> Nat] /\ k \in Nat
      BY <1>0, <1>2
    <3>7. c \in Cancellation /\ c.node = p /\ c.copy = table
      BY <1>1, <3>6 DEF Cancellation
    <3>8. cancels' = [cancels EXCEPT ![i] = c]
      BY <1>0, <3>1
    <3> HIDE DEF u, c
    <3>9. /\ tasks' \in Seq(SuspicionTask) /\ Len(tasks') = Len(tasks) /\ tasks'[k] = u
          /\ \A l \in 1..Len(tasks) : l # k => tasks'[l] = tasks[l]
      BY <1>0, <3>2, <3>4, <3>5, Replaced
    <3>10. /\ cancels' \in Seq(Cancellation) /\ Len(cancels') = Len(cancels) /\ cancels'[i] = c
           /\ \A j \in 1..Len(cancels) : j # i => cancels'[j] = cancels[j]
      BY <1>0, <3>7, <3>8
    <3>11. Withdraws(i, k)
      BY <2>1, <3>1, <3>2, <3>4, <3>7, <3>9, <3>10 DEF Withdraws
    <3> QED
      BY <3>2, <3>11
  <2>3. CASE k \notin Unfinished
    <3>1. table' = [table EXCEPT ![p] = 0] /\ cancels' = Without(i) /\ UNCHANGED <<tasks, crossed>>
      BY <1>3, <2>3 DEF CancelProbe
    <3>2. table' \in [Peers -> 0..Len(tasks)] /\ table'[p] = 0 /\ \A q \in Peers : q # p => table'[q] = table[q]
      BY <1>0, <1>2, <3>1
    <3> QED
      BY <1>0, <2>1, <2>3, <3>1, <3>2 DEF Forgets
  <2> QED
    BY <2>2, <2>3
<1>4. ASSUME EndCancelProbe(i) PROVE Forgets(i)
  <2>1. /\ Waiting(i) /\ cancels' = Without(i)
        /\ table' = [cancels[i].copy EXCEPT ![p] = 0]
        /\ overwritten' = overwritten \cup {q \in Peers : table[q] \notin {0, cancels[i].copy[q]}}
        /\ UNCHANGED <<status, failing, leaving, stack, checkNodes, tasks, since, crossed>>
    BY <1>4 DEF EndCancelProbe, waitVars, taskVars
  <2>2. cancels[i].copy \in [Peers -> 0..Len(tasks)]
    BY <1>0, <1>2
  <2>3. /\ table' \in [Peers -> 0..Len(tasks)] /\ table'[p] = 0
        /\ \A q \in Peers : q # p => table'[q] = cancels[i].copy[q]
    BY <1>0, <1>2, <2>1, <2>2
  <2>4. overwritten' \in SUBSET Peers /\ overwritten \in SUBSET overwritten'
    BY <1>0, <2>1
  <2>5. \A q \in Peers : q # p =>
        \/ table'[q] = table[q]
        \/ table'[q] = cancels[i].copy[q] /\ (q \in overwritten' \/ table[q] = 0)
    BY <2>1, <2>3
  <2> QED
    BY <2>1, <2>3, <2>4, <2>5 DEF Forgets
<1> QED
  BY <1>3, <1>4

-----------------------------------------------------------------------------
(* Preservation *)

\* The fields of a task that goes on or starts.
LEMMA BecomesFacts ==
    ASSUME MonitorTypes, NEW k, NEW u, Becomes(k, u)
    PROVE  /\ tasks' \in Seq(SuspicionTask) /\ Len(tasks') = Len(tasks)
           /\ tasks'[k] = u /\ \A l \in 1..Len(tasks) : l # k => tasks'[l] = tasks[l]
BY Replaced DEF MonitorTypes, Becomes

\* What Suspect does to the status, the stack and the table.
LEMMA SuspectFacts ==
    ASSUME MonitorTypes, NEW p \in Peers, Suspected(p)
    PROVE  /\ status' \in [Peers -> Statuses] /\ status'[p] = "suspect" /\ \A q \in Peers : q # p => status'[q] = status[q]
           /\ stack' = Append(stack, p) /\ stack' \in Seq(Peers)
           /\ table' \in [Peers -> 0..Len(tasks')] /\ table'[p] = Len(tasks) + 1 /\ \A q \in Peers : q # p => table'[q] = table[q]
           /\ since' \in [Peers -> Nat] /\ since'[p] = Len(tasks) + 1 /\ \A q \in Peers : q # p => since'[q] = since[q]
           /\ crossed' \in SUBSET Peers /\ crossed \in SUBSET crossed'
           /\ Pending(p) => p \in crossed'
           /\ (\E k \in 1..Len(tasks) : Live(k) /\ tasks[k].about = p /\ tasks[k].pc = "healed") => p \in crossed'
<1>0. /\ status \in [Peers -> Statuses] /\ stack \in Seq(Peers) /\ table \in [Peers -> 0..Len(tasks)]
      /\ since \in [Peers -> Nat] /\ crossed \in SUBSET Peers /\ Len(tasks) \in Nat
      /\ DOMAIN tasks = 1..Len(tasks) /\ DOMAIN cancels = 1..Len(cancels)
  BY DEF MonitorTypes
<1>1. /\ status' = [status EXCEPT ![p] = "suspect"] /\ stack' = Append(stack, p)
      /\ table' = [table EXCEPT ![p] = Len(tasks) + 1] /\ since' = [since EXCEPT ![p] = Len(tasks) + 1]
      /\ crossed' = crossed \cup {q \in {p} : \E i \in DOMAIN cancels : cancels[i].node = q}
            \cup {q \in {p} : \E k \in About(q) : tasks[k].pc = "healed"}
      /\ Len(tasks') = Len(tasks) + 1
  BY DEF Suspected, Suspect
<1>2. status' \in [Peers -> Statuses] /\ status'[p] = "suspect" /\ \A q \in Peers : q # p => status'[q] = status[q]
  BY <1>0, <1>1, StatusSet DEF Statuses
<1>3. stack' = Append(stack, p) /\ stack' \in Seq(Peers)
  BY <1>0, <1>1
<1>4. table' \in [Peers -> 0..Len(tasks')] /\ table'[p] = Len(tasks) + 1 /\ \A q \in Peers : q # p => table'[q] = table[q]
  BY <1>0, <1>1
<1>5. since' \in [Peers -> Nat] /\ since'[p] = Len(tasks) + 1 /\ \A q \in Peers : q # p => since'[q] = since[q]
  BY <1>0, <1>1
<1>6. crossed' \in SUBSET Peers /\ crossed \in SUBSET crossed'
  BY <1>0, <1>1
<1>7. Pending(p) => p \in crossed'
  BY <1>0, <1>1 DEF Pending
<1>8. ASSUME NEW k \in 1..Len(tasks), Live(k), tasks[k].about = p, tasks[k].pc = "healed" PROVE p \in crossed'
  <2>1. k \in About(p)
    BY <1>0, <1>8 DEF About, Unfinished, Live
  <2> QED
    BY <1>1, <1>8, <2>1
<1> QED
  BY <1>2, <1>3, <1>4, <1>5, <1>6, <1>7, <1>8

\* A step in one of the forms above.
MonitorStep ==
    \/ Handles
    \/ \E p \in Peers : Suspected(p)
    \/ \E k \in 1..Len(tasks) : \E u : Goes(k, u)
    \/ \E k \in 1..Len(tasks) : \E u : Starts(k, u)
    \/ \E i \in 1..Len(cancels) : \E k \in 1..Len(tasks) : Withdraws(i, k)
    \/ \E i \in 1..Len(cancels) : Forgets(i)

\* Every step is one of them.
LEMMA StepForms == MonitorTypes /\ MonitorNext => MonitorStep
BY MonitorSteps, CancelSteps DEF MonitorStep

\* The node at the top of the stack, and what is left without it.
LEMMA TopOfStack ==
    ASSUME MonitorTypes, stack # <<>>
    PROVE  /\ Len(stack) \in Nat /\ Len(stack) > 0 /\ stack[Len(stack)] \in Peers
           /\ SubSeq(stack, 1, Len(stack) - 1) \in Seq(Peers)
           /\ Len(SubSeq(stack, 1, Len(stack) - 1)) = Len(stack) - 1
           /\ \A i \in 1..(Len(stack) - 1) : SubSeq(stack, 1, Len(stack) - 1)[i] = stack[i]
<1>1. stack \in Seq(Peers)
  BY DEF MonitorTypes
<1>2. Len(stack) \in Nat /\ Len(stack) > 0
  BY <1>1
<1>3. \A i \in 1..Len(stack) : stack[i] \in Peers
  BY <1>1, ElementOfSeq
<1> DEFINE n == Len(stack) - 1
<1>4. n \in Nat /\ n <= Len(stack) /\ \A i \in 1..n : stack[i] \in Peers
  BY <1>2, <1>3
<1>5. SubSeq(stack, 1, n) \in Seq(Peers) /\ Len(SubSeq(stack, 1, n)) = n /\ \A i \in 1..n : SubSeq(stack, 1, n)[i] = stack[i]
  <2>1. /\ SubSeq(stack, 1, n) \in Seq(Peers)
        /\ Len(SubSeq(stack, 1, n)) = IF 1 <= n THEN n - 1 + 1 ELSE 0
        /\ \A i \in 1..(n - 1 + 1) : SubSeq(stack, 1, n)[i] = stack[1 + i - 1]
    BY <1>1, <1>4, SubSeqProperties
  <2> HIDE DEF n
  <2> QED
    BY <1>4, <2>1
<1> QED
  BY <1>2, <1>3, <1>5

\* The fields of a cancellation.
LEMMA CancelFields ==
    ASSUME MonitorTypes, NEW i \in 1..Len(cancels)
    PROVE  /\ cancels[i] \in Cancellation /\ cancels[i].node \in Peers /\ cancels[i].task \in Nat
           /\ \A p \in Peers : cancels[i].copy[p] \in Nat /\ cancels[i].copy[p] <= Len(tasks)
<1>1. cancels[i] \in Cancellation
  BY DEF MonitorTypes
<1>2. cancels[i].node \in Peers /\ cancels[i].task \in Nat /\ cancels[i].copy \in [Peers -> Nat]
  BY <1>1 DEF Cancellation
<1> QED
  BY <1>1, <1>2 DEF MonitorTypes

\* The types are kept.
LEMMA MonitorTypesStep == MonitorTypes /\ MonitorStep => MonitorTypes'
<1> SUFFICES ASSUME MonitorTypes, MonitorStep PROVE MonitorTypes'
  OBVIOUS
<1>0. /\ Len(tasks) \in Nat /\ Len(cancels) \in Nat /\ tasks \in Seq(SuspicionTask) /\ stack \in Seq(Peers)
      /\ cancels \in Seq(Cancellation) /\ table \in [Peers -> 0..Len(tasks)]
      /\ \A i \in 1..Len(cancels) : \A p \in Peers : cancels[i].copy[p] <= Len(tasks)
      /\ failing \in SUBSET Peers /\ leaving \in SUBSET Peers /\ crossed \in SUBSET Peers /\ overwritten \in SUBSET Peers
      /\ status \in [Peers -> Statuses] /\ checkNodes \in 0..CheckNodes /\ since \in [Peers -> Nat]
  BY DEF MonitorTypes
<1>1. CASE Handles
  <2>1. /\ UNCHANGED <<tasks, stack, checkNodes, table, since, overwritten>>
        /\ status' \in [Peers -> Statuses] /\ failing' \in SUBSET Peers /\ leaving' \in SUBSET Peers
        /\ crossed' \in SUBSET Peers /\ cancels' \in Seq(Cancellation)
    BY <1>1 DEF Handles
  <2>2. ASSUME NEW i \in 1..Len(cancels'), NEW p \in Peers PROVE cancels'[i].copy[p] <= Len(tasks)
    <3>1. CASE i \in 1..Len(cancels)
      BY <1>0, <1>1, <3>1 DEF Handles
    <3>2. CASE i \notin 1..Len(cancels)
      <4>1. i > Len(cancels)
        BY <1>0, <2>1, <3>2
      <4>2. cancels'[i].copy = NoCopy
        BY <1>1, <4>1 DEF Handles, AsksFor
      <4> QED
        BY <1>0, <4>2 DEF NoCopy
    <3> QED
      BY <3>1, <3>2
  <2> QED
    BY <1>0, <2>1, <2>2 DEF MonitorTypes
<1>2. ASSUME NEW p \in Peers, Suspected(p) PROVE MonitorTypes'
  <2>1. /\ failing' \in SUBSET failing /\ tasks' \in Seq(SuspicionTask) /\ Len(tasks') = Len(tasks) + 1
        /\ UNCHANGED <<leaving, checkNodes, cancels, overwritten>>
    BY <1>2 DEF Suspected
  <2>2. \A i \in 1..Len(cancels) : \A q \in Peers : cancels[i].copy[q] <= Len(tasks) + 1
    <3> SUFFICES ASSUME NEW i \in 1..Len(cancels), NEW q \in Peers PROVE cancels[i].copy[q] <= Len(tasks) + 1
      OBVIOUS
    <3>1. cancels[i].copy[q] \in Nat /\ cancels[i].copy[q] <= Len(tasks)
      BY CancelFields
    <3> QED
      BY <1>0, <3>1
  <2> QED
    BY <1>0, <1>2, <2>1, <2>2, SuspectFacts DEF MonitorTypes
<1>3. ASSUME NEW k \in 1..Len(tasks), NEW u, Goes(k, u) PROVE MonitorTypes'
  <2>1. Becomes(k, u) /\ status' \in [Peers -> Statuses] /\ crossed' \in SUBSET Peers /\ checkNodes' \in 0..CheckNodes
        /\ UNCHANGED <<failing, leaving, stack, table, cancels, since, overwritten>>
    BY <1>3 DEF Goes
  <2>2. tasks' \in Seq(SuspicionTask) /\ Len(tasks') = Len(tasks)
    BY <2>1, BecomesFacts
  <2> QED
    BY <1>0, <2>1, <2>2 DEF MonitorTypes
<1>4. ASSUME NEW k \in 1..Len(tasks), NEW u, Starts(k, u) PROVE MonitorTypes'
  <2>1. Becomes(k, u) /\ checkNodes' \in 0..CheckNodes
        /\ UNCHANGED <<status, failing, leaving, table, cancels, since, overwritten>>
    BY <1>4 DEF Starts
  <2>2. tasks' \in Seq(SuspicionTask) /\ Len(tasks') = Len(tasks)
    BY <2>1, BecomesFacts
  <2>3. tasks[k].about \in Peers
    BY TaskFields
  <2>4. stack' \in Seq(Peers) /\ crossed' \in SUBSET Peers
    BY <1>0, <1>4, <2>3, TopOfStack DEF Starts
  <2> QED
    BY <1>0, <2>1, <2>2, <2>4 DEF MonitorTypes
<1>5. ASSUME NEW i \in 1..Len(cancels), NEW k \in 1..Len(tasks), Withdraws(i, k) PROVE MonitorTypes'
  <2>1. /\ tasks' \in Seq(SuspicionTask) /\ Len(tasks') = Len(tasks)
        /\ cancels' \in Seq(Cancellation) /\ Len(cancels') = Len(cancels)
        /\ cancels'[i].copy = table
        /\ \A j \in 1..Len(cancels) : j # i => cancels'[j] = cancels[j]
        /\ UNCHANGED <<status, failing, leaving, stack, checkNodes, table, since, overwritten>>
    BY <1>5 DEF Withdraws
  <2>2. Range(stack) \in SUBSET Peers
    BY <1>0 DEF Range
  <2>3. crossed' \in SUBSET Peers
    BY <1>0, <1>5, <2>2 DEF Withdraws
  <2>4. ASSUME NEW j \in 1..Len(cancels), NEW q \in Peers PROVE cancels'[j].copy[q] <= Len(tasks)
    <3>1. CASE j = i
      <4>1. cancels'[j].copy[q] = table[q] /\ table[q] \in 0..Len(tasks)
        BY <1>0, <2>1, <3>1
      <4> QED
        BY <1>0, <4>1
    <3>2. CASE j # i
      BY <1>0, <2>1, <3>2
    <3> QED
      BY <3>1, <3>2
  <2> QED
    BY <1>0, <2>1, <2>3, <2>4 DEF MonitorTypes
<1>6. ASSUME NEW i \in 1..Len(cancels), Forgets(i) PROVE MonitorTypes'
  <2>1. /\ cancels' = Without(i) /\ table' \in [Peers -> 0..Len(tasks)] /\ overwritten' \in SUBSET Peers
        /\ UNCHANGED <<status, failing, leaving, stack, checkNodes, tasks, since, crossed>>
    BY <1>6 DEF Forgets
  <2>2. cancels' \in Seq(Cancellation) /\ \A j \in 1..Len(cancels') : \E l \in 1..Len(cancels) : cancels'[j] = cancels[l]
    BY <2>1, WithoutFacts
  <2>3. \A j \in 1..Len(cancels') : \A q \in Peers : cancels'[j].copy[q] <= Len(tasks)
    BY <1>0, <2>2
  <2> QED
    BY <1>0, <2>1, <2>2, <2>3 DEF MonitorTypes
<1> QED
  BY <1>1, <1>2, <1>3, <1>4, <1>5, <1>6 DEF MonitorStep

\* Through the table only a node's own task is cancelled.
LEMMA TableStep == MonitorTypes /\ TableInv /\ MonitorStep => TableInv'
<1> SUFFICES ASSUME MonitorTypes, TableInv, MonitorStep PROVE TableInv'
  OBVIOUS
<1>0. /\ Len(tasks) \in Nat /\ Len(cancels) \in Nat /\ table \in [Peers -> 0..Len(tasks)]
      /\ \A i \in 1..Len(cancels) : \A p \in Peers : cancels[i].copy[p] <= Len(tasks) /\ cancels[i].copy[p] \in Nat
  <2>1. Len(tasks) \in Nat /\ Len(cancels) \in Nat /\ table \in [Peers -> 0..Len(tasks)]
    BY DEF MonitorTypes
  <2> QED
    BY <2>1, CancelFields
<1>1. CASE Handles
  <2>1. UNCHANGED <<tasks, table>> /\ crossed \in SUBSET crossed' /\ Len(cancels') \in Nat
    BY <1>1 DEF Handles
  <2>2. ASSUME NEW p \in Peers, NEW k \in 1..Len(tasks), NEW i \in 1..Len(cancels'), cancels'[i].copy[p] = k
        PROVE  \E j \in 1..Len(cancels) : cancels[j].copy[p] = k
    <3>1. CASE i \in 1..Len(cancels)
      <4>1. cancels'[i] = cancels[i]
        BY <1>1, <3>1 DEF Handles
      <4> QED
        BY <2>2, <3>1, <4>1
    <3>2. CASE i \notin 1..Len(cancels)
      <4>1. i > Len(cancels)
        BY <1>0, <2>1, <3>2
      <4>2. cancels'[i].copy = NoCopy
        BY <1>1, <4>1 DEF Handles, AsksFor
      <4> QED
        BY <1>0, <2>2, <4>2 DEF NoCopy
    <3> QED
      BY <3>1, <3>2
  <2> QED
    BY <2>1, <2>2 DEF TableInv
<1>2. ASSUME NEW p \in Peers, Suspected(p) PROVE TableInv'
  <2>1. /\ Len(tasks') = Len(tasks) + 1 /\ \A l \in 1..Len(tasks) : tasks'[l].about = tasks[l].about
        /\ tasks'[Len(tasks) + 1].about = p /\ cancels' = cancels
    BY <1>2 DEF Suspected, Task
  <2>2. /\ crossed \in SUBSET crossed' /\ table'[p] = Len(tasks) + 1 /\ \A q \in Peers : q # p => table'[q] = table[q]
    BY <1>2, SuspectFacts
  <2>3. ASSUME NEW q \in Peers, NEW k \in 1..Len(tasks'),
               k = table'[q] \/ \E i \in 1..Len(cancels) : cancels[i].copy[q] = k
        PROVE  tasks'[k].about \in {q} \cup crossed'
    <3>1. CASE k \in 1..Len(tasks)
      <4>1. k = table[q] \/ \E i \in 1..Len(cancels) : cancels[i].copy[q] = k
        BY <1>0, <2>2, <2>3, <3>1
      <4> QED
        BY <2>1, <2>2, <3>1, <4>1 DEF TableInv
    <3>2. CASE k \notin 1..Len(tasks)
      <4>1. k = Len(tasks) + 1
        BY <1>0, <2>1, <3>2
      <4>2. q = p
        BY <1>0, <2>2, <2>3, <4>1
      <4> QED
        BY <2>1, <4>1, <4>2
    <3> QED
      BY <3>1, <3>2
  <2> QED
    BY <2>1, <2>3 DEF TableInv
<1>3. ASSUME NEW k \in 1..Len(tasks), NEW u, Goes(k, u) PROVE TableInv'
  <2>1. Becomes(k, u) /\ u.about = tasks[k].about /\ crossed \in SUBSET crossed' /\ UNCHANGED <<table, cancels>>
    BY <1>3 DEF Goes
  <2>2. Len(tasks') = Len(tasks) /\ \A l \in 1..Len(tasks) : tasks'[l].about = tasks[l].about
    BY <2>1, BecomesFacts
  <2> QED
    BY <2>1, <2>2 DEF TableInv
<1>4. ASSUME NEW k \in 1..Len(tasks), NEW u, Starts(k, u) PROVE TableInv'
  <2>1. Becomes(k, u) /\ crossed \in SUBSET crossed' /\ UNCHANGED <<table, cancels>>
    BY <1>4 DEF Starts
  <2>2. u.about = tasks[k].about \/ u.about \in crossed'
    BY <1>4 DEF Starts
  <2>3. Len(tasks') = Len(tasks) /\ \A l \in 1..Len(tasks) : tasks'[l].about = tasks[l].about \/ tasks'[l].about \in crossed'
    BY <2>1, <2>2, BecomesFacts
  <2> QED
    BY <2>1, <2>3 DEF TableInv
<1>5. ASSUME NEW i \in 1..Len(cancels), NEW k \in 1..Len(tasks), Withdraws(i, k) PROVE TableInv'
  <2>1. /\ Len(tasks') = Len(tasks) /\ \A l \in 1..Len(tasks) : tasks'[l].about = tasks[l].about
        /\ Len(cancels') = Len(cancels) /\ cancels'[i].copy = table /\ table' = table
        /\ \A j \in 1..Len(cancels) : j # i => cancels'[j] = cancels[j]
        /\ crossed \in SUBSET crossed'
    BY <1>5 DEF Withdraws
  <2> QED
    BY <2>1 DEF TableInv
<1>6. ASSUME NEW i \in 1..Len(cancels), Forgets(i) PROVE TableInv'
  <2>1. /\ UNCHANGED <<tasks, crossed>> /\ cancels' = Without(i)
        /\ \A q \in Peers : table'[q] \in {0, table[q], cancels[i].copy[q]}
    BY <1>6 DEF Forgets
  <2>2. \A j \in 1..Len(cancels') : \E l \in 1..Len(cancels) : cancels'[j] = cancels[l]
    BY <2>1, WithoutFacts
  <2>3. ASSUME NEW q \in Peers, NEW k \in 1..Len(tasks), k = table'[q] \/ \E j \in 1..Len(cancels') : cancels'[j].copy[q] = k
        PROVE  tasks[k].about \in {q} \cup crossed
    <3>0. k # 0
      BY <1>0
    <3>1. k = table[q] \/ \E j \in 1..Len(cancels) : cancels[j].copy[q] = k
      <4>1. CASE k = table'[q]
        BY <2>1, <3>0, <4>1
      <4>2. CASE \E j \in 1..Len(cancels') : cancels'[j].copy[q] = k
        BY <2>2, <4>2
      <4> QED
        BY <2>3, <4>1, <4>2
    <3> QED
      BY <3>1 DEF TableInv
  <2> QED
    BY <2>1, <2>3 DEF TableInv
<1> QED
  BY <1>1, <1>2, <1>3, <1>4, <1>5, <1>6 DEF MonitorStep

\* No suspect has its cancellation pending, but for the races.
LEMMA PendingStep == MonitorTypes /\ PendingInv /\ MonitorStep => PendingInv'
<1> SUFFICES ASSUME MonitorTypes, PendingInv, MonitorStep, NEW p \in Peers, Pending(p)', status'[p] = "suspect"
             PROVE  p \in crossed' \cup leaving'
  BY DEF PendingInv
<1>0. Len(cancels) \in Nat
  BY DEF MonitorTypes
<1>1. CASE Handles
  <2>1. PICK i \in 1..Len(cancels') : cancels'[i].node = p
    BY DEF Pending
  <2>2. CASE i \in 1..Len(cancels)
    <3>1. Pending(p)
      BY <1>1, <2>1, <2>2 DEF Pending, Handles
    <3>2. crossed \in SUBSET crossed' /\ (status[p] = "suspect" \/ p \in crossed') /\ ~(p \in leaving \ leaving')
      BY <1>1 DEF Handles
    <3> QED
      BY <3>1, <3>2 DEF PendingInv
  <2>3. CASE i \notin 1..Len(cancels)
    <3>1. i > Len(cancels)
      BY <1>0, <1>1, <2>3 DEF Handles
    <3>2. AsksFor(cancels'[i])
      BY <1>1, <3>1 DEF Handles
    <3> QED
      BY <2>1, <3>2 DEF AsksFor
  <2> QED
    BY <2>2, <2>3
<1>2. ASSUME NEW q \in Peers, Suspected(q) PROVE p \in crossed' \cup leaving'
  <2>1. Pending(p) /\ leaving' = leaving
    BY <1>2 DEF Suspected, Pending
  <2>2. crossed \in SUBSET crossed' /\ (Pending(q) => q \in crossed') /\ (p # q => status'[p] = status[p])
    BY <1>2, SuspectFacts
  <2> QED
    BY <2>1, <2>2 DEF PendingInv
<1>3. ASSUME NEW k \in 1..Len(tasks), NEW u, Goes(k, u) PROVE p \in crossed' \cup leaving'
  <2>1. UNCHANGED <<cancels, leaving>> /\ crossed \in SUBSET crossed' /\ status'[p] = status[p]
    BY <1>3 DEF Goes
  <2> QED
    BY <2>1 DEF PendingInv, Pending
<1>4. ASSUME NEW k \in 1..Len(tasks), NEW u, Starts(k, u) PROVE p \in crossed' \cup leaving'
  <2>1. UNCHANGED <<cancels, leaving, status>> /\ crossed \in SUBSET crossed'
    BY <1>4 DEF Starts
  <2> QED
    BY <2>1 DEF PendingInv, Pending
<1>5. ASSUME NEW i \in 1..Len(cancels), NEW k \in 1..Len(tasks), Withdraws(i, k) PROVE p \in crossed' \cup leaving'
  <2>1. /\ UNCHANGED <<leaving, status>> /\ crossed \in SUBSET crossed'
        /\ Len(cancels') = Len(cancels) /\ \A j \in 1..Len(cancels) : cancels'[j].node = cancels[j].node
    BY <1>5 DEF Withdraws
  <2> QED
    BY <2>1 DEF PendingInv, Pending
<1>6. ASSUME NEW i \in 1..Len(cancels), Forgets(i) PROVE p \in crossed' \cup leaving'
  <2>1. UNCHANGED <<leaving, status, crossed>> /\ cancels' = Without(i)
    BY <1>6 DEF Forgets
  <2>2. \A j \in 1..Len(cancels') : \E l \in 1..Len(cancels) : cancels'[j] = cancels[l]
    BY <2>1, WithoutFacts
  <2> QED
    BY <2>1, <2>2 DEF PendingInv, Pending
<1> QED
  BY <1>1, <1>2, <1>3, <1>4, <1>5, <1>6 DEF MonitorStep

\* The live tasks after a step were live before, about the same node or about
\* one that met a race, but for a task that was created.
LEMMA LiveBefore ==
    ASSUME MonitorTypes, MonitorStep, NEW l \in 1..Len(tasks'), Live(l)'
    PROVE  \/ l \in 1..Len(tasks) /\ Live(l) /\ (tasks'[l].about = tasks[l].about \/ tasks'[l].about \in crossed')
           \/ Suspected(tasks'[l].about) /\ l = Len(tasks) + 1
<1>0. Len(tasks) \in Nat
  BY DEF MonitorTypes
<1>1. CASE UNCHANGED tasks
  BY <1>1 DEF Live, Finished
<1>2. ASSUME NEW p \in Peers, Suspected(p)
      PROVE  \/ l \in 1..Len(tasks) /\ Live(l) /\ tasks'[l].about = tasks[l].about
             \/ Suspected(tasks'[l].about) /\ l = Len(tasks) + 1
  <2>1. /\ Len(tasks') = Len(tasks) + 1
        /\ \A m \in 1..Len(tasks) :
            tasks'[m].pc = tasks[m].pc /\ tasks'[m].about = tasks[m].about /\ tasks'[m].cancelling = tasks[m].cancelling
        /\ tasks'[Len(tasks) + 1].about = p
    BY <1>2 DEF Suspected, Task
  <2>2. CASE l \in 1..Len(tasks)
    BY <2>1, <2>2 DEF Live, Finished
  <2>3. CASE l = Len(tasks) + 1
    BY <1>2, <2>1, <2>3
  <2> QED
    BY <1>0, <2>1, <2>2, <2>3
<1>3. ASSUME NEW k \in 1..Len(tasks), NEW u, Becomes(k, u), ~Finished(k), u.about = tasks[k].about \/ u.about \in crossed'
      PROVE  l \in 1..Len(tasks) /\ Live(l) /\ (tasks'[l].about = tasks[l].about \/ tasks'[l].about \in crossed')
  <2>1. Len(tasks') = Len(tasks) /\ tasks'[k] = u /\ u.cancelling = tasks[k].cancelling
        /\ \A m \in 1..Len(tasks) : m # k => tasks'[m] = tasks[m]
    BY <1>3, BecomesFacts DEF Becomes
  <2>2. CASE l = k
    BY <1>3, <2>1, <2>2 DEF Live
  <2>3. CASE l # k
    BY <2>1, <2>3 DEF Live, Finished
  <2> QED
    BY <2>2, <2>3
<1>4. ASSUME NEW k \in 1..Len(tasks), NEW u, Goes(k, u)
      PROVE  l \in 1..Len(tasks) /\ Live(l) /\ (tasks'[l].about = tasks[l].about \/ tasks'[l].about \in crossed')
  BY <1>3, <1>4 DEF Goes
<1>5. ASSUME NEW k \in 1..Len(tasks), NEW u, Starts(k, u)
      PROVE  l \in 1..Len(tasks) /\ Live(l) /\ (tasks'[l].about = tasks[l].about \/ tasks'[l].about \in crossed')
  <2>1. Becomes(k, u) /\ ~Finished(k) /\ (u.about = tasks[k].about \/ u.about \in crossed')
    BY <1>5 DEF Starts, Runs, Finished
  <2> QED
    BY <1>3, <2>1
<1>6. ASSUME NEW i \in 1..Len(cancels), NEW k \in 1..Len(tasks), Withdraws(i, k)
      PROVE  l \in 1..Len(tasks) /\ Live(l) /\ tasks'[l].about = tasks[l].about
  <2>1. Len(tasks') = Len(tasks) /\ tasks'[k].cancelling /\ \A m \in 1..Len(tasks) : m # k => tasks'[m] = tasks[m]
    BY <1>6 DEF Withdraws
  <2> QED
    BY <2>1 DEF Live, Finished
<1> QED
  BY <1>1, <1>2, <1>4, <1>5, <1>6 DEF MonitorStep, Handles, Forgets

\* A cancellation that waits has left no live task about its node.
LEMMA WaitStep == MonitorTypes /\ FreshInv /\ WaitInv /\ MonitorStep => WaitInv'
<1> SUFFICES ASSUME MonitorTypes, FreshInv, WaitInv, MonitorStep,
                    NEW j \in 1..Len(cancels'), Waiting(j)',
                    NEW l \in 1..Len(tasks'), Live(l)', tasks'[l].about = cancels'[j].node,
                    tasks'[l].about \notin crossed' \cup overwritten'
             PROVE  FALSE
  BY DEF WaitInv
<1>0. Len(tasks) \in Nat /\ Len(cancels) \in Nat
  BY DEF MonitorTypes
<1>1. crossed \in SUBSET crossed' /\ overwritten \in SUBSET overwritten'
  <2>1. ASSUME NEW p \in Peers, Suspected(p) PROVE crossed \in SUBSET crossed'
    BY <2>1, SuspectFacts
  <2> QED
    BY <2>1 DEF MonitorStep, Handles, Suspected, Goes, Starts, Withdraws, Forgets
<1>2. ASSUME l \in 1..Len(tasks), Live(l), tasks'[l].about = tasks[l].about,
             NEW i \in 1..Len(cancels), cancels'[j].node = cancels[i].node, cancels'[j].task = cancels[i].task
      PROVE  FALSE
  <2>1. Waiting(i)
    BY <1>2 DEF Waiting
  <2> QED
    BY <1>1, <1>2, <2>1 DEF WaitInv
<1>3. CASE Handles
  <2>1. UNCHANGED tasks
    BY <1>3 DEF Handles
  <2>2. j \in 1..Len(cancels)
    <3>1. j > Len(cancels) => cancels'[j].task = 0
      BY <1>3 DEF Handles, AsksFor
    <3> QED
      BY <1>0, <3>1 DEF Waiting
  <2>3. cancels'[j] = cancels[j]
    BY <1>3, <2>2 DEF Handles
  <2> QED
    BY <1>2, <2>1, <2>2, <2>3 DEF Live, Finished
<1>4. ASSUME NEW p \in Peers, Suspected(p) PROVE FALSE
  <2>1. cancels' = cancels /\ Len(tasks') = Len(tasks) + 1
    BY <1>4 DEF Suspected
  <2>2. l \in 1..Len(tasks) => Live(l) /\ tasks'[l].about = tasks[l].about
    BY <1>4 DEF Suspected, Live, Finished
  <2>3. CASE l \in 1..Len(tasks)
    BY <1>2, <2>1, <2>2, <2>3
  <2>4. CASE l \notin 1..Len(tasks)
    <3>1. tasks'[l].about = p
      <4>1. l = Len(tasks) + 1
        BY <1>0, <2>1, <2>4
      <4> QED
        BY <1>4, <4>1 DEF Suspected, Task
    <3>2. Pending(p)
      BY <2>1, <3>1 DEF Pending
    <3> QED
      BY <1>4, <3>1, <3>2, SuspectFacts
  <2> QED
    BY <2>3, <2>4
<1>5. ASSUME cancels' = cancels, l \in 1..Len(tasks), Live(l), tasks'[l].about = tasks[l].about PROVE FALSE
  BY <1>2, <1>5
<1>6. ASSUME NEW k \in 1..Len(tasks), NEW u, Goes(k, u) \/ Starts(k, u) PROVE FALSE
  <2>1. cancels' = cancels /\ Len(tasks') = Len(tasks)
    BY <1>6, BecomesFacts DEF Goes, Starts
  <2>2. l \in 1..Len(tasks) /\ Live(l) /\ tasks'[l].about = tasks[l].about
    BY <1>0, <2>1, LiveBefore
  <2> QED
    BY <1>5, <2>1, <2>2
<1>7. ASSUME NEW i \in 1..Len(cancels), NEW k \in 1..Len(tasks), Withdraws(i, k) PROVE FALSE
  <2>1. /\ k = table[cancels[i].node] /\ Len(tasks') = Len(tasks) /\ tasks'[k].cancelling
        /\ \A m \in 1..Len(tasks) : m # k => tasks'[m] = tasks[m]
        /\ Len(cancels') = Len(cancels) /\ cancels'[i].node = cancels[i].node
        /\ \A m \in 1..Len(cancels) : m # i => cancels'[m] = cancels[m]
    BY <1>7 DEF Withdraws
  <2>2. l # k /\ l \in 1..Len(tasks) /\ Live(l) /\ tasks'[l].about = tasks[l].about
    BY <2>1 DEF Live, Finished
  <2>3. CASE j = i
    <3>1. table[tasks[l].about] = l
      BY <1>1, <2>2 DEF FreshInv
    <3> QED
      BY <2>1, <2>2, <2>3, <3>1
  <2>4. CASE j # i
    BY <1>2, <2>1, <2>2, <2>4
  <2> QED
    BY <2>3, <2>4
<1>8. ASSUME NEW i \in 1..Len(cancels), Forgets(i) PROVE FALSE
  <2>1. tasks' = tasks /\ cancels' = Without(i)
    BY <1>8 DEF Forgets
  <2>2. \E m \in 1..Len(cancels) : cancels'[j] = cancels[m]
    <3>1. \A n \in 1..Len(Without(i)) : \E m \in 1..Len(cancels) : Without(i)[n] = cancels[m]
      BY WithoutFacts
    <3>2. j \in 1..Len(Without(i))
      BY <2>1
    <3> QED
      BY <2>1, <3>1, <3>2
  <2> QED
    BY <1>2, <2>1, <2>2 DEF Live, Finished
<1> QED
  BY <1>3, <1>4, <1>6, <1>7, <1>8 DEF MonitorStep

\* What is pending stays so, but for the node of a cancellation that is over.
LEMMA PendingBefore ==
    ASSUME MonitorTypes, MonitorStep, NEW p \in Peers, Pending(p)
    PROVE  Pending(p)' \/ \E i \in 1..Len(cancels) : Forgets(i) /\ cancels[i].node = p
<1>0. PICK m \in 1..Len(cancels) : cancels[m].node = p
  BY DEF Pending
<1>1. Len(cancels) \in Nat
  BY DEF MonitorTypes
<1>2. CASE UNCHANGED cancels
  BY <1>0, <1>2 DEF Pending
<1>3. CASE Handles
  <2>1. m \in 1..Len(cancels') /\ cancels'[m] = cancels[m]
    BY <1>1, <1>3 DEF Handles
  <2> QED
    BY <1>0, <2>1 DEF Pending
<1>4. ASSUME NEW i \in 1..Len(cancels), NEW k \in 1..Len(tasks), Withdraws(i, k) PROVE Pending(p)'
  <2>1. Len(cancels') = Len(cancels) /\ cancels'[m].node = cancels[m].node
    BY <1>4 DEF Withdraws
  <2> QED
    BY <1>0, <2>1 DEF Pending
<1>5. ASSUME NEW i \in 1..Len(cancels), Forgets(i), cancels[i].node # p PROVE Pending(p)'
  <2>1. cancels' = Without(i) /\ m # i
    BY <1>0, <1>5 DEF Forgets
  <2>2. \E n \in 1..Len(cancels') : cancels'[n] = cancels[m]
    BY <2>1, WithoutFacts
  <2> QED
    BY <1>0, <2>2 DEF Pending
<1> QED
  BY <1>2, <1>3, <1>4, <1>5 DEF MonitorStep, Suspected, Goes, Starts

\* The live task about a node is that of its latest suspicion.
LEMMA FreshStep == MonitorTypes /\ FreshInv /\ WaitInv /\ MonitorStep => FreshInv'
<1> SUFFICES ASSUME MonitorTypes, FreshInv, WaitInv, MonitorStep,
                    NEW l \in 1..Len(tasks'), Live(l)',
                    NEW q, q = tasks'[l].about, q \notin crossed' \cup overwritten'
             PROVE  /\ since'[q] = l /\ table'[q] = l
                    /\ Pending(q)' \/ tasks'[l].pc = "healed" \/ (q \notin failing' /\ status'[q] # "healthy")
  BY DEF FreshInv, Pending
<1> DEFINE Holds == /\ since'[q] = l /\ table'[q] = l
                    /\ Pending(q)' \/ tasks'[l].pc = "healed" \/ (q \notin failing' /\ status'[q] # "healthy")
<1>0. Len(tasks) \in Nat /\ Len(cancels) \in Nat
  BY DEF MonitorTypes
<1>1. crossed \in SUBSET crossed' /\ overwritten \in SUBSET overwritten'
  <2>1. ASSUME NEW p \in Peers, Suspected(p) PROVE crossed \in SUBSET crossed'
    BY <2>1, SuspectFacts
  <2> QED
    BY <2>1 DEF MonitorStep, Handles, Suspected, Goes, Starts, Withdraws, Forgets
<1>2. \/ l \in 1..Len(tasks) /\ Live(l) /\ tasks[l].about = q
      \/ Suspected(q) /\ l = Len(tasks) + 1
  BY LiveBefore
<1>3. ASSUME NEW p \in Peers, Suspected(p), NEW m \in 1..Len(tasks), Live(m), tasks[m].about = p, p \notin crossed'
      PROVE  p \in overwritten
  <2>1. p \notin crossed /\ ~Pending(p) /\ tasks[m].pc # "healed"
    BY <1>1, <1>3, SuspectFacts
  <2>2. SUFFICES ASSUME p \notin overwritten PROVE FALSE
    OBVIOUS
  <2>3. p \notin failing /\ status[p] # "healthy"
    BY <1>3, <2>1, <2>2 DEF FreshInv
  <2> QED
    BY <1>3, <2>3 DEF Suspected
<1>4. CASE Suspected(q) /\ l = Len(tasks) + 1
  <2>0. q \in Peers
    BY <1>4 DEF Suspected
  <2>1. since'[q] = l /\ table'[q] = l /\ status'[q] = "suspect"
    BY <1>4, <2>0, SuspectFacts
  <2>2. q \notin failing'
    <3>1. CASE q \in failing \ failing'
      BY <3>1
    <3>2. CASE \E m \in 1..Len(tasks) : Live(m) /\ tasks[m].about = q
      BY <1>1, <1>3, <1>4, <2>0, <3>2
    <3> QED
      BY <1>4, <3>1, <3>2 DEF Suspected
  <2> QED
    BY <2>1, <2>2
<1>5. CASE l \in 1..Len(tasks) /\ Live(l) /\ tasks[l].about = q
  <2>0. q \in Peers
    BY <1>5, TaskFields
  <2>1. /\ since[q] = l /\ table[q] = l
        /\ Pending(q) \/ tasks[l].pc = "healed" \/ (q \notin failing /\ status[q] # "healthy")
    BY <1>1, <1>5 DEF FreshInv
  <2>2. l # 0 /\ l \in Unfinished
    BY <1>0, <1>5 DEF Live, Unfinished, MonitorTypes
  <2>3. ~\E i \in 1..Len(cancels) : Forgets(i) /\ cancels[i].node = q
    <3> SUFFICES ASSUME NEW i \in 1..Len(cancels), Forgets(i), cancels[i].node = q PROVE FALSE
      OBVIOUS
    <3>1. CASE Waiting(i)
      BY <1>1, <1>5, <3>1 DEF WaitInv
    <3>2. CASE table[q] \notin Unfinished
      BY <2>1, <2>2, <3>2
    <3> QED
      BY <3>1, <3>2 DEF Forgets
  <2>4. Pending(q) => Pending(q)'
    BY <2>0, <2>3, PendingBefore
  <2>5. CASE Handles
    <3>1. UNCHANGED <<tasks, table, since>>
      BY <2>5 DEF Handles
    <3>2. About(q) # {}
      BY <1>5, <2>2 DEF About
    <3>3. (q \in failing' \ failing \/ status'[q] = "healthy") => status[q] = "healthy" \/ Pending(q)'
      BY <2>0, <2>1, <2>2, <2>5, <3>2 DEF Handles
    <3>4. Pending(q)' \/ tasks'[l].pc = "healed" \/ (q \notin failing' /\ status'[q] # "healthy")
      BY <2>1, <2>4, <3>1, <3>3
    <3> QED
      BY <2>1, <3>1, <3>4
  <2>6. ASSUME NEW p \in Peers, Suspected(p) PROVE Holds
    <3>1. q # p
      BY <1>1, <1>3, <1>5, <2>6
    <3>2. since'[q] = since[q] /\ table'[q] = table[q] /\ status'[q] = status[q]
      BY <2>0, <2>6, <3>1, SuspectFacts
    <3>3. failing' \in SUBSET failing /\ tasks'[l].pc = tasks[l].pc
      BY <1>5, <2>6 DEF Suspected
    <3> QED
      BY <2>1, <2>4, <3>2, <3>3
  <2>7. ASSUME NEW k \in 1..Len(tasks), NEW u, Goes(k, u) PROVE Holds
    <3>1. /\ UNCHANGED <<table, since, failing>>
          /\ tasks'[k] = u /\ \A m \in 1..Len(tasks) : m # k => tasks'[m] = tasks[m]
      BY <2>7, BecomesFacts DEF Goes
    <3>2. CASE l = k
      <4>1. u.pc \notin {"done", "cancelled"} /\ u.about = q
        BY <1>5, <3>1, <3>2 DEF Live, Finished
      <4>2. tasks[l].pc # "healed"
        BY <2>7, <3>2, <4>1 DEF Goes
      <4>3. u.pc = "healed" \/ status' = status
        BY <2>7, <4>1 DEF Goes
      <4> QED
        BY <2>1, <2>4, <3>1, <3>2, <4>2, <4>3
    <3>3. CASE l # k
      <4>1. status'[q] = status[q]
        <5>1. CASE q = u.about
          <6>1. tasks[k].about = q /\ ~Finished(k)
            BY <2>7, <5>1 DEF Goes
          <6>2. ~Live(k)
            BY <1>1, <2>1, <3>3, <6>1 DEF FreshInv
          <6>3. tasks[k].cancelling
            BY <6>1, <6>2 DEF Live
          <6> QED
            BY <2>7, <6>3 DEF Goes
        <5>2. CASE q # u.about
          BY <2>0, <2>7, <5>2 DEF Goes
        <5> QED
          BY <5>1, <5>2
      <4> QED
        BY <1>5, <2>1, <2>4, <3>1, <3>3, <4>1
    <3> QED
      BY <3>2, <3>3
  <2>8. ASSUME NEW k \in 1..Len(tasks), NEW u, Starts(k, u) PROVE Holds
    <3>1. /\ UNCHANGED <<table, since, failing, status>>
          /\ tasks'[k] = u /\ \A m \in 1..Len(tasks) : m # k => tasks'[m] = tasks[m]
      BY <2>8, BecomesFacts DEF Starts
    <3>2. tasks[k].pc # "healed"
      BY <2>8 DEF Starts, Runs
    <3>3. tasks[l].pc = "healed" => tasks'[l].pc = "healed"
      BY <1>5, <3>1, <3>2
    <3> QED
      BY <2>1, <2>4, <3>1, <3>3
  <2>9. ASSUME NEW i \in 1..Len(cancels), NEW k \in 1..Len(tasks), Withdraws(i, k) PROVE Holds
    <3>1. /\ UNCHANGED <<table, since, failing, status>> /\ \A m \in 1..Len(tasks) : tasks'[m].pc = tasks[m].pc
      BY <2>9 DEF Withdraws
    <3> QED
      BY <1>5, <2>1, <2>4, <3>1
  <2>10. ASSUME NEW i \in 1..Len(cancels), Forgets(i) PROVE Holds
    <3>1. UNCHANGED <<tasks, since, failing, status>>
      BY <2>10 DEF Forgets
    <3>2. cancels[i].node # q
      BY <2>3, <2>10
    <3>3. table'[q] = table[q]
      BY <2>0, <2>1, <2>2, <2>10, <3>2 DEF Forgets
    <3> QED
      BY <2>1, <2>4, <3>1, <3>3
  <2> QED
    BY <2>5, <2>6, <2>7, <2>8, <2>9, <2>10 DEF MonitorStep
<1> QED
  BY <1>2, <1>4, <1>5

\* The tasks that have not started and will.
Starting == {k \in 1..Len(tasks) : Runs(k, "created")}

\* They are counted by Awaits.
LEMMA StartingFacts ==
    ASSUME MonitorTypes
    PROVE  /\ IsFiniteSet(Starting) /\ Cardinality(Starting) \in Nat
           /\ \A p : Awaits(p) <=> \E i \in 1..Len(stack) : stack[i] = p /\ Len(stack) - i < Cardinality(Starting)
<1>1. DOMAIN tasks = 1..Len(tasks) /\ DOMAIN stack = 1..Len(stack) /\ Len(tasks) \in Nat
  BY DEF MonitorTypes
<1>2. IsFiniteSet(Starting)
  <2>1. IsFiniteSet(1..Len(tasks))
    BY <1>1, FS_Interval
  <2>2. Starting \in SUBSET (1..Len(tasks))
    BY DEF Starting
  <2> QED
    BY <2>1, <2>2, FS_Subset
<1>3. Starting = {k \in DOMAIN tasks : Runs(k, "created")}
  BY <1>1 DEF Starting
<1> QED
  BY <1>1, <1>2, <1>3, FS_CardinalityType DEF Awaits

\* Whoever probes p: a task that has started, about p and not cancelled.
Probes(k, p) ==
    k \in 1..Len(tasks) /\ tasks[k].about = p /\ ~tasks[k].cancelling
        /\ tasks[k].pc \notin {"created", "done", "cancelled"}

\* A suspect is being probed.
LEMMA ProbedStep ==
    MonitorTypes /\ MonitorTypes' /\ TableInv /\ PendingInv /\ SuspectProbed /\ MonitorStep => SuspectProbed'
<1> SUFFICES ASSUME MonitorTypes, MonitorTypes', TableInv, PendingInv, SuspectProbed, MonitorStep,
                    NEW p \in Peers, p \notin crossed' \cup leaving', status'[p] = "suspect"
             PROVE  Awaits(p)' \/ \E k \in 1..Len(tasks') : Probes(k, p)'
  <2>1. DOMAIN tasks' = 1..Len(tasks')
    BY DEF MonitorTypes
  <2>2. \A q : (\E k \in About(q)' : ~tasks'[k].cancelling /\ tasks'[k].pc # "created") <=> \E k \in 1..Len(tasks') : Probes(k, q)'
    BY <2>1 DEF About, Unfinished, Finished, Probes
  <2> QED
    BY <2>2 DEF SuspectProbed
<1>0. /\ Len(tasks) \in Nat /\ Len(stack) \in Nat /\ stack \in Seq(Peers) /\ DOMAIN tasks = 1..Len(tasks)
      /\ IsFiniteSet(Starting) /\ Cardinality(Starting) \in Nat
  BY StartingFacts DEF MonitorTypes
<1>1. (\E i \in 1..Len(stack') : stack'[i] = p /\ Len(stack') - i < Cardinality(Starting')) => Awaits(p)'
  <2>1. DOMAIN tasks' = 1..Len(tasks') /\ DOMAIN stack' = 1..Len(stack')
    BY DEF MonitorTypes
  <2>2. Starting' = {k \in DOMAIN tasks' : Runs(k, "created")'}
    BY <2>1 DEF Starting
  <2> QED
    BY <2>1, <2>2 DEF Awaits
<1>2. p \notin crossed \cup leaving /\ status[p] = "suspect" =>
        \/ \E i \in 1..Len(stack) : stack[i] = p /\ Len(stack) - i < Cardinality(Starting)
        \/ \E k \in 1..Len(tasks) : Probes(k, p)
  <2>1. (\E k \in About(p) : ~tasks[k].cancelling /\ tasks[k].pc # "created") => \E k \in 1..Len(tasks) : Probes(k, p)
    BY <1>0 DEF About, Unfinished, Finished, Probes
  <2> QED
    BY <2>1, StartingFacts DEF SuspectProbed
<1>3. ASSUME p \notin crossed \cup leaving, status[p] = "suspect", stack' = stack, Starting' = Starting,
             \A k \in 1..Len(tasks) : Probes(k, p) => k \in 1..Len(tasks') /\ Probes(k, p)'
      PROVE  Awaits(p)' \/ \E k \in 1..Len(tasks') : Probes(k, p)'
  BY <1>1, <1>2, <1>3
<1>4. CASE Handles
  <2>1. /\ UNCHANGED <<tasks, stack>> /\ crossed \in SUBSET crossed'
        /\ status[p] = "suspect" \/ p \in crossed'
        /\ p \in leaving \ leaving' => status'[p] # "suspect"
    BY <1>4 DEF Handles
  <2>2. Starting' = Starting
    BY <2>1 DEF Starting, Runs
  <2> QED
    BY <1>3, <2>1, <2>2 DEF Probes
<1>5. ASSUME NEW q \in Peers, Suspected(q) PROVE Awaits(p)' \/ \E k \in 1..Len(tasks') : Probes(k, p)'
  <2>1. /\ Len(tasks') = Len(tasks) + 1 /\ leaving' = leaving
        /\ \A l \in 1..Len(tasks) :
            tasks'[l].pc = tasks[l].pc /\ tasks'[l].about = tasks[l].about /\ tasks'[l].cancelling = tasks[l].cancelling
        /\ tasks'[Len(tasks) + 1].pc = "created" /\ tasks'[Len(tasks) + 1].cancelling = FALSE
    BY <1>5 DEF Suspected, Task
  <2>2. Starting' = Starting \cup {Len(tasks) + 1} /\ Len(tasks) + 1 \notin Starting
    BY <1>0, <2>1 DEF Starting, Runs
  <2>3. Cardinality(Starting') = Cardinality(Starting) + 1
    BY <1>0, <2>2, FS_AddElement
  <2>4. /\ stack' = Append(stack, q) /\ crossed \in SUBSET crossed' /\ (p # q => status'[p] = status[p])
    BY <1>5, SuspectFacts
  <2>5. Len(stack') = Len(stack) + 1 /\ stack'[Len(stack) + 1] = q /\ \A i \in 1..Len(stack) : stack'[i] = stack[i]
    BY <1>0, <1>5, <2>4
  <2>6. CASE p = q
    <3>1. Len(stack) + 1 \in 1..Len(stack') /\ Len(stack') - (Len(stack) + 1) < Cardinality(Starting')
      BY <1>0, <2>3, <2>5
    <3> QED
      BY <1>1, <2>5, <2>6, <3>1
  <2>7. CASE p # q
    <3>1. p \notin crossed \cup leaving /\ status[p] = "suspect"
      BY <2>1, <2>4, <2>7
    <3>2. ASSUME NEW i \in 1..Len(stack), stack[i] = p, Len(stack) - i < Cardinality(Starting)
          PROVE  i \in 1..Len(stack') /\ stack'[i] = p /\ Len(stack') - i < Cardinality(Starting')
      BY <1>0, <2>3, <2>5, <3>2
    <3>3. \A k \in 1..Len(tasks) : Probes(k, p) => k \in 1..Len(tasks') /\ Probes(k, p)'
      BY <1>0, <2>1 DEF Probes
    <3> QED
      BY <1>1, <1>2, <3>1, <3>2, <3>3
  <2> QED
    BY <2>6, <2>7
<1>6. ASSUME NEW k \in 1..Len(tasks), NEW u, Goes(k, u) PROVE Awaits(p)' \/ \E l \in 1..Len(tasks') : Probes(l, p)'
  <2>1. /\ UNCHANGED <<stack, leaving>> /\ crossed \in SUBSET crossed' /\ u.about = tasks[k].about
        /\ u.cancelling = tasks[k].cancelling /\ u.pc # "created"
        /\ tasks[k].pc = "created" => tasks[k].cancelling
    BY <1>6 DEF Goes, Becomes
  <2>2. Len(tasks') = Len(tasks) /\ tasks'[k] = u /\ \A l \in 1..Len(tasks) : l # k => tasks'[l] = tasks[l]
    BY <1>6, BecomesFacts DEF Goes
  <2>3. Starting' = Starting
    BY <2>1, <2>2 DEF Starting, Runs
  <2>4. status'[p] = status[p] /\ (p = u.about => tasks[k].cancelling \/ u.pc \notin {"done", "cancelled"})
    BY <1>6 DEF Goes
  <2>5. ASSUME NEW l \in 1..Len(tasks), Probes(l, p) PROVE l \in 1..Len(tasks') /\ Probes(l, p)'
    <3>1. CASE l = k
      BY <2>1, <2>2, <2>4, <2>5, <3>1 DEF Probes
    <3>2. CASE l # k
      BY <2>2, <2>5, <3>2 DEF Probes
    <3> QED
      BY <3>1, <3>2
  <2> QED
    BY <1>3, <2>1, <2>3, <2>4, <2>5
<1>7. ASSUME NEW k \in 1..Len(tasks), NEW u, Starts(k, u) PROVE Awaits(p)' \/ \E l \in 1..Len(tasks') : Probes(l, p)'
  <2>1. /\ UNCHANGED <<status, leaving>> /\ crossed \in SUBSET crossed' /\ u.cancelling = tasks[k].cancelling
        /\ tasks[k].pc = "created" /\ ~tasks[k].cancelling /\ u.pc \in {"probing", "done"}
    BY <1>7 DEF Starts, Becomes, Runs
  <2>2. Len(tasks') = Len(tasks) /\ tasks'[k] = u /\ \A l \in 1..Len(tasks) : l # k => tasks'[l] = tasks[l]
    BY <1>7, BecomesFacts DEF Starts
  <2>3. k \in Starting /\ Starting' = Starting \ {k}
    BY <2>1, <2>2 DEF Starting, Runs
  <2>4. Cardinality(Starting') = Cardinality(Starting) - 1
    BY <1>0, <2>3, FS_RemoveElement
  <2>5. p \notin crossed \cup leaving /\ status[p] = "suspect"
    BY <2>1
  <2>6. ASSUME NEW l \in 1..Len(tasks), Probes(l, p) PROVE l \in 1..Len(tasks') /\ Probes(l, p)'
    <3>1. l # k
      BY <2>1, <2>6 DEF Probes
    <3> QED
      BY <2>2, <2>6, <3>1 DEF Probes
  <2>7. ASSUME NEW i \in 1..Len(stack), stack[i] = p, Len(stack) - i < Cardinality(Starting)
        PROVE  Awaits(p)' \/ \E l \in 1..Len(tasks') : Probes(l, p)'
    <3>1. stack # <<>>
      BY <1>0, <2>7
    <3>2. stack' = SubSeq(stack, 1, Len(stack) - 1)
      BY <1>7, <3>1 DEF Starts
    <3>3. Len(stack') = Len(stack) - 1 /\ \A m \in 1..(Len(stack) - 1) : stack'[m] = stack[m]
      BY <3>1, <3>2, TopOfStack
    <3>4. CASE i = Len(stack)
      <4>1. u.pc = "probing" /\ u.about = p
        BY <1>7, <2>5, <2>7, <3>1, <3>4 DEF Starts
      <4>2. Probes(k, p)' /\ k \in 1..Len(tasks')
        BY <2>1, <2>2, <4>1 DEF Probes
      <4> QED
        BY <4>2
    <3>5. CASE i # Len(stack)
      <4>1. i \in 1..Len(stack') /\ stack'[i] = p /\ Len(stack') - i < Cardinality(Starting')
        BY <1>0, <2>4, <2>7, <3>3, <3>5
      <4> QED
        BY <1>1, <4>1
    <3> QED
      BY <3>4, <3>5
  <2> QED
    BY <1>2, <2>5, <2>6, <2>7
<1>8. ASSUME NEW i \in 1..Len(cancels), NEW k \in 1..Len(tasks), Withdraws(i, k)
      PROVE  Awaits(p)' \/ \E l \in 1..Len(tasks') : Probes(l, p)'
  <2>1. /\ UNCHANGED <<status, leaving, stack>> /\ crossed \in SUBSET crossed' /\ k = table[cancels[i].node]
        /\ Len(tasks') = Len(tasks) /\ tasks'[k].cancelling = TRUE
        /\ \A l \in 1..Len(tasks) : l # k => tasks'[l] = tasks[l]
        /\ tasks[k].pc = "created" => Range(stack) \in SUBSET crossed'
    BY <1>8 DEF Withdraws
  <2>2. p \notin crossed \cup leaving /\ status[p] = "suspect"
    BY <2>1
  <2>3. ASSUME NEW l \in 1..Len(tasks), Probes(l, p) PROVE l \in 1..Len(tasks') /\ Probes(l, p)'
    <3>1. l # k
      <4> SUFFICES ASSUME l = k PROVE FALSE
        OBVIOUS
      <4>1. cancels[i].node \in Peers
        BY CancelFields
      <4>2. p \in {cancels[i].node} \cup crossed
        BY <2>1, <2>3, <4>1 DEF TableInv, Probes
      <4>3. Pending(p)
        BY <2>2, <4>2 DEF Pending
      <4> QED
        BY <2>2, <4>3 DEF PendingInv
    <3> QED
      BY <2>1, <2>3, <3>1 DEF Probes
  <2>4. CASE tasks[k].pc = "created"
    <3>1. \A j \in 1..Len(stack) : stack[j] # p
      <4>1. \A j \in 1..Len(stack) : stack[j] \in Range(stack)
        BY <1>0 DEF Range
      <4> QED
        BY <2>1, <2>4, <4>1
    <3> QED
      BY <1>2, <2>2, <2>3, <3>1
  <2>5. CASE tasks[k].pc # "created"
    <3>1. Starting' = Starting
      <4>1. tasks'[k].pc # "created"
        BY <1>8, <2>5 DEF Withdraws
      <4> QED
        BY <2>1, <2>5, <4>1 DEF Starting, Runs
    <3> QED
      BY <1>3, <2>1, <2>2, <2>3, <3>1
  <2> QED
    BY <2>4, <2>5
<1>9. ASSUME NEW i \in 1..Len(cancels), Forgets(i) PROVE Awaits(p)' \/ \E l \in 1..Len(tasks') : Probes(l, p)'
  <2>1. UNCHANGED <<status, leaving, stack, tasks, crossed>>
    BY <1>9 DEF Forgets
  <2>2. Starting' = Starting
    BY <2>1 DEF Starting, Runs
  <2> QED
    BY <1>3, <2>1, <2>2 DEF Probes
<1> QED
  BY <1>4, <1>5, <1>6, <1>7, <1>8, <1>9 DEF MonitorStep

\* The invariant holds when the monitor starts.
LEMMA MonitorInvInit == MonitorInit => MonitorInv
<1> SUFFICES ASSUME MonitorInit PROVE MonitorInv
  OBVIOUS
<1>1. /\ status = [p \in Peers |-> IF p = Bootstrap THEN "healthy" ELSE "none"]
      /\ failing = {} /\ leaving = {} /\ stack = <<>> /\ tasks = <<>> /\ cancels = <<>>
      /\ table = [p \in Peers |-> 0] /\ since = [p \in Peers |-> 0]
      /\ checkNodes = CheckNodes /\ crossed = {} /\ overwritten = {}
  BY DEF MonitorInit
<1>2. MonitorTypes
  <2>1. status \in [Peers -> Statuses]
    BY <1>1 DEF Statuses
  <2>2. Len(tasks) = 0 /\ Len(cancels) = 0 /\ tasks \in Seq(SuspicionTask) /\ cancels \in Seq(Cancellation) /\ stack \in Seq(Peers)
    BY <1>1
  <2>3. checkNodes \in 0..CheckNodes
    BY <1>1, PeersFinite
  <2> QED
    BY <1>1, <2>1, <2>2, <2>3 DEF MonitorTypes
<1>3. Len(tasks) = 0 /\ Len(cancels) = 0
  BY <1>1
<1>4. TableInv /\ PendingInv /\ FreshInv /\ WaitInv
  BY <1>3 DEF TableInv, PendingInv, FreshInv, WaitInv, Pending
<1>5. SuspectProbed
  <2>1. \A p \in Peers : status[p] # "suspect"
    BY <1>1
  <2> QED
    BY <2>1 DEF SuspectProbed
<1> QED
  BY <1>2, <1>4, <1>5 DEF MonitorInv

\* Every step keeps it.
LEMMA MonitorInvStep == MonitorInv /\ [MonitorNext]_monitorVars => MonitorInv'
<1> SUFFICES ASSUME MonitorInv, [MonitorNext]_monitorVars PROVE MonitorInv'
  OBVIOUS
<1>1. CASE MonitorNext
  <2>1. MonitorStep
    BY <1>1, StepForms DEF MonitorInv
  <2>2. MonitorTypes'
    BY <2>1, MonitorTypesStep DEF MonitorInv
  <2> QED
    BY <2>1, <2>2, TableStep, PendingStep, WaitStep, FreshStep, ProbedStep DEF MonitorInv
<1>2. CASE UNCHANGED monitorVars
  <2>1. UNCHANGED <<status, failing, leaving, tasks, stack, checkNodes, table, cancels, since, crossed, overwritten>>
    BY <1>2 DEF monitorVars, waitVars, taskVars, historyVars
  <2>2. MonitorTypes' /\ TableInv' /\ PendingInv'
    BY <2>1 DEF MonitorInv, MonitorTypes, TableInv, PendingInv, Pending
  <2>4. FreshInv' /\ WaitInv'
    <3>1. \A k : Live(k)' = Live(k)
      BY <2>1 DEF Live, Finished
    <3>2. FreshInv'
      BY <2>1, <3>1 DEF MonitorInv, FreshInv, Pending
    <3>3. WaitInv'
      BY <2>1, <3>1 DEF MonitorInv, WaitInv, Waiting
    <3> QED
      BY <3>2, <3>3
  <2>3. SuspectProbed'
    BY <2>1 DEF MonitorInv, SuspectProbed, Awaits, About, Unfinished, Finished, Runs
  <2> QED
    BY <2>2, <2>3, <2>4 DEF MonitorInv
<1> QED
  BY <1>1, <1>2

\* It holds in every reachable state.
LEMMA MonitorInvHolds == MonitorSpec => []MonitorInv
BY MonitorInvInit, MonitorInvStep, PTL DEF MonitorSpec

-----------------------------------------------------------------------------
(* Theorems *)

\* The variables of the monitor keep their types; a suspect is never asked
\* about itself, and no more members are asked than configured.
THEOREM MonitorTypeCorrect == MonitorSpec => []MonitorTypeOK
<1>1. MonitorInv => MonitorTypeOK
  <2> SUFFICES ASSUME MonitorTypes PROVE MonitorTypeOK
    BY DEF MonitorInv
  <2>1. DOMAIN tasks = 1..Len(tasks) /\ DOMAIN stack = 1..Len(stack) /\ stack \in Seq(Peers) /\ tasks \in Seq(SuspicionTask)
    BY DEF MonitorTypes
  <2>2. \A k \in 1..Len(tasks) : tasks[k] \in SuspicionTask
    BY <2>1
  <2>3. \A k \in DOMAIN tasks :
        /\ tasks[k].pc \in {"created", "probing", "healed", "sleeping", "woken", "done", "cancelled"}
        /\ tasks[k].rounds \in 0..MaxRounds
        /\ Cardinality(tasks[k].members) <= CheckNodes
        /\ tasks[k].members \subseteq Peers \ {tasks[k].about}
    BY <2>1, <2>2 DEF SuspicionTask, PCs
  <2>4. \A i \in DOMAIN stack : stack[i] \in Peers
    BY <2>1
  <2> QED
    BY <2>3, <2>4 DEF MonitorTypeOK, MonitorTypes
<1> QED
  BY <1>1, MonitorInvHolds, PTL

\* A suspect that met none of the races is being probed, or will be by a task
\* that was created: no order of requests, answers and cancellations leaves it
\* suspect with nobody to decide.
THEOREM SuspectsProbed == MonitorSpec => []SuspectProbed
<1>1. MonitorInv => SuspectProbed
  BY DEF MonitorInv
<1> QED
  BY <1>1, MonitorInvHolds, PTL

\* A node is declared failed only by the probe that its latest suspicion
\* started.
THEOREM VerdictsFresh == MonitorSpec => FreshVerdict
<1> DEFINE Fresh == \A p \in Peers \ (crossed \cup overwritten) : status[p] = "suspect" /\ status'[p] = "failed" =>
                p \in crossed' \/ tasks'[since[p]].pc = "done"
<1>1. MonitorInv /\ [MonitorNext]_monitorVars => [Fresh]_monitorVars
  <2> SUFFICES ASSUME MonitorInv, MonitorNext, NEW p \in Peers \ (crossed \cup overwritten), status[p] = "suspect",
                      status'[p] = "failed", p \notin crossed'
               PROVE  tasks'[since[p]].pc = "done"
    OBVIOUS
  <2>0. MonitorTypes /\ FreshInv /\ MonitorStep
    BY StepForms DEF MonitorInv
  <2>1. ~Handles
    BY DEF Handles
  <2>2. ASSUME NEW q \in Peers, Suspected(q) PROVE FALSE
    <3>1. status'[q] = "suspect" /\ (p # q => status'[p] = status[p])
      BY <2>0, <2>2, SuspectFacts
    <3> QED
      BY <3>1
  <2>3. ASSUME NEW k \in 1..Len(tasks), NEW u, Goes(k, u) PROVE tasks'[since[p]].pc = "done"
    <3>1. u.about = p /\ tasks[k].about = p /\ u.pc = "done" /\ ~tasks[k].cancelling /\ ~Finished(k) /\ Becomes(k, u)
      BY <2>3 DEF Goes
    <3>2. since[p] = k
      BY <2>0, <3>1 DEF FreshInv, Live
    <3>3. tasks'[k] = u
      BY <2>0, <3>1, BecomesFacts
    <3> QED
      BY <3>1, <3>2, <3>3
  <2>4. status' = status => FALSE
    OBVIOUS
  <2> QED
    BY <2>0, <2>1, <2>2, <2>3, <2>4 DEF MonitorStep, Starts, Withdraws, Forgets
<1> QED
  BY <1>1, MonitorInvHolds, PTL DEF MonitorSpec, FreshVerdict
=============================================================================
