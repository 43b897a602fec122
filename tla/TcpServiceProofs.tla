-------------------------- MODULE TcpServiceProofs --------------------------
(***************************************************************************)
(* Theorems about the two parts of a service reached over TCP: how         *)
(* responses meet requests (TcpConnection), for any events, any number of  *)
(* requests and permits and any number of faults; and the circuit breaker  *)
(* before its handlers (CircuitBreaker), for any failure_window, any       *)
(* threshold and any number of handlers and requests.                      *)
(***************************************************************************)
EXTENDS TcpConnection, CircuitBreaker, FiniteSetTheorems, SequenceTheorems, TLAPS

-----------------------------------------------------------------------------
(* TcpConnection *)

PCs == {"idle", "connecting", "waiting", "answered", "failed"}

\* The types.
Types ==
    /\ sent \in 0..Requests /\ transport \in 0..Requests
    /\ pc \in [Ids -> PCs]
    /\ event \in [Ids -> Events] /\ streams \subseteq Ids
    /\ answer \in [Ids -> 0..Requests]
    /\ waiters \in [Events -> Seq(Ids)]
    /\ lastCall \in Seq(Events)
    /\ closing \subseteq Ids /\ via \in [Ids -> 0..Requests]
    /\ inFlight \subseteq Ids /\ broken \subseteq inFlight /\ alone \subseteq Ids
    /\ lost \in [Events -> Nat] /\ stolen \in [Events -> Nat]

\* A request is idle before its turn, and in flight only once it is written.
CallInv ==
    /\ \A r \in Ids : r > sent => pc[r] = "idle"
    /\ \A r \in inFlight : pc[r] \notin {"idle", "connecting"}

\* The deque of an event holds waiters of requests of that event.
EventInv ==
    \A e \in Events : \A i \in 1..Len(waiters[e]) :
        event[waiters[e][i]] = e /\ pc[waiters[e][i]] # "idle"

\* An answer is the response to a request of the same event.
AnswerInv == \A r \in Ids : pc[r] = "answered" => answer[r] \in Ids /\ event[answer[r]] = event[r]

Busy == {r \in Ids : pc[r] \in {"connecting", "waiting"}}

\* A permit is held from the call to its end.
PermitsInv == permits = MaxConcurrency - Cardinality(Busy)

\* A request that met no other of its event is the only one in flight, and the
\* newest waiter is its own as long as it waits.
AloneInv ==
    \A r \in alone \cap inFlight :
        /\ Of(event[r]) = {r}
        /\ pc[r] = "waiting" => waiters[event[r]] # <<>> /\ Last(waiters[event[r]]) = r

\* One request changes its state, as an operator that is expanded where needed.
Moves(r, p) == pc' = [pc EXCEPT ![r] = p]

-----------------------------------------------------------------------------
\* The last element of a sequence and the others.
LEMMA FrontLast ==
    ASSUME NEW S, NEW s \in Seq(S), s # <<>>
    PROVE  /\ Len(s) \in Nat /\ Len(s) > 0
           /\ Last(s) = s[Len(s)] /\ Last(s) \in S
           /\ Front(s) \in Seq(S) /\ Len(Front(s)) = Len(s) - 1
           /\ \A i \in 1..(Len(s) - 1) : Front(s)[i] = s[i]
<1> DEFINE n == Len(s) - 1
<1>1. Len(s) \in Nat /\ Len(s) > 0 /\ n \in Nat /\ Len(s) = n + 1
  BY EmptySeq
<1>2. \A k \in 1..Len(s) : s[k] \in S
  BY ElementOfSeq
<1>3. Len(s) \in 1..Len(s)
  BY <1>1
<1>4. Last(s) = s[Len(s)] /\ Last(s) \in S
  BY <1>2, <1>3 DEF Last
<1> HIDE DEF n
<1>5. /\ SubSeq(s, 1, n) \in Seq(S) /\ Len(SubSeq(s, 1, n)) = n
      /\ \A i \in 1..n : SubSeq(s, 1, n)[i] = s[i]
  <2>1. \A k \in 1..n : s[k] \in S
    BY <1>1, <1>2
  <2> QED
    BY <1>1, <2>1, SubSeqProperties
<1>6. Front(s) = SubSeq(s, 1, n)
  BY DEF Front, n
<1>7. /\ Front(s) \in Seq(S) /\ Len(Front(s)) = n
      /\ \A i \in 1..n : Front(s)[i] = s[i]
  BY <1>5, <1>6
<1> QED
  BY <1>1, <1>4, <1>7

\* Numbers of requests are finite sets.
LEMMA IdsFinite == IsFiniteSet(Ids) /\ \A S \in SUBSET Ids : IsFiniteSet(S) /\ Cardinality(S) \in Nat
<1>1. IsFiniteSet(Ids)
  BY TcpAssumption, FS_Interval DEF Ids
<1>2. \A S \in SUBSET Ids : IsFiniteSet(S)
  BY <1>1, FS_Subset
<1> QED
  BY <1>1, <1>2, FS_CardinalityType

\* What a response, or something that takes a waiter, does to the deque of its
\* event and to the request at its end.
PopEffect(e, s) ==
    \/ waiters[e] = <<>> /\ UNCHANGED <<waiters, pc, answer, permits>>
    \/ /\ waiters[e] # <<>>
       /\ waiters' = [waiters EXCEPT ![e] = Front(@)]
       /\ Last(waiters[e]) \in Ids
       /\ \/ pc[Last(waiters[e])] # "waiting" /\ UNCHANGED <<pc, answer, permits>>
          \/ /\ pc[Last(waiters[e])] = "waiting"
             /\ permits' = permits + 1
             /\ \/ /\ Moves(Last(waiters[e]), "answered") /\ s # 0 /\ Last(waiters[e]) \notin streams
                   /\ answer' = [answer EXCEPT ![Last(waiters[e])] = s]
                \/ /\ Moves(Last(waiters[e]), "failed") /\ (s = 0 \/ Last(waiters[e]) \in streams)
                   /\ answer' = answer

\* Pop has that effect.
LEMMA PopCases ==
    ASSUME Types, NEW e \in Events, NEW s, Pop(e, s)
    PROVE  PopEffect(e, s)
<1>1. waiters[e] # <<>> => Last(waiters[e]) \in Ids
  <2>1. waiters[e] \in Seq(Ids)
    BY DEF Types
  <2> QED
    BY <2>1, FrontLast
<1> QED
  BY <1>1 DEF Pop, Resolve, Fails, PopEffect, Moves

\* What cannot be decoded leaves everything alone or takes a waiter.
LEMMA UndecodableCases ==
    ASSUME Types, ReadUndecodable
    PROVE  /\ lastCall' \in Seq(Events)
           /\ \/ UNCHANGED <<waiters, pc, answer, permits, stolen>>
              \/ \E e \in Events : PopEffect(e, 0) /\ Steal(e)
<1>1. CASE lastCall = <<>>
  BY <1>1 DEF ReadUndecodable, Types
<1>2. CASE lastCall # <<>>
  <2>1. Last(lastCall) \in Events /\ Front(lastCall) \in Seq(Events)
    BY <1>2, FrontLast DEF Types
  <2>2. lastCall' = Front(lastCall) /\ Pop(Last(lastCall), 0) /\ Steal(Last(lastCall))
    BY <1>2 DEF ReadUndecodable
  <2> QED
    BY <2>1, <2>2, PopCases
<1> QED
  BY <1>1, <1>2

(* What steps have in common, whatever they are *)

\* A request is written: a call whose turn it is, or one that has connected.
Written ==
    /\ \E r \in Ids, t \in 0..Requests :
         /\ Write(r, t)
         /\ \/ r = sent + 1 /\ sent' = r /\ permits' = permits - 1
            \/ pc[r] = "connecting" /\ sent' = sent /\ permits' = permits
    /\ UNCHANGED <<answer, closing, broken, stolen>>

\* A request begins to connect or fails; nothing is written or read.
Moved ==
    /\ \E r \in Ids :
         \/ r = sent + 1 /\ sent' = r /\ Moves(r, "connecting") /\ permits' = permits - 1
         \/ r = sent + 1 /\ sent' = r /\ Moves(r, "failed") /\ permits' = permits
         \/ /\ pc[r] \in {"connecting", "waiting"} /\ sent' = sent
            /\ Moves(r, "failed") /\ permits' = permits + 1
    /\ UNCHANGED <<answer, waiters, inFlight, broken, lost, stolen, alone>>

\* A response is read.
Responded ==
    /\ \E s \in Ids : s \in inFlight /\ inFlight' = inFlight \ {s} /\ PopEffect(event[s], s)
    /\ UNCHANGED <<sent, alone, broken, lost, stolen>>

\* What becomes of the responses in flight when one may be lost.
MayLose ==
    \/ UNCHANGED <<inFlight, lost>>
    \/ \E s \in inFlight : inFlight' = inFlight \ {s} /\ lost' = [lost EXCEPT ![event[s]] = @ + 1]

\* Something else takes a waiter.
Taken ==
    /\ \E e \in Events : PopEffect(e, 0) /\ Steal(e)
    /\ UNCHANGED <<sent, alone>>
    /\ MayLose

\* The requests do not change; responses may be lost with their connection.
Quiet ==
    /\ UNCHANGED <<sent, alone, waiters, pc, answer, permits, stolen>>
    /\ \/ MayLose
       \/ \E t \in Ids :
            /\ inFlight' = {r \in inFlight : via[r] # t}
            /\ lost' = [e \in Events |->
                          lost[e] + Cardinality({r \in inFlight : via[r] = t /\ event[r] = e})]

\* Every step is of one of these kinds.
LEMMA StepKinds ==
    ASSUME Types, [Next]_vars
    PROVE  UNCHANGED <<event, streams>> /\ (Written \/ Moved \/ Responded \/ Taken \/ Quiet)
<1> USE DEF callVars, faultVars
<1>1. ASSUME NEW r \in Ids, Send(r) \/ Connected(r)
      PROVE  /\ \E t \in 0..Requests : Write(r, t)
             /\ \/ r = sent + 1 /\ sent' = r /\ permits' = permits - 1
                \/ pc[r] = "connecting" /\ sent' = sent /\ permits' = permits
             /\ UNCHANGED <<event, streams, answer, closing, broken, stolen>>
  <2>1. r \in 0..Requests /\ transport \in 0..Requests
    BY DEF Ids, Types
  <2>2. \E t \in 0..Requests : Write(r, t)
    BY <1>1, <2>1 DEF Send, Connected
  <2> QED
    BY <1>1, <2>2 DEF Send, Connected, Call
<1>2. ASSUME NEW r \in Ids, SendConnects(r) \/ SendFails(r) \/ ConnectFails(r) \/ Timeout(r)
      PROVE  /\ \/ r = sent + 1 /\ sent' = r /\ Moves(r, "connecting") /\ permits' = permits - 1
                \/ r = sent + 1 /\ sent' = r /\ Moves(r, "failed") /\ permits' = permits
                \/ pc[r] \in {"connecting", "waiting"} /\ sent' = sent /\ Moves(r, "failed") /\ permits' = permits + 1
             /\ UNCHANGED <<event, streams, answer, waiters, inFlight, broken, lost, stolen, alone>>
  BY <1>2 DEF SendConnects, SendFails, ConnectFails, Timeout, Fails, Call, Moves
<1>3. ASSUME NEW s \in Ids, ReadResponse(s)
      PROVE  /\ s \in inFlight /\ inFlight' = inFlight \ {s} /\ PopEffect(event[s], s)
             /\ UNCHANGED <<event, streams, sent, alone, broken, lost, stolen>>
  <2>1. event[s] \in Events
    BY DEF Types
  <2> QED
    BY <1>3, <2>1, PopCases DEF ReadResponse
<1>4. ASSUME \/ ReadPartOfRequest
             \/ \E e \in Events : ReadStream(e)
             \/ \E s \in Ids : ReadPart(s) \/ ReadRest(s)
      PROVE  /\ \/ UNCHANGED <<waiters, pc, answer, permits, stolen>>
                \/ \E e \in Events : PopEffect(e, 0) /\ Steal(e)
             /\ UNCHANGED <<event, streams, sent, alone>>
             /\ MayLose
  <2>1. \/ UNCHANGED <<waiters, pc, answer, permits, stolen>>
        \/ \E e \in Events : PopEffect(e, 0) /\ Steal(e)
    <3>1. CASE \E e \in Events : ReadStream(e)
      BY <3>1, PopCases DEF ReadStream
    <3>2. CASE ReadUndecodable
      BY <3>2, UndecodableCases
    <3> QED
      BY <1>4, <3>1, <3>2 DEF ReadPartOfRequest, ReadPart, ReadRest
  <2>2. MayLose
    <3>1. broken \subseteq inFlight
      BY DEF Types
    <3> QED
      BY <1>4, <3>1 DEF ReadPartOfRequest, ReadStream, ReadPart, ReadRest, MayLose
  <2> QED
    BY <1>4, <2>1, <2>2 DEF ReadPartOfRequest, ReadStream, ReadPart, ReadRest
<1>5. ASSUME NEW s \in Ids, Lose(s)
      PROVE  /\ UNCHANGED <<event, streams, sent, alone, waiters, pc, answer, permits, stolen>>
             /\ MayLose
  BY <1>5 DEF Lose, MayLose
<1>6. ASSUME NEW t \in Ids, ConnectionLost(t)
      PROVE  /\ UNCHANGED <<event, streams, sent, alone, waiters, pc, answer, permits, stolen>>
             /\ inFlight' = {r \in inFlight : via[r] # t}
             /\ lost' = [e \in Events |-> lost[e] + Cardinality({r \in inFlight : via[r] = t /\ event[r] = e})]
  BY <1>6 DEF ConnectionLost
<1>7. ASSUME UNCHANGED vars
      PROVE  UNCHANGED <<event, streams, sent, alone, waiters, pc, answer, permits, stolen, inFlight, lost>>
  BY <1>7 DEF vars
<1>8. CASE \E r \in Ids : Send(r) \/ Connected(r)
  BY <1>1, <1>8, Zenon DEF Written
<1>9. CASE \E r \in Ids : SendConnects(r) \/ SendFails(r) \/ ConnectFails(r) \/ Timeout(r)
  BY <1>2, <1>9, Zenon DEF Moved
<1>10. CASE \E s \in Ids : ReadResponse(s)
  BY <1>3, <1>10, Zenon DEF Responded
<1>11. CASE \/ ReadPartOfRequest
            \/ \E e \in Events : ReadStream(e)
            \/ \E s \in Ids : ReadPart(s) \/ ReadRest(s)
  BY <1>4, <1>11, Zenon DEF Taken, Quiet
<1>12. CASE \E s \in Ids : Lose(s) \/ ConnectionLost(s)
  BY <1>5, <1>6, <1>12, Zenon DEF Quiet
<1>13. CASE UNCHANGED vars
  BY <1>7, <1>13, Zenon DEF Quiet, MayLose
<1> QED
  BY <1>8, <1>9, <1>10, <1>11, <1>12, <1>13, Zenon DEF Next

\* A request that moves is another one's neighbour: the others stay.
LEMMA MoveFacts ==
    ASSUME pc \in [Ids -> PCs], NEW r \in Ids, NEW p \in PCs, Moves(r, p)
    PROVE  pc' \in [Ids -> PCs] /\ pc'[r] = p /\ \A q \in Ids : q # r => pc'[q] = pc[q]
  BY DEF Moves

\* Taking a waiter keeps the types and moves at most one request, from waiting.
LEMMA PopTypes ==
    ASSUME Types, NEW e \in Events, NEW s \in 0..Requests, PopEffect(e, s)
    PROVE  /\ waiters' \in [Events -> Seq(Ids)] /\ pc' \in [Ids -> PCs] /\ answer' \in [Ids -> 0..Requests]
           /\ \A q \in Ids : pc'[q] = pc[q] \/ (pc[q] = "waiting" /\ pc'[q] \in {"answered", "failed"})
<1>1. waiters' \in [Events -> Seq(Ids)]
  <2>1. waiters[e] # <<>> => Front(waiters[e]) \in Seq(Ids)
    <3>1. waiters[e] \in Seq(Ids)
      BY DEF Types
    <3> QED
      BY <3>1, FrontLast
  <2>2. waiters' = waiters \/ (waiters[e] # <<>> /\ waiters' = [waiters EXCEPT ![e] = Front(waiters[e])])
    BY DEF PopEffect
  <2> QED
    BY <2>1, <2>2 DEF Types
<1>2. /\ pc' \in [Ids -> PCs]
      /\ \A q \in Ids : pc'[q] = pc[q] \/ (pc[q] = "waiting" /\ pc'[q] \in {"answered", "failed"})
  <2>1. CASE pc' = pc
    BY <2>1 DEF Types
  <2>2. ASSUME NEW r \in Ids, pc[r] = "waiting", Moves(r, "answered") \/ Moves(r, "failed")
        PROVE  /\ pc' \in [Ids -> PCs]
               /\ \A q \in Ids : pc'[q] = pc[q] \/ (pc[q] = "waiting" /\ pc'[q] \in {"answered", "failed"})
    BY <2>2 DEF Moves, Types, PCs
  <2> QED
    BY <2>1, <2>2 DEF PopEffect
<1>3. answer' \in [Ids -> 0..Requests]
  BY DEF PopEffect, Types
<1> QED
  BY <1>1, <1>2, <1>3

\* A request that is written keeps the types.
LEMMA WriteTypes ==
    ASSUME Types, NEW r \in Ids, NEW t \in 0..Requests, Write(r, t)
    PROVE  /\ via' \in [Ids -> 0..Requests] /\ inFlight' \subseteq Ids /\ inFlight \subseteq inFlight'
           /\ lost' \in [Events -> Nat] /\ waiters' \in [Events -> Seq(Ids)] /\ Moves(r, "waiting")
           /\ alone' \subseteq Ids
<1>1. waiters' \in [Events -> Seq(Ids)]
  <2>1. event[r] \in Events
    BY DEF Types
  <2>2. Append(waiters[event[r]], r) \in Seq(Ids)
    BY <2>1 DEF Types
  <2> QED
    BY <2>1, <2>2 DEF Write, Types
<1>2. lost' \in [Events -> Nat]
  <2>1. \A e \in Events, n \in [Events -> Nat] : [n EXCEPT ![e] = n[e] + 1] \in [Events -> Nat]
    OBVIOUS
  <2>2. lost' = lost \/ lost' = [lost EXCEPT ![event[r]] = lost[event[r]] + 1]
    BY DEF Write
  <2>3. event[r] \in Events /\ lost \in [Events -> Nat]
    BY DEF Types
  <2> QED
    BY <2>1, <2>2, <2>3
<1>3. via' \in [Ids -> 0..Requests] /\ inFlight' \subseteq Ids /\ inFlight \subseteq inFlight' /\ Moves(r, "waiting")
  BY DEF Write, Types, Moves
<1>4. alone' \subseteq Ids
  BY DEF Write, Types
<1> QED
  BY <1>1, <1>2, <1>3, <1>4

\* Every step keeps the types.
LEMMA TypesStep ==
    ASSUME Types, [Next]_vars
    PROVE  Types'
<1> USE DEF callVars, faultVars
<1>0. /\ 0 \in 0..Requests /\ \A r \in Ids : r \in 0..Requests /\ {"connecting", "failed", "waiting"} \subseteq PCs
      /\ \A e \in Events, n \in [Events -> Nat] : [n EXCEPT ![e] = @ + 1] \in [Events -> Nat]
  BY TcpAssumption DEF Ids, PCs
<1>1. ASSUME NEW r \in Ids, Call(r)
      PROVE  /\ sent' \in 0..Requests /\ lastCall' \in Seq(Events)
             /\ UNCHANGED <<event, streams, answer, transport, closing, broken, stolen>>
  <2>1. event[r] \in Events
    BY DEF Types
  <2> QED
    BY <1>0, <1>1, <2>1 DEF Call, Types
<1>2. ASSUME NEW r \in Ids, Send(r)
      PROVE  Types'
  <2>1. Call(r) /\ Write(r, transport) /\ transport \in 0..Requests
    BY <1>2 DEF Send, Types
  <2>2. pc' \in [Ids -> PCs]
    BY <1>0, <2>1, WriteTypes, MoveFacts DEF Types
  <2> QED
    BY <1>1, <2>1, <2>2, WriteTypes DEF Types
<1>3. ASSUME NEW r \in Ids, SendConnects(r) \/ SendFails(r)
      PROVE  Types'
  <2>1. Call(r) /\ (Moves(r, "connecting") \/ Moves(r, "failed"))
        /\ UNCHANGED <<via, alone, waiters, inFlight, lost>>
    BY <1>3 DEF SendConnects, SendFails, Fails, Moves
  <2>2. pc' \in [Ids -> PCs]
    BY <1>0, <2>1, MoveFacts DEF Types
  <2> QED
    BY <1>1, <2>1, <2>2 DEF Types
<1>4. ASSUME NEW r \in Ids, Connected(r)
      PROVE  Types'
  <2>1. Write(r, r) /\ r \in 0..Requests /\ transport' = r
        /\ UNCHANGED <<sent, event, streams, answer, lastCall, closing, broken, stolen>>
    BY <1>0, <1>4 DEF Connected
  <2>2. pc' \in [Ids -> PCs]
    BY <1>0, <2>1, WriteTypes, MoveFacts DEF Types
  <2> QED
    BY <2>1, <2>2, WriteTypes DEF Types
<1>5. ASSUME NEW r \in Ids, ConnectFails(r) \/ Timeout(r)
      PROVE  Types'
  <2>1. Moves(r, "failed")
        /\ UNCHANGED <<callVars, answer, waiters, lastCall, transport, closing, inFlight, broken, faultVars>>
    BY <1>5 DEF ConnectFails, Timeout, Fails, Moves
  <2>2. pc' \in [Ids -> PCs]
    BY <1>0, <2>1, MoveFacts DEF Types
  <2> QED
    BY <2>1, <2>2 DEF Types
<1>6. ASSUME NEW s \in Ids, ReadResponse(s)
      PROVE  Types'
  <2>1. event[s] \in Events /\ s \in 0..Requests
    BY <1>0 DEF Types
  <2>2. PopEffect(event[s], s)
    BY <1>6, <2>1, PopCases DEF ReadResponse
  <2>3. waiters' \in [Events -> Seq(Ids)] /\ pc' \in [Ids -> PCs] /\ answer' \in [Ids -> 0..Requests]
    BY <2>1, <2>2, PopTypes
  <2>4. inFlight' \subseteq Ids /\ broken' \subseteq inFlight'
    BY <1>6 DEF ReadResponse, Types
  <2> QED
    BY <1>6, <2>3, <2>4 DEF ReadResponse, Types
<1>7. ASSUME \/ ReadUndecodable
             \/ (lastCall' = lastCall /\ \E e \in Events : Pop(e, 0) /\ Steal(e))
      PROVE  /\ waiters' \in [Events -> Seq(Ids)] /\ pc' \in [Ids -> PCs] /\ answer' \in [Ids -> 0..Requests]
             /\ lastCall' \in Seq(Events) /\ stolen' \in [Events -> Nat]
  <2>1. /\ \/ UNCHANGED <<waiters, pc, answer, permits, stolen>>
           \/ \E e \in Events : PopEffect(e, 0) /\ Steal(e)
        /\ lastCall' \in Seq(Events)
    BY <1>7, UndecodableCases, PopCases DEF Types
  <2>2. CASE UNCHANGED <<waiters, pc, answer, permits, stolen>>
    BY <2>1, <2>2 DEF Types
  <2>3. ASSUME NEW e \in Events, PopEffect(e, 0), Steal(e)
        PROVE  /\ waiters' \in [Events -> Seq(Ids)] /\ pc' \in [Ids -> PCs] /\ answer' \in [Ids -> 0..Requests]
               /\ stolen' \in [Events -> Nat]
    <3>1. stolen' \in [Events -> Nat]
      BY <1>0, <2>3 DEF Steal, Types
    <3> QED
      BY <1>0, <2>3, <3>1, PopTypes
  <2> QED
    BY <2>1, <2>2, <2>3
<1>8. ASSUME NEW s \in Ids, ReadPart(s)
      PROVE  Types'
  BY <1>7, <1>8 DEF ReadPart, Types
<1>9. ASSUME NEW s \in Ids, ReadRest(s)
      PROVE  Types'
  <2>1. lost' \in [Events -> Nat] /\ broken' \subseteq inFlight' /\ inFlight' \subseteq Ids
    BY <1>0, <1>9 DEF ReadRest, Types
  <2> QED
    BY <1>7, <1>9, <2>1 DEF ReadRest, Types
<1>10. ASSUME ReadPartOfRequest \/ \E e \in Events : ReadStream(e)
       PROVE  Types'
  <2>1. \/ ReadUndecodable
        \/ (lastCall' = lastCall /\ \E e \in Events : Pop(e, 0) /\ Steal(e))
    BY <1>10 DEF ReadPartOfRequest, ReadStream
  <2>2. UNCHANGED <<callVars, transport, closing, inFlight, broken, lost>>
    BY <1>10 DEF ReadPartOfRequest, ReadStream
  <2> QED
    BY <1>7, <2>1, <2>2 DEF Types
<1>11. ASSUME NEW s \in Ids, Lose(s)
       PROVE  Types'
  <2>1. lost' \in [Events -> Nat] /\ broken' \subseteq inFlight' /\ inFlight' \subseteq Ids
    BY <1>0, <1>11 DEF Lose, Types
  <2> QED
    BY <1>11, <2>1 DEF Lose, Types
<1>12. ASSUME NEW t \in Ids, ConnectionLost(t)
       PROVE  Types'
  <2>1. ASSUME NEW e \in Events PROVE Cardinality({r \in inFlight : via[r] = t /\ event[r] = e}) \in Nat
    <3>1. {r \in inFlight : via[r] = t /\ event[r] = e} \in SUBSET Ids
      BY DEF Types
    <3> QED
      BY <3>1, IdsFinite
  <2>2. lost' \in [Events -> Nat]
    <3> DEFINE n(e) == Cardinality({r \in inFlight : via[r] = t /\ event[r] = e})
    <3>1. lost' = [e \in Events |-> lost[e] + n(e)]
      BY <1>12 DEF ConnectionLost
    <3>2. \A e \in Events : lost[e] \in Nat /\ n(e) \in Nat
      BY <2>1 DEF Types
    <3> HIDE DEF n
    <3> QED
      BY <3>1, <3>2
  <2>3. broken' \subseteq inFlight' /\ inFlight' \subseteq Ids /\ closing' \subseteq Ids
    BY <1>12 DEF ConnectionLost, Types
  <2> QED
    BY <1>12, <2>2, <2>3 DEF ConnectionLost, Types
<1>13. CASE UNCHANGED vars
  BY <1>13 DEF vars, Types
<1> QED
  BY <1>2, <1>3, <1>4, <1>5, <1>6, <1>8, <1>9, <1>10, <1>11, <1>12, <1>13 DEF Next

\* Every step keeps requests idle before their turn, and in flight only once
\* they are written; none becomes idle again.
LEMMA CallStep ==
    ASSUME Types, CallInv, [Next]_vars
    PROVE  CallInv' /\ \A q \in Ids : pc[q] # "idle" => pc'[q] # "idle"
<1> USE DEF CallInv
<1>0. pc \in [Ids -> PCs] /\ sent \in Nat /\ Ids \subseteq Nat /\ inFlight \subseteq Ids
  BY TcpAssumption DEF Types, Ids
<1>1. CASE Written
  <2>1. PICK r \in Ids, t \in 0..Requests :
           Write(r, t) /\ ((r = sent + 1 /\ sent' = r) \/ (pc[r] = "connecting" /\ sent' = sent))
    BY <1>1 DEF Written
  <2>2. Moves(r, "waiting") /\ inFlight' \subseteq inFlight \cup {r}
    BY <2>1 DEF Write, Moves
  <2>3. pc'[r] = "waiting" /\ \A q \in Ids : q # r => pc'[q] = pc[q]
    BY <1>0, <2>2, MoveFacts DEF PCs
  <2> QED
    BY <1>0, <2>1, <2>2, <2>3
<1>2. CASE Moved
  <2>1. PICK r \in Ids : \/ r = sent + 1 /\ sent' = r /\ (Moves(r, "connecting") \/ Moves(r, "failed"))
                         \/ pc[r] \in {"connecting", "waiting"} /\ sent' = sent /\ Moves(r, "failed")
    BY <1>2 DEF Moved
  <2>2. inFlight' = inFlight
    BY <1>2 DEF Moved
  <2>3. pc'[r] \in {"connecting", "failed"} /\ \A q \in Ids : q # r => pc'[q] = pc[q]
    BY <1>0, <2>1, MoveFacts DEF PCs
  <2>4. r \in inFlight => pc'[r] = "failed"
    BY <1>0, <2>1, MoveFacts DEF PCs
  <2> QED
    BY <1>0, <2>1, <2>2, <2>3, <2>4
<1>3. CASE Responded \/ Taken
  <2>1. /\ sent' = sent /\ inFlight' \subseteq inFlight
        /\ \E e \in Events, s \in 0..Requests : PopEffect(e, s)
    <3>1. \A s \in Ids : event[s] \in Events /\ s \in 0..Requests /\ 0 \in 0..Requests
      BY TcpAssumption DEF Types, Ids
    <3>2. 0 \in 0..Requests
      BY TcpAssumption
    <3> QED
      BY <1>3, <3>1, <3>2 DEF Responded, Taken, MayLose
  <2>2. \A q \in Ids : pc'[q] = pc[q] \/ (pc[q] = "waiting" /\ pc'[q] \in {"answered", "failed"})
    BY <2>1, PopTypes
  <2> QED
    BY <1>0, <2>1, <2>2
<1>4. CASE Quiet
  <2>1. pc' = pc /\ sent' = sent /\ inFlight' \subseteq inFlight
    BY <1>4 DEF Quiet, MayLose
  <2> QED
    BY <2>1
<1> QED
  BY <1>1, <1>2, <1>3, <1>4, StepKinds

\* The deque of a request's event when it is written: its waiter is the newest.
LEMMA WriteDeques ==
    ASSUME Types, NEW r \in Ids, NEW t \in 0..Requests, Write(r, t)
    PROVE  /\ event[r] \in Events
           /\ \A e \in Events : e # event[r] => waiters'[e] = waiters[e]
           /\ Len(waiters'[event[r]]) = Len(waiters[event[r]]) + 1
           /\ \A i \in 1..Len(waiters[event[r]]) : waiters'[event[r]][i] = waiters[event[r]][i]
           /\ waiters'[event[r]] # <<>> /\ Last(waiters'[event[r]]) = r
           /\ waiters'[event[r]][Len(waiters[event[r]]) + 1] = r
<1> DEFINE d == waiters[event[r]]
<1>1. event[r] \in Events /\ d \in Seq(Ids) /\ waiters' = [waiters EXCEPT ![event[r]] = Append(d, r)]
      /\ waiters \in [Events -> Seq(Ids)]
  BY DEF Types, Write
<1>2. waiters'[event[r]] = Append(d, r) /\ \A e \in Events : e # event[r] => waiters'[e] = waiters[e]
  BY <1>1
<1>3. /\ Append(d, r) \in Seq(Ids) /\ Len(Append(d, r)) = Len(d) + 1 /\ Len(d) \in Nat
      /\ \A i \in 1..Len(d) : Append(d, r)[i] = d[i]
      /\ Append(d, r)[Len(d) + 1] = r /\ Append(d, r) # <<>>
  BY <1>1, AppendProperties
<1>4. Last(Append(d, r)) = r
  BY <1>3 DEF Last
<1> QED
  BY <1>1, <1>2, <1>3, <1>4

\* The deques when a waiter is taken: the others are left alone.
LEMMA PopDeques ==
    ASSUME Types, NEW e \in Events, NEW s, PopEffect(e, s)
    PROVE  /\ \A d \in Events : d # e => waiters'[d] = waiters[d]
           /\ waiters[e] = <<>> => waiters'[e] = waiters[e]
           /\ waiters[e] # <<>> =>
                /\ Len(waiters[e]) > 0 /\ Len(waiters'[e]) = Len(waiters[e]) - 1
                /\ \A i \in 1..(Len(waiters[e]) - 1) : waiters'[e][i] = waiters[e][i]
                /\ Last(waiters[e]) = waiters[e][Len(waiters[e])] /\ Len(waiters[e]) \in 1..Len(waiters[e])
<1>1. waiters \in [Events -> Seq(Ids)] /\ waiters[e] \in Seq(Ids)
  BY DEF Types
<1>2. CASE waiters[e] = <<>>
  BY <1>1, <1>2 DEF PopEffect
<1>3. CASE waiters[e] # <<>>
  <2>1. waiters' = [waiters EXCEPT ![e] = Front(waiters[e])]
    BY <1>3 DEF PopEffect
  <2>2. waiters'[e] = Front(waiters[e]) /\ \A d \in Events : d # e => waiters'[d] = waiters[d]
    BY <1>1, <2>1
  <2>3. /\ Len(waiters[e]) \in Nat /\ Len(waiters[e]) > 0
        /\ Last(waiters[e]) = waiters[e][Len(waiters[e])]
        /\ Len(Front(waiters[e])) = Len(waiters[e]) - 1
        /\ \A i \in 1..(Len(waiters[e]) - 1) : Front(waiters[e])[i] = waiters[e][i]
    BY <1>1, <1>3, FrontLast
  <2> QED
    BY <1>3, <2>2, <2>3
<1> QED
  BY <1>2, <1>3

\* The deques hold waiters of their own event.
LEMMA EventStep ==
    ASSUME Types, CallInv, EventInv, [Next]_vars
    PROVE  EventInv'
<1>0. /\ event' = event /\ \A q \in Ids : pc[q] # "idle" => pc'[q] # "idle"
      /\ \A e \in Events : waiters[e] \in Seq(Ids) /\ \A i \in 1..Len(waiters[e]) : waiters[e][i] \in Ids
  BY StepKinds, CallStep, ElementOfSeq DEF Types
<1>1. ASSUME NEW e \in Events, waiters'[e] = waiters[e]
      PROVE  \A i \in 1..Len(waiters'[e]) : event'[waiters'[e][i]] = e /\ pc'[waiters'[e][i]] # "idle"
  BY <1>0, <1>1 DEF EventInv
<1>2. CASE Written
  <2>1. PICK r \in Ids, t \in 0..Requests : Write(r, t)
    BY <1>2 DEF Written
  <2> DEFINE e == event[r]
             n == Len(waiters[e])
  <2>2. pc'[r] = "waiting"
    BY <2>1, WriteTypes, MoveFacts DEF Types, PCs
  <2>3. /\ e \in Events /\ Len(waiters'[e]) = n + 1 /\ n \in Nat
        /\ \A i \in 1..n : waiters'[e][i] = waiters[e][i]
        /\ waiters'[e][n + 1] = r
    BY <1>0, <2>1, WriteDeques
  <2>4. \A d \in Events : d # e => waiters'[d] = waiters[d]
    BY <2>1, WriteDeques
  <2> HIDE DEF n
  <2>5. ASSUME NEW i \in 1..(n + 1)
        PROVE  event'[waiters'[e][i]] = e /\ pc'[waiters'[e][i]] # "idle"
    <3>1. CASE i = n + 1
      BY <1>0, <2>2, <2>3, <3>1
    <3>2. CASE i \in 1..n
      <4>1. waiters'[e][i] = waiters[e][i] /\ i \in 1..Len(waiters[e])
        BY <2>3, <3>2 DEF n
      <4>2. event[waiters[e][i]] = e /\ pc[waiters[e][i]] # "idle" /\ waiters[e][i] \in Ids
        BY <1>0, <2>3, <4>1 DEF EventInv
      <4> QED
        BY <1>0, <4>1, <4>2
    <3> QED
      BY <2>3, <3>1, <3>2
  <2> QED
    BY <1>1, <2>3, <2>4, <2>5 DEF EventInv
<1>3. CASE Responded \/ Taken
  <2>1. PICK e \in Events : \E s : PopEffect(e, s)
    BY <1>3 DEF Responded, Taken, Types
  <2>2. \A d \in Events : d # e => waiters'[d] = waiters[d]
    BY <2>1, PopDeques
  <2>3. CASE waiters[e] = <<>>
    <3>1. waiters'[e] = waiters[e]
      BY <2>1, <2>3, PopDeques
    <3> QED
      BY <1>1, <2>2, <3>1 DEF EventInv
  <2>4. CASE waiters[e] # <<>>
    <3> DEFINE n == Len(waiters[e])
    <3>1. n \in Nat /\ n > 0 /\ Len(waiters'[e]) = n - 1 /\ \A i \in 1..(n - 1) : waiters'[e][i] = waiters[e][i]
      BY <1>0, <2>1, <2>4, PopDeques
    <3>2. ASSUME NEW i \in 1..(n - 1)
          PROVE  event'[waiters'[e][i]] = e /\ pc'[waiters'[e][i]] # "idle"
      <4>1. i \in 1..Len(waiters[e])
        BY <3>1
      <4> QED
        BY <1>0, <3>1, <4>1 DEF EventInv
    <3> QED
      BY <1>1, <2>2, <3>1, <3>2 DEF EventInv
  <2> QED
    BY <2>3, <2>4
<1>4. CASE Moved \/ Quiet
  <2>1. waiters' = waiters
    BY <1>4 DEF Moved, Quiet
  <2> QED
    BY <1>1, <2>1 DEF EventInv
<1> QED
  BY <1>2, <1>3, <1>4, StepKinds

\* The newest waiter of an event belongs to a request of that event.
LEMMA NewestWaiter ==
    ASSUME Types, EventInv, NEW e \in Events, waiters[e] # <<>>
    PROVE  Last(waiters[e]) \in Ids /\ event[Last(waiters[e])] = e
<1>1. waiters[e] \in Seq(Ids)
  BY DEF Types
<1>2. /\ Len(waiters[e]) \in Nat /\ Len(waiters[e]) > 0
      /\ Last(waiters[e]) = waiters[e][Len(waiters[e])] /\ Last(waiters[e]) \in Ids
  BY <1>1, FrontLast
<1>3. Len(waiters[e]) \in 1..Len(waiters[e])
  BY <1>2
<1> QED
  BY <1>2, <1>3 DEF EventInv

\* An answer is of the event of its request: read() looks a response's own
\* event up, and what looks up another one answers nothing.
LEMMA AnswerStep ==
    ASSUME Types, CallInv, EventInv, AnswerInv, [Next]_vars
    PROVE  AnswerInv'
<1>0. event' = event /\ answer \in [Ids -> 0..Requests] /\ pc \in [Ids -> PCs]
  BY StepKinds DEF Types
<1>1. CASE Written \/ Moved
  <2>1. \E r \in Ids, p \in {"waiting", "connecting", "failed"} : Moves(r, p)
    BY <1>1 DEF Written, Moved, Write, Moves
  <2>2. answer' = answer
    BY <1>1 DEF Written, Moved
  <2>3. \A q \in Ids : pc'[q] = "answered" => pc[q] = "answered"
    BY <1>0, <2>1, MoveFacts DEF PCs
  <2> QED
    BY <1>0, <2>2, <2>3 DEF AnswerInv
<1>2. ASSUME NEW e \in Events, NEW s \in 0..Requests, PopEffect(e, s), s # 0 => s \in Ids /\ event[s] = e
      PROVE  AnswerInv'
  <2>1. CASE pc' = pc /\ answer' = answer
    BY <1>0, <2>1 DEF AnswerInv
  <2>2. CASE waiters[e] # <<>> /\ Moves(Last(waiters[e]), "answered") /\ s # 0
             /\ answer' = [answer EXCEPT ![Last(waiters[e])] = s]
    <3> DEFINE r == Last(waiters[e])
    <3>1. r \in Ids /\ event[r] = e
      BY <2>2, NewestWaiter
    <3>2. \A q \in Ids : q # r => pc'[q] = pc[q] /\ answer'[q] = answer[q]
      BY <1>0, <2>2, <3>1, MoveFacts DEF PCs
    <3>3. answer'[r] = s
      BY <1>0, <2>2, <3>1
    <3> QED
      BY <1>0, <1>2, <2>2, <3>1, <3>2, <3>3 DEF AnswerInv
  <2>3. CASE waiters[e] # <<>> /\ Moves(Last(waiters[e]), "failed") /\ answer' = answer
    <3>1. Last(waiters[e]) \in Ids
      BY <2>3, NewestWaiter
    <3>2. \A q \in Ids : pc'[q] = "answered" => pc[q] = "answered"
      BY <1>0, <2>3, <3>1, MoveFacts DEF PCs
    <3> QED
      BY <1>0, <2>3, <3>2 DEF AnswerInv
  <2> QED
    BY <1>2, <2>1, <2>2, <2>3 DEF PopEffect
<1>3. CASE Responded
  <2>1. PICK s \in Ids : PopEffect(event[s], s)
    BY <1>3 DEF Responded
  <2>2. event[s] \in Events /\ s \in 0..Requests
    BY DEF Types, Ids
  <2> QED
    BY <1>2, <2>1, <2>2
<1>4. CASE Taken
  <2>1. 0 \in 0..Requests
    BY TcpAssumption
  <2> QED
    BY <1>2, <1>4, <2>1 DEF Taken
<1>5. CASE Quiet
  BY <1>0, <1>5 DEF Quiet, AnswerInv
<1> QED
  BY <1>1, <1>3, <1>4, <1>5, StepKinds

\* The requests that hold a permit when one of them moves.
LEMMA BusyChange ==
    ASSUME pc \in [Ids -> PCs], NEW r \in Ids, NEW p \in PCs, Moves(r, p)
    PROVE  /\ Cardinality(Busy) \in Nat /\ Cardinality(Busy') \in Nat
           /\ r \in Busy /\ p \in {"connecting", "waiting"} => Cardinality(Busy') = Cardinality(Busy)
           /\ r \notin Busy /\ p \notin {"connecting", "waiting"} => Cardinality(Busy') = Cardinality(Busy)
           /\ r \notin Busy /\ p \in {"connecting", "waiting"} => Cardinality(Busy') = Cardinality(Busy) + 1
           /\ r \in Busy /\ p \notin {"connecting", "waiting"} => Cardinality(Busy') = Cardinality(Busy) - 1
<1>1. pc'[r] = p /\ \A q \in Ids : q # r => pc'[q] = pc[q]
  BY MoveFacts
<1>2. IsFiniteSet(Busy) /\ Cardinality(Busy) \in Nat /\ Cardinality(Busy') \in Nat
  <2>1. Busy \in SUBSET Ids /\ Busy' \in SUBSET Ids
    BY DEF Busy
  <2> QED
    BY <2>1, IdsFinite
<1>3. Busy' = IF p \in {"connecting", "waiting"} THEN Busy \cup {r} ELSE Busy \ {r}
  BY <1>1 DEF Busy
<1>4. /\ Cardinality(Busy \cup {r}) = IF r \in Busy THEN Cardinality(Busy) ELSE Cardinality(Busy) + 1
      /\ Cardinality(Busy \ {r}) = IF r \in Busy THEN Cardinality(Busy) - 1 ELSE Cardinality(Busy)
  BY <1>2, FS_AddElement, FS_RemoveElement
<1> QED
  BY <1>2, <1>3, <1>4

\* Every step keeps the permits accounted for.
LEMMA PermitsStep ==
    ASSUME Types, CallInv, PermitsInv, [Next]_vars
    PROVE  PermitsInv'
<1>0. /\ pc \in [Ids -> PCs] /\ Ids \subseteq Nat /\ sent \in Nat
      /\ MaxConcurrency \in Nat /\ permits = MaxConcurrency - Cardinality(Busy)
      /\ \A p \in {"connecting", "waiting", "answered", "failed"} : p \in PCs
  BY TcpAssumption DEF Types, Ids, PermitsInv, PCs
<1>1. \A r \in Ids : r = sent + 1 => r \notin Busy
  <2>1. \A r \in Ids : r = sent + 1 => r > sent
    BY <1>0
  <2> QED
    BY <2>1 DEF CallInv, Busy
<1>2. Cardinality(Busy) \in Nat
  <2>1. Busy \in SUBSET Ids
    BY DEF Busy
  <2> QED
    BY <2>1, IdsFinite
<1>3. CASE Written
  <2>1. PICK r \in Ids, t \in 0..Requests :
           /\ Write(r, t)
           /\ \/ r = sent + 1 /\ permits' = permits - 1
              \/ pc[r] = "connecting" /\ permits' = permits
    BY <1>3 DEF Written
  <2>2. Moves(r, "waiting")
    BY <2>1 DEF Write, Moves
  <2>3. /\ Cardinality(Busy') \in Nat
        /\ r \in Busy => Cardinality(Busy') = Cardinality(Busy)
        /\ r \notin Busy => Cardinality(Busy') = Cardinality(Busy) + 1
    BY <1>0, <2>2, BusyChange
  <2>4. pc[r] = "connecting" => r \in Busy
    BY DEF Busy
  <2> QED
    BY <1>0, <1>1, <1>2, <2>1, <2>3, <2>4 DEF PermitsInv
<1>4. CASE Moved
  <2>1. PICK r \in Ids :
          \/ r = sent + 1 /\ Moves(r, "connecting") /\ permits' = permits - 1
          \/ r = sent + 1 /\ Moves(r, "failed") /\ permits' = permits
          \/ pc[r] \in {"connecting", "waiting"} /\ Moves(r, "failed") /\ permits' = permits + 1
    BY <1>4 DEF Moved
  <2>2. Moves(r, "connecting") => /\ Cardinality(Busy') \in Nat
                                  /\ r \notin Busy => Cardinality(Busy') = Cardinality(Busy) + 1
    BY <1>0, BusyChange
  <2>3. Moves(r, "failed") => /\ Cardinality(Busy') \in Nat
                              /\ r \notin Busy => Cardinality(Busy') = Cardinality(Busy)
                              /\ r \in Busy => Cardinality(Busy') = Cardinality(Busy) - 1
    BY <1>0, BusyChange
  <2>4. pc[r] \in {"connecting", "waiting"} => r \in Busy
    BY DEF Busy
  <2> QED
    BY <1>0, <1>1, <1>2, <2>1, <2>2, <2>3, <2>4 DEF PermitsInv
<1>5. CASE Responded \/ Taken
  <2>1. PICK e \in Events : \E s : PopEffect(e, s)
    BY <1>5 DEF Responded, Taken, Types
  <2>2. \/ UNCHANGED <<pc, permits>>
        \/ \E r \in Ids : /\ pc[r] = "waiting" /\ permits' = permits + 1
                          /\ Moves(r, "answered") \/ Moves(r, "failed")
    BY <2>1 DEF PopEffect
  <2>3. CASE UNCHANGED <<pc, permits>>
    BY <1>0, <2>3 DEF PermitsInv, Busy
  <2>4. ASSUME NEW r \in Ids, pc[r] = "waiting", permits' = permits + 1, Moves(r, "answered") \/ Moves(r, "failed")
        PROVE  PermitsInv'
    <3>1. r \in Busy
      BY <2>4 DEF Busy
    <3>2. Cardinality(Busy') = Cardinality(Busy) - 1
      BY <1>0, <2>4, <3>1, BusyChange
    <3> QED
      BY <1>0, <1>2, <2>4, <3>2 DEF PermitsInv
  <2> QED
    BY <2>2, <2>3, <2>4
<1>6. CASE Quiet
  BY <1>0, <1>6 DEF Quiet, PermitsInv, Busy
<1> QED
  BY <1>3, <1>4, <1>5, <1>6, StepKinds

\* The requests of an event that are in flight are finitely many.
LEMMA FlightFinite ==
    ASSUME Types, NEW e
    PROVE  IsFiniteSet(Of(e)) /\ Cardinality(Of(e)) \in Nat
<1>1. Of(e) \in SUBSET Ids
  BY DEF Of, Types
<1> QED
  BY <1>1, IdsFinite

\* One response less is in flight.
LEMMA FlightRemoved ==
    ASSUME Types, event' = event, NEW s \in inFlight, inFlight' = inFlight \ {s}, NEW e
    PROVE  /\ event[s] = e => Cardinality(Of(e)') = Cardinality(Of(e)) - 1
           /\ event[s] # e => Cardinality(Of(e)') = Cardinality(Of(e))
<1>1. Of(e)' = Of(e) \ {s}
  BY DEF Of
<1>2. s \in Of(e) <=> event[s] = e
  BY DEF Of
<1>3. Cardinality(Of(e) \ {s}) = IF s \in Of(e) THEN Cardinality(Of(e)) - 1 ELSE Cardinality(Of(e))
  BY FlightFinite, FS_RemoveElement
<1> QED
  BY <1>1, <1>2, <1>3

\* One request more is in flight.
LEMMA FlightAdded ==
    ASSUME Types, event' = event, NEW r \in Ids, r \notin inFlight, inFlight' = inFlight \cup {r}, NEW e
    PROVE  /\ event[r] = e => Cardinality(Of(e)') = Cardinality(Of(e)) + 1
           /\ event[r] # e => Cardinality(Of(e)') = Cardinality(Of(e))
<1>1. event[r] = e => Of(e)' = Of(e) \cup {r} /\ r \notin Of(e)
  BY DEF Of
<1>2. event[r] # e => Of(e)' = Of(e)
  BY DEF Of
<1>3. r \notin Of(e) => Cardinality(Of(e) \cup {r}) = Cardinality(Of(e)) + 1
  BY FlightFinite, FS_AddElement
<1> QED
  BY <1>1, <1>2, <1>3

\* How many responses of an event are in flight and how many were lost, as an
\* operator that is expanded where needed: none appears, and none is forgotten.
LossesCounted(e) ==
    /\ Cardinality(Of(e)') \in Nat /\ lost'[e] \in Nat
    /\ Cardinality(Of(e)') <= Cardinality(Of(e))
    /\ Cardinality(Of(e)') + lost'[e] = Cardinality(Of(e)) + lost[e]

\* A response that may be lost is counted.
LEMMA MayLoseCounted ==
    ASSUME Types, Types', event' = event, MayLose, NEW e \in Events
    PROVE  LossesCounted(e)
<1>1. /\ Cardinality(Of(e)) \in Nat /\ Cardinality(Of(e)') \in Nat
      /\ lost[e] \in Nat /\ lost'[e] \in Nat /\ lost \in [Events -> Nat]
  <2>1. Cardinality(Of(e)') \in Nat
    <3>1. Of(e)' \in SUBSET Ids
      BY DEF Of, Types
    <3> QED
      BY <3>1, IdsFinite
  <2> QED
    BY <2>1, FlightFinite DEF Types
<1>2. CASE UNCHANGED <<inFlight, lost>>
  <2>1. Of(e)' = Of(e) /\ lost'[e] = lost[e]
    BY <1>2 DEF Of
  <2> QED
    BY <1>1, <2>1 DEF LossesCounted
<1>3. ASSUME NEW s \in inFlight, inFlight' = inFlight \ {s}, lost' = [lost EXCEPT ![event[s]] = @ + 1]
      PROVE  LossesCounted(e)
  <2>1. /\ event[s] = e => Cardinality(Of(e)') = Cardinality(Of(e)) - 1
        /\ event[s] # e => Cardinality(Of(e)') = Cardinality(Of(e))
    BY <1>3, FlightRemoved
  <2>2. lost'[e] = IF event[s] = e THEN lost[e] + 1 ELSE lost[e]
    BY <1>1, <1>3
  <2> QED
    BY <1>1, <2>1, <2>2 DEF LossesCounted
<1> QED
  BY <1>2, <1>3 DEF MayLose

\* Responses that are lost with their connection are counted.
LEMMA ConnectionCounted ==
    ASSUME Types, Types', event' = event, NEW t \in Ids, NEW e \in Events,
           inFlight' = {r \in inFlight : via[r] # t},
           lost' = [d \in Events |-> lost[d] + Cardinality({r \in inFlight : via[r] = t /\ event[r] = d})]
    PROVE  LossesCounted(e)
<1> DEFINE G == {r \in inFlight : via[r] = t /\ event[r] = e}
<1>1. /\ IsFiniteSet(Of(e)) /\ Cardinality(Of(e)) \in Nat
      /\ IsFiniteSet(Of(e)') /\ Cardinality(Of(e)') \in Nat
      /\ IsFiniteSet(G) /\ Cardinality(G) \in Nat
  <2>1. Of(e) \in SUBSET Ids /\ Of(e)' \in SUBSET Ids /\ G \in SUBSET Ids
    BY DEF Of, Types
  <2> QED
    BY <2>1, IdsFinite
<1>2. lost'[e] = lost[e] + Cardinality(G) /\ lost[e] \in Nat
  BY DEF Types
<1>3. Of(e) = Of(e)' \cup G /\ Of(e)' \cap G = {}
  BY DEF Of
<1> HIDE DEF G
<1>4. Cardinality(Of(e)) = Cardinality(Of(e)') + Cardinality(G) - Cardinality({})
  BY <1>1, <1>3, FS_Union
<1> QED
  BY <1>1, <1>2, <1>4, FS_EmptySet DEF LossesCounted

\* The account of one event, as an operator that is expanded where needed.
Accounted(e) ==
    /\ Cardinality(Of(e)) <= Len(waiters[e]) + stolen[e]
    /\ Len(waiters[e]) <= Cardinality(Of(e)) + lost[e]

\* Every step keeps waiters and responses accounted for.
LEMMA AccountedStep ==
    ASSUME Types, CallInv, WaitersAccounted, Types', [Next]_vars
    PROVE  WaitersAccounted'
<1>0. event' = event
  BY StepKinds
<1> SUFFICES ASSUME NEW e \in Events PROVE Accounted(e)'
  BY DEF WaitersAccounted, Accounted
<1>1. /\ Cardinality(Of(e)) <= Len(waiters[e]) + stolen[e]
      /\ Len(waiters[e]) <= Cardinality(Of(e)) + lost[e]
  BY DEF WaitersAccounted
<1>2. /\ Cardinality(Of(e)) \in Nat /\ Len(waiters[e]) \in Nat /\ lost[e] \in Nat /\ stolen[e] \in Nat
      /\ stolen \in [Events -> Nat] /\ lost \in [Events -> Nat]
  BY FlightFinite, LenProperties DEF Types
<1>3. CASE Written
  <2>1. PICK r \in Ids, t \in 0..Requests :
           Write(r, t) /\ (r = sent + 1 \/ pc[r] = "connecting")
    BY <1>3 DEF Written
  <2>2. r \notin inFlight
    <3>1. r = sent + 1 => r > sent
      BY TcpAssumption DEF Types, Ids
    <3> QED
      BY <2>1, <3>1 DEF CallInv
  <2>3. stolen'[e] = stolen[e]
    BY <1>3 DEF Written
  <2>4. CASE event[r] # e
    <3>1. Len(waiters'[e]) = Len(waiters[e])
      BY <2>1, <2>4, WriteDeques
    <3>2. lost'[e] = lost[e]
      BY <1>2, <2>1, <2>4 DEF Write
    <3>3. Cardinality(Of(e)') = Cardinality(Of(e))
      <4>1. CASE inFlight' = inFlight
        BY <1>0, <4>1 DEF Of
      <4>2. CASE inFlight' = inFlight \cup {r}
        BY <1>0, <2>2, <2>4, <4>2, FlightAdded
      <4> QED
        BY <2>1, <4>1, <4>2 DEF Write
    <3> QED
      BY <1>1, <2>3, <3>1, <3>2, <3>3 DEF Accounted
  <2>5. CASE event[r] = e
    <3>1. Len(waiters'[e]) = Len(waiters[e]) + 1
      BY <2>1, <2>5, WriteDeques
    <3>2. CASE t \in closing
      <4>1. inFlight' = inFlight /\ lost' = [lost EXCEPT ![event[r]] = lost[event[r]] + 1]
        BY <2>1, <3>2 DEF Write
      <4>2. Cardinality(Of(e)') = Cardinality(Of(e)) /\ lost'[e] = lost[e] + 1
        BY <1>0, <1>2, <2>5, <4>1 DEF Of
      <4> QED
        BY <1>1, <1>2, <2>3, <3>1, <4>2 DEF Accounted
    <3>3. CASE t \notin closing
      <4>1. inFlight' = inFlight \cup {r} /\ lost'[e] = lost[e]
        BY <2>1, <3>3 DEF Write
      <4>2. Cardinality(Of(e)') = Cardinality(Of(e)) + 1
        BY <1>0, <2>2, <2>5, <4>1, FlightAdded
      <4> QED
        BY <1>1, <1>2, <2>3, <3>1, <4>1, <4>2 DEF Accounted
    <3> QED
      BY <3>2, <3>3
  <2> QED
    BY <2>4, <2>5
<1>4. CASE Moved
  BY <1>0, <1>1, <1>4 DEF Moved, Accounted, Of
<1>5. CASE Responded
  <2>1. PICK s \in inFlight : inFlight' = inFlight \ {s} /\ PopEffect(event[s], s)
    BY <1>5 DEF Responded
  <2>2. event[s] \in Events /\ stolen' = stolen /\ lost' = lost
    BY <1>5 DEF Types, Responded
  <2>3. CASE event[s] # e
    <3>1. waiters'[e] = waiters[e]
      BY <2>1, <2>2, <2>3, PopDeques
    <3>2. Cardinality(Of(e)') = Cardinality(Of(e))
      BY <1>0, <2>1, <2>3, FlightRemoved
    <3> QED
      BY <1>1, <2>2, <3>1, <3>2 DEF Accounted
  <2>4. CASE event[s] = e
    <3>1. Cardinality(Of(e)') = Cardinality(Of(e)) - 1
      BY <1>0, <2>1, <2>4, FlightRemoved
    <3>2. Cardinality(Of(e)') \in Nat
      <4>1. Of(e)' \in SUBSET Ids
        BY DEF Of, Types
      <4> QED
        BY <4>1, IdsFinite
    <3>3. CASE waiters[e] = <<>>
      <4>1. waiters'[e] = waiters[e] /\ Len(waiters[e]) = 0
        BY <2>1, <2>2, <2>4, <3>3, PopDeques
      <4> QED
        BY <1>1, <1>2, <2>2, <3>1, <3>2, <4>1 DEF Accounted
    <3>4. CASE waiters[e] # <<>>
      <4>1. Len(waiters'[e]) = Len(waiters[e]) - 1
        BY <2>1, <2>2, <2>4, <3>4, PopDeques
      <4> QED
        BY <1>1, <1>2, <2>2, <3>1, <4>1 DEF Accounted
    <3> QED
      BY <3>3, <3>4
  <2> QED
    BY <2>3, <2>4
<1>6. CASE Taken
  <2>1. PICK d \in Events : PopEffect(d, 0) /\ Steal(d)
    BY <1>6 DEF Taken
  <2>2. /\ Cardinality(Of(e)') \in Nat /\ lost'[e] \in Nat
        /\ Cardinality(Of(e)') <= Cardinality(Of(e))
        /\ Cardinality(Of(e)') + lost'[e] = Cardinality(Of(e)) + lost[e]
    BY <1>0, <1>6, MayLoseCounted DEF Taken, LossesCounted
  <2>3. /\ Len(waiters'[e]) \in Nat /\ Len(waiters'[e]) <= Len(waiters[e])
        /\ Len(waiters'[e]) + stolen'[e] = Len(waiters[e]) + stolen[e]
    <3>1. CASE d # e \/ waiters[d] = <<>>
      <4>1. waiters'[e] = waiters[e]
        BY <2>1, <3>1, PopDeques
      <4>2. stolen'[e] = stolen[e]
        BY <1>2, <2>1, <3>1 DEF Steal
      <4> QED
        BY <1>2, <4>1, <4>2
    <3>2. CASE d = e /\ waiters[d] # <<>>
      <4>1. Len(waiters[e]) > 0 /\ Len(waiters'[e]) = Len(waiters[e]) - 1
        BY <2>1, <3>2, PopDeques
      <4>2. stolen'[e] = stolen[e] + 1
        BY <1>2, <2>1, <3>2 DEF Steal
      <4>3. \A a, c \in Nat : a > 0 => a - 1 \in Nat /\ a - 1 <= a /\ (a - 1) + (c + 1) = a + c
        OBVIOUS
      <4> QED
        BY <1>2, <4>1, <4>2, <4>3
    <3> QED
      BY <3>1, <3>2
  <2> QED
    <3>1. stolen'[e] \in Nat
      BY DEF Types
    <3> QED
      BY <1>1, <1>2, <2>2, <2>3, <3>1 DEF Accounted
<1>7. CASE Quiet
  <2>1. LossesCounted(e)
    <3>1. CASE MayLose
      BY <1>0, <3>1, MayLoseCounted
    <3>2. ASSUME NEW t \in Ids,
                 inFlight' = {r \in inFlight : via[r] # t},
                 lost' = [d \in Events |-> lost[d] + Cardinality({r \in inFlight : via[r] = t /\ event[r] = d})]
          PROVE  LossesCounted(e)
      BY <1>0, <3>2, ConnectionCounted
    <3> QED
      BY <1>7, <3>1, <3>2 DEF Quiet
  <2>2. waiters'[e] = waiters[e] /\ stolen'[e] = stolen[e]
    BY <1>7 DEF Quiet
  <2> QED
    BY <1>1, <1>2, <2>1, <2>2 DEF Accounted, LossesCounted
<1> QED
  BY <1>3, <1>4, <1>5, <1>6, <1>7, StepKinds

\* A response that is alone in flight stays alone while others leave.
LEMMA StaysAlone ==
    ASSUME event' = event, inFlight' \subseteq inFlight, NEW q \in inFlight', Of(event[q]) = {q}
    PROVE  Of(event[q])' = {q}
  BY DEF Of

\* What the invariant says of one request, as an operator that is expanded
\* where needed.
AloneAt(r) ==
    /\ Of(event[r]) = {r}
    /\ pc[r] = "waiting" => waiters[event[r]] # <<>> /\ Last(waiters[event[r]]) = r

\* Every step keeps a lone request the newest waiter of its event.
LEMMA AloneStep ==
    ASSUME Types, CallInv, EventInv, AloneInv, [Next]_vars
    PROVE  AloneInv'
<1>0. event' = event /\ pc \in [Ids -> PCs] /\ inFlight \subseteq Ids /\ alone \subseteq Ids
  BY StepKinds DEF Types
<1> SUFFICES ASSUME NEW q \in alone' \cap inFlight' PROVE AloneAt(q)'
  BY DEF AloneInv, AloneAt
<1>1. q \in alone \cap inFlight => AloneAt(q)
  BY DEF AloneInv, AloneAt
<1>2. CASE Written
  <2>1. PICK r \in Ids, t \in 0..Requests :
           Write(r, t) /\ (r = sent + 1 \/ pc[r] = "connecting")
    BY <1>2 DEF Written
  <2>2. r \notin inFlight
    <3>1. r = sent + 1 => r > sent
      BY TcpAssumption DEF Types, Ids
    <3> QED
      BY <2>1, <3>1 DEF CallInv
  <2>3. inFlight' \subseteq inFlight \cup {r} /\ inFlight \subseteq inFlight'
    BY <2>1 DEF Write
  <2>4. alone' = IF Of(event[r]) = {} THEN alone \cup {r} ELSE {p \in alone : event[p] # event[r]}
    BY <2>1 DEF Write
  <2>5. CASE q = r
    <3>1. Of(event[r]) = {}
      BY <2>4, <2>5
    <3>2. Of(event[r])' = {r}
      BY <1>0, <2>3, <2>5, <3>1 DEF Of
    <3>3. waiters'[event[r]] # <<>> /\ Last(waiters'[event[r]]) = r
      BY <2>1, WriteDeques
    <3> QED
      BY <1>0, <2>5, <3>2, <3>3 DEF AloneAt
  <2>6. CASE q # r
    <3>1. q \in inFlight /\ q \in alone /\ q \in Ids
      BY <1>0, <2>3, <2>4, <2>6
    <3>2. event[q] # event[r]
      <4>1. q \in Of(event[q])
        BY <3>1 DEF Of
      <4> QED
        BY <2>4, <2>6, <4>1
    <3>3. Of(event[q])' = Of(event[q])
      BY <1>0, <2>3, <3>2 DEF Of
    <3>4. waiters'[event[q]] = waiters[event[q]]
      <4>1. event[q] \in Events
        BY <3>1 DEF Types
      <4> QED
        BY <2>1, <3>2, <4>1, WriteDeques
    <3>5. pc'[q] = pc[q]
      <4>1. Moves(r, "waiting") /\ "waiting" \in PCs
        BY <2>1 DEF Write, Moves, PCs
      <4> QED
        BY <1>0, <2>6, <3>1, <4>1, MoveFacts
    <3> QED
      BY <1>0, <1>1, <3>1, <3>3, <3>4, <3>5 DEF AloneAt
  <2> QED
    BY <2>5, <2>6
<1>3. ASSUME alone' = alone, inFlight' \subseteq inFlight, pc'[q] = "waiting" => pc[q] = "waiting",
             pc'[q] = "waiting" => waiters'[event[q]] = waiters[event[q]]
      PROVE  AloneAt(q)'
  <2>1. AloneAt(q) /\ q \in inFlight'
    BY <1>1, <1>3
  <2>2. Of(event[q])' = {q}
    BY <1>0, <1>3, <2>1, StaysAlone DEF AloneAt
  <2> QED
    BY <1>0, <1>3, <2>1, <2>2 DEF AloneAt
<1>4. CASE Moved
  <2>1. alone' = alone /\ inFlight' = inFlight /\ waiters' = waiters
    BY <1>4 DEF Moved
  <2>2. PICK r \in Ids : Moves(r, "connecting") \/ Moves(r, "failed")
    BY <1>4 DEF Moved
  <2>3. q \in Ids
    BY <1>0, <2>1
  <2>4. pc'[q] = "waiting" => pc[q] = "waiting"
    BY <1>0, <2>2, <2>3, MoveFacts DEF PCs
  <2> QED
    BY <1>3, <2>1, <2>4
<1>5. CASE Responded
  <2>1. PICK s \in Ids : s \in inFlight /\ inFlight' = inFlight \ {s} /\ PopEffect(event[s], s)
    BY <1>5 DEF Responded
  <2>2. alone' = alone /\ q \in inFlight /\ q # s /\ AloneAt(q)
    BY <1>1, <1>5, <2>1 DEF Responded
  <2>3. event[q] # event[s]
    BY <2>1, <2>2 DEF AloneAt, Of
  <2>4. event[s] \in Events /\ event[q] \in Events /\ s \in 0..Requests /\ q \in Ids
    <3>1. s \in 0..Requests
      BY TcpAssumption DEF Ids
    <3> QED
      BY <1>0, <2>1, <2>2, <3>1 DEF Types
  <2>5. waiters'[event[q]] = waiters[event[q]]
    BY <2>1, <2>3, <2>4, PopDeques
  <2>6. pc'[q] = "waiting" => pc[q] = "waiting"
    BY <2>1, <2>4, PopTypes
  <2> QED
    BY <1>3, <2>1, <2>2, <2>5, <2>6
<1>6. CASE Taken
  <2>1. PICK e \in Events : PopEffect(e, 0)
    BY <1>6 DEF Taken
  <2>2. alone' = alone /\ inFlight' \subseteq inFlight
    BY <1>6 DEF Taken, MayLose
  <2>3. q \in Ids /\ AloneAt(q) /\ event[q] \in Events /\ 0 \in 0..Requests
    BY <1>0, <1>1, <2>2, TcpAssumption DEF Types
  <2>4. pc'[q] = "waiting" => pc[q] = "waiting"
    BY <2>1, <2>3, PopTypes
  <2>5. CASE e = event[q] /\ pc[q] = "waiting"
    <3>1. waiters[e] # <<>> /\ Last(waiters[e]) = q
      BY <2>3, <2>5 DEF AloneAt
    <3>2. Moves(q, "answered") \/ Moves(q, "failed")
      BY <2>1, <2>5, <3>1 DEF PopEffect
    <3>3. pc'[q] # "waiting"
      BY <1>0, <2>3, <3>2, MoveFacts DEF PCs
    <3> QED
      BY <1>3, <2>2, <3>3
  <2>6. CASE e # event[q]
    <3>1. waiters'[event[q]] = waiters[event[q]]
      BY <2>1, <2>3, <2>6, PopDeques
    <3> QED
      BY <1>3, <2>2, <2>4, <3>1
  <2> QED
    BY <1>3, <2>2, <2>4, <2>5, <2>6
<1>7. CASE Quiet
  <2>1. alone' = alone /\ inFlight' \subseteq inFlight /\ waiters' = waiters /\ pc' = pc
    BY <1>7 DEF Quiet, MayLose
  <2> QED
    BY <1>3, <2>1
<1> QED
  BY <1>2, <1>4, <1>5, <1>6, <1>7, StepKinds

-----------------------------------------------------------------------------
\* The inductive invariant.
TcpInv ==
    /\ Types /\ CallInv /\ EventInv /\ AnswerInv
    /\ PermitsInv /\ WaitersAccounted /\ AloneInv

\* It holds of every state: initially nothing is in flight and no waiter is in
\* a deque, and each part is kept by the lemma named after it.
LEMMA TcpInvHolds == Spec => []TcpInv
<1>1. Init => TcpInv
  <2> SUFFICES ASSUME Init PROVE TcpInv
    OBVIOUS
  <2>1. Types
    BY TcpAssumption DEF Init, Types, PCs
  <2>2. CallInv /\ EventInv /\ AnswerInv /\ AloneInv
    BY DEF Init, CallInv, EventInv, AnswerInv, AloneInv
  <2>3. PermitsInv
    <3>1. Busy = {}
      BY DEF Init, Busy
    <3> QED
      BY <3>1, FS_EmptySet, TcpAssumption DEF Init, PermitsInv
  <2>4. WaitersAccounted
    <3>1. ASSUME NEW e \in Events PROVE Cardinality(Of(e)) = 0 /\ Len(waiters[e]) = 0 /\ stolen[e] = 0 /\ lost[e] = 0
      <4>1. Of(e) = {}
        BY DEF Init, Of
      <4> QED
        BY <4>1, FS_EmptySet DEF Init
    <3> QED
      BY <3>1 DEF WaitersAccounted
  <2> QED
    BY <2>1, <2>2, <2>3, <2>4 DEF TcpInv
<1>2. TcpInv /\ [Next]_vars => TcpInv'
  BY TypesStep, CallStep, EventStep, AnswerStep, PermitsStep, AccountedStep, AloneStep DEF TcpInv
<1> QED
  BY <1>1, <1>2, PTL DEF Spec

\* The variables keep their types, a waiter in a deque and a request in flight
\* belong to calls that were made, and a permit that is not free belongs to a
\* request under way.
THEOREM TcpTypeCorrect == Spec => []TypeOK
<1>1. TcpInv => TypeOK
  <2> SUFFICES ASSUME TcpInv PROVE TypeOK
    OBVIOUS
  <2> USE DEF TcpInv
  <2>1. \A r \in Ids : pc[r] # "idle" => r \in 1..sent
    BY TcpAssumption DEF CallInv, Types, Ids
  <2>2. inFlight \subseteq 1..sent
    BY <2>1 DEF CallInv, Types
  <2>3. ASSUME NEW e \in Events PROVE Range(waiters[e]) \subseteq 1..sent
    <3>1. waiters[e] \in Seq(Ids)
      BY DEF Types
    <3>2. DOMAIN waiters[e] = 1..Len(waiters[e]) /\ \A i \in 1..Len(waiters[e]) : waiters[e][i] \in Ids
      BY <3>1, LenProperties, ElementOfSeq
    <3> QED
      BY <2>1, <3>2 DEF EventInv, Range
  <2>4. permits = MaxConcurrency - Cardinality({r \in Ids : pc[r] \in {"connecting", "waiting"}})
    BY DEF PermitsInv, Busy
  <2> QED
    BY <2>2, <2>3, <2>4 DEF Types, TypeOK, PCs
<1> QED
  BY <1>1, TcpInvHolds, PTL

\* A request is answered by a response to its own event, however many chunks
\* cannot be decoded and although those are looked up in _last_call.
THEOREM EventPaired == Spec => []OwnEvent
<1>1. TcpInv => OwnEvent
  BY DEF TcpInv, AnswerInv, OwnEvent
<1> QED
  BY <1>1, TcpInvHolds, PTL

\* Responses under way and waiters left behind differ by no more than the
\* waiters something else took and the responses that were lost.
THEOREM DequesAccounted == Spec => []WaitersAccounted
<1>1. TcpInv => WaitersAccounted
  BY DEF TcpInv
<1> QED
  BY <1>1, TcpInvHolds, PTL

\* A request that met no other of its event gets its own response, whatever
\* waiters timeouts and losses left behind: its waiter is the newest.
THEOREM LoneRequestAnswered == Spec => AnsweredAlone
<1>1. TcpInv /\ [Next]_vars =>
        [\A r \in alone \ streams : ReadResponse(r) /\ pc[r] = "waiting" =>
            pc'[r] = "answered" /\ answer'[r] = r]_vars
  <2> SUFFICES ASSUME TcpInv, NEW r \in alone \ streams, ReadResponse(r), pc[r] = "waiting"
               PROVE  pc'[r] = "answered" /\ answer'[r] = r
    OBVIOUS
  <2> USE DEF TcpInv
  <2>1. r \in Ids /\ r # 0 /\ event[r] \in Events /\ r \in alone \cap inFlight
    <3>1. r \in Ids /\ event[r] \in Events /\ r \in alone \cap inFlight
      BY DEF ReadResponse, Types
    <3> QED
      BY <3>1 DEF Ids
  <2>2. waiters[event[r]] # <<>> /\ Last(waiters[event[r]]) = r
    BY <2>1 DEF AloneInv
  <2>3. PopEffect(event[r], r)
    BY <2>1, PopCases DEF ReadResponse
  <2>4. Moves(r, "answered") /\ answer' = [answer EXCEPT ![r] = r]
    BY <2>1, <2>2, <2>3 DEF PopEffect
  <2> QED
    BY <2>1, <2>4 DEF Moves, Types
<1> QED
  BY <1>1, TcpInvHolds, PTL DEF Spec, AnsweredAlone

-----------------------------------------------------------------------------
(* CircuitBreaker *)

Breakers ==
    [state : {"CLOSED", "OPEN", "HALF_OPEN"},
     closedAge : 0..Window, closedElapsed : 0..Window, halfAge : 0..Window, halfElapsed : 0..Window]

Counters == {c \in [failed : Nat, succeeded : Nat, total : Nat] : c.total = c.failed + c.succeeded}

\* The types, with what BreakerTypeOK leaves open: the phase, the counters of the
\* window before, the bound on the handlers and the histories.
BreakerTypes ==
    /\ breaker \in Breakers
    /\ phase \in 0..(Window - 1)
    /\ windowAge \in 0..(Window + 1)
    /\ counts \in Counters /\ previous \in Counters
    /\ rates \in [failed : Nat, total : Nat] /\ rates.failed <= rates.total
    /\ running \in 0..MaxRunning
    /\ counts.total + running <= MaxCompleted + MaxRunning
    /\ overdue \in Nat /\ trips \in Nat

\* A clock that was read shows no more than the time that passed, and is at
\* zero in the states it is not read in.
ClockOK(b) ==
    /\ b.state # "OPEN" => b.closedElapsed = 0
    /\ b.state # "HALF_OPEN" => b.halfElapsed = 0
    /\ b.closedElapsed <= b.closedAge
    /\ b.halfElapsed <= b.halfAge

\* After a request that was rejected past the window the breaker knows that
\* the window is over.
OverdueInv ==
    /\ overdue <= 1
    /\ overdue = 1 => breaker.state = "OPEN" /\ breaker.closedElapsed = Window

IsOpen == breaker.state = "OPEN"

\* Where the failures are when the breaker has tripped n times since the last
\* of them: after the first trip in the current window, which began before the
\* trip; before the third in the previous one; after it they count no more.
TripInv ==
    /\ trips <= 3
    /\ trips = 1 /\ IsOpen /\ counts.failed > 0 => windowAge >= breaker.closedAge
    /\ trips = 1 /\ ~IsOpen /\ counts.failed > 0 => windowAge >= Window
    /\ trips = 2 /\ IsOpen /\ counts.failed > 0 =>
         windowAge >= Window /\ (breaker.closedAge > 0 => windowAge > Window)
    /\ trips = 2 /\ ~IsOpen => counts.failed = 0
    /\ trips = 3 => counts.failed = 0
    /\ trips = 3 /\ IsOpen /\ previous.failed > 0 => windowAge >= breaker.closedAge
    /\ trips = 3 /\ ~IsOpen => rates.failed = 0 /\ (previous.failed > 0 => windowAge >= Window)

\* The inductive invariant.
BreakerInv == BreakerTypes /\ ClockOK(breaker) /\ OverdueInv /\ TripInv

-----------------------------------------------------------------------------
(* Arithmetic *)

\* The minimum and the maximum of two numbers.
LEMMA MinMaxTwo ==
    ASSUME NEW a \in Int, NEW b \in Int
    PROVE  /\ Min({a, b}) = IF a <= b THEN a ELSE b
           /\ Max({a, b}) = IF a >= b THEN a ELSE b
<1>1. Min({a, b}) = IF a <= b THEN a ELSE b
  <2>1. \E x \in {a, b} : \A y \in {a, b} : x <= y
    OBVIOUS
  <2>2. Min({a, b}) \in {a, b} /\ \A y \in {a, b} : Min({a, b}) <= y
    BY <2>1 DEF Min
  <2> QED
    BY <2>2
<1>2. Max({a, b}) = IF a >= b THEN a ELSE b
  <2>1. \E x \in {a, b} : \A y \in {a, b} : x >= y
    OBVIOUS
  <2>2. Max({a, b}) \in {a, b} /\ \A y \in {a, b} : Max({a, b}) >= y
    BY <2>1 DEF Max
  <2> QED
    BY <2>2
<1> QED
  BY <1>1, <1>2

\* Products of naturals, for the weighted counts.
LEMMA Products ==
    ASSUME NEW a \in Nat, NEW b \in Nat, NEW w \in Nat
    PROVE  a * w \in Nat /\ (a <= b => a * w <= b * w) /\ 0 * w = 0 /\ a * 0 = 0
  OBVIOUS

\* Without a failure in the rates the breaker does not trip.
LEMMA NoFailureNoTrip ==
    ASSUME NEW r \in [failed : Nat, total : Nat], r.failed = 0
    PROVE  ~TripBreaker(r)
<1> DEFINE x == (r.total * Threshold) \div (100 * Window)
           m == Max({x, 1})
           q == r.failed \div Window
<1>1. x \in Int
  BY BreakerAssumption
<1>2. m \in Int /\ m >= 1
  <2> HIDE DEF x
  <2>1. m = IF x >= 1 THEN x ELSE 1
    <3>1. 1 \in Int
      OBVIOUS
    <3> QED
      BY <1>1, <3>1, MinMaxTwo, Zenon
  <2> HIDE DEF m
  <2> QED
    BY <1>1, <2>1
<1>3. q = 0
  BY BreakerAssumption
<1>4. TripBreaker(r) <=> q > m
  BY DEF TripBreaker
<1> HIDE DEF q, m
<1> QED
  BY <1>2, <1>3, <1>4

-----------------------------------------------------------------------------
(* The parts of a request *)

\* The window a request sees: it is rolled over when it has passed, and the
\* weight of the previous one is not negative.
LEMMA WindowCases ==
    ASSUME BreakerTypes
    PROVE  /\ Counts \in Counters /\ Previous \in Counters
           /\ WindowAge \in 0..Window
           /\ Counts.total + running <= MaxCompleted + MaxRunning
           /\ \/ windowAge = Window + 1 /\ Counts.failed = 0 /\ Previous = counts
              \/ windowAge <= Window /\ WindowAge = windowAge /\ Counts = counts /\ Previous = previous
<1>1. CASE Rolls
  <2>1. windowAge = Window + 1
    BY <1>1, BreakerAssumption DEF BreakerTypes, Rolls
  <2>2. Zero \in Counters /\ Zero.failed = 0 /\ Zero.total = 0
    BY DEF Zero, Counters
  <2> QED
    BY <1>1, <2>1, <2>2, BreakerAssumption DEF BreakerTypes, Counts, Previous, WindowAge
<1>2. CASE ~Rolls
  BY <1>2, BreakerAssumption DEF BreakerTypes, Counts, Previous, WindowAge, Rolls
<1> QED
  BY <1>1, <1>2

\* The rates a request computes: no more failures than requests, and none if
\* the current window has none and the previous one none that still overlaps.
LEMMA RateFacts ==
    ASSUME BreakerTypes
    PROVE  /\ Rate("failed") \in Nat /\ Rate("total") \in Nat
           /\ Rate("failed") <= Rate("total")
           /\ Counts.failed = 0 /\ (Previous.failed = 0 \/ WindowAge = Window) => Rate("failed") = 0
<1> DEFINE w == Window - WindowAge
<1>1. w \in Nat /\ Window \in Nat /\ (WindowAge = Window => w = 0)
  BY WindowCases, BreakerAssumption
<1>2. /\ Counts.failed \in Nat /\ Counts.total \in Nat /\ Counts.failed <= Counts.total
      /\ Previous.failed \in Nat /\ Previous.total \in Nat /\ Previous.failed <= Previous.total
  BY WindowCases DEF Counters
<1> HIDE DEF w
<1>3. /\ Previous.failed * w \in Nat /\ Previous.total * w \in Nat /\ Previous.failed * w <= Previous.total * w
      /\ Previous.failed = 0 \/ w = 0 => Previous.failed * w = 0
  BY <1>1, <1>2, Products
<1>4. /\ Counts.failed * Window \in Nat /\ Counts.total * Window \in Nat
      /\ Counts.failed * Window <= Counts.total * Window
      /\ Counts.failed = 0 => Counts.failed * Window = 0
  BY <1>1, <1>2, Products
<1>5. Window * Counts.failed = Counts.failed * Window /\ Window * Counts.total = Counts.total * Window
  BY <1>1, <1>2
<1>6. /\ Rate("failed") = Previous.failed * w + Counts.failed * Window
      /\ Rate("total") = Previous.total * w + Counts.total * Window
  BY <1>5 DEF Rate, w
<1> QED
  BY <1>1, <1>3, <1>4, <1>6

\* The breaker a request leaves when it has looked at its clocks.
Checked == CheckHalfOpen(CheckOpen(breaker))

\* An open breaker becomes half open only when its window has passed, and a
\* half-open one closed only when its own has.
LEMMA CheckedCases ==
    ASSUME BreakerTypes, ClockOK(breaker)
    PROVE  /\ Checked \in Breakers /\ ClockOK(Checked)
           /\ \/ /\ StaysOpen(breaker) /\ IsOpen /\ breaker.closedElapsed < Window
                 /\ Checked.state = "OPEN"
                 /\ Checked.closedAge = breaker.closedAge /\ Checked.closedElapsed = breaker.closedAge
              \/ ~StaysOpen(breaker) /\ IsOpen /\ breaker.closedAge = Window /\ Checked.state = "HALF_OPEN"
              \/ /\ ~StaysOpen(breaker) /\ ~IsOpen /\ Checked.state # "OPEN"
                 /\ Checked.state = "CLOSED" /\ breaker.state # "CLOSED" =>
                      breaker.state = "HALF_OPEN" /\ breaker.halfAge = Window
<1> DEFINE c == Checked
<1>0. breaker \in Breakers /\ Window \in Nat /\ Window > 0 /\ 0 \in 0..Window
  BY BreakerAssumption DEF BreakerTypes
<1>1. CASE StaysOpen(breaker)
  <2>1. CheckOpen(breaker) = [breaker EXCEPT !.closedElapsed = breaker.closedAge]
    BY <1>1 DEF CheckOpen
  <2>2. c = [breaker EXCEPT !.closedElapsed = breaker.closedAge]
    BY <1>0, <1>1, <2>1 DEF CheckHalfOpen, Checked, StaysOpen, Breakers
  <2> HIDE DEF c
  <2>3. c \in Breakers /\ c.state = breaker.state /\ c.closedAge = breaker.closedAge
        /\ c.closedElapsed = breaker.closedAge /\ c.halfAge = breaker.halfAge /\ c.halfElapsed = breaker.halfElapsed
    BY <1>0, <2>2 DEF Breakers
  <2>4. ClockOK(c)
    BY <1>0, <1>1, <2>3 DEF ClockOK, StaysOpen, Breakers
  <2> QED
    BY <1>1, <2>3, <2>4 DEF StaysOpen, IsOpen, c
<1>2. CASE IsOpen /\ ~StaysOpen(breaker)
  <2>1. CheckOpen(breaker) = [breaker EXCEPT !.state = "HALF_OPEN", !.halfAge = 0, !.closedElapsed = 0]
    BY <1>2 DEF CheckOpen, IsOpen
  <2>2. c = [breaker EXCEPT !.state = "HALF_OPEN", !.halfAge = 0, !.closedElapsed = 0, !.halfElapsed = 0]
    BY <1>0, <1>2, <2>1 DEF CheckHalfOpen, Checked, IsOpen, ClockOK, Breakers
  <2> HIDE DEF c
  <2>3. c \in Breakers /\ c.state = "HALF_OPEN" /\ c.closedAge = breaker.closedAge
        /\ c.closedElapsed = 0 /\ c.halfAge = 0 /\ c.halfElapsed = 0
    BY <1>0, <2>2 DEF Breakers
  <2>4. breaker.closedAge = Window
    BY <1>0, <1>2 DEF ClockOK, StaysOpen, IsOpen, Breakers
  <2>5. ClockOK(c)
    BY <1>0, <2>3, <2>4 DEF ClockOK
  <2> QED
    BY <1>2, <2>3, <2>4, <2>5 DEF c
<1>3. CASE ~IsOpen
  <2>1. CheckOpen(breaker) = breaker /\ ~StaysOpen(breaker)
    BY <1>3 DEF CheckOpen, IsOpen, StaysOpen
  <2>2. CASE breaker.state = "CLOSED"
    <3>1. c = breaker
      BY <2>1, <2>2 DEF CheckHalfOpen, Checked
    <3> QED
      BY <1>0, <1>3, <2>1, <2>2, <3>1
  <2>3. CASE breaker.state = "HALF_OPEN" /\ breaker.halfElapsed < Window
    <3>1. c = [breaker EXCEPT !.halfElapsed = breaker.halfAge]
      BY <2>1, <2>3 DEF CheckHalfOpen, Checked
    <3> HIDE DEF c
    <3>2. c \in Breakers /\ c.state = "HALF_OPEN" /\ c.closedAge = breaker.closedAge
          /\ c.closedElapsed = breaker.closedElapsed /\ c.halfAge = breaker.halfAge /\ c.halfElapsed = breaker.halfAge
      BY <1>0, <2>3, <3>1 DEF Breakers
    <3>3. ClockOK(c)
      BY <1>0, <2>3, <3>2 DEF ClockOK, Breakers
    <3> QED
      BY <1>3, <2>1, <3>2, <3>3 DEF c
  <2>4. CASE breaker.state = "HALF_OPEN" /\ ~(breaker.halfElapsed < Window)
    <3>1. c = [breaker EXCEPT !.state = "CLOSED", !.halfElapsed = 0]
      BY <2>1, <2>4 DEF CheckHalfOpen, Checked
    <3> HIDE DEF c
    <3>2. c \in Breakers /\ c.state = "CLOSED" /\ c.closedAge = breaker.closedAge
          /\ c.closedElapsed = breaker.closedElapsed /\ c.halfAge = breaker.halfAge /\ c.halfElapsed = 0
      BY <1>0, <3>1 DEF Breakers
    <3>3. ClockOK(c) /\ breaker.halfAge = Window
      BY <1>0, <2>4, <3>2 DEF ClockOK, Breakers
    <3> QED
      BY <1>3, <2>1, <2>4, <3>2, <3>3 DEF c
  <2> QED
    BY <1>0, <1>3, <2>2, <2>3, <2>4 DEF Breakers, IsOpen
<1> QED
  BY <1>1, <1>2, <1>3

\* The end of a request: the breaker stays as it is, or trips and begins its
\* window with clocks at zero.
LEMMA FinishCases ==
    ASSUME NEW b \in Breakers, ClockOK(b), NEW f \in BOOLEAN, trips \in Nat, Finish(b, f)
    PROVE  /\ breaker' \in Breakers /\ ClockOK(breaker)'
           /\ \/ /\ breaker' = b
                 /\ (f /\ trips' = 0) \/ (~f /\ (trips <= 3 => trips' = trips))
              \/ /\ b.state # "OPEN" /\ TripBreaker(rates')
                 /\ breaker'.state = "OPEN" /\ breaker'.closedAge = 0 /\ breaker'.closedElapsed = 0
                 /\ (f /\ trips' = 1) \/ (~f /\ (trips <= 3 => trips' = trips + 1))
           /\ trips' \in Nat
<1> DEFINE tripped == TripBreaker(rates') /\ b.state # "OPEN"
           sofar == IF f THEN 0 ELSE trips
<1>1. /\ breaker' = IF tripped THEN Trips(b) ELSE b
      /\ trips' = Min({sofar + IF tripped THEN 1 ELSE 0, 4})
  BY DEF Finish
<1>2. sofar \in Nat /\ (f => sofar = 0) /\ (~f => sofar = trips)
  OBVIOUS
<1>3. CASE tripped
  <2>1. trips' = Min({sofar + 1, 4}) /\ breaker' = Trips(b)
    BY <1>1, <1>3
  <2> HIDE DEF sofar
  <2>2. trips' = IF sofar + 1 <= 4 THEN sofar + 1 ELSE 4
    BY <1>2, <2>1, MinMaxTwo
  <2>3. breaker' = [b EXCEPT !.state = "OPEN", !.closedAge = 0, !.halfElapsed = 0]
    BY <2>1 DEF Trips
  <2>4. /\ breaker' \in Breakers /\ breaker'.state = "OPEN" /\ breaker'.closedAge = 0
        /\ breaker'.closedElapsed = b.closedElapsed /\ breaker'.halfAge = b.halfAge /\ breaker'.halfElapsed = 0
    <3>1. 0 \in 0..Window
      BY BreakerAssumption
    <3> QED
      BY <2>3, <3>1 DEF Breakers
  <2>5. b.closedElapsed = 0 /\ b.halfAge >= 0
    BY <1>3, BreakerAssumption DEF ClockOK, Breakers
  <2>6. ClockOK(breaker)'
    BY <2>4, <2>5 DEF ClockOK
  <2>7. /\ (f /\ trips' = 1) \/ (~f /\ (trips <= 3 => trips' = trips + 1))
        /\ trips' \in Nat
    BY <1>2, <2>2
  <2> QED
    BY <1>3, <2>4, <2>5, <2>6, <2>7
<1>4. CASE ~tripped
  <2>1. trips' = Min({sofar + 0, 4}) /\ breaker' = b
    BY <1>1, <1>4
  <2> HIDE DEF sofar
  <2>2. trips' = IF sofar <= 4 THEN sofar ELSE 4
    BY <1>2, <2>1, MinMaxTwo
  <2>3. /\ (f /\ trips' = 0) \/ (~f /\ (trips <= 3 => trips' = trips))
        /\ trips' \in Nat
    BY <1>2, <2>2
  <2>4. breaker' = b /\ breaker' \in Breakers /\ ClockOK(breaker)'
    BY <2>1 DEF ClockOK
  <2> QED
    BY <2>3, <2>4
<1> QED
  BY <1>3, <1>4

\* The end of a request whose handler did not fail.
LEMMA FinishOther ==
    ASSUME NEW b \in Breakers, ClockOK(b), trips \in 0..3, Finish(b, FALSE)
    PROVE  \/ breaker' = b /\ trips' = trips
           \/ /\ b.state # "OPEN" /\ TripBreaker(rates')
              /\ breaker'.state = "OPEN" /\ breaker'.closedAge = 0 /\ trips' = trips + 1
<1>1. trips \in Nat /\ trips <= 3 /\ FALSE \in BOOLEAN
  OBVIOUS
<1>2. \/ breaker' = b /\ (trips <= 3 => trips' = trips)
      \/ /\ b.state # "OPEN" /\ TripBreaker(rates')
         /\ breaker'.state = "OPEN" /\ breaker'.closedAge = 0 /\ (trips <= 3 => trips' = trips + 1)
  BY <1>1, FinishCases
<1> QED
  BY <1>1, <1>2

\* The end of a request whose handler failed.
LEMMA FinishFailed ==
    ASSUME NEW b \in Breakers, ClockOK(b), trips \in 0..3, Finish(b, TRUE)
    PROVE  \/ breaker' = b /\ trips' = 0
           \/ b.state # "OPEN" /\ breaker'.state = "OPEN" /\ breaker'.closedAge = 0 /\ trips' = 1
<1>1. trips \in Nat /\ TRUE \in BOOLEAN
  OBVIOUS
<1> QED
  BY <1>1, FinishCases

-----------------------------------------------------------------------------
(* The steps *)

\* A tick makes the clocks older, up to what the code tells apart.
LEMMA TickFacts ==
    ASSUME BreakerTypes, Tick
    PROVE  /\ breaker' \in Breakers /\ breaker'.state = breaker.state
           /\ breaker'.closedElapsed = breaker.closedElapsed /\ breaker'.halfElapsed = breaker.halfElapsed
           /\ breaker'.closedAge = IF breaker.closedAge < Window THEN breaker.closedAge + 1 ELSE Window
           /\ breaker'.halfAge = IF breaker.halfAge < Window THEN breaker.halfAge + 1 ELSE Window
           /\ windowAge' = IF windowAge <= Window THEN windowAge + 1 ELSE Window + 1
           /\ phase' \in 0..(Window - 1)
           /\ UNCHANGED <<counts, previous, rates, running, overdue, trips>>
<1>0. /\ breaker \in Breakers /\ Window \in Nat /\ Window > 0 /\ Window \in Int
      /\ breaker.closedAge \in 0..Window /\ breaker.halfAge \in 0..Window
      /\ windowAge \in 0..(Window + 1) /\ phase \in 0..(Window - 1)
  BY BreakerAssumption DEF BreakerTypes, Breakers
<1> DEFINE older(age) == Min({age + 1, Window})
           ca == older(breaker.closedAge)
           ha == older(breaker.halfAge)
<1>1. ASSUME NEW age \in 0..Window
      PROVE  older(age) = (IF age < Window THEN age + 1 ELSE Window) /\ older(age) \in 0..Window
  <2>1. age + 1 \in Int
    OBVIOUS
  <2>2. older(age) = IF age + 1 <= Window THEN age + 1 ELSE Window
    BY <1>0, <2>1, MinMaxTwo, Zenon
  <2> QED
    BY <1>0, <2>2
<1>2. /\ ca = (IF breaker.closedAge < Window THEN breaker.closedAge + 1 ELSE Window) /\ ca \in 0..Window
      /\ ha = (IF breaker.halfAge < Window THEN breaker.halfAge + 1 ELSE Window) /\ ha \in 0..Window
  BY <1>0, <1>1, Zenon
<1>3. breaker' = [breaker EXCEPT !.closedAge = ca, !.halfAge = ha]
  BY <1>0 DEF Tick, Breakers
<1>4. windowAge' = IF windowAge <= Window THEN windowAge + 1 ELSE Window + 1
  <2>1. windowAge + 1 \in Int /\ Window + 1 \in Int
    BY <1>0
  <2>2. windowAge' = IF windowAge + 1 <= Window + 1 THEN windowAge + 1 ELSE Window + 1
    BY <2>1, MinMaxTwo, Zenon DEF Tick
  <2> QED
    BY <1>0, <2>2
<1>5. phase' \in 0..(Window - 1)
  <2>1. phase' = (phase + 1) % Window
    BY DEF Tick
  <2> QED
    BY <1>0, <2>1
<1>6. UNCHANGED <<counts, previous, rates, running, overdue, trips>>
  BY DEF Tick, countVars, historyVars
<1> HIDE DEF ca, ha
<1>7. /\ breaker' \in Breakers /\ breaker'.state = breaker.state
      /\ breaker'.closedElapsed = breaker.closedElapsed /\ breaker'.halfElapsed = breaker.halfElapsed
      /\ breaker'.closedAge = ca /\ breaker'.halfAge = ha
  BY <1>0, <1>2, <1>3 DEF Breakers
<1> QED
  BY <1>2, <1>4, <1>5, <1>6, <1>7

\* A request that completes is counted once; the breaker may trip on the rates
\* as they are.
LEMMA CompleteFacts ==
    ASSUME BreakerTypes, ClockOK(breaker), NEW f \in {"failed", "succeeded"}, Complete(f)
    PROVE  /\ running > 0 /\ running' = running - 1
           /\ counts' \in Counters /\ counts'.total = counts.total + 1
           /\ f = "succeeded" => counts'.failed = counts.failed
           /\ UNCHANGED <<phase, windowAge, previous, rates, overdue>>
           /\ Finish(breaker, f = "failed")
<1>1. counts' = [counts EXCEPT ![f] = @ + 1, !.total = @ + 1]
  BY DEF Complete
<1>2. /\ counts \in [failed : Nat, succeeded : Nat, total : Nat]
      /\ counts.total = counts.failed + counts.succeeded
  BY DEF BreakerTypes, Counters
<1> DEFINE x == counts.failed + 1
           y == counts.succeeded + 1
           z == counts.total + 1
<1>5. x \in Nat /\ y \in Nat /\ z \in Nat /\ x = counts.failed + 1 /\ y = counts.succeeded + 1 /\ z = counts.total + 1
  BY <1>2
<1>3. CASE f = "failed"
  <2>1. counts' = [counts EXCEPT !.failed = x, !.total = z]
    BY <1>1, <1>2, <1>3
  <2> HIDE DEF x, y, z
  <2>2. /\ counts' \in [failed : Nat, succeeded : Nat, total : Nat]
        /\ counts'.total = counts.total + 1 /\ counts'.failed = counts.failed + 1
        /\ counts'.succeeded = counts.succeeded
    BY <1>2, <1>5, <2>1
  <2>3. counts' \in Counters
    BY <1>2, <2>2 DEF Counters
  <2> QED
    BY <1>3, <2>2, <2>3 DEF Complete
<1>4. CASE f = "succeeded"
  <2>1. counts' = [counts EXCEPT !.succeeded = y, !.total = z]
    BY <1>1, <1>2, <1>4
  <2> HIDE DEF x, y, z
  <2>2. /\ counts' \in [failed : Nat, succeeded : Nat, total : Nat]
        /\ counts'.total = counts.total + 1 /\ counts'.failed = counts.failed
        /\ counts'.succeeded = counts.succeeded + 1
    BY <1>2, <1>5, <2>1
  <2>3. counts' \in Counters
    BY <1>2, <2>2 DEF Counters
  <2> QED
    BY <1>4, <2>2, <2>3 DEF Complete
<1> QED
  BY <1>3, <1>4

\* A request that begins sees its window and computes its rates; it is
\* rejected and ends, or its handler is called.
LEMMA StartFacts ==
    ASSUME BreakerTypes, ClockOK(breaker), Start
    PROVE  /\ windowAge' = WindowAge /\ counts' = Counts /\ previous' = Previous
           /\ rates' \in [failed : Nat, total : Nat] /\ rates'.failed <= rates'.total
           /\ rates'.failed = Rate("failed")
           /\ phase' = phase
           /\ \/ Finish(Checked, FALSE) /\ running' = running
              \/ /\ ~StaysOpen(breaker) /\ breaker' = Checked /\ trips' = trips /\ running' = running + 1
                 /\ running < MaxRunning /\ Counts.total + running < MaxCompleted
           /\ overdue' = IF StaysOpen(breaker)
                         THEN overdue + IF breaker.closedAge = Window THEN 1 ELSE 0
                         ELSE 0
<1>1. rates' = [failed |-> Rate("failed"), total |-> Rate("total")]
  BY DEF Start
<1>2. rates' \in [failed : Nat, total : Nat] /\ rates'.failed <= rates'.total /\ rates'.failed = Rate("failed")
  BY <1>1, RateFacts
<1>3. \/ Finish(Checked, FALSE) /\ running' = running
      \/ /\ ~StaysOpen(breaker) /\ breaker' = Checked /\ trips' = trips /\ running' = running + 1
         /\ running < MaxRunning /\ Counts.total + running < MaxCompleted
  BY DEF Start, Checked
<1> QED
  BY <1>2, <1>3 DEF Start

\* The types and the clocks.
LEMMA BreakerTypesStep ==
    ASSUME BreakerTypes, ClockOK(breaker), [BreakerNext]_breakerVars
    PROVE  BreakerTypes' /\ ClockOK(breaker)'
<1>0. /\ Window \in Nat /\ Window > 0 /\ MaxRunning \in Nat /\ MaxCompleted \in Nat
      /\ running \in 0..MaxRunning /\ counts \in Counters /\ counts.total \in Nat
      /\ counts.total + running <= MaxCompleted + MaxRunning
      /\ phase \in 0..(Window - 1) /\ windowAge \in 0..(Window + 1) /\ previous \in Counters
      /\ rates \in [failed : Nat, total : Nat] /\ rates.failed <= rates.total
      /\ overdue \in Nat /\ trips \in Nat /\ breaker \in Breakers
  BY BreakerAssumption DEF BreakerTypes, Counters
<1>1. CASE Start
  <2>1. breaker' \in Breakers /\ ClockOK(breaker)' /\ trips' \in Nat
    <3>1. CASE Finish(Checked, FALSE)
      BY <1>0, <3>1, CheckedCases, FinishCases
    <3>2. CASE breaker' = Checked /\ trips' = trips
      BY <1>0, <3>2, CheckedCases DEF ClockOK
    <3> QED
      BY <1>1, <3>1, <3>2, StartFacts
  <2>2. counts' \in Counters /\ previous' \in Counters /\ windowAge' \in 0..(Window + 1) /\ phase' = phase
    BY <1>0, <1>1, StartFacts, WindowCases
  <2>3. running' \in 0..MaxRunning /\ counts'.total + running' <= MaxCompleted + MaxRunning
    <3>1. counts' = Counts /\ Counts.total \in Nat /\ Counts.total + running <= MaxCompleted + MaxRunning
      BY <1>1, StartFacts, WindowCases DEF Counters
    <3>2. \/ running' = running
          \/ running' = running + 1 /\ running < MaxRunning /\ Counts.total + running < MaxCompleted
      BY <1>1, StartFacts
    <3> QED
      BY <1>0, <3>1, <3>2
  <2>4. overdue' \in Nat
    BY <1>0, <1>1, StartFacts
  <2>5. rates' \in [failed : Nat, total : Nat] /\ rates'.failed <= rates'.total
    BY <1>1, StartFacts
  <2> QED
    BY <1>0, <2>1, <2>2, <2>3, <2>4, <2>5 DEF BreakerTypes
<1>2. ASSUME NEW f \in {"failed", "succeeded"}, Complete(f)
      PROVE  BreakerTypes' /\ ClockOK(breaker)'
  <2>1. breaker' \in Breakers /\ ClockOK(breaker)' /\ trips' \in Nat
    <3>1. Finish(breaker, f = "failed") /\ (f = "failed") \in BOOLEAN
      BY <1>2, CompleteFacts
    <3> QED
      BY <1>0, <3>1, FinishCases
  <2>2. /\ running > 0 /\ running' = running - 1
        /\ counts' \in Counters /\ counts'.total = counts.total + 1
        /\ UNCHANGED <<phase, windowAge, previous, rates, overdue>>
    BY <1>2, CompleteFacts
  <2>3. running' \in 0..MaxRunning /\ counts'.total + running' <= MaxCompleted + MaxRunning
    BY <1>0, <2>2
  <2> QED
    BY <1>0, <2>1, <2>2, <2>3 DEF BreakerTypes
<1>3. CASE Tick
  <2>1. BreakerTypes'
    BY <1>0, <1>3, TickFacts DEF BreakerTypes
  <2>2. ClockOK(breaker)'
    BY <1>0, <1>3, TickFacts DEF ClockOK, Breakers
  <2> QED
    BY <2>1, <2>2
<1>4. CASE UNCHANGED breakerVars
  BY <1>4 DEF breakerVars, countVars, historyVars, BreakerTypes, ClockOK
<1> QED
  BY <1>1, <1>2, <1>3, <1>4 DEF BreakerNext

\* A request rejected past the window has read the clock, and the next one
\* finds the window over.
LEMMA OverdueStep ==
    ASSUME BreakerTypes, ClockOK(breaker), OverdueInv, [BreakerNext]_breakerVars
    PROVE  OverdueInv'
<1>0. Window \in Nat /\ overdue \in Nat /\ trips \in Nat /\ breaker \in Breakers
  BY BreakerAssumption DEF BreakerTypes
<1>1. CASE Start
  <2>1. CASE StaysOpen(breaker)
    <3>1. /\ breaker.closedElapsed < Window /\ Checked.state = "OPEN"
          /\ Checked.closedElapsed = breaker.closedAge /\ Checked \in Breakers /\ ClockOK(Checked)
      BY <2>1, CheckedCases
    <3>2. Finish(Checked, FALSE)
      BY <1>1, <2>1, StartFacts
    <3>3. breaker' = Checked
      BY <1>0, <3>1, <3>2, FinishCases
    <3>4. overdue = 0
      BY <1>0, <3>1 DEF OverdueInv
    <3>5. overdue' = IF breaker.closedAge = Window THEN 1 ELSE 0
      BY <1>1, <2>1, <3>4, StartFacts
    <3> QED
      BY <3>1, <3>3, <3>5 DEF OverdueInv
  <2>2. CASE ~StaysOpen(breaker)
    <3>1. overdue' = 0
      BY <1>1, <2>2, StartFacts
    <3> QED
      BY <3>1 DEF OverdueInv
  <2> QED
    BY <2>1, <2>2
<1>2. ASSUME NEW f \in {"failed", "succeeded"}, Complete(f)
      PROVE  OverdueInv'
  <2>1. Finish(breaker, f = "failed") /\ (f = "failed") \in BOOLEAN /\ overdue' = overdue
    BY <1>2, CompleteFacts
  <2>2. breaker' = breaker \/ breaker.state # "OPEN"
    BY <1>0, <2>1, FinishCases
  <2> QED
    BY <1>0, <2>1, <2>2 DEF OverdueInv
<1>3. CASE Tick
  BY <1>3, TickFacts DEF OverdueInv
<1>4. CASE UNCHANGED breakerVars
  BY <1>4 DEF breakerVars, historyVars, OverdueInv
<1> QED
  BY <1>1, <1>2, <1>3, <1>4 DEF BreakerNext

\* Between a trip and the next one failure_window passes, so that the window
\* of the failures rolls over: they are in the window before when the breaker
\* trips for the third time, and out of the rates after that.
LEMMA TripStep ==
    ASSUME BreakerTypes, ClockOK(breaker), TripInv, [BreakerNext]_breakerVars
    PROVE  TripInv'
<1>0. /\ Window \in Nat /\ Window > 0 /\ trips \in 0..3 /\ windowAge \in 0..(Window + 1)
      /\ counts.failed \in Nat /\ previous.failed \in Nat /\ breaker \in Breakers /\ trips \in Nat
      /\ breaker.closedAge \in 0..Window
  BY BreakerAssumption DEF BreakerTypes, TripInv, Counters, Breakers
<1>1. CASE Start
  <2>1. /\ counts' = Counts /\ previous' = Previous /\ windowAge' = WindowAge
        /\ rates' \in [failed : Nat, total : Nat]
        /\ counts'.failed \in Nat /\ previous'.failed \in Nat /\ windowAge' \in 0..Window
        /\ counts'.failed = 0 /\ (previous'.failed = 0 \/ windowAge' = Window) => rates'.failed = 0
    BY <1>1, StartFacts, WindowCases, RateFacts DEF Counters
  <2>2. \/ windowAge = Window + 1 /\ counts'.failed = 0 /\ previous'.failed = counts.failed
        \/ /\ windowAge <= Window /\ windowAge' = windowAge
           /\ counts'.failed = counts.failed /\ previous'.failed = previous.failed
    BY <2>1, WindowCases
  <2>3. CASE Checked.state = "OPEN"
    <3>1. IsOpen /\ StaysOpen(breaker) /\ Checked.closedAge = breaker.closedAge
          /\ Checked \in Breakers /\ ClockOK(Checked)
      BY <2>3, CheckedCases
    <3>2. Finish(Checked, FALSE)
      BY <1>1, <3>1, StartFacts
    <3>3. breaker' = Checked /\ trips' = trips
      BY <1>0, <2>3, <3>1, <3>2, FinishOther
    <3>4. IsOpen' /\ breaker'.closedAge = breaker.closedAge /\ trips' = trips /\ IsOpen
      BY <2>3, <3>1, <3>3 DEF IsOpen
    <3> QED
      BY <1>0, <2>1, <2>2, <3>4 DEF TripInv
  <2>4. CASE Checked.state # "OPEN"
    <3>1. Checked \in Breakers /\ ClockOK(Checked) /\ (IsOpen => breaker.closedAge = Window)
      BY <2>4, CheckedCases
    <3>2. /\ trips = 1 /\ counts'.failed > 0 => windowAge' >= Window
          /\ trips = 2 => counts'.failed = 0
          /\ trips = 3 => counts'.failed = 0 /\ (previous'.failed > 0 => windowAge' >= Window)
      BY <1>0, <2>1, <2>2, <3>1 DEF TripInv
    <3>3. trips = 3 => rates'.failed = 0
      BY <1>0, <2>1, <3>2
    <3>4. \/ breaker' = Checked /\ trips' = trips
          \/ TripBreaker(rates') /\ breaker'.state = "OPEN" /\ breaker'.closedAge = 0 /\ trips' = trips + 1
      <4>1. CASE Finish(Checked, FALSE)
        BY <1>0, <3>1, <4>1, FinishOther
      <4> QED
        BY <1>1, <4>1, StartFacts
    <3>5. CASE breaker' = Checked /\ trips' = trips
      <4>1. ~IsOpen'
        BY <2>4, <3>5 DEF IsOpen
      <4> QED
        BY <1>0, <2>1, <3>2, <3>3, <3>5, <4>1 DEF TripInv
    <3>6. CASE TripBreaker(rates') /\ breaker'.state = "OPEN" /\ breaker'.closedAge = 0 /\ trips' = trips + 1
      <4>1. trips # 3
        BY <2>1, <3>3, <3>6, NoFailureNoTrip
      <4>2. IsOpen'
        BY <3>6 DEF IsOpen
      <4>3. trips' \in 1..3 /\ trips \in 0..2
        BY <1>0, <3>6, <4>1
      <4> QED
        BY <1>0, <2>1, <3>2, <3>6, <4>2, <4>3 DEF TripInv
    <3> QED
      BY <3>4, <3>5, <3>6
  <2> QED
    BY <2>3, <2>4
<1>2. ASSUME NEW f \in {"failed", "succeeded"}, Complete(f)
      PROVE  TripInv'
  <2>1. /\ Finish(breaker, f = "failed") /\ (f = "failed") \in BOOLEAN
        /\ counts'.failed \in Nat /\ (f = "succeeded" => counts'.failed = counts.failed)
        /\ windowAge' = windowAge /\ previous' = previous /\ rates' = rates
    BY <1>2, CompleteFacts DEF Counters
  <2>3. CASE f = "failed"
    <3>1. trips' = 0 \/ (trips' = 1 /\ IsOpen' /\ breaker'.closedAge = 0)
      <4>1. Finish(breaker, TRUE)
        BY <2>1, <2>3
      <4> QED
        BY <1>0, <4>1, FinishFailed DEF IsOpen
    <3> QED
      BY <1>0, <2>1, <3>1 DEF TripInv
  <2>4. CASE f = "succeeded"
    <3>1. \/ breaker' = breaker /\ trips' = trips
          \/ ~IsOpen /\ IsOpen' /\ TripBreaker(rates) /\ breaker'.closedAge = 0 /\ trips' = trips + 1
      <4>1. Finish(breaker, FALSE) /\ rates' = rates
        BY <2>1, <2>4
      <4> QED
        BY <1>0, <4>1, FinishOther DEF IsOpen
    <3>2. CASE breaker' = breaker /\ trips' = trips
      <4>1. IsOpen' <=> IsOpen
        BY <3>2 DEF IsOpen
      <4> QED
        BY <2>1, <2>4, <3>2, <4>1 DEF TripInv
    <3>3. CASE ~IsOpen /\ IsOpen' /\ TripBreaker(rates) /\ breaker'.closedAge = 0 /\ trips' = trips + 1
      <4>1. trips # 3
        BY <3>3, NoFailureNoTrip DEF TripInv, BreakerTypes
      <4>2. trips' \in 1..3 /\ trips \in 0..2
        BY <1>0, <3>3, <4>1
      <4> QED
        BY <1>0, <2>1, <2>4, <3>3, <4>2 DEF TripInv
    <3> QED
      BY <3>1, <3>2, <3>3
  <2> QED
    BY <2>3, <2>4
<1>3. CASE Tick
  <2>1. /\ UNCHANGED <<counts, previous, rates, trips>> /\ (IsOpen' <=> IsOpen)
        /\ breaker'.closedAge = IF breaker.closedAge < Window THEN breaker.closedAge + 1 ELSE Window
        /\ windowAge' = IF windowAge <= Window THEN windowAge + 1 ELSE Window + 1
    BY <1>3, TickFacts DEF IsOpen
  <2> QED
    BY <1>0, <2>1 DEF TripInv
<1>4. CASE UNCHANGED breakerVars
  BY <1>4 DEF breakerVars, countVars, historyVars, TripInv, IsOpen
<1> QED
  BY <1>1, <1>2, <1>3, <1>4 DEF BreakerNext

\* The invariant holds when the service starts and every step keeps it.
LEMMA BreakerInvHolds == BreakerSpec => []BreakerInv
<1>1. BreakerInit => BreakerInv
  <2> SUFFICES ASSUME BreakerInit PROVE BreakerInv
    OBVIOUS
  <2>1. /\ breaker = Closed /\ phase \in 0..(Window - 1) /\ windowAge = 0 /\ counts = Zero /\ previous = Zero
        /\ rates = [failed |-> 0, total |-> 0] /\ running = 0 /\ overdue = 0 /\ trips = 0
    BY DEF BreakerInit
  <2>2. Closed \in Breakers /\ ClockOK(Closed)
    BY BreakerAssumption DEF Closed, Breakers, ClockOK
  <2>3. Zero \in Counters /\ Zero.total = 0
    BY DEF Zero, Counters
  <2>4. BreakerTypes
    BY <2>1, <2>2, <2>3, BreakerAssumption DEF BreakerTypes
  <2> QED
    BY <2>1, <2>2, <2>4 DEF BreakerInv, OverdueInv, TripInv
<1>2. BreakerInv /\ [BreakerNext]_breakerVars => BreakerInv'
  BY BreakerTypesStep, OverdueStep, TripStep DEF BreakerInv
<1> QED
  BY <1>1, <1>2, PTL DEF BreakerSpec

-----------------------------------------------------------------------------
\* The breaker keeps its types, and the counters of a window add up although
\* requests begin in one window and end in another.
THEOREM BreakerTypeCorrect == BreakerSpec => []BreakerTypeOK
<1>1. BreakerInv => BreakerTypeOK
  BY BreakerAssumption DEF BreakerInv, BreakerTypes, BreakerTypeOK, Breakers, Counters
<1> QED
  BY <1>1, BreakerInvHolds, PTL

\* An open breaker rejects one request at most past its window because it is
\* open, for any length of the window: the clock is of the request before.
THEOREM RejectsOnePastWindow == BreakerSpec => []OverdueOnce
<1>1. BreakerInv => OverdueOnce
  BY DEF BreakerInv, OverdueInv, OverdueOnce
<1> QED
  BY <1>1, BreakerInvHolds, PTL

\* The same failures trip the breaker three times at most, whatever the window
\* and the threshold are and however the requests fall into the windows.
THEOREM TripsBounded == BreakerSpec => []TripsOnOldFailures
<1>1. BreakerInv => TripsOnOldFailures
  BY DEF BreakerInv, TripInv, TripsOnOldFailures
<1> QED
  BY <1>1, BreakerInvHolds, PTL

\* No handler is called within failure_window of a trip, although those called
\* before it are still running.
THEOREM OpenForItsWindow == BreakerSpec => OpenHolds
<1> DEFINE Holds == running' > running /\ breaker.state = "OPEN" => breaker.closedAge = Window
<1>1. BreakerInv /\ [BreakerNext]_breakerVars => [Holds]_breakerVars
  <2> SUFFICES ASSUME BreakerInv, [BreakerNext]_breakerVars, running' > running, breaker.state = "OPEN"
               PROVE  breaker.closedAge = Window
    OBVIOUS
  <2>0. running \in Nat /\ BreakerTypes /\ ClockOK(breaker)
    BY BreakerAssumption DEF BreakerInv, BreakerTypes
  <2>1. CASE Start
    <3>1. ~StaysOpen(breaker)
      <4>1. running' = running \/ ~StaysOpen(breaker)
        BY <2>0, <2>1, StartFacts
      <4> QED
        BY <2>0, <4>1
    <3> QED
      BY <2>0, <3>1, CheckedCases DEF IsOpen
  <2>2. ASSUME NEW f \in {"failed", "succeeded"}, Complete(f) PROVE FALSE
    BY <2>0, <2>2, CompleteFacts
  <2>3. CASE Tick \/ UNCHANGED breakerVars
    BY <2>0, <2>3 DEF Tick, breakerVars
  <2> QED
    BY <2>1, <2>2, <2>3 DEF BreakerNext
<1> QED
  BY <1>1, BreakerInvHolds, PTL DEF BreakerSpec, OpenHolds

\* The breaker is closed only after it was half open for failure_window, the
\* last time it became half open.
THEOREM HalfOpenForItsWindow == BreakerSpec => HalfOpenHolds
<1> DEFINE Holds == breaker.state # "CLOSED" /\ breaker'.state = "CLOSED" =>
                      breaker.state = "HALF_OPEN" /\ breaker.halfAge = Window
<1>1. BreakerInv /\ [BreakerNext]_breakerVars => [Holds]_breakerVars
  <2> SUFFICES ASSUME BreakerInv, [BreakerNext]_breakerVars, breaker.state # "CLOSED", breaker'.state = "CLOSED"
               PROVE  breaker.state = "HALF_OPEN" /\ breaker.halfAge = Window
    OBVIOUS
  <2>0. BreakerTypes /\ ClockOK(breaker) /\ trips \in Nat /\ breaker \in Breakers
    BY DEF BreakerInv, BreakerTypes
  <2>1. CASE Start
    <3>1. Checked \in Breakers /\ ClockOK(Checked)
      BY <2>0, CheckedCases
    <3>2. breaker' = Checked
      <4>1. CASE Finish(Checked, FALSE)
        BY <2>0, <3>1, <4>1, FinishCases
      <4> QED
        BY <2>0, <2>1, <4>1, StartFacts
    <3> QED
      BY <2>0, <3>2, CheckedCases
  <2>2. ASSUME NEW f \in {"failed", "succeeded"}, Complete(f) PROVE FALSE
    <3>1. Finish(breaker, f = "failed") /\ (f = "failed") \in BOOLEAN
      BY <2>0, <2>2, CompleteFacts
    <3> QED
      BY <2>0, <3>1, FinishCases
  <2>3. ~Tick
    BY <2>0, TickFacts
  <2>4. ~UNCHANGED breakerVars
    BY DEF breakerVars
  <2> QED
    BY <2>1, <2>2, <2>3, <2>4 DEF BreakerNext
<1> QED
  BY <1>1, BreakerInvHolds, PTL DEF BreakerSpec, HalfOpenHolds
=============================================================================
