--------------------------- MODULE TcpConnection ---------------------------
(***************************************************************************)
(* How MercurySyncTCPConnection (hedra/distributed/connection/tcp) pairs   *)
(* responses with requests.  As over UDP a response carries the event name *)
(* of its request and no request id; here it goes to the newest waiter     *)
(* under that name, and what cannot be decoded goes to the newest waiter   *)
(* of the newest call.                                                     *)
(*                                                                         *)
(* Requests are numbered in the order they get their permit, a response    *)
(* by the request it answers, and a connection by the request that opened  *)
(* it.  The peer runs a task per request and answers in any order.  TCP    *)
(* keeps every byte and no message boundary: read() is given whatever      *)
(* arrived, and zstandard decodes the first frame of it.                   *)
(***************************************************************************)
EXTENDS Integers, Sequences, FiniteSets, SequencesExt, Functions

CONSTANTS
    Events,          \* event names
    Requests,        \* how many requests are sent
    MaxConcurrency,  \* MERCURY_SYNC_MAX_CONCURRENCY
    Faults           \* bound on lost messages, broken chunks and streams read

ASSUME TcpAssumption ==
    /\ IsFiniteSet(Events) /\ Requests \in Nat
    /\ MaxConcurrency \in Nat /\ Faults \in Nat

VARIABLES
    sent,       \* requests that got their permit so far
    pc,         \* "idle", "connecting", "waiting", "answered" or "failed"
    event,      \* the event name of each request sent
    streams,    \* requests that are stream() calls
    answer,     \* the response each answered request got
    permits,    \* free permits of _semaphore
    waiters,    \* _waiters: the requests whose futures are in the deques
    lastCall,   \* _last_call
    transport,  \* _client_transports of the peer: a connection, 0 for none
    closing,    \* connections that are closed
    inFlight,   \* requests under way, with the peer or being answered
    via,        \* the connection each request was written to
    broken,     \* responses of which one part was read
    faults,     \* number of faults so far
    lost,       \* history: responses lost, per event
    stolen,     \* history: waiters taken by something else, per event
    alone       \* history: requests that never met another of their event in flight

callVars == <<sent, event, streams, via, alone>>
faultVars == <<faults, lost, stolen>>
vars == <<callVars, pc, answer, permits, waiters, lastCall, transport, closing, inFlight, broken, faultVars>>

Ids == 1..Requests

Init ==
    /\ sent = 0
    /\ pc = [r \in Ids |-> "idle"]
    /\ event \in [Ids -> Events]
    /\ streams \in SUBSET Ids
    /\ answer = [r \in Ids |-> 0]
    /\ permits = MaxConcurrency
    /\ waiters = [e \in Events |-> <<>>]
    /\ lastCall = <<>>
    /\ transport = 0
    /\ closing = {}
    /\ inFlight = {}
    /\ via = [r \in Ids |-> 0]
    /\ broken = {}
    /\ faults = 0
    /\ lost = [e \in Events |-> 0]
    /\ stolen = [e \in Events |-> 0]
    /\ alone = {}

Of(e) == {r \in inFlight : event[r] = e}

Fails(r) == pc' = [pc EXCEPT ![r] = "failed"]
MayFault == faults < Faults /\ faults' = faults + 1

-----------------------------------------------------------------------------
(* send(), send_bytes() and stream() *)

\* The request is written, then the waiter is put in its deque.  A closed
\* connection takes what is written to it and drops it.
Write(r, t) ==
    /\ via' = [via EXCEPT ![r] = t]
    /\ inFlight' = IF t \in closing THEN inFlight ELSE inFlight \cup {r}
    /\ lost' = IF t \in closing THEN [lost EXCEPT ![event[r]] = @ + 1] ELSE lost
    /\ waiters' = [waiters EXCEPT ![event[r]] = Append(@, r)]
    /\ pc' = [pc EXCEPT ![r] = "waiting"]
    /\ alone' = IF Of(event[r]) = {} THEN alone \cup {r} ELSE {q \in alone : event[q] # event[r]}

\* Up to the first await: the call is on record, and the request is written
\* if there is a connection.
Call(r) ==
    /\ r = sent + 1 /\ permits > 0
    /\ sent' = r
    /\ lastCall' = Append(lastCall, event[r])
    /\ UNCHANGED <<event, streams, answer, transport, closing, broken, faults, stolen>>

\* send() on a connection that is not closed, stream() on any: it writes to a
\* closed one after it reported the error.
Send(r) ==
    /\ Call(r)
    /\ transport # 0
    /\ transport \notin closing \/ r \in streams
    /\ permits' = permits - 1
    /\ Write(r, transport)

\* send() without a connection opens one ...
SendConnects(r) ==
    /\ Call(r)
    /\ transport = 0 /\ r \notin streams
    /\ permits' = permits - 1
    /\ pc' = [pc EXCEPT ![r] = "connecting"]
    /\ UNCHANGED <<via, alone, waiters, inFlight, lost>>

\* ... and returns an error when its connection is closed; so does stream()
\* without one.
SendFails(r) ==
    /\ Call(r)
    /\ IF r \in streams THEN transport = 0 ELSE transport \in closing
    /\ Fails(r)
    /\ UNCHANGED <<permits, via, alone, waiters, inFlight, lost>>

\* connect_client returns: the connection replaces one opened meanwhile.
Connected(r) ==
    /\ pc[r] = "connecting"
    /\ transport' = r
    /\ Write(r, r)
    /\ UNCHANGED <<sent, event, streams, answer, permits, lastCall, closing, broken, faults, stolen>>

\* connect_client raises, after its retries.
ConnectFails(r) ==
    /\ pc[r] = "connecting"
    /\ Fails(r)
    /\ permits' = permits + 1
    /\ UNCHANGED <<callVars, answer, waiters, lastCall, transport, closing, inFlight, broken, faultVars>>

\* Mutant: the waiter leaves its deque.
TimeoutRemoves(r) ==
    /\ pc[r] = "waiting"
    /\ Fails(r)
    /\ permits' = permits + 1
    /\ waiters' = [waiters EXCEPT ![event[r]] = SelectSeq(@, LAMBDA q : q # r)]
    /\ UNCHANGED <<callVars, answer, lastCall, transport, closing, inFlight, broken, faultVars>>

\* wait_for cancels the waiter, which stays in its deque.
Timeout(r) ==
    /\ pc[r] = "waiting"
    /\ Fails(r)
    /\ permits' = permits + 1
    /\ UNCHANGED <<callVars, answer, waiters, lastCall, transport, closing, inFlight, broken, faultVars>>

-----------------------------------------------------------------------------
(* read() *)

\* set_result, if the waiter was not cancelled: with the response of s, or with
\* None if s is 0.  send() reads None as an error; stream() then pops a queue
\* that only requests of the peers fill, and fails too.
Resolve(r, s) ==
    \/ /\ pc[r] # "waiting"
       /\ UNCHANGED <<pc, answer, permits>>
    \/ /\ pc[r] = "waiting"
       /\ permits' = permits + 1
       /\ IF s # 0 /\ r \notin streams
          THEN pc' = [pc EXCEPT ![r] = "answered"] /\ answer' = [answer EXCEPT ![r] = s]
          ELSE Fails(r) /\ UNCHANGED answer

\* Mutant: the oldest waiter.
PopOldest(e, s) ==
    \/ /\ waiters[e] = <<>>
       /\ UNCHANGED <<waiters, pc, answer, permits>>
    \/ /\ waiters[e] # <<>>
       /\ waiters' = [waiters EXCEPT ![e] = Tail(@)]
       /\ Resolve(Head(waiters[e]), s)

\* The newest waiter of the event leaves its deque.
Pop(e, s) ==
    \/ /\ waiters[e] = <<>>
       /\ UNCHANGED <<waiters, pc, answer, permits>>
    \/ /\ waiters[e] # <<>>
       /\ waiters' = [waiters EXCEPT ![e] = Front(@)]
       /\ Resolve(Last(waiters[e]), s)

Steal(e) == stolen' = IF waiters[e] = <<>> THEN stolen ELSE [stolen EXCEPT ![e] = @ + 1]

\* Mutant: the event is that of the newest call.
ReadResponseOfLast(s) ==
    /\ s \in inFlight
    /\ \A q \in broken : via[q] # via[s]
    /\ inFlight' = inFlight \ {s}
    /\ Pop(IF lastCall = <<>> THEN event[s] ELSE Last(lastCall), s)
    /\ UNCHANGED <<callVars, lastCall, transport, closing, broken, faultVars>>

\* A response.
ReadResponse(s) ==
    /\ s \in inFlight
    /\ \A q \in broken : via[q] # via[s]
    /\ inFlight' = inFlight \ {s}
    /\ Pop(event[s], s)
    /\ UNCHANGED <<callVars, lastCall, transport, closing, broken, faultVars>>

\* A chunk that cannot be decoded: the newest call is taken off the record and
\* its newest waiter fails.  The error is sent to a closed connection only.
ReadUndecodable ==
    IF lastCall = <<>> THEN UNCHANGED <<lastCall, waiters, pc, answer, permits, stolen>>
    ELSE /\ lastCall' = Front(lastCall)
         /\ Pop(Last(lastCall), 0)
         /\ Steal(Last(lastCall))

\* The first part of a response ...
ReadPart(s) ==
    /\ s \in inFlight \ broken
    /\ \A q \in broken : via[q] # via[s]
    /\ MayFault
    /\ broken' = broken \cup {s}
    /\ ReadUndecodable
    /\ UNCHANGED <<callVars, transport, closing, inFlight, lost>>

\* ... and the rest of it.
ReadRest(s) ==
    /\ s \in broken
    /\ broken' = broken \ {s}
    /\ inFlight' = inFlight \ {s}
    /\ lost' = [lost EXCEPT ![event[s]] = @ + 1]
    /\ ReadUndecodable
    /\ UNCHANGED <<callVars, transport, closing, faults>>

\* A part of a peer's request to this node.
ReadPartOfRequest ==
    /\ MayFault
    /\ ReadUndecodable
    /\ UNCHANGED <<callVars, transport, closing, inFlight, broken, lost>>

\* A stream_connect or stream message of a peer: besides being answered it
\* takes a waiter of this node's own requests.
ReadStream(e) ==
    /\ MayFault
    /\ Pop(e, 0)
    /\ Steal(e)
    /\ UNCHANGED <<callVars, lastCall, transport, closing, inFlight, broken, lost>>

-----------------------------------------------------------------------------
\* The second message of a chunk, or one whose handler raises.
Lose(s) ==
    /\ s \in inFlight \ broken
    /\ MayFault
    /\ inFlight' = inFlight \ {s}
    /\ lost' = [lost EXCEPT ![event[s]] = @ + 1]
    /\ UNCHANGED <<callVars, pc, answer, permits, waiters, lastCall, transport, closing, broken, stolen>>

\* A connection is closed by the peer, or this node's by close(); nothing puts
\* another one in its place.
ConnectionLost(t) ==
    /\ t \in {via[r] : r \in Ids} \ ({0} \cup closing)
    /\ closing' = closing \cup {t}
    /\ inFlight' = {r \in inFlight : via[r] # t}
    /\ broken' = {r \in broken : via[r] # t}
    /\ lost' = [e \in Events |-> lost[e] + Cardinality({r \in inFlight : via[r] = t /\ event[r] = e})]
    /\ UNCHANGED <<callVars, pc, answer, permits, waiters, lastCall, transport, faults, stolen>>

Next ==
    \/ \E r \in Ids :
        \/ Send(r) \/ SendConnects(r) \/ SendFails(r) \/ Connected(r) \/ ConnectFails(r) \/ Timeout(r)
        \/ ReadResponse(r) \/ ReadPart(r) \/ ReadRest(r) \/ Lose(r) \/ ConnectionLost(r)
    \/ ReadPartOfRequest
    \/ \E e \in Events : ReadStream(e)

\* Connecting ends, by an error at the latest, and the loop fires its timers.
Spec ==
    /\ Init /\ [][Next]_vars
    /\ \A r \in Ids : WF_vars(Connected(r) \/ ConnectFails(r)) /\ WF_vars(Timeout(r))

-----------------------------------------------------------------------------
\* The variables keep their types; every permit that is not free belongs to a
\* request under way.
TypeOK ==
    /\ sent \in 0..Requests /\ transport \in 0..Requests
    /\ pc \in [Ids -> {"idle", "connecting", "waiting", "answered", "failed"}]
    /\ \A e \in Events : Range(waiters[e]) \subseteq 1..sent
    /\ broken \subseteq inFlight /\ inFlight \subseteq 1..sent
    /\ closing \subseteq Ids
    /\ permits = MaxConcurrency - Cardinality({r \in Ids : pc[r] \in {"connecting", "waiting"}})

\* A request is answered by a response to its own event, whatever is lost or
\* broken, although the code looks some events up in _last_call.  Of its own
\* event it may be any: two requests in flight swap their responses when the
\* peer answers in order, and after a timeout one gets the late response.
OwnEvent == \A r \in Ids : pc[r] = "answered" => event[answer[r]] = event[r]

\* Every response finds a waiter unless something else took one, and a waiter
\* stays behind only for a response that was lost.
WaitersAccounted == \A e \in Events :
    /\ Cardinality(Of(e)) <= Len(waiters[e]) + stolen[e]
    /\ Len(waiters[e]) <= Cardinality(Of(e)) + lost[e]

\* The waiters that timeouts and losses leave behind do no harm: a request that
\* meets no other response of its event is answered by its own, if it waits.
AnsweredAlone ==
    [][\A r \in alone \ streams : ReadResponse(r) /\ pc[r] = "waiting" =>
        pc'[r] = "answered" /\ answer'[r] = r]_vars

\* Every send() returns and frees its permit.
SendReturns == \A r \in Ids : pc[r] \in {"connecting", "waiting"} ~> pc[r] \in {"answered", "failed"}
=============================================================================
