--------------------------- MODULE UdpConnection ---------------------------
(***************************************************************************)
(* How MercurySyncUDPConnection (hedra/distributed/connection/udp) pairs   *)
(* responses with requests.  A response carries the event name of its      *)
(* request and no request id: it goes to the oldest waiter future queued   *)
(* under that name.  The names do not interact, so the module follows one. *)
(*                                                                         *)
(* Requests are numbered in the order of the send() calls, and a response  *)
(* by the request it answers.  One node sends, its peers answer; their     *)
(* datagrams may be lost, doubled or overtaken.  The receiving side is the *)
(* same code as the sending one and keeps no state.                        *)
(***************************************************************************)
EXTENDS Integers, Sequences, SequencesExt

CONSTANTS
    Requests,    \* how many requests are sent
    Losses,      \* bound on lost datagrams and failing handlers
    Duplicates,  \* bound on doubled datagrams
    Overtakes    \* bound on how often a datagram or a handler overtakes

ASSUME UdpAssumption ==
    Requests \in Nat /\ Losses \in Nat /\ Duplicates \in Nat /\ Overtakes \in Nat

VARIABLES
    sent,       \* requests sent so far
    pc,         \* "idle", "waiting", "answered" or "timedOut"
    answer,     \* the response each answered request got
    queue,      \* _waiters[event_name]: futures, pending or cancelled
    ready,      \* _receive_response tasks about to run, in the loop's order
    parked,     \* those waiting in Queue.get()
    toPeer,     \* request datagrams under way
    handling,   \* the peers' _read tasks
    toClient,   \* response datagrams under way
    lost, duplicated, overtaken,  \* history: what the network did
    open        \* the transport is not aborted

clientVars == <<sent, pc, answer, queue, ready, parked, open>>
netVars == <<toPeer, handling, toClient, lost, duplicated, overtaken>>
vars == <<clientVars, netVars>>

Ids == 1..Requests

Init ==
    /\ sent = 0
    /\ pc = [r \in Ids |-> "idle"]
    /\ answer = [r \in Ids |-> 0]
    /\ queue = <<>>
    /\ ready = <<>>
    /\ parked = <<>>
    /\ toPeer = <<>>
    /\ handling = <<>>
    /\ toClient = <<>>
    /\ lost = 0
    /\ duplicated = 0
    /\ overtaken = 0
    /\ open = TRUE

-----------------------------------------------------------------------------
(* The sending node *)

\* put_nowait: the first task parked in get() is woken.
PutWaiter(r) ==
    /\ queue' = Append(queue, r)
    /\ IF parked = <<>>
       THEN UNCHANGED <<ready, parked>>
       ELSE /\ ready' = Append(ready, Head(parked))
            /\ parked' = Tail(parked)

\* send() and send_bytes() up to their await.
Send(r) ==
    /\ r = sent + 1
    /\ open
    /\ sent' = r
    /\ toPeer' = Append(toPeer, r)
    /\ PutWaiter(r)
    /\ pc' = [pc EXCEPT ![r] = "waiting"]
    /\ UNCHANGED <<answer, open, handling, toClient, lost, duplicated, overtaken>>

\* sendto raises on an aborted transport: reported as a timeout.
SendFails(r) ==
    /\ r = sent + 1
    /\ ~open
    /\ sent' = r
    /\ pc' = [pc EXCEPT ![r] = "timedOut"]
    /\ UNCHANGED <<answer, queue, ready, parked, open, netVars>>

\* Mutant: the waiter of a request that timed out leaves the queue.
TimeoutRemoves(r) ==
    /\ pc[r] = "waiting"
    /\ pc' = [pc EXCEPT ![r] = "timedOut"]
    /\ queue' = SelectSeq(queue, LAMBDA w : w # r)
    /\ UNCHANGED <<sent, answer, ready, parked, open, netVars>>

\* wait_for cancels the waiter, which stays in the queue, and send() returns
\* a message with an error.
Timeout(r) ==
    /\ pc[r] = "waiting"
    /\ pc' = [pc EXCEPT ![r] = "timedOut"]
    /\ UNCHANGED <<sent, answer, queue, ready, parked, open, netVars>>

\* _receive_response with a waiter queued: the oldest one gets the result;
\* set_result on a cancelled one raises InvalidStateError, which is dropped
\* together with the response.
ReceiveResponse ==
    /\ ready # <<>> /\ queue # <<>>
    /\ ready' = Tail(ready)
    /\ queue' = Tail(queue)
    /\ IF pc[Head(queue)] = "waiting"
       THEN /\ pc' = [pc EXCEPT ![Head(queue)] = "answered"]
            /\ answer' = [answer EXCEPT ![Head(queue)] = Head(ready)]
       ELSE UNCHANGED <<pc, answer>>
    /\ UNCHANGED <<sent, parked, open, netVars>>

\* _receive_response without one: bool(event_waiter) is true of any
\* asyncio.Queue, so the task waits in get() for the next request.
ReceiveParks ==
    /\ ready # <<>> /\ queue = <<>>
    /\ ready' = Tail(ready)
    /\ parked' = Append(parked, Head(ready))
    /\ UNCHANGED <<sent, pc, answer, queue, open, netVars>>

\* close(): the transport is aborted.
Close ==
    /\ open
    /\ open' = FALSE
    /\ UNCHANGED <<sent, pc, answer, queue, ready, parked, netVars>>

-----------------------------------------------------------------------------
(* The network and the peers *)

\* The i-th of a sequence of datagrams or handlers is next; datagrams may
\* overtake each other and several peers answer, at their own pace.
Picks(i) ==
    /\ i > 1 => overtaken < Overtakes
    /\ overtaken' = IF i > 1 THEN overtaken + 1 ELSE overtaken

\* read() at a peer: a task for the handler.
PeerRead == \E i \in 1..Len(toPeer) :
    /\ Picks(i)
    /\ handling' = Append(handling, toPeer[i])
    /\ toPeer' = RemoveAt(toPeer, i)
    /\ UNCHANGED <<clientVars, toClient, lost, duplicated>>

\* _read() after its handler: the response goes back.
PeerRespond == \E i \in 1..Len(handling) :
    /\ Picks(i)
    /\ toClient' = Append(toClient, handling[i])
    /\ handling' = RemoveAt(handling, i)
    /\ UNCHANGED <<clientVars, toPeer, lost, duplicated>>

\* The handler raises; _read() drops the exception and sends nothing.
PeerRaises == \E i \in 1..Len(handling) :
    /\ lost < Losses
    /\ lost' = lost + 1
    /\ handling' = RemoveAt(handling, i)
    /\ UNCHANGED <<clientVars, toPeer, toClient, duplicated, overtaken>>

\* read() of a response: a task for _receive_response.
ClientRead == \E i \in 1..Len(toClient) :
    /\ Picks(i)
    /\ open
    /\ ready' = Append(ready, toClient[i])
    /\ toClient' = RemoveAt(toClient, i)
    /\ UNCHANGED <<sent, pc, answer, queue, parked, open, toPeer, handling, lost, duplicated>>

LoseRequest == \E i \in 1..Len(toPeer) :
    /\ lost < Losses
    /\ lost' = lost + 1
    /\ toPeer' = RemoveAt(toPeer, i)
    /\ UNCHANGED <<clientVars, handling, toClient, duplicated, overtaken>>

LoseResponse == \E i \in 1..Len(toClient) :
    /\ lost < Losses
    /\ lost' = lost + 1
    /\ toClient' = RemoveAt(toClient, i)
    /\ UNCHANGED <<clientVars, toPeer, handling, duplicated, overtaken>>

\* Also what follows from a doubled request: its handler runs twice.
DuplicateResponse == \E i \in 1..Len(toClient) :
    /\ duplicated < Duplicates
    /\ duplicated' = duplicated + 1
    /\ toClient' = Append(toClient, toClient[i])
    /\ UNCHANGED <<clientVars, toPeer, handling, lost, overtaken>>

Next ==
    \/ \E r \in Ids : Send(r) \/ SendFails(r) \/ Timeout(r)
    \/ ReceiveResponse
    \/ ReceiveParks
    \/ Close
    \/ PeerRead
    \/ PeerRespond
    \/ PeerRaises
    \/ ClientRead
    \/ LoseRequest
    \/ LoseResponse
    \/ DuplicateResponse

Spec == Init /\ [][Next]_vars

(***************************************************************************)
(* The event loop runs ready tasks and fires timers.  That datagrams move  *)
(* and handlers return is an assumption on the environment; with Losses    *)
(* they may still be dropped.                                              *)
(***************************************************************************)
Fairness ==
    /\ \A r \in Ids : WF_vars(Timeout(r))
    /\ WF_vars(ReceiveResponse \/ ReceiveParks)
    /\ WF_vars(PeerRead) /\ WF_vars(PeerRespond) /\ WF_vars(ClientRead)

FairSpec == Spec /\ Fairness

-----------------------------------------------------------------------------
\* The variables keep their types; a request is answered by some response.
TypeOK ==
    /\ sent \in 0..Requests
    /\ pc \in [Ids -> {"idle", "waiting", "answered", "timedOut"}]
    /\ answer \in [Ids -> 0..Requests]
    /\ queue \in Seq(Ids) /\ ready \in Seq(Ids) /\ parked \in Seq(Ids)
    /\ toPeer \in Seq(Ids) /\ handling \in Seq(Ids) /\ toClient \in Seq(Ids)
    /\ \A r \in Ids : answer[r] # 0 <=> pc[r] = "answered"
    /\ open \in BOOLEAN

Ordered == overtaken = 0 /\ duplicated = 0

\* As long as the network is ordered and loses nothing a request gets its
\* own response although requests time out: a late response meets the
\* cancelled waiter of its own request.
OwnResponse ==
    Ordered /\ lost = 0 => \A r \in Ids : pc[r] = "answered" => answer[r] = r

\* When datagrams are lost, a request may get the response of a later one,
\* never of an earlier one: send() returns no stale answer.
AnswersNotOlder == Ordered => \A r \in Ids : pc[r] = "answered" => answer[r] >= r

\* A response parked in get() never sits beside a queued waiter unless a
\* task that will serve one of them is about to run.
NoLostWakeup == parked # <<>> /\ queue # <<>> => ready # <<>>

\* Every send() returns, with a response or with the timeout message.
SendReturns == \A r \in Ids : pc[r] = "waiting" ~> pc[r] \in {"answered", "timedOut"}

\* Every waiter leaves the queue, those of timed-out requests included,
\* unless something is lost or the connection is closed.
WaitersLeave ==
    [](lost = 0 /\ open) => \A r \in Ids : Contains(queue, r) ~> ~Contains(queue, r)
=============================================================================
