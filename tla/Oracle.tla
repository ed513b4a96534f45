------------------------------- MODULE Oracle -------------------------------
(***************************************************************************)
(* Requests of components to oracles (OracleService and the request part   *)
(* of InstanceStore).  Every function of the service calls a component     *)
(* before it is done: the oracle when a request is made or cancelled, the  *)
(* requester when a response is delivered.  The code of that component may *)
(* call the service again, so a function is modelled as two steps, its     *)
(* part before the call and its part after it, with a stack of calls in    *)
(* between.  A call that reverts takes everything done since back.         *)
(*                                                                         *)
(* The components are the user's: what they do when they are called, and   *)
(* which other components they make call the service then, is left open.   *)
(***************************************************************************)
EXTENDS ObjectLifecycle, Naturals, Sequences, SequencesExt

CONSTANTS
  Requesters,   \* components that send requests
  Oracles,      \* oracle components
  ProductOf,    \* the product of a component: the product cluster it is in
  Responses,    \* response data of an oracle
  NoData,       \* empty data
  MaxRequests,  \* requests ever created
  MaxTime,      \* last block time
  MaxDepth      \* nested calls of the service in one transaction

ASSUME OracleAssumption ==
  /\ ProductOf \in [Requesters \union Oracles -> Requesters]
  /\ NoData \notin Responses
  /\ MaxRequests \in Nat
  /\ MaxTime \in Nat \ {0}
  /\ MaxDepth \in Nat

VARIABLES
  now,        \* block.timestamp
  request,    \* RequestInfo and state of every request
  delivered,  \* the responses whose delivery the requester has accepted
  calls       \* the service functions under way in the current transaction

vars == <<now, request, delivered, calls>>

RequestIds == 1..MaxRequests
Components == Requesters \union Oracles

\* Request and response data, and who asks and answers.  Zero is "not responded".
RequestInfoType ==
  [state : RequestStates, requester : Components, oracle : Components,
   expiredAt : 0..MaxTime, respondedAt : 0..MaxTime,
   response : Responses \union {NoData}, isCancelled : BOOLEAN]

NoRequest == [state |-> NONE]

Init ==
  /\ now = 1
  /\ request = [id \in RequestIds |-> NoRequest]
  /\ delivered = [id \in RequestIds |-> <<>>]
  /\ calls = <<>>

----------------------------------------------------------------------------
(* Calls                                                                   *)

\* A function calls a component.  before is the store when the function
\* started, atCall the store when it makes the call: request and delivered.
Call(function, id, data, atCall) ==
  /\ Len(calls) < MaxDepth   \* bound
  /\ calls' = Append(calls,
       [function |-> function, id |-> id, data |-> data,
        before |-> [request |-> request, delivered |-> delivered],
        atCall |-> [request |-> atCall, delivered |-> delivered]])
  /\ UNCHANGED <<now, delivered>>

Returned == calls' = Front(calls)

RestoredTo(store) ==
  /\ request' = store.request
  /\ delivered' = store.delivered

----------------------------------------------------------------------------
(* Service functions up to the call of the component                       *)

Request(r, o, id, expiryAt) ==
  /\ request[id] = NoRequest
  /\ \A i \in 1..(id - 1) : request[i] # NoRequest
  /\ ProductOf[o] = ProductOf[r]
  /\ expiryAt >= now
  /\ request' = [request EXCEPT ![id] =
       [state |-> "ACTIVE", requester |-> r, oracle |-> o, expiredAt |-> expiryAt,
        respondedAt |-> 0, response |-> NoData, isCancelled |-> FALSE]]
  /\ Call("request", id, NoData, request')

IsExpired(id) == request[id].expiredAt < now

\* Mutant: the expiry is not checked.
RespondM(o, id, data) ==
  /\ request[id].state = "ACTIVE"
  /\ request[id].oracle = o
  /\ request' = [request EXCEPT ![id].response = data, ![id].respondedAt = now]
  /\ Call("respond", id, data, request')

Respond(o, id, data) ==
  /\ request[id].state = "ACTIVE"
  /\ request[id].oracle = o
  /\ ~IsExpired(id)
  /\ request' = [request EXCEPT ![id].response = data, ![id].respondedAt = now]
  /\ Call("respond", id, data, request')

\* What resend and cancel require of the caller and the request.
RequesterMayAct(r, id) ==
  /\ request[id].state \in {"ACTIVE", "FAILED"}
  /\ request[id].requester = r
  /\ ~IsExpired(id)

Resend(r, id) ==
  /\ RequesterMayAct(r, id)
  /\ UNCHANGED request
  /\ Call("resend", id, request[id].response, request)

\* Mutant: the request is marked as cancelled and keeps its state.
CancelM(r, id) ==
  /\ RequesterMayAct(r, id)
  /\ request' = [request EXCEPT ![id].isCancelled = TRUE]
  /\ Call("cancel", id, NoData, request')

Cancel(r, id) ==
  /\ RequesterMayAct(r, id)
  /\ <<request[id].state, "CANCELLED">> \in RequestTransitions
  /\ request' = [request EXCEPT ![id].isCancelled = TRUE, ![id].state = "CANCELLED"]
  /\ Call("cancel", id, NoData, request')

----------------------------------------------------------------------------
(* Service functions after the call of the component                       *)

\* request and cancel end when the oracle returns, and revert when it reverts.
OracleReturns ==
  /\ calls # <<>>
  /\ Last(calls).function \in {"request", "cancel"}
  /\ Returned
  /\ UNCHANGED <<now, request, delivered>>

OracleReverts ==
  /\ calls # <<>>
  /\ Last(calls).function \in {"request", "cancel"}
  /\ RestoredTo(Last(calls).before)
  /\ Returned
  /\ UNCHANGED now

\* respond and resend set the state after the callback, and the lifecycle
\* refuses when the state has been changed during the callback: they then
\* revert as a whole.
RequesterAccepts ==
  /\ calls # <<>>
  /\ Last(calls).function \in {"respond", "resend"}
  /\ LET id == Last(calls).id
     IN  IF <<request[id].state, "FULFILLED">> \in RequestTransitions
         THEN /\ request' = [request EXCEPT ![id].state = "FULFILLED"]
              /\ delivered' = [delivered EXCEPT ![id] = Append(@, Last(calls).data)]
         ELSE RestoredTo(Last(calls).before)
  /\ Returned
  /\ UNCHANGED now

\* Mutant: resend marks the request as failed like respond does.
RequesterRevertsM ==
  /\ calls # <<>>
  /\ Last(calls).function \in {"respond", "resend"}
  /\ LET atCall == Last(calls).atCall
     IN  /\ request' = [atCall.request EXCEPT ![Last(calls).id].state = "FAILED"]
         /\ delivered' = atCall.delivered
  /\ Returned
  /\ UNCHANGED now

\* The callback is a low-level call: when it reverts, the function goes on.
RequesterReverts ==
  /\ calls # <<>>
  /\ Last(calls).function \in {"respond", "resend"}
  /\ LET atCall == Last(calls).atCall
     IN  IF Last(calls).function = "respond"
         THEN /\ request' = [atCall.request EXCEPT ![Last(calls).id].state = "FAILED"]
              /\ delivered' = atCall.delivered
         ELSE RestoredTo(atCall)
  /\ Returned
  /\ UNCHANGED now

----------------------------------------------------------------------------

Tick ==
  /\ calls = <<>>
  /\ now < MaxTime   \* bound
  /\ now' = now + 1
  /\ UNCHANGED <<request, delivered, calls>>

RequesterCalls ==
  \E r \in Requesters, id \in RequestIds :
    \/ \E o \in Oracles, t \in 1..MaxTime : Request(r, o, id, t)
    \/ request[id] # NoRequest /\ (Resend(r, id) \/ Cancel(r, id))

OracleCalls ==
  \E o \in Oracles, id \in RequestIds, data \in Responses : Respond(o, id, data)

CallEnds == OracleReturns \/ OracleReverts \/ RequesterAccepts \/ RequesterReverts

Next == RequesterCalls \/ OracleCalls \/ CallEnds \/ Tick

Spec == Init /\ [][Next]_vars

----------------------------------------------------------------------------
(* Properties                                                              *)

\* Every request has the fields of its state and was not answered after its
\* expiry, and every call under way is about a request of the store, whatever was
\* rolled back below it.
TypeOK ==
  /\ now \in 1..MaxTime
  /\ request \in [RequestIds -> RequestInfoType \union {NoRequest}]
  /\ delivered \in [RequestIds -> Seq(Responses \union {NoData})]
  /\ \A k \in DOMAIN calls : request[calls[k].id] # NoRequest
  /\ \A id \in RequestIds : request[id] # NoRequest =>
       request[id].respondedAt <= request[id].expiredAt

AtRest == calls = <<>>

\* OracleService sets FULFILLED after a callback that may call the service
\* again: once the transaction is over, a fulfilled request has been delivered
\* exactly once, and any other request not at all.
DeliveredOnce ==
  AtRest => \A id \in RequestIds :
    Len(delivered[id]) = IF request[id].state = "FULFILLED" THEN 1 ELSE 0

\* A request that is marked as cancelled is in state CANCELLED and the other way
\* round, at any time (IOracle.RequestInfo.isCancelled, cancel).
CancellationsAgree ==
  \A id \in RequestIds : request[id] # NoRequest =>
    (request[id].isCancelled <=> request[id].state = "CANCELLED")

\* A response that could not be delivered is kept for resend: a failed request
\* has a response, whatever was done in the callbacks that failed.
FailedResponsesAreKept ==
  \A id \in RequestIds : request[id].state = "FAILED" =>
    /\ request[id].respondedAt # 0
    /\ request[id].response # NoData

\* IOracleService: "Only requests in state FAILED may be resent", and a request is
\* fulfilled by a response.  The code resends a request that nobody has answered.
FulfilledRequestsAreAnswered ==
  AtRest => \A id \in RequestIds :
    request[id].state = "FULFILLED" => request[id].respondedAt # 0

\* The committed state: what the last transaction left behind.
Committed == IF AtRest THEN [request |-> request, delivered |-> delivered]
             ELSE calls[1].before

RequestPromise == INSTANCE RequestPromise WITH
  state <- [id \in RequestIds |-> Committed.request[id].state],
  accepted <- [id \in RequestIds |-> Len(Committed.delivered[id])]

\* Whatever components do when they are called, each transaction as a whole moves
\* every request along its lifecycle, and fulfilling it comes with a delivery.
ImplementsRequestPromise == RequestPromise!Spec
=============================================================================
