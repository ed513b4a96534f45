---------------------------- MODULE OracleProofs ----------------------------
(***************************************************************************)
(* What components may rely on whatever they do when they are called back: *)
(* theorems about Oracle for every number of requests and every depth of   *)
(* nested calls.  The difficulty is that a call that reverts brings an     *)
(* older store back, so the invariant speaks of all stores a call has      *)
(* remembered: each of them is sound, and each is a successor of the       *)
(* stores remembered before it.                                            *)
(***************************************************************************)
EXTENDS Oracle, TLAPS

Functions == {"request", "respond", "resend", "cancel"}

\* The part of the state that a revert brings back.
Store == [request |-> request, delivered |-> delivered]

StoreType ==
  [request : [RequestIds -> RequestInfoType \union {NoRequest}],
   delivered : [RequestIds -> Seq(Responses \union {NoData})]]

\* A request and the responses accepted for it agree with its state.
SoundRequest(q, accepted) ==
  /\ q # NoRequest =>
       /\ q.state # NONE
       /\ q.respondedAt <= q.expiredAt
       /\ q.isCancelled <=> q.state = "CANCELLED"
  /\ q.state = "FAILED" => q.respondedAt # 0 /\ q.response # NoData
  /\ Len(accepted) = IF q.state = "FULFILLED" THEN 1 ELSE 0

SoundStores ==
  {s \in StoreType : \A id \in RequestIds : SoundRequest(s.request[id], s.delivered[id])}

\* A state that a request may be in after it was in an earlier one.
GoesOnTo(before, after) == after = before \/ after \in RequestPromise!Outcomes[before]

Extends(s, t) ==
  \A id \in RequestIds : GoesOnTo(s.request[id].state, t.request[id].state)

\* Calls under way: the request is made, and answered when it is being delivered.
SoundCall(f) ==
  /\ Extends(f.before, f.atCall)
  /\ f.atCall.request[f.id].state # NONE
  /\ f.function = "respond" =>
       /\ f.atCall.request[f.id].state = "ACTIVE"
       /\ f.atCall.request[f.id].respondedAt # 0
       /\ f.atCall.request[f.id].response # NoData

SoundCalls ==
  {f \in [function : Functions, id : RequestIds, data : Responses \union {NoData},
          before : SoundStores, atCall : SoundStores] : SoundCall(f)}

\* Every later store extends what the store was when a call was made.
CallsAreNested ==
  /\ \A k \in 1..Len(calls) : Extends(calls[k].atCall, Store)
  /\ \A j, k \in 1..Len(calls) : k < j => Extends(calls[k].atCall, calls[j].before)

StoresAreSound ==
  /\ now \in 1..MaxTime
  /\ Store \in SoundStores
  /\ calls \in Seq(SoundCalls)
  /\ CallsAreNested

----------------------------------------------------------------------------
(* Sequences of calls                                                      *)

LEMMA FrontAndLast ==
  ASSUME NEW S, NEW q \in Seq(S), q # <<>>
  PROVE  /\ Front(q) \in Seq(S)
         /\ Len(Front(q)) = Len(q) - 1
         /\ \A k \in 1..(Len(q) - 1) : Front(q)[k] = q[k]
         /\ Last(q) = q[Len(q)]
         /\ Last(q) \in S
         /\ Len(q) \in Nat \ {0}
<1>1. Len(q) \in Nat /\ q \in [1..Len(q) -> S]  OBVIOUS
<1>2. Len(q) # 0  OBVIOUS
<1>3. Front(q) = [k \in 1..(Len(q) - 1) |-> q[k]]
  BY <1>1, <1>2 DEF Front
<1>4. Len(q) - 1 \in Nat  BY <1>1, <1>2
<1>5. Front(q) \in Seq(S) /\ Len(Front(q)) = Len(q) - 1
  BY <1>1, <1>2, <1>4 DEF Front
<1> QED  BY <1>1, <1>2, <1>3, <1>5 DEF Last

LEMMA Appended ==
  ASSUME NEW S, NEW q \in Seq(S), NEW e \in S
  PROVE  /\ Append(q, e) \in Seq(S)
         /\ Append(q, e) # <<>>
         /\ Len(Append(q, e)) = Len(q) + 1
         /\ \A k \in 1..Len(q) : Append(q, e)[k] = q[k]
         /\ Append(q, e)[Len(q) + 1] = e
         /\ Len(q) \in Nat
  OBVIOUS

----------------------------------------------------------------------------
(* Requests                                                                *)

\* A request that is made is a full record, one that is not is NoRequest.
LEMMA MadeIsInfo ==
  /\ \A q \in RequestInfoType : q # NoRequest
  /\ \A q \in RequestInfoType \union {NoRequest} : q.state # NONE => q \in RequestInfoType
  /\ NoRequest.state = NONE
<1>1. ASSUME NEW q \in RequestInfoType
      PROVE  q # NoRequest
  <2>1. "isCancelled" \in DOMAIN q  BY DEF RequestInfoType
  <2>2. "isCancelled" \notin DOMAIN NoRequest  BY DEF NoRequest
  <2> QED  BY <2>1, <2>2
<1>2. NoRequest.state = NONE  BY DEF NoRequest
<1> QED  BY <1>1, <1>2

\* What the lifecycle of requests says, with the states it may never skip back to.
LEMMA Progress ==
  ASSUME NEW a \in RequestStates, NEW b \in RequestStates, NEW c \in RequestStates
  PROVE  /\ GoesOnTo(a, b) /\ GoesOnTo(b, c) => GoesOnTo(a, c)
         /\ GoesOnTo(a, b) /\ b = NONE => a = NONE
         /\ <<a, b>> \in RequestTransitions => GoesOnTo(a, b)
         /\ a = NONE => GoesOnTo(a, b)
BY DEF RequestStates, GoesOnTo, RequestPromise!Outcomes, RequestTransitions, NONE

LEMMA StoreParts ==
  ASSUME NEW s \in SoundStores, NEW id \in RequestIds
  PROVE  /\ s.request \in [RequestIds -> RequestInfoType \union {NoRequest}]
         /\ s.request[id] \in RequestInfoType \union {NoRequest}
         /\ s.request[id].state \in RequestStates
         /\ s.request[id].state # NONE => s.request[id] \in RequestInfoType
         /\ s.delivered \in [RequestIds -> Seq(Responses \union {NoData})]
         /\ SoundRequest(s.request[id], s.delivered[id])
<1>1. /\ s.request \in [RequestIds -> RequestInfoType \union {NoRequest}]
      /\ s.delivered \in [RequestIds -> Seq(Responses \union {NoData})]
      /\ SoundRequest(s.request[id], s.delivered[id])
  BY DEF SoundStores, StoreType
<1>2. s.request[id] \in RequestInfoType \union {NoRequest}  BY <1>1
<1>3. s.request[id].state \in RequestStates
  BY <1>2 DEF RequestInfoType, NoRequest, RequestStates
<1> QED  BY <1>1, <1>2, <1>3, MadeIsInfo

\* The type of the two variables, of which a store is made.
LEMMA StoreVariables ==
  ASSUME Store \in SoundStores
  PROVE  /\ request \in [RequestIds -> RequestInfoType \union {NoRequest}]
         /\ delivered \in [RequestIds -> Seq(Responses \union {NoData})]
         /\ \A id \in RequestIds :
              /\ request[id] \in RequestInfoType \union {NoRequest}
              /\ request[id].state \in RequestStates
              /\ request[id].state # NONE => request[id] \in RequestInfoType
              /\ SoundRequest(request[id], delivered[id])
<1>1. Store.request = request /\ Store.delivered = delivered  BY DEF Store
<1>2. Store \in StoreType  BY DEF SoundStores
<1> QED  BY <1>1, <1>2, StoreParts DEF StoreType

\* A sound store in which one request and its responses are replaced.
LEMMA ChangedStore ==
  ASSUME NEW s \in SoundStores, NEW id \in RequestIds,
         NEW q \in RequestInfoType, NEW d \in Seq(Responses \union {NoData}),
         SoundRequest(q, d)
  PROVE  [request |-> [s.request EXCEPT ![id] = q],
          delivered |-> [s.delivered EXCEPT ![id] = d]] \in SoundStores
<1> DEFINE t == [request |-> [s.request EXCEPT ![id] = q],
                 delivered |-> [s.delivered EXCEPT ![id] = d]]
<1>1. t \in StoreType  BY StoreParts DEF StoreType
<1>2. ASSUME NEW i \in RequestIds
      PROVE  SoundRequest(t.request[i], t.delivered[i])
  <2>1. CASE i = id
    <3>1. t.request[i] = q /\ t.delivered[i] = d  BY <2>1, StoreParts
    <3> QED  BY <3>1
  <2>2. CASE i # id
    <3>1. t.request[i] = s.request[i] /\ t.delivered[i] = s.delivered[i]
      BY <2>2, StoreParts
    <3> QED  BY <3>1, StoreParts
  <2> QED  BY <2>1, <2>2
<1> QED  BY <1>1, <1>2 DEF SoundStores

\* It extends any store that the former one extends, if the request has progressed.
LEMMA ChangedExtends ==
  ASSUME NEW s \in SoundStores, NEW id \in RequestIds, NEW q \in RequestInfoType, NEW d,
         GoesOnTo(s.request[id].state, q.state)
  PROVE  Extends(s, [request |-> [s.request EXCEPT ![id] = q], delivered |-> d])
<1> DEFINE t == [request |-> [s.request EXCEPT ![id] = q], delivered |-> d]
<1>1. ASSUME NEW i \in RequestIds
      PROVE  GoesOnTo(s.request[i].state, t.request[i].state)
  <2>1. CASE i = id
    <3>1. t.request[i] = q  BY <2>1, StoreParts
    <3> QED  BY <3>1, <2>1
  <2>2. CASE i # id
    <3>1. t.request[i] = s.request[i]  BY <2>2, StoreParts
    <3> QED  BY <3>1 DEF GoesOnTo
  <2> QED  BY <2>1, <2>2
<1> QED  BY <1>1 DEF Extends

LEMMA ExtendsIsTransitive ==
  ASSUME NEW s \in SoundStores, NEW t \in SoundStores, NEW u \in SoundStores,
         Extends(s, t), Extends(t, u)
  PROVE  Extends(s, u)
<1>1. ASSUME NEW id \in RequestIds
      PROVE  GoesOnTo(s.request[id].state, u.request[id].state)
  <2>1. /\ GoesOnTo(s.request[id].state, t.request[id].state)
        /\ GoesOnTo(t.request[id].state, u.request[id].state)
    BY DEF Extends
  <2>2. /\ s.request[id].state \in RequestStates
        /\ t.request[id].state \in RequestStates
        /\ u.request[id].state \in RequestStates
    BY StoreParts
  <2> DEFINE a == s.request[id].state
             b == t.request[id].state
             c == u.request[id].state
  <2>3. GoesOnTo(a, b) /\ GoesOnTo(b, c) => GoesOnTo(a, c)
    <3>1. a \in RequestStates /\ b \in RequestStates /\ c \in RequestStates  BY <2>2
    <3> HIDE DEF a, b, c
    <3> QED  BY <3>1, Progress
  <2> QED  BY <2>1, <2>3
<1> QED  BY <1>1 DEF Extends

LEMMA ExtendsItself ==
  ASSUME NEW s \in SoundStores
  PROVE  Extends(s, s)
BY DEF Extends, GoesOnTo

----------------------------------------------------------------------------
(* Calls begin and end                                                     *)

LEMMA CallParts ==
  ASSUME NEW f \in SoundCalls
  PROVE  /\ f.id \in RequestIds
         /\ f.data \in Responses \union {NoData}
         /\ f.before \in SoundStores
         /\ f.atCall \in SoundStores
         /\ SoundCall(f)
BY DEF SoundCalls

\* A function changes the store and calls a component.
LEMMA CallKeepsSound ==
  ASSUME StoresAreSound, NEW f \in SoundCalls, f.before = Store, f.atCall = Store',
         calls' = Append(calls, f), now' = now
  PROVE  StoresAreSound'
<1>1. Store \in SoundStores /\ Store' \in SoundStores /\ Extends(Store, Store')
  BY CallParts DEF SoundCall
<1>2. /\ calls \in Seq(SoundCalls)
      /\ \A k \in 1..Len(calls) : Extends(calls[k].atCall, Store)
      /\ \A j, k \in 1..Len(calls) : k < j => Extends(calls[k].atCall, calls[j].before)
  BY DEF StoresAreSound, CallsAreNested
<1>3. /\ calls' \in Seq(SoundCalls)
      /\ Len(calls') = Len(calls) + 1
      /\ \A k \in 1..Len(calls) : calls'[k] = calls[k]
      /\ calls'[Len(calls) + 1] = f
      /\ Len(calls) \in Nat
  BY <1>2, Appended
<1>4. ASSUME NEW k \in 1..Len(calls')
      PROVE  Extends(calls'[k].atCall, Store')
  <2>1. CASE k = Len(calls) + 1
    BY <2>1, <1>1, <1>3, ExtendsItself
  <2>2. CASE k \in 1..Len(calls)
    <3>1. calls[k] \in SoundCalls  BY <1>2, <2>2
    <3>2. Extends(calls[k].atCall, Store')
      BY <3>1, <2>2, <1>1, <1>2, CallParts, ExtendsIsTransitive
    <3> QED  BY <3>2, <2>2, <1>3
  <2> QED  BY <2>1, <2>2, <1>3
<1>5. ASSUME NEW j \in 1..Len(calls'), NEW k \in 1..Len(calls'), k < j
      PROVE  Extends(calls'[k].atCall, calls'[j].before)
  <2>1. k \in 1..Len(calls)  BY <1>3, <1>5
  <2>2. CASE j = Len(calls) + 1
    BY <2>1, <2>2, <1>2, <1>3
  <2>3. CASE j \in 1..Len(calls)
    BY <2>1, <2>3, <1>2, <1>3, <1>5
  <2> QED  BY <2>2, <2>3, <1>3
<1>6. now' \in 1..MaxTime  BY DEF StoresAreSound
<1> QED  BY <1>1, <1>3, <1>4, <1>5, <1>6 DEF StoresAreSound, CallsAreNested

\* The innermost call ends, and leaves a store that extends the one it began with.
LEMMA ReturnKeepsSound ==
  ASSUME StoresAreSound, calls # <<>>, Store' \in SoundStores,
         Extends(Last(calls).before, Store'), calls' = Front(calls), now' = now
  PROVE  StoresAreSound' /\ Extends(Last(calls).before, Store')
<1>1. /\ calls \in Seq(SoundCalls)
      /\ \A j, k \in 1..Len(calls) : k < j => Extends(calls[k].atCall, calls[j].before)
  BY DEF StoresAreSound, CallsAreNested
<1>2. /\ calls' \in Seq(SoundCalls)
      /\ Len(calls') = Len(calls) - 1
      /\ \A k \in 1..(Len(calls) - 1) : calls'[k] = calls[k]
      /\ Last(calls) = calls[Len(calls)]
      /\ Last(calls) \in SoundCalls
      /\ Len(calls) \in Nat \ {0}
  BY <1>1, FrontAndLast
<1>3. ASSUME NEW k \in 1..Len(calls')
      PROVE  Extends(calls'[k].atCall, Store')
  <2>1. k \in 1..Len(calls) /\ Len(calls) \in 1..Len(calls) /\ k < Len(calls)
        /\ calls'[k] = calls[k]
    BY <1>2
  <2>2. Extends(calls[k].atCall, Last(calls).before)  BY <2>1, <1>1, <1>2
  <2>3. calls[k] \in SoundCalls  BY <2>1, <1>1
  <2>4. calls[k].atCall \in SoundStores /\ Last(calls).before \in SoundStores
    BY <2>3, <1>2, CallParts
  <2> QED  BY <2>1, <2>2, <2>4, ExtendsIsTransitive
<1>4. ASSUME NEW j \in 1..Len(calls'), NEW k \in 1..Len(calls'), k < j
      PROVE  Extends(calls'[k].atCall, calls'[j].before)
  BY <1>1, <1>2, <1>4
<1>5. now' \in 1..MaxTime  BY DEF StoresAreSound
<1> QED  BY <1>2, <1>3, <1>4, <1>5 DEF StoresAreSound, CallsAreNested

----------------------------------------------------------------------------
(* The functions of the service                                            *)

\* The store is sound and the request is made when the component is called.
LEMMA FunctionKeepsSound ==
  ASSUME StoresAreSound, NEW function \in Functions, NEW id \in RequestIds,
         NEW data \in Responses \union {NoData}, NEW q \in RequestInfoType,
         request' = [request EXCEPT ![id] = q],
         GoesOnTo(request[id].state, q.state), q.state # NONE,
         SoundRequest(q, delivered[id]),
         function = "respond" => q.state = "ACTIVE" /\ q.respondedAt # 0 /\ q.response # NoData,
         Call(function, id, data, request')
  PROVE  StoresAreSound'
<1> DEFINE f == [function |-> function, id |-> id, data |-> data,
                 before |-> [request |-> request, delivered |-> delivered],
                 atCall |-> [request |-> request', delivered |-> delivered]]
<1>1. /\ calls' = Append(calls, f)
      /\ now' = now
      /\ delivered' = delivered
  BY DEF Call
<1>2. Store \in SoundStores  BY DEF StoresAreSound
<1>3. /\ request \in [RequestIds -> RequestInfoType \union {NoRequest}]
      /\ delivered \in [RequestIds -> Seq(Responses \union {NoData})]
  BY <1>2, StoreVariables
<1>4. f.before = Store /\ f.atCall = Store'  BY <1>1 DEF Store
<1>5. Store' = [request |-> [Store.request EXCEPT ![id] = q],
                delivered |-> [Store.delivered EXCEPT ![id] = delivered[id]]]
  BY <1>1, <1>3 DEF Store
<1>6. Store' \in SoundStores
  <2>1. delivered[id] \in Seq(Responses \union {NoData})  BY <1>3
  <2> QED  BY <1>2, <1>5, <2>1, ChangedStore
<1>7. Extends(Store, Store')
  <2>1. Store.request[id] = request[id]  BY DEF Store
  <2> QED  BY <1>2, <1>5, <2>1, ChangedExtends
<1>8. f \in SoundCalls
  <2>1. f.atCall.request[id] = q  BY <1>3
  <2>2. SoundCall(f)
    <3>1. Extends(f.before, f.atCall)  BY <1>4, <1>7
    <3>2. f.id = id /\ f.function = function  OBVIOUS
    <3> HIDE DEF f
    <3> QED  BY <2>1, <3>1, <3>2 DEF SoundCall
  <2>3. f.before \in SoundStores /\ f.atCall \in SoundStores  BY <1>2, <1>4, <1>6
  <2> QED  BY <2>2, <2>3 DEF SoundCalls
<1> HIDE DEF f
<1> QED  BY <1>1, <1>4, <1>8, CallKeepsSound

LEMMA RequestKeepsSound ==
  ASSUME StoresAreSound, NEW r \in Requesters, NEW o \in Oracles, NEW id \in RequestIds,
         NEW t \in 1..MaxTime, Request(r, o, id, t)
  PROVE  StoresAreSound'
<1> DEFINE q == [state |-> "ACTIVE", requester |-> r, oracle |-> o, expiredAt |-> t,
                 respondedAt |-> 0, response |-> NoData, isCancelled |-> FALSE]
<1>1. request' = [request EXCEPT ![id] = q] /\ Call("request", id, NoData, request')
      /\ request[id] = NoRequest
  BY DEF Request
<1>2. q \in RequestInfoType
  BY OracleAssumption DEF RequestInfoType, RequestStates, Components
<1>3. request[id].state = NONE /\ GoesOnTo(request[id].state, q.state)
  BY <1>1, MadeIsInfo DEF GoesOnTo, RequestPromise!Outcomes, NONE
<1>4. SoundRequest(q, delivered[id])
  <2>1. SoundRequest(request[id], delivered[id])
    BY StoreVariables DEF StoresAreSound
  <2>2. Len(delivered[id]) = 0  BY <1>3, <2>1 DEF SoundRequest, NONE
  <2> QED  BY <2>2 DEF SoundRequest, NONE
<1>5. q.state # NONE  BY DEF NONE
<1>6. "request" \in Functions /\ NoData \in Responses \union {NoData}  BY DEF Functions
<1> HIDE DEF q
<1> QED  BY <1>1, <1>2, <1>3, <1>4, <1>5, <1>6, FunctionKeepsSound

LEMMA RespondKeepsSound ==
  ASSUME StoresAreSound, NEW o \in Oracles, NEW id \in RequestIds, NEW data \in Responses,
         Respond(o, id, data)
  PROVE  StoresAreSound'
<1> DEFINE q == [request[id] EXCEPT !.response = data, !.respondedAt = now]
<1>1. /\ request[id].state = "ACTIVE"
      /\ ~(request[id].expiredAt < now)
      /\ request' = [request EXCEPT ![id].response = data, ![id].respondedAt = now]
      /\ Call("respond", id, data, request')
  BY DEF Respond, IsExpired
<1>2. /\ request \in [RequestIds -> RequestInfoType \union {NoRequest}]
      /\ request[id] \in RequestInfoType
      /\ SoundRequest(request[id], delivered[id])
      /\ now \in 1..MaxTime
  BY <1>1, StoreVariables DEF StoresAreSound, NONE
<1>3. request' = [request EXCEPT ![id] = q]  BY <1>1, <1>2
<1>4. /\ q \in RequestInfoType
      /\ q.state = "ACTIVE" /\ q.respondedAt = now /\ q.response = data
      /\ q.expiredAt = request[id].expiredAt /\ q.isCancelled = request[id].isCancelled
  BY <1>1, <1>2 DEF RequestInfoType
<1>5. request[id].expiredAt \in 0..MaxTime /\ now # 0 /\ now <= request[id].expiredAt
  BY <1>1, <1>2, OracleAssumption DEF RequestInfoType
<1>6. data # NoData  BY OracleAssumption
<1>7. request[id] # NoRequest  BY <1>2, MadeIsInfo
<1>8. SoundRequest(q, delivered[id])
  BY <1>1, <1>2, <1>4, <1>5, <1>7 DEF SoundRequest, NONE
<1>9. "respond" \in Functions /\ data \in Responses \union {NoData}
      /\ GoesOnTo(request[id].state, q.state) /\ q.state # NONE
  BY <1>1, <1>4 DEF Functions, GoesOnTo, NONE
<1> HIDE DEF q
<1> QED  BY <1>1, <1>3, <1>4, <1>5, <1>6, <1>8, <1>9, FunctionKeepsSound

LEMMA ResendKeepsSound ==
  ASSUME StoresAreSound, NEW r \in Requesters, NEW id \in RequestIds, Resend(r, id)
  PROVE  StoresAreSound'
<1>1. /\ request[id].state \in {"ACTIVE", "FAILED"}
      /\ request' = request
      /\ Call("resend", id, request[id].response, request)
  BY DEF Resend, RequesterMayAct
<1>2. /\ request \in [RequestIds -> RequestInfoType \union {NoRequest}]
      /\ request[id] \in RequestInfoType
      /\ SoundRequest(request[id], delivered[id])
  BY <1>1, StoreVariables DEF StoresAreSound, NONE
<1>3. request' = [request EXCEPT ![id] = request[id]]  BY <1>1, <1>2
<1>4. "resend" \in Functions /\ request[id].response \in Responses \union {NoData}
      /\ GoesOnTo(request[id].state, request[id].state) /\ request[id].state # NONE
  BY <1>1, <1>2 DEF Functions, GoesOnTo, NONE, RequestInfoType
<1> DEFINE q == request[id]
           data == request[id].response
<1>5. Call("resend", id, data, request')  BY <1>1
<1> HIDE DEF q, data
<1> QED  BY <1>2, <1>3, <1>4, <1>5, FunctionKeepsSound DEF q, data

LEMMA CancelKeepsSound ==
  ASSUME StoresAreSound, NEW r \in Requesters, NEW id \in RequestIds, Cancel(r, id)
  PROVE  StoresAreSound'
<1> DEFINE q == [request[id] EXCEPT !.isCancelled = TRUE, !.state = "CANCELLED"]
<1>1. /\ request[id].state = "ACTIVE"
      /\ request' = [request EXCEPT ![id].isCancelled = TRUE, ![id].state = "CANCELLED"]
      /\ Call("cancel", id, NoData, request')
  BY DEF Cancel, RequesterMayAct, RequestTransitions
<1>2. /\ request \in [RequestIds -> RequestInfoType \union {NoRequest}]
      /\ request[id] \in RequestInfoType
      /\ SoundRequest(request[id], delivered[id])
  BY <1>1, StoreVariables DEF StoresAreSound, NONE
<1>3. request' = [request EXCEPT ![id] = q]  BY <1>1, <1>2
<1>4. /\ q \in RequestInfoType
      /\ q.state = "CANCELLED" /\ q.isCancelled
      /\ q.expiredAt = request[id].expiredAt /\ q.respondedAt = request[id].respondedAt
  BY <1>2 DEF RequestInfoType, RequestStates
<1>5. request[id] # NoRequest  BY <1>2, MadeIsInfo
<1>6. SoundRequest(q, delivered[id])
  BY <1>1, <1>2, <1>4, <1>5 DEF SoundRequest, NONE
<1>7. "cancel" \in Functions /\ NoData \in Responses \union {NoData}
      /\ GoesOnTo(request[id].state, q.state) /\ q.state # NONE
  BY <1>1, <1>4 DEF Functions, GoesOnTo, RequestPromise!Outcomes, NONE
<1> HIDE DEF q
<1> QED  BY <1>1, <1>3, <1>4, <1>6, <1>7, FunctionKeepsSound

----------------------------------------------------------------------------
(* The component returns or reverts                                        *)

LEMMA LastCall ==
  ASSUME StoresAreSound, calls # <<>>
  PROVE  /\ Last(calls) \in SoundCalls
         /\ Extends(Last(calls).atCall, Store)
         /\ Last(calls).before \in SoundStores
         /\ Last(calls).atCall \in SoundStores
         /\ Extends(Last(calls).before, Last(calls).atCall)
         /\ Extends(Last(calls).before, Store)
<1>1. Last(calls) \in SoundCalls /\ Last(calls) = calls[Len(calls)]
      /\ Len(calls) \in 1..Len(calls)
  <2>1. calls \in Seq(SoundCalls)  BY DEF StoresAreSound
  <2>2. Last(calls) \in SoundCalls /\ Last(calls) = calls[Len(calls)]
        /\ Len(calls) \in Nat \ {0}
    BY <2>1, FrontAndLast
  <2> QED  BY <2>2
<1>2. Extends(Last(calls).atCall, Store)
  BY <1>1 DEF StoresAreSound, CallsAreNested
<1>3. /\ Last(calls).before \in SoundStores
      /\ Last(calls).atCall \in SoundStores
      /\ Extends(Last(calls).before, Last(calls).atCall)
  BY <1>1, CallParts DEF SoundCall
<1>4. Store \in SoundStores  BY DEF StoresAreSound
<1> QED  BY <1>1, <1>2, <1>3, <1>4, ExtendsIsTransitive

LEMMA RestoredStore ==
  ASSUME NEW s \in SoundStores, RestoredTo(s)
  PROVE  Store' = s
<1>1. request' = s.request /\ delivered' = s.delivered  BY DEF RestoredTo
<1>2. s \in StoreType  BY DEF SoundStores
<1> QED  BY <1>1, <1>2 DEF Store, StoreType

LEMMA OracleReturnsKeepsSound ==
  ASSUME StoresAreSound, OracleReturns
  PROVE  StoresAreSound' /\ Extends(Last(calls).before, Store')
<1>1. calls # <<>> /\ Store' = Store /\ now' = now /\ calls' = Front(calls)
  BY DEF OracleReturns, Returned, Store
<1>2. Store \in SoundStores  BY DEF StoresAreSound
<1> QED  BY <1>1, <1>2, LastCall, ReturnKeepsSound

LEMMA OracleRevertsKeepsSound ==
  ASSUME StoresAreSound, OracleReverts
  PROVE  StoresAreSound' /\ Extends(Last(calls).before, Store')
<1>1. calls # <<>> /\ RestoredTo(Last(calls).before) /\ now' = now /\ calls' = Front(calls)
  BY DEF OracleReverts, Returned
<1>2. Last(calls).before \in SoundStores  BY <1>1, LastCall
<1>3. Store' = Last(calls).before  BY <1>1, <1>2, RestoredStore
<1> QED  BY <1>1, <1>2, <1>3, ExtendsItself, ReturnKeepsSound

\* The response is delivered, and the request fulfilled, if its state still allows.
LEMMA RequesterAcceptsKeepsSound ==
  ASSUME StoresAreSound, RequesterAccepts
  PROVE  StoresAreSound' /\ Extends(Last(calls).before, Store')
<1> DEFINE id == Last(calls).id
           data == Last(calls).data
<1>1. /\ calls # <<>> /\ now' = now /\ calls' = Front(calls)
      /\ IF <<request[id].state, "FULFILLED">> \in RequestTransitions
         THEN /\ request' = [request EXCEPT ![id].state = "FULFILLED"]
              /\ delivered' = [delivered EXCEPT ![id] = Append(@, data)]
         ELSE RestoredTo(Last(calls).before)
  BY DEF RequesterAccepts, Returned
<1>2. id \in RequestIds /\ data \in Responses \union {NoData}
      /\ Last(calls).before \in SoundStores
  BY <1>1, LastCall, CallParts
<1> HIDE DEF id, data
<1>3. CASE <<request[id].state, "FULFILLED">> \in RequestTransitions
  <2> DEFINE q == [request[id] EXCEPT !.state = "FULFILLED"]
             d == Append(delivered[id], data)
  <2>1. /\ Store \in SoundStores
        /\ Extends(Last(calls).before, Store)
    BY <1>1, LastCall DEF StoresAreSound
  <2>2. /\ request \in [RequestIds -> RequestInfoType \union {NoRequest}]
        /\ delivered \in [RequestIds -> Seq(Responses \union {NoData})]
        /\ request[id].state \in {"ACTIVE", "FAILED"}
        /\ request[id] \in RequestInfoType
        /\ SoundRequest(request[id], delivered[id])
    BY <1>2, <1>3, <2>1, StoreVariables DEF RequestTransitions, NONE
  <2>3. /\ request' = [request EXCEPT ![id] = q]
        /\ delivered' = [delivered EXCEPT ![id] = d]
    BY <1>1, <1>3, <2>2
  <2>4. /\ q \in RequestInfoType /\ q.state = "FULFILLED"
        /\ q.expiredAt = request[id].expiredAt /\ q.respondedAt = request[id].respondedAt
        /\ q.isCancelled = request[id].isCancelled
    BY <2>2 DEF RequestInfoType, RequestStates
  <2>5. request[id] # NoRequest  BY <2>2, MadeIsInfo
  <2>6. d \in Seq(Responses \union {NoData}) /\ Len(d) = 1
    <3>1. delivered[id] \in Seq(Responses \union {NoData})  BY <1>2, <2>2
    <3>2. Len(delivered[id]) = 0  BY <2>2 DEF SoundRequest
    <3> QED  BY <1>2, <3>1, <3>2, Appended
  <2>7. GoesOnTo(request[id].state, q.state)
    BY <2>2, <2>4 DEF GoesOnTo, RequestPromise!Outcomes
  <2> HIDE DEF d
  <2>8. SoundRequest(q, d)
    BY <2>2, <2>4, <2>5, <2>6 DEF SoundRequest, NONE
  <2> HIDE DEF q
  <2>9. Store' = [request |-> [Store.request EXCEPT ![id] = q],
                  delivered |-> [Store.delivered EXCEPT ![id] = d]]
    BY <2>3 DEF Store
  <2>10. Store' \in SoundStores
    BY <1>2, <2>1, <2>4, <2>6, <2>8, <2>9, ChangedStore
  <2>11. Extends(Store, Store')
    <3>1. Store.request[id] = request[id]  BY DEF Store
    <3> QED  BY <1>2, <2>1, <2>4, <2>7, <2>9, <3>1, ChangedExtends
  <2>12. Extends(Last(calls).before, Store')
    BY <1>2, <2>1, <2>10, <2>11, ExtendsIsTransitive
  <2> QED  BY <1>1, <2>10, <2>12, ReturnKeepsSound
<1>4. CASE ~(<<request[id].state, "FULFILLED">> \in RequestTransitions)
  <2>1. Store' = Last(calls).before  BY <1>1, <1>2, <1>4, RestoredStore
  <2> QED  BY <1>1, <1>2, <2>1, ExtendsItself, ReturnKeepsSound
<1> QED  BY <1>3, <1>4

\* What the requester did is taken back; respond keeps the response for later.
LEMMA RequesterRevertsKeepsSound ==
  ASSUME StoresAreSound, RequesterReverts
  PROVE  StoresAreSound' /\ Extends(Last(calls).before, Store')
<1> DEFINE f == Last(calls)
           id == f.id
           s == f.atCall
<1>1. /\ calls # <<>> /\ now' = now /\ calls' = Front(calls)
      /\ IF f.function = "respond"
         THEN /\ request' = [s.request EXCEPT ![id].state = "FAILED"]
              /\ delivered' = s.delivered
         ELSE RestoredTo(s)
  BY DEF RequesterReverts, Returned
<1>2. /\ id \in RequestIds /\ s \in SoundStores /\ f.before \in SoundStores
      /\ Extends(f.before, s) /\ SoundCall(f)
  BY <1>1, LastCall, CallParts
<1>3. CASE f.function = "respond"
  <2> DEFINE q == [s.request[id] EXCEPT !.state = "FAILED"]
  <2>1. /\ s.request[id].state = "ACTIVE"
        /\ s.request[id].respondedAt # 0
        /\ s.request[id].response # NoData
    BY <1>2, <1>3 DEF SoundCall
  <2> HIDE DEF s, id
  <2>2. /\ s.request \in [RequestIds -> RequestInfoType \union {NoRequest}]
        /\ s.delivered \in [RequestIds -> Seq(Responses \union {NoData})]
        /\ s.request[id] \in RequestInfoType
        /\ SoundRequest(s.request[id], s.delivered[id])
    BY <1>2, <2>1, StoreParts DEF NONE
  <2>3. request' = [s.request EXCEPT ![id] = q] /\ delivered' = s.delivered
    BY <1>1, <1>3, <2>2
  <2>4. /\ q \in RequestInfoType /\ q.state = "FAILED"
        /\ q.respondedAt = s.request[id].respondedAt
        /\ q.expiredAt = s.request[id].expiredAt
        /\ q.response = s.request[id].response
        /\ q.isCancelled = s.request[id].isCancelled
    BY <2>2 DEF RequestInfoType, RequestStates
  <2>5. s.request[id] # NoRequest  BY <2>2, MadeIsInfo
  <2>6. GoesOnTo(s.request[id].state, q.state)
    BY <2>1, <2>4 DEF GoesOnTo, RequestPromise!Outcomes
  <2>7. SoundRequest(q, s.delivered[id])
    BY <2>1, <2>2, <2>4, <2>5 DEF SoundRequest, NONE
  <2> HIDE DEF q
  <2>8. Store' = [request |-> [s.request EXCEPT ![id] = q],
                  delivered |-> [s.delivered EXCEPT ![id] = s.delivered[id]]]
    BY <1>2, <2>2, <2>3 DEF Store
  <2>9. s.delivered[id] \in Seq(Responses \union {NoData})  BY <1>2, <2>2
  <2>10. Store' \in SoundStores
    BY <1>2, <2>4, <2>7, <2>8, <2>9, ChangedStore
  <2>11. Extends(s, Store')
    BY <1>2, <2>4, <2>6, <2>8, ChangedExtends
  <2>12. Extends(f.before, Store')
    BY <1>2, <2>10, <2>11, ExtendsIsTransitive
  <2> QED  BY <1>1, <2>10, <2>12, ReturnKeepsSound
<1>4. CASE f.function # "respond"
  <2>1. Store' = s  BY <1>1, <1>2, <1>4, RestoredStore
  <2> QED  BY <1>1, <1>2, <2>1, ReturnKeepsSound
<1> QED  BY <1>3, <1>4

LEMMA TickKeepsSound ==
  ASSUME StoresAreSound, Tick
  PROVE  StoresAreSound'
<1>1. Store' = Store /\ calls' = calls  BY DEF Tick, Store
<1>2. now' \in 1..MaxTime  BY OracleAssumption DEF Tick, StoresAreSound
<1> QED  BY <1>1, <1>2 DEF StoresAreSound, CallsAreNested

LEMMA InitIsSound ==
  ASSUME Init
  PROVE  StoresAreSound
<1>1. /\ request = [id \in RequestIds |-> NoRequest]
      /\ delivered = [id \in RequestIds |-> <<>>]
      /\ calls = <<>> /\ now = 1
  BY DEF Init
<1>2. Store \in StoreType  BY <1>1 DEF Store, StoreType
<1>3. ASSUME NEW id \in RequestIds
      PROVE  SoundRequest(Store.request[id], Store.delivered[id])
  <2>1. Store.request[id] = NoRequest /\ Store.delivered[id] = <<>>  BY <1>1 DEF Store
  <2> QED  BY <2>1, MadeIsInfo DEF SoundRequest, NONE
<1>4. calls \in Seq(SoundCalls) /\ Len(calls) = 0  BY <1>1
<1>5. now \in 1..MaxTime  BY <1>1, OracleAssumption
<1> QED  BY <1>2, <1>3, <1>4, <1>5 DEF StoresAreSound, SoundStores, CallsAreNested

LEMMA StepKeepsSound ==
  ASSUME StoresAreSound, [Next]_vars
  PROVE  StoresAreSound'
<1>1. CASE RequesterCalls
  BY <1>1, RequestKeepsSound, ResendKeepsSound, CancelKeepsSound DEF RequesterCalls
<1>2. CASE OracleCalls
  BY <1>2, RespondKeepsSound DEF OracleCalls
<1>3. CASE CallEnds
  BY <1>3, OracleReturnsKeepsSound, OracleRevertsKeepsSound,
     RequesterAcceptsKeepsSound, RequesterRevertsKeepsSound DEF CallEnds
<1>4. CASE Tick
  BY <1>4, TickKeepsSound
<1>5. CASE UNCHANGED vars
  BY <1>5 DEF vars, StoresAreSound, Store, CallsAreNested
<1> QED  BY <1>1, <1>2, <1>3, <1>4, <1>5 DEF Next

\* Every store that a running call may bring back is sound and a predecessor of
\* the present one, however deep the calls are nested and wherever they revert.
THEOREM StoresStaySound == Spec => []StoresAreSound
<1>1. Init => StoresAreSound  BY InitIsSound
<1>2. StoresAreSound /\ [Next]_vars => StoresAreSound'  BY StepKeepsSound
<1> QED  BY <1>1, <1>2, PTL DEF Spec

----------------------------------------------------------------------------
(* What follows from the soundness of the stores                           *)

LEMMA SoundIsTyped ==
  ASSUME StoresAreSound
  PROVE  TypeOK
<1>1. Store \in SoundStores  BY DEF StoresAreSound
<1>2. /\ request \in [RequestIds -> RequestInfoType \union {NoRequest}]
      /\ delivered \in [RequestIds -> Seq(Responses \union {NoData})]
  BY <1>1, StoreVariables
<1>3. now \in 1..MaxTime  BY DEF StoresAreSound
<1>4. ASSUME NEW k \in DOMAIN calls
      PROVE  request[calls[k].id] # NoRequest
  <2>1. calls \in Seq(SoundCalls)  BY DEF StoresAreSound
  <2>2. k \in 1..Len(calls) /\ calls[k] \in SoundCalls  BY <2>1
  <2> DEFINE f == calls[k]
             before == f.atCall.request[f.id].state
             after == Store.request[f.id].state
  <2>3. f.id \in RequestIds /\ f.atCall \in SoundStores /\ before # NONE
    BY <2>2, CallParts DEF SoundCall
  <2>4. GoesOnTo(before, after)
    <3>1. Extends(f.atCall, Store)  BY <2>2 DEF StoresAreSound, CallsAreNested
    <3> QED  BY <2>3, <3>1 DEF Extends
  <2>5. before \in RequestStates /\ after \in RequestStates
    BY <1>1, <2>3, StoreParts
  <2>6. after # NONE
    <3> HIDE DEF before, after
    <3> QED  BY <2>3, <2>4, <2>5, Progress
  <2>7. after = request[f.id].state  BY DEF Store
  <2> QED  BY <2>6, <2>7, MadeIsInfo
<1>5. ASSUME NEW id \in RequestIds, request[id] # NoRequest
      PROVE  request[id].respondedAt <= request[id].expiredAt
  BY <1>1, <1>5, StoreVariables DEF SoundRequest
<1> QED  BY <1>2, <1>3, <1>4, <1>5 DEF TypeOK

\* Requests are records of their type, answered in time, and a call is never about
\* a request that was rolled back below it (OracleService, BaseStore).
THEOREM OracleTypeCorrect == Spec => []TypeOK
<1>1. StoresAreSound => TypeOK  BY SoundIsTyped
<1> QED  BY <1>1, StoresStaySound, PTL

LEMMA SoundIsDeliveredOnce ==
  ASSUME StoresAreSound
  PROVE  DeliveredOnce
BY StoreVariables DEF StoresAreSound, DeliveredOnce, SoundRequest

\* Although respond and resend set FULFILLED only after a callback that may call the
\* service again, a response is delivered once and never more than once.
THEOREM ResponsesAreDeliveredOnce == Spec => []DeliveredOnce
<1>1. StoresAreSound => DeliveredOnce  BY SoundIsDeliveredOnce
<1> QED  BY <1>1, StoresStaySound, PTL

LEMMA SoundCancellationsAgree ==
  ASSUME StoresAreSound
  PROVE  CancellationsAgree
BY StoreVariables DEF StoresAreSound, CancellationsAgree, SoundRequest

\* The flag isCancelled and the state CANCELLED, which cancel writes in two stores,
\* never disagree.
THEOREM CancellationsStayAgreed == Spec => []CancellationsAgree
<1>1. StoresAreSound => CancellationsAgree  BY SoundCancellationsAgree
<1> QED  BY <1>1, StoresStaySound, PTL

LEMMA SoundResponsesAreKept ==
  ASSUME StoresAreSound
  PROVE  FailedResponsesAreKept
BY StoreVariables DEF StoresAreSound, FailedResponsesAreKept, SoundRequest

\* A failed request has the response that resend delivers, although the callback
\* that failed was taken back.
THEOREM FailedResponsesStayKept == Spec => []FailedResponsesAreKept
<1>1. StoresAreSound => FailedResponsesAreKept  BY SoundResponsesAreKept
<1> QED  BY <1>1, StoresStaySound, PTL

----------------------------------------------------------------------------
(* Transactions                                                            *)

\* The store that the first of the running calls found; what is committed.
LEMMA CommittedIsSound ==
  ASSUME StoresAreSound
  PROVE  /\ Committed \in SoundStores
         /\ Committed = IF calls = <<>> THEN Store ELSE calls[1].before
         /\ Extends(Committed, Store)
<1>1. Committed = IF calls = <<>> THEN Store ELSE calls[1].before
  BY DEF Committed, AtRest, Store
<1>2. Store \in SoundStores  BY DEF StoresAreSound
<1>3. CASE calls = <<>>
  BY <1>1, <1>2, <1>3, ExtendsItself
<1>4. CASE calls # <<>>
  <2>1. calls \in Seq(SoundCalls) /\ \A k \in 1..Len(calls) : Extends(calls[k].atCall, Store)
    BY DEF StoresAreSound, CallsAreNested
  <2>2. 1 \in 1..Len(calls) /\ calls[1] \in SoundCalls  BY <1>4, <2>1
  <2>3. /\ calls[1].before \in SoundStores /\ calls[1].atCall \in SoundStores
        /\ Extends(calls[1].before, calls[1].atCall)
    BY <2>2, CallParts DEF SoundCall
  <2>4. Extends(calls[1].atCall, Store)  BY <2>1, <2>2
  <2> QED  BY <1>1, <1>2, <1>4, <2>3, <2>4, ExtendsIsTransitive
<1> QED  BY <1>1, <1>3, <1>4

\* A step that leaves the calls alone or begins or ends one.
LEMMA CallsOfAStep ==
  ASSUME [Next]_vars
  PROVE  \/ calls' = calls /\ Store' = Store
         \/ \E f : calls' = Append(calls, f) /\ f.before = Store
         \/ CallEnds /\ calls # <<>> /\ calls' = Front(calls)
<1>1. ASSUME NEW function, NEW id, NEW data, Call(function, id, data, request')
      PROVE  \E f : calls' = Append(calls, f) /\ f.before = Store
  <2> DEFINE f == [function |-> function, id |-> id, data |-> data,
                   before |-> [request |-> request, delivered |-> delivered],
                   atCall |-> [request |-> request', delivered |-> delivered]]
  <2>1. calls' = Append(calls, f)  BY <1>1 DEF Call
  <2>2. f.before = Store  BY DEF Store
  <2> QED  BY <2>1, <2>2
<1>2. CASE RequesterCalls
  <2> PICK r \in Requesters, id \in RequestIds :
        \/ \E o \in Oracles, t \in 1..MaxTime : Request(r, o, id, t)
        \/ request[id] # NoRequest /\ (Resend(r, id) \/ Cancel(r, id))
    BY <1>2 DEF RequesterCalls
  <2>1. CASE \E o \in Oracles, t \in 1..MaxTime : Request(r, o, id, t)
    <3>1. Call("request", id, NoData, request')  BY <2>1 DEF Request
    <3> QED  BY <1>1, <3>1
  <2>2. CASE Resend(r, id)
    <3>1. Call("resend", id, request[id].response, request')  BY <2>2 DEF Resend
    <3> QED  BY <1>1, <3>1
  <2>3. CASE Cancel(r, id)
    <3>1. Call("cancel", id, NoData, request')  BY <2>3 DEF Cancel
    <3> QED  BY <1>1, <3>1
  <2> QED  BY <2>1, <2>2, <2>3
<1>3. CASE OracleCalls
  <2> PICK o \in Oracles, id \in RequestIds, data \in Responses : Respond(o, id, data)
    BY <1>3 DEF OracleCalls
  <2>1. Call("respond", id, data, request')  BY DEF Respond
  <2> QED  BY <1>1, <2>1
<1>4. CASE CallEnds
  BY <1>4 DEF CallEnds, OracleReturns, OracleReverts, RequesterAccepts, RequesterReverts, Returned
<1>5. CASE Tick
  BY <1>5 DEF Tick, Store
<1>6. CASE UNCHANGED vars
  BY <1>6 DEF vars, Store
<1> QED  BY <1>2, <1>3, <1>4, <1>5, <1>6 DEF Next

\* A step commits something only when it ends the last call under way, and what it
\* then commits extends what was committed.
LEMMA StepCommits ==
  ASSUME StoresAreSound, StoresAreSound', [Next]_vars
  PROVE  Extends(Committed, Committed')
<1>1. /\ Committed \in SoundStores /\ Extends(Committed, Store)
      /\ Committed = IF calls = <<>> THEN Store ELSE calls[1].before
  BY CommittedIsSound
<1>2. Store' \in SoundStores  BY DEF StoresAreSound
<1>3. Committed' = IF calls' = <<>> THEN Store' ELSE calls'[1].before
  BY DEF Committed, AtRest, Store
<1>4. calls \in Seq(SoundCalls)  BY DEF StoresAreSound
<1>5. CASE calls' = calls /\ Store' = Store
  BY <1>1, <1>3, <1>5, ExtendsItself
<1>6. ASSUME NEW f, calls' = Append(calls, f), f.before = Store
      PROVE  Extends(Committed, Committed')
  <2>1. Len(calls) \in Nat /\ calls' # <<>>
        /\ calls'[1] = IF calls = <<>> THEN f ELSE calls[1]
    BY <1>4, <1>6
  <2>2. Committed' = Committed  BY <1>1, <1>3, <1>6, <2>1
  <2> QED  BY <1>1, <2>2, ExtendsItself
<1>7. CASE CallEnds /\ calls # <<>> /\ calls' = Front(calls)
  <2>1. /\ Len(calls') = Len(calls) - 1 /\ calls' \in Seq(SoundCalls)
        /\ \A k \in 1..(Len(calls) - 1) : calls'[k] = calls[k]
        /\ Len(calls) \in Nat \ {0}
        /\ Last(calls) = calls[Len(calls)]
    BY <1>4, <1>7, FrontAndLast
  <2>2. CASE calls' # <<>>
    <3>1. 1 \in 1..(Len(calls) - 1)  BY <2>1, <2>2
    <3>2. Committed' = Committed  BY <1>1, <1>3, <1>7, <2>1, <2>2, <3>1
    <3> QED  BY <1>1, <3>2, ExtendsItself
  <2>3. CASE calls' = <<>>
    <3>1. Len(calls) = 1  BY <2>1, <2>3
    <3>2. Committed = Last(calls).before /\ Committed' = Store'
      BY <1>1, <1>3, <1>7, <2>1, <2>3, <3>1
    <3>3. Extends(Last(calls).before, Store')
      BY <1>7, OracleReturnsKeepsSound, OracleRevertsKeepsSound,
         RequesterAcceptsKeepsSound, RequesterRevertsKeepsSound DEF CallEnds
    <3> QED  BY <3>2, <3>3
  <2> QED  BY <2>2, <2>3
<1> QED  BY <1>5, <1>6, <1>7, CallsOfAStep

LEMMA CommittedInit ==
  ASSUME Init
  PROVE  RequestPromise!Init
<1>1. /\ calls = <<>> /\ Store = [request |-> [id \in RequestIds |-> NoRequest],
                                  delivered |-> [id \in RequestIds |-> <<>>]]
      /\ Committed = Store
  BY DEF Init, Store, Committed, AtRest
<1>2. ASSUME NEW id \in RequestIds
      PROVE  Committed.request[id].state = "NONE" /\ Len(Committed.delivered[id]) = 0
  <2>1. Committed.request[id] = NoRequest /\ Committed.delivered[id] = <<>>  BY <1>1
  <2> QED  BY <2>1, MadeIsInfo DEF NONE
<1> QED  BY <1>2 DEF RequestPromise!Init

LEMMA CommittedIsSoundAfter == StoresAreSound' => (Committed \in SoundStores)'
<1>1. StoresAreSound => Committed \in SoundStores  BY CommittedIsSound
<1> QED  BY <1>1, PTL

\* In a sound store the number of accepted responses follows from the state.
LEMMA CommittedGoesOn ==
  ASSUME StoresAreSound, StoresAreSound', Extends(Committed, Committed')
  PROVE  RequestPromise!Transaction
<1>1. Committed \in SoundStores /\ Committed' \in SoundStores
  BY CommittedIsSound, CommittedIsSoundAfter
<1>2. ASSUME NEW id \in RequestIds
      PROVE  RequestPromise!GoesOn(id) \/ RequestPromise!Stays(id)
  <2> DEFINE a == Committed.request[id].state
             b == Committed'.request[id].state
             m == Len(Committed.delivered[id])
             n == Len(Committed'.delivered[id])
  <2>1. GoesOnTo(a, b)  BY <1>2 DEF Extends
  <2>2. a \in RequestStates /\ b \in RequestStates
    BY <1>1, StoreParts
  <2>3. /\ m = IF a = "FULFILLED" THEN 1 ELSE 0
        /\ n = IF b = "FULFILLED" THEN 1 ELSE 0
    BY <1>1, StoreParts DEF SoundRequest
  <2>4. \/ b = a /\ n = m
        \/ b \in RequestPromise!Outcomes[a] /\ n = m + IF b = "FULFILLED" THEN 1 ELSE 0
    <3> HIDE DEF a, b, m, n
    <3> QED  BY <2>1, <2>2, <2>3 DEF GoesOnTo, RequestPromise!Outcomes, RequestStates, NONE
  <2> QED  BY <2>4 DEF RequestPromise!GoesOn, RequestPromise!Stays
<1> QED  BY <1>2 DEF RequestPromise!Transaction

\* Whatever components do when they are called back, every transaction of the oracle
\* service as a whole moves requests along their lifecycle, and accepts a response
\* exactly when it fulfils the request: Oracle implements RequestPromise.
THEOREM OracleKeepsPromise == Spec => ImplementsRequestPromise
<1>1. Init => RequestPromise!Init  BY CommittedInit
<1>2. StoresAreSound /\ StoresAreSound' /\ [Next]_vars => RequestPromise!Transaction
  BY StepCommits, CommittedGoesOn
<1> QED  BY <1>1, <1>2, StoresStaySound, PTL
     DEF Spec, ImplementsRequestPromise, RequestPromise!Spec
=============================================================================
