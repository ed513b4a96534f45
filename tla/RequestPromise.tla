--------------------------- MODULE RequestPromise ---------------------------
(***************************************************************************)
(* What the oracle service promises the component that sends a request,    *)
(* without calls and callbacks: in a transaction a request stays as it is  *)
(* or goes on, it ends as FULFILLED or CANCELLED and never leaves these    *)
(* states, and its response is accepted once, when it becomes FULFILLED.   *)
(* A transaction may move several requests, and one of them several times. *)
(***************************************************************************)
EXTENDS Naturals

CONSTANT RequestIds

VARIABLES
  state,     \* state of every request, "NONE" before it is made
  accepted   \* number of responses the requester has accepted

Init ==
  /\ state = [id \in RequestIds |-> "NONE"]
  /\ accepted = [id \in RequestIds |-> 0]

\* The states a transaction may leave a request in, by the state it finds.
Outcomes ==
  [NONE |-> {"ACTIVE", "FAILED", "FULFILLED", "CANCELLED"},
   ACTIVE |-> {"FAILED", "FULFILLED", "CANCELLED"},
   FAILED |-> {"FULFILLED"},
   FULFILLED |-> {},
   CANCELLED |-> {}]

GoesOn(id) ==
  /\ state'[id] \in Outcomes[state[id]]
  /\ accepted'[id] = accepted[id] + IF state'[id] = "FULFILLED" THEN 1 ELSE 0

Stays(id) == state'[id] = state[id] /\ accepted'[id] = accepted[id]

Transaction == \A id \in RequestIds : GoesOn(id) \/ Stays(id)

Spec == Init /\ [][Transaction]_<<state, accepted>>
=============================================================================
