-------------------------- MODULE ObjectLifecycle --------------------------
(***************************************************************************)
(* The object lifecycles of an instance: for every type of business object *)
(* the state a new object starts in and the state changes the stores       *)
(* accept.  The services never write a state directly: every change goes   *)
(* through BaseStore._updateState, which calls Lifecycle.checkTransition   *)
(* and reverts the transaction when the pair is not in these tables.       *)
(* NONE stands for "no such object" (state id zero).                       *)
(***************************************************************************)

NONE == "NONE"

BundleStates == {NONE, "ACTIVE", "CLOSED"}
RiskStates   == {NONE, "ACTIVE", "CLOSED"}
PolicyStates == {NONE, "APPLIED", "REVOKED", "DECLINED", "COLLATERALIZED", "CLOSED"}
PremiumStates == {NONE, "EXPECTED", "PAID"}
ClaimStates  == {NONE, "SUBMITTED", "CONFIRMED", "DECLINED", "REVOKED", "CLOSED", "CANCELLED"}
PayoutStates == {NONE, "EXPECTED", "PAID", "CANCELLED"}
RequestStates == {NONE, "ACTIVE", "FULFILLED", "FAILED", "CANCELLED"}

BundleTransitions == {<<"ACTIVE", "CLOSED">>}

RiskTransitions == {<<"ACTIVE", "CLOSED">>}

PolicyTransitions ==
  {<<"APPLIED", "REVOKED">>, <<"APPLIED", "DECLINED">>,
   <<"APPLIED", "COLLATERALIZED">>, <<"COLLATERALIZED", "CLOSED">>}

PremiumTransitions == {<<"EXPECTED", "PAID">>}

ClaimTransitions ==
  {<<"SUBMITTED", "REVOKED">>, <<"SUBMITTED", "CONFIRMED">>,
   <<"SUBMITTED", "DECLINED">>, <<"CONFIRMED", "CLOSED">>,
   <<"CONFIRMED", "CANCELLED">>}

PayoutTransitions == {<<"EXPECTED", "PAID">>, <<"EXPECTED", "CANCELLED">>}

\* Mutant: a request may be fulfilled again.
RequestTransitionsM ==
  {<<"ACTIVE", "FULFILLED">>, <<"ACTIVE", "FAILED">>, <<"FAILED", "FULFILLED">>,
   <<"ACTIVE", "CANCELLED">>, <<"FULFILLED", "FULFILLED">>}

\* Mutant: a response that could not be delivered can be cancelled.
RequestTransitionsCancelM ==
  {<<"ACTIVE", "FULFILLED">>, <<"ACTIVE", "FAILED">>, <<"FAILED", "FULFILLED">>,
   <<"ACTIVE", "CANCELLED">>, <<"FAILED", "CANCELLED">>}

RequestTransitions ==
  {<<"ACTIVE", "FULFILLED">>, <<"ACTIVE", "FAILED">>, <<"FAILED", "FULFILLED">>,
   <<"ACTIVE", "CANCELLED">>}
=============================================================================
