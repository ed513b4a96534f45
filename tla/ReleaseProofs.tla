--------------------------- MODULE ReleaseProofs ---------------------------
(***************************************************************************)
(* Proofs about ReleaseRegistry for any number of releases, any domains    *)
(* and any authorization contracts.                                        *)
(***************************************************************************)
EXTENDS ReleaseRegistry, TLAPS

\* Releases that were not created yet are untouched.
FutureIsUntouched ==
  \A v \in Releases : v > next =>
    state[v] = "NONE" /\ authorization[v] = NoAuthorization /\ service[v] = {}

\* What the counters say of the release being prepared.
PreparedSoFar ==
  /\ state[next] = "SCHEDULED" =>
       authorization[next] = NoAuthorization /\ service[next] = {} /\ registeredServices = 0
  /\ state[next] = "DEPLOYING" =>
       /\ registeredServices < servicesToRegister
       /\ servicesToRegister = Len(authorization[next].domains)
       /\ service[next] = {authorization[next].domains[i] : i \in 1..registeredServices}

Preparing == {"SCHEDULED", "DEPLOYING", "DEPLOYED"}

\* Only the release created last is still being prepared: the others have
\* been activated or skipped (createNextRelease).
OnlyNextIsPrepared ==
  \A v \in Releases : state[v] \in Preparing => v = next

\* A release admin exists from the preparation on.
PreparedHasAuthorization ==
  \A v \in Releases :
    state[v] \in {"DEPLOYING", "DEPLOYED"} \union Activated =>
      authorization[v] \in Authorizations

\* The inductive invariant.
ReleaseInv ==
  /\ ReleaseTypeOK
  /\ OnlyNextIsPrepared
  /\ LockedUnlessActive
  /\ DeployedIsComplete
  /\ FutureIsUntouched
  /\ PreparedSoFar
  /\ PreparedHasAuthorization

----------------------------------------------------------------------------
\* The number of the next release fits into a version part.
LEMMA NextVersion ==
  ASSUME next \in Releases, next < LastRelease
  PROVE  VersionPart(next + 1) = next + 1 /\ next + 1 \in Releases
  BY ReleaseAssumption DEF Releases, InitialVersion, VersionPart

\* The services of an authorization are its domains, one by one.
LEMMA DomainsAreCounted ==
  ASSUME NEW a \in Authorizations
  PROVE  /\ Len(a.domains) \in Nat
         /\ DOMAIN a.domains = 1..Len(a.domains)
         /\ \A i \in 1..Len(a.domains) : a.domains[i] \in Domains
  BY ReleaseAssumption

LEMMA InitIsReleaseInv == ReleaseInit => ReleaseInv
  <1> SUFFICES ASSUME ReleaseInit PROVE ReleaseInv
      OBVIOUS
  <1>1. ReleaseTypeOK
      BY ReleaseAssumption DEF ReleaseInit, ReleaseTypeOK, Releases, InitialVersion, States
  <1> QED
      BY <1>1, ReleaseAssumption
      DEF ReleaseInit, ReleaseInv, OnlyNextIsPrepared, LockedUnlessActive,
          DeployedIsComplete, FutureIsUntouched, PreparedSoFar,
          PreparedHasAuthorization, Releases, InitialVersion, Preparing, Activated

LEMMA CreateNextReleaseInv ==
  ASSUME ReleaseInv, CreateNextRelease PROVE ReleaseInv'
  <1> DEFINE new == next + 1
  <1>1. next \in Releases /\ new \in Releases /\ next' = new /\ new # next
      BY NextVersion DEF ReleaseInv, ReleaseTypeOK, CreateNextRelease, Releases
  <1>2. /\ state' = [state EXCEPT
             ![next] = IF IsValidTransition(@, "SKIPPED") THEN "SKIPPED" ELSE @,
             ![new] = "SCHEDULED"]
        /\ state \in [Releases -> States]
      BY <1>1 DEF CreateNextRelease, ReleaseInv, ReleaseTypeOK
  <1>3. state' \in [Releases -> States] /\ state'[new] = "SCHEDULED"
      BY <1>1, <1>2 DEF States
  <1>4. \A v \in Releases \ {new, next} : state'[v] = state[v]
      BY <1>1, <1>2
  <1>5. /\ state'[next] \notin Preparing
        /\ state'[next] \in {state[next], "SKIPPED"}
        /\ state[next] \in Activated => state'[next] = state[next]
      BY <1>1, <1>2 DEF Preparing, Activated, IsValidTransition, Transitions, States
  <1>6. state[new] = "NONE" /\ authorization[new] = NoAuthorization /\ service[new] = {}
      BY <1>1 DEF ReleaseInv, FutureIsUntouched, Releases
  <1>7. UNCHANGED <<latest, authorization, locked, service, granted>>
        /\ registeredServices' = 0 /\ servicesToRegister' = 0
      BY DEF CreateNextRelease
  <1>8. ReleaseTypeOK'
      BY <1>1, <1>3, <1>7 DEF ReleaseInv, ReleaseTypeOK
  <1>9. OnlyNextIsPrepared'
      BY <1>1, <1>3, <1>4, <1>5 DEF ReleaseInv, OnlyNextIsPrepared
  <1>10. LockedUnlessActive'
      BY <1>1, <1>3, <1>4, <1>5, <1>6, <1>7
      DEF ReleaseInv, LockedUnlessActive, Activated
  <1>11. DeployedIsComplete'
      BY <1>1, <1>3, <1>4, <1>5, <1>7
      DEF ReleaseInv, DeployedIsComplete, Activated, Preparing, DomainsOf
  <1>12. FutureIsUntouched'
    <2> SUFFICES ASSUME NEW v \in Releases, v > new
                 PROVE  state'[v] = "NONE" /\ authorization[v] = NoAuthorization /\ service[v] = {}
        BY <1>1, <1>7 DEF FutureIsUntouched
    <2>1. v > next /\ v # new /\ v # next
        BY <1>1 DEF Releases
    <2> QED
        BY <2>1, <1>4 DEF ReleaseInv, FutureIsUntouched
  <1>13. PreparedSoFar'
      BY <1>1, <1>3, <1>6, <1>7 DEF PreparedSoFar
  <1>14. PreparedHasAuthorization'
      BY <1>1, <1>3, <1>4, <1>5, <1>7
      DEF ReleaseInv, PreparedHasAuthorization, Activated
  <1> QED
      BY <1>8, <1>9, <1>10, <1>11, <1>12, <1>13, <1>14 DEF ReleaseInv

LEMMA PrepareNextReleaseInv ==
  ASSUME ReleaseInv, NEW a \in Authorizations, PrepareNextRelease(a) PROVE ReleaseInv'
  <1> USE DEF PrepareNextRelease, MayPrepare
  <1>1. /\ state[next] = "SCHEDULED" /\ next \in Releases
        /\ authorization[next] = NoAuthorization /\ service[next] = {}
        /\ registeredServices = 0
      BY DEF CheckTransition, ReleaseInv, ReleaseTypeOK, PreparedSoFar
  <1>2. a.release = next /\ Len(a.domains) \in Nat \ {0}
      BY DomainsAreCounted
  <1>3. ReleaseTypeOK'
      BY <1>1, <1>2 DEF ReleaseInv, ReleaseTypeOK, States
  <1>4. /\ state'[next] = "DEPLOYING" /\ authorization'[next] = a /\ locked'[next]
        /\ \A v \in Releases \ {next} :
             /\ state'[v] = state[v]
             /\ authorization'[v] = authorization[v]
             /\ locked'[v] = locked[v]
        /\ next' = next /\ service' = service /\ registeredServices' = 0
        /\ servicesToRegister' = Len(a.domains)
      BY <1>1 DEF ReleaseInv, ReleaseTypeOK
  <1>5. OnlyNextIsPrepared' /\ FutureIsUntouched'
      BY <1>1, <1>4 DEF ReleaseInv, OnlyNextIsPrepared, FutureIsUntouched, Releases
  <1>6. LockedUnlessActive'
      BY <1>1, <1>4 DEF ReleaseInv, LockedUnlessActive
  <1>7. DeployedIsComplete'
      BY <1>1, <1>4 DEF ReleaseInv, DeployedIsComplete, Activated, DomainsOf
  <1>8. PreparedSoFar'
      BY <1>1, <1>2, <1>4 DEF PreparedSoFar
  <1>9. PreparedHasAuthorization'
      BY <1>1, <1>4 DEF ReleaseInv, PreparedHasAuthorization
  <1> QED
      BY <1>3, <1>5, <1>6, <1>7, <1>8, <1>9 DEF ReleaseInv

LEMMA RegisterServiceInv ==
  ASSUME ReleaseInv, NEW s \in Services, RegisterService(s) PROVE ReleaseInv'
  <1> USE DEF RegisterService, MayRegister
  <1> DEFINE n == registeredServices
             a == authorization[next]
  <1>1. /\ state[next] = "DEPLOYING" /\ next \in Releases
        /\ n \in Nat /\ servicesToRegister \in Nat /\ n < servicesToRegister
        /\ a \in Authorizations /\ servicesToRegister = Len(a.domains)
        /\ service[next] = {a.domains[i] : i \in 1..n}
      BY DEF CheckTransition, ReleaseInv, ReleaseTypeOK, PreparedSoFar, PreparedHasAuthorization
  <1>2. /\ n' = n + 1 /\ s.domain = a.domains[n + 1] /\ s.domain \in Domains
        /\ UNCHANGED <<next, latest, authorization, locked, servicesToRegister, granted>>
      BY DEF ExpectedDomain, Services
  <1>3. /\ service' \in [Releases -> SUBSET Domains]
        /\ service'[next] = {a.domains[i] : i \in 1..(n + 1)}
        /\ \A v \in Releases \ {next} : service'[v] = service[v]
      BY <1>1, <1>2 DEF ReleaseInv, ReleaseTypeOK
  <1>4. /\ state' \in [Releases -> States]
        /\ state'[next] = IF Len(a.domains) = n + 1 THEN "DEPLOYED" ELSE "DEPLOYING"
        /\ \A v \in Releases \ {next} : state'[v] = state[v]
      BY <1>1, <1>2 DEF ReleaseInv, ReleaseTypeOK, States
  <1>5. ReleaseTypeOK'
      BY <1>1, <1>2, <1>3, <1>4 DEF ReleaseInv, ReleaseTypeOK
  <1>6. OnlyNextIsPrepared' /\ FutureIsUntouched' /\ LockedUnlessActive'
        /\ PreparedHasAuthorization'
      BY <1>1, <1>2, <1>3, <1>4
      DEF ReleaseInv, OnlyNextIsPrepared, FutureIsUntouched, LockedUnlessActive,
          PreparedHasAuthorization, Releases
  <1>7. DeployedIsComplete'
    <2>1. Len(a.domains) = n + 1 => service'[next] = DomainsOf(a)
        BY <1>1, <1>3, DomainsAreCounted DEF DomainsOf
    <2> QED
        BY <2>1, <1>1, <1>2, <1>3, <1>4 DEF ReleaseInv, DeployedIsComplete, Activated, DomainsOf
  <1>8. PreparedSoFar'
      BY <1>1, <1>2, <1>3, <1>4 DEF PreparedSoFar
  <1> QED
      BY <1>5, <1>6, <1>7, <1>8 DEF ReleaseInv

\* Activation, pausing and resuming change one release's state between
\* deployed, active and paused and its lock with it.
LEMMA ActivationInv ==
  ASSUME ReleaseInv, NEW v \in Releases, NEW new \in Activated,
         state[v] \in {"DEPLOYED"} \union Activated,
         state' = [state EXCEPT ![v] = new],
         locked' = [locked EXCEPT ![v] = (new # "ACTIVE")],
         latest' \in Releases \union {0}, granted' \in [CoreDomains -> SUBSET Releases],
         UNCHANGED <<next, authorization, registeredServices, servicesToRegister, service>>
  PROVE  ReleaseInv'
  <1>1. /\ state'[v] = new
        /\ locked'[v] = (new # "ACTIVE")
        /\ \A w \in Releases \ {v} : state'[w] = state[w] /\ locked'[w] = locked[w]
        /\ next \in Releases
      BY DEF ReleaseInv, ReleaseTypeOK
  <1>2. ReleaseTypeOK'
      BY DEF ReleaseInv, ReleaseTypeOK, States, Activated
  <1>3. OnlyNextIsPrepared' /\ DeployedIsComplete' /\ PreparedHasAuthorization'
      BY <1>1 DEF ReleaseInv, OnlyNextIsPrepared, DeployedIsComplete, DomainsOf,
         PreparedHasAuthorization, Activated, Preparing
  <1>4. LockedUnlessActive'
      BY <1>1 DEF ReleaseInv, LockedUnlessActive, Activated
  <1>5. FutureIsUntouched' /\ PreparedSoFar'
      BY <1>1 DEF ReleaseInv, FutureIsUntouched, PreparedSoFar, Activated
  <1> QED
      BY <1>2, <1>3, <1>4, <1>5 DEF ReleaseInv

LEMMA ActivateNextReleaseInv ==
  ASSUME ReleaseInv, ActivateNextRelease PROVE ReleaseInv'
  <1>1. /\ next \in Releases /\ state[next] = "DEPLOYED"
        /\ state' = [state EXCEPT ![next] = "ACTIVE"]
        /\ locked' = [locked EXCEPT ![next] = ("ACTIVE" # "ACTIVE")]
        /\ latest' = next
        /\ granted' \in [CoreDomains -> SUBSET Releases]
        /\ UNCHANGED <<next, authorization, registeredServices, servicesToRegister, service>>
      BY DEF ActivateNextRelease, MayActivate, CheckTransition, ReleaseInv, ReleaseTypeOK
  <1> QED
      BY <1>1, ActivationInv DEF Activated

LEMMA SetActiveInv ==
  ASSUME ReleaseInv, NEW v \in Releases, NEW active \in BOOLEAN, SetActive(v, active)
  PROVE  ReleaseInv'
  <1> DEFINE new == IF active THEN "ACTIVE" ELSE "PAUSED"
  <1>1. /\ state[v] \in {"DEPLOYED"} \union Activated /\ new \in Activated
        /\ state' = [state EXCEPT ![v] = new]
        /\ locked' = [locked EXCEPT ![v] = (new # "ACTIVE")]
        /\ latest' \in Releases \union {0}
        /\ granted' \in [CoreDomains -> SUBSET Releases]
        /\ UNCHANGED <<next, authorization, registeredServices, servicesToRegister, service>>
      BY DEF SetActive, CheckTransition, ReleaseInv, ReleaseTypeOK, Activated
  <1> QED
      BY <1>1, ActivationInv

LEMMA ReleaseStepInv == ReleaseInv /\ [ReleaseNext]_releaseVars => ReleaseInv'
  <1> SUFFICES ASSUME ReleaseInv, [ReleaseNext]_releaseVars PROVE ReleaseInv'
      OBVIOUS
  <1>1. CASE CreateNextRelease
      BY <1>1, CreateNextReleaseInv
  <1>2. CASE \E a \in Authorizations : PrepareNextRelease(a)
      BY <1>2, PrepareNextReleaseInv
  <1>3. CASE \E s \in Services : RegisterService(s)
      BY <1>3, RegisterServiceInv
  <1>4. CASE ActivateNextRelease
      BY <1>4, ActivateNextReleaseInv
  <1>5. CASE \E v \in Releases, active \in BOOLEAN : SetActive(v, active)
      BY <1>5, SetActiveInv
  <1>6. CASE UNCHANGED releaseVars
      BY <1>6 DEF releaseVars, ReleaseInv, ReleaseTypeOK, OnlyNextIsPrepared,
         LockedUnlessActive, DeployedIsComplete, FutureIsUntouched, PreparedSoFar,
         PreparedHasAuthorization
  <1> QED
      BY <1>1, <1>2, <1>3, <1>4, <1>5, <1>6 DEF ReleaseNext

----------------------------------------------------------------------------
\* Where a step leaves the set of activated releases and their services as
\* they are, the roles need not change.
LEMMA RolesKept ==
  ASSUME RolesOfActivatedReleases, UNCHANGED granted,
         \A v \in Releases :
           /\ state'[v] \in Activated <=> state[v] \in Activated
           /\ state[v] \in Activated => service'[v] = service[v]
  PROVE  RolesOfActivatedReleases'
  BY DEF RolesOfActivatedReleases

LEMMA RolesStep ==
  ASSUME ReleaseInv, RolesOfActivatedReleases, [ReleaseNext]_releaseVars
  PROVE  RolesOfActivatedReleases'
  <1> USE DEF ReleaseInv, ReleaseTypeOK
  <1>1. CASE CreateNextRelease
    <2>1. next \in Releases /\ next + 1 \in Releases /\ state[next + 1] = "NONE"
        BY <1>1, NextVersion DEF CreateNextRelease, FutureIsUntouched, Releases
    <2>2. \A v \in Releases : state'[v] \in Activated <=> state[v] \in Activated
        BY <1>1, <2>1, NextVersion
        DEF CreateNextRelease, Activated, IsValidTransition, Transitions
    <2> QED
        BY <1>1, <2>2, RolesKept DEF CreateNextRelease
  <1>2. CASE \E a \in Authorizations : PrepareNextRelease(a)
    <2>1. PICK a \in Authorizations : PrepareNextRelease(a)
        BY <1>2
    <2>2. \A v \in Releases : state'[v] \in Activated <=> state[v] \in Activated
        BY <2>1 DEF PrepareNextRelease, MayPrepare, CheckTransition, Activated
    <2> QED
        BY <2>1, <2>2, RolesKept DEF PrepareNextRelease
  <1>3. CASE \E s \in Services : RegisterService(s)
    <2>1. PICK s \in Services : RegisterService(s)
        BY <1>3
    <2>2. \A v \in Releases :
            /\ state'[v] \in Activated <=> state[v] \in Activated
            /\ state[v] \in Activated => service'[v] = service[v]
        BY <2>1 DEF RegisterService, MayRegister, CheckTransition, Activated
    <2> QED
        BY <2>1, <2>2, RolesKept DEF RegisterService
  <1>4. CASE ActivateNextRelease
    <2>1. /\ next \in Releases /\ state[next] = "DEPLOYED" /\ service' = service
          /\ state' = [state EXCEPT ![next] = "ACTIVE"]
          /\ granted' = [d \in CoreDomains |->
               IF d \in service[next] THEN granted[d] \union {next} ELSE granted[d]]
        BY <1>4 DEF ActivateNextRelease, MayActivate, CheckTransition
    <2>2. \A v \in Releases :
            state'[v] \in Activated <=> (v = next \/ state[v] \in Activated)
        BY <2>1 DEF Activated
    <2> QED
        BY <2>1, <2>2 DEF RolesOfActivatedReleases
  <1>5. CASE \E v \in Releases, active \in BOOLEAN : SetActive(v, active)
    <2>1. PICK v \in Releases, active \in BOOLEAN : SetActive(v, active)
        BY <1>5
    <2>2. \A w \in Releases : state'[w] \in Activated <=> state[w] \in Activated
        BY <2>1 DEF SetActive, CheckTransition, Activated
    <2> QED
        BY <2>1, <2>2, RolesKept DEF SetActive
  <1>6. CASE UNCHANGED releaseVars
      BY <1>6, RolesKept DEF releaseVars
  <1> QED
      BY <1>1, <1>2, <1>3, <1>4, <1>5, <1>6 DEF ReleaseNext

\* The latest release is one that was created; no step undoes a decision.
LatestWasCreated == latest <= next

LEMMA DecisionsStep ==
  ASSUME ReleaseInv, LatestWasCreated, [ReleaseNext]_releaseVars
  PROVE  /\ LatestWasCreated'
         /\ \A v \in Releases :
              /\ state[v] = "SKIPPED" => state'[v] = "SKIPPED"
              /\ state[v] \in Activated => state'[v] \in Activated
         /\ latest' >= latest
  <1> USE DEF ReleaseInv, ReleaseTypeOK, LatestWasCreated
  <1>0. next \in Nat /\ latest \in Nat
      BY ReleaseAssumption DEF Releases, InitialVersion
  <1>1. CASE CreateNextRelease
    <2>1. next \in Releases /\ next + 1 \in Releases /\ state[next + 1] = "NONE"
          /\ next' = next + 1
        BY <1>1, NextVersion DEF CreateNextRelease, FutureIsUntouched, Releases
    <2> QED
        BY <1>0, <1>1, <2>1, NextVersion
        DEF CreateNextRelease, Activated, IsValidTransition, Transitions
  <1>2. CASE \E a \in Authorizations : PrepareNextRelease(a)
      BY <1>0, <1>2 DEF PrepareNextRelease, MayPrepare, CheckTransition, Activated
  <1>3. CASE \E s \in Services : RegisterService(s)
      BY <1>0, <1>3 DEF RegisterService, MayRegister, CheckTransition, Activated
  <1>4. CASE ActivateNextRelease
      BY <1>0, <1>4 DEF ActivateNextRelease, MayActivate, CheckTransition, Activated
  <1>5. CASE \E v \in Releases, active \in BOOLEAN : SetActive(v, active)
      BY <1>0, <1>5 DEF SetActive, CheckTransition, Activated
  <1>6. CASE UNCHANGED releaseVars
      BY <1>0, <1>6 DEF releaseVars
  <1> QED
      BY <1>1, <1>2, <1>3, <1>4, <1>5, <1>6 DEF ReleaseNext

----------------------------------------------------------------------------
LEMMA ReleaseSpecInv == ReleaseSpec => []ReleaseInv
  BY InitIsReleaseInv, ReleaseStepInv, PTL DEF ReleaseSpec

\* In every history of the registry no release is registered more services
\* than its authorization names (createNextRelease, registerService).
THEOREM ReleaseTypeCorrect == ReleaseSpec => []ReleaseTypeOK
  BY ReleaseSpecInv, PTL DEF ReleaseInv

\* For any authorizations, a release that is deployed, active or paused has
\* exactly the services its authorization names, however many releases were
\* abandoned on the way.
THEOREM ReleasesAreComplete == ReleaseSpec => []DeployedIsComplete
  BY ReleaseSpecInv, PTL DEF ReleaseInv

\* The lock of a release always agrees with its state, so that pausing and
\* resuming never revert on a lock that is set already.
THEOREM LocksFollowStates == ReleaseSpec => []LockedUnlessActive
  BY ReleaseSpecInv, PTL DEF ReleaseInv

\* At most one release, the one created last, is being prepared.
THEOREM OnePreparedRelease == ReleaseSpec => []OnlyNextIsPrepared
  BY ReleaseSpecInv, PTL DEF ReleaseInv
\* Exactly the services of activated releases may call the core contracts,
\* and a paused release keeps its roles.
THEOREM RolesFollowActivation == ReleaseSpec => []RolesOfActivatedReleases
  <1>1. ReleaseInit => RolesOfActivatedReleases
      BY DEF ReleaseInit, RolesOfActivatedReleases, Activated, CoreDomains
  <1>2. ReleaseInv /\ RolesOfActivatedReleases /\ [ReleaseNext]_releaseVars
          => RolesOfActivatedReleases'
      BY RolesStep
  <1> QED
      BY <1>1, <1>2, ReleaseSpecInv, PTL DEF ReleaseSpec

\* No step brings a skipped release back or takes an activated one away, and
\* the latest release never goes back.
THEOREM ReleaseDecisionsAreFinal == ReleaseSpec => DecisionsAreFinal
  <1>1. ReleaseInit => LatestWasCreated
      BY DEF ReleaseInit, LatestWasCreated, InitialVersion
  <1>2. ReleaseInv /\ LatestWasCreated /\ [ReleaseNext]_releaseVars => LatestWasCreated'
      BY DecisionsStep
  <1>3. ReleaseInv /\ LatestWasCreated /\ [ReleaseNext]_releaseVars =>
          [/\ \A v \in Releases :
                /\ state[v] = "SKIPPED" => state'[v] = "SKIPPED"
                /\ state[v] \in Activated => state'[v] \in Activated
           /\ latest' >= latest]_releaseVars
      BY DecisionsStep
  <1> QED
      BY <1>1, <1>2, <1>3, ReleaseSpecInv, PTL DEF ReleaseSpec, DecisionsAreFinal
=============================================================================
