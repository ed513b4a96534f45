-------------------------- MODULE ReleaseRegistry --------------------------
(***************************************************************************)
(* The registry of releases: a GIF admin creates a release, a GIF manager  *)
(* prepares it with a service authorization contract and registers its     *)
(* services one by one, the admin activates it and may pause and resume    *)
(* it.  Creating a release abandons one that has not been activated.  Each *)
(* release has a release admin whose lock blocks all its services.         *)
(***************************************************************************)
EXTENDS Naturals, Sequences, FiniteSets

CONSTANTS
  LastRelease,     \* bound: createNextRelease is not called at this release
  Domains,         \* service domains
  Authorizations   \* service authorization contracts: [release, domains]

\* INITIAL_GIF_VERSION; _next starts one below it
InitialVersion == 3

\* VersionPart is a uint8
VersionPart(n) == n % 256

\* The bound keeps _next from going through zero back to a used release.
ASSUME ReleaseAssumption ==
  /\ LastRelease \in InitialVersion..255
  /\ \A a \in Authorizations :
       /\ a.release \in Nat
       /\ a.domains \in Seq(Domains)
       /\ \A i, j \in DOMAIN a.domains : a.domains[i] = a.domains[j] => i = j

Releases == (InitialVersion - 1)..LastRelease

\* Domains whose service may call the core contracts in every version
CoreDomains == {"REGISTRY", "STAKING", "COMPONENT", "POOL"}

\* What registerService reads from the contract it is given: its domain, its
\* version, and the release whose release admin is its authority
Services == [domain : Domains, release : Releases, authority : Releases]

NoAuthorization == [release |-> 0, domains |-> <<>>]

VARIABLES
  next,                \* _next
  latest,              \* _latest, 0 before the first activation
  state,               \* _releaseInfo[release].state
  authorization,       \* _releaseInfo[release].auth
  locked,              \* lock of the release admin's access manager
  registeredServices,  \* _registeredServices
  servicesToRegister,  \* _servicesToRegister
  service,             \* domains with a service in Registry._service[release]
  granted              \* releases whose service holds a domain's generic role

releaseVars == <<next, latest, state, authorization, locked,
                 registeredServices, servicesToRegister, service, granted>>

----------------------------------------------------------------------------
States == {"NONE", "SCHEDULED", "DEPLOYING", "DEPLOYED", "SKIPPED", "ACTIVE", "PAUSED"}

\* Mutant: a paused release can be skipped.
TransitionsPausedM ==
  {<<"SCHEDULED", "SKIPPED">>, <<"SCHEDULED", "DEPLOYING">>,
   <<"DEPLOYING", "SKIPPED">>, <<"DEPLOYING", "DEPLOYED">>,
   <<"DEPLOYED", "SKIPPED">>,  <<"DEPLOYED", "ACTIVE">>,
   <<"ACTIVE", "PAUSED">>,     <<"PAUSED", "ACTIVE">>, <<"PAUSED", "SKIPPED">>}

\* ReleaseLifecycle
Transitions ==
  {<<"SCHEDULED", "SKIPPED">>, <<"SCHEDULED", "DEPLOYING">>,
   <<"DEPLOYING", "SKIPPED">>, <<"DEPLOYING", "DEPLOYED">>,
   <<"DEPLOYED", "SKIPPED">>,  <<"DEPLOYED", "ACTIVE">>,
   <<"ACTIVE", "PAUSED">>,     <<"PAUSED", "ACTIVE">>}

IsValidTransition(from, to) == <<from, to>> \in Transitions

CheckTransition(current, from, to) == current = from /\ IsValidTransition(from, to)

ReleaseInit ==
  /\ next = InitialVersion - 1
  /\ latest = 0
  /\ state = [v \in Releases |-> "NONE"]
  /\ authorization = [v \in Releases |-> NoAuthorization]
  /\ locked = [v \in Releases |-> FALSE]
  /\ registeredServices = 0
  /\ servicesToRegister = 0
  /\ service = [v \in Releases |-> {}]
  /\ granted = [d \in CoreDomains |-> {}]

----------------------------------------------------------------------------
\* Mutant: the counters keep the values of the abandoned release.
CreateNextReleaseM ==
  LET release == VersionPart(next + 1) IN
  /\ next < LastRelease
  /\ next' = release
  /\ state' = [state EXCEPT
       ![next] = IF IsValidTransition(@, "SKIPPED") THEN "SKIPPED" ELSE @,
       ![release] = "SCHEDULED"]
  /\ UNCHANGED <<latest, authorization, locked, registeredServices,
                 servicesToRegister, service, granted>>

\* GIF admin: a release that was not activated is skipped, the counters start
\* again.
CreateNextRelease ==
  LET release == VersionPart(next + 1) IN
  /\ next < LastRelease  \* bound
  /\ next' = release
  /\ state' = [state EXCEPT
       ![next] = IF IsValidTransition(@, "SKIPPED") THEN "SKIPPED" ELSE @,
       ![release] = "SCHEDULED"]
  /\ servicesToRegister' = 0
  /\ registeredServices' = 0
  /\ UNCHANGED <<latest, authorization, locked, service, granted>>

MayPrepare(auth) ==
  /\ CheckTransition(state[next], "SCHEDULED", "DEPLOYING")
  /\ auth.release = next
  /\ Len(auth.domains) > 0

\* GIF manager: the authorization must be written for this release; the new
\* release admin is locked.
PrepareNextRelease(auth) ==
  /\ MayPrepare(auth)
  /\ servicesToRegister' = Len(auth.domains)
  /\ state' = [state EXCEPT ![next] = "DEPLOYING"]
  /\ authorization' = [authorization EXCEPT ![next] = auth]
  /\ locked' = [locked EXCEPT ![next] = TRUE]
  /\ UNCHANGED <<next, latest, registeredServices, service, granted>>

ExpectedDomain == authorization[next].domains[registeredServices + 1]

\* Services come in the order of the authorization.
MayRegister(s) ==
  /\ CheckTransition(state[next], "DEPLOYING", "DEPLOYED")
  /\ s.authority = next
  /\ s.release = next
  /\ s.domain = ExpectedDomain
  /\ locked[next]
  /\ s.domain \notin service[next]

\* GIF manager: the release admin is unlocked to authorize the service and
\* locked again.
RegisterService(s) ==
  /\ MayRegister(s)
  /\ registeredServices' = registeredServices + 1
  /\ state' = [state EXCEPT
       ![next] = IF servicesToRegister = registeredServices' THEN "DEPLOYED" ELSE @]
  /\ service' = [service EXCEPT ![next] = @ \union {s.domain}]
  /\ UNCHANGED <<next, latest, authorization, locked, servicesToRegister, granted>>

MayActivate ==
  /\ CheckTransition(state[next], "DEPLOYED", "ACTIVE")
  /\ "REGISTRY" \in service[next]
  /\ locked[next]

\* Mutant: the services of earlier releases lose their roles.
ActivateNextReleaseM ==
  /\ MayActivate
  /\ latest' = next
  /\ state' = [state EXCEPT ![next] = "ACTIVE"]
  /\ granted' = [d \in CoreDomains |->
       IF d \in service[next] THEN {next} ELSE granted[d]]
  /\ locked' = [locked EXCEPT ![next] = FALSE]
  /\ UNCHANGED <<next, authorization, registeredServices, servicesToRegister, service>>

\* GIF admin: the services that work with the core contracts get their roles,
\* the release admin is unlocked.
ActivateNextRelease ==
  /\ MayActivate
  /\ latest' = next
  /\ state' = [state EXCEPT ![next] = "ACTIVE"]
  /\ granted' = [d \in CoreDomains |->
       IF d \in service[next] THEN granted[d] \union {next} ELSE granted[d]]
  /\ locked' = [locked EXCEPT ![next] = FALSE]
  /\ UNCHANGED <<next, authorization, registeredServices, servicesToRegister, service>>

\* Mutant: a release is resumed without unlocking it.
SetActiveM(v, active) ==
  /\ \/ active /\ CheckTransition(state[v], "PAUSED", "ACTIVE")
     \/ ~active /\ CheckTransition(state[v], "ACTIVE", "PAUSED")
  /\ state' = [state EXCEPT ![v] = IF active THEN "ACTIVE" ELSE "PAUSED"]
  /\ locked' = [locked EXCEPT ![v] = TRUE]
  /\ UNCHANGED <<next, latest, authorization, registeredServices,
                 servicesToRegister, service, granted>>

\* GIF admin: setReleaseLocked refuses a lock that is set already.
SetActive(v, active) ==
  /\ \/ active /\ CheckTransition(state[v], "PAUSED", "ACTIVE")
     \/ ~active /\ CheckTransition(state[v], "ACTIVE", "PAUSED")
  /\ locked[v] = active
  /\ state' = [state EXCEPT ![v] = IF active THEN "ACTIVE" ELSE "PAUSED"]
  /\ locked' = [locked EXCEPT ![v] = ~active]
  /\ UNCHANGED <<next, latest, authorization, registeredServices,
                 servicesToRegister, service, granted>>

ReleaseNext ==
  \/ CreateNextRelease
  \/ \E a \in Authorizations : PrepareNextRelease(a)
  \/ \E s \in Services : RegisterService(s)
  \/ ActivateNextRelease
  \/ \E v \in Releases, active \in BOOLEAN : SetActive(v, active)

ReleaseSpec == ReleaseInit /\ [][ReleaseNext]_releaseVars

----------------------------------------------------------------------------
\* Every release has a state, an authorization, a lock and services of the
\* right kind, and never are more services registered than are expected.
ReleaseTypeOK ==
  /\ next \in Releases
  /\ latest \in Releases \union {0}
  /\ state \in [Releases -> States]
  /\ authorization \in [Releases -> Authorizations \union {NoAuthorization}]
  /\ locked \in [Releases -> BOOLEAN]
  /\ servicesToRegister \in Nat
  /\ registeredServices \in 0..servicesToRegister
  /\ service \in [Releases -> SUBSET Domains]
  /\ granted \in [CoreDomains -> SUBSET Releases]

Activated == {"ACTIVE", "PAUSED"}

DomainsOf(auth) == {auth.domains[i] : i \in DOMAIN auth.domains}

\* A release that is deployed, active or paused has a service for every domain
\* of its authorization and for no other: no service of an abandoned release
\* is counted for the next one (the counters of ReleaseRegistry are per
\* contract, not per release).
DeployedIsComplete ==
  \A v \in Releases : state[v] \in {"DEPLOYED"} \union Activated =>
    service[v] = DomainsOf(authorization[v])

\* The services of a release can be called exactly while it is active: a
\* prepared, skipped or paused release is locked.  Were it otherwise, pausing
\* or resuming it would revert (ReleaseAdmin.setReleaseLocked).
LockedUnlessActive ==
  \A v \in Releases : authorization[v] # NoAuthorization =>
    (locked[v] <=> state[v] # "ACTIVE")

\* A service may call the core contracts in every version exactly if its
\* release was activated; pausing does not take that role away, skipped
\* releases never had it (grantServiceRoleForAllVersions).
RolesOfActivatedReleases ==
  \A d \in CoreDomains :
    granted[d] = {v \in Releases : state[v] \in Activated /\ d \in service[v]}

\* Skipped releases stay skipped, activated ones are never skipped or prepared
\* again, and the latest release only grows.
DecisionsAreFinal ==
  [][/\ \A v \in Releases :
          /\ state[v] = "SKIPPED" => state'[v] = "SKIPPED"
          /\ state[v] \in Activated => state'[v] \in Activated
     /\ latest' >= latest]_releaseVars

==================================================
