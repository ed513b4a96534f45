--------------------------- MODULE DeploymentPlan ---------------------------
(***************************************************************************)
(* The steps of deploy_all.ts, function by function.  A step is the        *)
(* creation of a contract, keyed by its name, or a transaction, keyed by   *)
(* its id; the keys of a service's steps are formed with its domain.       *)
(***************************************************************************)
EXTENDS Naturals, Sequences, SequencesExt

Step(table, name, call) ==
  [key |-> <<table, name>>, call |-> call, domain |-> "NONE", active |-> FALSE]

Deploy(name) == Step("contract", name, "deploy")

\* A second execution of such a transaction reverts.
Once(id) == Step("tx", id, "once")

\* Such a transaction may be executed again.
Repeat(id) == Step("tx", id, "repeat")

DeployEach(names) == [i \in DOMAIN names |-> Deploy(names[i])]

\* Steps whose contracts belong to a locked release unless it is active.
WhenActive(steps) == [i \in DOMAIN steps |-> [steps[i] EXCEPT !.active = @ \/ steps[i].call # "deploy"]]

----------------------------------------------------------------------------
BaseLibraries ==
  <<"VersionLib", "VersionPartLib", "Key32Lib", "NftIdLib", "ChainIdLib", "UFixedLib",
    "AmountLib", "StrLib", "ObjectTypeLib", "RoleIdLib", "ClaimIdLib", "PayoutIdLib",
    "BlocknumberLib", "ContractLib", "SecondsLib", "TimestampLib">>

StateLibraries ==
  <<"TargetManagerLib", "StakingLib", "StateIdLib", "LibNftIdSet", "LibKey32Set">>

ProductLibraries ==
  <<"RiskIdLib", "FeeLib", "PoolLib", "DistributorTypeLib", "ReferralLib", "RequestIdLib",
    "LibRequestIdSet", "SelectorLib", "SelectorSetLib", "TokenHandlerDeployerLib",
    "ObjectSetHelperLib", "PolicyServiceLib", "AccessAdminLib">>

DeployLibraries == DeployEach(BaseLibraries \o StateLibraries \o ProductLibraries)

CoreContracts ==
  DeployEach(<<"Dip", "RegistryAuthorization", "RegistryAdmin", "Registry",
               "ReleaseRegistry", "TokenRegistry">>)

StakingContracts ==
  DeployEach(<<"StakingReader", "StakingStore", "TargetHandler">>)
  \o <<Once("stakingstore.initialize"), Deploy("StakingManager"),
       Once("stakingReader.initialize")>>

DeployAndInitializeRegistry ==
  CoreContracts \o StakingContracts
  \o <<Once("registry.initialize"), Once("registryAdmin.completeSetup"),
       Deploy("ServiceAuthorizationV3")>>

\* The domains the authorization of release 3 lists.
ServiceAuthorizationV3 ==
  [release |-> 3,
   domains |-> <<"REGISTRY", "STAKING", "INSTANCE", "ACCOUNTING", "COMPONENT",
                 "DISTRIBUTION", "PRICE", "BUNDLE", "POOL", "ORACLE", "RISK",
                 "POLICY", "CLAIM", "APPLICATION">>]

CreateRelease ==
  <<Step("tx", "createNextRelease", "createNextRelease"),
    Step("tx", "prepareNextRelease", "prepareNextRelease")>>

RegisterService(domain) ==
  [Step("registerService", domain, "registerService") EXCEPT !.domain = domain]

\* A service is created by its manager.
DeployAndRegister(domain) ==
  <<Step("manager", domain, "deploy"), RegisterService(domain)>>

\* registerAndLinkService; the registry service and the component service are
\* not linked.
DeployAndLink(domain) ==
  DeployAndRegister(domain) \o <<Step("linkToProxy", domain, "once")>>

DeployRegistryService == DeployAndRegister("REGISTRY")

DeployComponentService == DeployAndRegister("COMPONENT")

LinkedServices(domains) == FlattenSeq([i \in DOMAIN domains |-> DeployAndLink(domains[i])])

DeployFirstServices == LinkedServices(<<"STAKING", "INSTANCE", "ACCOUNTING">>)

DeployPoolServices == LinkedServices(<<"DISTRIBUTION", "PRICE", "BUNDLE", "POOL">>)

DeployPolicyServices ==
  LinkedServices(<<"ORACLE", "RISK", "POLICY", "CLAIM", "APPLICATION">>)

\* Mutant: the component service comes before the staking service.
DeployServicesM ==
  DeployRegistryService \o DeployComponentService \o DeployFirstServices
  \o DeployPoolServices \o DeployPolicyServices

DeployServices ==
  DeployRegistryService \o DeployFirstServices \o DeployComponentService
  \o DeployPoolServices \o DeployPolicyServices

Activate == <<Step("tx", "activateNextRelease", "activateNextRelease")>>

MasterInstanceContracts ==
  DeployEach(<<"InstanceAuthorizationV3", "AccessManagerCloneable", "InstanceAdmin",
               "InstanceStore", "ProductStore", "BundleSet", "RiskSet",
               "InstanceReader", "Instance">>)

RegisterMasterInstance ==
  WhenActive(<<Once("masterInstance initialize"),
               Once("masterInstance setAndRegisterMasterInstance"),
               Once("masterInstanceAdmin completeSetup"),
               Once("masterInstance transfer ownership nft")>>)

DeployAndRegisterMasterInstance == MasterInstanceContracts \o RegisterMasterInstance

CloneInstance == WhenActive(<<Repeat("instanceService createInstance")>>)

DeployGifContracts ==
  DeployLibraries \o DeployAndInitializeRegistry \o CreateRelease \o DeployServices
  \o Activate \o DeployAndRegisterMasterInstance \o CloneInstance

DeployFireComponentContracts ==
  WhenActive(
    <<Repeat("fire ex - createInstance"), Deploy("FireUSD"),
      Deploy("FireProductAuthorization"), Once("fire ex - registerToken"),
      Repeat("fire ex - setActiveForVersion"), Deploy("FireProduct"),
      Once("fire ex - registerProduct"), Deploy("FirePoolAuthorization"),
      Deploy("FirePool"), Once("fire ex - registerComponent")>>)

\* The bundle takes all the investor owns; a city is initialized once and then
\* only looked up.
CreateFireBundleAndPolicy ==
  WhenActive(
    <<Repeat("o - transfer bundle amount to investor"),
      Repeat("o - transfer sum insured to customer"),
      Repeat("i - approve firePool token handler"), Once("i - create bundle"),
      Repeat("o - initialize city"), Repeat("c - approve fireProduct token handler"),
      Repeat("c - create policy"), Once("o - create policy"),
      Once("o - report fire"), Once("c - claim")>>)

DeployFlightProduct ==
  WhenActive(
    <<Repeat("fd - createInstance"), Deploy("FlightUSD"), Once("fd - registerToken"),
      Repeat("fd - setActiveForVersion"), Deploy("FlightLib"),
      Deploy("FlightProductAuthorization"), Deploy("FlightProduct"),
      Once("fd - registerProduct"), Repeat("fd - setConstants")>>)

DeployFlightPoolAndOracle ==
  WhenActive(
    <<Deploy("FlightPoolAuthorization"), Deploy("FlightPool"),
      Once("fd - registerComponent pool"), Deploy("FlightOracleAuthorization"),
      Deploy("FlightOracle"), Once("fd - registerComponent oracle"),
      Repeat("fd - setOracleNftId")>>)

DeployFlightDelayComponentContracts == DeployFlightProduct \o DeployFlightPoolAndOracle

DeployAll ==
  DeployGifContracts \o DeployFireComponentContracts \o CreateFireBundleAndPolicy
  \o DeployFlightDelayComponentContracts
=============================================================================
