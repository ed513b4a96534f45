---------------------------- MODULE MCDeployment ----------------------------
(***************************************************************************)
(* The whole of deploy_all.ts without faults, its part from the creation   *)
(* of the release on with one, and a short deployment of two services with *)
(* several.                                                                *)
(***************************************************************************)
EXTENDS Deployment, TLC

Scripts == INSTANCE DeploymentPlan

TwoServices == [release |-> 3, domains |-> <<"REGISTRY", "STAKING">>]

ShortPlan ==
  <<Scripts!Deploy("ReleaseRegistry")>> \o Scripts!CreateRelease \o Scripts!DeployRegistryService
  \o Scripts!LinkedServices(<<"STAKING">>) \o Scripts!Activate \o Scripts!CloneInstance

ReleasePlan ==
  Scripts!CreateRelease \o Scripts!DeployServices \o Scripts!Activate
  \o Scripts!DeployAndRegisterMasterInstance \o Scripts!CloneInstance

MCDomains == DomainsOf(Scripts!ServiceAuthorizationV3)
MCAuthorizations == {Scripts!ServiceAuthorizationV3, TwoServices}

MCDeployments ==
  {[plan |-> Scripts!DeployAll, authorization |-> Scripts!ServiceAuthorizationV3, faults |-> 0],
   [plan |-> ReleasePlan, authorization |-> Scripts!ServiceAuthorizationV3, faults |-> 1],
   [plan |-> ShortPlan, authorization |-> TwoServices, faults |-> 3]}
=============================================================================
