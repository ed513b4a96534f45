\* One fault in deploy_all.ts, three in a short deployment.
CONSTANTS
  LastRelease = 7
  Domains <- MCDomains
  Authorizations <- MCAuthorizations
  Deployments <- MCDeployments
SPECIFICATION Spec
INVARIANTS
  DeploymentTypeOK
  RecordedInOrder
  RepeatedOnlyIfLost
  FinishedIsComplete
PROPERTIES
  EventuallyFinished
  ImplementsPlanPromise
\* A finished script and one that waits for a dropped transaction stop.
CHECK_DEADLOCK FALSE
