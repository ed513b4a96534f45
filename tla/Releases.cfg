\* Up to four releases of two or three services.
CONSTANTS
  LastRelease = 6
  Domains = {"REGISTRY", "POOL", "CLAIM"}
  Authorizations <- MCAuthorizations
SPECIFICATION ReleaseSpec
INVARIANTS
  DeployedIsComplete
  LockedUnlessActive
  RolesOfActivatedReleases
PROPERTIES
  DecisionsAreFinal
