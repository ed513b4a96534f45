----------------------------- MODULE MCReleases -----------------------------
(***************************************************************************)
(* Four releases with authorizations of different length; two contracts    *)
(* compete for release 4, and one for release 5 lacks the registry service.*)
(***************************************************************************)
EXTENDS ReleaseRegistry

MCAuthorizations ==
  {[release |-> 3, domains |-> <<"REGISTRY", "POOL", "CLAIM">>],
   [release |-> 4, domains |-> <<"REGISTRY", "POOL">>],
   [release |-> 4, domains |-> <<"REGISTRY", "CLAIM", "POOL">>],
   [release |-> 5, domains |-> <<"POOL", "CLAIM">>],
   [release |-> 6, domains |-> <<"CLAIM", "REGISTRY">>]}
=============================================================================
