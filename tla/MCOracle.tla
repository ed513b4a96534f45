------------------------------ MODULE MCOracle ------------------------------
(***************************************************************************)
(* A product and its pool share an oracle.                                 *)
(***************************************************************************)
EXTENDS Oracle

CONSTANTS product, pool, oracle

OneCluster == [c \in {product, pool, oracle} |-> product]
=============================================================================
