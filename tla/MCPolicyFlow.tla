---------------------------- MODULE MCPolicyFlow ----------------------------
(***************************************************************************)
(* Values for the constants of PolicyFlow that a cfg cannot write.         *)
(***************************************************************************)
EXTENDS PolicyFlow

NoFee == [fixed |-> 0, fractional |-> 0]
FixedFee == [fixed |-> 1, fractional |-> 0]
HalfFee == [fixed |-> 0, fractional |-> 50]

NetPremium == {[net |-> 1, productFee |-> 0, poolFee |-> 0, bundleFee |-> 0]}
BundleFeePremium == {[net |-> 1, productFee |-> 0, poolFee |-> 0, bundleFee |-> 1]}
LoadedPremium == {[net |-> 1, productFee |-> 1, poolFee |-> 1, bundleFee |-> 1]}
=============================================================================
