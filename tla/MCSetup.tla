------------------------------ MODULE MCSetup -------------------------------
(* Small instances of Setup for TLC. *)
EXTENDS Setup, TLC

CONSTANTS local, k1, k2, c1

OneEndpoint == {local}
TwoKeys == {k1, k2}
OneCommand == {c1}
OneSuffixed == {"validator-1"}

SetupSymmetry == Permutations(TwoKeys)
=============================================================================
