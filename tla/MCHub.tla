------------------------------- MODULE MCHub -------------------------------
(* Small instances of Hub for TLC. *)
EXTENDS Hub

CONSTANTS c1, b1, b2

OneClient == {c1}
TwoBroadcasters == {b1, b2}
=============================================================================
