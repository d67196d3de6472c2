----------------------------- MODULE MCBrowser ------------------------------
(* Small instances of Browser for TLC. *)
EXTENDS Browser

CONSTANTS s1, s2, f1, f2, v1, v2

TwoSockets == {s1, s2}
TwoFetches == {f1, f2}
TwoValues == {v1, v2}
=============================================================================
