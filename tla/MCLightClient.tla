--------------------------- MODULE MCLightClient ---------------------------
(* Small instances of LightClient for TLC. *)
EXTENDS LightClient

CONSTANT r1

OneReader == {r1}
=============================================================================
