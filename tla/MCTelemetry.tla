----------------------------- MODULE MCTelemetry -----------------------------
(* Small instances of Telemetry for TLC. *)
EXTENDS Telemetry

CONSTANTS v1, v2

AllKinds == {"validators", "bridge", "tokenomics", "network"}
TwoItems == {v1, v2}
=============================================================================
