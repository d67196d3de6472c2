---------------------------- MODULE MCLifecycle -----------------------------
(* Small instances of Lifecycle for TLC. *)
EXTENDS Lifecycle

CONSTANTS d1, c1, g1, g2, g3, headers, rewards

OneDaemon == {d1}
OneCommand == {c1}
TwoCollectors == {g1, g2}
OneLoop == {g3}
TwoTables == {headers, rewards}
=============================================================================
