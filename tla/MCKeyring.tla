----------------------------- MODULE MCKeyring -----------------------------
(* Small instances of Keyring for TLC. *)
EXTENDS Keyring, TLC

CONSTANTS t1, t2, p1, p2, n1, n2, k1, k2

TwoThreads == {t1, t2}
TwoProcesses == {p1, p2}
TwoNames == {n1, n2}
TwoKeys == {k1, k2}
Alike == Permutations(Threads) \cup Permutations(Procs)
             \cup Permutations(Names) \cup Permutations(Keys)
=============================================================================
