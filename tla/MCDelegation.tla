---------------------------- MODULE MCDelegation ----------------------------
(* Small instances of Delegation for TLC. *)
EXTENDS Delegation

CONSTANTS v1, v2

TwoValidators == {v1, v2}
OneAnswered == {v1}

(* No split, equal weights, unequal ones of which one is zero, and two     *)
(* that SetSplit refuses, one of them with a negative weight.              *)
Splits ==
    {[n |-> 0, given |-> <<>>], [n |-> 3, given |-> <<>>],
     [n |-> 3, given |-> <<2, 5, 0>>],
     [n |-> 2, given |-> <<1>>], [n |-> 2, given |-> <<1, -1>>]}
=============================================================================
