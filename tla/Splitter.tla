------------------------------ MODULE Splitter ------------------------------
(***************************************************************************)
(* How Manager keeps the configured split of a delegation, and how         *)
(* ComputeSplit divides an amount by it, in machine integers: a validator  *)
(* is its place in the list, and only the weights matter.                  *)
(***************************************************************************)
EXTENDS Integers, Sequences

CONSTANT IntBits  \* the width of int64, scaled down

ASSUME IntBitsAssumption == IntBits \in Nat \ {0}

Half == 2 ^ (IntBits - 1)

(* int64 arithmetic: the product and the difference wrap around, and the   *)
(* quotient is truncated towards zero.                                     *)
Wrap(x) == ((x + Half) % (2 * Half)) - Half

Magnitude(x) == IF x < 0 THEN -x ELSE x

Quotient(a, b) ==
    LET q == Magnitude(a) \div Magnitude(b)
    IN  IF (a < 0) = (b < 0) THEN q ELSE -q

(* The sums of the first 0, 1, ... numbers of s, and that of them all. *)
Sums(s) ==
    LET sum[i \in 0..Len(s)] == IF i = 0 THEN 0 ELSE sum[i - 1] + s[i]
    IN  sum

Total(s) == Sums(s)[Len(s)]

(* The loops of SetSplit and ComputeSplit add in a Go int. *)
TotalWeight(weights) == Wrap(Total(weights))

-----------------------------------------------------------------------------
(* No split is configured. *)
Unset == <<>>

(* New: without weights in the configuration all validators weigh the same.*)
Weights(n, given) == IF given = <<>> THEN [i \in 1..n |-> 1] ELSE given

(* SetSplit, for n validators; New ignores its error, and the manager is   *)
(* left without a split.                                                   *)
SetSplit(n, weights) ==
    IF n > 0 /\ Len(weights) = n /\ TotalWeight(weights) # 0 THEN weights ELSE Unset

Share(weights, amount, i) ==
    Wrap(Quotient(Wrap(amount * weights[i]), TotalWeight(weights)))

(* Mutant: every validator gets its share, rounded down. *)
ComputeSplitLossy(weights, amount) ==
    IF weights = Unset \/ amount <= 0 \/ TotalWeight(weights) = 0 THEN <<>>
    ELSE [i \in DOMAIN weights |-> Share(weights, amount, i)]

(* The amounts ComputeSplit returns; the last validator gets the remainder.*)
ComputeSplit(weights, amount) ==
    LET last == Len(weights)
        allocated == Total([i \in 1..(last - 1) |-> Share(weights, amount, i)])
    IN  IF weights = Unset \/ amount <= 0 \/ TotalWeight(weights) = 0 THEN <<>>
        ELSE [i \in 1..last |-> IF i < last THEN Share(weights, amount, i)
                                ELSE Wrap(amount - allocated)]

-----------------------------------------------------------------------------
(* What a split has to be: all of the amount and no more, nobody owes      *)
(* anything, each but the last gets its share less a fraction of a unit,   *)
(* and the last gets its share and the fractions of the others.            *)
Fair(weights, amount) ==
    LET amounts == ComputeSplit(weights, amount)
        off(i) == amounts[i] * Total(weights) - amount * weights[i]
    IN  /\ Len(amounts) = Len(weights)
        /\ Total(amounts) = amount
        /\ \A i \in DOMAIN amounts :
             /\ amounts[i] >= 0
             /\ IF i < Len(amounts) THEN off(i) \in (1 - Total(weights))..0
                ELSE off(i) \in 0..((Len(amounts) - 1) * (Total(weights) - 1))

(* ComputeSplit checks neither the sum of the weights, nor their signs, nor *)
(* the products.                                                           *)
Fits(weights, amount) ==
    /\ Total(weights) < Half
    /\ \A i \in DOMAIN weights : weights[i] >= 0 /\ amount * weights[i] < Half
=============================================================================
