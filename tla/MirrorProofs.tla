---------------------------- MODULE MirrorProofs ----------------------------
(***************************************************************************)
(* Theorems about what the daemon keeps of the chain: the mirror of the    *)
(* delegations and the split of an amount (Delegation, Splitter), for any  *)
(* validators, any configured split and any width of the integers, and a   *)
(* table of telemetry with its handler (Telemetry), for any items.  A row  *)
(* of the mirror goes back only if the node was behind, the parts of a     *)
(* split are fair and add up to the amount, and the answers of a handler   *)
(* advance in the same sense.                                              *)
(***************************************************************************)
EXTENDS Delegation, Telemetry, WellFoundedInduction, TLAPS

(* Every action, without quantifiers nested in disjunctions. *)
LEMMA NextActions ==
    ASSUME Next
    PROVE  \/ ChangeReputation
           \/ Tick
           \/ Fetch
           \/ FetchFails
           \/ Synced
           \/ ReadFails
           \/ Checked
           \/ \E v \in Validators : ChangeStake(v)
           \/ \E v \in Validators : StoreRow(v)
           \/ \E v \in Validators : StoreRowFails(v)
           \/ \E v \in Validators : Score(v)
           \/ \E v \in Validators : ScoreFails(v)
           \/ \E S \in SUBSET Validators : ReadTable(S)
           \/ \E k \in [Validators -> Amounts] : FetchLate(k)
BY DEF Next, Step, ReadAny, FetchAnyLate

-----------------------------------------------------------------------------
(* A split is a sequence of weights, or there is none. *)
LEMMA SplitType == \A c \in SplitConfigs : SetSplit(c.n, Weights(c.n, c.given)) \in Seq(Int)
<1> SUFFICES ASSUME NEW c \in SplitConfigs
             PROVE  SetSplit(c.n, Weights(c.n, c.given)) \in Seq(Int)
  OBVIOUS
<1>1. c.n \in Nat /\ c.given \in Seq(Int)
  BY SplitConfigsAssumption
<1>2. Weights(c.n, c.given) \in Seq(Int)
  BY <1>1 DEF Weights
<1> QED
  BY <1>2 DEF SetSplit, Unset

(* The loop has a subset of the delegations in hand. *)
LEMMA PageType == \A held : \A S \in FirstPage(held) : S \subseteq held
BY DEF FirstPage

(* A row shows an amount the stake had, and what a sync has in hand is one *)
(* too, no older than what its row shows unless the node was behind.       *)
NotAhead ==
    \A v \in Validators :
        /\ table[v] <= Len(stake[v]) /\ (table[v] # 0 => stake[v][table[v]])
        /\ snap[v] <= Len(stake[v]) /\ (snap[v] # 0 => stake[v][snap[v]])
        /\ pc = "store" /\ v \in todo =>
               snap[v] # 0 /\ (~late => table[v] <= snap[v])

MirrorInv == TypeOK /\ NotAhead

LEMMA MirrorInit == Init => MirrorInv
<1> SUFFICES ASSUME Init PROVE MirrorInv
  OBVIOUS
<1>1. split \in Seq(Int)
  BY SplitType DEF Init
<1>2. 0 \in Amounts
  BY MaxChangesAssumption DEF Amounts
<1>3. stake \in [Validators -> Seq(BOOLEAN)] /\ \A v \in Validators : Len(stake[v]) = 0
  BY DEF Init
<1>4. \A v \in Validators : table[v] = 0 /\ snap[v] = 0
  BY DEF Init
<1>5. TypeOK
  BY <1>1, <1>2, <1>3, AddressedAssumption, PageSizesAssumption DEF Init, TypeOK
<1>6. NotAhead
  BY <1>3, <1>4 DEF Init, NotAhead
<1> QED
  BY <1>5, <1>6 DEF MirrorInv

(* What the chain does only adds to the histories of the delegations.      *)
LEMMA ChangeKeepsRows ==
    ASSUME MirrorInv, NEW v \in Validators, ChangeStake(v)
    PROVE  MirrorInv'
<1>1. /\ split' = split /\ address' = address /\ page' = page /\ low' = low
      /\ table' = table /\ pc' = pc /\ snap' = snap /\ late' = late
      /\ todo' = todo /\ alerts' = alerts
  BY DEF ChangeStake, fixed, answer
<1>2. PICK held \in BOOLEAN : stake' = [stake EXCEPT ![v] = Append(stake[v], held)]
  BY DEF ChangeStake
<1>3. stake \in [Validators -> Seq(BOOLEAN)] /\ Len(stake[v]) < MaxChanges
  BY DEF MirrorInv, TypeOK, ChangeStake
<1>4. stake' \in [Validators -> Seq(BOOLEAN)]
  BY <1>2, <1>3
<1>5. \A u \in Validators :
        /\ Len(stake'[u]) = IF u = v THEN Len(stake[u]) + 1 ELSE Len(stake[u])
        /\ \A n \in 1..Len(stake[u]) : stake'[u][n] = stake[u][n]
  BY <1>2, <1>3
<1>6. \A u \in Validators : Len(stake[u]) \in Nat /\ Len(stake[u]) \in Amounts
  BY <1>3 DEF MirrorInv, TypeOK
<1>7. \A u \in Validators : table[u] \in Nat /\ snap[u] \in Nat
  BY MaxChangesAssumption DEF MirrorInv, TypeOK, Amounts
<1>8. TypeOK'
  <2>1. \A u \in Validators : Len(stake'[u]) \in Amounts
    BY <1>3, <1>5, <1>6, MaxChangesAssumption DEF Amounts
  <2> QED
    BY <1>1, <1>4, <2>1 DEF MirrorInv, TypeOK
<1>9. NotAhead'
  <2> SUFFICES ASSUME NEW u \in Validators
      PROVE /\ table[u] <= Len(stake'[u]) /\ (table[u] # 0 => stake'[u][table[u]])
            /\ snap[u] <= Len(stake'[u]) /\ (snap[u] # 0 => stake'[u][snap[u]])
            /\ pc = "store" /\ u \in todo =>
                  snap[u] # 0 /\ (~late => table[u] <= snap[u])
    BY <1>1 DEF NotAhead
  <2>1. /\ table[u] <= Len(stake[u]) /\ snap[u] <= Len(stake[u])
        /\ table[u] # 0 => stake[u][table[u]]
        /\ snap[u] # 0 => stake[u][snap[u]]
        /\ pc = "store" /\ u \in todo =>
               snap[u] # 0 /\ (~late => table[u] <= snap[u])
    BY DEF MirrorInv, NotAhead
  <2>2. Len(stake'[u]) >= Len(stake[u])
    BY <1>5, <1>6
  <2>3. table[u] # 0 => table[u] \in 1..Len(stake[u])
    BY <1>6, <1>7, <2>1
  <2>4. snap[u] # 0 => snap[u] \in 1..Len(stake[u])
    BY <1>6, <1>7, <2>1
  <2>5. table[u] <= Len(stake'[u]) /\ snap[u] <= Len(stake'[u])
    BY <1>5, <1>6, <1>7, <2>1
  <2> QED
    BY <1>5, <2>1, <2>3, <2>4, <2>5, Zenon
<1> QED
  BY <1>8, <1>9 DEF MirrorInv

(* An answer of the node, of now or of an earlier time. *)
LEMMA FetchKeepsRows ==
    ASSUME MirrorInv, NEW k \in [Validators -> Amounts],
           \A v \in Validators : k[v] <= Len(stake[v]), FetchAt(k)
    PROVE  MirrorInv'
<1>1. /\ split' = split /\ address' = address /\ page' = page /\ low' = low
      /\ stake' = stake /\ table' = table /\ pc' = "store" /\ alerts' = alerts
      /\ late' = (k # Latest)
  BY DEF FetchAt, fixed, chain
<1>2. /\ snap' = [v \in Validators |-> IF v \in todo' THEN k[v] ELSE 0]
      /\ todo' \subseteq Validators
      /\ \A v \in todo' : k[v] # 0 /\ stake[v][k[v]]
  <2>1. todo' \subseteq HeldAt(k)
    BY PageType DEF FetchAt
  <2> QED
    BY <2>1 DEF FetchAt, HeldAt
<1>3. 0 \in Amounts /\ Amounts \subseteq Nat
  BY MaxChangesAssumption DEF Amounts
<1>4. TypeOK'
  <2>1. snap' \in [Validators -> Amounts] /\ late' \in BOOLEAN
    BY <1>1, <1>2, <1>3
  <2> QED
    BY <1>1, <1>2, <2>1 DEF MirrorInv, TypeOK
<1>5. NotAhead'
  <2> SUFFICES ASSUME NEW v \in Validators
      PROVE /\ table[v] <= Len(stake[v]) /\ (table[v] # 0 => stake[v][table[v]])
            /\ snap'[v] <= Len(stake[v]) /\ (snap'[v] # 0 => stake[v][snap'[v]])
            /\ v \in todo' => snap'[v] # 0 /\ (~late' => table[v] <= snap'[v])
    BY <1>1 DEF NotAhead
  <2>1. table[v] <= Len(stake[v]) /\ (table[v] # 0 => stake[v][table[v]])
    BY DEF MirrorInv, NotAhead
  <2>2. snap'[v] = IF v \in todo' THEN k[v] ELSE 0
    BY <1>2
  <2>3. stake[v] \in Seq(BOOLEAN) /\ Len(stake[v]) \in Nat /\ k[v] \in Nat
    BY <1>3 DEF MirrorInv, TypeOK
  <2>4. snap'[v] <= Len(stake[v])
    BY <2>2, <2>3
  <2>5. ~late' => k[v] = Len(stake[v])
    BY <1>1 DEF Latest
  <2>6. CASE v \in todo'
    BY <1>2, <2>1, <2>2, <2>4, <2>5, <2>6
  <2>7. CASE v \notin todo'
    BY <2>1, <2>2, <2>4, <2>7
  <2> QED
    BY <2>6, <2>7
<1> QED
  BY <1>4, <1>5 DEF MirrorInv

(* A row is written. *)
LEMMA StoreKeepsRows ==
    ASSUME MirrorInv, NEW v \in Validators, StoreRow(v)
    PROVE  MirrorInv'
<1>1. /\ split' = split /\ address' = address /\ page' = page /\ low' = low
      /\ stake' = stake /\ pc' = pc /\ snap' = snap /\ late' = late
      /\ todo' = todo \ {v} /\ alerts' = alerts
      /\ table' = [table EXCEPT ![v] = snap[v]]
  BY DEF StoreRow, fixed, chain, answer
<1>2. table \in [Validators -> Amounts] /\ snap \in [Validators -> Amounts]
  BY DEF MirrorInv, TypeOK
<1>3. \A u \in Validators : table'[u] = IF u = v THEN snap[v] ELSE table[u]
  BY <1>1, <1>2
<1>4. TypeOK'
  <2>1. table' \in [Validators -> Amounts]
    BY <1>1, <1>2
  <2> QED
    BY <1>1, <2>1 DEF MirrorInv, TypeOK
<1>5. NotAhead'
  BY <1>1, <1>3 DEF MirrorInv, NotAhead
<1> QED
  BY <1>4, <1>5 DEF MirrorInv

LEMMA MirrorStep == MirrorInv /\ [Next]_vars => MirrorInv'
<1> SUFFICES ASSUME MirrorInv, [Next]_vars PROVE MirrorInv'
  OBVIOUS
<1> USE DEF MirrorInv, TypeOK, NotAhead, fixed, chain, answer
<1>1. CASE ChangeReputation
  BY <1>1 DEF ChangeReputation
<1>2. CASE Tick
  BY <1>2 DEF Tick
<1>3. CASE Fetch
  <2>1. Latest \in [Validators -> Amounts]
    BY DEF Latest
  <2>2. \A v \in Validators : Latest[v] <= Len(stake[v])
    <3>1. \A v \in Validators : Len(stake[v]) \in Nat /\ Latest[v] = Len(stake[v])
      BY DEF Latest
    <3> QED
      BY <3>1
  <2> HIDE DEF MirrorInv
  <2> QED
    BY <1>3, <2>1, <2>2, FetchKeepsRows DEF Fetch
<1>4. CASE FetchFails
  BY <1>4 DEF FetchFails
<1>5. CASE Synced
  BY <1>5 DEF Synced
<1>6. CASE ReadFails
  BY <1>6 DEF ReadFails
<1>7. CASE Checked
  BY <1>7 DEF Checked
<1>8. CASE \E v \in Validators : ChangeStake(v)
  <2> HIDE DEF MirrorInv
  <2> QED
    BY <1>8, ChangeKeepsRows
<1>9. CASE \E v \in Validators : StoreRow(v)
  <2> HIDE DEF MirrorInv
  <2> QED
    BY <1>9, StoreKeepsRows
<1>10. CASE \E v \in Validators : StoreRowFails(v)
  BY <1>10 DEF StoreRowFails
<1>11. CASE \E v \in Validators : Score(v)
  BY <1>11 DEF Score
<1>12. CASE \E v \in Validators : ScoreFails(v)
  BY <1>12 DEF ScoreFails
<1>13. CASE \E S \in SUBSET Validators : ReadTable(S)
  BY <1>13 DEF ReadTable
<1>14. CASE \E k \in [Validators -> Amounts] : FetchLate(k)
  <2> PICK k \in [Validators -> Amounts] : FetchLate(k)
    BY <1>14
  <2>1. FetchAt(k) /\ \A v \in Validators : k[v] <= Len(stake[v])
    BY DEF FetchLate, Latest
  <2> HIDE DEF MirrorInv
  <2> QED
    BY <2>1, FetchKeepsRows
<1>15. CASE UNCHANGED vars
  BY <1>15 DEF vars
<1> QED
  BY <1>1, <1>2, <1>3, <1>4, <1>5, <1>6, <1>7, <1>8, <1>9, <1>10, <1>11,
     <1>12, <1>13, <1>14, <1>15, NextActions

LEMMA MirrorAlways == Spec => []MirrorInv
BY MirrorInit, MirrorStep, PTL DEF Spec

(* The types are kept by the sync, the check and the chain. *)
THEOREM TypeCorrect == Spec => []TypeOK
<1>1. MirrorInv => TypeOK
  BY DEF MirrorInv
<1> QED
  BY <1>1, MirrorAlways, PTL

(* What a change of a row may do. *)
RowAdvances ==
    \A v \in Validators : table'[v] # table[v] =>
        /\ table'[v] \in 1..Len(stake[v]) /\ stake[v][table'[v]]
        /\ table'[v] < table[v] => late

(* A row of the mirror that changes shows an amount that the operator had  *)
(* with that validator, and an older one than before only if the node      *)
(* answered with an earlier state of the chain, for any number of          *)
(* validators and wherever fetches and inserts fail.                       *)
THEOREM RowsNeverGoBack == Spec => RowsAdvance
<1>1. ASSUME MirrorInv, [Next]_vars
      PROVE  RowAdvances
  <2>1. CASE UNCHANGED table
    BY <2>1 DEF RowAdvances
  <2>2. CASE \E v \in Validators : StoreRow(v)
    <3> PICK v \in Validators : StoreRow(v)
      BY <2>2
    <3>1. /\ pc = "store" /\ v \in todo
          /\ \A u \in Validators : u # v => table'[u] = table[u]
          /\ table'[v] = snap[v]
      BY <1>1 DEF StoreRow, MirrorInv, TypeOK
    <3>2. /\ snap[v] # 0 /\ snap[v] <= Len(stake[v]) /\ stake[v][snap[v]]
          /\ ~late => table[v] <= snap[v]
      BY <1>1, <3>1 DEF MirrorInv, NotAhead
    <3>3. snap[v] \in Nat /\ table[v] \in Nat /\ Len(stake[v]) \in Nat
      BY <1>1, MaxChangesAssumption DEF MirrorInv, TypeOK, Amounts
    <3>4. snap[v] \in 1..Len(stake[v]) /\ (snap[v] < table[v] => late)
      BY <3>2, <3>3
    <3> QED
      BY <3>1, <3>2, <3>4 DEF RowAdvances
  <2>3. ~(\E v \in Validators : StoreRow(v)) => UNCHANGED table
    BY <1>1, NextActions DEF ChangeReputation, Tick, Fetch, FetchLate, FetchAt,
         FetchFails, Synced, ReadFails, Checked, ChangeStake, StoreRowFails, Score,
         ScoreFails, ReadTable, vars
  <2> QED
    BY <2>1, <2>2, <2>3
<1>2. MirrorInv /\ [Next]_vars => [RowAdvances]_vars
  BY <1>1
<1> QED
  BY <1>2, MirrorAlways, PTL DEF Spec, RowsAdvance, RowAdvances

-----------------------------------------------------------------------------
(* Induction.  The induction theorems of the library take a predicate,     *)
(* which no prover here can instantiate; a set serves as well.             *)

LEMMA LeastNumber ==
    ASSUME NEW T, T \subseteq Nat, T # {}
    PROVE  \E m \in T : \A k \in T : m <= k
<1> DEFINE R == OpToRel(<, Nat)
<1>1. IsWellFoundedOn(R, Nat)
  BY NatLessThanWellFounded
<1>2. \A x, y \in Nat : <<y, x>> \in R <=> y < x
  BY DEF OpToRel
<1> HIDE DEF R
<1>3. PICK m \in T : \A y \in T : ~ (<<y, m>> \in R)
  BY <1>1, WFMin
<1>4. \A k \in T : ~(k < m)
  BY <1>2, <1>3
<1> QED
  BY <1>4

LEMMA InductionOnNat ==
    ASSUME NEW T, 0 \in T, \A n \in Nat : n \in T => n + 1 \in T
    PROVE  \A n \in Nat : n \in T
<1> SUFFICES ASSUME NEW n \in Nat, n \notin T
             PROVE  FALSE
  OBVIOUS
<1>1. PICK m \in Nat \ T : \A k \in Nat \ T : m <= k
  BY LeastNumber
<1> QED
  BY <1>1, m - 1 \in Nat

-----------------------------------------------------------------------------
(* Sums.  A recursive function is a choice: that there is one to choose    *)
(* has to be proved before its equation can be used.                       *)

SumUpTo(f, s, n) == f = [i \in 0..n |-> IF i = 0 THEN 0 ELSE f[i - 1] + s[i]]

LEMMA SumsExist ==
    ASSUME NEW s \in Seq(Int)
    PROVE  \A n \in Nat : n <= Len(s) => \E f : SumUpTo(f, s, n)
<1> DEFINE T == {n \in Nat : n <= Len(s) => \E f : SumUpTo(f, s, n)}
<1>1. 0 \in T
  <2>1. SumUpTo([i \in 0..0 |-> 0], s, 0)
    BY DEF SumUpTo
  <2> QED
    BY <2>1
<1>2. ASSUME NEW n \in Nat, n \in T PROVE n + 1 \in T
  <2> SUFFICES ASSUME n + 1 <= Len(s)
               PROVE  \E f : SumUpTo(f, s, n + 1)
    OBVIOUS
  <2>1. PICK f : SumUpTo(f, s, n)
    BY <1>2
  <2> DEFINE g == [i \in 0..(n + 1) |-> IF i = n + 1 THEN f[n] + s[n + 1] ELSE f[i]]
  <2>2. \A i \in 0..n : f[i] = IF i = 0 THEN 0 ELSE f[i - 1] + s[i]
    BY <2>1 DEF SumUpTo
  <2>3. ASSUME NEW i \in 0..(n + 1)
        PROVE  g[i] = IF i = 0 THEN 0 ELSE g[i - 1] + s[i]
    <3>1. CASE i = n + 1
      BY <3>1
    <3>2. CASE i \in 1..n
      BY <2>2, <3>2
    <3>3. CASE i = 0
      BY <2>2, <3>3
    <3> QED
      BY <3>1, <3>2, <3>3
  <2>4. SumUpTo(g, s, n + 1)
    BY <2>3 DEF SumUpTo
  <2> QED
    BY <2>4
<1> HIDE DEF T
<1>3. \A n \in Nat : n \in T
  BY <1>1, <1>2, InductionOnNat
<1> QED
  BY <1>3 DEF T

(* What Sums computes. *)
LEMMA SumsStep ==
    ASSUME NEW s \in Seq(Int)
    PROVE  /\ Sums(s)[0] = 0
           /\ \A i \in 1..Len(s) : Sums(s)[i] = Sums(s)[i - 1] + s[i]
<1>1. \E f : SumUpTo(f, s, Len(s))
  BY SumsExist
<1>2. SumUpTo(Sums(s), s, Len(s))
  BY <1>1 DEF SumUpTo, Sums
<1> DEFINE f == Sums(s)
<1>3. f = [i \in 0..Len(s) |-> IF i = 0 THEN 0 ELSE f[i - 1] + s[i]]
  BY <1>2 DEF SumUpTo
<1> HIDE DEF f
<1>4. \A i \in 0..Len(s) : f[i] = IF i = 0 THEN 0 ELSE f[i - 1] + s[i]
  BY <1>3
<1>5. 0 \in 0..Len(s) /\ \A i \in 1..Len(s) : i \in 0..Len(s) /\ i # 0
  OBVIOUS
<1>6. f[0] = 0 /\ \A i \in 1..Len(s) : f[i] = f[i - 1] + s[i]
  BY <1>4, <1>5
<1> QED
  BY <1>6 DEF f

(* The next sum, from the one before. *)
LEMMA SumsNext ==
    ASSUME NEW s \in Seq(Int), NEW n \in Nat, n + 1 \in 1..Len(s)
    PROVE  Sums(s)[n + 1] = Sums(s)[n] + s[n + 1]
<1>1. (n + 1) - 1 = n
  OBVIOUS
<1>2. Sums(s)[n + 1] = Sums(s)[(n + 1) - 1] + s[n + 1]
  BY SumsStep, Zenon
<1> QED
  BY <1>1, <1>2

(* The sums of integers are integers. *)
LEMMA SumsInt ==
    ASSUME NEW s \in Seq(Int)
    PROVE  \A n \in Nat : n <= Len(s) => Sums(s)[n] \in Int
<1> DEFINE T == {n \in Nat : n <= Len(s) => Sums(s)[n] \in Int}
<1>1. 0 \in T
  BY SumsStep
<1>2. ASSUME NEW n \in Nat, n \in T PROVE n + 1 \in T
  <2> SUFFICES ASSUME n + 1 <= Len(s) PROVE Sums(s)[n + 1] \in Int
    OBVIOUS
  <2>1. Sums(s)[n + 1] = Sums(s)[n] + s[n + 1]
    BY SumsStep
  <2>2. Sums(s)[n] \in Int /\ s[n + 1] \in Int
    BY <1>2
  <2> QED
    BY <2>1, <2>2
<1> HIDE DEF T
<1>3. \A n \in Nat : n \in T
  BY <1>1, <1>2, InductionOnNat
<1> QED
  BY <1>3 DEF T

(* A sum of natural numbers grows. *)
LEMMA SumsNat ==
    ASSUME NEW s \in Seq(Int), \A i \in 1..Len(s) : s[i] >= 0
    PROVE  \A n \in Nat : n <= Len(s) => Sums(s)[n] >= 0
<1> DEFINE T == {n \in Nat : n <= Len(s) => Sums(s)[n] >= 0}
<1>1. 0 \in T
  BY SumsStep
<1>2. ASSUME NEW n \in Nat, n \in T PROVE n + 1 \in T
  <2> SUFFICES ASSUME n + 1 <= Len(s) PROVE Sums(s)[n + 1] >= 0
    OBVIOUS
  <2>1. Sums(s)[n + 1] = Sums(s)[n] + s[n + 1]
    BY SumsStep
  <2>2. Sums(s)[n] \in Int /\ s[n + 1] \in Int
    BY SumsInt
  <2> QED
    BY <1>2, <2>1, <2>2
<1> HIDE DEF T
<1>3. \A n \in Nat : n \in T
  BY <1>1, <1>2, InductionOnNat
<1> QED
  BY <1>3 DEF T

(* A sum depends on what is added and on nothing else. *)
LEMMA SumsAgree ==
    ASSUME NEW s \in Seq(Int), NEW t \in Seq(Int), NEW k \in Nat,
           k <= Len(s), k <= Len(t), \A i \in 1..k : s[i] = t[i]
    PROVE  Sums(s)[k] = Sums(t)[k]
<1> DEFINE T == {n \in Nat : n <= k => Sums(s)[n] = Sums(t)[n]}
<1>1. 0 \in T
  BY SumsStep
<1>2. ASSUME NEW n \in Nat, n \in T PROVE n + 1 \in T
  <2> SUFFICES ASSUME n + 1 <= k PROVE Sums(s)[n + 1] = Sums(t)[n + 1]
    OBVIOUS
  <2>1. Sums(s)[n + 1] = Sums(s)[n] + s[n + 1]
    BY SumsStep
  <2>2. Sums(t)[n + 1] = Sums(t)[n] + t[n + 1]
    BY SumsStep
  <2> QED
    BY <1>2, <2>1, <2>2
<1> HIDE DEF T
<1>3. \A n \in Nat : n \in T
  BY <1>1, <1>2, InductionOnNat
<1> QED
  BY <1>3 DEF T

(* A sum of zeros is zero. *)
LEMMA SumsOfZeros ==
    ASSUME NEW s \in Seq(Int), \A i \in 1..Len(s) : s[i] = 0
    PROVE  \A n \in Nat : n <= Len(s) => Sums(s)[n] = 0
<1> DEFINE T == {n \in Nat : n <= Len(s) => Sums(s)[n] = 0}
<1>1. 0 \in T
  BY SumsStep
<1>2. ASSUME NEW n \in Nat, n \in T PROVE n + 1 \in T
  <2> SUFFICES ASSUME n + 1 <= Len(s) PROVE Sums(s)[n + 1] = 0
    OBVIOUS
  <2>1. Sums(s)[n + 1] = Sums(s)[n] + s[n + 1]
    BY SumsStep
  <2> QED
    BY <1>2, <2>1
<1> HIDE DEF T
<1>3. \A n \in Nat : n \in T
  BY <1>1, <1>2, InductionOnNat
<1> QED
  BY <1>3 DEF T

(* Each q[i] is the share of w[i] in a, of a total of W, less a fraction.  *)
RoundedDown(w, q, a, W) ==
    \A i \in 1..Len(q) : a * w[i] - W * q[i] \in 0..(W - 1)

(* What is lost by rounding each of k shares down is less than k units.    *)
LEMMA RoundingAddsUp ==
    ASSUME NEW w \in Seq(Int), NEW q \in Seq(Int), Len(q) <= Len(w),
           NEW a \in Int, NEW W \in Nat \ {0}, RoundedDown(w, q, a, W)
    PROVE  \A n \in Nat : n <= Len(q) =>
             a * Sums(w)[n] - W * Sums(q)[n] \in 0..(n * (W - 1))
<1> DEFINE T == {n \in Nat : n <= Len(q) =>
                   a * Sums(w)[n] - W * Sums(q)[n] \in 0..(n * (W - 1))}
<1>1. 0 \in T
  BY SumsStep
<1>2. ASSUME NEW n \in Nat, n \in T PROVE n + 1 \in T
  <2> SUFFICES ASSUME n + 1 <= Len(q)
               PROVE  a * Sums(w)[n + 1] - W * Sums(q)[n + 1] \in 0..((n + 1) * (W - 1))
    OBVIOUS
  <2> DEFINE x == Sums(w)[n]
             y == Sums(q)[n]
             u == w[n + 1]
             v == q[n + 1]
  <2>0. n <= Len(w) /\ n <= Len(q) /\ n + 1 \in 1..Len(w) /\ n + 1 \in 1..Len(q)
    OBVIOUS
  <2>1. x \in Int /\ y \in Int /\ u \in Int /\ v \in Int
    BY <2>0, SumsInt
  <2>2. Sums(w)[n + 1] = x + u /\ Sums(q)[n + 1] = y + v
    BY <2>0, SumsNext, Zenon
  <2>3. a * x - W * y \in 0..(n * (W - 1)) /\ a * u - W * v \in 0..(W - 1)
    BY <1>2, <2>0 DEF RoundedDown
  <2> HIDE DEF x, y, u, v
  <2> DEFINE d == a * x - W * y
             e == a * u - W * v
             m == n * (W - 1)
  <2>4. a * (x + u) - W * (y + v) = d + e
    BY <2>1
  <2>5. (n + 1) * (W - 1) = m + (W - 1) /\ m \in Nat
    OBVIOUS
  <2>6. d \in 0..m /\ e \in 0..(W - 1)
    BY <2>3
  <2> HIDE DEF d, e, m
  <2>7. d + e \in 0..(m + (W - 1))
    BY <2>5, <2>6
  <2>8. a * (x + u) - W * (y + v) \in 0..((n + 1) * (W - 1))
    BY <2>4, <2>5, <2>7, Zenon
  <2> QED
    BY <2>2, <2>8, Zenon
<1> HIDE DEF T
<1>3. \A n \in Nat : n \in T
  BY <1>1, <1>2, InductionOnNat
<1> QED
  BY <1>3 DEF T

-----------------------------------------------------------------------------
(* The machine integers, where nothing overflows. *)

LEMMA WrapFits == \A x \in Int : 0 <= x /\ x < Half => Wrap(x) = x
<1>1. Half \in Int
  BY IntBitsAssumption DEF Half
<1>2. ASSUME NEW x \in Int, NEW h \in Int, 0 <= x, x < h
      PROVE  ((x + h) % (2 * h)) - h = x
  BY <1>2
<1> HIDE DEF Half
<1> QED
  BY <1>1, <1>2 DEF Wrap

LEMMA QuotientRounds ==
    \A a \in Nat, b \in Nat \ {0} :
      Quotient(a, b) \in 0..a /\ a - b * Quotient(a, b) \in 0..(b - 1)
<1> SUFFICES ASSUME NEW a \in Nat, NEW b \in Nat \ {0}
             PROVE  Quotient(a, b) \in 0..a /\ a - b * Quotient(a, b) \in 0..(b - 1)
  OBVIOUS
<1> DEFINE q == a \div b
<1>1. Quotient(a, b) = q
  BY DEF Quotient, Magnitude
<1>2. q \in Nat /\ q * b <= a /\ a < (q + 1) * b
  OBVIOUS
<1> HIDE DEF q
<1>3. b * q = q * b /\ (q + 1) * b = q * b + b /\ q * b \in Nat
  BY <1>2
<1>4. q <= q * b
  BY <1>2
<1> QED
  BY <1>1, <1>2, <1>3, <1>4

-----------------------------------------------------------------------------
(* The split. *)

(* Where the products fit and no weight is negative, not all weights are   *)
(* zero, and the amount fits too.                                          *)
LEMMA AmountFits ==
    ASSUME NEW w \in Seq(Int), TotalWeight(w) # 0, NEW a \in Nat \ {0}, Fits(w, a)
    PROVE  a < Half /\ Total(w) \in Nat \ {0} /\ TotalWeight(w) = Total(w)
<1>1. Total(w) \in Int /\ Total(w) >= 0
  BY SumsInt, SumsNat DEF Fits, Total
<1>2. TotalWeight(w) = Total(w)
  BY <1>1, WrapFits DEF Fits, TotalWeight
<1>3. Half \in Int
  BY IntBitsAssumption DEF Half
<1>4. PICK i \in 1..Len(w) : w[i] # 0
  <2> SUFFICES ASSUME \A i \in 1..Len(w) : w[i] = 0 PROVE FALSE
    OBVIOUS
  <2>1. Total(w) = 0
    BY SumsOfZeros DEF Total
  <2> QED
    BY <1>2, <2>1
<1>5. w[i] \in Nat \ {0} /\ a * w[i] < Half
  BY <1>4 DEF Fits
<1>6. a <= a * w[i]
  BY <1>5
<1>7. a * w[i] \in Int
  BY <1>5
<1>8. a < Half
  BY <1>3, <1>5, <1>6, <1>7
<1> QED
  BY <1>1, <1>2, <1>8

(* The share of a validator is rounded down by less than a unit. *)
LEMMA ShareRounds ==
    ASSUME NEW w \in Seq(Int), TotalWeight(w) # 0, NEW a \in Nat \ {0}, Fits(w, a),
           NEW i \in 1..Len(w)
    PROVE  /\ Share(w, a, i) \in Nat
           /\ a * w[i] - Total(w) * Share(w, a, i) \in 0..(Total(w) - 1)
<1> DEFINE W == Total(w)
           p == a * w[i]
           q == Quotient(p, W)
<1>1. W \in Nat \ {0} /\ TotalWeight(w) = W
  BY AmountFits
<1>2. p \in Nat /\ p < Half
  <2>1. w[i] \in Nat /\ p < Half
    BY DEF Fits
  <2> QED
    BY <2>1
<1>3. Half \in Int
  BY IntBitsAssumption DEF Half
<1> HIDE DEF W, p
<1>4. q \in 0..p /\ p - W * q \in 0..(W - 1)
  BY <1>1, <1>2, QuotientRounds
<1> HIDE DEF q
<1>5. Wrap(p) = p /\ Wrap(q) = q
  BY <1>2, <1>3, <1>4, WrapFits
<1>6. Share(w, a, i) = q
  BY <1>1, <1>5 DEF Share, p, q
<1>7. Share(w, a, i) \in Nat /\ p - W * Share(w, a, i) \in 0..(W - 1)
  BY <1>2, <1>4, <1>6
<1> QED
  BY <1>7 DEF p, W

(* The last share: what the others leave, in multiples of a unit of W.     *)
LEMMA LastShare ==
    ASSUME NEW a \in Nat, NEW W \in Nat \ {0}, NEW A \in Nat, NEW B \in Nat,
           NEW u \in Nat, W = B + u, a * B - W * A >= 0
    PROVE  A <= a /\ (a - A) * W - a * u = a * B - W * A
<1>1. a * W = a * B + a * u /\ a * u \in Nat /\ a * B \in Nat
  OBVIOUS
<1>2. W * A <= W * a
  <2>1. W * a = a * W /\ W * A \in Nat
    OBVIOUS
  <2> QED
    BY <1>1, <2>1
<1>3. A <= a
  <2> SUFFICES ASSUME a + 1 <= A PROVE FALSE
    OBVIOUS
  <2>1. W * (a + 1) <= W * A
    OBVIOUS
  <2>2. W * (a + 1) = W * a + W
    OBVIOUS
  <2>3. W * a \in Nat /\ W * A \in Nat
    OBVIOUS
  <2> QED
    BY <1>2, <2>1, <2>2, <2>3
<1>4. (a - A) * W = a * W - W * A
  OBVIOUS
<1> QED
  BY <1>1, <1>3, <1>4

(* What the shares but the last add up to, with the sum of their weights.  *)
LEMMA AllocatedRounds ==
    ASSUME NEW w \in Seq(Int), NEW q \in Seq(Int), NEW a \in Nat, NEW W \in Nat \ {0},
           Len(w) = Len(q) + 1, \A i \in 1..Len(w) : w[i] >= 0,
           \A i \in 1..Len(q) : q[i] >= 0, RoundedDown(w, q, a, W)
    PROVE  \E B \in Nat :
             /\ Total(w) = B + w[Len(w)]
             /\ Total(q) \in Nat
             /\ a * B - W * Total(q) \in 0..(Len(q) * (W - 1))
<1> DEFINE k == Len(q)
           B == Sums(w)[k]
<1>1. k \in Nat /\ k + 1 \in 1..Len(w) /\ k <= Len(w) /\ k <= Len(q)
  OBVIOUS
<1>2. Sums(w)[k + 1] = B + w[k + 1]
  BY <1>1, SumsNext, Zenon
<1>3. B \in Int /\ B >= 0
  BY <1>1, SumsInt, SumsNat
<1>4. Sums(q)[k] \in Int /\ Sums(q)[k] >= 0
  BY <1>1, SumsInt, SumsNat
<1>5. a * B - W * Sums(q)[k] \in 0..(k * (W - 1))
  <2>1. a \in Int
    OBVIOUS
  <2>2. \A n \in Nat : n <= Len(q) =>
          a * Sums(w)[n] - W * Sums(q)[n] \in 0..(n * (W - 1))
    BY <1>1, <2>1, RoundingAddsUp, Zenon
  <2> QED
    BY <1>1, <2>2, Zenon
<1> HIDE DEF B
<1>6. Total(w) = B + w[Len(w)] /\ Total(q) = Sums(q)[k]
  BY <1>2 DEF Total
<1> QED
  BY <1>3, <1>4, <1>5, <1>6

(* The sum of the amounts is that of the shares and of what is left. *)
LEMMA TotalOfLast ==
    ASSUME NEW s \in Seq(Int), NEW q \in Seq(Int), Len(s) = Len(q) + 1,
           \A i \in 1..Len(q) : s[i] = q[i]
    PROVE  Total(s) = Total(q) + s[Len(s)]
<1> DEFINE k == Len(q)
<1>1. k \in Nat /\ k + 1 \in 1..Len(s) /\ k <= Len(s) /\ k <= Len(q)
  OBVIOUS
<1>2. Sums(s)[k + 1] = Sums(s)[k] + s[k + 1]
  BY <1>1, SumsNext, Zenon
<1>3. Sums(s)[k] = Sums(q)[k]
  BY <1>1, SumsAgree
<1> QED
  BY <1>2, <1>3 DEF Total

(* ComputeSplit divides any amount by any weights without loss and in      *)
(* proportion, where the sum of the weights and the products fit.          *)
THEOREM SplitFair ==
    ASSUME NEW w \in Seq(Int), w # Unset, TotalWeight(w) # 0,
           NEW a \in Nat \ {0}, Fits(w, a)
    PROVE  Fair(w, a)
<1> DEFINE n == Len(w)
           W == Total(w)
           q == [i \in 1..(n - 1) |-> Share(w, a, i)]
           A == Total(q)
           amounts == [i \in 1..n |-> IF i < n THEN Share(w, a, i) ELSE Wrap(a - A)]
<1>1. n \in Nat \ {0} /\ \A i \in 1..n : i \in 1..(n - 1) \/ i = n
  BY DEF Unset
<1>2. W \in Nat \ {0} /\ a < Half
  BY AmountFits
<1>3. \A i \in 1..n : w[i] \in Nat /\ w[i] >= 0 /\ Share(w, a, i) \in Nat
  <2>1. \A i \in 1..n : w[i] \in Int /\ w[i] >= 0
    BY DEF Fits
  <2>2. \A i \in 1..n : Share(w, a, i) \in Nat
    BY ShareRounds, Zenon
  <2> QED
    BY <2>1, <2>2
<1>4. \A i \in 1..n : a * w[i] - W * Share(w, a, i) \in 0..(W - 1)
  BY ShareRounds
<1>5. ComputeSplit(w, a) = amounts
  BY DEF ComputeSplit
<1>6. /\ q \in Seq(Int) /\ Len(q) = n - 1 /\ n = Len(q) + 1
      /\ \A i \in 1..(n - 1) : i \in 1..n /\ q[i] = Share(w, a, i)
  BY <1>1, <1>3
<1> HIDE DEF q
<1>7. \E B \in Nat :
        /\ Total(w) = B + w[Len(w)]
        /\ Total(q) \in Nat
        /\ a * B - Total(w) * Total(q) \in 0..(Len(q) * (Total(w) - 1))
  <2>1. (\A i \in 1..Len(q) : q[i] >= 0) /\ RoundedDown(w, q, a, Total(w))
    <3>1. \A i \in 1..Len(q) : i \in 1..n /\ q[i] = Share(w, a, i)
      BY <1>6
    <3>2. \A i \in 1..Len(q) : q[i] >= 0
      BY <1>3, <3>1
    <3> QED
      BY <1>4, <3>1, <3>2, Zenon DEF RoundedDown
  <2>2. \A i \in 1..Len(w) : w[i] >= 0
    BY <1>3
  <2>3. a \in Nat
    OBVIOUS
  <2> QED
    BY <1>2, <1>6, <2>1, <2>2, <2>3, AllocatedRounds, Zenon
<1> HIDE DEF n, W, A
<1>left. PICK B \in Nat :
      /\ W = B + w[n]
      /\ A \in Nat
      /\ a * B - W * A \in 0..(Len(q) * (W - 1))
  BY <1>7 DEF n, W, A
<1>8. A <= a /\ (a - A) * W - a * w[n] = a * B - W * A
  <2> DEFINE u == w[n]
  <2>1. u \in Nat /\ A \in Nat /\ a \in Nat /\ W = B + u
    BY <1>1, <1>3, <1>left
  <2>2. a * B - W * A >= 0
    BY <1>2, <1>left
  <2> HIDE DEF u
  <2>3. A <= a /\ (a - A) * W - a * u = a * B - W * A
    BY <1>2, <2>1, <2>2, LastShare
  <2> QED
    BY <2>3 DEF u
<1>9. Wrap(a - A) = a - A
  <2>1. a - A \in Int /\ 0 <= a - A /\ a - A < Half
    <3>1. Half \in Int
      BY IntBitsAssumption DEF Half
    <3> HIDE DEF Half
    <3> QED
      BY <1>2, <1>8, <1>left, <3>1
  <2> QED
    BY <2>1, WrapFits
<1>10. /\ amounts \in Seq(Int) /\ Len(amounts) = n
       /\ \A i \in 1..(n - 1) : amounts[i] = Share(w, a, i)
       /\ amounts[n] = a - A
  <2>1. a - A \in Int
    BY <1>left
  <2>2. \A i \in 1..n : amounts[i] \in Int
    BY <1>1, <1>3, <1>9, <2>1
  <2>3. amounts \in Seq(Int) /\ Len(amounts) = n
    BY <1>1, <2>2
  <2>4. n \in 1..n /\ ~(n < n) /\ \A i \in 1..(n - 1) : i \in 1..n /\ i < n
    BY <1>1
  <2> QED
    BY <1>9, <2>3, <2>4
<1> HIDE DEF amounts
<1>11. Total(amounts) = a
  <2>1. \A i \in 1..Len(q) : amounts[i] = q[i]
    BY <1>6, <1>10
  <2>2. Len(amounts) = Len(q) + 1
    BY <1>6, <1>10, Zenon
  <2>3. Total(amounts) = A + amounts[Len(amounts)]
    BY <1>6, <1>10, <2>1, <2>2, TotalOfLast, Zenon DEF A
  <2>4. a = A + (a - A)
    BY <1>left
  <2> QED
    BY <1>10, <2>3, <2>4, Zenon
<1>12. \A i \in 1..n : i < n => /\ amounts[i] >= 0
                                /\ amounts[i] * W - a * w[i] \in (1 - W)..0
  <2> SUFFICES ASSUME NEW i \in 1..n, i < n
               PROVE  amounts[i] >= 0 /\ amounts[i] * W - a * w[i] \in (1 - W)..0
    OBVIOUS
  <2> DEFINE x == amounts[i]
             p == a * w[i]
  <2>1. i \in 1..(n - 1)
    BY <1>1
  <2>2. x = Share(w, a, i) /\ x \in Nat
    BY <1>3, <1>10, <2>1
  <2>3. p - W * x \in 0..(W - 1)
    BY <1>4, <2>2, Zenon
  <2>4. p \in Int
    BY <1>3
  <2> HIDE DEF x, p
  <2>5. x * W = W * x /\ W * x \in Nat
    BY <1>2, <2>2
  <2>6. x >= 0 /\ x * W - p \in (1 - W)..0
    BY <1>2, <2>2, <2>3, <2>4, <2>5
  <2> QED
    BY <2>6 DEF x, p
<1>13. amounts[n] >= 0 /\ amounts[n] * W - a * w[n] \in 0..((n - 1) * (W - 1))
  <2>1. (a - A) * W - a * w[n] \in 0..((n - 1) * (W - 1))
    BY <1>6, <1>8, <1>left, Zenon
  <2>2. a - A >= 0
    BY <1>8, <1>left
  <2> QED
    BY <1>10, <2>1, <2>2, Zenon
<1>14. DOMAIN amounts = 1..n /\ \A i \in 1..n : i < n \/ (i = n /\ ~(i < n))
  BY <1>1, <1>10
<1>15. \A i \in DOMAIN amounts :
         /\ amounts[i] >= 0
         /\ IF i < Len(amounts) THEN amounts[i] * W - a * w[i] \in (1 - W)..0
            ELSE amounts[i] * W - a * w[i] \in 0..((Len(amounts) - 1) * (W - 1))
  BY <1>10, <1>12, <1>13, <1>14, Zenon
<1> QED
  BY <1>5, <1>10, <1>11, <1>15, Zenon DEF Fair, W, n

-----------------------------------------------------------------------------
(* SetSplit has refused weights that add up to zero. *)
SplitInv == split \in Seq(Int) /\ (split # Unset => TotalWeight(split) # 0)

LEMMA SplitInit == Init => SplitInv
<1> SUFFICES ASSUME Init PROVE SplitInv
  OBVIOUS
<1>1. PICK c \in SplitConfigs : split = SetSplit(c.n, Weights(c.n, c.given))
  BY DEF Init
<1>2. split \in Seq(Int)
  BY <1>1, SplitType
<1>3. split # Unset => TotalWeight(split) # 0
  BY <1>1 DEF SetSplit
<1> QED
  BY <1>2, <1>3 DEF SplitInv

LEMMA SplitStep == SplitInv /\ [Next]_vars => SplitInv'
<1> SUFFICES ASSUME SplitInv, [Next]_vars PROVE SplitInv'
  OBVIOUS
<1>1. UNCHANGED split
  BY NextActions DEF ChangeReputation, Tick, Fetch, FetchLate, FetchAt, FetchFails,
       Synced, ReadFails, Checked, ChangeStake, StoreRow, StoreRowFails, Score,
       ScoreFails, ReadTable, vars, fixed
<1> QED
  BY <1>1 DEF SplitInv

(* Whatever split is configured, every amount that fits is divided without *)
(* loss and in proportion, and nobody owes anything.                       *)
THEOREM SplitAlwaysFair == Spec => []SplitIsFair
<1>1. SplitInv => SplitIsFair
  <2> SUFFICES ASSUME SplitInv, split # Unset, NEW a \in 1..MaxAmount, Fits(split, a)
               PROVE  Fair(split, a)
    BY DEF SplitIsFair
  <2>1. a \in Nat \ {0}
    BY MaxAmountAssumption
  <2> QED
    BY <2>1, SplitFair DEF SplitInv
<1> QED
  BY <1>1, SplitInit, SplitStep, PTL DEF Spec

-----------------------------------------------------------------------------
(* The steps of one table of telemetry. *)
LEMMA TelemetryActions ==
    TelemetryNext =>
        \/ \E i \in Items : Change(i)
        \/ Due \/ Ask \/ AskFails \/ Collected
        \/ \E k \in [Items -> Numbers] : AskBehind(k)
        \/ \E i \in Items : Store(i)
        \/ \E i \in Items : StoreFails(i)
        \/ Request \/ Live \/ LiveFails \/ Cached \/ CachedFails
        \/ \E k \in [Items -> Numbers] : LiveBehind(k)
<1> QED  BY DEF TelemetryNext, Collect, Handle, AskAnyBehind, LiveAnyBehind

(* What the collector carries is no change that the chain has not made.    *)
(* Unless the node was behind, it is not older than the row it replaces,   *)
(* nor than what was shown of that row.                                    *)
Caught ==
    /\ \A i \in Items : got[i] <= Newest(i)
    /\ stage = "store" /\ ~behind => \A i \in Items : got[i] # 0 =>
           /\ cache[i] <= got[i]
           /\ shown.ok /\ shown.cached => shown.rows[i] <= got[i]

(* The last answer: the chain and, for a cached answer, the table have     *)
(* only advanced since, but for the rows of a node that was behind.        *)
Presented ==
    /\ \A i \in Items : shown.rows[i] <= Newest(i)
    /\ shown.ok /\ shown.cached => \A i \in Items :
           shown.rows[i] <= cache[i] \/ (kind # "network" /\ i \in lagged)

(* A handler that finds no rows began without them, and one that turned to *)
(* the chain for want of an answer from the table has an excuse.  The      *)
(* handler of the network does not turn to the chain.                      *)
Excusable ==
    /\ req.pc # "idle" /\ CachedRows = {} => req.empty
    /\ req.pc = "live" /\ kind # "validators" => req.empty \/ req.failed
    /\ req.pc = "live" => kind # "network"

TelemetryInv ==
    TelemetryTypeOK /\ Caught /\ Presented /\ Excusable /\ OnceCollectedAnswered

(* What the node says of an item is a change of it, or nothing.            *)
LEMMA ListingType ==
    ASSUME TelemetryTypeOK
    PROVE  /\ \A i \in Items : Newest(i) \in Nat /\ cache[i] \in Nat
           /\ 0 \in Numbers /\ Numbers \subseteq Nat
           /\ Listing \in [Items -> Numbers]
           /\ \A i \in Items : Listing[i] = Newest(i) \/ Listing[i] = 0
           /\ \A i \in Items : Listing[i] <= Newest(i)
<1>0. 0 \in Numbers /\ Numbers \subseteq Nat
  BY MaxUpdatesAssumption DEF Numbers
<1>1. \A i \in Items : Newest(i) \in Numbers /\ cache[i] \in Numbers
  BY DEF TelemetryTypeOK
<1>2. \A i \in Items :
          Listing[i] = IF Newest(i) # 0 /\ source[i][Newest(i)]
                       THEN Newest(i) ELSE 0
  BY DEF Listing, ListingAt
<1>3. Listing \in [Items -> Numbers]
  BY <1>0, <1>1 DEF Listing, ListingAt
<1>4. \A i \in Items : Newest(i) \in Nat /\ cache[i] \in Nat
  BY <1>0, <1>1
<1> HIDE DEF Newest, Listing
<1>5. \A i \in Items : Listing[i] = Newest(i) \/ Listing[i] = 0
  BY <1>2
<1>6. \A i \in Items : Listing[i] <= Newest(i)
  BY <1>4, <1>5
<1> QED  BY <1>0, <1>3, <1>4, <1>5, <1>6

(* So is what a node says that is behind.                                  *)
LEMMA EarlierType ==
    ASSUME TelemetryTypeOK, NEW k \in [Items -> Numbers], Earlier(k)
    PROVE  /\ ListingAt(k) \in [Items -> Numbers]
           /\ \A i \in Items : ListingAt(k)[i] <= Newest(i)
<1>0. /\ \A i \in Items : Newest(i) \in Nat
      /\ 0 \in Numbers /\ Numbers \subseteq Nat
  BY ListingType
<1>1. \A i \in Items : k[i] \in Numbers /\ k[i] <= Newest(i)
  BY DEF Earlier
<1>2. \A i \in Items : ListingAt(k)[i] = k[i] \/ ListingAt(k)[i] = 0
  BY DEF ListingAt
<1>3. ListingAt(k) \in [Items -> Numbers]
  BY <1>0, <1>1 DEF ListingAt
<1> HIDE DEF Newest
<1>4. \A i \in Items : ListingAt(k)[i] <= Newest(i)
  BY <1>0, <1>1, <1>2
<1> QED  BY <1>3, <1>4

LEMMA TelemetryStarts == TelemetryInit => TelemetryInv
<1> SUFFICES ASSUME TelemetryInit  PROVE TelemetryInv
  OBVIOUS
<1>0. 0 \in Numbers
  BY MaxUpdatesAssumption DEF Numbers
<1>1. /\ Nothing \in [Items -> Numbers]
      /\ \A i \in Items : Nothing[i] = 0
  BY <1>0 DEF Nothing
<1>2. source \in [Items -> Seq(BOOLEAN)] /\ \A i \in Items : Newest(i) = 0
  BY DEF TelemetryInit, Newest
<1> HIDE DEF Newest
<1>3. kind \in Kinds /\ cache = Nothing /\ lagged = {} /\ stage = "fetch"
      /\ got = Nothing /\ behind = FALSE
  BY DEF TelemetryInit
<1>4. /\ req \in [pc : {"idle", "live", "cache"}, empty : BOOLEAN,
                  failed : BOOLEAN]
      /\ shown \in [ok : BOOLEAN, cached : BOOLEAN, rows : [Items -> Numbers],
                    excused : BOOLEAN]
  BY <1>1 DEF TelemetryInit, NoRequest
<1>5. TelemetryTypeOK
  <2>1. \A i \in Items : Newest(i) \in Numbers /\ cache[i] <= Newest(i)
    BY <1>0, <1>1, <1>2, <1>3
  <2>2. behind \in BOOLEAN /\ stage \in {"idle", "fetch", "store"}
    BY <1>3
  <2> QED  BY <1>1, <1>2, <1>3, <1>4, <2>1, <2>2 DEF TelemetryTypeOK
<1>6. Caught /\ Presented /\ Excusable /\ OnceCollectedAnswered
  BY <1>1, <1>2
     DEF TelemetryInit, Caught, Presented, Excusable, OnceCollectedAnswered,
         NoRequest
<1> QED  BY <1>5, <1>6 DEF TelemetryInv

(* What a step of the handler does, whatever its table. *)
LEMMA HandlerSteps ==
    ASSUME TelemetryTypeOK, Excusable,
           Live \/ LiveFails \/ Cached \/ CachedFails
    PROVE  /\ req.pc # "idle"
           /\ \/ Answer(FALSE, Listing)
              \/ Answer(TRUE, cache)
              \/ kind = "validators" /\ GoOn("cache", FALSE)
              \/ \E failed \in BOOLEAN :
                   /\ req.empty \/ failed
                   /\ (kind = "bridge" /\ GoOn("live", failed))
                        \/ Unavailable(failed)
<1>p. req.pc # "idle"
  BY DEF Live, LiveFails, Cached, CachedFails
<1>0. req.failed \in BOOLEAN
  BY DEF TelemetryTypeOK
<1>1. CASE Live
  BY <1>p, <1>1 DEF Live
<1>2. CASE LiveFails
  <2>1. CASE kind = "validators"
    BY <1>p, <1>2, <2>1 DEF LiveFails
  <2>2. CASE kind # "validators"
    <3>1. Unavailable(req.failed) /\ (req.empty \/ req.failed)
      BY <1>2, <2>2 DEF LiveFails, Excusable
    <3> QED  BY <1>p, <1>0, <3>1
  <2> QED  BY <2>1, <2>2
<1>3. CASE Cached
  <2>1. CASE CachedRows # {} \/ kind \in {"validators", "network"}
    BY <1>p, <1>3, <2>1 DEF Cached
  <2>2. CASE ~(CachedRows # {} \/ kind \in {"validators", "network"})
    <3>1. req.empty
      BY <1>3, <2>2 DEF Cached, Excusable
    <3>2. (kind = "bridge" /\ GoOn("live", FALSE)) \/ Unavailable(FALSE)
      BY <1>3, <2>2 DEF Cached
    <3> QED  BY <1>p, <3>1, <3>2
  <2> QED  BY <2>1, <2>2
<1>4. CASE CachedFails
  <2>1. \/ kind = "bridge" /\ GoOn("live", TRUE)
        \/ Answer(TRUE, cache)
        \/ Unavailable(TRUE)
    BY <1>4 DEF CachedFails
  <2> QED  BY <1>p, <2>1
<1> QED  BY <1>p, <1>1, <1>2, <1>3, <1>4

(* The answer of the node to the collector, of now or of earlier.          *)
LEMMA ToldKeeps ==
    ASSUME TelemetryInv, NEW listing \in [Items -> Numbers],
           \A i \in Items : listing[i] <= Newest(i), Told(listing)
    PROVE  TelemetryInv'
<1>0. /\ \A i \in Items : Newest(i) \in Nat /\ cache[i] \in Nat
      /\ Numbers \subseteq Nat
      /\ \A i \in Items : Listing[i] = Newest(i) \/ Listing[i] = 0
  BY ListingType DEF TelemetryInv
<1>1. /\ kind' = kind /\ source' = source /\ cache' = cache /\ lagged' = lagged
      /\ req' = req /\ shown' = shown
      /\ stage' = "store" /\ got' = listing /\ behind' = (listing # Listing)
  BY DEF Told, stored
<1>2. TelemetryTypeOK'
  BY <1>1 DEF TelemetryInv, TelemetryTypeOK, Newest
<1>3. \A i \in Items : Newest(i)' = Newest(i)
  BY <1>1 DEF Newest
<1>4. \A i \in Items : shown.rows[i] <= Newest(i) /\ cache[i] <= Newest(i)
  BY DEF TelemetryInv, TelemetryTypeOK, Presented
<1> HIDE DEF Newest, Listing
<1>5. Caught'
  <2>1. \A i \in Items : got'[i] <= Newest(i)'
    BY <1>1, <1>3
  <2>2. ASSUME ~behind', NEW i \in Items, got'[i] # 0
        PROVE  cache'[i] <= got'[i] /\ shown'.rows[i] <= got'[i]
    <3>1. got'[i] = Newest(i)
      BY <1>0, <1>1, <2>2
    <3> QED  BY <1>1, <1>4, <3>1
  <2> QED  BY <2>1, <2>2 DEF Caught
<1>6. Presented' /\ Excusable' /\ OnceCollectedAnswered'
  BY <1>1, <1>3 DEF TelemetryInv, Presented, Excusable, OnceCollectedAnswered,
                    CachedRows
<1> QED  BY <1>2, <1>5, <1>6 DEF TelemetryInv

(* The answer of the handler.                                              *)
LEMMA AnswerKeeps ==
    ASSUME TelemetryInv, NEW rows \in [Items -> Numbers], NEW cached \in BOOLEAN,
           \A i \in Items : rows[i] <= Newest(i),
           cached => rows = cache, Answer(cached, rows)
    PROVE  TelemetryInv'
<1>0. \A i \in Items : Newest(i) \in Nat /\ cache[i] \in Nat
  BY ListingType DEF TelemetryInv
<1>1. /\ kind' = kind /\ source' = source /\ cache' = cache /\ lagged' = lagged
      /\ stage' = stage /\ got' = got /\ behind' = behind
      /\ shown' = [ok |-> TRUE, cached |-> cached, rows |-> rows,
                   excused |-> TRUE]
      /\ req' = NoRequest
  BY DEF Answer, stored, collector
<1>2. TelemetryTypeOK'
  BY <1>1 DEF TelemetryInv, TelemetryTypeOK, Newest, NoRequest
<1>3. \A i \in Items : Newest(i)' = Newest(i)
  BY <1>1 DEF Newest
<1> HIDE DEF Newest
<1>4. /\ shown'.ok /\ shown'.cached = cached /\ shown'.rows = rows
      /\ req'.pc = "idle"
  BY <1>1 DEF NoRequest
<1>5. Caught'
  BY <1>1, <1>3, <1>4 DEF TelemetryInv, Caught
<1>6. Presented'
  <2>1. cached => \A i \in Items : rows[i] <= cache[i]
    BY <1>0
  <2> QED  BY <1>1, <1>3, <1>4, <2>1 DEF Presented
<1>7. Excusable' /\ OnceCollectedAnswered'
  BY <1>4 DEF Excusable, OnceCollectedAnswered
<1> QED  BY <1>2, <1>5, <1>6, <1>7 DEF TelemetryInv

(* A change on the chain.                                                  *)
LEMMA ChangeKeeps ==
    ASSUME TelemetryInv, NEW i \in Items, Change(i)
    PROVE  TelemetryInv'
<1>0. /\ \A j \in Items : Newest(j) \in Nat /\ cache[j] \in Nat
      /\ \A j \in Items : got[j] \in Nat /\ shown.rows[j] \in Nat
  BY ListingType DEF TelemetryInv, TelemetryTypeOK
<1>1. /\ kind' = kind /\ cache' = cache /\ lagged' = lagged
      /\ stage' = stage /\ got' = got /\ behind' = behind
      /\ req' = req /\ shown' = shown
  BY DEF Change, stored, collector
<1>2. PICK there \in BOOLEAN :
          source' = [source EXCEPT ![i] = Append(source[i], there)]
  BY DEF Change
<1>3. source \in [Items -> Seq(BOOLEAN)]
  BY DEF TelemetryInv, TelemetryTypeOK
<1>4. source' \in [Items -> Seq(BOOLEAN)]
  BY <1>2, <1>3
<1>5. \A j \in Items : Len(source'[j]) =
                           IF j = i THEN Len(source[j]) + 1 ELSE Len(source[j])
  BY <1>2, <1>3
<1>6. \A j \in Items : Newest(j)' = IF j = i THEN Newest(j) + 1 ELSE Newest(j)
  BY <1>5 DEF Newest
<1>7. Newest(i) < MaxUpdates /\ \A j \in Items : Newest(j) \in Numbers
  BY DEF Change, TelemetryInv, TelemetryTypeOK
<1> HIDE DEF Newest
<1>8. \A j \in Items : Newest(j)' >= Newest(j) /\ Newest(j)' \in Numbers
  BY <1>0, <1>6, <1>7, MaxUpdatesAssumption DEF Numbers
<1>9. TelemetryTypeOK'
  <2>1. \A j \in Items : cache'[j] <= Newest(j)'
    <3>1. \A j \in Items : cache[j] <= Newest(j)
      BY DEF TelemetryInv, TelemetryTypeOK
    <3>2. \A j \in Items : Newest(j)' \in Nat
      BY <1>8, MaxUpdatesAssumption DEF Numbers
    <3> QED  BY <3>1, <3>2, <1>0, <1>1, <1>8
  <2> QED  BY <1>1, <1>4, <1>8, <2>1 DEF TelemetryInv, TelemetryTypeOK
<1>10. Caught' /\ Presented'
  <2>1. \A j \in Items : got[j] <= Newest(j) /\ shown.rows[j] <= Newest(j)
    BY DEF TelemetryInv, Caught, Presented
  <2>2. \A j \in Items : Newest(j)' \in Nat
    BY <1>8, MaxUpdatesAssumption DEF Numbers
  <2>3. \A j \in Items : got[j] <= Newest(j)' /\ shown.rows[j] <= Newest(j)'
    BY <2>1, <2>2, <1>0, <1>8
  <2> QED  BY <1>1, <2>3 DEF TelemetryInv, Caught, Presented
<1>11. Excusable' /\ OnceCollectedAnswered'
  BY <1>1 DEF TelemetryInv, Excusable, OnceCollectedAnswered, CachedRows
<1> QED  BY <1>9, <1>10, <1>11 DEF TelemetryInv

(* A row is written.                                                       *)
LEMMA StoreKeeps ==
    ASSUME TelemetryInv, NEW i \in Items, Store(i)
    PROVE  TelemetryInv'
<1>0. /\ \A j \in Items : Newest(j) \in Nat /\ cache[j] \in Nat
      /\ \A j \in Items : got[j] \in Nat /\ shown.rows[j] \in Nat
      /\ 0 \in Numbers /\ Numbers \subseteq Nat
  BY ListingType DEF TelemetryInv, TelemetryTypeOK
<1>1. /\ kind' = kind /\ source' = source /\ stage' = stage
      /\ behind' = behind /\ req' = req /\ shown' = shown
      /\ stage = "store" /\ got[i] # 0
      /\ lagged' = IF behind THEN lagged \cup {i} ELSE lagged \ {i}
  BY DEF Store
<1>2. /\ got' = [got EXCEPT ![i] = 0] /\ cache' = [cache EXCEPT ![i] = Row(i)]
  BY DEF Store
<1>3. got \in [Items -> Numbers] /\ cache \in [Items -> Numbers]
  BY DEF TelemetryInv, TelemetryTypeOK
<1>4. \A j \in Items : /\ got'[j] = IF j = i THEN 0 ELSE got[j]
                       /\ cache'[j] = IF j = i THEN Row(i) ELSE cache[j]
  BY <1>2, <1>3
<1>5. /\ Row(i) = got[i] \/ (Row(i) = cache[i] /\ cache[i] > got[i])
      /\ kind = "network" => Row(i) >= cache[i] /\ Row(i) >= got[i]
  BY <1>0 DEF Row
<1>6. Row(i) \in Numbers /\ Row(i) # 0
  BY <1>0, <1>1, <1>3, <1>5
<1>7. \A j \in Items : Newest(j)' = Newest(j)
  BY <1>1 DEF Newest
<1>8. \A j \in Items : cache[j] <= Newest(j) /\ got[j] <= Newest(j)
  BY DEF TelemetryInv, TelemetryTypeOK, Caught
<1>t. TelemetryTypeOK'
  <2>1. got' \in [Items -> Numbers] /\ cache' \in [Items -> Numbers]
    BY <1>0, <1>2, <1>3, <1>6
  <2>2. \A j \in Items : cache'[j] <= Newest(j)
    BY <1>4, <1>5, <1>8
  <2>3. lagged' \subseteq Items
    BY <1>1 DEF TelemetryInv, TelemetryTypeOK
  <2>4. /\ kind \in Kinds /\ source \in [Items -> Seq(BOOLEAN)]
        /\ \A j \in Items : Newest(j) \in Numbers
        /\ stage \in {"idle", "fetch", "store"} /\ behind \in BOOLEAN
        /\ req \in [pc : {"idle", "live", "cache"}, empty : BOOLEAN,
                    failed : BOOLEAN]
        /\ shown \in [ok : BOOLEAN, cached : BOOLEAN, rows : [Items -> Numbers],
                      excused : BOOLEAN]
    BY DEF TelemetryInv, TelemetryTypeOK
  <2> HIDE DEF Newest
  <2> QED  BY <1>1, <1>7, <2>1, <2>2, <2>3, <2>4 DEF TelemetryTypeOK
<1> HIDE DEF Newest
<1>9. Caught'
  <2>1. \A j \in Items : got'[j] <= Newest(j)'
    BY <1>0, <1>4, <1>7, <1>8
  <2>2. \A j \in Items : got'[j] # 0 => got'[j] = got[j] /\ cache'[j] = cache[j]
    BY <1>4
  <2> QED  BY <1>1, <2>1, <2>2 DEF TelemetryInv, Caught
<1>10. Presented'
  <2>1. \A j \in Items : shown'.rows[j] <= Newest(j)'
    BY <1>1, <1>7 DEF TelemetryInv, Presented
  <2>2. ASSUME shown.ok, shown.cached, NEW j \in Items
        PROVE  shown.rows[j] <= cache'[j] \/ (kind # "network" /\ j \in lagged')
    <3>1. shown.rows[j] <= cache[j] \/ (kind # "network" /\ j \in lagged)
      BY <2>2 DEF TelemetryInv, Presented
    <3>2. CASE j # i
      BY <1>1, <1>4, <3>1, <3>2
    <3>3. CASE j = i /\ behind /\ kind # "network"
      BY <1>1, <3>3
    <3>4. CASE j = i /\ behind /\ kind = "network"
      <4>1. shown.rows[i] <= cache[i] /\ Row(i) >= cache[i] /\ cache'[i] = Row(i)
        BY <1>4, <1>5, <3>1, <3>4
      <4>2. shown.rows[i] \in Nat /\ cache[i] \in Nat /\ Row(i) \in Nat
        BY <1>0, <1>6
      <4>3. shown.rows[i] <= cache'[i]
        BY <4>1, <4>2
      <4> QED  BY <3>4, <4>3
    <3>5. CASE j = i /\ ~behind
      <4>1. shown.rows[i] <= got[i] /\ cache[i] <= got[i]
        BY <1>1, <2>2, <3>5 DEF TelemetryInv, Caught
      <4>2. cache'[i] = got[i]
        BY <1>0, <1>4, <1>5, <4>1
      <4> QED  BY <3>5, <4>1, <4>2
    <3> QED  BY <3>2, <3>3, <3>4, <3>5
  <2> QED  BY <1>1, <2>1, <2>2 DEF Presented
<1>11. i \in CachedRows'
  BY <1>4, <1>6 DEF CachedRows
<1>12. Excusable' /\ OnceCollectedAnswered'
  BY <1>1, <1>11 DEF TelemetryInv, Excusable, OnceCollectedAnswered
<1> QED  BY <1>t, <1>9, <1>10, <1>12 DEF TelemetryInv

LEMMA TelemetryStep ==
    TelemetryInv /\ [TelemetryNext]_telemetryVars => TelemetryInv'
<1> SUFFICES ASSUME TelemetryInv, [TelemetryNext]_telemetryVars
             PROVE  TelemetryInv'
  OBVIOUS
<1>0. /\ Listing \in [Items -> Numbers]
      /\ \A i \in Items : Listing[i] <= Newest(i) /\ cache[i] <= Newest(i)
      /\ cache \in [Items -> Numbers]
      /\ 0 \in Numbers /\ Numbers \subseteq Nat
  BY ListingType DEF TelemetryInv, TelemetryTypeOK
<1>1. CASE \E i \in Items : Change(i)
  BY <1>1, ChangeKeeps
<1>2. CASE Due \/ AskFails \/ Collected
  <2>1. /\ kind' = kind /\ source' = source /\ cache' = cache
        /\ lagged' = lagged /\ got' = got /\ req' = req /\ shown' = shown
        /\ stage' \in {"idle", "fetch"} /\ behind' \in BOOLEAN
    BY <1>2 DEF Due, AskFails, Collected, stored, TelemetryInv, TelemetryTypeOK
  <2>2. TelemetryTypeOK'
    BY <2>1 DEF TelemetryInv, TelemetryTypeOK, Newest
  <2>3. Caught' /\ Presented' /\ Excusable' /\ OnceCollectedAnswered'
    BY <2>1 DEF TelemetryInv, Caught, Presented, Excusable,
                OnceCollectedAnswered, CachedRows, Newest
  <2> QED  BY <2>2, <2>3 DEF TelemetryInv
<1>3. CASE Ask
  BY <1>0, <1>3, ToldKeeps DEF Ask
<1>4. CASE \E k \in [Items -> Numbers] : AskBehind(k)
  <2> PICK k \in [Items -> Numbers] : AskBehind(k)
    BY <1>4
  <2>1. Earlier(k) /\ Told(ListingAt(k))
    BY DEF AskBehind
  <2>2. /\ ListingAt(k) \in [Items -> Numbers]
        /\ \A i \in Items : ListingAt(k)[i] <= Newest(i)
    BY <2>1, EarlierType DEF TelemetryInv
  <2> QED  BY <2>1, <2>2, ToldKeeps
<1>5. CASE \E i \in Items : Store(i)
  BY <1>5, StoreKeeps
<1>6. CASE \E i \in Items : StoreFails(i)
  <2> PICK i \in Items : StoreFails(i)
    BY <1>6
  <2>1. /\ kind' = kind /\ source' = source /\ cache' = cache
        /\ lagged' = lagged /\ req' = req /\ shown' = shown
        /\ stage' = stage /\ behind' = behind
        /\ got' = [got EXCEPT ![i] = 0]
    BY DEF StoreFails, stored
  <2>2. got \in [Items -> Numbers] /\ \A j \in Items : got[j] <= Newest(j)
    BY DEF TelemetryInv, TelemetryTypeOK, Caught
  <2>3. \A j \in Items : got'[j] = IF j = i THEN 0 ELSE got[j]
    BY <2>1, <2>2
  <2>4. got' \in [Items -> Numbers]
    BY <1>0, <2>1, <2>2
  <2>5. TelemetryTypeOK'
    BY <2>1, <2>4 DEF TelemetryInv, TelemetryTypeOK, Newest
  <2>6. \A j \in Items : Newest(j)' = Newest(j) /\ Newest(j) \in Nat
    BY <2>1, ListingType DEF Newest, TelemetryInv
  <2> HIDE DEF Newest
  <2>7. Caught'
    <3>1. \A j \in Items : got'[j] <= Newest(j)'
      BY <2>2, <2>3, <2>6
    <3>2. \A j \in Items : got'[j] # 0 => got'[j] = got[j]
      BY <2>3
    <3> QED  BY <2>1, <3>1, <3>2 DEF TelemetryInv, Caught
  <2>8. Presented' /\ Excusable' /\ OnceCollectedAnswered'
    BY <2>1, <2>6 DEF TelemetryInv, Presented, Excusable,
                      OnceCollectedAnswered, CachedRows
  <2> QED  BY <2>5, <2>7, <2>8 DEF TelemetryInv
<1>7. CASE Request
  <2>1. /\ kind' = kind /\ source' = source /\ cache' = cache
        /\ lagged' = lagged /\ stage' = stage /\ got' = got
        /\ behind' = behind /\ shown' = shown
        /\ req' = [pc |-> IF kind = "validators" THEN "live" ELSE "cache",
                   empty |-> CachedRows = {}, failed |-> FALSE]
    BY <1>7 DEF Request, collector, stored
  <2>2. Excusable'
    BY <2>1 DEF Excusable, CachedRows
  <2>3. TelemetryTypeOK'
    BY <2>1 DEF TelemetryInv, TelemetryTypeOK, Newest
  <2>4. Caught' /\ Presented' /\ OnceCollectedAnswered'
    BY <2>1 DEF TelemetryInv, Caught, Presented, OnceCollectedAnswered, Newest
  <2> QED  BY <2>2, <2>3, <2>4 DEF TelemetryInv
<1>8. CASE Live \/ LiveFails \/ Cached \/ CachedFails
  <2>a. /\ req.pc # "idle"
        /\ \/ Answer(FALSE, Listing)
           \/ Answer(TRUE, cache)
           \/ kind = "validators" /\ GoOn("cache", FALSE)
           \/ \E failed \in BOOLEAN :
                /\ req.empty \/ failed
                /\ (kind = "bridge" /\ GoOn("live", failed))
                     \/ Unavailable(failed)
    BY <1>8, HandlerSteps DEF TelemetryInv
  <2>1. CASE Answer(FALSE, Listing)
    BY <1>0, <2>1, AnswerKeeps
  <2>2. CASE Answer(TRUE, cache)
    BY <1>0, <2>2, AnswerKeeps
  <2>3. CASE kind = "validators" /\ GoOn("cache", FALSE)
    <3>1. req' = [pc |-> "cache", empty |-> req.empty, failed |-> FALSE]
      BY <2>3 DEF GoOn, TelemetryInv, TelemetryTypeOK
    <3>2. req'.pc = "cache" /\ req'.empty = req.empty
      BY <3>1
    <3>3. /\ kind' = kind /\ source' = source /\ cache' = cache
          /\ lagged' = lagged /\ stage' = stage /\ got' = got
          /\ behind' = behind /\ shown' = shown
      BY <2>3 DEF GoOn, collector, stored
    <3>4. TelemetryTypeOK'
      BY <3>1, <3>3 DEF TelemetryInv, TelemetryTypeOK, Newest
    <3>5. Caught' /\ Presented' /\ OnceCollectedAnswered'
      BY <3>3 DEF TelemetryInv, Caught, Presented, OnceCollectedAnswered, Newest
    <3>6. Excusable'
      BY <2>a, <3>2, <3>3 DEF TelemetryInv, Excusable, CachedRows
    <3> QED  BY <3>4, <3>5, <3>6 DEF TelemetryInv
  <2>4. CASE \E failed \in BOOLEAN :
               /\ req.empty \/ failed
               /\ (kind = "bridge" /\ GoOn("live", failed))
                    \/ Unavailable(failed)
    <3> PICK failed \in BOOLEAN :
               /\ req.empty \/ failed
               /\ (kind = "bridge" /\ GoOn("live", failed))
                    \/ Unavailable(failed)
      BY <2>4
    <3>0. /\ kind' = kind /\ source' = source /\ cache' = cache
          /\ lagged' = lagged /\ stage' = stage /\ got' = got
          /\ behind' = behind
      BY DEF GoOn, Unavailable, collector, stored
    <3>1. CASE kind = "bridge" /\ GoOn("live", failed)
      <4>1. /\ shown' = shown
            /\ req' = [pc |-> "live", empty |-> req.empty, failed |-> failed]
        BY <3>1 DEF GoOn, TelemetryInv, TelemetryTypeOK
      <4>2. req'.empty = req.empty /\ req'.failed = failed
        BY <4>1
      <4>3. TelemetryTypeOK'
        BY <3>0, <4>1 DEF TelemetryInv, TelemetryTypeOK, Newest
      <4>4. Caught' /\ Presented' /\ OnceCollectedAnswered'
        BY <3>0, <4>1 DEF TelemetryInv, Caught, Presented,
                          OnceCollectedAnswered, Newest
      <4>5. Excusable'
        BY <2>a, <3>0, <3>1, <4>2 DEF TelemetryInv, Excusable, CachedRows
      <4> QED  BY <4>3, <4>4, <4>5 DEF TelemetryInv
    <3>2. CASE Unavailable(failed)
      <4>1. /\ shown' = [ok |-> FALSE, cached |-> FALSE, rows |-> Nothing,
                         excused |-> TRUE]
            /\ req' = NoRequest
        BY <3>2 DEF Unavailable, TelemetryInv, TelemetryTypeOK
      <4>2. Nothing \in [Items -> Numbers] /\ \A i \in Items : Nothing[i] = 0
        BY <1>0 DEF Nothing
      <4>3. TelemetryTypeOK'
        BY <3>0, <4>1, <4>2 DEF TelemetryInv, TelemetryTypeOK, Newest, NoRequest
      <4>4. /\ ~shown'.ok /\ shown'.excused /\ req'.pc = "idle"
            /\ \A i \in Items : shown'.rows[i] = 0
        BY <4>1, <4>2 DEF NoRequest
      <4>5. \A i \in Items : Newest(i)' = Newest(i) /\ Newest(i) \in Nat
        BY <3>0, ListingType DEF Newest, TelemetryInv
      <4> HIDE DEF Newest
      <4>6. Caught' /\ Presented' /\ Excusable' /\ OnceCollectedAnswered'
        BY <3>0, <4>4, <4>5 DEF TelemetryInv, Caught, Presented, Excusable,
                                OnceCollectedAnswered
      <4> QED  BY <4>3, <4>6 DEF TelemetryInv
    <3> QED  BY <3>1, <3>2
  <2> QED  BY <2>a, <2>1, <2>2, <2>3, <2>4
<1>9. CASE \E k \in [Items -> Numbers] : LiveBehind(k)
  <2> PICK k \in [Items -> Numbers] : LiveBehind(k)
    BY <1>9
  <2>1. Earlier(k) /\ Answer(FALSE, ListingAt(k))
    BY DEF LiveBehind
  <2>2. /\ ListingAt(k) \in [Items -> Numbers]
        /\ \A i \in Items : ListingAt(k)[i] <= Newest(i)
    BY <2>1, EarlierType DEF TelemetryInv
  <2> QED  BY <2>1, <2>2, AnswerKeeps
<1>10. CASE UNCHANGED telemetryVars
  <2>1. /\ kind' = kind /\ source' = source /\ cache' = cache
        /\ lagged' = lagged /\ stage' = stage /\ got' = got
        /\ behind' = behind /\ shown' = shown /\ req' = req
    BY <1>10 DEF telemetryVars, collector, stored
  <2>2. TelemetryTypeOK'
    BY <2>1 DEF TelemetryInv, TelemetryTypeOK, Newest
  <2>3. Caught' /\ Presented' /\ Excusable' /\ OnceCollectedAnswered'
    BY <2>1 DEF TelemetryInv, Caught, Presented, Excusable,
                OnceCollectedAnswered, CachedRows, Newest
  <2> QED  BY <2>2, <2>3 DEF TelemetryInv
<1> QED  BY TelemetryActions, <1>1, <1>2, <1>3, <1>4, <1>5, <1>6, <1>7, <1>8,
            <1>9, <1>10

LEMMA TelemetryAlways == TelemetrySpec => []TelemetryInv
BY TelemetryStarts, TelemetryStep, PTL DEF TelemetrySpec

(* In every table, the collector and the handlers keep their types, and no *)
(* row is ahead of the chain: what ON CONFLICT and INSERT OR REPLACE write *)
(* is a value that the chain has had.                                      *)
THEOREM TelemetryTypeCorrect == TelemetrySpec => []TelemetryTypeOK
<1>1. TelemetryInv => TelemetryTypeOK
  BY DEF TelemetryInv
<1> QED  BY <1>1, TelemetryAlways, PTL

(* Once a table has had a row, its handler answers with an error only if   *)
(* its query failed: HandleBridge goes to the chain for an empty table, and*)
(* HandleValidators to the table when the chain does not answer.           *)
THEOREM TableKeepsAnswering == TelemetrySpec => []OnceCollectedAnswered
<1>1. TelemetryInv => OnceCollectedAnswered
  BY DEF TelemetryInv
<1> QED  BY <1>1, TelemetryAlways, PTL

(* What a new answer may show, of what the old one showed. *)
Advance ==
    shown.ok /\ shown'.ok /\ (shown'.cached => shown.cached) =>
        \A i \in Items :
            shown'.rows[i] # 0 /\ shown'.rows[i] < shown.rows[i] =>
                /\ kind # "network"
                /\ IF shown'.cached THEN i \in lagged ELSE LiveAnyBehind

LEMMA StepAdvances ==
    TelemetryInv /\ [TelemetryNext]_telemetryVars => UNCHANGED shown \/ Advance
<1> SUFFICES ASSUME TelemetryInv, [TelemetryNext]_telemetryVars, shown' # shown
             PROVE  Advance
  OBVIOUS
<1>0. /\ \A i \in Items : Listing[i] = Newest(i) \/ Listing[i] = 0
      /\ \A i \in Items : Newest(i) \in Nat /\ cache[i] \in Nat
      /\ \A i \in Items : shown.rows[i] \in Nat
      /\ \A i \in Items : shown.rows[i] <= Newest(i)
  BY ListingType DEF TelemetryInv, TelemetryTypeOK, Presented
<1> HIDE DEF Newest, Listing
<1>1. \/ Live \/ LiveFails \/ Cached \/ CachedFails
      \/ \E k \in [Items -> Numbers] : LiveBehind(k)
  BY TelemetryActions
     DEF telemetryVars, Change, Due, Ask, Told, AskFails, Collected, AskBehind,
         Store, StoreFails, Request
<1>2. CASE \E k \in [Items -> Numbers] : LiveBehind(k)
  <2>1. LiveAnyBehind
    BY <1>2, Zenon DEF LiveAnyBehind
  <2>2. req.pc = "live" /\ \E rows : Answer(FALSE, rows)
    BY <1>2 DEF LiveBehind
  <2>3. ~shown'.cached
    BY <2>2 DEF Answer
  <2>4. kind # "network"
    BY <2>2 DEF TelemetryInv, Excusable
  <2> QED  BY <2>1, <2>3, <2>4, Zenon DEF Advance
<1>3. CASE Live \/ LiveFails \/ Cached \/ CachedFails
  <2>1. CASE Answer(FALSE, Listing)
    <3>1. shown'.rows = Listing
      BY <2>1 DEF Answer
    <3>2. \A i \in Items : shown'.rows[i] # 0 => ~(shown'.rows[i] < shown.rows[i])
      BY <1>0, <3>1
    <3> QED  BY <3>2 DEF Advance
  <2>2. CASE Answer(TRUE, cache)
    <3>1. shown'.rows = cache /\ shown'.cached
      BY <2>2 DEF Answer
    <3>2. shown.ok /\ shown.cached => \A i \in Items :
              cache[i] < shown.rows[i] => kind # "network" /\ i \in lagged
      BY <1>0 DEF TelemetryInv, Presented
    <3> QED  BY <3>1, <3>2 DEF Advance
  <2>3. CASE \E to \in {"live", "cache"}, failed \in BOOLEAN : GoOn(to, failed)
    BY <2>3 DEF GoOn
  <2>4. CASE \E failed \in BOOLEAN : Unavailable(failed)
    BY <2>4 DEF Unavailable, Advance
  <2> QED  BY <1>3, <2>1, <2>2, <2>3, <2>4, HandlerSteps DEF TelemetryInv
<1> QED  BY <1>1, <1>2, <1>3

(* What a browser is shown of an item goes back in time, from one answer   *)
(* of a handler to the next, only from a live answer to one that says it is*)
(* cached, or to what a node has told that was behind; that of the network *)
(* does not even then.                                                     *)
THEOREM AnswersAlwaysAdvance == TelemetrySpec => AnswersAdvance
<1>1. TelemetryInv /\ [TelemetryNext]_telemetryVars => [Advance]_shown
  BY StepAdvances
<1> QED  BY <1>1, TelemetryAlways, PTL
         DEF TelemetrySpec, AnswersAdvance, Advance

=============================================================================
