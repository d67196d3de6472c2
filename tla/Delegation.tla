----------------------------- MODULE Delegation -----------------------------
(***************************************************************************)
(* The local mirror of the operator's delegations and the alerts computed  *)
(* from it.  Every five minutes delegationSyncLoop (daemon.go) fetches the *)
(* delegations from the chain, upserts them row by row in the delegations  *)
(* table, and, when rebalancing is enabled, reads the table back and asks  *)
(* the chain for the reputation of every validator in it.                  *)
(*                                                                         *)
(* It asks for the delegations of the address that daemon.New found with   *)
(* the operator's key.  No backend of the keyring sets KeyInfo.Address, so *)
(* as shipped the address is always "" and no fetch succeeds; Addressed    *)
(* says whether the key has an address, and the mirror is checked for what *)
(* it does once it has one.                                                *)
(*                                                                         *)
(* The manager also keeps the split that the configuration asks for, set   *)
(* once by New; ComputeSplit divides an amount by it.                      *)
(***************************************************************************)
EXTENDS Splitter, FiniteSets

CONSTANTS
    Validators,
    MaxChanges,   \* bound: how often the delegation to a validator changes
    Addressed,    \* may the operator's key have an address: {FALSE} is the
                  \* program as shipped
    PageSizes,    \* how many delegations one answer of the chain may hold
    Answered,     \* the validators whose reputation the chain can tell
    MayLag,       \* may the node be behind the chain, or be rolled back?
    ReadFaults,   \* may reading the table fail, or stop half-way?
    SplitConfigs, \* [Delegation] in config.toml: [n |-> the number of its
                  \* validators, given |-> its split_weights]
    MaxAmount     \* bound: the amounts that are divided

ASSUME MaxChangesAssumption == MaxChanges \in Nat
ASSUME AddressedAssumption == Addressed \subseteq BOOLEAN
ASSUME PageSizesAssumption == PageSizes \subseteq Nat \ {0}
ASSUME AnsweredAssumption == Answered \subseteq Validators
ASSUME SplitConfigsAssumption ==
    \A c \in SplitConfigs : c.n \in Nat /\ c.given \in Seq(Int)
ASSUME MayLagAssumption == MayLag \in BOOLEAN
ASSUME ReadFaultsAssumption == ReadFaults \in BOOLEAN
ASSUME MaxAmountAssumption == MaxAmount \in Nat

VARIABLES
    split,    \* Manager.weights; it does not change after New
    address,  \* has Manager.address a value? it does not change after New
    page,     \* on the chain: the size of a page, which does not change
    stake,    \* on the chain: stake[v] has an element for each change of
              \* the delegation to v, so that the number of the change tells
              \* each amount from all the others; the element says whether
              \* anything was delegated to v then
    low,      \* those of Answered whose reputation is below the threshold
    table,    \* table[v]: the amount in v's row, as its number; 0: no row
    pc,       \* where delegationSyncLoop is
    snap,     \* the delegations it last fetched: change numbers, 0 for none
    late,     \* history: is that an earlier state of the chain, from a node
              \* that is behind or was rolled back?  FALSE once it is stored
    todo,     \* the validators its loop has still to do
    alerts    \* the validators the check found below the threshold

fixed == <<split, address, page>>
chain == <<stake, low>>
answer == <<snap, late>>
vars == <<fixed, chain, table, pc, answer, todo, alerts>>

Amounts == 0..MaxChanges
Latest == [v \in Validators |-> Len(stake[v])]

(* What is delegated after the changes k[v] of each v. *)
HeldAt(k) == {v \in Validators : k[v] # 0 /\ stake[v][k[v]]}
Held == HeldAt(Latest)
Rows(t) == {v \in Validators : t[v] # 0}

TypeOK ==
    /\ split \in Seq(Int) /\ address \in BOOLEAN /\ page \in Nat \ {0}
    /\ stake \in [Validators -> Seq(BOOLEAN)]
    /\ \A v \in Validators : Len(stake[v]) \in Amounts
    /\ low \subseteq Answered
    /\ table \in [Validators -> Amounts]
    /\ pc \in {"idle", "fetch", "store", "read", "score"}
    /\ snap \in [Validators -> Amounts] /\ late \in BOOLEAN
    /\ todo \subseteq Validators
    /\ alerts \subseteq Validators

Init ==
    /\ split \in {SetSplit(c.n, Weights(c.n, c.given)) : c \in SplitConfigs}
    /\ address \in Addressed /\ page \in PageSizes
    /\ stake = [v \in Validators |-> <<>>]
    /\ low = {}
    /\ table = [v \in Validators |-> 0]
    /\ pc = "idle"
    /\ snap = [v \in Validators |-> 0] /\ late = FALSE
    /\ todo = {} /\ alerts = {}

-----------------------------------------------------------------------------
(* The chain: the operator delegates to v, changes the amount, or takes    *)
(* everything back; reputations rise and fall.                             *)
ChangeStake(v) ==
    /\ Len(stake[v]) < MaxChanges
    /\ \E held \in BOOLEAN :
         /\ v \in Held \/ held
         /\ stake' = [stake EXCEPT ![v] = Append(@, held)]
    /\ UNCHANGED <<fixed, low, table, pc, answer, todo, alerts>>

ChangeReputation ==
    /\ low' \in SUBSET Answered
    /\ UNCHANGED <<fixed, stake, table, pc, answer, todo, alerts>>

-----------------------------------------------------------------------------
Tick ==
    /\ pc = "idle" /\ pc' = "fetch"
    /\ UNCHANGED <<fixed, chain, table, answer, todo, alerts>>

(* One answer holds the first page only, and Delegations asks for no other.*)
FirstPage(held) ==
    IF Cardinality(held) <= page THEN {held}
    ELSE {S \in SUBSET held : Cardinality(S) = page}

(* The answer is the state of the chain after the changes k. *)
FetchAt(k) ==
    /\ pc = "fetch" /\ pc' = "store"
    /\ address
    /\ todo' \in FirstPage(HeldAt(k))
    /\ snap' = [v \in Validators |-> IF v \in todo' THEN k[v] ELSE 0]
    /\ late' = (k # Latest)
    /\ UNCHANGED <<fixed, chain, table, alerts>>

Fetch == FetchAt(Latest)

(* The node is behind, or was rolled back, as it may be at any time; what  *)
(* it answers of each delegation is what that was at some earlier time.    *)
FetchLate(k) ==
    /\ MayLag /\ k # Latest
    /\ \A v \in Validators : k[v] <= Latest[v]
    /\ FetchAt(k)

(* The request fails, as every one does that names no address.  The sync   *)
(* is given up with a warning; the check runs on the old table.            *)
FetchFails ==
    /\ pc = "fetch" /\ pc' = "read"
    /\ UNCHANGED <<fixed, chain, table, answer, todo, alerts>>

(* Mutant: the amount is that of the loop's last row. *)
StoreRowCaptured(v) ==
    /\ pc = "store" /\ v \in todo
    /\ table' = [table EXCEPT ![v] = snap[CHOOSE u \in Rows(snap) : TRUE]]
    /\ todo' = todo \ {v}
    /\ UNCHANGED <<fixed, chain, pc, answer, alerts>>

(* Mutant: INSERT OR IGNORE. *)
StoreRowOnce(v) ==
    /\ pc = "store" /\ v \in todo
    /\ table' = IF table[v] = 0 THEN [table EXCEPT ![v] = snap[v]] ELSE table
    /\ todo' = todo \ {v}
    /\ UNCHANGED <<fixed, chain, pc, answer, alerts>>

StoreRow(v) ==
    /\ pc = "store" /\ v \in todo
    /\ table' = [table EXCEPT ![v] = snap[v]]
    /\ todo' = todo \ {v}
    /\ UNCHANGED <<fixed, chain, pc, answer, alerts>>

(* An upsert that fails is skipped with a warning. *)
StoreRowFails(v) ==
    /\ pc = "store" /\ v \in todo
    /\ todo' = todo \ {v}
    /\ UNCHANGED <<fixed, chain, table, pc, answer, alerts>>

(* SyncDelegations returns; rows of the table that were not fetched stay.  *)
Synced ==
    /\ pc = "store" /\ todo = {} /\ pc' = "read"
    /\ late' = FALSE
    /\ UNCHANGED <<fixed, chain, table, snap, todo, alerts>>

(* Check, when rebalancing is enabled: GetDelegations.  rows.Err is not     *)
(* consulted, so rows may be missing from a result without an error.       *)
ReadTable(S) ==
    /\ pc = "read" /\ pc' = "score"
    /\ S \subseteq Rows(table)
    /\ ReadFaults \/ S = Rows(table)
    /\ todo' = S /\ alerts' = {}
    /\ UNCHANGED <<fixed, chain, table, answer>>

(* The check is given up with a warning and raises nothing. *)
ReadFails ==
    /\ ReadFaults
    /\ pc = "read" /\ pc' = "idle"
    /\ alerts' = {}
    /\ UNCHANGED <<fixed, chain, table, answer, todo>>

Score(v) ==
    /\ pc = "score" /\ v \in todo
    /\ v \in Answered
    /\ alerts' = IF v \in low THEN alerts \cup {v} ELSE alerts
    /\ todo' = todo \ {v}
    /\ UNCHANGED <<fixed, chain, table, pc, answer>>

(* Mutant: Check returns at the first reputation it cannot get. *)
ScoreFailsEnds(v) ==
    /\ pc = "score" /\ v \in todo
    /\ pc' = "idle" /\ todo' = {} /\ alerts' = {}
    /\ UNCHANGED <<fixed, chain, table, answer>>

(* The validator is skipped with a warning. *)
ScoreFails(v) ==
    /\ pc = "score" /\ v \in todo
    /\ todo' = todo \ {v}
    /\ UNCHANGED <<fixed, chain, table, pc, answer, alerts>>

(* Check returns and the loop logs its alerts. *)
Checked ==
    /\ pc = "score" /\ todo = {} /\ pc' = "idle"
    /\ UNCHANGED <<fixed, chain, table, answer, todo, alerts>>

-----------------------------------------------------------------------------
FetchAnyLate == \E k \in [Validators -> Amounts] : FetchLate(k)
ReadAny == \E S \in SUBSET Validators : ReadTable(S)

Step ==
    \/ Fetch \/ FetchFails \/ Synced \/ ReadAny \/ ReadFails \/ Checked
    \/ FetchAnyLate
    \/ \E v \in Validators : StoreRow(v) \/ StoreRowFails(v)
                                \/ Score(v) \/ ScoreFails(v)

Next ==
    \/ \E v \in Validators : ChangeStake(v)
    \/ ChangeReputation
    \/ Tick \/ Step

(* Fairness: the ticker ticks and the loop runs, every request returning   *)
(* within the 15 s of the HTTP client.  The chain (asked with an address), *)
(* the table and, for the validators it knows, the reputation endpoint do  *)
(* not fail for ever.                                                      *)
Fairness ==
    /\ WF_vars(Tick) /\ WF_vars(Step)
    /\ SF_vars(Fetch) /\ SF_vars(ReadTable(Rows(table)))
    /\ \A v \in Validators : SF_vars(StoreRow(v)) /\ SF_vars(Score(v))

Spec == Init /\ [][Next]_vars /\ Fairness

-----------------------------------------------------------------------------
(* A row of the mirror that changes comes to show an amount the operator   *)
(* had with that validator, and never an older one than before, however    *)
(* fetches, failed inserts and changes on the chain fall together, unless  *)
(* the node itself answered with an earlier state of the chain: INSERT OR  *)
(* REPLACE takes whatever it says.                                         *)
RowsAdvance ==
    [][\A v \in Validators : table'[v] # table[v] =>
         /\ table'[v] \in 1..Len(stake[v]) /\ stake[v][table'[v]]
         /\ table'[v] < table[v] => late]_vars

(* The chain's answers have one page, and nothing is missing from it. *)
OnePage == Cardinality(Held) <= page

(* The operator's key has an address, and from some time on no answer is   *)
(* of an earlier state of the chain.                                       *)
AnsweredInTime == address /\ <>[]~late

(* Once the operator's stake with v stays as it is, v's row comes to show  *)
(* it and goes on showing it, although syncs and inserts fail and are not  *)
(* repeated before the next tick, although there were more delegations     *)
(* before than one page holds, and although the node was behind.  Without  *)
(* an address, as shipped, there is nothing to show.                       *)
MirrorConverges ==
    \A v \in Validators, n \in Amounts \ {0} :
        AnsweredInTime /\ <>[](v \in Held /\ Len(stake[v]) = n /\ OnePage)
            => <>[](table[v] = n)

(* A validator that keeps a stake and stays below the threshold is alerted *)
(* again and again, whatever the chain fails to say about the others, if   *)
(* the operator's key has an address.                                      *)
LowHeldIsAlerted ==
    \A v \in Answered :
        AnsweredInTime /\ <>[](v \in Held /\ v \in low /\ OnePage)
            => []<>(pc = "idle" /\ v \in alerts)

(* Every split of the manager divides every amount without loss and in     *)
(* proportion to the weights, as long as the products and the sum of the   *)
(* weights fit and no weight is negative; nothing in the code sees to any  *)
(* of these, and SetSplit takes weights of any sign.                       *)
SplitIsFair ==
    split # Unset =>
        \A amount \in 1..MaxAmount : Fits(split, amount) => Fair(split, amount)

(* rebalancer.go:37: Check "evaluates all delegated validators", and an    *)
(* alert is for a validator "that needs redelegation" (:29); at the least, *)
(* one with a stake when the loop last fetched, or now.                    *)
AlertsAreForDelegated ==
    [][\A v \in Validators :
         v \in alerts' \ alerts => snap[v] # 0 \/ v \in Held]_vars

=============================================================================
