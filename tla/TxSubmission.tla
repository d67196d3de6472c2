---------------------------- MODULE TxSubmission ----------------------------
(***************************************************************************)
(* The two loops of the daemon that submit transactions, the heartbeat     *)
(* loop (internal/daemon) and the auto-compounder (internal/delegation),   *)
(* through one TxBuilder (internal/client), for one account on the chain.  *)
(*                                                                         *)
(* BuildAndBroadcast asks the chain for the account's sequence, signs with *)
(* it and posts; nothing makes the two loops take turns.  The chain        *)
(* answers the post after CheckTx (BROADCAST_MODE_SYNC), before the        *)
(* transaction is in a block.                                              *)
(***************************************************************************)
EXTENDS Naturals, Sequences, FiniteSets

CONSTANTS
    MinReward,      \* AutoCompounder.minReward
    MaxAccrued,     \* bound: rewards the chain accrues in all
    MaxHeartbeats,  \* bound: heartbeats on the chain
    MaxTxs,         \* bound: no claim is begun beyond this many transactions
    CanSign,        \* does the keyring sign? (it does not, as shipped)
    KeyAtStart,     \* may the operator's key be there when the daemon starts?
    Decimal         \* may the chain's total have a fraction?

ASSUME BoundsAssumption ==
    /\ MinReward \in Nat \ {0} /\ MaxAccrued \in Nat
    /\ MaxHeartbeats \in Nat /\ MaxTxs \in Nat
ASSUME FlagsAssumption ==
    /\ CanSign \in BOOLEAN /\ KeyAtStart \subseteq BOOLEAN /\ Decimal \in BOOLEAN

VARIABLES
    hasKey,      \* does keys.Get find cfg.KeyName?
    pc,          \* where each loop is
    acct,        \* the sequence each loop got from GetAccount
    verdict,     \* CheckTx's answer to each loop's last post
    amount,      \* compound's local variable totalRewards
    recorded,    \* table rewards: the sum of its amounts
    lapsed,      \* history: did an interval end before the last claim was in
                 \* a block, or did a claim fail in its block?
    seq,         \* chain: the account's committed sequence
    mempool,     \* chain: transactions that passed CheckTx
    rewards,     \* chain: pending rewards
    accrued,     \* chain: all rewards so far
    claimed,     \* chain: rewards paid out so far
    heartbeats   \* chain: heartbeats in blocks

chainVars == <<seq, mempool, rewards, accrued, claimed, heartbeats>>
localVars == <<hasKey, pc, acct, verdict, amount, recorded>>
vars == <<localVars, lapsed, chainVars>>

Loops == {"heartbeat", "compound"}

TypeOK ==
    /\ hasKey \in BOOLEAN
    /\ pc \in [Loops -> {"start", "select", "rewards", "key", "account",
                         "post", "wait", "record", "exited"}]
    /\ acct \in [Loops -> 0..seq]
    /\ verdict \in [Loops -> BOOLEAN]
    /\ amount \in 0..MaxAccrued
    /\ recorded \in Nat
    /\ seq \in Nat
    /\ mempool \in Seq(Loops)
    /\ rewards \in Nat /\ claimed \in Nat
    /\ accrued = rewards + claimed /\ accrued <= MaxAccrued
    /\ heartbeats \in Nat
    /\ lapsed \in BOOLEAN

Init ==
    /\ hasKey \in KeyAtStart
    /\ pc = [p \in Loops |-> IF p = "heartbeat" THEN "start" ELSE "select"]
    /\ acct = [p \in Loops |-> 0]
    /\ verdict = [p \in Loops |-> FALSE]
    /\ amount = 0
    /\ recorded = 0 /\ lapsed = FALSE
    /\ seq = 0 /\ mempool = <<>>
    /\ rewards = 0 /\ accrued = 0 /\ claimed = 0
    /\ heartbeats = 0

-----------------------------------------------------------------------------
(* The chain. *)

Accrue ==
    /\ accrued < MaxAccrued
    /\ rewards' = rewards + 1 /\ accrued' = accrued + 1
    /\ UNCHANGED <<localVars, lapsed, seq, mempool, claimed, heartbeats>>

(* The first transaction of the mempool is executed in a block, where a    *)
(* claim may still fail.                                                   *)
CommitHeartbeat ==
    /\ mempool # <<>> /\ Head(mempool) = "heartbeat"
    /\ seq' = seq + 1 /\ mempool' = Tail(mempool)
    /\ heartbeats' = heartbeats + 1
    /\ UNCHANGED <<localVars, lapsed, rewards, accrued, claimed>>

CommitClaim(ok) ==
    /\ mempool # <<>> /\ Head(mempool) = "compound"
    /\ seq' = seq + 1 /\ mempool' = Tail(mempool)
    /\ rewards' = IF ok THEN 0 ELSE rewards
    /\ claimed' = IF ok THEN accrued ELSE claimed
    /\ lapsed' = (lapsed \/ ~ok)
    /\ UNCHANGED <<localVars, accrued, heartbeats>>

(* The operator adds the missing key with another process. *)
ImportKey ==
    /\ ~hasKey
    /\ hasKey' = TRUE
    /\ UNCHANGED <<pc, acct, verdict, amount, recorded, lapsed, chainVars>>

-----------------------------------------------------------------------------
Goto(p, from, to) == pc[p] = from /\ pc' = [pc EXCEPT ![p] = to]

Pending(p) == {i \in 1..Len(mempool) : mempool[i] = p}
ClaimPending == Pending("compound") # {}

(* heartbeatLoop looks up the key once, before its loop, and returns for   *)
(* ever without it.                                                        *)
HeartbeatStart ==
    /\ Goto("heartbeat", "start", IF hasKey THEN "select" ELSE "exited")
    /\ UNCHANGED <<hasKey, acct, verdict, amount, recorded, lapsed, chainVars>>

HeartbeatTick ==
    /\ heartbeats + Cardinality(Pending("heartbeat")) < MaxHeartbeats
    /\ Goto("heartbeat", "select", "key")
    /\ UNCHANGED <<hasKey, acct, verdict, amount, recorded, lapsed, chainVars>>

CompoundTick ==
    /\ seq + Len(mempool) < MaxTxs
    /\ Goto("compound", "select", "rewards")
    /\ lapsed' = (lapsed \/ ClaimPending)
    /\ UNCHANGED <<hasKey, acct, verdict, amount, recorded, chainVars>>

(* GetTotalRewards, ParseInt and the threshold.  ParseInt fails on an      *)
(* amount with a fraction.                                                 *)
QueryRewards(fraction) ==
    /\ fraction => Decimal
    /\ amount' = rewards
    /\ Goto("compound", "rewards",
            IF fraction \/ rewards < MinReward THEN "select" ELSE "key")
    /\ UNCHANGED <<hasKey, acct, verdict, recorded, lapsed, chainVars>>

QueryFails ==
    /\ Goto("compound", "rewards", "select")
    /\ UNCHANGED <<hasKey, acct, verdict, amount, recorded, lapsed, chainVars>>

(* BuildAndBroadcast: keys.Get. *)
GetKey(p) ==
    /\ Goto(p, "key", IF hasKey THEN "account" ELSE "select")
    /\ UNCHANGED <<hasKey, acct, verdict, amount, recorded, lapsed, chainVars>>

(* GetAccount answers from committed state; then Sign. *)
GetAccount(p) ==
    /\ Goto(p, "account", IF CanSign THEN "post" ELSE "select")
    /\ acct' = [acct EXCEPT ![p] = seq]
    /\ UNCHANGED <<hasKey, verdict, amount, recorded, lapsed, chainVars>>

(* BroadcastTx: CheckTx accepts the sequence that follows the committed    *)
(* and the pending transactions.                                           *)
Post(p) ==
    LET ok == acct[p] = seq + Len(mempool)
    IN  /\ Goto(p, "post", "wait")
        /\ verdict' = [verdict EXCEPT ![p] = ok]
        /\ mempool' = IF ok THEN Append(mempool, p) ELSE mempool
        /\ UNCHANGED <<hasKey, acct, amount, recorded, lapsed, seq, rewards,
                       accrued, claimed, heartbeats>>

(* Mutant: the heartbeat loop returns at a failed transaction. *)
RequestFailsEnds(p) ==
    LET end == IF p = "heartbeat" THEN "exited" ELSE "select"
    IN  /\ \/ Goto(p, "account", end)
           \/ Goto(p, "post", end)
           \/ Goto(p, "wait", end)
        /\ UNCHANGED <<hasKey, acct, verdict, amount, recorded, lapsed, chainVars>>

(* Each request of BuildAndBroadcast may fail: on the way there, or on the *)
(* way back, when the chain may have accepted the transaction.             *)
RequestFails(p) ==
    /\ \/ Goto(p, "account", "select")
       \/ Goto(p, "post", "select")
       \/ Goto(p, "wait", "select")
    /\ UNCHANGED <<hasKey, acct, verdict, amount, recorded, lapsed, chainVars>>

(* Mutant: the code of the response is not looked at. *)
RespondAny(p) ==
    /\ Goto(p, "wait", IF p = "compound" THEN "record" ELSE "select")
    /\ UNCHANGED <<hasKey, acct, verdict, amount, recorded, lapsed, chainVars>>

(* Both loops look at the code of the response; only the compounder has    *)
(* something to do after a success.                                        *)
Respond(p) ==
    /\ Goto(p, "wait",
            IF p = "compound" /\ verdict[p] THEN "record" ELSE "select")
    /\ UNCHANGED <<hasKey, acct, verdict, amount, recorded, lapsed, chainVars>>

(* The insert into rewards; its error is ignored. *)
Record(ok) ==
    /\ Goto("compound", "record", "select")
    /\ recorded' = IF ok THEN recorded + amount ELSE recorded
    /\ UNCHANGED <<hasKey, acct, verdict, amount, lapsed, chainVars>>

-----------------------------------------------------------------------------
Build(p) == GetKey(p) \/ GetAccount(p) \/ Post(p) \/ RequestFails(p) \/ Respond(p)

Compound ==
    \/ \E fraction \in BOOLEAN : QueryRewards(fraction)
    \/ QueryFails
    \/ \E ok \in BOOLEAN : Record(ok)

Commit == CommitHeartbeat \/ \E ok \in BOOLEAN : CommitClaim(ok)

Next ==
    \/ Accrue \/ Commit \/ ImportKey
    \/ HeartbeatStart \/ HeartbeatTick \/ CompoundTick
    \/ \E p \in Loops : Build(p)
    \/ Compound

(* Fairness: blocks are produced, tickers tick, every request returns (the *)
(* HTTP client's 15 s timeout), and requests of the heartbeat loop do not  *)
(* fail for ever.  Nothing is assumed of who wins a race for a sequence.   *)
Fairness ==
    /\ WF_vars(Commit)
    /\ WF_vars(HeartbeatStart) /\ WF_vars(HeartbeatTick)
    /\ \A p \in Loops : WF_vars(Build(p))
    /\ WF_vars(Compound)
    /\ SF_vars(GetAccount("heartbeat"))
    /\ SF_vars(Post("heartbeat"))

Spec == Init /\ [][Next]_vars
FairSpec == Spec /\ Fairness

-----------------------------------------------------------------------------
(* The rewards table does not claim more than the chain paid out (apart    *)
(* from a claim still waiting for its block), whatever requests and        *)
(* responses were lost and whichever loop won a race for the sequence.     *)
(* Two things break it, and the code guards against neither: an interval   *)
(* that ends while the last claim waits for its block, so that the same    *)
(* total is read and recorded again, and a claim that passes CheckTx and   *)
(* fails in its block.                                                     *)
RecordedWasClaimed == ~lapsed /\ ~ClaimPending => recorded <= claimed

(* A heartbeat loop that finds its key when it starts (afterwards is too   *)
(* late, daemon.go:244) gets heartbeats into blocks for ever, although the *)
(* compounder may take the sequence from under it and requests fail and    *)
(* are not retried.                                                        *)
HeartbeatsGoOn ==
    (hasKey /\ pc["heartbeat"] # "exited") ~> (heartbeats = MaxHeartbeats)

(* autocompound.go:57: rewards with a decimal portion are truncated, so a  *)
(* total that reaches the threshold is claimed.                            *)
ThresholdMeansClaim ==
    [][\A fraction \in BOOLEAN :
         QueryRewards(fraction) /\ rewards >= MinReward
             => pc'["compound"] = "key"]_vars

=============================================================================
