------------------------------ MODULE TxProofs ------------------------------
(***************************************************************************)
(* Theorems about TxSubmission, for every threshold, every number of       *)
(* claims and every schedule of the two loops: the types, and that the     *)
(* rewards table never claims more than the chain has paid.                *)
(***************************************************************************)
EXTENDS TxSubmission, Integers, TLAPS

(* Every action, without quantifiers nested in disjunctions. *)
LEMMA NextActions ==
    ASSUME Next
    PROVE  \/ Accrue
           \/ CommitHeartbeat
           \/ \E ok \in BOOLEAN : CommitClaim(ok)
           \/ ImportKey
           \/ HeartbeatStart
           \/ HeartbeatTick
           \/ CompoundTick
           \/ \E p \in Loops : GetKey(p)
           \/ \E p \in Loops : GetAccount(p)
           \/ \E p \in Loops : Post(p)
           \/ \E p \in Loops : RequestFails(p)
           \/ \E p \in Loops : Respond(p)
           \/ \E fraction \in BOOLEAN : QueryRewards(fraction)
           \/ QueryFails
           \/ \E ok \in BOOLEAN : Record(ok)
BY DEF Next, Commit, Build, Compound

-----------------------------------------------------------------------------
(* The compounder's own places in the code. *)
CompoundPlaces == {"select", "rewards", "key", "account", "post", "wait", "record"}

TypeInv == TypeOK /\ pc["compound"] \in CompoundPlaces

LEMMA TypeInit == Init => TypeInv
<1> USE BoundsAssumption, FlagsAssumption
<1> SUFFICES ASSUME Init PROVE TypeInv
  OBVIOUS
<1>1. hasKey \in BOOLEAN
  BY DEF Init
<1>2. mempool \in Seq(Loops)
  BY DEF Init
<1>3. acct \in [Loops -> 0..seq] /\ verdict \in [Loops -> BOOLEAN]
  BY DEF Init
<1>4. /\ pc \in [Loops -> {"start", "select", "rewards", "key", "account",
                           "post", "wait", "record", "exited"}]
      /\ pc["compound"] \in CompoundPlaces
  BY DEF Init, Loops, CompoundPlaces
<1>5. /\ amount \in 0..MaxAccrued /\ recorded \in Nat /\ seq \in Nat
      /\ rewards \in Nat /\ claimed \in Nat /\ heartbeats \in Nat
      /\ accrued = rewards + claimed /\ accrued <= MaxAccrued
  BY DEF Init
<1>6. lapsed \in BOOLEAN
  BY DEF Init
<1> QED
  BY <1>1, <1>2, <1>3, <1>4, <1>5, <1>6 DEF TypeInv, TypeOK

LEMMA TypeStep == TypeInv /\ [Next]_vars => TypeInv'
<1> SUFFICES ASSUME TypeInv, [Next]_vars PROVE TypeInv'
  OBVIOUS
<1> USE BoundsAssumption
    DEF TypeInv, TypeOK, Goto, Loops, CompoundPlaces, localVars, chainVars
<1>1. CASE Accrue
  BY <1>1 DEF Accrue
<1>2. CASE CommitHeartbeat
  BY <1>2 DEF CommitHeartbeat
<1>3. CASE \E ok \in BOOLEAN : CommitClaim(ok)
  BY <1>3 DEF CommitClaim
<1>4. CASE ImportKey
  BY <1>4 DEF ImportKey
<1>5. CASE HeartbeatStart
  BY <1>5 DEF HeartbeatStart
<1>6. CASE HeartbeatTick
  BY <1>6 DEF HeartbeatTick
<1>7. CASE CompoundTick
  BY <1>7 DEF CompoundTick
<1>8. CASE \E p \in Loops : GetKey(p)
  BY <1>8 DEF GetKey
<1>9. CASE \E p \in Loops : GetAccount(p)
  BY <1>9 DEF GetAccount
<1>10. CASE \E p \in Loops : Post(p)
  BY <1>10 DEF Post
<1>11. CASE \E p \in Loops : RequestFails(p)
  BY <1>11 DEF RequestFails
<1>12. CASE \E p \in Loops : Respond(p)
  BY <1>12 DEF Respond
<1>13. CASE \E fraction \in BOOLEAN : QueryRewards(fraction)
  BY <1>13 DEF QueryRewards
<1>14. CASE QueryFails
  BY <1>14 DEF QueryFails
<1>15. CASE \E ok \in BOOLEAN : Record(ok)
  BY <1>15 DEF Record
<1>16. CASE UNCHANGED vars
  BY <1>16 DEF vars
<1> QED
  BY <1>1, <1>2, <1>3, <1>4, <1>5, <1>6, <1>7, <1>8, <1>9, <1>10, <1>11, <1>12,
     <1>13, <1>14, <1>15, <1>16, NextActions

(* The types are kept by both loops and by the chain: no loop ever signs   *)
(* with a sequence the chain has not reached, and nothing but accrual      *)
(* creates rewards.                                                        *)
THEOREM TypeCorrect == Spec => []TypeOK
<1>1. Spec => []TypeInv
  BY TypeInit, TypeStep, PTL DEF Spec
<1> QED
  BY <1>1, PTL DEF TypeInv

-----------------------------------------------------------------------------
(* How the claims in the mempool change. *)
OneClaim == \A i, j \in Pending("compound") : i = j

LEMMA AppendClaim ==
    ASSUME mempool \in Seq(Loops), ~ClaimPending,
           mempool' = Append(mempool, "compound")
    PROVE  ClaimPending' /\ OneClaim'
<1>1. /\ Len(mempool') = Len(mempool) + 1 /\ Len(mempool) \in Nat
      /\ mempool'[Len(mempool) + 1] = "compound"
      /\ \A i \in 1..Len(mempool) : mempool'[i] = mempool[i]
  BY DEF Loops
<1>2. \A i \in 1..Len(mempool) : mempool[i] # "compound"
  BY DEF ClaimPending, Pending
<1>3. \A i \in 1..Len(mempool') : mempool'[i] = "compound" <=> i = Len(mempool) + 1
  BY <1>1, <1>2
<1>4. Len(mempool) + 1 \in Pending("compound")'
  BY <1>1 DEF Pending
<1> QED
  BY <1>3, <1>4 DEF OneClaim, ClaimPending, Pending

LEMMA AppendHeartbeat ==
    ASSUME mempool \in Seq(Loops), mempool' = Append(mempool, "heartbeat")
    PROVE  (ClaimPending' <=> ClaimPending) /\ (OneClaim => OneClaim')
<1>1. /\ Len(mempool') = Len(mempool) + 1 /\ Len(mempool) \in Nat
      /\ mempool'[Len(mempool) + 1] = "heartbeat"
      /\ \A i \in 1..Len(mempool) : mempool'[i] = mempool[i]
  BY DEF Loops
<1>2. Pending("compound")' = Pending("compound")
  BY <1>1 DEF Pending
<1> QED
  BY <1>2 DEF OneClaim, ClaimPending

LEMMA TailHeartbeat ==
    ASSUME mempool \in Seq(Loops), mempool # <<>>, Head(mempool) = "heartbeat",
           mempool' = Tail(mempool)
    PROVE  (ClaimPending' <=> ClaimPending) /\ (OneClaim => OneClaim')
<1>1. /\ Len(mempool') = Len(mempool) - 1 /\ Len(mempool) \in Nat \ {0}
      /\ mempool[1] = "heartbeat"
      /\ \A i \in 1..Len(mempool') : mempool'[i] = mempool[i + 1]
  OBVIOUS
<1>2. \A i : i \in Pending("compound")'
               <=> i \in 1..(Len(mempool) - 1) /\ i + 1 \in Pending("compound")
  BY <1>1 DEF Pending
<1>3. \A i \in Pending("compound") : i \in Int /\ i - 1 \in Pending("compound")'
  BY <1>1, <1>2 DEF Pending
<1>4. ClaimPending' <=> ClaimPending
  BY <1>2, <1>3 DEF ClaimPending
<1>5. ASSUME OneClaim, NEW i \in Pending("compound")', NEW j \in Pending("compound")'
      PROVE  i = j
  BY <1>2, <1>5 DEF OneClaim
<1> QED
  BY <1>4, <1>5 DEF OneClaim

LEMMA TailClaim ==
    ASSUME mempool \in Seq(Loops), mempool # <<>>, Head(mempool) = "compound",
           mempool' = Tail(mempool), OneClaim
    PROVE  ClaimPending /\ ~ClaimPending'
<1>1. /\ Len(mempool') = Len(mempool) - 1 /\ Len(mempool) \in Nat \ {0}
      /\ mempool[1] = "compound"
      /\ \A i \in 1..Len(mempool') : mempool'[i] = mempool[i + 1]
  OBVIOUS
<1>2. 1 \in Pending("compound")
  BY <1>1 DEF Pending
<1>3. \A i \in 1..Len(mempool') : i + 1 \notin Pending("compound")
  BY <1>1, <1>2 DEF OneClaim
<1> QED
  BY <1>1, <1>2, <1>3 DEF ClaimPending, Pending

-----------------------------------------------------------------------------
(* Until a claim lapses, the amount the compounder holds is covered: by    *)
(* the rewards on the chain before its claim is in a block, and by what    *)
(* was paid out afterwards.                                                *)
Unsent == pc["compound"] \in {"rewards", "key", "account", "post"}
Accepted == pc["compound"] = "record" \/ (pc["compound"] = "wait" /\ verdict["compound"])
Rejected == pc["compound"] = "wait" /\ ~verdict["compound"]

Covered ==
    /\ OneClaim
    /\ Unsent \/ Rejected => ~ClaimPending /\ recorded <= claimed
    /\ pc["compound"] \in {"key", "account", "post"} => amount <= rewards
    /\ Accepted /\ ClaimPending => recorded <= claimed /\ amount <= rewards
    /\ Accepted /\ ~ClaimPending => recorded + amount <= claimed
    /\ pc["compound"] = "select" /\ ClaimPending => recorded <= claimed + rewards
    /\ pc["compound"] = "select" /\ ~ClaimPending => recorded <= claimed

TxInv == TypeInv /\ (~lapsed => Covered)

LEMMA TxInit == Init => TxInv
<1> SUFFICES ASSUME Init PROVE Covered
  BY TypeInit DEF TxInv
<1>1. /\ pc["compound"] = "select" /\ mempool = <<>>
      /\ recorded = 0 /\ claimed = 0
  BY DEF Init, Loops
<1>2. Pending("compound") = {}
  BY <1>1 DEF Pending
<1> QED
  BY <1>1, <1>2 DEF Covered, OneClaim, ClaimPending, Unsent, Accepted, Rejected

LEMMA TxStep == TxInv /\ [Next]_vars => TxInv'
<1> SUFFICES ASSUME TxInv, [Next]_vars, ~lapsed' PROVE Covered'
  BY TypeStep DEF TxInv
<1> USE DEF TypeInv, TypeOK, Goto, localVars, chainVars
<1>a. TypeInv
  BY DEF TxInv
<1>b. lapsed => lapsed'
  BY NextActions DEF Accrue, CommitHeartbeat, CommitClaim, ImportKey, HeartbeatStart,
       HeartbeatTick, CompoundTick, GetKey, GetAccount, Post, RequestFails, Respond,
       QueryRewards, QueryFails, Record, vars
<1>c. Covered
  BY <1>b DEF TxInv
<1> USE DEF Unsent, Accepted, Rejected
<1>s. ASSUME UNCHANGED mempool
      PROVE  (ClaimPending' <=> ClaimPending) /\ (OneClaim' <=> OneClaim)
  BY <1>s DEF ClaimPending, OneClaim, Pending
<1>h. ASSUME UNCHANGED <<mempool, amount, recorded, rewards, claimed>>,
             pc'["compound"] = pc["compound"],
             verdict'["compound"] = verdict["compound"]
      PROVE  Covered'
  BY <1>c, <1>h, <1>s DEF Covered
<1>w. /\ ClaimPending => recorded <= claimed + rewards
      /\ ~ClaimPending => recorded <= claimed
  <2>1. CASE Unsent
    BY <1>a, <1>c, <2>1 DEF Covered
  <2>2. CASE Rejected
    BY <1>a, <1>c, <2>2 DEF Covered
  <2>3. CASE Accepted
    <3>1. CASE ClaimPending
      BY <1>a, <1>c, <2>3, <3>1 DEF Covered
    <3>2. CASE ~ClaimPending
      BY <1>a, <1>c, <2>3, <3>2 DEF Covered
    <3> QED
      BY <3>1, <3>2
  <2>4. CASE pc["compound"] = "select"
    BY <1>a, <1>c, <2>4 DEF Covered
  <2> QED
    BY <1>a, <2>1, <2>2, <2>3, <2>4 DEF CompoundPlaces
<1>r. ASSUME UNCHANGED <<mempool, recorded, rewards, claimed>>,
             pc'["compound"] = "select"
      PROVE  Covered'
  BY <1>c, <1>r, <1>s, <1>w DEF Covered
<1>1. CASE Accrue
  BY <1>a, <1>c, <1>s, <1>1 DEF Accrue, Covered
<1>2. CASE CommitHeartbeat
  <2>1. (ClaimPending' <=> ClaimPending) /\ (OneClaim => OneClaim')
    BY <1>a, <1>2, TailHeartbeat DEF CommitHeartbeat
  <2> QED
    BY <1>c, <1>2, <2>1 DEF CommitHeartbeat, Covered
<1>3. CASE \E ok \in BOOLEAN : CommitClaim(ok)
  <2> PICK ok \in BOOLEAN : CommitClaim(ok)
    BY <1>3
  <2>1. ok = TRUE
    BY DEF CommitClaim
  <2>2. ClaimPending /\ ~ClaimPending'
    BY <1>a, <1>c, TailClaim DEF CommitClaim, Covered
  <2>3. OneClaim'
    BY <2>2 DEF OneClaim, ClaimPending
  <2>4. claimed' = claimed + rewards /\ UNCHANGED <<pc, verdict, amount, recorded>>
    BY <1>a, <2>1 DEF CommitClaim
  <2> QED
    BY <1>a, <1>c, <2>2, <2>3, <2>4 DEF Covered, CompoundPlaces
<1>4. CASE ImportKey
  BY <1>h, <1>4 DEF ImportKey
<1>5. CASE HeartbeatStart
  BY <1>a, <1>h, <1>5 DEF HeartbeatStart
<1>6. CASE HeartbeatTick
  BY <1>a, <1>h, <1>6 DEF HeartbeatTick
<1>7. CASE CompoundTick
  BY <1>a, <1>c, <1>s, <1>7 DEF CompoundTick, Covered, Loops
<1>8. CASE \E p \in Loops : GetKey(p)
  <2> PICK p \in Loops : GetKey(p)
    BY <1>8
  <2>1. CASE p = "heartbeat"
    BY <1>a, <1>h, <2>1 DEF GetKey
  <2>2. CASE p = "compound"
    BY <1>a, <1>c, <1>s, <2>2 DEF GetKey, Covered
  <2> QED
    BY <2>1, <2>2 DEF Loops
<1>9. CASE \E p \in Loops : GetAccount(p)
  <2> PICK p \in Loops : GetAccount(p)
    BY <1>9
  <2>1. CASE p = "heartbeat"
    BY <1>a, <1>h, <2>1 DEF GetAccount
  <2>2. CASE p = "compound"
    BY <1>a, <1>c, <1>s, <2>2 DEF GetAccount, Covered
  <2> QED
    BY <2>1, <2>2 DEF Loops
<1>10. CASE \E p \in Loops : Post(p)
  <2> PICK p \in Loops : Post(p)
    BY <1>10
  <2>1. UNCHANGED <<amount, recorded, rewards, claimed>>
    BY DEF Post
  <2>2. CASE p = "heartbeat"
    <3>1. pc'["compound"] = pc["compound"] /\ verdict'["compound"] = verdict["compound"]
      BY <1>a, <2>2 DEF Post
    <3>2. mempool' = mempool \/ mempool' = Append(mempool, "heartbeat")
      BY <2>2 DEF Post
    <3>3. (ClaimPending' <=> ClaimPending) /\ (OneClaim => OneClaim')
      BY <1>a, <1>s, <3>2, AppendHeartbeat
    <3> QED
      BY <1>c, <2>1, <3>1, <3>3 DEF Covered
  <2>3. CASE p = "compound"
    <3> DEFINE ok == acct[p] = seq + Len(mempool)
    <3>1. pc["compound"] = "post" /\ pc'["compound"] = "wait"
      BY <1>a, <2>3 DEF Post
    <3>2. ~ClaimPending /\ recorded <= claimed /\ amount <= rewards /\ OneClaim
      BY <1>c, <3>1 DEF Covered
    <3>3. CASE ok
      <4>1. mempool' = Append(mempool, "compound") /\ verdict'["compound"] = TRUE
        BY <1>a, <2>3, <3>3 DEF Post
      <4>2. ClaimPending' /\ OneClaim'
        BY <1>a, <3>2, <4>1, AppendClaim
      <4> QED
        BY <2>1, <3>1, <3>2, <4>1, <4>2 DEF Covered
    <3>4. CASE ~ok
      <4>1. mempool' = mempool /\ verdict'["compound"] = FALSE
        BY <1>a, <2>3, <3>4 DEF Post
      <4> QED
        BY <1>s, <2>1, <3>1, <3>2, <4>1 DEF Covered
    <3> QED
      BY <3>3, <3>4
  <2> QED
    BY <2>2, <2>3 DEF Loops
<1>11. CASE \E p \in Loops : RequestFails(p)
  <2> PICK p \in Loops : RequestFails(p)
    BY <1>11
  <2>1. UNCHANGED <<mempool, verdict, amount, recorded, rewards, claimed>>
    BY DEF RequestFails
  <2>2. CASE p = "heartbeat"
    BY <1>a, <1>h, <2>1, <2>2 DEF RequestFails, Loops
  <2>3. CASE p = "compound"
    <3>1. pc'["compound"] = "select"
      BY <1>a, <2>3 DEF RequestFails
    <3> QED
      BY <1>r, <2>1, <3>1
  <2> QED
    BY <2>2, <2>3 DEF Loops
<1>12. CASE \E p \in Loops : Respond(p)
  <2> PICK p \in Loops : Respond(p)
    BY <1>12
  <2>1. UNCHANGED <<mempool, verdict, amount, recorded, rewards, claimed>>
    BY DEF Respond
  <2>2. CASE p = "heartbeat"
    BY <1>a, <1>h, <2>1, <2>2 DEF Respond
  <2>3. CASE p = "compound"
    <3>1. /\ pc["compound"] = "wait"
          /\ pc'["compound"] = IF verdict["compound"] THEN "record" ELSE "select"
      BY <1>a, <2>3 DEF Respond
    <3>2. CASE verdict["compound"]
      BY <1>c, <1>s, <2>1, <3>1, <3>2 DEF Covered
    <3>3. CASE ~verdict["compound"]
      BY <1>r, <2>1, <3>1, <3>3
    <3> QED
      BY <3>2, <3>3
  <2> QED
    BY <2>2, <2>3 DEF Loops
<1>13. CASE \E fraction \in BOOLEAN : QueryRewards(fraction)
  <2>1. /\ pc["compound"] = "rewards" /\ pc'["compound"] \in {"select", "key"}
        /\ amount' = rewards /\ UNCHANGED <<mempool, recorded, rewards, claimed>>
    BY <1>a, <1>13 DEF QueryRewards, Loops
  <2>2. ~ClaimPending' /\ OneClaim' /\ recorded <= claimed
    BY <1>c, <1>s, <2>1 DEF Covered
  <2>3. amount' <= rewards'
    BY <1>a, <2>1
  <2> QED
    BY <2>1, <2>2, <2>3, <1>r DEF Covered
<1>14. CASE QueryFails
  BY <1>a, <1>r, <1>14 DEF QueryFails, Loops
<1>15. CASE \E ok \in BOOLEAN : Record(ok)
  <2>1. /\ pc["compound"] = "record" /\ pc'["compound"] = "select"
        /\ recorded' \in {recorded, recorded + amount}
        /\ UNCHANGED <<mempool, verdict, amount, rewards, claimed>>
    BY <1>a, <1>15 DEF Record, Loops
  <2> QED
    BY <1>a, <1>c, <1>s, <2>1 DEF Covered
<1>16. CASE UNCHANGED vars
  BY <1>h, <1>16 DEF vars
<1> QED
  BY <1>1, <1>2, <1>3, <1>4, <1>5, <1>6, <1>7, <1>8, <1>9, <1>10, <1>11, <1>12,
     <1>13, <1>14, <1>15, <1>16, NextActions

(* Until a claim lapses, the rewards table never claims more than the      *)
(* chain has paid, for every threshold and whichever requests are lost.    *)
THEOREM RecordsAreClaims == Spec => []RecordedWasClaimed
<1>1. TxInv => RecordedWasClaimed
  <2> SUFFICES ASSUME TxInv, ~lapsed, ~ClaimPending PROVE recorded <= claimed
    BY DEF RecordedWasClaimed
  <2> QED
    BY DEF TxInv, TypeInv, TypeOK, Covered, CompoundPlaces, Unsent, Accepted, Rejected
<1>2. Spec => []TxInv
  BY TxInit, TxStep, PTL DEF Spec
<1> QED
  BY <1>1, <1>2, PTL

=============================================================================
