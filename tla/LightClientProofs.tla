------------------------- MODULE LightClientProofs -------------------------
(* Theorems about LightClient, for every value of its constants. *)
EXTENDS LightClient, FiniteSetTheorems, NaturalsInduction, TLAPS

Assumptions == /\ MaxHeight \in Nat \ {0} /\ MaxRuns \in Nat \ {0}
               /\ Limit \in Nat \ {0}

LEMMA AssumptionsHold == Assumptions
BY MaxHeightAssumption, MaxRunsAssumption, LimitAssumption DEF Assumptions

(* Every action of the goroutine, of the environment and of the handlers,  *)
(* as one disjunction without quantifiers over heights.                    *)
LEMMA NextActions ==
    ASSUME Next
    PROVE  \/ ChainAdvance \/ Cancel \/ Down \/ Restart \/ Tick
           \/ Mark \/ FetchFail \/ Check \/ StoreOk \/ StoreFail \/ Publish
           \/ EndRound \/ TakeTick \/ Stop
           \/ \E h \in Heights : FetchOk(h)
           \/ \E r \in Readers : StatusBegin(r)
           \/ \E r \in Readers : StatusReply(r)
           \/ \E r \in Readers : NetworkReply(r)
BY DEF Next, Round, Read, FetchAny

-----------------------------------------------------------------------------
LEMMA TypeInit == Init => TypeOK
<1> SUFFICES ASSUME Init PROVE TypeOK
  OBVIOUS
<1>1. tip \in Heights /\ runs \in 1..MaxRuns /\ latestHeight \in Heights
  BY AssumptionsHold DEF Init, Fresh, Heights, Assumptions
<1>2. answer \in Heights /\ seen \in [Readers -> Heights]
  BY AssumptionsHold DEF Init, Fresh, Heights, Assumptions
<1> QED
  BY <1>1, <1>2 DEF Init, Fresh, TypeOK, PCs

LEMMA TypeStep == TypeOK /\ [Next]_vars => TypeOK'
<1> SUFFICES ASSUME TypeOK, [Next]_vars PROVE TypeOK'
  OBVIOUS
<1> USE AssumptionsHold DEF TypeOK, Heights, PCs, Assumptions, chainVars,
                            readerVars, Up, Goto
<1>1. CASE ChainAdvance
  BY <1>1 DEF ChainAdvance
<1>2. CASE Cancel
  BY <1>2 DEF Cancel
<1>3. CASE Down
  <2>1. rpc' \in [Readers -> {"idle", "status"}]
    BY <1>3 DEF Down
  <2> QED
    BY <1>3, <2>1 DEF Down
<1>4. CASE Restart
  <2>1. runs' \in 1..MaxRuns /\ latestHeight' \in 0..MaxHeight
        /\ answer' \in 0..MaxHeight
    BY <1>4 DEF Restart
  <2> QED
    BY <1>4, <2>1 DEF Restart
<1>5. CASE Tick
  BY <1>5 DEF Tick
<1>6. CASE Mark
  BY <1>6 DEF Mark
<1>7. CASE FetchFail
  BY <1>7 DEF FetchFail
<1>8. CASE Check
  BY <1>8 DEF Check
<1>9. CASE StoreOk
  BY <1>9 DEF StoreOk
<1>10. CASE StoreFail
  BY <1>10 DEF StoreFail
<1>11. CASE Publish
  BY <1>11 DEF Publish
<1>12. CASE EndRound
  BY <1>12 DEF EndRound
<1>13. CASE TakeTick
  BY <1>13 DEF TakeTick
<1>14. CASE Stop
  BY <1>14 DEF Stop
<1>15. CASE \E h \in Heights : FetchOk(h)
  BY <1>15 DEF FetchOk
<1>16. CASE \E r \in Readers : StatusBegin(r)
  BY <1>16 DEF StatusBegin
<1>17. CASE \E r \in Readers : StatusReply(r)
  <2> PICK r \in Readers : StatusReply(r)
    BY <1>17
  <2>1. [kind |-> "status", height |-> latestHeight] \in StatusReplies
    BY DEF StatusReplies
  <2>2. Higher(seen[r], latestHeight) \in 0..MaxHeight
    BY DEF Higher
  <2> QED
    BY <2>1, <2>2 DEF StatusReply
<1>18. CASE \E r \in Readers : NetworkReply(r)
  <2> PICK r \in Readers : NetworkReply(r)
    BY <1>18
  <2>1. PICK H \in RecentResults :
          reply' = [reply EXCEPT ![r] = [kind |-> "network",
                                         heights |-> H]]
    BY DEF NetworkReply
  <2>2. H \in SUBSET Heights
    BY <2>1 DEF RecentResults, Recent
  <2>3. [kind |-> "network", heights |-> H] \in NetworkReplies
    BY <2>2 DEF NetworkReplies
  <2> QED
    BY <2>1, <2>3 DEF NetworkReply
<1>19. CASE UNCHANGED vars
  BY <1>19 DEF vars
<1> QED
  BY <1>1, <1>2, <1>3, <1>4, <1>5, <1>6, <1>7, <1>8, <1>9, <1>10, <1>11,
     <1>12, <1>13, <1>14, <1>15, <1>16, <1>17, <1>18, <1>19, NextActions

(* The type invariant is kept by every handler, environment step and       *)
(* restart of the model of internal/lightclient.                           *)
THEOREM TypeCorrect == Spec => []TypeOK
BY TypeInit, TypeStep, PTL DEF Spec

-----------------------------------------------------------------------------
(* IInv is inductive.  A step with no case of its own below leaves every   *)
(* variable the three conjuncts read as it was, but for pc.                *)
LEMMA IInvInit == Init => IInv
BY TypeInit DEF Init, Fresh, IInv, PublishedIsStored, RoundKnows,
                ReportedHeightsAreDurable, HighestSyncedThisRun

LEMMA IInvStep == IInv /\ [Next]_vars => IInv'
<1> SUFFICES ASSUME IInv, [Next]_vars PROVE IInv'
  OBVIOUS
<1>t. TypeOK /\ TypeOK'
  BY TypeStep DEF IInv
<1> USE DEF IInv, PublishedIsStored, RoundKnows, ReportedHeightsAreDurable,
            HighestSyncedThisRun, Up, Goto
<1>1. CASE ChainAdvance \/ Cancel \/ Tick
  BY <1>1, <1>t DEF ChainAdvance, Cancel, Tick, readerVars, chainVars
<1>2. CASE Down
  BY <1>2, <1>t DEF Down, chainVars
<1>3. CASE Restart
  BY <1>3, <1>t DEF Restart, readerVars
<1>4. CASE Mark \/ FetchFail \/ StoreFail \/ EndRound \/ TakeTick \/ Stop
  BY <1>4, <1>t DEF Mark, FetchFail, StoreFail, EndRound, TakeTick, Stop,
                    readerVars, chainVars
<1>5. CASE \E h \in Heights : FetchOk(h)
  BY <1>5, <1>t DEF FetchOk, readerVars, chainVars
<1>6. CASE Check
  BY <1>6, <1>t DEF Check, readerVars, chainVars, TypeOK, Heights
<1>7. CASE StoreOk
  <2>1. answer \in headers' \cap synced' /\ answer' = answer
    BY <1>7 DEF StoreOk
  <2>2. \A h \in synced' : h <= answer
    BY <1>7, <1>t DEF StoreOk, TypeOK, Heights
  <2> QED
    BY <1>7, <1>t, <2>1, <2>2 DEF StoreOk, readerVars, chainVars
<1>8. CASE Publish
  BY <1>8, <1>t DEF Publish, readerVars, chainVars, TypeOK, Heights
<1>9. CASE \E r \in Readers : StatusBegin(r)
  BY <1>9, <1>t DEF StatusBegin, chainVars
<1>10. CASE \E r \in Readers : StatusReply(r)
  <2> PICK r \in Readers : StatusReply(r)
    BY <1>10
  <2>1. \A q \in Readers : seen'[q] = IF q = r
                                    THEN Higher(seen[r], latestHeight)
                                    ELSE seen[q]
    BY <1>t DEF StatusReply, TypeOK
  <2>2. Higher(seen[r], latestHeight) \in {seen[r], latestHeight}
    BY DEF Higher
  <2>3. ReportedHeightsAreDurable'
    BY <2>1, <2>2 DEF StatusReply, chainVars
  <2> QED
    BY <1>t, <2>3 DEF StatusReply, chainVars
<1>11. CASE \E r \in Readers : NetworkReply(r)
  BY <1>11, <1>t DEF NetworkReply, chainVars
<1>12. CASE UNCHANGED vars
  BY <1>12, <1>t DEF vars
<1> QED
  BY <1>1, <1>2, <1>3, <1>4, <1>5, <1>6, <1>7, <1>8, <1>9, <1>10, <1>11,
     <1>12, NextActions

LEMMA IInvAlways == Spec => []IInv
BY IInvInit, IInvStep, PTL DEF Spec

(* Whatever number of clients, crashes and restarts: a height HandleStatus *)
(* answered is in the headers table from then on.                          *)
THEOREM ReportedHeightsStayStored == Spec => []ReportedHeightsAreDurable
<1>1. IInv => ReportedHeightsAreDurable
  BY DEF IInv
<1> QED
  BY <1>1, IInvAlways, PTL

(* Between rounds latestHeight is the highest height this run stored. *)
THEOREM LatestIsHighestOfRun == Spec => []HighestSyncedThisRun
<1>1. IInv => HighestSyncedThisRun
  BY DEF IInv
<1> QED
  BY <1>1, IInvAlways, PTL

(* No answer of the node, however old, lowers latestHeight. *)
THEOREM LatestHeightOnlyRises == Spec => HeightsOnlyRise
<1>1. IInv /\ [Next]_vars => [latestHeight' >= latestHeight \/ Restart]_vars
  <2> SUFFICES ASSUME IInv, Next, ~Restart
               PROVE  latestHeight' >= latestHeight
    BY DEF vars
  <2>1. latestHeight \in Int /\ answer \in Int
    BY AssumptionsHold DEF IInv, TypeOK, Heights, Assumptions
  <2>2. CASE Publish
    BY <2>1, <2>2 DEF Publish, Goto, IInv, RoundKnows
  <2>3. CASE latestHeight' = latestHeight
    BY <2>1, <2>3
  <2>4. ~Publish => latestHeight' = latestHeight
    BY NextActions DEF ChainAdvance, Cancel, Down, Tick, Mark, FetchFail,
       Check, StoreOk, StoreFail, EndRound, TakeTick, Stop, FetchOk,
       StatusBegin, StatusReply, NetworkReply
  <2> QED
    BY <2>2, <2>3, <2>4
<1> QED
  BY <1>1, IInvAlways, PTL DEF Spec, HeightsOnlyRise

-----------------------------------------------------------------------------
(* NetworkCoversStatus needs the row with the greatest height to exist and *)
(* to be among the first Limit rows.  Its existence is an invariant of its *)
(* own: one more row either is the new top or leaves the old one.          *)
LEMMA TopStep == IInv /\ HasTop /\ [Next]_vars => HasTop'
<1> SUFFICES ASSUME IInv, HasTop, [Next]_vars PROVE HasTop'
  OBVIOUS
<1>1. CASE StoreOk
  <2>1. headers' = headers \cup {answer}
    BY <1>1 DEF StoreOk
  <2>2. answer \in Int /\ \A h \in headers : h \in Int
    BY AssumptionsHold DEF IInv, TypeOK, Heights, Assumptions
  <2>3. CASE \A h \in headers : h <= answer
    BY <2>1, <2>2, <2>3 DEF HasTop
  <2>4. CASE ~ \A h \in headers : h <= answer
    <3>1. PICK m \in headers : \A h \in headers : h <= m
      BY <2>4 DEF HasTop
    <3>2. answer <= m
      BY <2>2, <2>4, <3>1
    <3> QED
      BY <2>1, <3>1, <3>2 DEF HasTop
  <2> QED
    BY <2>3, <2>4
<1>2. ~StoreOk => headers' = headers
  BY NextActions DEF ChainAdvance, Cancel, Down, Restart, Tick, Mark,
     FetchFail, Check, StoreFail, Publish, EndRound, TakeTick, Stop, FetchOk,
     StatusBegin, StatusReply, NetworkReply, vars
<1> QED
  BY <1>1, <1>2 DEF HasTop

(* ORDER BY height DESC LIMIT n keeps the top row, for every n > 0. *)
LEMMA RecentHasTop ==
    ASSUME NEW m \in headers, \A h \in headers : h <= m, headers \subseteq Int
    PROVE  m \in Recent(Limit)
<1>0. m \in Int /\ \A k \in headers : k \in Int /\ k <= m
  OBVIOUS
<1>1. {k \in headers : k > m} = {}
  <2>1. \A k \in headers : ~ (k > m)
    BY <1>0
  <2> QED
    BY <2>1
<1>2. Cardinality({}) = 0
  BY FS_EmptySet
<1>3. Cardinality({k \in headers : k > m}) < Limit
  BY <1>1, <1>2, AssumptionsHold DEF Assumptions
<1> QED
  BY <1>3 DEF Recent

CoversInv == IInv /\ HasTop /\ NetworkCoversStatus

LEMMA CoversStep ==
    ASSUME ReadFaults = FALSE, CoversInv, [Next]_vars
    PROVE  CoversInv'
<1>1. IInv' /\ HasTop'
  BY IInvStep, TopStep DEF CoversInv
<1>t. TypeOK /\ headers \subseteq Int
  BY AssumptionsHold DEF CoversInv, IInv, TypeOK, Heights, Assumptions
<1> USE DEF NetworkCoversStatus
<1>2. CASE \E r \in Readers : NetworkReply(r)
  <2> PICK r \in Readers : NetworkReply(r)
    BY <1>2
  <2>1. seen' = seen
    BY DEF NetworkReply
  <2>2. reply' = [reply EXCEPT ![r] = [kind |-> "network",
                                       heights |-> Recent(Limit)]]
    BY DEF NetworkReply, RecentResults
  <2>3. ASSUME seen[r] > 0
        PROVE  \E h \in Recent(Limit) : h >= seen[r]
    <3>1. seen[r] \in headers
      BY <2>3 DEF CoversInv, IInv, ReportedHeightsAreDurable
    <3>2. PICK m \in headers : \A h \in headers : h <= m
      BY <3>1 DEF CoversInv, HasTop
    <3>3. m \in Recent(Limit)
      BY <3>2, <1>t, RecentHasTop
    <3> QED
      BY <3>1, <3>2, <3>3, <1>t
  <2>4. ASSUME NEW q \in Readers, q # r
        PROVE  reply'[q] = reply[q]
    BY <2>2, <2>4, <1>t DEF TypeOK
  <2>5. reply'[r].heights = Recent(Limit)
    BY <2>2, <1>t DEF TypeOK
  <2> QED
    BY <1>1, <2>1, <2>3, <2>4, <2>5 DEF CoversInv
<1>3. CASE \E r \in Readers : StatusReply(r)
  <2> PICK r \in Readers : StatusReply(r)
    BY <1>3
  <2>1. reply'[r].kind = "status"
    BY <1>t DEF StatusReply, TypeOK
  <2>2. ASSUME NEW q \in Readers, q # r
        PROVE  reply'[q] = reply[q] /\ seen'[q] = seen[q]
    BY <2>2, <1>t DEF StatusReply, TypeOK
  <2> QED
    BY <1>1, <2>1, <2>2 DEF CoversInv
<1>4. CASE UNCHANGED <<reply, seen>>
  BY <1>1, <1>4 DEF CoversInv
<1> QED
  BY <1>2, <1>3, <1>4, NextActions DEF ChainAdvance, Cancel, Down, Restart,
     Tick, Mark, FetchFail, Check, StoreOk, StoreFail, Publish, EndRound,
     TakeTick, Stop, FetchOk, StatusBegin, readerVars, vars

(* If iterating over the rows never fails midway, a client that was told a *)
(* latest_height finds a header at least as high in every later list of    *)
(* RecentHeaders, whatever Limit is and whatever restarts come between.    *)
THEOREM ListsCoverStatus ==
    ASSUME ReadFaults = FALSE
    PROVE  Spec => []NetworkCoversStatus
<1>1. Init => CoversInv
  BY IInvInit DEF Init, CoversInv, HasTop, NetworkCoversStatus, NoReply
<1>2. CoversInv /\ [Next]_vars => CoversInv'
  BY CoversStep
<1>3. CoversInv => NetworkCoversStatus
  BY DEF CoversInv
<1> QED
  BY <1>1, <1>2, <1>3, PTL DEF Spec

=============================================================================
