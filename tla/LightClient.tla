---------------------------- MODULE LightClient ----------------------------
(***************************************************************************)
(* The header sync loop of the light client (internal/lightclient), the    *)
(* table of headers it fills, and the dashboard handlers that read both.   *)
(*                                                                         *)
(* One goroutine, started by the daemon, runs rounds of syncLatest: one at *)
(* once, then one per tick of a 5 second ticker.  A round asks the node    *)
(* for its height, compares it with latestHeight under the mutex, stores a *)
(* header, and publishes the height under the mutex again; between these   *)
(* steps HTTP handlers read latestHeight, syncing and the table.           *)
(*                                                                         *)
(* The table survives the process; everything else is lost with it.        *)
(***************************************************************************)
EXTENDS Integers, FiniteSets

CONSTANTS
    MaxHeight,    \* bound: the chain stops growing at this height
    MaxRuns,      \* bound: the process is started at most this many times
    Limit,        \* how many headers HandleNetwork asks for (50 in the code)
    Readers,      \* clients of the dashboard
    FaultyNode,   \* may the node answer a height the chain has not reached?
    ReadFaults    \* may the iteration over the headers rows stop early?

ASSUME MaxHeightAssumption == MaxHeight \in Nat \ {0}
ASSUME MaxRunsAssumption == MaxRuns \in Nat \ {0}
ASSUME LimitAssumption == Limit \in Nat \ {0}
ASSUME FlagAssumption == FaultyNode \in BOOLEAN /\ ReadFaults \in BOOLEAN

VARIABLES
    tip,           \* the height of the chain
    headers,       \* heights in the headers table: durable
    runs,          \* how often the process has been started
    pc,            \* where the sync goroutine is
    latestHeight,  \* LightClient.latestHeight
    syncing,       \* LightClient.syncing
    answer,        \* the local variable height of syncLatest
    ticker,        \* the 5 s ticker: not created yet, or its 1-place channel
    cancelled,     \* the daemon's context is done
    synced,        \* history: the heights stored by this run of the process
    reply,         \* the last reply each reader got
    seen,          \* history: the highest latest_height each reader was told
    rpc            \* where each reader's HandleStatus call is

chainVars  == <<tip, runs>>
readerVars == <<reply, seen, rpc>>
vars == <<tip, headers, runs, pc, latestHeight, syncing, answer, ticker,
          cancelled, synced, reply, seen, rpc>>

Heights == 0..MaxHeight

NoReply == [kind |-> "none"]
StatusReplies  == [kind : {"status"}, height : Heights]
NetworkReplies == [kind : {"network"}, heights : SUBSET Heights]

(* The process is down, or its sync goroutine is: about to set syncing, in *)
(* NodeStatus, past the stale check, between the insert and the publishing *)
(* of the height, in the deferred reset, in the select, or returned.       *)
PCs == {"down", "mark", "fetch", "check", "store", "publish", "end",
        "select", "stopped"}

TypeOK ==
    /\ tip \in Heights
    /\ headers \subseteq Heights
    /\ runs \in 1..MaxRuns
    /\ pc \in PCs
    /\ latestHeight \in Heights
    /\ syncing \in BOOLEAN
    /\ answer \in Heights
    /\ ticker \in {"none", "empty", "full"}
    /\ cancelled \in BOOLEAN
    /\ synced \subseteq Heights
    /\ reply \in [Readers -> {NoReply} \cup StatusReplies \cup NetworkReplies]
    /\ seen \in [Readers -> Heights]
    /\ rpc \in [Readers -> {"idle", "status"}]

Up == pc # "down"

-----------------------------------------------------------------------------
(* A process starts with New and enters Start: nothing is read back from   *)
(* the table, and the first round runs before the ticker exists.           *)

Fresh ==
    /\ pc = "mark"
    /\ latestHeight = 0
    /\ syncing = FALSE
    /\ answer = 0
    /\ ticker = "none"
    /\ cancelled = FALSE
    /\ synced = {}

Init ==
    /\ tip = 1
    /\ headers = {}
    /\ runs = 1
    /\ Fresh
    /\ reply = [r \in Readers |-> NoReply]
    /\ seen = [r \in Readers |-> 0]
    /\ rpc = [r \in Readers |-> "idle"]

-----------------------------------------------------------------------------
(* The environment. *)

ChainAdvance ==
    /\ tip < MaxHeight
    /\ tip' = tip + 1
    /\ UNCHANGED <<headers, runs, pc, latestHeight, syncing, answer, ticker,
                   cancelled, synced, readerVars>>

(* The heights the node may report: it may lag or have been rolled back. *)
Reportable == IF FaultyNode THEN Heights ELSE 0..tip

(* The context of Run is cancelled: by a signal, or with its parent. *)
Cancel ==
    /\ Up /\ ~cancelled
    /\ cancelled' = TRUE
    /\ UNCHANGED <<chainVars, headers, pc, latestHeight, syncing, answer,
                   ticker, synced, readerVars>>

(* The process ends, wherever the goroutine is: killed, or main returned   *)
(* (Run does not wait for this goroutine).  Calls in flight are lost.      *)
Down ==
    /\ Up
    /\ runs < MaxRuns \/ cancelled
    /\ pc' = "down"
    /\ rpc' = [r \in Readers |-> "idle"]
    /\ UNCHANGED <<chainVars, headers, latestHeight, syncing, answer, ticker,
                   cancelled, synced, reply, seen>>

Restart ==
    /\ ~Up /\ runs < MaxRuns
    /\ runs' = runs + 1
    /\ pc' = "mark"
    /\ latestHeight' = 0
    /\ syncing' = FALSE
    /\ answer' = 0
    /\ ticker' = "none"
    /\ cancelled' = FALSE
    /\ synced' = {}
    /\ UNCHANGED <<tip, headers, readerVars>>

(* A tick of a full ticker channel is dropped. *)
Tick ==
    /\ Up /\ ticker = "empty"
    /\ ticker' = "full"
    /\ UNCHANGED <<chainVars, headers, pc, latestHeight, syncing, answer,
                   cancelled, synced, readerVars>>

-----------------------------------------------------------------------------
(* One round of syncLatest. *)

Goto(from, to) == pc = from /\ pc' = to

Mark ==
    /\ Goto("mark", "fetch")
    /\ syncing' = TRUE
    /\ UNCHANGED <<chainVars, headers, latestHeight, answer, ticker,
                   cancelled, synced, readerVars>>

(* Mutant: the reset of syncing is not deferred, so an early return skips it. *)
FetchFailNoDefer ==
    /\ Goto("fetch", "select")
    /\ ticker' = IF ticker = "none" THEN "empty" ELSE ticker
    /\ UNCHANGED <<chainVars, headers, latestHeight, syncing, answer,
                   cancelled, synced, readerVars>>

(* NodeStatus fails, or its height does not parse. *)
FetchFail ==
    /\ Goto("fetch", "end")
    /\ UNCHANGED <<chainVars, headers, latestHeight, syncing, answer, ticker,
                   cancelled, synced, readerVars>>

(* NodeStatus returns h; the request does not survive a cancelled context. *)
FetchOk(h) ==
    /\ ~cancelled
    /\ h \in Reportable
    /\ Goto("fetch", "check")
    /\ answer' = h
    /\ UNCHANGED <<chainVars, headers, latestHeight, syncing, ticker,
                   cancelled, synced, readerVars>>

(* Mutant: no comparison with latestHeight. *)
CheckNothing ==
    /\ Goto("check", "store")
    /\ UNCHANGED <<chainVars, headers, latestHeight, syncing, answer, ticker,
                   cancelled, synced, readerVars>>

(* Under the mutex: is the height one we have already? *)
Check ==
    /\ pc = "check"
    /\ pc' = IF answer <= latestHeight THEN "end" ELSE "store"
    /\ UNCHANGED <<chainVars, headers, latestHeight, syncing, answer, ticker,
                   cancelled, synced, readerVars>>

(* INSERT OR REPLACE, keyed by height; no context, so it outlives cancel. *)
StoreOk ==
    /\ Goto("store", "publish")
    /\ headers' = headers \cup {answer}
    /\ synced' = synced \cup {answer}
    /\ UNCHANGED <<chainVars, latestHeight, syncing, answer, ticker,
                   cancelled, readerVars>>

(* Mutant: the error of storeHeader is not returned. *)
StoreFailIgnored ==
    /\ Goto("store", "publish")
    /\ UNCHANGED <<chainVars, headers, latestHeight, syncing, answer, ticker,
                   cancelled, synced, readerVars>>

StoreFail ==
    /\ Goto("store", "end")
    /\ UNCHANGED <<chainVars, headers, latestHeight, syncing, answer, ticker,
                   cancelled, synced, readerVars>>

Publish ==
    /\ Goto("publish", "end")
    /\ latestHeight' = answer
    /\ UNCHANGED <<chainVars, headers, syncing, answer, ticker, cancelled,
                   synced, readerVars>>

(* Mutant: the ticker is a one-shot timer. *)
EndRoundNoTicker ==
    /\ Goto("end", "select")
    /\ syncing' = FALSE
    /\ UNCHANGED <<chainVars, headers, latestHeight, answer, ticker, cancelled,
                   synced, readerVars>>

(* The deferred reset of syncing, and back to Start: after the first round *)
(* Start creates the ticker.                                               *)
EndRound ==
    /\ Goto("end", "select")
    /\ syncing' = FALSE
    /\ ticker' = IF ticker = "none" THEN "empty" ELSE ticker
    /\ UNCHANGED <<chainVars, headers, latestHeight, answer, cancelled,
                   synced, readerVars>>

(* The two cases of the select in Start: Go chooses when both are ready. *)
TakeTick ==
    /\ Goto("select", "mark")
    /\ ticker = "full"
    /\ ticker' = "empty"
    /\ UNCHANGED <<chainVars, headers, latestHeight, syncing, answer,
                   cancelled, synced, readerVars>>

(* Mutant: `break` in the ctx.Done case, which leaves only the select. *)
StopBreaksSelect ==
    /\ Goto("select", "select")
    /\ cancelled
    /\ UNCHANGED <<chainVars, headers, latestHeight, syncing, answer, ticker,
                   cancelled, synced, readerVars>>

Stop ==
    /\ Goto("select", "stopped")
    /\ cancelled
    /\ ticker' = "none"
    /\ UNCHANGED <<chainVars, headers, latestHeight, syncing, answer,
                   cancelled, synced, readerVars>>

-----------------------------------------------------------------------------
(* The dashboard handlers that read the light client. *)

(* HandleStatus, first half: IsSyncing, under its own read lock (what it   *)
(* answers is not kept: no property reads it).                             *)
StatusBegin(r) ==
    /\ Up /\ rpc[r] = "idle"
    /\ rpc' = [rpc EXCEPT ![r] = "status"]
    /\ UNCHANGED <<chainVars, headers, pc, latestHeight, syncing, answer,
                   ticker, cancelled, synced, reply, seen>>

Higher(a, b) == IF a >= b THEN a ELSE b

(* Second half: LatestHeight, under another read lock. *)
StatusReply(r) ==
    /\ Up /\ rpc[r] = "status"
    /\ rpc' = [rpc EXCEPT ![r] = "idle"]
    /\ reply' = [reply EXCEPT ![r] = [kind |-> "status",
                                      height |-> latestHeight]]
    /\ seen' = [seen EXCEPT ![r] = Higher(seen[r], latestHeight)]
    /\ UNCHANGED <<chainVars, headers, pc, latestHeight, syncing, answer,
                   ticker, cancelled, synced>>

(* Mutant: ORDER BY height ASC. *)
Oldest(n) == {h \in headers : Cardinality({k \in headers : k < h}) < n}

(* RecentHeaders: ORDER BY height DESC LIMIT n. *)
Recent(n) == {h \in headers : Cardinality({k \in headers : k > h}) < n}

(* The result of RecentHeaders: rows.Err is not consulted, so an iteration *)
(* that stops early returns what it has, as if it were the whole answer.   *)
RecentResults == {Recent(n) : n \in IF ReadFaults THEN 0..Limit ELSE {Limit}}

NetworkReply(r) ==
    /\ Up /\ rpc[r] = "idle"
    /\ \E H \in RecentResults :
         reply' = [reply EXCEPT ![r] = [kind |-> "network", heights |-> H]]
    /\ UNCHANGED <<chainVars, headers, pc, latestHeight, syncing, answer,
                   ticker, cancelled, synced, seen, rpc>>

-----------------------------------------------------------------------------
FetchAny == \E h \in Heights : FetchOk(h)

Round == Mark \/ FetchFail \/ FetchAny \/ Check \/ StoreOk \/ StoreFail
            \/ Publish \/ EndRound

Read == \E r \in Readers : StatusBegin(r) \/ StatusReply(r) \/ NetworkReply(r)

Next ==
    \/ ChainAdvance \/ Cancel \/ Down \/ Restart \/ Tick
    \/ Round \/ TakeTick \/ Stop
    \/ Read

(* Fairness.  The goroutine runs whenever it can, NodeStatus returns       *)
(* because the HTTP client has a 15 s timeout, the ticker ticks, and a     *)
(* process that died uncancelled is restarted by its supervisor.  A select *)
(* that has ctx.Done ready for ever chooses it (SF).  An up to date answer *)
(* and a successful insert are repeated possibilities (SF).                *)
FetchTip == FetchOk(tip)

Fairness ==
    /\ WF_vars(Round)
    /\ WF_vars(Tick)
    /\ WF_vars(TakeTick)
    /\ WF_vars(Restart /\ ~cancelled)
    /\ SF_vars(FetchTip)
    /\ SF_vars(StoreOk)
    /\ SF_vars(Stop)

Spec == Init /\ [][Next]_vars
FairSpec == Spec /\ Fairness

-----------------------------------------------------------------------------
(* Safety. *)

(* What HandleStatus has ever told a client as latest_height is in the     *)
(* headers table, and stays there whatever crashes follow: syncLatest      *)
(* stores a header before it publishes the height.                         *)
ReportedHeightsAreDurable ==
    \A r \in Readers : seen[r] > 0 => seen[r] \in headers

(* Outside the window between insert and publishing, latestHeight is the   *)
(* highest height this run of the process stored: an older answer of the   *)
(* node never overwrites a newer one.                                      *)
HighestSyncedThisRun ==
    Up /\ pc # "publish" =>
        /\ latestHeight \in synced \cup {0}
        /\ \A h \in synced : h <= latestHeight

(* A client that was told latest_height by HandleStatus finds a header at  *)
(* least as high in every later reply of HandleNetwork, restarts and the   *)
(* limit on the number of headers notwithstanding.                         *)
NetworkCoversStatus ==
    \A r \in Readers :
        reply[r].kind = "network" /\ seen[r] > 0 =>
            \E h \in reply[r].heights : h >= seen[r]

(* The inductive strengthening of the first two: what each point of a      *)
(* round knows of its local height, of the table and of latestHeight.      *)
PublishedIsStored == latestHeight > 0 => latestHeight \in headers

RoundKnows ==
    /\ pc \in {"store", "publish"} => answer > latestHeight
    /\ pc = "publish" =>
         /\ answer \in headers \cap synced
         /\ \A h \in synced : h <= answer

IInv ==
    /\ TypeOK
    /\ PublishedIsStored
    /\ RoundKnows
    /\ ReportedHeightsAreDurable
    /\ HighestSyncedThisRun

(* The table has a highest height: what lets HandleNetwork find it. *)
HasTop ==
    headers # {} => \E m \in headers : \A h \in headers : h <= m

(* A round never lowers latestHeight; only a restart forgets it. *)
HeightsOnlyRise == [][latestHeight' >= latestHeight \/ Restart]_vars

-----------------------------------------------------------------------------
(* Liveness. *)

(* Every height the chain reaches is eventually covered by latestHeight,   *)
(* failed rounds and crashes notwithstanding, unless the node is told to   *)
(* shut down.                                                              *)
CatchesUp ==
    \A h \in Heights : (tip >= h) ~> (latestHeight >= h \/ cancelled)

(* Told to shut down, the goroutine returns (or the process is gone). *)
StopsWhenCancelled == cancelled ~> (pc \in {"stopped", "down"} \/ ~cancelled)

(* Whatever way a round ends, syncing does not stay set: the dashboard is  *)
(* not told "syncing" for ever, not even by a goroutine that has returned. *)
SyncingIsReset == syncing ~> (~syncing \/ ~Up)

-----------------------------------------------------------------------------
(* What the comments say and the code does not. *)

(* lightclient.go:125, "LatestHeight returns the highest synced header     *)
(* height", read at a moment when no round is under way.                   *)
LatestHeightIsHighestSynced ==
    pc = "select" => \A h \in headers : h <= latestHeight

(* lightclient.go:15 and 23: a stored header is a verified one; at the     *)
(* least, its height is one the chain has reached.                         *)
StoredHeadersAreVerified == \A h \in headers : h <= tip

(* lightclient.go:153, "RecentHeaders returns the N most recent stored     *)
(* headers": as many as there are, up to N.                                *)
RecentHeadersAreComplete ==
    [][\A r \in Readers :
         NetworkReply(r) => reply'[r].heights = Recent(Limit)]_vars

=============================================================================
