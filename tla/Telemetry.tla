----------------------------- MODULE Telemetry ------------------------------
(***************************************************************************)
(* One table of telemetry, the collector that fills it from the chain      *)
(* (internal/telemetry) and the dashboard's handler that answers from it   *)
(* or from the chain (internal/dashboard/api.go), as a browser that asks   *)
(* again and again sees them.  The tables differ in the handler:           *)
(* HandleValidators asks the chain first and falls back to the table,      *)
(* HandleBridge does the opposite, HandleTokenomics and HandleNetwork have *)
(* only the table.  That of the network has a row for every height the     *)
(* node reported, of which the highest is kept here, the first of the list.*)
(* Collectors and handlers of different tables share nothing.              *)
(*                                                                         *)
(* One node answers collectors and handlers alike.  It may be behind the   *)
(* chain, or be rolled back, at any time, and nothing compares what it     *)
(* says with what it said before: rows are replaced unconditionally.       *)
(***************************************************************************)
EXTENDS Naturals, Sequences

CONSTANTS
    Kinds,       \* tables: "validators", "bridge", "tokenomics", "network"
    Items,       \* what a table has a row for: validators, chains
    One,         \* the only item of tokenomics and network: burn and height
    MaxUpdates   \* bound: how often an item changes on the chain

ASSUME KindsAssumption ==
    Kinds \subseteq {"validators", "bridge", "tokenomics", "network"}
ASSUME OneAssumption == One \in Items
ASSUME MaxUpdatesAssumption == MaxUpdates \in Nat

VARIABLES
    kind,    \* which table; it does not change
    source,  \* the chain: source[i] has an element for each change of i, so
             \* that the number of the change tells each value of i from all
             \* the others; the element says whether i was listed then
    cache,   \* the table: what i's row says, as a change number; 0: no row
    lagged,  \* history: the items whose rows a node that was behind has told
    stage,   \* where the collector is
    got,     \* what it was told and has still to store: change numbers, 0 for
             \* what was not listed and for what its loop is done with
    behind,  \* history: is that what a node that was behind has told?
    req,     \* the handler: where it is, whether the table was empty when it
             \* began, and whether its query failed
    shown    \* the last answer

stored == <<cache, lagged>>
collector == <<stage, got, behind>>
telemetryVars == <<kind, source, stored, collector, req, shown>>

Numbers == 0..MaxUpdates
Newest(i) == Len(source[i])

(* What the chain says of every item after the changes k[i] of each, and   *)
(* what it says now.                                                       *)
ListingAt(k) ==
    [i \in Items |-> IF k[i] # 0 /\ source[i][k[i]] THEN k[i] ELSE 0]
Listing == ListingAt([i \in Items |-> Newest(i)])
CachedRows == {i \in Items : cache[i] # 0}

TelemetryTypeOK ==
    /\ kind \in Kinds
    /\ source \in [Items -> Seq(BOOLEAN)]
    /\ \A i \in Items : Newest(i) \in Numbers
    /\ cache \in [Items -> Numbers] /\ lagged \subseteq Items
    /\ \A i \in Items : cache[i] <= Newest(i)
    /\ stage \in {"idle", "fetch", "store"}
    /\ got \in [Items -> Numbers] /\ behind \in BOOLEAN
    /\ req \in [pc : {"idle", "live", "cache"}, empty : BOOLEAN,
                failed : BOOLEAN]
    /\ shown \in [ok : BOOLEAN, cached : BOOLEAN, rows : [Items -> Numbers],
                  excused : BOOLEAN]

Nothing == [i \in Items |-> 0]
NoRequest == [pc |-> "idle", empty |-> FALSE, failed |-> FALSE]

TelemetryInit ==
    /\ kind \in Kinds
    /\ source = [i \in Items |-> <<>>]
    /\ cache = Nothing /\ lagged = {}
    /\ stage = "fetch" /\ got = Nothing /\ behind = FALSE
    /\ req = NoRequest
    /\ shown = [ok |-> FALSE, cached |-> FALSE, rows |-> Nothing,
                excused |-> TRUE]

-----------------------------------------------------------------------------
(* The chain: an item is listed, changes, or is not listed any more.       *)
Change(i) ==
    /\ Newest(i) < MaxUpdates
    /\ \E there \in BOOLEAN :
         /\ IF kind \in {"tokenomics", "network"} THEN i = One /\ there
            ELSE Listing[i] # 0 \/ there
         /\ source' = [source EXCEPT ![i] = Append(@, there)]
    /\ UNCHANGED <<kind, stored, collector, req, shown>>

-----------------------------------------------------------------------------
(* The collector: a round at the start, and one at every tick.             *)

Due ==
    /\ stage = "idle" /\ stage' = "fetch"
    /\ UNCHANGED <<kind, source, stored, got, behind, req, shown>>

(* The answer of the node. *)
Told(listing) ==
    /\ stage = "fetch" /\ stage' = "store"
    /\ got' = listing
    /\ behind' = (listing # Listing)
    /\ UNCHANGED <<kind, source, stored, req, shown>>

Ask == Told(Listing)

(* The node is behind the chain: of each item, what it says was so at some *)
(* earlier time.                                                           *)
Earlier(k) ==
    /\ \A i \in Items : k[i] <= Newest(i)
    /\ ListingAt(k) # Listing

AskBehind(k) == Earlier(k) /\ Told(ListingAt(k))

(* The round is given up with a warning. *)
AskFails ==
    /\ stage = "fetch" /\ stage' = "idle"
    /\ UNCHANGED <<kind, source, stored, got, behind, req, shown>>

(* Mutant: INSERT OR IGNORE. *)
StoreOnce(i) ==
    /\ stage = "store" /\ got[i] # 0
    /\ cache' = IF cache[i] = 0 THEN [cache EXCEPT ![i] = got[i]] ELSE cache
    /\ lagged' = IF behind THEN lagged \cup {i} ELSE lagged \ {i}
    /\ got' = [got EXCEPT ![i] = 0]
    /\ UNCHANGED <<kind, source, stage, behind, req, shown>>

(* Mutant: ON CONFLICT, the old value is added to the new one. *)
RowAdded(i) == cache[i] + got[i]

(* The rows of the network are for different heights; all others replace.  *)
Row(i) ==
    IF kind = "network" /\ cache[i] > got[i] THEN cache[i] ELSE got[i]

(* INSERT OR REPLACE.  Rows of what is not listed any more stay. *)
Store(i) ==
    /\ stage = "store" /\ got[i] # 0
    /\ cache' = [cache EXCEPT ![i] = Row(i)]
    /\ lagged' = IF behind THEN lagged \cup {i} ELSE lagged \ {i}
    /\ got' = [got EXCEPT ![i] = 0]
    /\ UNCHANGED <<kind, source, stage, behind, req, shown>>

StoreFails(i) ==
    /\ stage = "store" /\ got[i] # 0
    /\ got' = [got EXCEPT ![i] = 0]
    /\ UNCHANGED <<kind, source, stored, stage, behind, req, shown>>

Collected ==
    /\ stage = "store" /\ got = Nothing /\ stage' = "idle"
    /\ behind' = FALSE
    /\ UNCHANGED <<kind, source, stored, got, req, shown>>

-----------------------------------------------------------------------------
(* The handler. *)

Request ==
    /\ req.pc = "idle"
    /\ req' = [pc |-> IF kind = "validators" THEN "live" ELSE "cache",
               empty |-> CachedRows = {}, failed |-> FALSE]
    /\ UNCHANGED <<kind, source, stored, collector, shown>>

(* An answer of status 200, and of status 503.  An error is excused when   *)
(* the table had nothing to offer.                                         *)
Answer(cached, rows) ==
    /\ shown' = [ok |-> TRUE, cached |-> cached, rows |-> rows,
                 excused |-> TRUE]
    /\ req' = NoRequest
    /\ UNCHANGED <<kind, source, stored, collector>>

Unavailable(failed) ==
    /\ shown' = [ok |-> FALSE, cached |-> FALSE, rows |-> Nothing,
                 excused |-> req.empty \/ failed]
    /\ req' = NoRequest
    /\ UNCHANGED <<kind, source, stored, collector>>

GoOn(to, failed) ==
    /\ req' = [req EXCEPT !.pc = to, !.failed = failed]
    /\ UNCHANGED <<kind, source, stored, collector, shown>>

Live ==
    /\ req.pc = "live"
    /\ Answer(FALSE, Listing)

(* The same node, asked by the handler while it is behind. *)
LiveBehind(k) ==
    /\ req.pc = "live"
    /\ Earlier(k) /\ Answer(FALSE, ListingAt(k))

(* Mutant: an error of the chain is an error of the handler. *)
LiveFailsEnds ==
    /\ req.pc = "live"
    /\ Unavailable(req.failed)

(* The chain does not answer in time: HandleValidators turns to the table; *)
(* HandleBridge has been there.                                            *)
LiveFails ==
    /\ req.pc = "live"
    /\ IF kind = "validators" THEN GoOn("cache", FALSE)
       ELSE Unavailable(req.failed)

(* Mutant: the cached rows are not marked. *)
CachedUnmarked ==
    /\ req.pc = "cache"
    /\ IF CachedRows # {} \/ kind \in {"validators", "network"}
       THEN Answer(FALSE, cache)
       ELSE IF kind = "bridge" THEN GoOn("live", FALSE)
       ELSE Unavailable(FALSE)

(* HandleValidators and HandleNetwork answer with the table even if it is  *)
(* empty, which sends HandleBridge to the chain and HandleTokenomics to an *)
(* error.                                                                  *)
Cached ==
    /\ req.pc = "cache"
    /\ IF CachedRows # {} \/ kind \in {"validators", "network"}
       THEN Answer(TRUE, cache)
       ELSE IF kind = "bridge" THEN GoOn("live", FALSE)
       ELSE Unavailable(FALSE)

(* The query fails, or its iteration ends with an error.  HandleNetwork    *)
(* then answers with the rows it had read, of which the highest came first:*)
(* if there are none, that shows no more than an error would.              *)
CachedFails ==
    /\ req.pc = "cache"
    /\ CASE kind = "bridge" -> GoOn("live", TRUE)
         [] kind = "network" -> Answer(TRUE, cache) \/ Unavailable(TRUE)
         [] OTHER -> Unavailable(TRUE)

-----------------------------------------------------------------------------
AskAnyBehind == \E k \in [Items -> Numbers] : AskBehind(k)
LiveAnyBehind == \E k \in [Items -> Numbers] : LiveBehind(k)

Collect ==
    \/ Ask \/ AskAnyBehind \/ AskFails \/ Collected
    \/ \E i \in Items : Store(i) \/ StoreFails(i)

Handle == Live \/ LiveAnyBehind \/ LiveFails \/ Cached \/ CachedFails

TelemetryNext ==
    \/ \E i \in Items : Change(i)
    \/ Due \/ Collect
    \/ Request \/ Handle

(* Fairness: the ticker ticks, the collector and the handler run, requests *)
(* return at their timeouts, and neither the chain, in an answer that can  *)
(* be decoded, nor the inserts of what it says now fail for ever.  Nobody  *)
(* has to ask.                                                             *)
TelemetryFairness ==
    /\ WF_telemetryVars(Due) /\ WF_telemetryVars(Collect)
    /\ WF_telemetryVars(Handle) /\ SF_telemetryVars(Ask)
    /\ \A i \in Items : SF_telemetryVars(got[i] = Newest(i) /\ Store(i))

TelemetrySpec ==
    TelemetryInit /\ [][TelemetryNext]_telemetryVars /\ TelemetryFairness

-----------------------------------------------------------------------------
(* What a browser is shown of an item goes back in time, from one answer   *)
(* to the next, only if the new answer says that it is cached and the old  *)
(* one was live, or if the new value is what a node that was behind told   *)
(* the handler, or the collector in the round that wrote the row: never    *)
(* for what failed in between, and of the network, whose rows are of       *)
(* different heights, however far behind the node was.                     *)
AnswersAdvance ==
    [][shown.ok /\ shown'.ok /\ (shown'.cached => shown.cached) =>
         \A i \in Items :
             shown'.rows[i] # 0 /\ shown'.rows[i] < shown.rows[i] =>
                 /\ kind # "network"
                 /\ IF shown'.cached THEN i \in lagged ELSE LiveAnyBehind]_shown

(* Once the table has had a row, no handler answers with an error, whether *)
(* the chain can be reached or not, unless its query failed.               *)
OnceCollectedAnswered == ~shown.ok => shown.excused

(* From some time on the node is not behind when it is asked: not by the   *)
(* collector, and not by a handler.                                        *)
NodeCatchesUp ==
    /\ <>[]~behind
    /\ <>[][shown'.ok /\ ~shown'.cached => shown'.rows = Listing]_shown

(* An item that stays as it is on the chain is shown so in every answer    *)
(* from some time on, from whatever source, although rounds and inserts    *)
(* fail and are not repeated before the next tick, and although the node   *)
(* was behind before.                                                      *)
AnswersCatchUp ==
    \A i \in Items :
        NodeCatchesUp /\ <>[](Listing[i] # 0) /\ <>[][UNCHANGED source[i]]_source
            => <>[][shown'.ok => shown'.rows[i] = Listing[i]]_shown

=============================================================================
