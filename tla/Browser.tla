------------------------------- MODULE Browser -------------------------------
(***************************************************************************)
(* The page of the dashboard (web/js/app.js) in one browser tab: its       *)
(* WebSocket with the reconnect timer, the lists it fills from what is     *)
(* pushed, and the requests it makes when the operator opens a page.  One  *)
(* event at a time; between the awaits of a request others happen.         *)
(*                                                                         *)
(* The server is the environment: it comes and goes, and to each open      *)
(* socket it is the lossy feed that Hub implements.  Of the data a page    *)
(* asks for, status stands for all: each is asked for, awaited, and        *)
(* assigned when the answer is ok.  /api/headers/recent has no route, so   *)
(* what the code does when that answer is ok is never done.                *)
(***************************************************************************)
EXTENDS Naturals, SequencesExt

CONSTANTS
    Sockets,     \* WebSocket objects; one that is closed is reused
    Fetches,     \* bound: runs of fetchOverview under way at a time
    Values,      \* what /api/status may answer
    Null,        \* status before the first answer
    MaxHeaders,  \* length of recentHeaders (50)
    MaxPoints,   \* length of chartData (60)
    MaxSent,     \* bound: headers broadcast
    MaxInbox     \* bound: messages under way to a socket

ASSUME LengthsAssumption ==
    /\ MaxHeaders \in Nat \ {0} /\ MaxPoints \in Nat \ {0} /\ MaxHeaders <= MaxPoints
    /\ MaxSent \in Nat /\ MaxInbox \in Nat
ASSUME NullAssumption == Null \notin Values /\ Sockets # {}

VARIABLES
    up,             \* does the server accept and answer?
    current,        \* what it answers to /api/status
    sent,           \* headers it has broadcast
    blocked,        \* does the browser refuse to construct a WebSocket?
    conn,           \* readyState of each socket
    inbox,          \* messages under way to each socket
    ws,             \* this.ws
    timers,         \* timeouts that will call connectWS
    wsConnected,
    status,
    recentHeaders,  \* newest first
    chart,          \* chartData.heights, newest last
    fetch           \* where each run of fetchOverview is

server == <<up, current, sent, blocked>>
socket == <<conn, inbox, ws, timers, wsConnected>>
shown == <<status, recentHeaders, chart>>
vars == <<server, socket, shown, fetch>>

Header(n) == [type |-> "header", data |-> n]
Status(v) == [type |-> "status", data |-> v]
Messages == {Header(n) : n \in 1..MaxSent} \cup {Status(v) : v \in Values}

(* A run of fetchOverview: its two requests, each settled or not, and the  *)
(* answer to the first if it is ok.                                        *)
Idle == [pc |-> "idle", status |-> Null, settled |-> {}]
Runs == [pc : {"idle", "asked"}, status : Values \cup {Null},
         settled : SUBSET {"status", "headers"}]

TypeOK ==
    /\ up \in BOOLEAN /\ current \in Values /\ sent \in 0..MaxSent
    /\ blocked \in BOOLEAN
    /\ conn \in [Sockets -> {"free", "connecting", "open", "lost", "closing"}]
    /\ inbox \in [Sockets -> Seq(Messages)]
    /\ ws \in Sockets /\ timers \in Nat /\ wsConnected \in BOOLEAN
    /\ status \in Values \cup {Null}
    /\ recentHeaders \in Seq(1..MaxSent) /\ Len(recentHeaders) <= MaxHeaders
    /\ chart \in Seq(1..MaxSent) /\ Len(chart) <= MaxPoints
    /\ fetch \in [Fetches -> Runs]

Asked == [Idle EXCEPT !.pc = "asked"]

Live == {s \in Sockets : conn[s] # "free"}

(* After init, which calls connectWS and opens the overview. *)
Init ==
    /\ up = TRUE /\ current \in Values /\ sent = 0
    /\ blocked \in BOOLEAN
    /\ ws \in Sockets
    /\ conn = [s \in Sockets |->
                 IF s = ws /\ ~blocked THEN "connecting" ELSE "free"]
    /\ timers = IF blocked THEN 1 ELSE 0
    /\ inbox = [s \in Sockets |-> <<>>]
    /\ wsConnected = FALSE
    /\ status = Null /\ recentHeaders = <<>> /\ chart = <<>>
    /\ \E f \in Fetches :
         fetch = [g \in Fetches |-> IF g = f THEN Asked ELSE Idle]

-----------------------------------------------------------------------------
(* The server. *)

(* Its sockets are lost with it; the messages that had arrived are not. *)
Down ==
    /\ up /\ up' = FALSE
    /\ conn' = [s \in Sockets |-> IF conn[s] = "open" THEN "lost" ELSE conn[s]]
    /\ UNCHANGED <<current, sent, blocked, inbox, ws, timers, wsConnected, shown, fetch>>

Up ==
    /\ ~up /\ up' = TRUE
    /\ UNCHANGED <<current, sent, blocked, socket, shown, fetch>>

StatusChanges ==
    /\ current' \in Values \ {current}
    /\ UNCHANGED <<up, sent, blocked, socket, shown, fetch>>

(* Hub.Broadcast: each open socket gets the message or, when its buffer is *)
(* full, does not.                                                         *)
Send(m) ==
    /\ up
    /\ \E S \in SUBSET {s \in Sockets : conn[s] = "open" /\ Len(inbox[s]) < MaxInbox} :
         inbox' = [s \in Sockets |-> inbox[s] \o IF s \in S THEN <<m>> ELSE <<>>]
    /\ UNCHANGED <<up, current, blocked, conn, ws, timers, wsConnected, shown, fetch>>

SendHeader == sent < MaxSent /\ sent' = sent + 1 /\ Send(Header(sent + 1))
SendStatus == sent' = sent /\ Send(Status(current))

-----------------------------------------------------------------------------
(* connectWS and the events of a socket. *)

(* connectWS, when t timeouts are pending: new WebSocket(url) throws, and  *)
(* it is tried again later, or there is one more socket.                   *)
ConnectWS(t) ==
    \/ /\ blocked
       /\ timers' = t + 1
       /\ UNCHANGED <<conn, inbox, ws>>
    \/ /\ ~blocked
       /\ timers' = t
       /\ ws' \in Sockets \ Live
       /\ conn' = [conn EXCEPT ![ws'] = "connecting"]
       /\ inbox' = [inbox EXCEPT ![ws'] = <<>>]

(* The timeout of scheduleReconnect. *)
Reconnect ==
    /\ timers > 0 /\ ConnectWS(timers - 1)
    /\ UNCHANGED <<server, wsConnected, shown, fetch>>

OnOpen(s) ==
    /\ up /\ conn[s] = "connecting"
    /\ conn' = [conn EXCEPT ![s] = "open"]
    /\ wsConnected' = TRUE
    /\ UNCHANGED <<server, inbox, ws, timers, shown, fetch>>

(* Closes this.ws, which need not be the socket the event is of. *)
CloseThis(s) ==
    [conn EXCEPT ![ws] = IF @ \in {"free", "lost"} THEN @ ELSE "closing",
                 ![s] = "free"]

(* Mutant: onerror schedules a reconnect of its own. *)
OnCloseTwice(s, failed) ==
    /\ \/ conn[s] = "connecting" /\ ~up /\ failed
       \/ conn[s] \in {"lost", "closing"} /\ inbox[s] = <<>>
    /\ conn' = IF failed THEN CloseThis(s) ELSE [conn EXCEPT ![s] = "free"]
    /\ wsConnected' = FALSE
    /\ timers' = timers + IF failed THEN 2 ELSE 1
    /\ UNCHANGED <<server, inbox, ws, shown, fetch>>

(* Mutant: only a socket that was open is connected again. *)
OnCloseConnected(s, failed) ==
    /\ \/ conn[s] = "connecting" /\ ~up /\ failed
       \/ conn[s] \in {"lost", "closing"} /\ inbox[s] = <<>>
    /\ conn' = IF failed THEN CloseThis(s) ELSE [conn EXCEPT ![s] = "free"]
    /\ wsConnected' = FALSE
    /\ timers' = timers + IF wsConnected THEN 1 ELSE 0
    /\ UNCHANGED <<server, inbox, ws, shown, fetch>>

(* The end of a socket, after the messages that had arrived: onerror, if   *)
(* it failed, and onclose.                                                 *)
OnClose(s, failed) ==
    /\ \/ conn[s] = "connecting" /\ ~up /\ failed
       \/ conn[s] \in {"lost", "closing"} /\ inbox[s] = <<>>
    /\ conn' = IF failed THEN CloseThis(s) ELSE [conn EXCEPT ![s] = "free"]
    /\ wsConnected' = FALSE
    /\ timers' = timers + 1
    /\ UNCHANGED <<server, inbox, ws, shown, fetch>>

(* Mutant: the newest point goes when there are too many. *)
PushPointPop(n) ==
    chart' = IF Len(chart) < MaxPoints THEN Append(chart, n) ELSE chart

(* pushChartPoint: push and, if there are too many, shift. *)
PushPoint(n) ==
    chart' = Append(IF Len(chart) < MaxPoints THEN chart ELSE Tail(chart), n)

(* handleWSMessage of a header: unshift and, if there are too many, pop. *)
PushHeader(n) ==
    /\ recentHeaders' = IF Len(recentHeaders) < MaxHeaders
                        THEN <<n>> \o recentHeaders
                        ELSE <<n>> \o Front(recentHeaders)
    /\ PushPoint(n)

(* Messages that come while the socket is closing are dropped. *)
OnMessage(s) ==
    /\ conn[s] \in {"open", "lost", "closing"} /\ inbox[s] # <<>>
    /\ inbox' = [inbox EXCEPT ![s] = Tail(@)]
    /\ LET m == Head(inbox[s])
       IN  IF conn[s] = "closing" THEN UNCHANGED shown
           ELSE IF m.type = "header" THEN PushHeader(m.data) /\ UNCHANGED status
           ELSE status' = m.data /\ UNCHANGED <<recentHeaders, chart>>
    /\ UNCHANGED <<server, conn, ws, timers, wsConnected, fetch>>

-----------------------------------------------------------------------------
(* navigate and fetchOverview. *)

(* Mutant: a page that is opened connects again. *)
NavigateConnects(f) ==
    /\ fetch[f] = Idle
    /\ fetch' = [fetch EXCEPT ![f] = Asked]
    /\ ConnectWS(timers)
    /\ UNCHANGED <<server, wsConnected, shown>>

(* Nothing stops a run that an earlier click began. *)
Navigate(f) ==
    /\ fetch[f] = Idle
    /\ fetch' = [fetch EXCEPT ![f] = Asked]
    /\ UNCHANGED <<server, socket, shown>>

(* One of its requests is answered or, without a server, fails. *)
Settle(f, r) ==
    /\ fetch[f].pc = "asked" /\ r \notin fetch[f].settled
    /\ fetch' = [fetch EXCEPT
                   ![f].settled = @ \cup {r},
                   ![f].status = IF r = "status" /\ up THEN current ELSE @]
    /\ UNCHANGED <<server, socket, shown>>

(* Mutant: nothing is shown unless both answers are ok. *)
ShowBoth(f) ==
    /\ fetch[f].settled = {"status", "headers"}
    /\ fetch' = [fetch EXCEPT ![f] = Idle]
    /\ UNCHANGED <<server, socket, shown>>

(* Promise.allSettled goes on when both have settled. *)
Show(f) ==
    /\ fetch[f].settled = {"status", "headers"}
    /\ status' = IF fetch[f].status # Null THEN fetch[f].status ELSE status
    /\ fetch' = [fetch EXCEPT ![f] = Idle]
    /\ UNCHANGED <<server, socket, recentHeaders, chart>>

-----------------------------------------------------------------------------
OnEvent(s) == OnOpen(s) \/ OnMessage(s) \/ \E failed \in BOOLEAN : OnClose(s, failed)

Await(f) == Show(f) \/ \E r \in {"status", "headers"} : Settle(f, r)

Next ==
    \/ Down \/ Up \/ StatusChanges \/ SendHeader \/ SendStatus
    \/ Reconnect
    \/ \E s \in Sockets : OnEvent(s)
    \/ \E f \in Fetches : Navigate(f) \/ Await(f)

(* Fairness: timeouts fire, events are delivered, and requests settle, if  *)
(* only by failing.                                                        *)
Fairness ==
    /\ WF_vars(Reconnect)
    /\ \A s \in Sockets : WF_vars(OnEvent(s))
    /\ \A f \in Fetches : WF_vars(Await(f))

Spec == Init /\ [][Next]_vars
FairSpec == Spec /\ Fairness

-----------------------------------------------------------------------------
(* The tab never has two connections, nor two timeouts that would make     *)
(* two: whatever fails, throws or closes, one of onclose and the catch     *)
(* schedules one reconnect.  And what the page says of the connection is   *)
(* said of the socket it has, so that onerror closes that one.             *)
OneLifeline ==
    /\ \/ Live = {ws} /\ timers = 0
       \/ Live = {} /\ timers = 1
    /\ wsConnected => conn[ws] \in {"open", "lost"}

(* The list of recent headers is in the order of the chain and has no      *)
(* header twice, over any number of reconnects.                            *)
HeadersInOrder ==
    \A i, j \in 1..Len(recentHeaders) :
        i < j => recentHeaders[i] > recentHeaders[j]

(* The list and the chart, each with a limit of its own, show the same     *)
(* headers: the list is the newest part of the chart.                      *)
ChartFollowsHeaders == IsPrefix(recentHeaders, Reverse(chart))

(* When the server stays up, the page is connected in the end and stays so.*)
Reconnects == ~blocked => (<>[]up => <>[]wsConnected)

(* An operator who goes on opening the page sees a status that stays, in   *)
(* whatever order answers and pushes of older ones arrive.                 *)
StatusCatchesUp ==
    \A v \in Values :
        <>[](up /\ current = v) /\ []<><<\E f \in Fetches : Navigate(f)>>_vars
            => <>[](status = v)

=============================================================================
