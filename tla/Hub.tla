-------------------------------- MODULE Hub --------------------------------
(***************************************************************************)
(* The WebSocket hub of the dashboard (internal/dashboard/websocket.go).   *)
(*                                                                         *)
(* Each connection has the goroutine of its HTTP handler, which registers  *)
(* the client, sits in readPump, waits for the write pump and unregisters; *)
(* and the goroutine of writePump, which moves messages from the client's  *)
(* channel to the connection.  Broadcasters hold the hub's RWMutex for     *)
(* reading while they offer a message to every registered client.          *)
(* A client here is one connection: a browser that reconnects is another.  *)
(***************************************************************************)
EXTENDS Naturals, Sequences

CONSTANTS
    Clients,       \* connections
    Broadcasters,  \* goroutines that call Broadcast
    BufSize,       \* capacity of a client's send channel (64 in the code)
    MaxMsgs        \* bound: messages each broadcaster sends

ASSUME BufSizeAssumption == BufSize \in Nat
ASSUME MaxMsgsAssumption == MaxMsgs \in Nat

VARIABLES
    clients,   \* Hub.clients, the keys of the map
    handler,   \* where the goroutine of HandleWS is
    pump,      \* where the goroutine of writePump is
    inflight,  \* the local variable msg of writePump
    send,      \* the buffered contents of wsClient.send
    closed,    \* has wsClient.send been closed?
    conn,      \* our end of the connection: is it open?
    peer,      \* the other end: "up", "slow" (not draining) or "gone"
    sending,   \* is the broadcaster inside Broadcast?
    todo,      \* the clients its range loop has not visited yet
    sent,      \* how many messages each broadcaster has begun to send
    got        \* history: got[c][b], the last message of b that c received,
               \* or the last one begun before c was registered

connVars  == <<conn, peer>>
castVars  == <<sending, todo, sent>>
vars == <<clients, handler, pump, inflight, send, closed, conn, peer,
          sending, todo, sent, got>>

Messages == [from : Broadcasters, n : 1..MaxMsgs]
Ping == [ping |-> TRUE]

Handlers == {"none", "register", "reading", "join", "unregister", "gone"}
Pumps == {"none", "select", "writing", "done"}

TypeOK ==
    /\ clients \subseteq Clients
    /\ handler \in [Clients -> Handlers]
    /\ pump \in [Clients -> Pumps]
    /\ inflight \in [Clients -> Messages \cup {Ping}]
    /\ send \in [Clients -> Seq(Messages)]
    /\ \A c \in Clients : Len(send[c]) <= BufSize
    /\ closed \in [Clients -> BOOLEAN]
    /\ conn \in [Clients -> {"open", "closed"}]
    /\ peer \in [Clients -> {"up", "slow", "gone"}]
    /\ sending \in [Broadcasters -> BOOLEAN]
    /\ todo \in [Broadcasters -> SUBSET Clients]
    /\ sent \in [Broadcasters -> 0..MaxMsgs]
    /\ got \in [Clients -> [Broadcasters -> 0..MaxMsgs]]

Init ==
    /\ clients = {}
    /\ handler = [c \in Clients |-> "none"]
    /\ pump = [c \in Clients |-> "none"]
    /\ inflight = [c \in Clients |-> Ping]
    /\ send = [c \in Clients |-> <<>>]
    /\ closed = [c \in Clients |-> FALSE]
    /\ conn = [c \in Clients |-> "open"]
    /\ peer = [c \in Clients |-> "up"]
    /\ sending = [b \in Broadcasters |-> FALSE]
    /\ todo = [b \in Broadcasters |-> {}]
    /\ sent = [b \in Broadcasters |-> 0]
    /\ got = [c \in Clients |-> [b \in Broadcasters |-> 0]]

-----------------------------------------------------------------------------
(* The RWMutex.  The writers' critical sections do not block, so each is   *)
(* one step; a writer that waits keeps new readers out, as in sync.RWMutex.*)

WriterWaits == \E c \in Clients : handler[c] \in {"register", "unregister"}
ReaderHolds == \E b \in Broadcasters : sending[b]

-----------------------------------------------------------------------------
(* The goroutine of HandleWS. *)

Step(c, from, to) == handler[c] = from /\ handler' = [handler EXCEPT ![c] = to]

Connect(c) ==
    /\ Step(c, "none", "register")
    /\ UNCHANGED <<clients, pump, inflight, send, closed, connVars, castVars,
                   got>>

(* register, then the start of the write pump. *)
Register(c) ==
    /\ ~ReaderHolds
    /\ Step(c, "register", "reading")
    /\ clients' = clients \cup {c}
    /\ pump' = [pump EXCEPT ![c] = "select"]
    /\ got' = IF peer[c] = "gone" THEN got ELSE [got EXCEPT ![c] = sent]
    /\ UNCHANGED <<inflight, send, closed, connVars, castVars>>

(* readPump: Receive fails once either end is closed; what the client      *)
(* sends is read and ignored, and is left out here.                        *)
ReadEnd(c) ==
    /\ peer[c] = "gone" \/ conn[c] = "closed"
    /\ Step(c, "reading", "join")
    /\ conn' = [conn EXCEPT ![c] = "closed"]
    /\ UNCHANGED <<clients, pump, inflight, send, closed, peer, castVars, got>>

(* Mutant: the handler does not wait for the write pump. *)
JoinAtOnce(c) ==
    /\ Step(c, "join", "unregister")
    /\ UNCHANGED <<clients, pump, inflight, send, closed, connVars, castVars,
                   got>>

(* <-done *)
Join(c) ==
    /\ pump[c] = "done"
    /\ Step(c, "join", "unregister")
    /\ UNCHANGED <<clients, pump, inflight, send, closed, connVars, castVars,
                   got>>

(* Mutant: unregister without the lock. *)
UnregisterUnlocked(c) ==
    /\ Step(c, "unregister", "gone")
    /\ clients' = clients \ {c}
    /\ closed' = [closed EXCEPT ![c] = TRUE]
    /\ UNCHANGED <<pump, inflight, send, connVars, castVars, got>>

Unregister(c) ==
    /\ ~ReaderHolds
    /\ Step(c, "unregister", "gone")
    /\ clients' = clients \ {c}
    /\ closed' = [closed EXCEPT ![c] = TRUE]
    /\ UNCHANGED <<pump, inflight, send, connVars, castVars, got>>

-----------------------------------------------------------------------------
(* The goroutine of writePump.  Its branch for a closed channel is not     *)
(* here: ClosedOnlyAfterPump shows that it is never taken.                 *)

(* Mutant: the newest buffered message first. *)
TakeNewest(c) ==
    /\ pump[c] = "select" /\ send[c] # <<>>
    /\ pump' = [pump EXCEPT ![c] = "writing"]
    /\ inflight' = [inflight EXCEPT ![c] = send[c][Len(send[c])]]
    /\ send' = [send EXCEPT ![c] = SubSeq(@, 1, Len(@) - 1)]
    /\ UNCHANGED <<clients, handler, closed, connVars, castVars, got>>

Take(c) ==
    /\ pump[c] = "select" /\ send[c] # <<>>
    /\ pump' = [pump EXCEPT ![c] = "writing"]
    /\ inflight' = [inflight EXCEPT ![c] = Head(send[c])]
    /\ send' = [send EXCEPT ![c] = Tail(send[c])]
    /\ UNCHANGED <<clients, handler, closed, connVars, castVars, got>>

(* Mutant: no ping ticker. *)
NoPing(c) == pump[c] = "select" /\ UNCHANGED vars

(* The ping ticker has fired. *)
PingDue(c) ==
    /\ pump[c] = "select"
    /\ pump' = [pump EXCEPT ![c] = "writing"]
    /\ inflight' = [inflight EXCEPT ![c] = Ping]
    /\ UNCHANGED <<clients, handler, send, closed, connVars, castVars, got>>

Received(c) ==
    IF inflight[c] = Ping THEN got
    ELSE [got EXCEPT ![c] = [@ EXCEPT ![inflight[c].from] = inflight[c].n]]

(* Mutant: the pump returns after one message. *)
WriteOkReturns(c) ==
    /\ pump[c] = "writing" /\ conn[c] = "open" /\ peer[c] # "slow"
    /\ pump' = [pump EXCEPT ![c] = "done"]
    /\ got' = IF peer[c] = "up" THEN Received(c) ELSE got
    /\ UNCHANGED <<clients, handler, inflight, send, closed, connVars, castVars>>

(* Write returns; what a peer that is gone would get is lost. *)
WriteOk(c) ==
    /\ pump[c] = "writing" /\ conn[c] = "open" /\ peer[c] # "slow"
    /\ pump' = [pump EXCEPT ![c] = "select"]
    /\ got' = IF peer[c] = "up" THEN Received(c) ELSE got
    /\ UNCHANGED <<clients, handler, inflight, send, closed, connVars, castVars>>

(* Write fails: on a closed connection, or at the 10 s write deadline.     *)
(* The pump returns and closes the connection.                             *)
WriteFail(c) ==
    /\ pump[c] = "writing"
    /\ conn[c] = "closed" \/ peer[c] # "up"
    /\ pump' = [pump EXCEPT ![c] = "done"]
    /\ conn' = [conn EXCEPT ![c] = "closed"]
    /\ UNCHANGED <<clients, handler, inflight, send, closed, peer, castVars, got>>

-----------------------------------------------------------------------------
(* The browser. *)

PeerBecomes(c, from, to) ==
    /\ handler[c] # "none"
    /\ peer[c] \in from
    /\ peer' = [peer EXCEPT ![c] = to]
    /\ UNCHANGED <<clients, handler, pump, inflight, send, closed, conn,
                   castVars, got>>

Stall(c)  == PeerBecomes(c, {"up"}, "slow")
Resume(c) == PeerBecomes(c, {"slow"}, "up")
Depart(c) == PeerBecomes(c, {"up", "slow"}, "gone")

-----------------------------------------------------------------------------
(* Broadcast. *)

(* RLock, and the beginning of the range loop over the map. *)
Begin(b) ==
    /\ ~sending[b] /\ sent[b] < MaxMsgs
    /\ ~WriterWaits
    /\ sending' = [sending EXCEPT ![b] = TRUE]
    /\ todo' = [todo EXCEPT ![b] = clients]
    /\ sent' = [sent EXCEPT ![b] = @ + 1]
    /\ UNCHANGED <<clients, handler, pump, inflight, send, closed, connVars, got>>

(* Mutant: a send that blocks while the buffer is full. *)
OfferBlocking(b, c) ==
    /\ sending[b] /\ c \in todo[b]
    /\ Len(send[c]) < BufSize
    /\ todo' = [todo EXCEPT ![b] = @ \ {c}]
    /\ send' = [send EXCEPT ![c] = Append(@, [from |-> b, n |-> sent[b]])]
    /\ UNCHANGED <<clients, handler, pump, inflight, closed, connVars, sending,
                   sent, got>>

(* One iteration: a send that does not block; with a full buffer the       *)
(* message is dropped.                                                     *)
Offer(b, c) ==
    /\ sending[b] /\ c \in todo[b]
    /\ todo' = [todo EXCEPT ![b] = @ \ {c}]
    /\ send' = IF Len(send[c]) < BufSize
               THEN [send EXCEPT ![c] = Append(@, [from |-> b, n |-> sent[b]])]
               ELSE send
    /\ UNCHANGED <<clients, handler, pump, inflight, closed, connVars, sending,
                   sent, got>>

(* RUnlock *)
Finish(b) ==
    /\ sending[b] /\ todo[b] = {}
    /\ sending' = [sending EXCEPT ![b] = FALSE]
    /\ UNCHANGED <<clients, handler, pump, inflight, send, closed, connVars,
                   todo, sent, got>>

-----------------------------------------------------------------------------
OfferAny(b) == \E c \in Clients : Offer(b, c)

Handle(c) == Register(c) \/ ReadEnd(c) \/ Join(c) \/ Unregister(c)
Write(c) == WriteOk(c) \/ WriteFail(c)

Next ==
    \/ \E c \in Clients : Connect(c) \/ Handle(c) \/ Take(c) \/ PingDue(c)
                            \/ Write(c) \/ Stall(c) \/ Resume(c) \/ Depart(c)
    \/ \E b \in Broadcasters : Begin(b) \/ OfferAny(b) \/ Finish(b)

(* Fairness: every goroutine runs, the ping ticker fires, the 10 s write   *)
(* deadline ends a write, and a select that finds its channel readable     *)
(* again and again takes from it (SF: Go picks among ready cases).         *)
(* Nobody has to connect, depart or broadcast.                             *)
Fairness ==
    /\ \A c \in Clients : /\ WF_vars(Handle(c))
                          /\ WF_vars(Write(c))
                          /\ WF_vars(Take(c) \/ PingDue(c))
                          /\ SF_vars(Take(c))
    /\ \A b \in Broadcasters : WF_vars(OfferAny(b)) /\ WF_vars(Finish(b))

Spec == Init /\ [][Next]_vars
FairSpec == Spec /\ Fairness

-----------------------------------------------------------------------------
(* Safety. *)

(* No broadcaster is about to send on a closed channel, which would panic  *)
(* and take the process down: unregister closes under the write lock, and  *)
(* a broadcaster only sends to clients it found registered under its own.  *)
NoSendOnClosed ==
    \A b \in Broadcasters : \A c \in todo[b] : c \in clients /\ ~closed[c]

(* A send channel is closed only after its write pump has returned, so the *)
(* pump never reads the zero message of a closed channel.                  *)
ClosedOnlyAfterPump ==
    \A c \in Clients : closed[c] => pump[c] = "done" /\ conn[c] = "closed"

(* The handler does not return while the pump may still use the client.    *)
PumpsBelongToHandlers ==
    \A c \in Clients :
        pump[c] \in {"select", "writing"} =>
            c \in clients /\ handler[c] \in {"reading", "join"}

(* What a client gets is a lossy feed: nothing from before it registered,  *)
(* each broadcaster's messages in order, none twice.                       *)
Member(c) ==
    IF peer[c] = "gone" \/ conn[c] = "closed" THEN "left"
    ELSE IF handler[c] \in {"none", "register"} THEN "out" ELSE "in"

Feed == INSTANCE LossyFeed WITH
            Publishers <- Broadcasters,
            last <- got,
            member <- [c \in Clients |-> Member(c)]

ImplementsLossyFeed == Feed!Spec

-----------------------------------------------------------------------------
(* Liveness. *)

(* A slow, stalled or departed client does not hold up Broadcast. *)
BroadcastsFinish == \A b \in Broadcasters : sending[b] ~> ~sending[b]

(* A connection whose peer has gone is unregistered in the end, even if    *)
(* nothing is ever broadcast again: the ping finds the connection closed.  *)
DepartedAreUnregistered ==
    \A c \in Clients : peer[c] = "gone" ~> handler[c] = "gone"

(* A message accepted into the buffer of a client that keeps up reaches it.*)
Pending(c, b, n) == \E i \in 1..Len(send[c]) : send[c][i] = [from |-> b, n |-> n]

BufferedIsDelivered ==
    \A c \in Clients, b \in Broadcasters, n \in 1..MaxMsgs :
        Pending(c, b, n) ~>
            (got[c][b] >= n \/ peer[c] # "up" \/ conn[c] = "closed")

=============================================================================
