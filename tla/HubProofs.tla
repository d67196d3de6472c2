----------------------------- MODULE HubProofs ------------------------------
(***************************************************************************)
(* Theorems about Hub, for any number of connections and broadcasters, any *)
(* buffer and any number of messages: that no broadcaster sends on a       *)
(* closed channel, and that what a browser gets is a lossy feed.           *)
(***************************************************************************)
EXTENDS Hub, TLAPS

(* Every action, without quantifiers nested in disjunctions. *)
LEMMA NextActions ==
    ASSUME Next
    PROVE  \/ \E c \in Clients : Connect(c)
           \/ \E c \in Clients : Register(c)
           \/ \E c \in Clients : ReadEnd(c)
           \/ \E c \in Clients : Join(c)
           \/ \E c \in Clients : Unregister(c)
           \/ \E c \in Clients : Take(c)
           \/ \E c \in Clients : PingDue(c)
           \/ \E c \in Clients : WriteOk(c)
           \/ \E c \in Clients : WriteFail(c)
           \/ \E c \in Clients : Stall(c) \/ Resume(c) \/ Depart(c)
           \/ \E b \in Broadcasters : Begin(b)
           \/ \E b \in Broadcasters : \E c \in Clients : Offer(b, c)
           \/ \E b \in Broadcasters : Finish(b)
BY DEF Next, Handle, Write, OfferAny

-----------------------------------------------------------------------------
(* A broadcaster inside Broadcast has a message to send. *)
Begun == \A b \in Broadcasters : sending[b] => sent[b] # 0

TypeInv == TypeOK /\ Begun

LEMMA TypeInit == Init => TypeInv
BY BufSizeAssumption, MaxMsgsAssumption
   DEF Init, TypeInv, Begun, TypeOK, Handlers, Pumps

(* What a pump has in flight while it writes is a message or a ping. *)
LEMMA ReceivedType ==
    ASSUME TypeOK, NEW c \in Clients
    PROVE  Received(c) \in [Clients -> [Broadcasters -> 0..MaxMsgs]]
<1>1. CASE inflight[c] = Ping
  BY <1>1 DEF Received, TypeOK
<1>2. CASE inflight[c] # Ping
  <2>1. inflight[c] \in Messages
    BY <1>2 DEF TypeOK
  <2>2. inflight[c].from \in Broadcasters /\ inflight[c].n \in 0..MaxMsgs
    BY <2>1, MaxMsgsAssumption DEF Messages
  <2> QED
    BY <1>2, <2>2 DEF Received, TypeOK
<1> QED
  BY <1>1, <1>2

LEMMA TypeStep == TypeInv /\ [Next]_vars => TypeInv'
<1> SUFFICES ASSUME TypeInv, [Next]_vars PROVE TypeInv'
  OBVIOUS
<1> USE BufSizeAssumption, MaxMsgsAssumption
        DEF TypeInv, Begun, TypeOK, Handlers, Pumps, connVars, castVars, Step
<1>1. CASE \E c \in Clients : Connect(c)
  BY <1>1 DEF Connect
<1>2. CASE \E c \in Clients : Register(c)
  BY <1>2 DEF Register
<1>3. CASE \E c \in Clients : ReadEnd(c)
  BY <1>3 DEF ReadEnd
<1>4. CASE \E c \in Clients : Join(c)
  BY <1>4 DEF Join
<1>5. CASE \E c \in Clients : Unregister(c)
  BY <1>5 DEF Unregister
<1>6. CASE \E c \in Clients : Take(c)
  <2> PICK c \in Clients : Take(c)
    BY <1>6
  <2>1. Head(send[c]) \in Messages /\ Tail(send[c]) \in Seq(Messages)
        /\ Len(Tail(send[c])) = Len(send[c]) - 1
    BY DEF Take
  <2>2. inflight' \in [Clients -> Messages \cup {Ping}]
    BY <2>1 DEF Take
  <2>3. send' \in [Clients -> Seq(Messages)]
        /\ \A d \in Clients : Len(send'[d]) <= BufSize
    BY <2>1 DEF Take
  <2> QED
    BY <2>2, <2>3 DEF Take
<1>7. CASE \E c \in Clients : PingDue(c)
  BY <1>7 DEF PingDue
<1>8. CASE \E c \in Clients : WriteOk(c)
  <2> PICK c \in Clients : WriteOk(c)
    BY <1>8
  <2>1. got' \in [Clients -> [Broadcasters -> 0..MaxMsgs]]
    BY ReceivedType DEF WriteOk
  <2> QED
    BY <2>1 DEF WriteOk
<1>9. CASE \E c \in Clients : WriteFail(c)
  BY <1>9 DEF WriteFail
<1>10. CASE \E c \in Clients : Stall(c) \/ Resume(c) \/ Depart(c)
  <2> PICK c \in Clients : Stall(c) \/ Resume(c) \/ Depart(c)
    BY <1>10
  <2>1. PICK to \in {"up", "slow", "gone"} :
          peer' = [peer EXCEPT ![c] = to]
    BY DEF Stall, Resume, Depart, PeerBecomes
  <2>2. UNCHANGED <<clients, handler, pump, inflight, send, closed, conn,
                    castVars, got>>
    BY DEF Stall, Resume, Depart, PeerBecomes
  <2> QED
    BY <2>1, <2>2
<1>11. CASE \E b \in Broadcasters : Begin(b)
  BY <1>11 DEF Begin
<1>12. CASE \E b \in Broadcasters : \E c \in Clients : Offer(b, c)
  <2> PICK b \in Broadcasters, c \in Clients : Offer(b, c)
    BY <1>12
  <2>1. [from |-> b, n |-> sent[b]] \in Messages
    BY DEF Offer, Messages
  <2> QED
    BY <2>1 DEF Offer
<1>13. CASE \E b \in Broadcasters : Finish(b)
  BY <1>13 DEF Finish
<1>14. CASE UNCHANGED vars
  BY <1>14 DEF vars
<1> QED
  BY <1>1, <1>2, <1>3, <1>4, <1>5, <1>6, <1>7, <1>8, <1>9, <1>10, <1>11,
     <1>12, <1>13, <1>14, NextActions

(* The types are kept by every step of handlers, pumps, browsers and       *)
(* broadcasters.                                                           *)
THEOREM TypeCorrect == Spec => []TypeOK
<1>1. Spec => []TypeInv
  BY TypeInit, TypeStep, PTL DEF Spec
<1> QED
  BY <1>1, PTL DEF TypeInv

-----------------------------------------------------------------------------
(* What makes the hub safe: a client is in the map exactly while its       *)
(* handler is between register and unregister, its channel is closed       *)
(* exactly when the handler is through, and by then its pump has returned. *)
HandlerInv ==
    \A c \in Clients :
        /\ c \in clients <=> handler[c] \in {"reading", "join", "unregister"}
        /\ closed[c] <=> handler[c] = "gone"
        /\ handler[c] \in {"none", "register"} =>
             pump[c] = "none" /\ send[c] = <<>> /\ conn[c] = "open"
        /\ handler[c] \in {"join", "unregister", "gone"} => conn[c] = "closed"
        /\ handler[c] \in {"unregister", "gone"} => pump[c] = "done"

(* A broadcaster that is not inside Broadcast visits nobody.               *)
TodoInv == \A b \in Broadcasters : ~sending[b] => todo[b] = {}

HubInv == TypeInv /\ HandlerInv /\ TodoInv /\ NoSendOnClosed

LEMMA HubInvInit == Init => HubInv
BY TypeInit DEF Init, HubInv, HandlerInv, TodoInv, NoSendOnClosed

LEMMA HubInvStep == HubInv /\ [Next]_vars => HubInv'
<1> SUFFICES ASSUME HubInv, [Next]_vars PROVE HubInv'
  OBVIOUS
<1>t. TypeInv /\ TypeInv'
  BY TypeStep DEF HubInv
<1> USE <1>t DEF HubInv, TypeInv, TypeOK, Handlers, Pumps, HandlerInv, TodoInv,
                 NoSendOnClosed, connVars, castVars, Step
<1>1. CASE \E c \in Clients : Connect(c)
  BY <1>1 DEF Connect
<1>2. CASE \E c \in Clients : Register(c)
  <2> PICK c \in Clients : Register(c)
    BY <1>2
  <2>1. HandlerInv'
    BY DEF Register
  <2>2. TodoInv' /\ NoSendOnClosed'
    BY DEF Register
  <2> QED
    BY <2>1, <2>2
<1>3. CASE \E c \in Clients : ReadEnd(c)
  BY <1>3 DEF ReadEnd
<1>4. CASE \E c \in Clients : Join(c)
  BY <1>4 DEF Join
<1>5. CASE \E c \in Clients : Unregister(c)
  <2> PICK c \in Clients : Unregister(c)
    BY <1>5
  <2>1. \A b \in Broadcasters : todo[b] = {}
    BY DEF Unregister, ReaderHolds
  <2>2. HandlerInv'
    BY DEF Unregister
  <2>3. TodoInv' /\ NoSendOnClosed'
    BY <2>1 DEF Unregister
  <2> QED
    BY <2>2, <2>3
<1>6. CASE \E c \in Clients : Take(c)
  BY <1>6 DEF Take
<1>7. CASE \E c \in Clients : PingDue(c)
  BY <1>7 DEF PingDue
<1>8. CASE \E c \in Clients : WriteOk(c)
  <2> PICK c \in Clients : WriteOk(c)
    BY <1>8
  <2>1. /\ pump[c] = "writing" /\ pump' = [pump EXCEPT ![c] = "select"]
        /\ UNCHANGED <<clients, handler, send, closed, conn, sending, todo>>
    BY DEF WriteOk
  <2>2. HandlerInv'
    BY <2>1
  <2>3. TodoInv' /\ NoSendOnClosed'
    BY <2>1
  <2> QED
    BY <2>2, <2>3
<1>9. CASE \E c \in Clients : WriteFail(c)
  BY <1>9 DEF WriteFail
<1>10. CASE \E c \in Clients : Stall(c) \/ Resume(c) \/ Depart(c)
  <2>1. UNCHANGED <<clients, handler, pump, send, closed, conn, sending, todo>>
    BY <1>10 DEF Stall, Resume, Depart, PeerBecomes
  <2> QED
    BY <2>1
<1>11. CASE \E b \in Broadcasters : Begin(b)
  <2> PICK b \in Broadcasters : Begin(b)
    BY <1>11
  <2>1. /\ todo' = [todo EXCEPT ![b] = clients]
        /\ sending' = [sending EXCEPT ![b] = TRUE]
        /\ UNCHANGED <<clients, handler, pump, send, closed, conn>>
    BY DEF Begin
  <2>2. HandlerInv'
    BY <2>1
  <2>3. \A c \in clients : ~closed[c]
    OBVIOUS
  <2>4. TodoInv'
    BY <2>1
  <2>5. NoSendOnClosed'
    BY <2>1, <2>3
  <2> QED
    BY <2>2, <2>4, <2>5
<1>12. CASE \E b \in Broadcasters : \E c \in Clients : Offer(b, c)
  <2> PICK b \in Broadcasters, c \in Clients : Offer(b, c)
    BY <1>12
  <2>1. handler[c] \notin {"none", "register"}
    BY DEF Offer
  <2> QED
    BY <2>1 DEF Offer
<1>13. CASE \E b \in Broadcasters : Finish(b)
  BY <1>13 DEF Finish
<1>14. CASE UNCHANGED vars
  BY <1>14 DEF vars
<1> QED
  BY <1>1, <1>2, <1>3, <1>4, <1>5, <1>6, <1>7, <1>8, <1>9, <1>10, <1>11,
     <1>12, <1>13, <1>14, NextActions

LEMMA HubInvAlways == Spec => []HubInv
BY HubInvInit, HubInvStep, PTL DEF Spec

(* However connects, disconnects and broadcasts overlap, nobody sends on a *)
(* closed channel (websocket.go:89 against :126).                          *)
THEOREM NobodySendsOnClosed == Spec => []NoSendOnClosed
BY HubInvAlways, PTL DEF HubInv

(* A channel is closed only behind its write pump (websocket.go:126).      *)
THEOREM ChannelsCloseBehindPumps == Spec => []ClosedOnlyAfterPump
<1>1. HubInv => ClosedOnlyAfterPump
  BY DEF HubInv, HandlerInv, ClosedOnlyAfterPump
<1> QED
  BY <1>1, HubInvAlways, PTL

(* HandleWS does not return before its write pump has (websocket.go:75).   *)
THEOREM PumpsEndWithHandlers == Spec => []PumpsBelongToHandlers
<1>1. HubInv => PumpsBelongToHandlers
  BY DEF HubInv, TypeInv, TypeOK, Handlers, HandlerInv, PumpsBelongToHandlers
<1> QED
  BY <1>1, HubInvAlways, PTL

-----------------------------------------------------------------------------
(* Why what a client gets is a lossy feed.  The messages of one            *)
(* broadcaster lie, from what the client last got to what was last sent,   *)
(* in the order: got, in flight, buffered, about to be offered.            *)
Ahead(c, m) == got[c][m.from] < m.n /\ m.n <= sent[m.from]

Before(m, k) == m.from = k.from => m.n < k.n

Carries(c) == pump[c] = "writing" /\ inflight[c] # Ping

NotBeyond == \A c \in Clients, b \in Broadcasters : got[c][b] <= sent[b]

BufferedAhead ==
    \A c \in Clients : \A i \in 1..Len(send[c]) : Ahead(c, send[c][i])

BufferedInOrder ==
    \A c \in Clients : \A i, j \in 1..Len(send[c]) :
        i < j => Before(send[c][i], send[c][j])

InFlightFirst ==
    \A c \in Clients : Carries(c) =>
        /\ Ahead(c, inflight[c])
        /\ \A i \in 1..Len(send[c]) : Before(inflight[c], send[c][i])

OfferedLast ==
    \A b \in Broadcasters : \A c \in todo[b] :
        LET new == [from |-> b, n |-> sent[b]] IN
        /\ got[c][b] < sent[b]
        /\ \A i \in 1..Len(send[c]) : Before(send[c][i], new)
        /\ Carries(c) => Before(inflight[c], new)

InOrder == /\ NotBeyond /\ BufferedAhead /\ BufferedInOrder
           /\ InFlightFirst /\ OfferedLast

FeedInv == HubInv /\ InOrder

LEMMA MessageType ==
    ASSUME NEW m \in Messages
    PROVE  m.from \in Broadcasters /\ m.n \in 1..MaxMsgs /\ m.n \in Nat
BY MaxMsgsAssumption DEF Messages

LEMMA BufferType ==
    ASSUME TypeOK, NEW c \in Clients, NEW i \in 1..Len(send[c])
    PROVE  send[c][i] \in Messages
BY DEF TypeOK

LEMMA FeedInvInit == Init => FeedInv
<1> SUFFICES ASSUME Init PROVE FeedInv
  OBVIOUS
<1>1. HubInv
  BY HubInvInit
<1>2. InOrder
  BY DEF Init, InOrder, NotBeyond, BufferedAhead, BufferedInOrder,
         InFlightFirst, Carries, OfferedLast
<1> QED
  BY <1>1, <1>2 DEF FeedInv

(* A step that moves no message keeps the order.                           *)
LEMMA QuietStep ==
    ASSUME HubInv, InOrder,
           UNCHANGED <<send, got, sent>>,
           \A b \in Broadcasters : todo'[b] \subseteq todo[b],
           \A c \in Clients : Carries(c)' =>
               Carries(c) /\ inflight'[c] = inflight[c]
    PROVE  InOrder'
<1>1. NotBeyond' /\ BufferedAhead' /\ BufferedInOrder'
  BY DEF InOrder, NotBeyond, BufferedAhead, BufferedInOrder, Ahead, Before
<1>2. InFlightFirst'
  BY DEF InOrder, InFlightFirst, Ahead, Before
<1>3. OfferedLast'
  <2> SUFFICES ASSUME NEW b \in Broadcasters, NEW c \in todo'[b]
               PROVE  LET new == [from |-> b, n |-> sent[b]] IN
                      /\ got[c][b] < sent[b]
                      /\ \A i \in 1..Len(send[c]) : Before(send[c][i], new)
                      /\ Carries(c)' => Before(inflight'[c], new)
    BY DEF OfferedLast, Before
  <2>1. c \in todo[b] /\ c \in Clients
    BY DEF HubInv, TypeInv, TypeOK
  <2> QED
    BY <2>1 DEF InOrder, OfferedLast
<1> QED
  BY <1>1, <1>2, <1>3 DEF InOrder

(* A connection starts its feed at what has been sent so far.              *)
LEMMA RegisterInOrder ==
    ASSUME HubInv, InOrder, NEW c \in Clients, Register(c)
    PROVE  InOrder'
<1>1. /\ \A b \in Broadcasters : todo[b] = {}
      /\ send[c] = <<>> /\ pump' = [pump EXCEPT ![c] = "select"]
      /\ UNCHANGED <<send, inflight, sent, todo>>
      /\ got' = got \/ got' = [got EXCEPT ![c] = sent]
      /\ pump \in [Clients -> Pumps]
      /\ got \in [Clients -> [Broadcasters -> 0..MaxMsgs]]
      /\ sent \in [Broadcasters -> 0..MaxMsgs]
  BY DEF Register, Step, HubInv, TypeInv, TypeOK, HandlerInv, TodoInv,
         ReaderHolds, connVars, castVars
<1>2. /\ \A d \in Clients \ {c} : got'[d] = got[d]
      /\ \A b \in Broadcasters : got'[c][b] = got[c][b] \/ got'[c][b] = sent[b]
  BY <1>1
<1>3. NotBeyond'
  <2> SUFFICES ASSUME NEW d \in Clients, NEW b \in Broadcasters
               PROVE  got'[d][b] <= sent[b]
    BY <1>1 DEF NotBeyond
  <2>1. got[d][b] <= sent[b] /\ sent[b] \in Nat
    BY <1>1, MaxMsgsAssumption DEF InOrder, NotBeyond
  <2> QED
    BY <1>2, <2>1
<1>4. BufferedAhead'
  <2> SUFFICES ASSUME NEW d \in Clients, NEW i \in 1..Len(send[d])
               PROVE  LET k == send[d][i] IN
                      got'[d][k.from] < k.n /\ k.n <= sent[k.from]
    BY <1>1 DEF BufferedAhead, Ahead
  <2>1. d # c
    BY <1>1
  <2> QED
    BY <1>2, <2>1 DEF InOrder, BufferedAhead, Ahead
<1>5. BufferedInOrder'
  BY <1>1 DEF InOrder, BufferedInOrder, Before
<1>6. InFlightFirst'
  <2> SUFFICES ASSUME NEW d \in Clients, Carries(d)'
               PROVE  /\ got'[d][inflight[d].from] < inflight[d].n
                      /\ inflight[d].n <= sent[inflight[d].from]
                      /\ \A i \in 1..Len(send[d]) :
                           Before(inflight[d], send[d][i])
    BY <1>1 DEF InFlightFirst, Ahead, Before
  <2>1. Carries(d) /\ d # c
    BY <1>1 DEF Carries
  <2> QED
    BY <1>2, <2>1 DEF InOrder, InFlightFirst, Ahead
<1>7. OfferedLast'
  BY <1>1 DEF OfferedLast
<1> QED
  BY <1>3, <1>4, <1>5, <1>6, <1>7 DEF InOrder

(* The pump takes the first of what is buffered.                           *)
LEMMA TakeInOrder ==
    ASSUME HubInv, InOrder, NEW c \in Clients, Take(c)
    PROVE  InOrder'
<1>1. /\ send \in [Clients -> Seq(Messages)] /\ send[c] # <<>>
      /\ pump' = [pump EXCEPT ![c] = "writing"]
      /\ inflight' = [inflight EXCEPT ![c] = Head(send[c])]
      /\ send' = [send EXCEPT ![c] = Tail(send[c])]
      /\ UNCHANGED <<got, sent, todo>>
      /\ pump \in [Clients -> Pumps]
      /\ inflight \in [Clients -> Messages \cup {Ping}]
      /\ todo \in [Broadcasters -> SUBSET Clients]
  BY DEF Take, HubInv, TypeInv, TypeOK, connVars, castVars
<1>2. /\ Len(send[c]) \in Nat /\ 1 \in 1..Len(send[c])
      /\ inflight'[c] = send[c][1] /\ Len(send'[c]) = Len(send[c]) - 1
      /\ \A i \in 1..Len(send'[c]) :
           i + 1 \in 1..Len(send[c]) /\ send'[c][i] = send[c][i + 1]
  BY <1>1
<1>3. \A d \in Clients \ {c} :
        /\ send'[d] = send[d] /\ inflight'[d] = inflight[d]
        /\ Carries(d)' = Carries(d)
  BY <1>1 DEF Carries
<1>4. NotBeyond'
  BY <1>1 DEF InOrder, NotBeyond
<1>5. BufferedAhead'
  <2> SUFFICES ASSUME NEW d \in Clients, NEW i \in 1..Len(send'[d])
               PROVE  Ahead(d, send'[d][i])
    BY <1>1 DEF BufferedAhead, Ahead
  <2>1. CASE d = c
    BY <1>2, <2>1 DEF InOrder, BufferedAhead
  <2>2. CASE d # c
    BY <1>3, <2>2 DEF InOrder, BufferedAhead
  <2> QED
    BY <2>1, <2>2
<1>6. BufferedInOrder'
  <2> SUFFICES ASSUME NEW d \in Clients,
                      NEW i \in 1..Len(send'[d]), NEW j \in 1..Len(send'[d]),
                      i < j
               PROVE  Before(send'[d][i], send'[d][j])
    BY DEF BufferedInOrder, Before
  <2>1. CASE d = c
    BY <1>2, <2>1 DEF InOrder, BufferedInOrder
  <2>2. CASE d # c
    BY <1>3, <2>2 DEF InOrder, BufferedInOrder
  <2> QED
    BY <2>1, <2>2
<1>7. InFlightFirst'
  <2> SUFFICES ASSUME NEW d \in Clients, Carries(d)'
               PROVE  /\ Ahead(d, inflight[d])'
                      /\ \A i \in 1..Len(send'[d]) :
                           Before(inflight'[d], send'[d][i])
    BY DEF InFlightFirst, Before
  <2>1. CASE d = c
    <3>1. Ahead(c, send[c][1])
      BY <1>2 DEF InOrder, BufferedAhead
    <3>2. \A i \in 1..Len(send'[c]) : Before(send[c][1], send[c][i + 1])
      BY <1>2 DEF InOrder, BufferedInOrder
    <3> QED
      BY <1>1, <1>2, <2>1, <3>1, <3>2 DEF Ahead
  <2>2. CASE d # c
    BY <1>1, <1>3, <2>2 DEF InOrder, InFlightFirst, Ahead
  <2> QED
    BY <2>1, <2>2
<1>8. OfferedLast'
  <2> SUFFICES ASSUME NEW b \in Broadcasters, NEW d \in todo[b]
               PROVE  LET new == [from |-> b, n |-> sent[b]] IN
                      /\ got[d][b] < sent[b]
                      /\ \A i \in 1..Len(send'[d]) : Before(send'[d][i], new)
                      /\ Carries(d)' => Before(inflight'[d], new)
    BY <1>1 DEF OfferedLast, Before
  <2>1. d \in Clients
    BY <1>1
  <2>2. CASE d = c
    BY <1>2, <2>2 DEF InOrder, OfferedLast
  <2>3. CASE d # c
    BY <1>3, <2>1, <2>3 DEF InOrder, OfferedLast
  <2> QED
    BY <2>2, <2>3
<1> QED
  BY <1>4, <1>5, <1>6, <1>7, <1>8 DEF InOrder

(* A message that arrives was the next one.                                *)
LEMMA WriteInOrder ==
    ASSUME HubInv, InOrder, NEW c \in Clients, WriteOk(c)
    PROVE  InOrder'
<1>1. /\ pump[c] = "writing" /\ pump' = [pump EXCEPT ![c] = "select"]
      /\ UNCHANGED <<send, inflight, sent, todo>>
      /\ pump \in [Clients -> Pumps]
      /\ inflight \in [Clients -> Messages \cup {Ping}]
      /\ todo \in [Broadcasters -> SUBSET Clients]
      /\ got \in [Clients -> [Broadcasters -> 0..MaxMsgs]]
      /\ sent \in [Broadcasters -> 0..MaxMsgs]
  BY DEF WriteOk, HubInv, TypeInv, TypeOK, connVars, castVars
<1>2. \A d \in Clients : Carries(d)' => d # c /\ Carries(d)
  BY <1>1 DEF Carries
<1>3. CASE got' = got
  <2>1. \A d \in Clients : Carries(d)' => Carries(d) /\ inflight'[d] = inflight[d]
    BY <1>1, <1>2
  <2> QED
    BY <1>1, <1>3, <2>1, QuietStep
<1>4. CASE got' # got
  <2> DEFINE m == inflight[c]
  <2>1. Carries(c) /\ got' = [got EXCEPT ![c] = [@ EXCEPT ![m.from] = m.n]]
    BY <1>1, <1>4 DEF WriteOk, Received, Carries
  <2>2. m \in Messages
    BY <1>1, <2>1 DEF Carries
  <2>3. m.from \in Broadcasters /\ m.n \in Nat
    BY <2>2, MessageType
  <2>4. Ahead(c, m) /\ \A i \in 1..Len(send[c]) : Before(m, send[c][i])
    BY <2>1 DEF InOrder, InFlightFirst
  <2>5. \A d \in Clients, b \in Broadcasters :
          got'[d][b] = IF d = c /\ b = m.from THEN m.n ELSE got[d][b]
    BY <1>1, <2>1, <2>3
  <2> HIDE DEF m
  <2>6. NotBeyond'
    BY <1>1, <2>4, <2>5 DEF InOrder, NotBeyond, Ahead
  <2>7. BufferedAhead'
    <3> SUFFICES ASSUME NEW d \in Clients, NEW i \in 1..Len(send[d])
                 PROVE  LET k == send[d][i] IN
                        got'[d][k.from] < k.n /\ k.n <= sent[k.from]
      BY <1>1 DEF BufferedAhead, Ahead
    <3>1. send[d][i].from \in Broadcasters
      BY BufferType, MessageType DEF HubInv, TypeInv
    <3>2. Ahead(d, send[d][i])
      BY DEF InOrder, BufferedAhead
    <3> QED
      BY <2>4, <2>5, <3>1, <3>2 DEF Ahead, Before
  <2>8. BufferedInOrder'
    BY <1>1 DEF InOrder, BufferedInOrder, Before
  <2>9. InFlightFirst'
    <3> SUFFICES ASSUME NEW d \in Clients, Carries(d)'
                 PROVE  /\ got'[d][inflight[d].from] < inflight[d].n
                        /\ inflight[d].n <= sent[inflight[d].from]
                        /\ \A i \in 1..Len(send[d]) :
                             Before(inflight[d], send[d][i])
      BY <1>1 DEF InFlightFirst, Ahead, Before
    <3>1. Carries(d) /\ d # c
      BY <1>2
    <3>2. inflight[d].from \in Broadcasters
      BY <1>1, <3>1, MessageType DEF Carries
    <3> QED
      BY <2>5, <3>1, <3>2 DEF InOrder, InFlightFirst, Ahead
  <2>10. OfferedLast'
    <3> SUFFICES ASSUME NEW b \in Broadcasters, NEW d \in todo[b]
                 PROVE  LET new == [from |-> b, n |-> sent[b]] IN
                        /\ got'[d][b] < sent[b]
                        /\ \A i \in 1..Len(send[d]) : Before(send[d][i], new)
                        /\ Carries(d)' => Before(inflight[d], new)
      BY <1>1 DEF OfferedLast, Before
    <3>1. d \in Clients
      BY <1>1
    <3>2. d = c /\ b = m.from => m.n < sent[b]
      BY <2>1 DEF InOrder, OfferedLast, Before, m
    <3> QED
      BY <1>2, <2>5, <3>1, <3>2 DEF InOrder, OfferedLast
  <2> QED
    BY <2>6, <2>7, <2>8, <2>9, <2>10 DEF InOrder
<1> QED
  BY <1>3, <1>4

(* A new message is beyond all that came before it.                        *)
LEMMA BeginInOrder ==
    ASSUME HubInv, InOrder, NEW b \in Broadcasters, Begin(b)
    PROVE  InOrder'
<1>1. /\ todo' = [todo EXCEPT ![b] = clients]
      /\ sent' = [sent EXCEPT ![b] = @ + 1]
      /\ UNCHANGED <<send, pump, inflight, got>>
      /\ inflight \in [Clients -> Messages \cup {Ping}]
      /\ todo \in [Broadcasters -> SUBSET Clients]
      /\ sent \in [Broadcasters -> 0..MaxMsgs] /\ clients \subseteq Clients
      /\ got \in [Clients -> [Broadcasters -> 0..MaxMsgs]]
  BY DEF Begin, HubInv, TypeInv, TypeOK, connVars
<1>2. /\ \A a \in Broadcasters : sent[a] \in Nat /\ sent'[a] \in Nat
                                 /\ sent[a] <= sent'[a]
      /\ \A a \in Broadcasters \ {b} : sent'[a] = sent[a] /\ todo'[a] = todo[a]
      /\ sent'[b] = sent[b] + 1
  BY <1>1, MaxMsgsAssumption
<1>3. \A d \in Clients, a \in Broadcasters :
        got[d][a] \in Nat /\ got[d][a] <= sent[a]
  BY <1>1, MaxMsgsAssumption DEF InOrder, NotBeyond
<1>4. NotBeyond'
  <2> SUFFICES ASSUME NEW d \in Clients, NEW a \in Broadcasters
               PROVE  got[d][a] <= sent'[a]
    BY <1>1 DEF NotBeyond
  <2> QED
    BY <1>2, <1>3
<1>5. \A m \in Messages : m.n <= sent[m.from] => m.n <= sent'[m.from]
  BY <1>2, MessageType
<1>6. \A d \in Clients : \A i \in 1..Len(send[d]) :
        send[d][i] \in Messages /\ Ahead(d, send[d][i])
  BY BufferType DEF HubInv, TypeInv, InOrder, BufferedAhead
<1>7. \A d \in Clients : Carries(d) =>
        inflight[d] \in Messages /\ Ahead(d, inflight[d])
  BY <1>1 DEF Carries, InOrder, InFlightFirst
<1>8. BufferedAhead'
  BY <1>1, <1>5, <1>6 DEF BufferedAhead, Ahead
<1>9. BufferedInOrder'
  BY <1>1 DEF InOrder, BufferedInOrder, Before
<1>10. InFlightFirst'
  <2> SUFFICES ASSUME NEW d \in Clients, Carries(d)
               PROVE  /\ got[d][inflight[d].from] < inflight[d].n
                      /\ inflight[d].n <= sent'[inflight[d].from]
                      /\ \A i \in 1..Len(send[d]) :
                           Before(inflight[d], send[d][i])
    BY <1>1 DEF InFlightFirst, Ahead, Before, Carries
  <2> QED
    BY <1>5, <1>7 DEF InOrder, InFlightFirst, Ahead
<1>11. OfferedLast'
  <2> SUFFICES ASSUME NEW a \in Broadcasters, NEW d \in todo'[a]
               PROVE  LET new == [from |-> a, n |-> sent'[a]] IN
                      /\ got[d][a] < sent'[a]
                      /\ \A i \in 1..Len(send[d]) : Before(send[d][i], new)
                      /\ Carries(d) => Before(inflight[d], new)
    BY <1>1 DEF OfferedLast, Before, Carries
  <2>1. d \in Clients
    BY <1>1
  <2>2. CASE a = b
    <3>1. \A m \in Messages : m.n <= sent[m.from] =>
            Before(m, [from |-> b, n |-> sent'[b]])
      BY <1>2, MessageType DEF Before
    <3> QED
      BY <1>2, <1>3, <1>6, <1>7, <2>1, <2>2, <3>1 DEF Ahead
  <2>3. CASE a # b
    BY <1>2, <2>3 DEF InOrder, OfferedLast
  <2> QED
    BY <2>2, <2>3
<1> QED
  BY <1>4, <1>8, <1>9, <1>10, <1>11 DEF InOrder

(* A message is buffered behind the earlier ones of its broadcaster.       *)
LEMMA OfferInOrder ==
    ASSUME HubInv, InOrder, NEW b \in Broadcasters, NEW c \in Clients,
           Offer(b, c)
    PROVE  InOrder'
<1> DEFINE new == [from |-> b, n |-> sent[b]]
<1>1. /\ c \in todo[b] /\ todo' = [todo EXCEPT ![b] = @ \ {c}]
      /\ send' = [send EXCEPT ![c] = Append(@, new)] \/ send' = send
      /\ UNCHANGED <<pump, inflight, sent, got>>
      /\ inflight \in [Clients -> Messages \cup {Ping}]
      /\ todo \in [Broadcasters -> SUBSET Clients]
      /\ send \in [Clients -> Seq(Messages)]
  BY DEF Offer, HubInv, TypeInv, TypeOK, connVars
<1>2. /\ \A a \in Broadcasters : todo'[a] \subseteq todo[a]
      /\ c \notin todo'[b]
  BY <1>1
<1>3. \A d \in Clients : Carries(d)' = Carries(d)
  BY <1>1 DEF Carries
<1>4. CASE send' = send
  BY <1>1, <1>2, <1>3, <1>4, QuietStep
<1>5. CASE send' = [send EXCEPT ![c] = Append(@, new)]
  <2>1. /\ got[c][b] < sent[b]
        /\ \A i \in 1..Len(send[c]) : Before(send[c][i], new)
        /\ Carries(c) => Before(inflight[c], new)
    BY <1>1 DEF InOrder, OfferedLast
  <2>2. sent[b] \in Nat
    BY MaxMsgsAssumption DEF HubInv, TypeInv, TypeOK
  <2>3. /\ Len(send[c]) \in Nat /\ Len(send'[c]) = Len(send[c]) + 1
        /\ send'[c][Len(send[c]) + 1] = new
        /\ \A i \in 1..Len(send[c]) : send'[c][i] = send[c][i]
    <3>1. new \in Messages
      BY <2>2 DEF Messages, HubInv, TypeInv, TypeOK, Begun, Offer, TodoInv, new
    <3> HIDE DEF new
    <3> QED
      BY <1>1, <1>5, <3>1
  <2>4. \A d \in Clients \ {c} : send'[d] = send[d]
    BY <1>1, <1>5
  <2>5. new.from = b /\ new.n = sent[b]
    OBVIOUS
  <2> HIDE DEF new
  <2>6. NotBeyond'
    BY <1>1 DEF InOrder, NotBeyond
  <2>7. BufferedAhead'
    <3> SUFFICES ASSUME NEW d \in Clients, NEW i \in 1..Len(send'[d])
                 PROVE  Ahead(d, send'[d][i])
      BY <1>1 DEF BufferedAhead, Ahead
    <3>1. CASE d # c
      BY <2>4, <3>1 DEF InOrder, BufferedAhead
    <3>2. CASE d = c /\ i \in 1..Len(send[c])
      BY <2>3, <3>2 DEF InOrder, BufferedAhead
    <3>3. CASE d = c /\ i = Len(send[c]) + 1
      BY <2>1, <2>2, <2>3, <2>5, <3>3 DEF Ahead
    <3> QED
      BY <2>3, <3>1, <3>2, <3>3
  <2>8. BufferedInOrder'
    <3> SUFFICES ASSUME NEW d \in Clients,
                        NEW i \in 1..Len(send'[d]), NEW j \in 1..Len(send'[d]),
                        i < j
                 PROVE  Before(send'[d][i], send'[d][j])
      BY DEF BufferedInOrder, Before
    <3>1. CASE d # c
      BY <2>4, <3>1 DEF InOrder, BufferedInOrder
    <3>2. CASE d = c /\ j \in 1..Len(send[c])
      BY <2>3, <3>2 DEF InOrder, BufferedInOrder
    <3>3. CASE d = c /\ j = Len(send[c]) + 1
      BY <2>1, <2>3, <3>3
    <3> QED
      BY <2>3, <3>1, <3>2, <3>3
  <2>9. InFlightFirst'
    <3> SUFFICES ASSUME NEW d \in Clients, Carries(d)
                 PROVE  /\ Ahead(d, inflight[d])
                        /\ \A i \in 1..Len(send'[d]) :
                             Before(inflight[d], send'[d][i])
      BY <1>1, <1>3 DEF InFlightFirst, Ahead, Before
    <3>1. /\ Ahead(d, inflight[d])
          /\ \A i \in 1..Len(send[d]) : Before(inflight[d], send[d][i])
      BY DEF InOrder, InFlightFirst
    <3>2. CASE d # c
      BY <2>4, <3>1, <3>2
    <3>3. CASE d = c
      BY <2>1, <2>3, <3>1, <3>3
    <3> QED
      BY <3>2, <3>3
  <2>10. OfferedLast'
    <3> SUFFICES ASSUME NEW a \in Broadcasters, NEW d \in todo'[a]
                 PROVE  LET k == [from |-> a, n |-> sent[a]] IN
                        /\ got[d][a] < sent[a]
                        /\ \A i \in 1..Len(send'[d]) : Before(send'[d][i], k)
                        /\ Carries(d) => Before(inflight[d], k)
      BY <1>1, <1>3 DEF OfferedLast, Before, Carries
    <3> DEFINE k == [from |-> a, n |-> sent[a]]
    <3>1. d \in todo[a] /\ d \in Clients
      BY <1>1, <1>2
    <3>2. /\ got[d][a] < sent[a]
          /\ \A i \in 1..Len(send[d]) : Before(send[d][i], k)
          /\ Carries(d) => Before(inflight[d], k)
      BY <3>1 DEF InOrder, OfferedLast
    <3>3. CASE d # c
      BY <2>4, <3>1, <3>2, <3>3
    <3>4. CASE d = c
      <4>1. a # b
        BY <1>2, <3>4
      <4>2. Before(new, k)
        BY <2>5, <4>1 DEF Before
      <4>3. \A i \in 1..Len(send'[c]) : i \in 1..Len(send[c]) \/ i = Len(send[c]) + 1
        BY <2>3
      <4> HIDE DEF k
      <4>4. \A i \in 1..Len(send'[c]) : Before(send'[c][i], k)
        BY <2>3, <3>2, <3>4, <4>2, <4>3
      <4> QED
        BY <3>2, <3>4, <4>4 DEF k
    <3> QED
      BY <3>3, <3>4
  <2> QED
    BY <2>6, <2>7, <2>8, <2>9, <2>10 DEF InOrder
<1> QED
  BY <1>1, <1>4, <1>5

LEMMA FeedInvStep == FeedInv /\ [Next]_vars => FeedInv'
<1> SUFFICES ASSUME HubInv, InOrder, [Next]_vars PROVE InOrder'
  BY HubInvStep DEF FeedInv
<1>0. ASSUME UNCHANGED <<send, got, sent, todo, pump, inflight>>
      PROVE  InOrder'
  BY <1>0, QuietStep DEF Carries
<1>t. TypeOK
  BY DEF HubInv, TypeInv
<1>1. CASE \E c \in Clients : Connect(c)
  BY <1>0, <1>1 DEF Connect, castVars
<1>2. CASE \E c \in Clients : Register(c)
  BY <1>2, RegisterInOrder
<1>3. CASE \E c \in Clients : ReadEnd(c)
  BY <1>0, <1>3 DEF ReadEnd, castVars
<1>4. CASE \E c \in Clients : Join(c)
  BY <1>0, <1>4 DEF Join, castVars
<1>5. CASE \E c \in Clients : Unregister(c)
  BY <1>0, <1>5 DEF Unregister, castVars
<1>6. CASE \E c \in Clients : Take(c)
  BY <1>6, TakeInOrder
<1>7. CASE \E c \in Clients : PingDue(c)
  <2> PICK c \in Clients : PingDue(c)
    BY <1>7
  <2>1. /\ UNCHANGED <<send, got, sent, todo>>
        /\ pump' = [pump EXCEPT ![c] = "writing"]
        /\ inflight' = [inflight EXCEPT ![c] = Ping]
    BY DEF PingDue, castVars
  <2>2. \A d \in Clients : Carries(d)' => Carries(d) /\ inflight'[d] = inflight[d]
    BY <1>t, <2>1 DEF Carries, TypeOK
  <2> QED
    BY <2>1, <2>2, QuietStep
<1>8. CASE \E c \in Clients : WriteOk(c)
  BY <1>8, WriteInOrder
<1>9. CASE \E c \in Clients : WriteFail(c)
  <2> PICK c \in Clients : WriteFail(c)
    BY <1>9
  <2>1. /\ UNCHANGED <<send, got, sent, todo, inflight>>
        /\ pump' = [pump EXCEPT ![c] = "done"]
    BY DEF WriteFail, castVars
  <2>2. \A d \in Clients : Carries(d)' => Carries(d) /\ inflight'[d] = inflight[d]
    BY <1>t, <2>1 DEF Carries, TypeOK
  <2> QED
    BY <2>1, <2>2, QuietStep
<1>10. CASE \E c \in Clients : Stall(c) \/ Resume(c) \/ Depart(c)
  BY <1>0, <1>10 DEF Stall, Resume, Depart, PeerBecomes, castVars
<1>11. CASE \E b \in Broadcasters : Begin(b)
  BY <1>11, BeginInOrder
<1>12. CASE \E b \in Broadcasters : \E c \in Clients : Offer(b, c)
  BY <1>12, OfferInOrder
<1>13. CASE \E b \in Broadcasters : Finish(b)
  BY <1>0, <1>13 DEF Finish
<1>14. CASE UNCHANGED vars
  BY <1>0, <1>14 DEF vars
<1> QED
  BY <1>1, <1>2, <1>3, <1>4, <1>5, <1>6, <1>7, <1>8, <1>9, <1>10, <1>11,
     <1>12, <1>13, <1>14, NextActions

(* Every step of the hub is a step of the feed or leaves it alone.         *)
LEMMA FeedStep == FeedInv /\ [Next]_vars => [Feed!Next]_(Feed!vars)
<1> SUFFICES ASSUME HubInv, InOrder, [Next]_vars
             PROVE  [Feed!Next]_(Feed!vars)
  BY DEF FeedInv
<1> DEFINE mem == [c \in Clients |-> Member(c)]
<1>t. TypeOK
  BY DEF HubInv, TypeInv
<1>0. ASSUME UNCHANGED <<sent, got>>, \A c \in Clients : Member(c)' = Member(c)
      PROVE  UNCHANGED Feed!vars
  BY <1>0 DEF Feed!vars
<1>q. ASSUME UNCHANGED <<sent, got, peer, conn>>,
             NEW c \in Clients, NEW to \in Handlers,
             handler' = [handler EXCEPT ![c] = to],
             handler[c] \in {"none", "register"} <=> to \in {"none", "register"}
      PROVE  UNCHANGED Feed!vars
  BY <1>0, <1>q, <1>t DEF Member, TypeOK
<1>l. ASSUME UNCHANGED <<sent, got>>, NEW c \in Clients,
             \A d \in Clients \ {c} : Member(d)' = Member(d),
             Member(c)' = "left"
      PROVE  [Feed!Next]_(Feed!vars)
  <2>1. CASE Member(c) = "left"
    BY <1>0, <1>l, <2>1
  <2>2. CASE Member(c) # "left"
    <3>1. mem' = [mem EXCEPT ![c] = "left"]
      BY <1>l
    <3>2. Feed!Leave(c)
      BY <1>l, <2>2, <3>1 DEF Feed!Leave
    <3> QED
      BY <3>2 DEF Feed!Next
  <2> QED
    BY <2>1, <2>2
<1>1. CASE \E c \in Clients : Connect(c)
  BY <1>1, <1>q DEF Connect, Step, connVars, castVars, Handlers
<1>2. CASE \E c \in Clients : Register(c)
  <2> PICK c \in Clients : Register(c)
    BY <1>2
  <2>1. /\ handler[c] = "register" /\ handler' = [handler EXCEPT ![c] = "reading"]
        /\ UNCHANGED <<conn, peer, sent>>
        /\ got' = IF peer[c] = "gone" THEN got ELSE [got EXCEPT ![c] = sent]
    BY DEF Register, Step, connVars, castVars
  <2>2. conn[c] = "open"
    BY <2>1 DEF HubInv, HandlerInv
  <2>3. \A d \in Clients \ {c} : Member(d)' = Member(d)
    BY <1>t, <2>1 DEF Member, TypeOK
  <2>4. CASE peer[c] = "gone"
    <3>1. Member(c)' = Member(c)
      BY <2>1, <2>4 DEF Member
    <3> QED
      BY <1>0, <2>1, <2>3, <2>4, <3>1
  <2>5. CASE peer[c] # "gone"
    <3>1. Member(c) = "out" /\ Member(c)' = "in"
      BY <1>t, <2>1, <2>2, <2>5 DEF Member, TypeOK
    <3>2. mem' = [mem EXCEPT ![c] = "in"] /\ mem[c] = "out"
      BY <2>3, <3>1
    <3>3. Feed!Join(c)
      BY <2>1, <2>5, <3>2 DEF Feed!Join
    <3> QED
      BY <3>3 DEF Feed!Next
  <2> QED
    BY <2>4, <2>5
<1>3. CASE \E c \in Clients : ReadEnd(c)
  <2> PICK c \in Clients : ReadEnd(c)
    BY <1>3
  <2>1. /\ handler[c] = "reading" /\ handler' = [handler EXCEPT ![c] = "join"]
        /\ conn' = [conn EXCEPT ![c] = "closed"]
        /\ UNCHANGED <<peer, sent, got>>
    BY DEF ReadEnd, Step, castVars
  <2>2. Member(c)' = "left" /\ \A d \in Clients \ {c} : Member(d)' = Member(d)
    BY <1>t, <2>1 DEF Member, TypeOK
  <2> QED
    BY <1>l, <2>1, <2>2
<1>4. CASE \E c \in Clients : Join(c)
  BY <1>4, <1>q DEF Join, Step, connVars, castVars, Handlers
<1>5. CASE \E c \in Clients : Unregister(c)
  BY <1>5, <1>q DEF Unregister, Step, connVars, castVars, Handlers
<1>6. CASE \E c \in Clients : Take(c) \/ PingDue(c)
  BY <1>0, <1>6 DEF Take, PingDue, Member, connVars, castVars
<1>8. CASE \E c \in Clients : WriteOk(c)
  <2> PICK c \in Clients : WriteOk(c)
    BY <1>8
  <2>1. /\ pump[c] = "writing" /\ conn[c] = "open"
        /\ UNCHANGED <<conn, peer, handler, sent>>
        /\ got' = IF peer[c] = "up" THEN Received(c) ELSE got
    BY DEF WriteOk, connVars, castVars
  <2>2. mem' = mem /\ \A d \in Clients : Member(d)' = Member(d)
    BY <2>1 DEF Member
  <2>3. CASE got' = got
    BY <1>0, <2>1, <2>2, <2>3
  <2>4. CASE got' # got
    <3> DEFINE m == inflight[c]
    <3>1. /\ peer[c] = "up" /\ Carries(c)
          /\ got' = [got EXCEPT ![c] = [@ EXCEPT ![m.from] = m.n]]
      BY <2>1, <2>4 DEF Received, Carries
    <3>2. m \in Messages
      BY <1>t, <3>1 DEF Carries, TypeOK
    <3>3. Ahead(c, m)
      BY <3>1 DEF InOrder, InFlightFirst
    <3>4. Member(c) = "in"
      BY <1>t, <2>1, <3>1 DEF Member, TypeOK, HubInv, HandlerInv
    <3>5. m.from \in Broadcasters /\ m.n \in 1..sent[m.from]
      BY <1>t, <3>2, <3>3, MessageType, MaxMsgsAssumption DEF Ahead, TypeOK
    <3> HIDE DEF m
    <3>6. Feed!Deliver(c, m.from, m.n)
      BY <2>1, <2>2, <3>1, <3>3, <3>4 DEF Feed!Deliver, Ahead
    <3> QED
      BY <3>5, <3>6 DEF Feed!Next
  <2> QED
    BY <2>3, <2>4
<1>9. CASE \E c \in Clients : WriteFail(c)
  <2> PICK c \in Clients : WriteFail(c)
    BY <1>9
  <2>1. /\ conn' = [conn EXCEPT ![c] = "closed"]
        /\ UNCHANGED <<handler, peer, sent, got>>
    BY DEF WriteFail, castVars
  <2>2. Member(c)' = "left" /\ \A d \in Clients \ {c} : Member(d)' = Member(d)
    BY <1>t, <2>1 DEF Member, TypeOK
  <2> QED
    BY <1>l, <2>1, <2>2
<1>10. CASE \E c \in Clients : Stall(c) \/ Resume(c)
  <2> PICK c \in Clients : Stall(c) \/ Resume(c)
    BY <1>10
  <2>1. PICK to \in {"up", "slow"} : peer' = [peer EXCEPT ![c] = to]
    BY DEF Stall, Resume, PeerBecomes
  <2>2. peer[c] \in {"up", "slow"} /\ UNCHANGED <<handler, conn, sent, got>>
    BY DEF Stall, Resume, PeerBecomes, castVars
  <2>3. \A d \in Clients : Member(d)' = Member(d)
    BY <1>t, <2>1, <2>2 DEF Member, TypeOK
  <2> QED
    BY <1>0, <2>2, <2>3
<1>11. CASE \E c \in Clients : Depart(c)
  <2> PICK c \in Clients : Depart(c)
    BY <1>11
  <2>1. /\ peer' = [peer EXCEPT ![c] = "gone"]
        /\ UNCHANGED <<handler, conn, sent, got>>
    BY DEF Depart, PeerBecomes, castVars
  <2>2. Member(c)' = "left" /\ \A d \in Clients \ {c} : Member(d)' = Member(d)
    BY <1>t, <2>1 DEF Member, TypeOK
  <2> QED
    BY <1>l, <2>1, <2>2
<1>12. CASE \E b \in Broadcasters : Begin(b)
  <2> PICK b \in Broadcasters : Begin(b)
    BY <1>12
  <2>1. /\ sent' = [sent EXCEPT ![b] = @ + 1]
        /\ UNCHANGED <<handler, conn, peer, got>>
    BY DEF Begin, connVars
  <2>2. mem' = mem
    BY <2>1 DEF Member
  <2>3. Feed!Publish(b)
    BY <2>1, <2>2 DEF Feed!Publish
  <2> QED
    BY <2>3 DEF Feed!Next
<1>13. CASE \E b \in Broadcasters : (\E c \in Clients : Offer(b, c)) \/ Finish(b)
  BY <1>0, <1>13 DEF Offer, Finish, Member, connVars
<1>14. CASE UNCHANGED vars
  BY <1>0, <1>14 DEF vars, Member
<1> QED
  BY <1>1, <1>2, <1>3, <1>4, <1>5, <1>6, <1>8, <1>9, <1>10, <1>11,
     <1>12, <1>13, <1>14, NextActions

(* What a browser gets is a lossy feed: only messages broadcast after it   *)
(* was registered, those of one broadcaster in order, none twice, and none *)
(* after its connection ended (websocket.go:82-133).                       *)
THEOREM HubImplementsLossyFeed == Spec => ImplementsLossyFeed
<1>1. Init => Feed!Init
  BY DEF Init, Feed!Init, Member
<1>2. Spec => []FeedInv
  BY FeedInvInit, FeedInvStep, PTL DEF Spec
<1> QED
  BY <1>1, <1>2, FeedStep, PTL DEF Spec, ImplementsLossyFeed, Feed!Spec

=============================================================================
