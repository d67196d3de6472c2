---------------------------- MODULE BrowserProofs ----------------------------
(***************************************************************************)
(* Theorems about Browser, for any number of sockets and requests and any  *)
(* lengths of the lists: that the tab has one connection or one timeout    *)
(* that will make one, never two and never none; that the headers it shows *)
(* are in the order of the light client, across reconnections; and that    *)
(* its chart follows them.                                                 *)
(***************************************************************************)
EXTENDS Browser, TLAPS

(* Every action, without quantifiers nested in disjunctions. *)
LEMMA NextActions ==
    ASSUME Next
    PROVE  \/ Down
           \/ Up
           \/ StatusChanges
           \/ SendHeader
           \/ SendStatus
           \/ Reconnect
           \/ \E s \in Sockets : OnOpen(s)
           \/ \E s \in Sockets : OnMessage(s)
           \/ \E s \in Sockets : \E failed \in BOOLEAN : OnClose(s, failed)
           \/ \E f \in Fetches : Navigate(f)
           \/ \E f \in Fetches : Show(f)
           \/ \E f \in Fetches : \E r \in {"status", "headers"} : Settle(f, r)
BY DEF Next, OnEvent, Await

-----------------------------------------------------------------------------
(* Types of the parts. *)

LEMMA AskedType == Idle \in Runs /\ Asked \in Runs
BY DEF Idle, Asked, Runs

LEMMA HeaderType == \A n \in 1..MaxSent : Header(n) \in Messages
BY DEF Messages

LEMMA StatusType == \A v \in Values : Status(v) \in Messages
BY DEF Messages

LEMMA MessageData ==
    ASSUME NEW m \in Messages
    PROVE  /\ m.type = "header" => m.data \in 1..MaxSent
           /\ m.type # "header" => m.data \in Values
BY DEF Messages, Header, Status

(* A message that is sent is appended to the inboxes of some sockets. *)
LEMMA SendType ==
    ASSUME TypeOK, NEW m \in Messages, Send(m)
    PROVE  inbox' \in [Sockets -> Seq(Messages)]
<1> PICK S \in SUBSET Sockets :
      inbox' = [s \in Sockets |-> inbox[s] \o IF s \in S THEN <<m>> ELSE <<>>]
  BY DEF Send
<1>1. ASSUME NEW s \in Sockets
      PROVE  (inbox[s] \o IF s \in S THEN <<m>> ELSE <<>>) \in Seq(Messages)
  <2>1. inbox[s] \in Seq(Messages)
    BY DEF TypeOK
  <2>2. (IF s \in S THEN <<m>> ELSE <<>>) \in Seq(Messages)
    OBVIOUS
  <2> QED
    BY <2>1, <2>2
<1> QED
  BY <1>1

(* The lists keep their type and their limits. *)
LEMMA PushType ==
    ASSUME TypeOK, NEW n \in 1..MaxSent, PushHeader(n)
    PROVE  /\ recentHeaders' \in Seq(1..MaxSent)
           /\ Len(recentHeaders') <= MaxHeaders
           /\ chart' \in Seq(1..MaxSent)
           /\ Len(chart') <= MaxPoints
<1> USE LengthsAssumption
<1> DEFINE T == 1..MaxSent
<1>1. recentHeaders \in Seq(T) /\ Len(recentHeaders) <= MaxHeaders
      /\ chart \in Seq(T) /\ Len(chart) <= MaxPoints
  BY DEF TypeOK
<1>2. PICK rest \in Seq(T) : /\ recentHeaders' = <<n>> \o rest
                              /\ Len(rest) < MaxHeaders
  <2>1. CASE Len(recentHeaders) < MaxHeaders
    BY <2>1, <1>1 DEF PushHeader
  <2>2. CASE ~(Len(recentHeaders) < MaxHeaders)
    <3> DEFINE k == Len(recentHeaders) - 1
    <3>1. k \in 0..Len(recentHeaders) /\ k < MaxHeaders
      BY <2>2, <1>1
    <3>2. Front(recentHeaders) = SubSeq(recentHeaders, 1, k)
      BY DEF Front
    <3>3. Front(recentHeaders) \in Seq(T) /\ Len(Front(recentHeaders)) = k
      <4> HIDE DEF k, T
      <4> QED
        BY <3>1, <3>2, <1>1
    <3>4. recentHeaders' = <<n>> \o Front(recentHeaders)
      BY <2>2 DEF PushHeader
    <3> QED
      BY <3>1, <3>3, <3>4
  <2> QED
    BY <2>1, <2>2
<1>3. recentHeaders' \in Seq(T) /\ Len(recentHeaders') <= MaxHeaders
  BY <1>2
<1>6. chart' \in Seq(T) /\ Len(chart') <= MaxPoints
  <2>1. CASE Len(chart) < MaxPoints
    BY <2>1, <1>1 DEF PushHeader, PushPoint
  <2>2. CASE ~(Len(chart) < MaxPoints)
    <3>1. chart # <<>>
      BY <2>2, <1>1
    <3>2. Tail(chart) \in Seq(T) /\ Len(Tail(chart)) = Len(chart) - 1
      BY <3>1, <1>1
    <3> QED
      BY <3>2, <2>2, <1>1 DEF PushHeader, PushPoint
  <2> QED
    BY <2>1, <2>2
<1> QED
  BY <1>3, <1>6

-----------------------------------------------------------------------------
LEMMA TypeInit == Init => TypeOK
<1> SUFFICES ASSUME Init PROVE TypeOK
  OBVIOUS
<1>1. fetch \in [Fetches -> Runs]
  BY AskedType DEF Init
<1>2. inbox \in [Sockets -> Seq(Messages)]
  BY DEF Init
<1>3. /\ recentHeaders = <<>> /\ recentHeaders \in Seq(1..MaxSent)
      /\ chart = <<>> /\ chart \in Seq(1..MaxSent)
      /\ Len(recentHeaders) = 0 /\ Len(chart) = 0
  BY DEF Init
<1>4. up \in BOOLEAN /\ current \in Values /\ blocked \in BOOLEAN
      /\ ws \in Sockets /\ wsConnected \in BOOLEAN
      /\ status \in Values \cup {Null}
  BY DEF Init
<1>6. sent \in 0..MaxSent /\ timers \in Nat
  BY LengthsAssumption DEF Init
<1>5. conn \in [Sockets -> {"free", "connecting", "open", "lost", "closing"}]
  BY DEF Init
<1> QED
  BY <1>1, <1>2, <1>3, <1>4, <1>5, <1>6, LengthsAssumption DEF TypeOK

LEMMA TypeStep == TypeOK /\ [Next]_vars => TypeOK'
<1> SUFFICES ASSUME TypeOK, [Next]_vars PROVE TypeOK'
  OBVIOUS
<1> USE LengthsAssumption DEF TypeOK, server, socket, shown
<1>1. CASE Down
  BY <1>1 DEF Down
<1>2. CASE Up
  BY <1>2 DEF Up
<1>3. CASE StatusChanges
  BY <1>3 DEF StatusChanges
<1>4. CASE SendHeader
  <2>1. sent + 1 \in 1..MaxSent
    BY <1>4 DEF SendHeader
  <2>2. inbox' \in [Sockets -> Seq(Messages)]
    BY <1>4, <2>1, HeaderType, SendType DEF SendHeader
  <2> QED
    BY <1>4, <2>1, <2>2 DEF SendHeader, Send
<1>5. CASE SendStatus
  <2>1. inbox' \in [Sockets -> Seq(Messages)]
    BY <1>5, StatusType, SendType DEF SendStatus
  <2> QED
    BY <1>5, <2>1 DEF SendStatus, Send
<1>6. CASE Reconnect
  <2>1. CASE blocked
    BY <1>6, <2>1 DEF Reconnect, ConnectWS
  <2>2. CASE ~blocked
    <3>1. ws' \in Sockets /\ timers' \in Nat
      BY <1>6, <2>2 DEF Reconnect, ConnectWS
    <3>2. inbox' = [inbox EXCEPT ![ws'] = <<>>]
          /\ conn' = [conn EXCEPT ![ws'] = "connecting"]
      BY <1>6, <2>2 DEF Reconnect, ConnectWS
    <3>3. inbox' \in [Sockets -> Seq(Messages)]
      BY <3>1, <3>2
    <3> QED
      BY <1>6, <3>1, <3>2, <3>3 DEF Reconnect
  <2> QED
    BY <2>1, <2>2
<1>7. CASE \E s \in Sockets : OnOpen(s)
  BY <1>7 DEF OnOpen
<1>8. CASE \E s \in Sockets : OnMessage(s)
  <2> PICK s \in Sockets : OnMessage(s)
    BY <1>8
  <2>1. inbox[s] \in Seq(Messages) /\ inbox[s] # <<>>
    BY DEF OnMessage
  <2>2. Head(inbox[s]) \in Messages /\ Tail(inbox[s]) \in Seq(Messages)
    BY <2>1
  <2>3. inbox' \in [Sockets -> Seq(Messages)]
    BY <2>2 DEF OnMessage
  <2>4. UNCHANGED <<server, conn, ws, timers, wsConnected, fetch>>
    BY DEF OnMessage
  <2>5. /\ status' \in Values \cup {Null}
        /\ recentHeaders' \in Seq(1..MaxSent) /\ Len(recentHeaders') <= MaxHeaders
        /\ chart' \in Seq(1..MaxSent) /\ Len(chart') <= MaxPoints
    <3>1. CASE conn[s] = "closing"
      BY <3>1 DEF OnMessage
    <3>2. CASE conn[s] # "closing" /\ Head(inbox[s]).type = "header"
      <4>1. PushHeader(Head(inbox[s]).data) /\ UNCHANGED status
        BY <3>2 DEF OnMessage
      <4>2. Head(inbox[s]).data \in 1..MaxSent
        BY <3>2, <2>2, MessageData
      <4> QED
        BY <4>1, <4>2, PushType
    <3>3. CASE conn[s] # "closing" /\ Head(inbox[s]).type # "header"
      BY <3>3, <2>2, MessageData DEF OnMessage
    <3> QED
      BY <3>1, <3>2, <3>3
  <2> QED
    BY <2>3, <2>4, <2>5
<1>9. CASE \E s \in Sockets : \E failed \in BOOLEAN : OnClose(s, failed)
  <2> PICK s \in Sockets, failed \in BOOLEAN : OnClose(s, failed)
    BY <1>9
  <2>1. conn' \in [Sockets -> {"free", "connecting", "open", "lost", "closing"}]
    <3>1. CASE failed
      <4>1. conn' = CloseThis(s)
        BY <3>1 DEF OnClose
      <4> QED
        BY <4>1 DEF CloseThis
    <3>2. CASE ~failed
      <4>1. conn' = [conn EXCEPT ![s] = "free"]
        BY <3>2 DEF OnClose
      <4> QED
        BY <4>1
    <3> QED
      BY <3>1, <3>2
  <2>2. timers' \in Nat
    BY DEF OnClose
  <2>4. wsConnected' \in BOOLEAN
    BY DEF OnClose
  <2>3. UNCHANGED <<server, inbox, ws, shown, fetch>>
    BY DEF OnClose
  <2> QED
    BY <2>1, <2>2, <2>3, <2>4
<1>10. CASE \E f \in Fetches : Navigate(f)
  BY <1>10, AskedType DEF Navigate
<1>11. CASE \E f \in Fetches : Show(f)
  <2> PICK f \in Fetches : Show(f)
    BY <1>11
  <2>1. fetch[f].status \in Values \cup {Null}
    BY DEF Runs
  <2>2. fetch' \in [Fetches -> Runs]
    BY AskedType DEF Show
  <2> QED
    BY <2>1, <2>2 DEF Show
<1>12. CASE \E f \in Fetches : \E r \in {"status", "headers"} : Settle(f, r)
  <2> PICK f \in Fetches, r \in {"status", "headers"} : Settle(f, r)
    BY <1>12
  <2>1. PICK v \in Values \cup {Null} :
          fetch' = [fetch EXCEPT ![f].settled = @ \cup {r}, ![f].status = v]
    <3>1. fetch[f].status \in Values \cup {Null}
      BY DEF Runs
    <3>2. CASE r = "status" /\ up
      BY <3>2 DEF Settle
    <3>3. CASE ~(r = "status" /\ up)
      BY <3>1, <3>3 DEF Settle
    <3> QED
      BY <3>2, <3>3
  <2>2. [fetch[f] EXCEPT !.settled = @ \cup {r}, !.status = v] \in Runs
    BY DEF Runs
  <2>3. fetch' \in [Fetches -> Runs]
    BY <2>1, <2>2
  <2> QED
    BY <2>3 DEF Settle
<1>13. CASE UNCHANGED vars
  BY <1>13 DEF vars
<1> QED
  BY <1>1, <1>2, <1>3, <1>4, <1>5, <1>6, <1>7, <1>8, <1>9, <1>10, <1>11,
     <1>12, <1>13, NextActions

(* The types are kept by every event of the page. *)
THEOREM TypeCorrect == Spec => []TypeOK
BY TypeInit, TypeStep, PTL DEF Spec

-----------------------------------------------------------------------------
LEMMA LifelineInit == Init => OneLifeline
BY DEF Init, OneLifeline, Live

LEMMA LifelineStep == TypeOK /\ OneLifeline /\ [Next]_vars => OneLifeline'
<1> SUFFICES ASSUME TypeOK, OneLifeline, [Next]_vars PROVE OneLifeline'
  OBVIOUS
<1> USE DEF OneLifeline, Live, TypeOK
<1>1. ASSUME UNCHANGED <<conn, ws, timers, wsConnected>> PROVE OneLifeline'
  BY <1>1
<1>2. CASE Down
  BY <1>2 DEF Down
<1>3. CASE Up \/ StatusChanges \/ SendHeader \/ SendStatus
  BY <1>1, <1>3 DEF Up, StatusChanges, SendHeader, SendStatus, Send, socket
<1>4. CASE Reconnect
  <2>1. CASE blocked
    BY <2>1, <1>4 DEF Reconnect, ConnectWS
  <2>2. CASE ~blocked
    BY <2>2, <1>4 DEF Reconnect, ConnectWS
  <2> QED
    BY <2>1, <2>2
<1>5. CASE \E s \in Sockets : OnOpen(s)
  BY <1>5 DEF OnOpen
<1>6. CASE \E s \in Sockets : OnMessage(s)
  BY <1>1, <1>6 DEF OnMessage
<1>7. CASE \E s \in Sockets : \E failed \in BOOLEAN : OnClose(s, failed)
  <2> PICK s \in Sockets, failed \in BOOLEAN : OnClose(s, failed)
    BY <1>7
  <2>1. s = ws /\ timers = 0
    BY DEF OnClose
  <2>2. conn' = [conn EXCEPT ![ws] = "free"]
    BY <2>1 DEF OnClose, CloseThis
  <2> QED
    BY <2>1, <2>2 DEF OnClose
<1>8. CASE \/ \E f \in Fetches : Navigate(f)
           \/ \E f \in Fetches : Show(f)
           \/ \E f \in Fetches : \E r \in {"status", "headers"} : Settle(f, r)
  BY <1>1, <1>8 DEF Navigate, Show, Settle, socket
<1>9. CASE UNCHANGED vars
  BY <1>1, <1>9 DEF vars, socket
<1> QED
  BY <1>2, <1>3, <1>4, <1>5, <1>6, <1>7, <1>8, <1>9, NextActions

(* One connection or one timeout, whatever fails, throws or closes. *)
THEOREM AlwaysOneLifeline == Spec => []OneLifeline
<1>1. Spec => [](TypeOK /\ OneLifeline)
  BY TypeInit, TypeStep, LifelineInit, LifelineStep, PTL DEF Spec
<1> QED
  BY <1>1, PTL

-----------------------------------------------------------------------------
(* The order of the lists. *)

Ordered(list) == \A i, j \in 1..Len(list) : i < j => list[i] > list[j]

(* Of the first n headers of the chain, list holds some and the queue q    *)
(* brings others, all of them newer than those of list and in order.       *)
Newer(list, q, n) ==
    /\ \A i \in 1..Len(list) : list[i] <= n
    /\ \A k \in 1..Len(q) : q[k].type = "header" =>
         /\ q[k].data <= n
         /\ \A i \in 1..Len(list) : list[i] < q[k].data
         /\ \A j \in 1..Len(q) :
              j < k /\ q[j].type = "header" => q[j].data < q[k].data

(* What is under way to the page continues what the page shows. *)
FeedOrder == Ordered(recentHeaders) /\ Newer(recentHeaders, inbox[ws], sent)

(* The queue may end with the next header, or with what is no header. *)
LEMMA NewerSent ==
    ASSUME NEW list \in Seq(1..MaxSent), NEW q \in Seq(Messages), NEW n \in Nat,
           Newer(list, q, n), NEW k \in {n, n + 1}, NEW m \in Messages,
           m.type = "header" => m.data = n + 1 /\ k = n + 1
    PROVE  Newer(list, q \o <<m>>, k)
<1> DEFINE r == q \o <<m>>
<1> USE LengthsAssumption
<1>1. /\ Len(q) \in Nat /\ Len(r) = Len(q) + 1 /\ r[Len(q) + 1] = m
      /\ \A i \in 1..Len(q) : r[i] = q[i]
  OBVIOUS
<1>2. \A i \in 1..Len(list) : list[i] \in Nat /\ list[i] <= n
  BY DEF Newer
<1>3. \A i \in 1..Len(q) : q[i].type = "header" => q[i].data \in Nat /\ q[i].data <= n
  BY MessageData DEF Newer
<1>4. ASSUME NEW i \in 1..Len(r), r[i].type = "header"
      PROVE  /\ r[i].data <= k
             /\ \A j \in 1..Len(list) : list[j] < r[i].data
             /\ \A j \in 1..Len(r) :
                  j < i /\ r[j].type = "header" => r[j].data < r[i].data
  <2> HIDE DEF r
  <2>1. CASE i = Len(q) + 1
    <3>1. r[i] = m /\ m.data = n + 1 /\ k = n + 1
      BY <1>1, <1>4, <2>1
    <3>2. \A j \in 1..Len(r) : j < i => j \in 1..Len(q) /\ r[j] = q[j]
      BY <1>1, <2>1
    <3>3. \A j \in 1..Len(list) : list[j] < n + 1
      BY <1>2
    <3>4. \A j \in 1..Len(q) : q[j].type = "header" => q[j].data < n + 1
      BY <1>3
    <3>5. r[i].data = n + 1 /\ r[i].data <= k
      BY <3>1
    <3> QED
      BY <3>2, <3>3, <3>4, <3>5
  <2>2. CASE i \in 1..Len(q)
    <3>1. r[i] = q[i] /\ \A j \in 1..Len(r) : j < i => j \in 1..Len(q) /\ r[j] = q[j]
      BY <1>1, <2>2
    <3>2. /\ q[i].data <= n
          /\ \A j \in 1..Len(list) : list[j] < q[i].data
          /\ \A j \in 1..Len(q) :
               j < i /\ q[j].type = "header" => q[j].data < q[i].data
      BY <1>4, <2>2, <3>1 DEF Newer
    <3>3. q[i].data <= k
      BY <1>3, <1>4, <2>2, <3>1
    <3> QED
      BY <3>1, <3>2, <3>3
  <2> QED
    BY <1>1, <2>1, <2>2
<1> QED
  BY <1>2, <1>4 DEF Newer

(* More may be sent than the page gets. *)
LEMMA NewerGrows ==
    ASSUME NEW list \in Seq(1..MaxSent), NEW q \in Seq(Messages), NEW n \in Nat,
           Newer(list, q, n), NEW k \in {n, n + 1}
    PROVE  Newer(list, q, k)
<1>1. \A i \in 1..Len(list) : list[i] \in Nat /\ list[i] <= n
  BY LengthsAssumption DEF Newer
<1>2. \A i \in 1..Len(q) : q[i].type = "header" => q[i].data \in Nat /\ q[i].data <= n
  BY MessageData, LengthsAssumption DEF Newer
<1>3. \A x \in Nat : x <= n => x <= k
  OBVIOUS
<1> QED
  BY <1>1, <1>2, <1>3 DEF Newer

(* A message that is not shown takes nothing from the order. *)
LEMMA NewerTail ==
    ASSUME NEW list, NEW q \in Seq(Messages), NEW n, Newer(list, q, n), q # <<>>
    PROVE  Newer(list, Tail(q), n)
<1>1. /\ Len(Tail(q)) = Len(q) - 1
      /\ \A i \in 1..Len(Tail(q)) : Tail(q)[i] = q[i + 1] /\ i + 1 \in 1..Len(q)
  OBVIOUS
<1> QED
  BY <1>1 DEF Newer

(* The header that is shown goes before what is left of the list. *)
LEMMA NewerShown ==
    ASSUME NEW list \in Seq(1..MaxSent), NEW q \in Seq(Messages), NEW n,
           Ordered(list), Newer(list, q, n), q # <<>>, Head(q).type = "header",
           NEW rest \in Seq(1..MaxSent), Len(rest) <= Len(list),
           \A i \in 1..Len(rest) : rest[i] = list[i]
    PROVE  /\ Ordered(<<Head(q).data>> \o rest)
           /\ Newer(<<Head(q).data>> \o rest, Tail(q), n)
<1> DEFINE h == Head(q).data
           r == <<h>> \o rest
<1>1. /\ Len(q) >= 1 /\ Head(q) = q[1] /\ Len(Tail(q)) = Len(q) - 1
      /\ \A i \in 1..Len(Tail(q)) : Tail(q)[i] = q[i + 1] /\ i + 1 \in 1..Len(q)
  OBVIOUS
<1>2. /\ h <= n /\ \A i \in 1..Len(list) : list[i] < h
      /\ \A i \in 1..Len(Tail(q)) :
           Tail(q)[i].type = "header" => h < Tail(q)[i].data
  BY <1>1 DEF Newer
<1>3. Head(q) \in Messages
  BY <1>1
<1>4. h \in 1..MaxSent
  BY <1>3, MessageData
<1>5. /\ Len(r) = Len(rest) + 1 /\ r[1] = h
      /\ \A i \in 1..Len(r) : i # 1 => i - 1 \in 1..Len(rest) /\ r[i] = rest[i - 1]
  BY <1>4
<1>6. \A i \in 1..Len(r) : i # 1 => i - 1 \in 1..Len(list) /\ r[i] = list[i - 1]
  BY <1>5
<1>7. \A i \in 1..Len(list) : list[i] \in Nat
  BY LengthsAssumption
<1> HIDE DEF h, r
<1>8. Ordered(r)
  <2> SUFFICES ASSUME NEW i \in 1..Len(r), NEW j \in 1..Len(r), i < j
               PROVE  r[i] > r[j]
    BY DEF Ordered
  <2>1. j # 1 /\ j - 1 \in 1..Len(list) /\ r[j] = list[j - 1]
    BY <1>5, <1>6
  <2>2. CASE i = 1
    BY <1>2, <1>4, <1>5, <1>7, <2>1, <2>2
  <2>3. CASE i # 1
    <3>1. i - 1 \in 1..Len(list) /\ r[i] = list[i - 1] /\ i - 1 < j - 1
      BY <1>6, <2>3
    <3> QED
      BY <2>1, <3>1 DEF Ordered
  <2> QED
    BY <2>2, <2>3
<1>9. Newer(r, Tail(q), n)
  <2>1. Newer(list, Tail(q), n)
    BY NewerTail
  <2> QED
    BY <1>2, <1>5, <1>6, <2>1 DEF Newer
<1> QED
  BY <1>8, <1>9 DEF r, h

(* PushHeader keeps the beginning of the list behind the new header. *)
LEMMA PushKeeps ==
    ASSUME TypeOK, NEW n, PushHeader(n)
    PROVE  \E rest \in Seq(1..MaxSent) :
             /\ recentHeaders' = <<n>> \o rest
             /\ Len(rest) <= Len(recentHeaders)
             /\ \A i \in 1..Len(rest) : rest[i] = recentHeaders[i]
<1> DEFINE T == 1..MaxSent
<1>1. recentHeaders \in Seq(T) /\ Len(recentHeaders) \in Nat
  BY DEF TypeOK
<1>2. CASE Len(recentHeaders) < MaxHeaders
  BY <1>1, <1>2 DEF PushHeader
<1>3. CASE ~(Len(recentHeaders) < MaxHeaders)
  <2> DEFINE k == Len(recentHeaders) - 1
             rest == SubSeq(recentHeaders, 1, k)
  <2>1. k \in 0..Len(recentHeaders)
    BY <1>1, <1>3, LengthsAssumption
  <2>2. rest \in Seq(T) /\ Len(rest) = k /\ k \in Nat /\ k <= Len(recentHeaders)
        /\ \A i \in 1..k : rest[i] = recentHeaders[i]
    <3> HIDE DEF k, T
    <3> QED
      BY <1>1, <2>1
  <2>3. recentHeaders' = <<n>> \o rest
    BY <1>3 DEF PushHeader, Front
  <2> QED
    BY <2>1, <2>2, <2>3
<1> QED
  BY <1>2, <1>3

LEMMA FeedInit == Init => FeedOrder
BY DEF Init, FeedOrder, Ordered, Newer

LEMMA FeedStep == TypeOK /\ OneLifeline /\ FeedOrder /\ [Next]_vars => FeedOrder'
<1> SUFFICES ASSUME TypeOK, OneLifeline, FeedOrder, [Next]_vars PROVE FeedOrder'
  OBVIOUS
<1>0. /\ recentHeaders \in Seq(1..MaxSent) /\ inbox[ws] \in Seq(Messages)
      /\ sent \in Nat /\ ws \in Sockets
  BY LengthsAssumption DEF TypeOK
<1>1. ASSUME UNCHANGED <<sent, inbox, ws, recentHeaders>> PROVE FeedOrder'
  BY <1>1 DEF FeedOrder
<1>2. CASE Down \/ Up \/ StatusChanges
  BY <1>1, <1>2 DEF Down, Up, StatusChanges, socket, shown
<1>3. ASSUME NEW m \in Messages, Send(m), sent' \in {sent, sent + 1},
             m.type = "header" => m.data = sent + 1 /\ sent' = sent + 1
      PROVE  FeedOrder'
  <2>1. UNCHANGED <<ws, recentHeaders>>
    BY <1>3 DEF Send, shown
  <2>2. inbox'[ws] = inbox[ws] \/ inbox'[ws] = inbox[ws] \o <<m>>
    <3> PICK S \in SUBSET Sockets :
          inbox' = [s \in Sockets |-> inbox[s] \o IF s \in S THEN <<m>> ELSE <<>>]
      BY <1>3 DEF Send
    <3>1. inbox'[ws] = inbox[ws] \o IF ws \in S THEN <<m>> ELSE <<>>
      BY <1>0
    <3>2. CASE ws \in S
      BY <3>1, <3>2
    <3>3. CASE ws \notin S
      <4>1. inbox[ws] \o <<>> = inbox[ws]
        BY <1>0
      <4> QED
        BY <3>1, <3>3, <4>1
    <3> QED
      BY <3>2, <3>3
  <2>3. Newer(recentHeaders, inbox[ws] \o <<m>>, sent')
    BY <1>0, <1>3, NewerSent DEF FeedOrder
  <2>4. Newer(recentHeaders, inbox[ws], sent')
    <3>1. Newer(recentHeaders, inbox[ws], sent)
      BY DEF FeedOrder
    <3> QED
      BY <1>0, <1>3, <3>1, NewerGrows
  <2> QED
    BY <2>1, <2>2, <2>3, <2>4 DEF FeedOrder
<1>4. CASE SendHeader
  <2>1. sent + 1 \in 1..MaxSent
    BY <1>0, <1>4, LengthsAssumption DEF SendHeader
  <2>2. Header(sent + 1) \in Messages /\ Header(sent + 1).data = sent + 1
    BY <2>1, HeaderType DEF Header
  <2> QED
    BY <1>3, <1>4, <2>2 DEF SendHeader
<1>5. CASE SendStatus
  <2>1. Status(current) \in Messages /\ Status(current).type # "header"
    BY StatusType DEF TypeOK, Status
  <2> QED
    BY <1>3, <1>5, <2>1 DEF SendStatus
<1>6. CASE Reconnect
  <2>1. CASE blocked
    BY <1>1, <1>6, <2>1 DEF Reconnect, ConnectWS, server, shown
  <2>2. CASE ~blocked
    <3>1. ws' \in Sockets /\ inbox' = [inbox EXCEPT ![ws'] = <<>>]
      BY <1>6, <2>2 DEF Reconnect, ConnectWS
    <3>2. inbox'[ws'] = <<>>
      BY <3>1 DEF TypeOK
    <3>3. UNCHANGED <<sent, recentHeaders>>
      BY <1>6 DEF Reconnect, server, shown
    <3> QED
      BY <3>2, <3>3 DEF FeedOrder, Newer
  <2> QED
    BY <2>1, <2>2
<1>7. CASE \E s \in Sockets : OnOpen(s)
  BY <1>1, <1>7 DEF OnOpen, server, shown
<1>8. CASE \E s \in Sockets : OnMessage(s)
  <2> PICK s \in Sockets : OnMessage(s)
    BY <1>8
  <2>1. s = ws /\ inbox[ws] # <<>>
    BY DEF OnMessage, OneLifeline, Live
  <2>2. inbox'[ws] = Tail(inbox[ws]) /\ UNCHANGED <<sent, ws>>
    BY <1>0, <2>1 DEF OnMessage, server, TypeOK
  <2>3. CASE UNCHANGED recentHeaders
    <3>1. Newer(recentHeaders, Tail(inbox[ws]), sent)
      BY <1>0, <2>1, NewerTail DEF FeedOrder
    <3> QED
      BY <2>2, <2>3, <3>1 DEF FeedOrder
  <2>4. CASE /\ Head(inbox[ws]).type = "header"
             /\ PushHeader(Head(inbox[ws]).data)
    <3> PICK rest \in Seq(1..MaxSent) :
          /\ recentHeaders' = <<Head(inbox[ws]).data>> \o rest
          /\ Len(rest) <= Len(recentHeaders)
          /\ \A i \in 1..Len(rest) : rest[i] = recentHeaders[i]
      BY <2>4, PushKeeps
    <3>1. /\ Ordered(recentHeaders')
          /\ Newer(recentHeaders', Tail(inbox[ws]), sent)
      BY <1>0, <2>1, <2>4, NewerShown DEF FeedOrder
    <3> QED
      BY <2>2, <3>1 DEF FeedOrder
  <2> QED
    BY <2>1, <2>3, <2>4 DEF OnMessage, shown
<1>9. CASE \E s \in Sockets : \E failed \in BOOLEAN : OnClose(s, failed)
  BY <1>1, <1>9 DEF OnClose, server, shown
<1>10. CASE \/ \E f \in Fetches : Navigate(f)
            \/ \E f \in Fetches : Show(f)
            \/ \E f \in Fetches : \E r \in {"status", "headers"} : Settle(f, r)
  BY <1>1, <1>10 DEF Navigate, Show, Settle, server, socket, shown
<1>11. CASE UNCHANGED vars
  BY <1>1, <1>11 DEF vars, server, socket, shown
<1> QED
  BY <1>2, <1>4, <1>5, <1>6, <1>7, <1>8, <1>9, <1>10, <1>11, NextActions

(* The headers a page shows are in the order of the chain and none is      *)
(* there twice, however its connections end and whatever the hub drops.    *)
THEOREM HeadersAlwaysInOrder == Spec => []HeadersInOrder
<1>1. Spec => [](TypeOK /\ OneLifeline /\ FeedOrder)
  BY TypeInit, TypeStep, LifelineInit, LifelineStep, FeedInit, FeedStep, PTL DEF Spec
<1>2. FeedOrder => HeadersInOrder
  BY DEF FeedOrder, Ordered, HeadersInOrder
<1> QED
  BY <1>1, <1>2, PTL

-----------------------------------------------------------------------------
(* The list and the chart. *)

(* The points of the chart, from the newest to the oldest, begin with list.*)
Follows(list, points) ==
    /\ Len(list) <= Len(points)
    /\ \A i \in 1..Len(list) : list[i] = points[Len(points) + 1 - i]

LEMMA FollowsIsPrefix ==
    ASSUME NEW S, NEW list \in Seq(S), NEW points \in Seq(S), Follows(list, points)
    PROVE  IsPrefix(list, Reverse(points))
<1> DEFINE r == Reverse(points)
<1>1. /\ r \in Seq(S) /\ Len(r) = Len(points)
      /\ \A i \in 1..Len(points) : r[i] = points[Len(points) + 1 - i]
  <2>1. \A i \in 1..Len(points) : Len(points) - i + 1 \in 1..Len(points)
                                  /\ Len(points) - i + 1 = Len(points) + 1 - i
    OBVIOUS
  <2> QED
    BY <2>1 DEF Reverse
<1> HIDE DEF r
<1>2. Len(list) \in 0..Len(r)
  BY <1>1 DEF Follows
<1>3. \A i \in 1..Len(list) : list[i] = r[i]
  BY <1>1, <1>2 DEF Follows
<1>4. /\ SubSeq(r, 1, Len(list)) \in Seq(S) /\ Len(SubSeq(r, 1, Len(list))) = Len(list)
      /\ \A i \in 1..Len(list) : SubSeq(r, 1, Len(list))[i] = r[i]
  BY <1>1, <1>2
<1>5. SubSeq(r, 1, Len(list)) = list /\ SubSeq(list, 1, Len(list)) = list
  BY <1>3, <1>4
<1>6. IsPrefix(list, r)
  BY <1>2, <1>5 DEF IsPrefix
<1> QED
  BY <1>6 DEF r

(* With MaxHeaders <= MaxPoints, the list never outlasts the chart. *)
LEMMA PushFollows ==
    ASSUME TypeOK, NEW n \in 1..MaxSent, PushHeader(n), Follows(recentHeaders, chart)
    PROVE  Follows(recentHeaders', chart')
<1> DEFINE T == 1..MaxSent
<1>1. /\ chart \in Seq(T) /\ recentHeaders \in Seq(T) /\ n \in T
      /\ Len(recentHeaders) \in Nat /\ Len(chart) \in Nat
  BY DEF TypeOK
<1> HIDE DEF T
<1>2. PICK rest \in Seq(T) :
        /\ recentHeaders' = <<n>> \o rest
        /\ Len(rest) <= Len(recentHeaders) /\ Len(rest) < MaxHeaders
        /\ \A i \in 1..Len(rest) : rest[i] = recentHeaders[i]
  <2>1. CASE Len(recentHeaders) < MaxHeaders
    BY <1>1, <2>1 DEF PushHeader
  <2>2. CASE ~(Len(recentHeaders) < MaxHeaders)
    <3> DEFINE k == Len(recentHeaders) - 1
               front == SubSeq(recentHeaders, 1, k)
    <3>1. k \in 0..Len(recentHeaders) /\ k < MaxHeaders
      BY <1>1, <2>2, LengthsAssumption DEF TypeOK
    <3>2. front \in Seq(T) /\ Len(front) = k
          /\ \A i \in 1..k : front[i] = recentHeaders[i]
      <4> HIDE DEF k
      <4> QED
        BY <1>1, <3>1
    <3>3. recentHeaders' = <<n>> \o front
      BY <2>2 DEF PushHeader, Front
    <3> HIDE DEF front
    <3>4. /\ Len(front) <= Len(recentHeaders) /\ Len(front) < MaxHeaders
          /\ \A i \in 1..Len(front) : front[i] = recentHeaders[i]
      BY <1>1, <3>1, <3>2
    <3> QED
      BY <3>2, <3>3, <3>4
  <2> QED
    BY <2>1, <2>2
<1>3. PICK kept \in Seq(T) :
        /\ chart' = Append(kept, n)
        /\ \/ Len(kept) = Len(chart)
           \/ Len(kept) + 1 = Len(chart) /\ Len(chart) >= MaxPoints
        /\ \A i \in 1..Len(kept) :
             kept[Len(kept) + 1 - i] = chart[Len(chart) + 1 - i]
  <2>1. CASE Len(chart) < MaxPoints
    <3>1. chart' = Append(chart, n)
      BY <2>1 DEF PushHeader, PushPoint
    <3> QED
      BY <1>1, <3>1
  <2>2. CASE ~(Len(chart) < MaxPoints)
    <3> DEFINE tail == Tail(chart)
    <3>1. /\ tail \in Seq(T) /\ Len(tail) = Len(chart) - 1 /\ Len(tail) \in Nat
          /\ \A i \in 1..Len(tail) : tail[i] = chart[i + 1]
      <4>1. Len(chart) >= 1 /\ chart # <<>>
        BY <1>1, <2>2, LengthsAssumption
      <4> QED
        BY <1>1, <4>1
    <3>2. chart' = Append(tail, n)
      BY <2>2 DEF PushHeader, PushPoint
    <3> HIDE DEF tail
    <3>3. ASSUME NEW i \in 1..Len(tail)
          PROVE  tail[Len(tail) + 1 - i] = chart[Len(chart) + 1 - i]
      <4>1. /\ Len(tail) + 1 - i \in 1..Len(tail)
            /\ Len(tail) + 1 - i + 1 = Len(chart) + 1 - i
        BY <1>1, <3>1
      <4> QED
        BY <3>1, <4>1
    <3>4. Len(tail) + 1 = Len(chart) /\ Len(chart) >= MaxPoints
      BY <1>1, <2>2, <3>1, LengthsAssumption
    <3> QED
      BY <3>1, <3>2, <3>3, <3>4
  <2> QED
    BY <2>1, <2>2
<1> DEFINE list == <<n>> \o rest
           points == Append(kept, n)
<1>4. /\ Len(list) = Len(rest) + 1 /\ list[1] = n
      /\ \A i \in 1..Len(list) : i # 1 => i - 1 \in 1..Len(rest) /\ list[i] = rest[i - 1]
  BY <1>1
<1>5. /\ Len(points) = Len(kept) + 1 /\ points[Len(points)] = n
      /\ \A i \in 1..Len(kept) : points[i] = kept[i]
  BY <1>1
<1>6. Len(rest) <= Len(kept) /\ Len(rest) \in Nat /\ Len(kept) \in Nat
  BY <1>1, <1>2, <1>3, LengthsAssumption DEF Follows
<1> HIDE DEF list, points
<1>7. ASSUME NEW i \in 1..Len(list)
      PROVE  list[i] = points[Len(points) + 1 - i]
  <2>1. CASE i = 1
    BY <1>4, <1>5, <1>6, <2>1
  <2>2. CASE i # 1
    <3>1. i - 1 \in 1..Len(rest) /\ list[i] = rest[i - 1]
      BY <1>4, <2>2
    <3>2. i - 1 \in 1..Len(recentHeaders) /\ rest[i - 1] = recentHeaders[i - 1]
      BY <1>1, <1>2, <1>6, <3>1
    <3>3. recentHeaders[i - 1] = chart[Len(chart) + 1 - (i - 1)]
      BY <3>2 DEF Follows
    <3>4. i - 1 \in 1..Len(kept)
      BY <1>6, <3>1
    <3>5. kept[Len(kept) + 1 - (i - 1)] = chart[Len(chart) + 1 - (i - 1)]
      BY <1>3, <3>4
    <3>6. /\ Len(points) + 1 - i = Len(kept) + 1 - (i - 1)
          /\ Len(kept) + 1 - (i - 1) \in 1..Len(kept)
      BY <1>5, <1>6, <3>4
    <3> QED
      BY <1>5, <3>1, <3>2, <3>3, <3>5, <3>6
  <2> QED
    BY <2>1, <2>2
<1>8. Follows(list, points)
  BY <1>4, <1>5, <1>6, <1>7 DEF Follows
<1> QED
  BY <1>2, <1>3, <1>8 DEF list, points

ChartInv == Follows(recentHeaders, chart)

LEMMA ChartInit == Init => ChartInv
BY DEF Init, ChartInv, Follows

LEMMA ChartStep == TypeOK /\ ChartInv /\ [Next]_vars => ChartInv'
<1> SUFFICES ASSUME TypeOK, ChartInv, [Next]_vars PROVE ChartInv'
  OBVIOUS
<1>1. ASSUME UNCHANGED <<recentHeaders, chart>> PROVE ChartInv'
  BY <1>1 DEF ChartInv
<1>2. CASE \E s \in Sockets : OnMessage(s)
  <2> PICK s \in Sockets : OnMessage(s)
    BY <1>2
  <2> DEFINE m == Head(inbox[s])
  <2>1. m \in Messages
    BY DEF OnMessage, TypeOK
  <2>2. CASE m.type = "header" /\ PushHeader(m.data)
    <3>1. m.data \in 1..MaxSent
      BY <2>1, <2>2, MessageData
    <3> HIDE DEF m
    <3> QED
      BY <2>2, <3>1, PushFollows DEF ChartInv
  <2> QED
    BY <1>1, <2>2 DEF OnMessage, shown
<1>3. CASE ~\E s \in Sockets : OnMessage(s)
  BY <1>1, <1>3, NextActions
     DEF Down, Up, StatusChanges, SendHeader, SendStatus, Send, Reconnect, OnOpen,
         OnClose, Navigate, Show, Settle, vars, shown
<1> QED
  BY <1>2, <1>3

(* The list of headers is the newest part of the chart, whatever the two   *)
(* limits are, as long as that of the list is not the greater one.         *)
THEOREM ChartAlwaysFollows == Spec => []ChartFollowsHeaders
<1>1. Spec => [](TypeOK /\ ChartInv)
  BY TypeInit, TypeStep, ChartInit, ChartStep, PTL DEF Spec
<1>2. TypeOK /\ ChartInv => ChartFollowsHeaders
  BY FollowsIsPrefix DEF TypeOK, ChartInv, ChartFollowsHeaders
<1> QED
  BY <1>1, <1>2, PTL
=============================================================================
