--------------------------- MODULE EndPointProofs ---------------------------
(***************************************************************************)
(* Safety of the end points for any number of connections, failures,       *)
(* requests and messages: types and the limit of the transmit queue, that  *)
(* nothing of one session reaches the application of another one, and that *)
(* no connection hangs when the station comes to rest.                     *)
(***************************************************************************)
EXTENDS EndPoint, SequenceTheorems, TLAPS

(***************************************************************************)
(* The operations of the handlers, and those that matter to a session: the *)
(* one that ends it, the one that starts the next one, and the one after   *)
(* which timer2 will do so.                                                *)
(***************************************************************************)
RlfTx == Assign([state |-> "NOT_CONFIGURED", ep_tx |-> FALSE])
RlfRx == Assign([pdcp_tx |-> FALSE, ep_rx |-> FALSE])
RlfEnd == Assign([pdcp_rx |-> FALSE])
ActTx == Assign([state |-> "ACTIVE", pdcp_tx |-> TRUE, pdcp_rx |-> TRUE, ep_tx |-> TRUE])
ActRx == Assign([ep_rx |-> TRUE])
Exchanged == Assign([pdcp_rx |-> FALSE, state |-> "CONFIGURED", timer |-> "activate"])
Requested == Assign([state |-> "CONFIGURING", timer |-> "expire"])
Op == {CheckState, RlfTx, RlfRx, RlfEnd, ActTx, ActRx, Exchanged, Requested}

Has(op, name) == op.op = "assign" /\ name \in DOMAIN op.values
Ends(op) == Has(op, "ep_rx") /\ ~op.values["ep_rx"]
Starts(op) == Has(op, "ep_rx") /\ op.values["ep_rx"]
Opens(op) == Has(op, "ep_tx") /\ op.values["ep_tx"]
Schedules(op) == Has(op, "timer") /\ op.values["timer"] = "activate"

Event == {"setup", "forced", "request", "response", "rlf", "stop"}
Pdcp == [tx : BOOLEAN, rx : BOOLEAN, to_tx : 0..QueueSize, to_rx : Seq(Int)]

(***************************************************************************)
(* Types.  TxAccept finds a connection to accept: select has seen one, and *)
(* no other thread accepts it.                                             *)
(***************************************************************************)
Sockets ==
  /\ conns \in Seq(Connection) /\ sock \in 0..Len(conns)
  /\ backlog \in Seq(1..Len(conns))
  /\ recv_set \subseteq {"event", "server", "sock"}
  /\ pc \in {"top", "select", "recv", "to_tx", "accept", "event"}
  /\ pc \in {"recv", "to_tx", "accept"} /\ "server" \in recv_set => backlog # <<>>
  /\ pc = "accept" => "server" \in recv_set
Control ==
  /\ txrx_state \in {"NOT_CONFIGURED", "CONFIGURING", "CONFIGURED", "ACTIVE"}
  /\ timers \subseteq {"expire", "activate"}
  /\ is_tx_enabled \in BOOLEAN /\ is_rx_enabled \in BOOLEAN
  /\ pdcp \in Pdcp
  /\ rrc_events \in Seq(Event) /\ batch \in Seq(Event)
  /\ todo \in [{"reactor", "timer2"} -> Seq(Op)]
  /\ session \in Int
  /\ running \subseteq Thread
TypeInv == Sockets /\ Control

(***************************************************************************)
(* All that was received and not sent yet was received in this session.    *)
(* It is so while the channel is active and before it is: an activation    *)
(* starts with nothing left over, and no session ends during one.          *)
(***************************************************************************)
Ending(t) == \E k \in 1..Len(todo[t]) : Ends(todo[t][k])
Starting(t) == \E k \in 1..Len(todo[t]) : Starts(todo[t][k])
AllCurrent ==
  /\ pending \in {None, session}
  /\ \A k \in 1..Len(pdcp.to_rx) : pdcp.to_rx[k] = session

Current == set.kind = "TCPS" /\ (is_active \/ Starting("timer2")) => AllCurrent
Apart ==
  /\ Ending("reactor") => ~Starting("timer2") /\ "activate" \notin timers
  /\ Ending("timer2") => ~Starting("timer2")
  /\ ~Starting("reactor")
Ordered ==
  /\ \A k \in 1..Len(todo["timer2"]) : ~Schedules(todo["timer2"][k])
  /\ \A j, k \in 1..Len(todo["reactor"]) :
       j < k => ~(Schedules(todo["reactor"][j]) /\ Ends(todo["reactor"][k]))
  /\ \A k \in 1..Len(todo["timer2"]) :
       Opens(todo["timer2"][k]) =>
         \E j \in (k + 1)..Len(todo["timer2"]) : Starts(todo["timer2"][j])
  /\ \A k \in 1..Len(todo["reactor"]) : ~Opens(todo["reactor"][k])

SessionInv == Current /\ Apart /\ Ordered /\ OwnSession
EInv == TypeInv /\ SessionInv
-----------------------------------------------------------------------------
(* The fields of an assignment. *)
LEMMA AssignValues ==
  ASSUME NEW values
  PROVE  Assign(values).op = "assign" /\ Assign(values).values = values
BY DEF Assign

(* What the operations do, read off their records. *)
LEMMA OpFacts ==
  /\ Ends(RlfRx) /\ Starts(ActRx) /\ Opens(ActTx) /\ Schedules(Exchanged)
  /\ \A op \in Op \ {RlfRx} : ~Ends(op)
  /\ \A op \in {CheckState, RlfTx, RlfRx, RlfEnd, ActTx, Exchanged, Requested} : ~Starts(op)
  /\ \A op \in {CheckState, RlfTx, RlfRx, RlfEnd, ActRx, Exchanged, Requested} : ~Opens(op)
  /\ \A op \in {CheckState, RlfTx, RlfRx, RlfEnd, ActTx, ActRx, Requested} : ~Schedules(op)
<1>1. /\ Ends(RlfRx) /\ Starts(ActRx) /\ Opens(ActTx) /\ Schedules(Exchanged)
  BY DEF Ends, Starts, Opens, Schedules, Has, RlfRx, ActRx, ActTx, Exchanged, Assign
<1>2. /\ ~Ends(CheckState) /\ ~Starts(CheckState) /\ ~Opens(CheckState)
      /\ ~Schedules(CheckState)
  BY DEF Ends, Starts, Opens, Schedules, Has, CheckState
<1>3. ~Ends(RlfTx) /\ ~Starts(RlfTx) /\ ~Opens(RlfTx) /\ ~Schedules(RlfTx)
  BY DEF Ends, Starts, Opens, Schedules, Has, RlfTx, Assign
<1>4. ~Starts(RlfRx) /\ ~Opens(RlfRx) /\ ~Schedules(RlfRx)
  BY DEF Starts, Opens, Schedules, Has, RlfRx, Assign
<1>5. ~Ends(RlfEnd) /\ ~Starts(RlfEnd) /\ ~Opens(RlfEnd) /\ ~Schedules(RlfEnd)
  BY DEF Ends, Starts, Opens, Schedules, Has, RlfEnd, Assign
<1>6. ~Ends(ActTx) /\ ~Starts(ActTx) /\ ~Schedules(ActTx)
  BY DEF Ends, Starts, Schedules, Has, ActTx, Assign
<1>7. ~Ends(ActRx) /\ ~Opens(ActRx) /\ ~Schedules(ActRx)
  BY DEF Ends, Opens, Schedules, Has, ActRx, Assign
<1>8. ~Ends(Exchanged) /\ ~Starts(Exchanged) /\ ~Opens(Exchanged)
  BY DEF Ends, Starts, Opens, Has, Exchanged, Assign
<1>9. ~Ends(Requested) /\ ~Starts(Requested) /\ ~Opens(Requested) /\ ~Schedules(Requested)
  BY DEF Ends, Starts, Opens, Schedules, Has, Requested, Assign
<1>10. QED
  BY <1>1, <1>2, <1>3, <1>4, <1>5, <1>6, <1>7, <1>8, <1>9 DEF Op

(* The handlers, operation by operation. *)
LEMMA Handlers ==
  /\ on_rlf = <<RlfTx, CheckState, RlfRx, CheckState, RlfEnd>>
  /\ activate = <<ActTx, CheckState, ActRx, CheckState>>
  /\ on_exchange = <<Exchanged>>
  /\ \A forced \in BOOLEAN : on_init(forced) \in {<<>>, <<Requested>>}
BY DEF on_rlf, activate, on_exchange, on_init, RlfTx, RlfRx, RlfEnd, ActTx, ActRx, Exchanged,
       Requested

(* A handler of the reactor starts no session and schedules an activation  *)
(* last; one that ends a session is on_rlf, or precedes on_exchange.       *)
Harmless(s) ==
  /\ s \in Seq(Op)
  /\ \A k \in 1..Len(s) : ~Starts(s[k]) /\ ~Opens(s[k])
  /\ \A k \in 1..Len(s) : Schedules(s[k]) => k = Len(s)

(* on_rlf is such a handler. *)
LEMMA RlfHarmless == Harmless(on_rlf) /\ Len(on_rlf) = 5 /\ \A k \in 1..5 : ~Schedules(on_rlf[k])
<1> DEFINE s == on_rlf
<1>1. s = <<RlfTx, CheckState, RlfRx, CheckState, RlfEnd>>
  BY Handlers
<1>2. {RlfTx, CheckState, RlfRx, RlfEnd} \subseteq Op
  BY DEF Op
<1>3. /\ s \in Seq(Op) /\ Len(s) = 5
      /\ s[1] = RlfTx /\ s[2] = CheckState /\ s[3] = RlfRx /\ s[4] = CheckState /\ s[5] = RlfEnd
  BY <1>1, <1>2
<1> HIDE DEF s
<1>4. \A k \in 1..5 : s[k] \in {CheckState, RlfTx, RlfRx, RlfEnd}
  BY <1>3
<1>5. \A k \in 1..5 : ~Starts(s[k]) /\ ~Opens(s[k]) /\ ~Schedules(s[k])
  BY <1>4, OpFacts
<1>6. Harmless(s) /\ Len(s) = 5 /\ \A k \in 1..5 : ~Schedules(s[k])
  BY <1>3, <1>5 DEF Harmless
<1>7. QED
  BY <1>6 DEF s

(* So is every handler, and only two events end a session. *)
LEMMA HandlerHarmless ==
  ASSUME NEW event \in Event
  PROVE  /\ Harmless(Handler(event))
         /\ \/ event = "rlf" \/ (event = "request" /\ txrx_state = "ACTIVE")
            \/ \A k \in 1..Len(Handler(event)) : ~Ends(Handler(event)[k])
<1>1. Exchanged \in Op /\ Requested \in Op
  BY DEF Op
<1>2. \A s \in {<<>>, <<Requested>>, <<Exchanged>>} :
        Harmless(s) /\ \A k \in 1..Len(s) : ~Ends(s[k])
  <2>1. Harmless(<<>>) /\ \A k \in 1..Len(<<>>) : ~Ends(<<>>[k])
    BY DEF Harmless
  <2>2. ~Ends(Requested) /\ ~Starts(Requested) /\ ~Opens(Requested)
    BY DEF Ends, Starts, Opens, Has, Requested, Assign
  <2>3. Harmless(<<Requested>>) /\ \A k \in 1..Len(<<Requested>>) : ~Ends(<<Requested>>[k])
    BY <1>1, <2>2 DEF Harmless
  <2>4. ~Ends(Exchanged) /\ ~Starts(Exchanged) /\ ~Opens(Exchanged)
    BY DEF Ends, Starts, Opens, Has, Exchanged, Assign
  <2>5. Harmless(<<Exchanged>>) /\ \A k \in 1..Len(<<Exchanged>>) : ~Ends(<<Exchanged>>[k])
    BY <1>1, <2>4 DEF Harmless
  <2>6. QED
    BY <2>1, <2>3, <2>5
<1>3. CASE event \in {"setup", "forced", "response", "stop"}
  <2>1. Handler(event) \in {<<>>, <<Requested>>, <<Exchanged>>}
    BY <1>3, Handlers DEF Handler
  <2>2. QED
    BY <1>2, <2>1
<1>4. CASE event = "rlf"
  BY <1>4, RlfHarmless DEF Handler
<1>5. CASE event = "request"
  <2>1. Handler(event) = on_exchange_request
    BY <1>5 DEF Handler
  <2>2. CASE txrx_state = "ACTIVE"
    <3> DEFINE s == on_rlf
               e == <<Exchanged>>
               h == s \o e
    <3>1. Handler(event) = h
      BY <2>1, <2>2, Handlers DEF on_exchange_request
    <3>2. s \in Seq(Op) /\ Len(s) = 5
      BY RlfHarmless DEF Harmless
    <3>3. \A k \in 1..5 : ~Starts(s[k]) /\ ~Opens(s[k]) /\ ~Schedules(s[k])
      BY RlfHarmless DEF Harmless
    <3>4. e \in Seq(Op) /\ Len(e) = 1 /\ e[1] = Exchanged
      BY <1>1
    <3> HIDE DEF s, e
    <3>5. /\ h \in Seq(Op) /\ Len(h) = 6
          /\ (\A k \in 1..5 : h[k] = s[k]) /\ h[6] = Exchanged
      <4>1. /\ h \in Seq(Op) /\ Len(h) = Len(s) + Len(e)
            /\ \A k \in 1..Len(s) + Len(e) : h[k] = IF k <= Len(s) THEN s[k] ELSE e[k - Len(s)]
        BY <3>2, <3>4, ConcatProperties
      <4> HIDE DEF h
      <4>2. Len(h) = 6
        BY <3>2, <3>4, <4>1
      <4>3. \A k \in 1..6 : h[k] = IF k <= 5 THEN s[k] ELSE e[k - 5]
        BY <3>2, <3>4, <4>1
      <4>4. h[6] = e[1]
        BY <4>3
      <4>5. \A k \in 1..5 : h[k] = s[k]
        BY <4>3
      <4>6. QED
        BY <3>4, <4>1, <4>2, <4>4, <4>5
    <3>6. ~Starts(Exchanged) /\ ~Opens(Exchanged)
      BY OpFacts
    <3> HIDE DEF h
    <3>7. \A k \in 1..6 : ~Starts(h[k]) /\ ~Opens(h[k]) /\ (Schedules(h[k]) => k = 6)
      <4> TAKE k \in 1..6
      <4>1. CASE k <= 5
        BY <3>3, <3>5, <4>1
      <4>2. CASE k = 6
        BY <3>5, <3>6, <4>2
      <4>3. QED
        BY <4>1, <4>2
    <3>8. Harmless(h)
      BY <3>5, <3>7 DEF Harmless
    <3>9. QED
      BY <1>5, <2>2, <3>1, <3>8
  <2>3. CASE txrx_state # "ACTIVE"
    <3>1. Handler(event) = <<>> \o <<Exchanged>>
      BY <2>1, <2>3, Handlers DEF on_exchange_request
    <3>2. <<>> \o <<Exchanged>> = <<Exchanged>>
      BY <1>1, ConcatEmptySeq
    <3>3. QED
      BY <1>2, <3>1, <3>2
  <2>4. QED
    BY <2>2, <2>3
<1>6. QED
  BY <1>3, <1>4, <1>5 DEF Event
-----------------------------------------------------------------------------
(* Nothing has happened yet. *)
LEMMA InitE == Init => EInv
<1> SUFFICES ASSUME Init PROVE EInv
  OBVIOUS
<1>1. todo["reactor"] = <<>> /\ todo["timer2"] = <<>>
  BY DEF Init
<1>2. Fresh \in Connection
  BY DEF Fresh, Connection
<1>3. conns \in Seq(Connection) /\ sock \in 0..Len(conns)
  <2>1. CASE set.kind = "UDP"
    <3>1. conns = <<Fresh>> /\ sock = 1
      BY <2>1 DEF Init
    <3>2. QED
      BY <1>2, <3>1
  <2>2. CASE set.kind # "UDP"
    <3>1. conns = <<>> /\ sock = 0
      BY <2>2 DEF Init
    <3>2. QED
      BY <3>1
  <2>3. QED
    BY <2>1, <2>2
<1>4. pdcp \in Pdcp /\ pdcp.to_tx \in 0..QueueSize
  <2>1. 0 \in 0..QueueSize
    BY SizeAssumption
  <2>2. QED
    BY <2>1 DEF Init, Pdcp
<1>5. todo \in [{"reactor", "timer2"} -> Seq(Op)] /\ backlog \in Seq(1..Len(conns))
  BY DEF Init
<1>6. Sockets
  BY <1>3, <1>5 DEF Init, Sockets
<1>7. TypeInv
  <2>1. rrc_events \in Seq(Event) /\ batch \in Seq(Event)
    BY DEF Init
  <2>2. is_tx_enabled \in BOOLEAN /\ is_rx_enabled \in BOOLEAN
    BY DEF Init
  <2>3. pc = "top" /\ session \in Int
    BY DEF Init
  <2>4. QED
    BY <1>4, <1>5, <1>6, <2>1, <2>2, <2>3 DEF Init, TypeInv, Control
<1>8. ~is_active /\ ~Starting("timer2") /\ ~Starting("reactor") /\ ~Ending("reactor")
      /\ ~Ending("timer2")
  BY <1>1 DEF Init, is_active, Starting, Ending
<1>9. Current /\ Apart
  BY <1>8 DEF Current, Apart
<1>10. Ordered /\ OwnSession
  BY <1>1 DEF Ordered, Init, OwnSession
<1>11. QED
  BY <1>7, <1>9, <1>10 DEF EInv, SessionInv

(***************************************************************************)
(* assign, operation by operation: only one that ends a session changes    *)
(* its number, and only others enable the end point.                       *)
(***************************************************************************)
LEMMA AssignEffect ==
  ASSUME TypeInv, NEW t \in {"reactor", "timer2"}, assign(t),
         NEW op, op = Head(todo[t])
  PROVE  /\ op \in Op
         /\ txrx_state' \in {"NOT_CONFIGURED", "CONFIGURING", "CONFIGURED", "ACTIVE"}
         /\ timers' \subseteq {"expire", "activate"}
         /\ is_tx_enabled' \in BOOLEAN /\ is_rx_enabled' \in BOOLEAN
         /\ pdcp' \in Pdcp /\ pdcp'.to_rx = pdcp.to_rx
         /\ ~Schedules(op) /\ "activate" \in timers' => "activate" \in timers
         /\ IF Ends(op) THEN session' = session + 1 /\ ~is_rx_enabled' ELSE session' = session
         /\ ~Starts(op) /\ is_rx_enabled' => is_rx_enabled
         /\ ~Opens(op) /\ is_tx_enabled' => is_tx_enabled
<1> DEFINE v == op.values
           New(name, old) == IF name \in DOMAIN v THEN v[name] ELSE old
<1>1. /\ op \in Op /\ op.op = "assign"
      /\ txrx_state' = New("state", txrx_state)
      /\ is_tx_enabled' = New("ep_tx", is_tx_enabled)
      /\ is_rx_enabled' = New("ep_rx", is_rx_enabled)
      /\ pdcp' = [pdcp EXCEPT !.tx = New("pdcp_tx", @), !.rx = New("pdcp_rx", @),
                              !.to_tx = IF "pdcp_tx" \in DOMAIN v THEN 0 ELSE @]
      /\ timers' = IF "timer" \in DOMAIN v THEN timers \cup {v.timer} ELSE timers
      /\ session' = IF New("ep_rx", TRUE) THEN session ELSE session + 1
  <2>1. op.op = "assign" /\ todo[t] # <<>> /\ todo[t] \in Seq(Op)
    BY DEF assign, Operation, TypeInv, Control
  <2>2. op \in Op
    BY <2>1
  <2>3. QED
    BY <2>1, <2>2 DEF assign
<1>2. /\ "state" \in DOMAIN v => v["state"] \in {"NOT_CONFIGURED", "CONFIGURING", "CONFIGURED", "ACTIVE"}
      /\ "timer" \in DOMAIN v => v["timer"] \in {"expire", "activate"}
      /\ "ep_tx" \in DOMAIN v => v["ep_tx"] \in BOOLEAN
      /\ "ep_rx" \in DOMAIN v => v["ep_rx"] \in BOOLEAN
      /\ "pdcp_tx" \in DOMAIN v => v["pdcp_tx"] \in BOOLEAN
      /\ "pdcp_rx" \in DOMAIN v => v["pdcp_rx"] \in BOOLEAN
  <2>1. op # CheckState
    BY <1>1 DEF CheckState
  <2>2. CASE op = RlfTx
    <3>1. v = [state |-> "NOT_CONFIGURED", ep_tx |-> FALSE]
      BY <2>2, AssignValues DEF RlfTx
    <3> HIDE DEF v
    <3>2. QED
      BY <3>1
  <2>3. CASE op = RlfRx
    <3>1. v = [pdcp_tx |-> FALSE, ep_rx |-> FALSE]
      BY <2>3, AssignValues DEF RlfRx
    <3> HIDE DEF v
    <3>2. QED
      BY <3>1
  <2>4. CASE op = RlfEnd
    <3>1. v = [pdcp_rx |-> FALSE]
      BY <2>4, AssignValues DEF RlfEnd
    <3> HIDE DEF v
    <3>2. QED
      BY <3>1
  <2>5. CASE op = ActTx
    <3>1. v = [state |-> "ACTIVE", pdcp_tx |-> TRUE, pdcp_rx |-> TRUE, ep_tx |-> TRUE]
      BY <2>5, AssignValues DEF ActTx
    <3> HIDE DEF v
    <3>2. QED
      BY <3>1
  <2>6. CASE op = ActRx
    <3>1. v = [ep_rx |-> TRUE]
      BY <2>6, AssignValues DEF ActRx
    <3> HIDE DEF v
    <3>2. QED
      BY <3>1
  <2>7. CASE op = Exchanged
    <3>1. v = [pdcp_rx |-> FALSE, state |-> "CONFIGURED", timer |-> "activate"]
      BY <2>7, AssignValues DEF Exchanged
    <3> HIDE DEF v
    <3>2. QED
      BY <3>1
  <2>8. CASE op = Requested
    <3>1. v = [state |-> "CONFIGURING", timer |-> "expire"]
      BY <2>8, AssignValues DEF Requested
    <3> HIDE DEF v
    <3>2. QED
      BY <3>1
  <2>9. QED
    BY <1>1, <2>1, <2>2, <2>3, <2>4, <2>5, <2>6, <2>7, <2>8 DEF Op
<1>3. v["timer"] = v.timer
  OBVIOUS
<1> HIDE DEF v
<1>4. txrx_state' \in {"NOT_CONFIGURED", "CONFIGURING", "CONFIGURED", "ACTIVE"}
  BY <1>1, <1>2 DEF TypeInv, Control
<1>5. is_tx_enabled' \in BOOLEAN /\ is_rx_enabled' \in BOOLEAN
  BY <1>1, <1>2 DEF TypeInv, Control
<1>6. timers' \subseteq {"expire", "activate"}
  BY <1>1, <1>2, <1>3 DEF TypeInv, Control
<1>7. pdcp' \in Pdcp /\ pdcp'.to_rx = pdcp.to_rx
  <2>1. pdcp \in Pdcp /\ 0 \in 0..QueueSize
    BY SizeAssumption DEF TypeInv, Control
  <2> DEFINE a == New("pdcp_tx", pdcp.tx)
             b == New("pdcp_rx", pdcp.rx)
             c == IF "pdcp_tx" \in DOMAIN v THEN 0 ELSE pdcp.to_tx
  <2>2. a \in BOOLEAN /\ b \in BOOLEAN /\ c \in 0..QueueSize
    BY <1>2, <2>1 DEF Pdcp
  <2>3. pdcp' = [pdcp EXCEPT !.tx = a, !.rx = b, !.to_tx = c]
    BY <1>1, <2>1
  <2> HIDE DEF a, b, c
  <2>4. QED
    BY <2>1, <2>2, <2>3 DEF Pdcp
<1>8. ~Schedules(op) /\ "activate" \in timers' => "activate" \in timers
  BY <1>1, <1>2, <1>3 DEF Schedules, Has, v
<1>9. IF Ends(op) THEN session' = session + 1 /\ ~is_rx_enabled' ELSE session' = session
  BY <1>1, <1>2 DEF Ends, Has, v
<1>10. ~Starts(op) /\ is_rx_enabled' => is_rx_enabled
  BY <1>1, <1>2 DEF Starts, Has, v
<1>11. ~Opens(op) /\ is_tx_enabled' => is_tx_enabled
  BY <1>1, <1>2 DEF Opens, Has, v
<1>12. QED
  BY <1>1, <1>4, <1>5, <1>6, <1>7, <1>8, <1>9, <1>10, <1>11
-----------------------------------------------------------------------------
(* A step that leaves the handlers and the end point's flags alone. *)
LEMMA SameSession ==
  ASSUME SessionInv, UNCHANGED <<set, is_tx_enabled, is_rx_enabled, todo, session, sent>>,
         timers' \subseteq timers, AllCurrent => AllCurrent'
  PROVE  SessionInv'
<1>1. Current'
  BY DEF SessionInv, Current, is_active, Starting
<1>2. Apart'
  BY DEF SessionInv, Apart, Starting, Ending
<1>3. Ordered'
  BY DEF SessionInv, Ordered
<1>4. OwnSession'
  BY DEF SessionInv, OwnSession
<1>5. QED
  BY <1>1, <1>2, <1>3, <1>4 DEF SessionInv

(* What is received does not change either. *)
LEMMA SameReceived ==
  ASSUME SessionInv, UNCHANGED <<set, is_tx_enabled, is_rx_enabled, todo, session, sent, pending>>,
         timers' \subseteq timers, pdcp'.to_rx = pdcp.to_rx
  PROVE  SessionInv'
<1>1. AllCurrent => AllCurrent'
  BY DEF AllCurrent
<1>2. QED
  BY <1>1, SameSession

(* The rest of a handler's operations. *)
LEMMA Rest ==
  ASSUME NEW s \in Seq(Op), s # <<>>
  PROVE  /\ Tail(s) \in Seq(Op) /\ Len(Tail(s)) = Len(s) - 1 /\ Len(s) \in Nat \ {0}
         /\ \A k \in 1..Len(Tail(s)) : k + 1 \in 2..Len(s) /\ Tail(s)[k] = s[k + 1]
         /\ Head(s) = s[1] /\ Head(s) \in Op
OBVIOUS

(* A handler that takes a step has less to do, in the same order. *)
LEMMA Advances ==
  ASSUME TypeInv, Ordered, NEW t \in {"reactor", "timer2"}, todo[t] # <<>>, Done(t)
  PROVE  /\ todo' \in [{"reactor", "timer2"} -> Seq(Op)]
         /\ \A u \in {"reactor", "timer2"} :
              (Ending(u)' => Ending(u)) /\ (Starting(u)' => Starting(u))
         /\ Ordered'
         /\ t = "reactor" /\ Schedules(Head(todo[t])) => ~Ending("reactor")'
<1> DEFINE s == todo[t]
           q == Tail(s)
           Both == {"reactor", "timer2"}
<1>1. s \in Seq(Op) /\ s # <<>> /\ todo \in [Both -> Seq(Op)]
  BY DEF TypeInv, Control
<1>2. /\ q \in Seq(Op) /\ Len(q) = Len(s) - 1 /\ Len(s) \in Nat \ {0}
      /\ \A k \in 1..Len(q) : k + 1 \in 2..Len(s) /\ q[k] = s[k + 1]
      /\ Head(s) = s[1]
  BY <1>1, Rest
<1>3. todo' = [todo EXCEPT ![t] = q]
  BY DEF Done
<1> HIDE DEF q
<1>4. /\ todo' \in [Both -> Seq(Op)] /\ todo'[t] = q
      /\ \A u \in Both : u # t => todo'[u] = todo[u]
  BY <1>1, <1>2, <1>3
<1>5. \A u \in Both : (Ending(u)' => Ending(u)) /\ (Starting(u)' => Starting(u))
  <2> TAKE u \in Both
  <2>1. CASE u # t
    BY <1>4, <2>1 DEF Ending, Starting
  <2>2. CASE u = t
    <3>1. \A k \in 1..Len(q) : k + 1 \in 1..Len(s) /\ q[k] = s[k + 1]
      BY <1>2
    <3>2. (Ending(t)' => Ending(t)) /\ (Starting(t)' => Starting(t))
      BY <1>4, <3>1 DEF Ending, Starting
    <3>3. QED
      BY <2>2, <3>2
  <2>3. QED
    BY <2>1, <2>2
<1>6. Ordered'
  <2>1. \A k \in 1..Len(todo'["timer2"]) : ~Schedules(todo'["timer2"][k])
    <3>1. CASE t = "timer2"
      <4>1. \A k \in 1..Len(q) : k + 1 \in 1..Len(s) /\ q[k] = s[k + 1]
        BY <1>2
      <4>2. \A k \in 1..Len(s) : ~Schedules(s[k])
        BY <3>1 DEF Ordered
      <4>3. QED
        BY <1>4, <3>1, <4>1, <4>2
    <3>2. CASE t # "timer2"
      BY <1>4, <3>2 DEF Ordered
    <3>3. QED
      BY <3>1, <3>2
  <2>2. \A j, k \in 1..Len(todo'["reactor"]) :
          j < k => ~(Schedules(todo'["reactor"][j]) /\ Ends(todo'["reactor"][k]))
    <3>1. CASE t = "reactor"
      <4> SUFFICES ASSUME NEW j \in 1..Len(q), NEW k \in 1..Len(q), j < k
                   PROVE  ~(Schedules(q[j]) /\ Ends(q[k]))
        BY <1>4, <3>1
      <4>1. /\ j + 1 \in 1..Len(s) /\ k + 1 \in 1..Len(s) /\ j + 1 < k + 1
            /\ q[j] = s[j + 1] /\ q[k] = s[k + 1]
        BY <1>2
      <4>2. QED
        BY <3>1, <4>1 DEF Ordered
    <3>2. CASE t # "reactor"
      BY <1>4, <3>2 DEF Ordered
    <3>3. QED
      BY <3>1, <3>2
  <2>3. \A k \in 1..Len(todo'["timer2"]) :
          Opens(todo'["timer2"][k]) =>
            \E j \in (k + 1)..Len(todo'["timer2"]) : Starts(todo'["timer2"][j])
    <3>1. CASE t = "timer2"
      <4> SUFFICES ASSUME NEW k \in 1..Len(q), Opens(q[k])
                   PROVE  \E j \in (k + 1)..Len(q) : Starts(q[j])
        BY <1>4, <3>1
      <4>1. k + 1 \in 1..Len(s) /\ Opens(s[k + 1])
        BY <1>2
      <4>2. PICK i \in (k + 2)..Len(s) : Starts(s[i])
        <5>1. \E i \in (k + 1 + 1)..Len(s) : Starts(s[i])
          BY <3>1, <4>1 DEF Ordered
        <5>2. k + 1 + 1 = k + 2
          OBVIOUS
        <5>3. QED
          BY <5>1, <5>2
      <4>3. i - 1 \in (k + 1)..Len(q) /\ i - 1 \in 1..Len(q) /\ (i - 1) + 1 = i
        BY <1>2
      <4>4. q[i - 1] = s[(i - 1) + 1]
        BY <1>2, <4>3
      <4>5. Starts(q[i - 1])
        BY <4>2, <4>3, <4>4
      <4>6. QED
        BY <4>3, <4>5
    <3>2. CASE t # "timer2"
      BY <1>4, <3>2 DEF Ordered
    <3>3. QED
      BY <3>1, <3>2
  <2>4. \A k \in 1..Len(todo'["reactor"]) : ~Opens(todo'["reactor"][k])
    <3>1. CASE t = "reactor"
      BY <1>2, <1>4, <3>1 DEF Ordered
    <3>2. CASE t # "reactor"
      BY <1>4, <3>2 DEF Ordered
    <3>3. QED
      BY <3>1, <3>2
  <2>5. QED
    BY <2>1, <2>2, <2>3, <2>4 DEF Ordered
<1>7. ASSUME t = "reactor", Schedules(Head(todo[t]))
      PROVE  ~Ending("reactor")'
  <2> SUFFICES ASSUME NEW k \in 1..Len(q), Ends(q[k])
               PROVE  FALSE
    BY <1>4, <1>7 DEF Ending
  <2>1. 1 \in 1..Len(s) /\ k + 1 \in 1..Len(s) /\ 1 < k + 1 /\ q[k] = s[k + 1]
    BY <1>2
  <2>2. Schedules(s[1])
    BY <1>2, <1>7
  <2>3. QED
    BY <1>7, <2>1, <2>2 DEF Ordered
<1>8. QED
  BY <1>4, <1>5, <1>6, <1>7

(* assign keeps what is left over of a session out of the next one. *)
LEMMA AssignSession ==
  ASSUME EInv, NEW t \in {"reactor", "timer2"}, assign(t)
  PROVE  SessionInv'
<1> DEFINE op == Head(todo[t])
<1>1. TypeInv /\ Current /\ Apart /\ Ordered /\ OwnSession
  BY DEF EInv, SessionInv
<1>2. todo[t] # <<>> /\ Done(t) /\ UNCHANGED <<set, rx>>
  BY DEF assign, Operation
<1>3. /\ \A u \in {"reactor", "timer2"} :
           (Ending(u)' => Ending(u)) /\ (Starting(u)' => Starting(u))
      /\ Ordered'
      /\ t = "reactor" /\ Schedules(op) => ~Ending("reactor")'
  BY <1>1, <1>2, Advances
<1>4. /\ op = todo[t][1] /\ op \in Op /\ 1 \in 1..Len(todo[t])
  <2>1. todo[t] \in Seq(Op)
    BY <1>1 DEF TypeInv, Control
  <2>2. QED
    BY <1>2, <2>1
<1>5. /\ pdcp'.to_rx = pdcp.to_rx
      /\ ~Schedules(op) /\ "activate" \in timers' => "activate" \in timers
      /\ IF Ends(op) THEN session' = session + 1 /\ ~is_rx_enabled' ELSE session' = session
      /\ ~Starts(op) /\ is_rx_enabled' => is_rx_enabled
      /\ ~Opens(op) /\ is_tx_enabled' => is_tx_enabled
  BY <1>1, AssignEffect
<1> HIDE DEF op
<1>6. /\ Ends(op) => Ending(t)
      /\ Starts(op) => Starting(t)
  BY <1>4 DEF Ending, Starting
<1>7. Ends(op) => ~Schedules(op)
  BY <1>4, OpFacts
<1>8. Schedules(op) => t = "reactor"
  BY <1>1, <1>4 DEF Ordered
<1>9. Opens(op) => Starting("timer2")
  <2> SUFFICES ASSUME Opens(op) PROVE Starting("timer2")
    OBVIOUS
  <2>1. t = "timer2"
    BY <1>1, <1>4 DEF Ordered
  <2>2. PICK j \in (1 + 1)..Len(todo["timer2"]) : Starts(todo["timer2"][j])
    BY <1>1, <1>4, <2>1 DEF Ordered
  <2>3. j \in 1..Len(todo["timer2"])
    OBVIOUS
  <2>4. QED
    BY <2>2, <2>3 DEF Starting
<1>10. Starts(op) => Starting("timer2")
  BY <1>1, <1>6 DEF Apart
<1>11. Current'
  <2>1. CASE Ends(op)
    <3>1. ~Starting("timer2")
      BY <1>1, <1>6, <2>1 DEF Apart
    <3>2. ~Starting("timer2")' /\ ~is_active'
      BY <1>3, <1>5, <2>1, <3>1 DEF is_active
    <3>3. QED
      BY <3>2 DEF Current
  <2>2. CASE ~Ends(op)
    <3>1. AllCurrent => AllCurrent'
      BY <1>2, <1>5, <2>2 DEF AllCurrent, rx
    <3>2. is_active' => is_active \/ Starting("timer2")
      BY <1>5, <1>9, <1>10 DEF is_active
    <3>3. Starting("timer2")' => Starting("timer2")
      BY <1>3
    <3>4. QED
      BY <1>1, <1>2, <3>1, <3>2, <3>3 DEF Current
  <2>3. QED
    BY <2>1, <2>2
<1>12. Apart'
  <2>1. Ending("reactor")' => ~Starting("timer2")' /\ "activate" \notin timers'
    <3> SUFFICES ASSUME Ending("reactor")'
                 PROVE  ~Starting("timer2")' /\ "activate" \notin timers'
      OBVIOUS
    <3>1. Ending("reactor") /\ ~Schedules(op)
      BY <1>3, <1>8
    <3>2. ~Starting("timer2") /\ "activate" \notin timers
      BY <1>1, <3>1 DEF Apart
    <3>3. QED
      BY <1>3, <1>5, <3>1, <3>2
  <2>2. Ending("timer2")' => ~Starting("timer2")'
    BY <1>1, <1>3 DEF Apart
  <2>3. ~Starting("reactor")'
    BY <1>1, <1>3 DEF Apart
  <2>4. QED
    BY <2>1, <2>2, <2>3 DEF Apart
<1>13. OwnSession'
  BY <1>1, <1>2 DEF OwnSession, rx
<1>14. QED
  BY <1>3, <1>11, <1>12, <1>13 DEF SessionInv

(* A check of the state changes no session. *)
LEMMA CheckSession ==
  ASSUME EInv, NEW t \in {"reactor", "timer2"}, check_state(t)
  PROVE  SessionInv'
<1>1. TypeInv /\ Current /\ Apart /\ Ordered /\ OwnSession
  BY DEF EInv, SessionInv
<1>2. /\ todo[t] # <<>> /\ Done(t)
      /\ UNCHANGED <<set, lcrrc, is_tx_enabled, is_rx_enabled, pdcp, rx>>
  BY DEF check_state, Operation
<1>3. /\ \A u \in {"reactor", "timer2"} :
           (Ending(u)' => Ending(u)) /\ (Starting(u)' => Starting(u))
      /\ Ordered'
  BY <1>1, <1>2, Advances
<1>4. Current'
  <2>1. AllCurrent => AllCurrent'
    BY <1>2 DEF AllCurrent, lcrrc, rx
  <2>2. (is_active' <=> is_active) /\ (Starting("timer2")' => Starting("timer2"))
    BY <1>2, <1>3 DEF is_active
  <2>3. QED
    BY <1>1, <1>2, <2>1, <2>2 DEF Current
<1>5. Apart'
  BY <1>1, <1>2, <1>3 DEF Apart, lcrrc
<1>6. OwnSession'
  BY <1>1, <1>2 DEF OwnSession, rx
<1>7. QED
  BY <1>3, <1>4, <1>5, <1>6 DEF SessionInv

(***************************************************************************)
(* timer2 begins an activation of a server only when nothing is left of an *)
(* earlier session: the rx thread has thrown it away.                      *)
(***************************************************************************)
LEMMA Timer2Session ==
  ASSUME EInv, run_timer2
  PROVE  SessionInv'
<1>1. TypeInv /\ Current /\ Apart /\ Ordered /\ OwnSession
  BY DEF EInv, SessionInv
<1>2. PICK due \in timers :
        /\ due = "activate" => is_active \/ RxIdle
        /\ timers' = timers \ {due}
        /\ todo' = [todo EXCEPT !["timer2"] = IF due = "activate" THEN activate ELSE on_rlf]
  BY DEF run_timer2
<1>3. UNCHANGED <<set, session, is_tx_enabled, is_rx_enabled, pdcp, pending, sent>>
  BY DEF run_timer2, ep, rx
<1>4. todo'["reactor"] = todo["reactor"] /\ todo["timer2"] = <<>>
  BY <1>1, <1>2 DEF TypeInv, Control, run_timer2
<1>5. AllCurrent => AllCurrent'
  BY <1>3 DEF AllCurrent
<1>6. /\ Ending("reactor")' <=> Ending("reactor")
      /\ Starting("reactor")' <=> Starting("reactor")
  BY <1>4 DEF Ending, Starting
<1>7. OwnSession'
  BY <1>1, <1>3 DEF OwnSession
<1>8. CASE due = "activate"
  <2> DEFINE s == activate
  <2>1. s = <<ActTx, CheckState, ActRx, CheckState>>
    BY Handlers
  <2>2. Len(s) = 4 /\ s[1] = ActTx /\ s[2] = CheckState /\ s[3] = ActRx /\ s[4] = CheckState
    BY <2>1
  <2>3. todo'["timer2"] = s
    BY <1>1, <1>2, <1>8 DEF TypeInv, Control
  <2> HIDE DEF s
  <2>4. \A k \in 1..4 : s[k] \in {ActTx, CheckState, ActRx}
    BY <2>2
  <2>5. \A k \in 1..4 : ~Ends(s[k]) /\ ~Schedules(s[k])
    <3>1. \A op \in {ActTx, CheckState, ActRx} : ~Ends(op) /\ ~Schedules(op)
      BY DEF Ends, Schedules, Has, ActTx, CheckState, ActRx, Assign
    <3>2. QED
      BY <2>4, <3>1
  <2>6. ~Ending("timer2")' /\ (\A k \in 1..Len(todo'["timer2"]) : ~Schedules(todo'["timer2"][k]))
    BY <2>2, <2>3, <2>5 DEF Ending
  <2>7. \A k \in 1..4 : Opens(s[k]) => \E j \in (k + 1)..4 : Starts(s[j])
    <3>1. ~Opens(CheckState) /\ ~Opens(ActRx) /\ Starts(ActRx)
      BY OpFacts
    <3> TAKE k \in 1..4
    <3> HAVE Opens(s[k])
    <3>2. k = 1
      BY <2>2, <3>1
    <3>3. 3 \in (k + 1)..4 /\ Starts(s[3])
      BY <2>2, <3>1, <3>2
    <3>4. QED
      BY <3>3
  <2>8. Ordered'
    BY <1>1, <1>4, <2>2, <2>3, <2>6, <2>7 DEF Ordered
  <2>9. Apart'
    BY <1>1, <1>2, <1>6, <1>8, <2>6 DEF Apart
  <2>10. Current'
    <3> SUFFICES ASSUME set.kind = "TCPS" PROVE AllCurrent
      BY <1>3, <1>5 DEF Current
    <3>1. CASE is_active
      BY <1>1, <3>1 DEF Current
    <3>2. CASE RxIdle
      <4>1. pending = None /\ pdcp.to_rx = <<>>
        BY <3>2 DEF RxIdle, ThrownAway
      <4>2. QED
        BY <4>1 DEF AllCurrent
    <3>3. QED
      BY <1>2, <1>8, <3>1, <3>2
  <2>11. QED
    BY <1>7, <2>8, <2>9, <2>10 DEF SessionInv
<1>9. CASE due # "activate"
  <2>1. todo'["timer2"] = on_rlf
    BY <1>1, <1>2, <1>9 DEF TypeInv, Control
  <2>2. \A k \in 1..Len(on_rlf) : ~Starts(on_rlf[k]) /\ ~Opens(on_rlf[k]) /\ ~Schedules(on_rlf[k])
    BY RlfHarmless DEF Harmless
  <2>3. ~Starting("timer2")'
    BY <2>1, <2>2 DEF Starting
  <2>4. Ordered'
    BY <1>1, <1>4, <2>1, <2>2 DEF Ordered
  <2>5. Apart'
    BY <1>1, <1>2, <1>6, <2>3 DEF Apart
  <2>6. Current'
    BY <1>1, <1>3, <1>5, <2>3 DEF Current, is_active
  <2>7. QED
    BY <1>7, <2>4, <2>5, <2>6 DEF SessionInv
<1>10. QED
  BY <1>8, <1>9

(***************************************************************************)
(* HandleEvent: a handler that ends a session starts only when no          *)
(* activation is under way.                                                *)
(***************************************************************************)
LEMMA HandleSession ==
  ASSUME EInv, HandleEvent
  PROVE  SessionInv'
<1> DEFINE event == Head(batch)
           h == Handler(event)
<1>1. TypeInv /\ Current /\ Apart /\ Ordered /\ OwnSession
  BY DEF EInv, SessionInv
<1>2. /\ todo["reactor"] = <<>> /\ batch # <<>>
      /\ event = "rlf" \/ (event = "request" /\ txrx_state = "ACTIVE") => ~Activating
      /\ todo' = [todo EXCEPT !["reactor"] = h]
      /\ timers' \subseteq timers
      /\ UNCHANGED <<set, session, is_tx_enabled, is_rx_enabled, pdcp, pending, sent>>
  BY DEF HandleEvent, ep, rx
<1>3. event \in Event
  BY <1>1, <1>2 DEF TypeInv, Control
<1> HIDE DEF event
<1>4. /\ Harmless(h)
      /\ \/ event = "rlf" \/ (event = "request" /\ txrx_state = "ACTIVE")
         \/ \A k \in 1..Len(h) : ~Ends(h[k])
  BY <1>3, HandlerHarmless
<1> HIDE DEF h
<1>5. todo'["reactor"] = h /\ todo'["timer2"] = todo["timer2"]
  BY <1>1, <1>2 DEF TypeInv, Control
<1>6. AllCurrent => AllCurrent'
  BY <1>2 DEF AllCurrent
<1>7. /\ Ending("timer2")' <=> Ending("timer2")
      /\ Starting("timer2")' <=> Starting("timer2")
  BY <1>5 DEF Ending, Starting
<1>8. Current'
  BY <1>1, <1>2, <1>6, <1>7 DEF Current, is_active
<1>9. ~Starting("reactor")'
  BY <1>4, <1>5 DEF Starting, Harmless
<1>10. Ending("reactor")' => ~Starting("timer2") /\ "activate" \notin timers
  <2> SUFFICES ASSUME Ending("reactor")'
               PROVE  ~Starting("timer2") /\ "activate" \notin timers
    OBVIOUS
  <2>1. \E k \in 1..Len(h) : Ends(h[k])
    BY <1>5 DEF Ending
  <2>2. ~Activating
    BY <1>2, <1>4, <2>1
  <2>3. QED
    BY <2>2 DEF Activating, Starting
<1>11. Apart'
  BY <1>1, <1>2, <1>7, <1>9, <1>10 DEF Apart
<1>12. Ordered'
  <2>1. \A j, k \in 1..Len(h) : j < k => ~(Schedules(h[j]) /\ Ends(h[k]))
    <3>1. Len(h) \in Nat
      BY <1>4 DEF Harmless
    <3>2. QED
      BY <1>4, <3>1 DEF Harmless
  <2>2. \A k \in 1..Len(h) : ~Opens(h[k])
    BY <1>4 DEF Harmless
  <2>3. QED
    BY <1>1, <1>5, <2>1, <2>2 DEF Ordered
<1>13. OwnSession'
  BY <1>1, <1>2 DEF OwnSession
<1>14. QED
  BY <1>8, <1>11, <1>12, <1>13 DEF SessionInv

(* The rx thread, and the radio. *)
LEMMA ReceiveSession ==
  ASSUME EInv, RxTake \/ RxSend \/ RadioReceives
  PROVE  SessionInv'
<1>1. TypeInv /\ SessionInv /\ Current /\ OwnSession
  BY DEF EInv, SessionInv
<1>2. pdcp \in Pdcp /\ pdcp.to_rx \in Seq(Int)
  BY <1>1 DEF TypeInv, Control, Pdcp
<1>3. CASE RxTake
  <2> DEFINE s == pdcp.to_rx
  <2>1. /\ UNCHANGED <<set, is_tx_enabled, is_rx_enabled, todo, session, sent, timers>>
        /\ s # <<>> /\ pending' = Head(s)
    BY <1>3 DEF RxTake, ep, lcrrc
  <2>2. pdcp'.to_rx = Tail(s)
    BY <1>2, <1>3 DEF RxTake, Pdcp
  <2>3. s \in Seq(Int)
    BY <1>2
  <2> HIDE DEF s
  <2>4. /\ Len(Tail(s)) = Len(s) - 1 /\ Len(s) \in Nat \ {0} /\ Head(s) = s[1]
        /\ \A k \in 1..Len(Tail(s)) : k + 1 \in 1..Len(s) /\ Tail(s)[k] = s[k + 1]
    BY <2>1, <2>3
  <2>5. AllCurrent => AllCurrent'
    <3> SUFFICES ASSUME \A k \in 1..Len(s) : s[k] = session
                 PROVE  AllCurrent'
      BY DEF AllCurrent, s
    <3>1. pending' = session
      BY <2>1, <2>4
    <3>2. \A k \in 1..Len(Tail(s)) : Tail(s)[k] = session
      BY <2>4
    <3>3. QED
      BY <2>1, <2>2, <3>1, <3>2 DEF AllCurrent
  <2>6. QED
    BY <1>1, <2>1, <2>5, SameSession
<1>4. CASE RadioReceives
  <2> DEFINE s == pdcp.to_rx
  <2>1. UNCHANGED <<set, is_tx_enabled, is_rx_enabled, todo, session, sent, timers, pending>>
    BY <1>4 DEF RadioReceives, ep, lcrrc, rx
  <2>2. pdcp'.to_rx = Append(s, session)
    BY <1>2, <1>4 DEF RadioReceives, Pdcp
  <2>3. s \in Seq(Int) /\ session \in Int
    BY <1>1, <1>2 DEF TypeInv, Control
  <2> HIDE DEF s
  <2>4. AllCurrent => AllCurrent'
    <3> SUFFICES ASSUME pending \in {None, session}, \A k \in 1..Len(s) : s[k] = session
                 PROVE  AllCurrent'
      BY DEF AllCurrent, s
    <3>1. \A k \in 1..Len(Append(s, session)) : Append(s, session)[k] = session
      BY <2>3
    <3>2. QED
      BY <2>1, <2>2, <3>1 DEF AllCurrent
  <2>5. QED
    BY <1>1, <2>1, <2>4, SameSession
<1>5. CASE RxSend
  <2>1. /\ UNCHANGED <<set, is_tx_enabled, is_rx_enabled, todo, session, timers, pdcp>>
        /\ pending # None /\ pending' = None
        /\ \/ CanSend /\ sent' = sent \cup {<<pending, session>>}
           \/ sent' = sent
    BY <1>5 DEF RxSend, ep, lcrrc
  <2>2. AllCurrent => AllCurrent'
    BY <2>1 DEF AllCurrent
  <2>3. OwnSession'
    <3> SUFFICES ASSUME set.kind = "TCPS", NEW x \in sent'
                 PROVE  x[1] = x[2]
      BY <2>1 DEF OwnSession
    <3>1. CASE x \in sent
      BY <1>1, <3>1 DEF OwnSession
    <3>2. CASE x \notin sent
      <4>1. CanSend /\ x = <<pending, session>>
        BY <2>1, <3>2
      <4>2. is_active
        BY <4>1 DEF CanSend
      <4>3. pending = session
        BY <1>1, <2>1, <4>2 DEF Current, AllCurrent
      <4>4. QED
        BY <4>1, <4>3
    <3>3. QED
      BY <3>1, <3>2
  <2>4. Current'
    BY <1>1, <2>1, <2>2 DEF Current, is_active, Starting
  <2>5. Apart'
    BY <1>1, <2>1 DEF SessionInv, Apart, Starting, Ending
  <2>6. Ordered'
    BY <1>1, <2>1 DEF SessionInv, Ordered
  <2>7. QED
    BY <2>3, <2>4, <2>5, <2>6 DEF SessionInv
<1>6. QED
  BY <1>3, <1>4, <1>5

(* Everything else leaves the sessions alone. *)
LEMMA OtherSession ==
  ASSUME EInv,
         \/ on_rrc_event \/ ReactorReturns \/ Tx \/ \E t \in Thread : ThreadEnds(t)
         \/ on_cmd_stop \/ BeginTeardown \/ Teardown
         \/ AppConnects \/ AppSends \/ AppCloses
         \/ on_cmd_init \/ on_rrc \/ RadioSends \/ RadioFails
  PROVE  SessionInv'
<1>1. SessionInv /\ pdcp \in Pdcp
  BY DEF EInv, TypeInv, Control
<1>2. UNCHANGED <<set, is_tx_enabled, is_rx_enabled, todo, session, sent, pending, timers>>
  <2>1. CASE on_rrc_event \/ ReactorReturns \/ \E t \in Thread : ThreadEnds(t)
    BY <2>1 DEF on_rrc_event, ReactorReturns, ThreadEnds, ep, rx, lcrrc
  <2>2. CASE Tx
    BY <2>2 DEF Tx, TxTop, TxSelect, TxRecv, TxToPdcp, TxAccept, TxEvent, ep, rx, lcrrc
  <2>3. CASE on_cmd_stop \/ BeginTeardown \/ Teardown
    BY <2>3 DEF on_cmd_stop, BeginTeardown, Teardown, ep, rx, lcrrc
  <2>4. CASE AppConnects \/ AppSends \/ AppCloses
    BY <2>4 DEF AppConnects, AppSends, AppCloses, ep, rx, lcrrc
  <2>5. CASE on_cmd_init \/ on_rrc \/ RadioSends \/ RadioFails
    BY <2>5 DEF on_cmd_init, on_rrc, RadioSends, RadioFails, ep, rx, lcrrc
  <2>6. QED
    BY <2>1, <2>2, <2>3, <2>4, <2>5
<1>3. pdcp'.to_rx = pdcp.to_rx
  <2>1. CASE on_rrc_event \/ ReactorReturns \/ \E t \in Thread : ThreadEnds(t)
    BY <2>1 DEF on_rrc_event, ReactorReturns, ThreadEnds
  <2>2. CASE Tx
    <3>1. CASE TxToPdcp
      BY <1>1, <3>1 DEF TxToPdcp, Pdcp
    <3>2. CASE TxTop \/ TxSelect \/ TxRecv \/ TxAccept \/ TxEvent
      BY <3>2 DEF TxTop, TxSelect, TxRecv, TxAccept, TxEvent
    <3>3. QED
      BY <2>2, <3>1, <3>2 DEF Tx
  <2>3. CASE on_cmd_stop \/ BeginTeardown \/ Teardown
    BY <2>3 DEF on_cmd_stop, BeginTeardown, Teardown
  <2>4. CASE AppConnects \/ AppSends \/ AppCloses
    BY <2>4 DEF AppConnects, AppSends, AppCloses
  <2>5. CASE on_cmd_init \/ on_rrc \/ RadioFails
    BY <2>5 DEF on_cmd_init, on_rrc, RadioFails
  <2>6. CASE RadioSends
    BY <1>1, <2>6 DEF RadioSends, Pdcp
  <2>7. QED
    BY <2>1, <2>2, <2>3, <2>4, <2>5, <2>6
<1>4. QED
  BY <1>1, <1>2, <1>3, SameReceived
-----------------------------------------------------------------------------
(* What the invariants imply for TypeOK. *)
LEMMA TypesOK == TypeInv => TypeOK
BY DEF TypeInv, Sockets, Control, TypeOK, Pdcp

(* A connection more leaves those that wait valid. *)
LEMMA Grown ==
  ASSUME Sockets
  PROVE  /\ Append(conns, Fresh) \in Seq(Connection)
         /\ Len(Append(conns, Fresh)) = Len(conns) + 1
         /\ Len(conns) \in Nat
         /\ backlog \in Seq(1..(Len(conns) + 1))
<1>1. Fresh \in Connection
  BY DEF Fresh, Connection
<1>2. conns \in Seq(Connection)
  BY DEF Sockets
<1>3. Len(conns) \in Nat /\ \A c \in 1..Len(conns) : c \in 1..(Len(conns) + 1)
  BY <1>2
<1>4. backlog \in Seq(1..(Len(conns) + 1))
  <2>1. backlog \in Seq(1..Len(conns))
    BY DEF Sockets
  <2>2. Len(backlog) \in Nat /\ DOMAIN backlog = 1..Len(backlog)
        /\ \A k \in 1..Len(backlog) : backlog[k] \in 1..(Len(conns) + 1)
    BY <1>3, <2>1
  <2>3. backlog \in [1..Len(backlog) -> 1..(Len(conns) + 1)]
    BY <2>1, <2>2
  <2>4. QED
    BY <2>2, <2>3
<1>5. QED
  BY <1>1, <1>2, <1>3, <1>4

(* push_rrc_event. *)
LEMMA Pushed ==
  ASSUME Control, NEW e \in Event, rrc_events' = rrc_events \/ rrc_events' = Append(rrc_events, e)
  PROVE  rrc_events' \in Seq(Event)
<1>1. rrc_events \in Seq(Event)
  BY DEF Control
<1>2. Append(rrc_events, e) \in Seq(Event)
  BY <1>1
<1>3. QED
  BY <1>1, <1>2

(* The operations of the handlers. *)
LEMMA StepTypes ==
  ASSUME EInv, NEW t \in {"reactor", "timer2"}, Step(t)
  PROVE  TypeInv'
<1>1. TypeInv /\ Sockets /\ Control /\ Ordered
  BY DEF EInv, TypeInv, SessionInv
<1>2. todo[t] # <<>> /\ Done(t)
  BY DEF Step, assign, check_state, Operation
<1>3. todo' \in [{"reactor", "timer2"} -> Seq(Op)]
  BY <1>1, <1>2, Advances
<1>4. CASE assign(t)
  <2>1. UNCHANGED <<sock, events, app, tx, life>>
    BY <1>4 DEF assign
  <2>2. Sockets'
    BY <1>1, <2>1 DEF Sockets, app, tx
  <2>3. session \in Int
    BY <1>1 DEF Control
  <2>4. /\ txrx_state' \in {"NOT_CONFIGURED", "CONFIGURING", "CONFIGURED", "ACTIVE"}
        /\ timers' \subseteq {"expire", "activate"}
        /\ is_tx_enabled' \in BOOLEAN /\ is_rx_enabled' \in BOOLEAN
        /\ pdcp' \in Pdcp
        /\ session' = session \/ session' = session + 1
    BY <1>1, <1>4, AssignEffect
  <2>5. Control'
    BY <1>1, <1>3, <2>1, <2>3, <2>4 DEF Control, events, life
  <2>6. QED
    BY <2>2, <2>5 DEF TypeInv
<1>5. CASE check_state(t)
  <2>1. UNCHANGED <<lcrrc, is_tx_enabled, is_rx_enabled, pdcp, batch, tx, life>>
    BY <1>5 DEF check_state
  <2>2. \/ UNCHANGED rrc_events
        \/ rrc_events' = Append(rrc_events, "rlf")
    BY <1>5 DEF check_state, CheckedByServer, CheckedByClient, Connect, push_rrc_event, app
  <2>3. \/ conns' = conns /\ sock' \in {0, sock} /\ backlog' = backlog
        \/ conns' = Append(conns, Fresh) /\ sock' = Len(conns) + 1 /\ backlog' = backlog
    BY <1>5 DEF check_state, CheckedByServer, CheckedByClient, Connect, app
  <2>4. Control'
    <3>1. rrc_events' \in Seq(Event)
      BY <1>1, <2>2, Pushed DEF Event
    <3>2. QED
      BY <1>1, <1>3, <2>1, <3>1 DEF Control, lcrrc, life
  <2>5. Sockets'
    <3>1. CASE conns' = conns /\ sock' \in {0, sock} /\ backlog' = backlog
      <4>1. sock' \in 0..Len(conns)
        BY <1>1, <3>1 DEF Sockets
      <4>2. QED
        BY <1>1, <2>1, <3>1, <4>1 DEF Sockets, tx
    <3>2. CASE conns' = Append(conns, Fresh) /\ sock' = Len(conns) + 1 /\ backlog' = backlog
      <4>1. /\ conns' \in Seq(Connection) /\ Len(conns') = Len(conns) + 1
            /\ Len(conns) \in Nat
            /\ backlog \in Seq(1..(Len(conns) + 1))
        BY <1>1, <3>2, Grown
      <4>2. sock' \in 0..Len(conns') /\ backlog' \in Seq(1..Len(conns'))
        BY <3>2, <4>1
      <4>3. QED
        BY <1>1, <2>1, <3>2, <4>1, <4>2 DEF Sockets, tx
    <3>3. QED
      BY <2>3, <3>1, <3>2
  <2>6. QED
    BY <2>4, <2>5 DEF TypeInv
<1>6. QED
  BY <1>4, <1>5 DEF Step

(* The reactor and timer2 between two handlers. *)
LEMMA DispatchTypes ==
  ASSUME TypeInv, run_timer2 \/ on_rrc_event \/ HandleEvent \/ ReactorReturns
  PROVE  TypeInv'
<1>1. Sockets /\ Control
  BY DEF TypeInv
<1>2. UNCHANGED <<sock, app, tx>>
  BY DEF run_timer2, on_rrc_event, HandleEvent, ReactorReturns, ep
<1>3. Sockets'
  BY <1>1, <1>2 DEF Sockets, app, tx
<1>4. Control'
  <2>1. CASE run_timer2
    <3>1. PICK due \in timers :
            /\ timers' = timers \ {due}
            /\ todo' = [todo EXCEPT !["timer2"] = IF due = "activate" THEN activate ELSE on_rlf]
      BY <2>1 DEF run_timer2
    <3>2. on_rlf \in Seq(Op)
      BY RlfHarmless DEF Harmless
    <3>3. activate \in Seq(Op)
      <4>1. {ActTx, CheckState, ActRx} \subseteq Op
        BY DEF Op
      <4>2. activate = <<ActTx, CheckState, ActRx, CheckState>>
        BY Handlers
      <4>3. QED
        BY <4>1, <4>2
    <3>4. todo' \in [{"reactor", "timer2"} -> Seq(Op)]
      BY <1>1, <3>1, <3>2, <3>3 DEF Control
    <3>5. UNCHANGED <<txrx_state, session, ep, pdcp, events, life>>
      BY <2>1 DEF run_timer2
    <3>6. QED
      BY <1>1, <3>1, <3>4, <3>5 DEF Control, ep, events, life
  <2>2. CASE on_rrc_event
    BY <1>1, <2>2 DEF on_rrc_event, Control, lcrrc, ep, life
  <2>3. CASE HandleEvent
    <3> DEFINE event == Head(batch)
               h == Handler(event)
    <3>1. batch # <<>> /\ batch' = Tail(batch) /\ todo' = [todo EXCEPT !["reactor"] = h]
      BY <2>3 DEF HandleEvent
    <3>2. event \in Event /\ batch' \in Seq(Event)
      BY <1>1, <3>1 DEF Control
    <3> HIDE DEF event
    <3>3. h \in Seq(Op)
      BY <3>2, HandlerHarmless DEF Harmless
    <3> HIDE DEF h
    <3>4. todo' \in [{"reactor", "timer2"} -> Seq(Op)]
      BY <1>1, <3>1, <3>3 DEF Control
    <3>5. /\ timers' \subseteq timers /\ running' \subseteq running
          /\ UNCHANGED <<txrx_state, session, ep, pdcp, rrc_events>>
      BY <2>3 DEF HandleEvent
    <3>6. QED
      BY <1>1, <3>2, <3>4, <3>5 DEF Control, ep
  <2>4. CASE ReactorReturns
    BY <1>1, <2>4 DEF ReactorReturns, Control, lcrrc, ep, events
  <2>5. QED
    BY <2>1, <2>2, <2>3, <2>4
<1>5. QED
  BY <1>3, <1>4 DEF TypeInv

(* Where run_pdcp_tx goes from a call of select. *)
LEMMA ProceedFacts ==
  ASSUME NEW ready \in SUBSET {"event", "server", "sock"}
  PROVE  /\ Proceed(ready) \in {"top", "recv", "accept", "event"}
         /\ Proceed(ready) = "accept" => "server" \in ready
         /\ Proceed(ready) = "recv" => "sock" \in ready
         /\ Proceed(ready) = "event" => "event" \in ready
BY DEF Proceed

(* run_pdcp_tx. *)
LEMMA TxTypes ==
  ASSUME TypeInv, Tx
  PROVE  TypeInv'
<1>1. Sockets /\ Control
  BY DEF TypeInv
<1>2. CASE TxTop
  <2>1. /\ recv_set' \subseteq {"event", "server", "sock"} /\ pc' = "select"
        /\ UNCHANGED <<lcrrc, ep, pdcp, events, todo, app, life>>
    BY <1>2 DEF TxTop
  <2>2. Sockets'
    BY <1>1, <2>1 DEF Sockets, ep, app
  <2>3. Control'
    BY <1>1, <2>1 DEF Control, lcrrc, ep, events, life
  <2>4. QED
    BY <2>2, <2>3 DEF TypeInv
<1>3. CASE TxSelect
  <2>1. UNCHANGED <<lcrrc, ep, pdcp, events, todo, app, life>>
    BY <1>3 DEF TxSelect
  <2>2. Control'
    BY <1>1, <2>1 DEF Control, lcrrc, ep, events, life
  <2>3. Ready \subseteq recv_set /\ ("server" \in Ready => backlog # <<>>)
    BY DEF Ready
  <2>4. \/ recv_set' = Ready /\ pc' = Proceed(Ready)
        \/ recv_set' = recv_set /\ pc' = "top"
    BY <1>3 DEF TxSelect
  <2>5. Ready \in SUBSET {"event", "server", "sock"}
    BY <1>1, <2>3 DEF Sockets
  <2>6. /\ Proceed(Ready) \in {"top", "recv", "accept", "event"}
        /\ Proceed(Ready) = "accept" => "server" \in Ready
    BY <2>5, ProceedFacts
  <2>7. Sockets'
    BY <1>1, <2>1, <2>3, <2>4, <2>5, <2>6 DEF Sockets, ep, app
  <2>8. QED
    BY <2>2, <2>7 DEF TypeInv
<1>4. CASE TxRecv
  <2> DEFINE next == Proceed(recv_set \ {"sock"})
  <2>1. /\ next \in {"top", "recv", "accept", "event"}
        /\ next = "accept" => "server" \in recv_set
        /\ next # "recv"
    BY <1>1, ProceedFacts DEF Sockets
  <2>2. /\ pc = "recv" /\ pc' \in {next, "to_tx"} /\ sock' \in {0, sock}
        /\ UNCHANGED <<lcrrc, is_tx_enabled, is_rx_enabled, pdcp, batch, todo, backlog, recv_set,
                       life>>
        /\ rrc_events' = rrc_events \/ rrc_events' = Append(rrc_events, "rlf")
    BY <1>4 DEF TxRecv, push_rrc_event
  <2> HIDE DEF next
  <2>3. Control'
    <3>1. rrc_events' \in Seq(Event)
      BY <1>1, <2>2, Pushed DEF Event
    <3>2. QED
      BY <1>1, <2>2, <3>1 DEF Control, lcrrc, life
  <2>4. conns' \in Seq(Connection) /\ Len(conns') = Len(conns)
    <3>1. CASE conns' = conns
      BY <1>1, <3>1 DEF Sockets
    <3>2. CASE /\ sock # 0 /\ conns[sock].unread > 0
               /\ conns' = [conns EXCEPT ![sock].unread = @ - 1]
      <4> DEFINE c == [conns[sock] EXCEPT !.unread = @ - 1]
      <4>1. conns \in Seq(Connection) /\ sock \in 1..Len(conns)
        BY <1>1, <3>2 DEF Sockets
      <4>2. conns[sock] \in Connection
        BY <4>1
      <4>3. c \in Connection
        BY <3>2, <4>2 DEF Connection
      <4>4. conns' = [conns EXCEPT ![sock] = c]
        BY <3>2, <4>1
      <4> HIDE DEF c
      <4>5. QED
        BY <4>1, <4>3, <4>4
    <3>3. QED
      BY <1>4, <3>1, <3>2 DEF TxRecv
  <2>5. sock' \in 0..Len(conns')
    BY <1>1, <2>2, <2>4 DEF Sockets
  <2>6. Sockets'
    BY <1>1, <2>1, <2>2, <2>4, <2>5 DEF Sockets
  <2>7. QED
    BY <2>3, <2>6 DEF TypeInv
<1>5. CASE TxToPdcp
  <2> DEFINE next == Proceed(recv_set \ {"sock"})
  <2>1. /\ next \in {"top", "recv", "accept", "event"}
        /\ next = "accept" => "server" \in recv_set
        /\ next # "recv"
    BY <1>1, ProceedFacts DEF Sockets
  <2>2. /\ pc = "to_tx" /\ pc' \in {next, pc}
        /\ pdcp' = IF HasRoom THEN [pdcp EXCEPT !.to_tx = @ + 1] ELSE pdcp
        /\ UNCHANGED <<lcrrc, ep, batch, todo, app, recv_set, life>>
        /\ rrc_events' = rrc_events \/ rrc_events' = Append(rrc_events, "setup")
    BY <1>5 DEF TxToPdcp, AskForChannel, push_rrc_event
  <2> HIDE DEF next
  <2>3. pdcp' \in Pdcp
    <3>1. pdcp \in Pdcp
      BY <1>1 DEF Control
    <3>2. CASE HasRoom
      <4>1. pdcp.to_tx + 1 \in 0..QueueSize
        BY <3>1, <3>2, SizeAssumption DEF HasRoom, Pdcp
      <4>2. QED
        BY <2>2, <3>1, <3>2, <4>1 DEF Pdcp
    <3>3. QED
      BY <2>2, <3>1, <3>2
  <2>4. Control'
    <3>1. rrc_events' \in Seq(Event)
      BY <1>1, <2>2, Pushed DEF Event
    <3>2. QED
      BY <1>1, <2>2, <2>3, <3>1 DEF Control, lcrrc, ep, life
  <2>5. Sockets'
    BY <1>1, <2>1, <2>2 DEF Sockets, ep, app
  <2>6. QED
    BY <2>4, <2>5 DEF TypeInv
<1>6. CASE TxAccept
  <2> DEFINE next == Proceed(recv_set \ {"sock", "server"})
  <2>1. next \in {"top", "event"}
    BY <1>1, ProceedFacts DEF Sockets
  <2>2. /\ pc = "accept" /\ pc' = next /\ backlog' = Tail(backlog)
        /\ UNCHANGED <<lcrrc, is_tx_enabled, is_rx_enabled, pdcp, batch, todo, conns, recv_set,
                       life>>
        /\ rrc_events' = rrc_events \/ rrc_events' = Append(rrc_events, "setup")
        /\ sock' = sock \/ sock' = Head(backlog)
    BY <1>6 DEF TxAccept, OnAccepted, push_rrc_event
  <2> HIDE DEF next
  <2>3. Control'
    <3>1. rrc_events' \in Seq(Event)
      BY <1>1, <2>2, Pushed DEF Event
    <3>2. QED
      BY <1>1, <2>2, <3>1 DEF Control, lcrrc, life
  <2>4. backlog # <<>> /\ backlog \in Seq(1..Len(conns)) /\ Len(conns) \in Nat
    BY <1>1, <2>2 DEF Sockets
  <2>5. Head(backlog) \in 1..Len(conns) /\ backlog' \in Seq(1..Len(conns))
    BY <2>2, <2>4
  <2>6. sock' \in 0..Len(conns)
    BY <1>1, <2>2, <2>4, <2>5 DEF Sockets
  <2>7. Sockets'
    BY <1>1, <2>1, <2>2, <2>5, <2>6 DEF Sockets
  <2>8. QED
    BY <2>3, <2>7 DEF TypeInv
<1>7. CASE TxEvent
  <2>1. /\ pc' = "top" /\ running' \subseteq running
        /\ UNCHANGED <<lcrrc, is_tx_enabled, is_rx_enabled, sock, pdcp, events, todo, app,
                       recv_set>>
    BY <1>7 DEF TxEvent
  <2>2. Sockets'
    BY <1>1, <2>1 DEF Sockets, app
  <2>3. Control'
    BY <1>1, <2>1 DEF Control, lcrrc, events
  <2>4. QED
    BY <2>2, <2>3 DEF TypeInv
<1>8. QED
  BY <1>2, <1>3, <1>4, <1>5, <1>6, <1>7 DEF Tx

(* The rx thread, the application, and the radio. *)
LEMMA SurroundingsTypes ==
  ASSUME TypeInv,
         \/ RxTake \/ RxSend \/ AppConnects \/ AppSends \/ AppCloses
         \/ RadioSends \/ RadioReceives
  PROVE  TypeInv'
<1>1. Sockets /\ Control /\ pdcp \in Pdcp
  BY DEF TypeInv, Control
<1>2. CASE RxTake \/ RxSend \/ RadioSends \/ RadioReceives
  <2>1. UNCHANGED <<ep, app, tx, lcrrc, events, todo, life>>
    BY <1>2 DEF RxTake, RxSend, RadioSends, RadioReceives
  <2>2. Sockets'
    BY <1>1, <2>1 DEF Sockets, ep, app, tx
  <2>3. pdcp' \in Pdcp
    <3>1. pdcp.to_rx \in Seq(Int) /\ pdcp.to_tx \in 0..QueueSize /\ session \in Int
      BY <1>1 DEF Pdcp, Control
    <3>2. CASE RxTake
      <4> DEFINE s == pdcp.to_rx
      <4>1. pdcp' = [pdcp EXCEPT !.to_rx = Tail(s)] /\ s # <<>>
        BY <1>1, <3>2 DEF RxTake
      <4>2. Tail(s) \in Seq(Int)
        BY <3>1, <4>1
      <4>3. QED
        BY <1>1, <4>1, <4>2 DEF Pdcp
    <3>3. CASE RxSend
      BY <1>1, <3>3 DEF RxSend
    <3>4. CASE RadioSends
      <4>1. pdcp' = [pdcp EXCEPT !.to_tx = pdcp.to_tx - 1] /\ pdcp.to_tx > 0
        BY <1>1, <3>4 DEF RadioSends
      <4>2. pdcp.to_tx - 1 \in 0..QueueSize
        BY <3>1, <4>1, SizeAssumption
      <4>3. QED
        BY <1>1, <4>1, <4>2 DEF Pdcp
    <3>5. CASE RadioReceives
      <4> DEFINE s == pdcp.to_rx
      <4>1. pdcp' = [pdcp EXCEPT !.to_rx = Append(s, session)]
        BY <1>1, <3>5 DEF RadioReceives
      <4>2. Append(s, session) \in Seq(Int)
        BY <3>1
      <4>3. QED
        BY <1>1, <4>1, <4>2 DEF Pdcp
    <3>6. QED
      BY <1>2, <3>2, <3>3, <3>4, <3>5
  <2>4. Control'
    BY <1>1, <2>1, <2>3 DEF Control, lcrrc, ep, events, life
  <2>5. QED
    BY <2>2, <2>4 DEF TypeInv
<1>3. CASE AppConnects \/ AppSends \/ AppCloses
  <2>1. UNCHANGED <<lcrrc, ep, pdcp, events, todo, tx, life>>
    BY <1>3 DEF AppConnects, AppSends, AppCloses
  <2>2. Control'
    BY <1>1, <2>1 DEF Control, lcrrc, ep, events, life
  <2>3. conns \in Seq(Connection)
    BY <1>1 DEF Sockets
  <2>4. CASE AppConnects
    <3>1. conns' = Append(conns, Fresh) /\ backlog' = Append(backlog, Len(conns) + 1)
      BY <2>4 DEF AppConnects
    <3>2. /\ conns' \in Seq(Connection) /\ Len(conns') = Len(conns) + 1
          /\ Len(conns) \in Nat
          /\ backlog \in Seq(1..(Len(conns) + 1))
      BY <1>1, <3>1, Grown
    <3>3. Len(conns) + 1 \in 1..(Len(conns) + 1)
      BY <3>2
    <3>4. backlog' \in Seq(1..Len(conns')) /\ backlog' # <<>>
      BY <3>1, <3>2, <3>3
    <3>5. sock' \in 0..Len(conns')
      BY <1>1, <2>1, <3>2 DEF Sockets, ep
    <3>6. Sockets'
      BY <1>1, <2>1, <3>2, <3>4, <3>5 DEF Sockets, tx
    <3>7. QED
      BY <2>2, <3>6 DEF TypeInv
  <2>5. CASE AppSends \/ AppCloses
    <3>1. PICK c \in DOMAIN conns :
            \/ conns' = [conns EXCEPT ![c].unread = @ + 1]
            \/ conns' = [conns EXCEPT ![c].far = "shut"]
      BY <2>5 DEF AppSends, AppCloses
    <3> DEFINE a == [conns[c] EXCEPT !.unread = @ + 1]
               b == [conns[c] EXCEPT !.far = "shut"]
    <3>2. conns[c] \in Connection /\ c \in 1..Len(conns)
      BY <2>3
    <3>3. a \in Connection /\ b \in Connection
      BY <3>2 DEF Connection
    <3>4. conns' = [conns EXCEPT ![c] = a] \/ conns' = [conns EXCEPT ![c] = b]
      BY <2>3, <3>1, <3>2
    <3> HIDE DEF a, b
    <3>5. conns' \in Seq(Connection) /\ Len(conns') = Len(conns)
      BY <2>3, <3>2, <3>3, <3>4
    <3>6. backlog' = backlog
      BY <2>5 DEF AppSends, AppCloses
    <3>7. Sockets'
      BY <1>1, <2>1, <3>5, <3>6 DEF Sockets, ep, tx
    <3>8. QED
      BY <2>2, <3>7 DEF TypeInv
  <2>6. QED
    BY <1>3, <2>4, <2>5
<1>4. QED
  BY <1>2, <1>3

(* Threads that end, and whoever only pushes an event. *)
LEMMA StopTypes ==
  ASSUME TypeInv,
         \/ \E t \in Thread : ThreadEnds(t)
         \/ on_cmd_stop \/ BeginTeardown \/ Teardown
         \/ on_cmd_init \/ on_rrc \/ RadioFails
  PROVE  TypeInv'
<1>1. Sockets /\ Control
  BY DEF TypeInv
<1>2. UNCHANGED <<app, tx, lcrrc, is_tx_enabled, is_rx_enabled, pdcp, batch, todo>>
  <2>1. CASE \E t \in Thread : ThreadEnds(t)
    BY <2>1 DEF ThreadEnds, ep, events
  <2>2. CASE on_cmd_stop \/ BeginTeardown \/ Teardown
    BY <2>2 DEF on_cmd_stop, BeginTeardown, Teardown, ep, events
  <2>3. CASE on_cmd_init \/ on_rrc \/ RadioFails
    BY <2>3 DEF on_cmd_init, on_rrc, RadioFails, ep
  <2>4. QED
    BY <2>1, <2>2, <2>3
<1>3. sock' \in {0, sock} /\ running' \subseteq running
  <2>1. CASE \E t \in Thread : ThreadEnds(t)
    BY <2>1 DEF ThreadEnds, ep
  <2>2. CASE on_cmd_stop \/ BeginTeardown
    BY <2>2 DEF on_cmd_stop, BeginTeardown, ep, life
  <2>3. CASE Teardown
    BY <2>3 DEF Teardown
  <2>4. CASE on_cmd_init \/ on_rrc \/ RadioFails
    BY <2>4 DEF on_cmd_init, on_rrc, RadioFails, ep, life
  <2>5. QED
    BY <2>1, <2>2, <2>3, <2>4
<1>4. \E e \in Event : rrc_events' = rrc_events \/ rrc_events' = Append(rrc_events, e)
  <2>1. CASE (\E t \in Thread : ThreadEnds(t)) \/ BeginTeardown
    BY <2>1 DEF ThreadEnds, BeginTeardown, events, Event
  <2>2. CASE on_cmd_stop \/ Teardown
    BY <2>2 DEF on_cmd_stop, Teardown, push_rrc_event, Event
  <2>3. CASE on_cmd_init \/ on_rrc \/ RadioFails
    BY <2>3 DEF on_cmd_init, on_rrc, RadioFails, push_rrc_event, Event
  <2>4. QED
    BY <2>1, <2>2, <2>3
<1>5. rrc_events' \in Seq(Event)
  BY <1>1, <1>4, Pushed
<1>6. Control'
  BY <1>1, <1>2, <1>3, <1>5 DEF Control, lcrrc
<1>7. sock' \in 0..Len(conns)
  BY <1>1, <1>3 DEF Sockets
<1>8. Sockets'
  BY <1>1, <1>2, <1>7 DEF Sockets, app, tx
<1>9. QED
  BY <1>6, <1>8 DEF TypeInv
-----------------------------------------------------------------------------
(* Every step keeps the invariant. *)
LEMMA NextE == EInv /\ [Next]_vars => EInv'
<1> SUFFICES ASSUME EInv, [Next]_vars PROVE EInv'
  OBVIOUS
<1>1. TypeInv /\ SessionInv
  BY DEF EInv
<1>2. CASE UNCHANGED vars
  <2>1. UNCHANGED <<set, lcrrc, ep, pdcp, events, todo, app, tx, rx, life>>
    BY <1>2 DEF vars
  <2>2. Sockets'
    BY <1>1, <2>1 DEF TypeInv, Sockets, ep, app, tx
  <2>3. Control'
    BY <1>1, <2>1 DEF TypeInv, Control, lcrrc, ep, events, life
  <2>4. SessionInv'
    BY <1>1, <2>1, SameReceived DEF lcrrc, ep, rx
  <2>5. QED
    BY <2>2, <2>3, <2>4 DEF EInv, TypeInv
<1>3. CASE Next
  <2>1. CASE Step("reactor") \/ Step("timer2")
    <3>1. PICK t \in {"reactor", "timer2"} : Step(t)
      BY <2>1
    <3>2. SessionInv'
      BY <3>1, AssignSession, CheckSession DEF Step
    <3>3. QED
      BY <3>1, <3>2, StepTypes DEF EInv
  <2>2. CASE run_timer2 \/ HandleEvent
    BY <1>1, <2>2, DispatchTypes, Timer2Session, HandleSession DEF EInv
  <2>3. CASE on_rrc_event \/ ReactorReturns
    BY <1>1, <2>3, DispatchTypes, OtherSession DEF EInv
  <2>4. CASE Tx
    BY <1>1, <2>4, TxTypes, OtherSession DEF EInv
  <2>5. CASE RxTake \/ RxSend \/ RadioReceives
    BY <1>1, <2>5, SurroundingsTypes, ReceiveSession DEF EInv
  <2>6. CASE AppConnects \/ AppSends \/ AppCloses \/ RadioSends
    BY <1>1, <2>6, SurroundingsTypes, OtherSession DEF EInv
  <2>7. CASE \/ \E t \in Thread : ThreadEnds(t)
             \/ on_cmd_stop \/ BeginTeardown \/ Teardown
             \/ on_cmd_init \/ on_rrc \/ RadioFails
    <3>1. TypeInv'
      BY <1>1, <2>7, StopTypes
    <3>2. SessionInv'
      BY <2>7, OtherSession
    <3>3. QED
      BY <3>1, <3>2 DEF EInv
  <2>8. QED
    BY <1>3, <2>1, <2>2, <2>3, <2>4, <2>5, <2>6, <2>7 DEF Next, Reactor, Timer2
<1>4. QED
  BY <1>2, <1>3
-----------------------------------------------------------------------------
(***************************************************************************)
(* The variables keep their types and the transmit queue of PDCP its       *)
(* limit, however many connections, messages, failures and requests there  *)
(* are.                                                                    *)
(***************************************************************************)
THEOREM TypeCorrect == Spec => []TypeOK
<1>1. Spec => []EInv
  BY InitE, NextE, PTL DEF Spec
<1>2. EInv => TypeOK
  BY TypesOK DEF EInv
<1>3. QED
  BY <1>1, <1>2, PTL

(***************************************************************************)
(* What TCPServerEndPoint sends to its application was received since the  *)
(* last failure of the link, although PDCP never empties its receive queue *)
(* and rx thread, reactor and timer2 are not synchronised.                 *)
(***************************************************************************)
THEOREM OwnSessionHolds == Spec => []OwnSession
<1>1. Spec => []EInv
  BY InitE, NextE, PTL DEF Spec
<1>2. EInv => OwnSession
  BY DEF EInv, SessionInv
<1>3. QED
  BY <1>1, <1>2, PTL
-----------------------------------------------------------------------------
(***************************************************************************)
(* Connections.  What the reactor and timer2 have still to do, as a set,   *)
(* and what is queued for the reactor.                                     *)
(***************************************************************************)
Ops(s) == {s[k] : k \in 1..Len(s)}
R == Ops(todo["reactor"])
T == Ops(todo["timer2"])
Queued == Ops(rrc_events) \cup Ops(batch)

(***************************************************************************)
(* The order in which a handler works: it clears or sets the flags of the  *)
(* end point one after the other, starting with that for tx, and then      *)
(* calls check_state; the activation is scheduled last.                    *)
(***************************************************************************)
Followed(s, x, y) == \A k \in 1..Len(s) : s[k] = x => \E j \in (k + 1)..Len(s) : s[j] = y
InOrder(s) ==
  /\ Followed(s, RlfTx, RlfRx) /\ Followed(s, RlfRx, CheckState)
  /\ Followed(s, ActTx, ActRx) /\ Followed(s, ActRx, CheckState)
  /\ \A k \in 2..Len(s) : s[k] # RlfTx /\ s[k] # ActTx
  /\ \A k \in 1..Len(s) : s[k] = Exchanged => k = Len(s)

(* An activation and the failure of a link do not overlap. *)
NoOverlap ==
  /\ CheckState \in R => "activate" \notin timers /\ ActTx \notin T /\ ActRx \notin T
  /\ RlfRx \in T => ActTx \notin T /\ ActRx \notin T
  /\ ActTx \notin R /\ ActRx \notin R /\ Exchanged \notin T /\ Requested \notin T

(* The channel is sure to become active or to fail. *)
Coming ==
  timers # {} \/ ActTx \in T \/ RlfTx \in R \cup T \/ Exchanged \in R \/ Requested \in R

(* The flags of the end point, and the state, by what is still to do. *)
Flags ==
  /\ RlfRx \in R /\ RlfTx \notin R => ~is_tx_enabled
  /\ RlfRx \in T /\ RlfTx \notin T => ~is_tx_enabled
  /\ ActRx \in T /\ ActTx \notin T => is_tx_enabled
  /\ is_tx_enabled /\ ~is_rx_enabled => ActRx \in T
  /\ ~is_tx_enabled /\ is_rx_enabled => RlfRx \in R \cup T
  /\ txrx_state = "ACTIVE" => is_tx_enabled
  /\ txrx_state \in {"CONFIGURING", "CONFIGURED"} => Coming

Steady == InOrder(todo["reactor"]) /\ InOrder(todo["timer2"]) /\ NoOverlap /\ Flags

(***************************************************************************)
(* A connection without an active channel will get one or be closed; an    *)
(* active client without a connection will get one or give up the link.    *)
(***************************************************************************)
Kept ==
  set.kind # "UDP" /\ sock # 0 /\ ~is_active =>
    \/ "setup" \in Queued \/ Coming \/ RlfRx \in R \cup T \/ ActRx \in T
    \/ is_rlf /\ CheckState \in R \cup T
Connected ==
  set.kind = "TCPC" /\ is_active /\ sock = 0 /\ teardown # "gone" =>
    "rlf" \in Queued \/ RlfTx \in R \cup T \/ CheckState \in T

(* The tx thread waits in select for what it has to see, or will be woken. *)
Watching ==
  pc = "select" /\ set.kind # "UDP" =>
    /\ "event" \in recv_set /\ (set.kind = "TCPS" => "server" \in recv_set)
    /\ sock # 0 /\ is_active /\ "sock" \notin recv_set =>
         ep_event # <<>> \/ CheckState \in R \cup T

(* The tx thread reads the event that select has seen. *)
Woken ==
  /\ ep_event \in Seq({"break", "stop"})
  /\ pc = "event" => "event" \in recv_set
  /\ pc \in {"recv", "to_tx", "accept", "event"} /\ "event" \in recv_set => ep_event # <<>>

HInv ==
  /\ set \in Setting /\ (set.kind # "TCPS" => backlog = <<>>)
  /\ Steady /\ Kept /\ Connected /\ Watching /\ Woken
-----------------------------------------------------------------------------
(* The operations are eight. *)
LEMMA OpsDiffer ==
  /\ \A x \in {CheckState, RlfTx, RlfEnd, ActTx, ActRx, Exchanged, Requested} : x # RlfRx
  /\ \A x \in {CheckState, RlfTx, RlfRx, RlfEnd, ActTx, Exchanged, Requested} : x # ActRx
  /\ \A x \in {CheckState, RlfTx, RlfRx, RlfEnd, ActRx, Exchanged, Requested} : x # ActTx
  /\ \A x \in {CheckState, RlfTx, RlfRx, RlfEnd, ActTx, ActRx, Requested} : x # Exchanged
  /\ \A x \in {RlfTx, RlfRx, RlfEnd, ActTx, ActRx, Exchanged, Requested} : x # CheckState
  /\ \A x \in {CheckState, RlfRx, RlfEnd, ActTx, ActRx, Exchanged, Requested} : x # RlfTx
  /\ \A x \in {CheckState, RlfTx, RlfRx, RlfEnd, ActTx, ActRx, Exchanged} : x # Requested
<1>1. \A x \in {RlfTx, RlfRx, RlfEnd, ActTx, ActRx, Exchanged, Requested} : x.op = "assign"
  BY DEF RlfTx, RlfRx, RlfEnd, ActTx, ActRx, Exchanged, Requested, Assign
<1>2. CheckState.op = "check_state"
  BY DEF CheckState
<1>3. \A x \in {RlfTx, RlfRx, RlfEnd, ActTx, ActRx, Exchanged, Requested} : x # CheckState
  BY <1>1, <1>2
<1>4. "ep_tx" \in DOMAIN RlfTx.values /\ "ep_tx" \notin DOMAIN RlfEnd.values
      /\ "ep_tx" \notin DOMAIN Requested.values /\ "timer" \in DOMAIN Requested.values
      /\ "timer" \notin DOMAIN RlfEnd.values
  BY DEF RlfTx, RlfEnd, Requested, Assign
<1>5. RlfTx # RlfEnd /\ RlfTx # Requested /\ RlfEnd # Requested
  BY <1>4
<1>6. RlfTx # RlfRx /\ RlfEnd # RlfRx /\ Requested # RlfRx
  <2>1. "ep_rx" \in DOMAIN RlfRx.values /\ "ep_rx" \notin DOMAIN RlfTx.values
        /\ "ep_rx" \notin DOMAIN RlfEnd.values /\ "ep_rx" \notin DOMAIN Requested.values
    BY DEF RlfTx, RlfRx, RlfEnd, Requested, Assign
  <2>2. QED
    BY <2>1
<1>7. \A x \in {CheckState, RlfTx, RlfRx, RlfEnd, ActTx, Exchanged, Requested} : x # ActRx
  BY OpFacts
<1>8. \A x \in {CheckState, RlfTx, RlfRx, RlfEnd, ActRx, Exchanged, Requested} : x # ActTx
  BY OpFacts
<1>9. \A x \in {CheckState, RlfTx, RlfRx, RlfEnd, ActTx, ActRx, Requested} : x # Exchanged
  BY OpFacts
<1>10. QED
  BY <1>3, <1>5, <1>6, <1>7, <1>8, <1>9

(* Only an empty sequence has no element. *)
LEMMA NoOps == Ops(<<>>) = {} /\ InOrder(<<>>)
BY DEF Ops, InOrder, Followed

(* What is still to do is the first operation and the rest. *)
LEMMA OpsRest ==
  ASSUME NEW S, NEW s \in Seq(S), s # <<>>
  PROVE  Tail(s) \in Seq(S) /\ Head(s) \in S /\ Ops(s) = {Head(s)} \cup Ops(Tail(s))
<1> DEFINE q == Tail(s)
<1>1. /\ q \in Seq(S) /\ Head(s) \in S /\ Head(s) = s[1] /\ Len(s) \in Nat \ {0}
      /\ Len(q) = Len(s) - 1
      /\ \A k \in 1..Len(q) : k + 1 \in 1..Len(s) /\ q[k] = s[k + 1]
  OBVIOUS
<1>2. \A k \in 1..Len(s) : k = 1 \/ (k - 1 \in 1..Len(q) /\ q[k - 1] = s[k])
  <2> TAKE k \in 1..Len(s)
  <2>1. k = 1 \/ (k - 1 \in 1..Len(q) /\ (k - 1) + 1 = k)
    BY <1>1
  <2>2. QED
    BY <1>1, <2>1
<1> HIDE DEF q
<1>3. Ops(s) \subseteq {Head(s)} \cup Ops(q)
  BY <1>1, <1>2 DEF Ops
<1>4. {Head(s)} \cup Ops(q) \subseteq Ops(s)
  <2>1. 1 \in 1..Len(s)
    BY <1>1
  <2>2. QED
    BY <1>1, <2>1 DEF Ops
<1>5. QED
  BY <1>1, <1>3, <1>4 DEF q

(* One event more. *)
LEMMA OpsMore ==
  ASSUME NEW S, NEW s \in Seq(S), NEW x \in S
  PROVE  Ops(Append(s, x)) = Ops(s) \cup {x}
<1> DEFINE c == Append(s, x)
<1>1. Len(s) \in Nat /\ Len(c) = Len(s) + 1 /\ c[Len(s) + 1] = x
  OBVIOUS
<1>2. \A k \in 1..Len(s) : k \in 1..Len(c) /\ c[k] = s[k]
  OBVIOUS
<1> HIDE DEF c
<1>3. Len(s) + 1 \in 1..Len(c) /\ \A k \in 1..Len(c) : k \in 1..Len(s) \/ k = Len(s) + 1
  BY <1>1
<1>4. Ops(c) = Ops(s) \cup {x}
  BY <1>1, <1>2, <1>3 DEF Ops
<1>5. QED
  BY <1>4 DEF c

(* What follows an operation is in the rest, and is still followed there. *)
LEMMA FollowedRest ==
  ASSUME NEW S, NEW s \in Seq(S), s # <<>>, NEW x, NEW y, Followed(s, x, y)
  PROVE  /\ Followed(Tail(s), x, y)
         /\ Head(s) = x => y \in Ops(Tail(s))
         /\ x \in Ops(s) => y \in Ops(s)
<1> DEFINE q == Tail(s)
<1>1. /\ Head(s) = s[1] /\ Len(s) \in Nat \ {0} /\ Len(q) = Len(s) - 1
      /\ \A k \in 1..Len(q) : k + 1 \in 1..Len(s) /\ q[k] = s[k + 1]
  OBVIOUS
<1>2. ASSUME NEW k \in 1..Len(s), s[k] = x
      PROVE  y \in Ops(s) /\ \E j \in k..Len(q) : q[j] = y
  <2>1. PICK j \in (k + 1)..Len(s) : s[j] = y
    BY <1>2 DEF Followed
  <2>2. j - 1 \in k..Len(q) /\ j - 1 \in 1..Len(q) /\ (j - 1) + 1 = j /\ j \in 1..Len(s)
    BY <1>1, <2>1
  <2>3. q[j - 1] = s[(j - 1) + 1]
    BY <1>1, <2>2
  <2>4. QED
    BY <2>1, <2>2, <2>3 DEF Ops
<1> HIDE DEF q
<1>3. Followed(q, x, y)
  <2> SUFFICES ASSUME NEW k \in 1..Len(q), q[k] = x
               PROVE  \E j \in (k + 1)..Len(q) : q[j] = y
    BY DEF Followed
  <2>1. k + 1 \in 1..Len(s) /\ s[k + 1] = x
    BY <1>1
  <2>2. QED
    BY <1>2, <2>1
<1>4. ASSUME Head(s) = x PROVE y \in Ops(q)
  <2>1. 1 \in 1..Len(s) /\ s[1] = x
    BY <1>1, <1>4
  <2>2. \E j \in 1..Len(q) : q[j] = y
    BY <1>2, <2>1
  <2>3. QED
    BY <2>2 DEF Ops
<1>5. x \in Ops(s) => y \in Ops(s)
  BY <1>2 DEF Ops
<1>6. QED
  BY <1>3, <1>4, <1>5 DEF q

(* What a handler has done says what it has still to do. *)
LEMMA InOrderRest ==
  ASSUME NEW s \in Seq(Op), s # <<>>, InOrder(s)
  PROVE  LET h == Head(s)
             q == Ops(Tail(s))
         IN
         /\ InOrder(Tail(s)) /\ Ops(s) = {h} \cup q /\ h \in Op /\ Tail(s) \in Seq(Op)
         /\ RlfTx \notin q /\ ActTx \notin q
         /\ h = RlfTx => RlfRx \in q
         /\ h = RlfRx => CheckState \in q
         /\ h = ActTx => ActRx \in q /\ CheckState \in q
         /\ h = ActRx => CheckState \in q
         /\ h = Exchanged => q = {}
         /\ RlfTx \in Ops(s) => RlfRx \in Ops(s)
         /\ RlfRx \in Ops(s) => CheckState \in Ops(s)
         /\ ActTx \in Ops(s) => ActRx \in Ops(s)
<1> DEFINE t == Tail(s)
<1>1. /\ Head(s) = s[1] /\ Len(s) \in Nat \ {0} /\ Len(t) = Len(s) - 1 /\ t \in Seq(Op)
      /\ \A k \in 1..Len(t) : k + 1 \in 2..Len(s) /\ t[k] = s[k + 1]
  BY Rest
<1>2. Ops(s) = {Head(s)} \cup Ops(t) /\ Head(s) \in Op
  BY OpsRest
<1>3. /\ Followed(t, RlfTx, RlfRx) /\ (Head(s) = RlfTx => RlfRx \in Ops(t))
      /\ (RlfTx \in Ops(s) => RlfRx \in Ops(s))
  BY FollowedRest DEF InOrder
<1>4. /\ Followed(t, RlfRx, CheckState) /\ (Head(s) = RlfRx => CheckState \in Ops(t))
      /\ (RlfRx \in Ops(s) => CheckState \in Ops(s))
  BY FollowedRest DEF InOrder
<1>5. /\ Followed(t, ActTx, ActRx) /\ (Head(s) = ActTx => ActRx \in Ops(t))
      /\ (ActTx \in Ops(s) => ActRx \in Ops(s))
  BY FollowedRest DEF InOrder
<1>6. Followed(t, ActRx, CheckState) /\ (Head(s) = ActRx => CheckState \in Ops(t))
  BY FollowedRest DEF InOrder
<1> HIDE DEF t
<1>7. RlfTx \notin Ops(t) /\ ActTx \notin Ops(t)
  BY <1>1 DEF Ops, InOrder
<1>8. \A k \in 2..Len(t) : t[k] # RlfTx /\ t[k] # ActTx
  <2>1. \A k \in 2..Len(t) : k \in 1..Len(t)
    BY <1>1
  <2>2. QED
    BY <1>7, <2>1 DEF Ops
<1>9. ASSUME NEW k \in 1..Len(t), t[k] = Exchanged PROVE k = Len(t)
  <2>1. k + 1 \in 1..Len(s) /\ s[k + 1] = Exchanged
    BY <1>1, <1>9
  <2>2. k + 1 = Len(s)
    BY <2>1 DEF InOrder
  <2>3. QED
    BY <1>1, <2>2
<1>10. InOrder(t)
  BY <1>3, <1>4, <1>5, <1>6, <1>8, <1>9 DEF InOrder
<1>11. Head(s) = ActTx => CheckState \in Ops(t)
  <2> SUFFICES ASSUME Head(s) = ActTx PROVE CheckState \in Ops(t)
    OBVIOUS
  <2>1. PICK k \in 1..Len(t) : t[k] = ActRx
    BY <1>5 DEF Ops
  <2>2. PICK j \in (k + 1)..Len(t) : t[j] = CheckState
    BY <1>6, <2>1 DEF Followed
  <2>3. j \in 1..Len(t)
    BY <1>1, <2>2
  <2>4. QED
    BY <2>2, <2>3 DEF Ops
<1>12. Head(s) = Exchanged => Ops(t) = {}
  <2> SUFFICES ASSUME Head(s) = Exchanged PROVE Ops(t) = {}
    OBVIOUS
  <2>1. 1 \in 1..Len(s) /\ s[1] = Exchanged
    BY <1>1
  <2>2. Len(s) = 1
    BY <2>1 DEF InOrder
  <2>3. 1..Len(t) = {}
    BY <1>1, <2>2
  <2>4. QED
    BY <2>3 DEF Ops
<1>13. QED
  BY <1>1, <1>2, <1>3, <1>4, <1>5, <1>6, <1>7, <1>10, <1>11, <1>12 DEF t

(* The handlers as they are called. *)
LEMMA RlfInOrder ==
  ASSUME NEW s, NEW n \in {5, 6}, Len(s) = n,
         s[1] = RlfTx, s[2] = CheckState, s[3] = RlfRx, s[4] = CheckState, s[5] = RlfEnd,
         n = 6 => s[6] = Exchanged
  PROVE  /\ InOrder(s)
         /\ Ops(s) = {RlfTx, CheckState, RlfRx, RlfEnd} \cup (IF n = 6 THEN {Exchanged} ELSE {})
<1>1. /\ 1 \in 1..n /\ 2 \in 1..n /\ 3 \in 1..n /\ 4 \in 1..n /\ 5 \in 1..n
      /\ n = 6 => 6 \in 1..n
      /\ \A k \in 1..n : k \in {1, 2, 3, 4, 5} \/ (k = 6 /\ n = 6)
  OBVIOUS
<1>2. Followed(s, RlfTx, RlfRx)
  <2> SUFFICES ASSUME NEW k \in 1..n, s[k] = RlfTx PROVE \E j \in (k + 1)..n : s[j] = RlfRx
    BY DEF Followed
  <2>1. k = 1
    BY <1>1, OpsDiffer
  <2>2. 3 \in (k + 1)..n
    BY <2>1
  <2>3. QED
    BY <2>2
<1>3. Followed(s, RlfRx, CheckState)
  <2> SUFFICES ASSUME NEW k \in 1..n, s[k] = RlfRx PROVE \E j \in (k + 1)..n : s[j] = CheckState
    BY DEF Followed
  <2>1. k = 3
    BY <1>1, OpsDiffer
  <2>2. 4 \in (k + 1)..n
    BY <2>1
  <2>3. QED
    BY <2>2
<1>4. \A k \in 1..n : s[k] # ActTx /\ s[k] # ActRx
  BY <1>1, OpsDiffer
<1>5. \A k \in 2..n : k \in 1..n /\ k # 1
  OBVIOUS
<1>6. \A k \in 2..n : s[k] # RlfTx /\ s[k] # ActTx
  BY <1>1, <1>4, <1>5, OpsDiffer
<1>7. \A k \in 1..n : s[k] = Exchanged => k = n
  BY <1>1, OpsDiffer
<1>8. InOrder(s)
  BY <1>2, <1>3, <1>4, <1>6, <1>7 DEF InOrder, Followed
<1>9. CASE n = 6
  <2>1. 1..n = {1, 2, 3, 4, 5, 6}
    BY <1>9
  <2>2. QED
    BY <1>8, <1>9, <2>1 DEF Ops
<1>10. CASE n = 5
  <2>1. 1..n = {1, 2, 3, 4, 5}
    BY <1>10
  <2>2. QED
    BY <1>8, <1>10, <2>1 DEF Ops
<1>11. QED
  BY <1>9, <1>10

(* The handlers of timer2. *)
LEMMA Timer2InOrder ==
  /\ InOrder(on_rlf) /\ Ops(on_rlf) = {RlfTx, CheckState, RlfRx, RlfEnd}
  /\ InOrder(activate) /\ Ops(activate) = {ActTx, CheckState, ActRx}
<1>1. InOrder(on_rlf) /\ Ops(on_rlf) = {RlfTx, CheckState, RlfRx, RlfEnd}
  <2> DEFINE s == on_rlf
  <2>1. s = <<RlfTx, CheckState, RlfRx, CheckState, RlfEnd>>
    BY Handlers
  <2>2. /\ Len(s) = 5 /\ s[1] = RlfTx /\ s[2] = CheckState /\ s[3] = RlfRx
        /\ s[4] = CheckState /\ s[5] = RlfEnd
    BY <2>1
  <2> HIDE DEF s
  <2>3. InOrder(s) /\ Ops(s) = {RlfTx, CheckState, RlfRx, RlfEnd} \cup (IF 5 = 6 THEN {Exchanged} ELSE {})
    BY <2>2, RlfInOrder
  <2>4. QED
    BY <2>3 DEF s
<1>2. InOrder(activate) /\ Ops(activate) = {ActTx, CheckState, ActRx}
  <2> DEFINE s == activate
  <2>1. s = <<ActTx, CheckState, ActRx, CheckState>>
    BY Handlers
  <2>2. Len(s) = 4 /\ s[1] = ActTx /\ s[2] = CheckState /\ s[3] = ActRx /\ s[4] = CheckState
    BY <2>1
  <2> HIDE DEF s
  <2>3. 1..Len(s) = {1, 2, 3, 4} /\ 2..Len(s) = {2, 3, 4}
    BY <2>2
  <2>4. Ops(s) = {ActTx, CheckState, ActRx}
    BY <2>2, <2>3 DEF Ops
  <2>5. Followed(s, ActTx, ActRx)
    <3> SUFFICES ASSUME NEW k \in 1..Len(s), s[k] = ActTx PROVE \E j \in (k + 1)..Len(s) : s[j] = ActRx
      BY DEF Followed
    <3>1. k = 1
      BY <2>2, <2>3, OpsDiffer
    <3>2. 3 \in (k + 1)..Len(s)
      BY <2>2, <3>1
    <3>3. QED
      BY <2>2, <3>2
  <2>6. Followed(s, ActRx, CheckState)
    <3> SUFFICES ASSUME NEW k \in 1..Len(s), s[k] = ActRx PROVE \E j \in (k + 1)..Len(s) : s[j] = CheckState
      BY DEF Followed
    <3>1. k = 3
      BY <2>2, <2>3, OpsDiffer
    <3>2. 4 \in (k + 1)..Len(s)
      BY <2>2, <3>1
    <3>3. QED
      BY <2>2, <3>2
  <2>7. \A k \in 1..Len(s) : s[k] # RlfTx /\ s[k] # RlfRx /\ s[k] # Exchanged
    BY <2>2, <2>3, OpsDiffer
  <2>8. \A k \in 2..Len(s) : s[k] # ActTx /\ s[k] # RlfTx
    BY <2>2, <2>3, OpsDiffer
  <2>9. InOrder(s)
    BY <2>5, <2>6, <2>7, <2>8 DEF InOrder, Followed
  <2>10. QED
    BY <2>4, <2>9 DEF s
<1>3. QED
  BY <1>1, <1>2

(* The handlers of the reactor. *)
LEMMA HandlerInOrder ==
  ASSUME NEW event \in Event
  PROVE  LET h == Handler(event) IN
         /\ h \in Seq(Op) /\ InOrder(h) /\ ActTx \notin Ops(h) /\ ActRx \notin Ops(h)
         /\ RlfRx \in Ops(h) => RlfTx \in Ops(h)
         /\ CheckState \in Ops(h) => event = "rlf" \/ (event = "request" /\ txrx_state = "ACTIVE")
         /\ event = "rlf" => RlfTx \in Ops(h)
         /\ event = "response" => Exchanged \in Ops(h)
         /\ event = "setup" /\ txrx_state = "NOT_CONFIGURED" => Requested \in Ops(h)
<1> DEFINE h == Handler(event)
<1>1. h \in Seq(Op)
  BY HandlerHarmless DEF Harmless
<1>2. Exchanged \in Op /\ Requested \in Op
  BY DEF Op
<1>3. ASSUME NEW x \in {Exchanged, Requested}
      PROVE  InOrder(<<x>>) /\ Ops(<<x>>) = {x}
  <2>1. Len(<<x>>) = 1 /\ <<x>>[1] = x /\ 1..1 = {1} /\ 2..1 = {}
    OBVIOUS
  <2>2. x # RlfTx /\ x # RlfRx /\ x # ActTx /\ x # ActRx
    BY OpsDiffer
  <2> DEFINE s == <<x>>
  <2>3. Len(s) = 1 /\ s[1] = x
    BY <2>1
  <2> HIDE DEF s
  <2>4. InOrder(s) /\ Ops(s) = {x}
    BY <2>1, <2>2, <2>3 DEF InOrder, Followed, Ops
  <2>5. QED
    BY <2>4 DEF s
<1>4. ASSUME Ops(h) \subseteq {Exchanged, Requested}
      PROVE  ActTx \notin Ops(h) /\ ActRx \notin Ops(h) /\ RlfRx \notin Ops(h) /\ CheckState \notin Ops(h)
  BY <1>4, OpsDiffer
<1>5. CASE event = "setup" \/ event = "forced"
  <2>1. h = <<>> \/ h = <<Requested>>
    BY <1>5, Handlers DEF Handler
  <2>2. event = "setup" /\ txrx_state = "NOT_CONFIGURED" => h = <<Requested>>
    BY DEF Handler, on_init, Requested
  <2>3. InOrder(h) /\ Ops(h) \subseteq {Exchanged, Requested}
    BY <1>3, <2>1, NoOps
  <2>4. event = "setup" /\ txrx_state = "NOT_CONFIGURED" => Requested \in Ops(h)
    BY <1>3, <2>2
  <2>5. QED
    BY <1>1, <1>4, <1>5, <2>3, <2>4
<1>6. CASE event = "response"
  <2>1. h = <<Exchanged>>
    BY <1>6, Handlers DEF Handler
  <2>2. InOrder(h) /\ Ops(h) = {Exchanged}
    BY <1>3, <2>1
  <2>3. QED
    BY <1>1, <1>4, <1>6, <2>2
<1>7. CASE event = "stop"
  <2>1. h = <<>>
    BY <1>7 DEF Handler
  <2>2. InOrder(h) /\ Ops(h) = {}
    BY <2>1, NoOps
  <2>3. QED
    BY <1>1, <1>4, <1>7, <2>2
<1>8. CASE event = "rlf"
  <2>1. h = on_rlf
    BY <1>8 DEF Handler
  <2>2. InOrder(h) /\ Ops(h) = {RlfTx, CheckState, RlfRx, RlfEnd}
    BY <2>1, Timer2InOrder
  <2>3. ActTx \notin Ops(h) /\ ActRx \notin Ops(h)
    BY <2>2, OpsDiffer
  <2>4. QED
    BY <1>1, <1>8, <2>2, <2>3
<1>9. CASE event = "request" /\ txrx_state # "ACTIVE"
  <2>1. h = <<>> \o <<Exchanged>>
    BY <1>9, Handlers DEF Handler, on_exchange_request
  <2>2. <<>> \o <<Exchanged>> = <<Exchanged>>
    BY <1>2, ConcatEmptySeq
  <2>3. InOrder(h) /\ Ops(h) = {Exchanged}
    BY <1>3, <2>1, <2>2
  <2>4. QED
    BY <1>1, <1>4, <1>9, <2>3
<1>10. CASE event = "request" /\ txrx_state = "ACTIVE"
  <2> DEFINE s == on_rlf
             e == <<Exchanged>>
  <2>1. h = s \o e
    BY <1>10, Handlers DEF Handler, on_exchange_request
  <2>2. s = <<RlfTx, CheckState, RlfRx, CheckState, RlfEnd>>
    BY Handlers
  <2>3. /\ Len(s) = 5 /\ s[1] = RlfTx /\ s[2] = CheckState /\ s[3] = RlfRx
        /\ s[4] = CheckState /\ s[5] = RlfEnd
    BY <2>2
  <2>4. s \in Seq(Op) /\ e \in Seq(Op) /\ Len(e) = 1 /\ e[1] = Exchanged
    BY <1>2, RlfHarmless DEF Harmless
  <2> HIDE DEF s, e
  <2> HIDE DEF h
  <2> DEFINE c == s \o e
  <2>5. /\ Len(c) = Len(s) + Len(e)
        /\ \A k \in 1..Len(s) + Len(e) : c[k] = IF k <= Len(s) THEN s[k] ELSE e[k - Len(s)]
    BY <2>4, ConcatProperties
  <2>6. h = c
    BY <2>1
  <2> HIDE DEF c
  <2>7. /\ Len(h) = Len(s) + Len(e)
        /\ \A k \in 1..Len(s) + Len(e) : h[k] = IF k <= Len(s) THEN s[k] ELSE e[k - Len(s)]
    BY <2>5, <2>6
  <2>8. Len(h) = 6 /\ \A k \in 1..6 : h[k] = IF k <= 5 THEN s[k] ELSE e[k - 5]
    BY <2>3, <2>4, <2>7
  <2>9. /\ h[1] = RlfTx /\ h[2] = CheckState /\ h[3] = RlfRx
        /\ h[4] = CheckState /\ h[5] = RlfEnd
    BY <2>3, <2>8
  <2>10. h[6] = e[1]
    BY <2>8
  <2>11. InOrder(h) /\ Ops(h) = {RlfTx, CheckState, RlfRx, RlfEnd} \cup (IF 6 = 6 THEN {Exchanged} ELSE {})
    BY <2>4, <2>8, <2>9, <2>10, RlfInOrder
  <2>12. Ops(h) = {RlfTx, CheckState, RlfRx, RlfEnd, Exchanged}
    BY <2>11
  <2>13. ActTx \notin Ops(h) /\ ActRx \notin Ops(h)
    BY <2>12, OpsDiffer
  <2>14. QED
    BY <1>1, <1>10, <2>11, <2>12, <2>13 DEF h
<1>11. QED
  BY <1>5, <1>6, <1>7, <1>8, <1>9, <1>10 DEF Event

(* assign, operation by operation. *)
LEMMA AssignOps ==
  ASSUME TypeInv, NEW t \in {"reactor", "timer2"}, assign(t), NEW op, op = Head(todo[t])
  PROVE  /\ op \in Op /\ op # CheckState /\ todo[t] # <<>> /\ Done(t)
         /\ op \notin {RlfTx, ActTx, Exchanged, Requested} => txrx_state' = txrx_state
         /\ op \notin {RlfTx, ActTx} => is_tx_enabled' = is_tx_enabled
         /\ op \notin {RlfRx, ActRx} => is_rx_enabled' = is_rx_enabled
         /\ op \notin {Exchanged, Requested} => timers' = timers
         /\ op = RlfTx => txrx_state' = "NOT_CONFIGURED" /\ ~is_tx_enabled'
         /\ op = RlfRx => ~is_rx_enabled'
         /\ op = ActTx => txrx_state' = "ACTIVE" /\ is_tx_enabled'
         /\ op = ActRx => is_rx_enabled'
         /\ op = Exchanged => txrx_state' = "CONFIGURED" /\ timers' = timers \cup {"activate"}
         /\ op = Requested => txrx_state' = "CONFIGURING" /\ timers' = timers \cup {"expire"}
<1> DEFINE v == op.values
           New(name, old) == IF name \in DOMAIN v THEN v[name] ELSE old
<1>1. /\ op.op = "assign" /\ todo[t] # <<>> /\ Done(t) /\ todo[t] \in Seq(Op)
      /\ txrx_state' = New("state", txrx_state)
      /\ is_tx_enabled' = New("ep_tx", is_tx_enabled)
      /\ is_rx_enabled' = New("ep_rx", is_rx_enabled)
      /\ timers' = IF "timer" \in DOMAIN v THEN timers \cup {v.timer} ELSE timers
  BY DEF assign, Operation, TypeInv, Control
<1>2. op \in Op /\ op # CheckState
  BY <1>1 DEF CheckState
<1>3. CASE op = RlfTx
  <2>1. v = [state |-> "NOT_CONFIGURED", ep_tx |-> FALSE]
    BY <1>3, AssignValues DEF RlfTx
  <2> HIDE DEF v
  <2>2. /\ txrx_state' = "NOT_CONFIGURED" /\ is_tx_enabled' = FALSE
        /\ is_rx_enabled' = is_rx_enabled /\ timers' = timers
    BY <1>1, <2>1
  <2>3. QED
    BY <1>1, <1>2, <1>3, <2>2, OpsDiffer
<1>4. CASE op = RlfRx
  <2>1. v = [pdcp_tx |-> FALSE, ep_rx |-> FALSE]
    BY <1>4, AssignValues DEF RlfRx
  <2> HIDE DEF v
  <2>2. /\ txrx_state' = txrx_state /\ is_tx_enabled' = is_tx_enabled
        /\ is_rx_enabled' = FALSE /\ timers' = timers
    BY <1>1, <2>1
  <2>3. QED
    BY <1>1, <1>2, <1>4, <2>2, OpsDiffer
<1>5. CASE op = RlfEnd
  <2>1. v = [pdcp_rx |-> FALSE]
    BY <1>5, AssignValues DEF RlfEnd
  <2> HIDE DEF v
  <2>2. /\ txrx_state' = txrx_state /\ is_tx_enabled' = is_tx_enabled
        /\ is_rx_enabled' = is_rx_enabled /\ timers' = timers
    BY <1>1, <2>1
  <2>3. QED
    BY <1>1, <1>2, <1>5, <2>2, OpsDiffer
<1>6. CASE op = ActTx
  <2>1. v = [state |-> "ACTIVE", pdcp_tx |-> TRUE, pdcp_rx |-> TRUE, ep_tx |-> TRUE]
    BY <1>6, AssignValues DEF ActTx
  <2> HIDE DEF v
  <2>2. /\ txrx_state' = "ACTIVE" /\ is_tx_enabled' = TRUE
        /\ is_rx_enabled' = is_rx_enabled /\ timers' = timers
    BY <1>1, <2>1
  <2>3. QED
    BY <1>1, <1>2, <1>6, <2>2, OpsDiffer
<1>7. CASE op = ActRx
  <2>1. v = [ep_rx |-> TRUE]
    BY <1>7, AssignValues DEF ActRx
  <2> HIDE DEF v
  <2>2. /\ txrx_state' = txrx_state /\ is_tx_enabled' = is_tx_enabled
        /\ is_rx_enabled' = TRUE /\ timers' = timers
    BY <1>1, <2>1
  <2>3. QED
    BY <1>1, <1>2, <1>7, <2>2, OpsDiffer
<1>8. CASE op = Exchanged
  <2>1. v = [pdcp_rx |-> FALSE, state |-> "CONFIGURED", timer |-> "activate"]
    BY <1>8, AssignValues DEF Exchanged
  <2> HIDE DEF v
  <2>2. /\ txrx_state' = "CONFIGURED" /\ is_tx_enabled' = is_tx_enabled
        /\ is_rx_enabled' = is_rx_enabled /\ timers' = timers \cup {"activate"}
    BY <1>1, <2>1
  <2>3. QED
    BY <1>1, <1>2, <1>8, <2>2, OpsDiffer
<1>9. CASE op = Requested
  <2>1. v = [state |-> "CONFIGURING", timer |-> "expire"]
    BY <1>9, AssignValues DEF Requested
  <2> HIDE DEF v
  <2>2. /\ txrx_state' = "CONFIGURING" /\ is_tx_enabled' = is_tx_enabled
        /\ is_rx_enabled' = is_rx_enabled /\ timers' = timers \cup {"expire"}
    BY <1>1, <2>1
  <2>3. QED
    BY <1>1, <1>2, <1>9, <2>2, OpsDiffer
<1>10. QED
  BY <1>2, <1>3, <1>4, <1>5, <1>6, <1>7, <1>8, <1>9 DEF Op

(* One of the two threads has less to do. *)
LEMMA DoneOps ==
  ASSUME TypeInv, NEW t \in {"reactor", "timer2"}, todo[t] # <<>>, InOrder(todo[t]), Done(t)
  PROVE  LET s == todo[t]
             h == Head(s)
             q == Ops(todo'[t])
         IN
         /\ \A u \in {"reactor", "timer2"} : u # t => todo'[u] = todo[u]
         /\ InOrder(todo'[t]) /\ Ops(s) = {h} \cup q /\ h \in Op
         /\ RlfTx \notin q /\ ActTx \notin q
         /\ h = RlfTx => RlfRx \in q
         /\ h = RlfRx => CheckState \in q
         /\ h = ActTx => ActRx \in q /\ CheckState \in q
         /\ h = ActRx => CheckState \in q
         /\ h = Exchanged => q = {}
         /\ RlfTx \in Ops(s) => RlfRx \in Ops(s)
         /\ RlfRx \in Ops(s) => CheckState \in Ops(s)
         /\ ActTx \in Ops(s) => ActRx \in Ops(s)
<1> DEFINE s == todo[t]
<1>1. s \in Seq(Op) /\ todo \in [{"reactor", "timer2"} -> Seq(Op)]
  BY DEF TypeInv, Control
<1>2. todo' = [todo EXCEPT ![t] = Tail(s)]
  BY DEF Done
<1>3. todo'[t] = Tail(s) /\ \A u \in {"reactor", "timer2"} : u # t => todo'[u] = todo[u]
  BY <1>1, <1>2
<1>4. LET h == Head(s)
          q == Ops(Tail(s))
      IN
      /\ InOrder(Tail(s)) /\ Ops(s) = {h} \cup q /\ h \in Op
      /\ RlfTx \notin q /\ ActTx \notin q
      /\ h = RlfTx => RlfRx \in q
      /\ h = RlfRx => CheckState \in q
      /\ h = ActTx => ActRx \in q /\ CheckState \in q
      /\ h = ActRx => CheckState \in q
      /\ h = Exchanged => q = {}
      /\ RlfTx \in Ops(s) => RlfRx \in Ops(s)
      /\ RlfRx \in Ops(s) => CheckState \in Ops(s)
      /\ ActTx \in Ops(s) => ActRx \in Ops(s)
  BY <1>1, InOrderRest
<1>5. QED
  BY <1>3, <1>4

(* The first operation of a thread is done: what both have still to do. *)
LEMMA DoneSets ==
  ASSUME TypeInv, Steady, NEW t \in {"reactor", "timer2"}, todo[t] # <<>>, Done(t),
         NEW h, h = Head(todo[t])
  PROVE  /\ InOrder(todo["reactor"])' /\ InOrder(todo["timer2"])' /\ h \in Op
         /\ t = "reactor" =>
              /\ R = {h} \cup R' /\ T' = T /\ RlfTx \notin R'
              /\ h = RlfTx => RlfRx \in R' /\ CheckState \in R
              /\ h = RlfRx => CheckState \in R'
              /\ h = Exchanged => R' = {}
         /\ t = "timer2" =>
              /\ T = {h} \cup T' /\ R' = R /\ RlfTx \notin T' /\ ActTx \notin T'
              /\ h = RlfTx => RlfRx \in T'
              /\ h = RlfRx => CheckState \in T'
              /\ h = ActTx => ActRx \in T' /\ CheckState \in T'
              /\ h = ActRx => CheckState \in T'
         /\ RlfRx \in R => CheckState \in R
<1> DEFINE s == todo[t]
           q == Ops(todo'[t])
<1>1. InOrder(s)
  BY DEF Steady
<1>2. /\ \A u \in {"reactor", "timer2"} : u # t => todo'[u] = todo[u]
      /\ InOrder(todo'[t]) /\ Ops(s) = {h} \cup q /\ h \in Op
      /\ RlfTx \notin q /\ ActTx \notin q
      /\ h = RlfTx => RlfRx \in q
      /\ h = RlfRx => CheckState \in q
      /\ h = ActTx => ActRx \in q /\ CheckState \in q
      /\ h = ActRx => CheckState \in q
      /\ h = Exchanged => q = {}
      /\ RlfRx \in Ops(s) => CheckState \in Ops(s)
      /\ RlfTx \in Ops(s) => RlfRx \in Ops(s)
  BY <1>1, DoneOps
<1>3. RlfRx \in R => CheckState \in R
  <2>1. CASE todo["reactor"] = <<>>
    BY <2>1, NoOps DEF R
  <2>2. CASE todo["reactor"] # <<>>
    <3>1. todo["reactor"] \in Seq(Op) /\ InOrder(todo["reactor"])
      BY DEF TypeInv, Control, Steady
    <3>2. QED
      BY <2>2, <3>1, InOrderRest DEF R
  <2>3. QED
    BY <2>1, <2>2
<1>4. R' = Ops(todo'["reactor"]) /\ T' = Ops(todo'["timer2"])
  BY DEF R, T, Ops
<1>5. InOrder(todo["reactor"])' /\ InOrder(todo["timer2"])'
  <2>1. InOrder(todo'["reactor"]) /\ InOrder(todo'["timer2"])
    BY <1>2 DEF Steady
  <2>2. QED
    BY <2>1 DEF InOrder, Followed
<1>6. CASE t = "reactor"
  <2>1. q = R' /\ Ops(s) = R
    BY <1>4, <1>6 DEF R
  <2>2. T' = T
    BY <1>2, <1>4, <1>6 DEF T
  <2> HIDE DEF q, s
  <2>3. QED
    BY <1>2, <1>3, <1>5, <1>6, <2>1, <2>2
<1>7. CASE t = "timer2"
  <2>1. q = T' /\ Ops(s) = T
    BY <1>4, <1>7 DEF T
  <2>2. R' = R
    BY <1>2, <1>4, <1>7 DEF R
  <2> HIDE DEF q, s
  <2>3. QED
    BY <1>2, <1>3, <1>5, <1>7, <2>1, <2>2
<1>8. QED
  BY <1>6, <1>7

(* assign leaves connections, events and the tx thread alone. *)
LEMMA AssignHeld ==
  ASSUME TypeInv, HInv, NEW t \in {"reactor", "timer2"}, assign(t)
  PROVE  HInv'
<1> DEFINE h == Head(todo[t])
<1>1. /\ h # CheckState /\ todo[t] # <<>> /\ Done(t)
      /\ h \notin {RlfTx, ActTx, Exchanged, Requested} => txrx_state' = txrx_state
      /\ h \notin {RlfTx, ActTx} => is_tx_enabled' = is_tx_enabled
      /\ h \notin {RlfRx, ActRx} => is_rx_enabled' = is_rx_enabled
      /\ h \notin {Exchanged, Requested} => timers' = timers
      /\ h = RlfTx => txrx_state' = "NOT_CONFIGURED" /\ ~is_tx_enabled'
      /\ h = RlfRx => ~is_rx_enabled'
      /\ h = ActTx => txrx_state' = "ACTIVE" /\ is_tx_enabled'
      /\ h = ActRx => is_rx_enabled'
      /\ h = Exchanged => txrx_state' = "CONFIGURED" /\ timers' = timers \cup {"activate"}
      /\ h = Requested => txrx_state' = "CONFIGURING" /\ timers' = timers \cup {"expire"}
  BY AssignOps
<1>2. /\ InOrder(todo["reactor"])' /\ InOrder(todo["timer2"])' /\ h \in Op
      /\ t = "reactor" =>
           /\ R = {h} \cup R' /\ T' = T /\ RlfTx \notin R'
           /\ h = RlfTx => RlfRx \in R' /\ CheckState \in R
           /\ h = RlfRx => CheckState \in R'
           /\ h = Exchanged => R' = {}
      /\ t = "timer2" =>
           /\ T = {h} \cup T' /\ R' = R /\ RlfTx \notin T' /\ ActTx \notin T'
           /\ h = RlfTx => RlfRx \in T'
           /\ h = RlfRx => CheckState \in T'
           /\ h = ActTx => ActRx \in T' /\ CheckState \in T'
           /\ h = ActRx => CheckState \in T'
      /\ RlfRx \in R => CheckState \in R
  BY <1>1, DoneSets DEF HInv
<1>3. /\ set' = set /\ sock' = sock /\ ep_event' = ep_event /\ backlog' = backlog
      /\ recv_set' = recv_set /\ pc' = pc /\ teardown' = teardown
  BY DEF assign, app, tx, life
<1>4. Queued' = Queued
  BY DEF assign, events, Queued
<1>5. /\ is_tx_enabled \in BOOLEAN /\ is_rx_enabled \in BOOLEAN
  BY DEF TypeInv, Control
<1>6. NoOverlap /\ Flags /\ Kept /\ Connected /\ Watching
  BY DEF HInv, Steady
<1>7. set' \in Setting /\ (set'.kind # "TCPS" => backlog' = <<>>) /\ Woken'
  BY <1>3 DEF HInv, Woken
<1>8. /\ is_active' <=> (is_tx_enabled' /\ is_rx_enabled')
      /\ is_active <=> (is_tx_enabled /\ is_rx_enabled)
      /\ is_rlf' <=> (~is_tx_enabled' /\ ~is_rx_enabled')
      /\ is_rlf <=> (~is_tx_enabled /\ ~is_rx_enabled)
  BY DEF is_active, is_rlf
<1> HIDE DEF h
<1>9. CASE t = "reactor"
  <2>1. /\ h \notin {ActTx, ActRx}
        /\ R = {h} \cup R' /\ T' = T /\ RlfTx \notin R'
        /\ h = RlfTx => RlfRx \in R' /\ CheckState \in R
        /\ h = RlfRx => CheckState \in R'
        /\ h = Exchanged => R' = {}
    BY <1>2, <1>6, <1>9 DEF NoOverlap
  <2>2. NoOverlap'
    BY <1>1, <1>2, <1>6, <2>1, OpsDiffer DEF NoOverlap
  <2>3. Flags'
    BY <1>1, <1>2, <1>5, <1>6, <2>1, OpsDiffer DEF Flags, NoOverlap, Coming
  <2>4. Kept'
    BY <1>1, <1>2, <1>3, <1>4, <1>5, <1>6, <1>8, <2>1, OpsDiffer DEF Flags, Kept, Coming
  <2>5. Connected'
    BY <1>1, <1>3, <1>4, <1>5, <1>6, <1>8, <2>1, OpsDiffer DEF Connected
  <2>6. Watching'
    BY <1>1, <1>3, <1>5, <1>6, <1>8, <2>1, OpsDiffer DEF Watching
  <2>7. QED
    BY <1>2, <1>7, <2>2, <2>3, <2>4, <2>5, <2>6 DEF HInv, Steady
<1>10. CASE t = "timer2"
  <2>1. /\ h \notin {Exchanged, Requested}
        /\ T = {h} \cup T' /\ R' = R /\ RlfTx \notin T' /\ ActTx \notin T'
        /\ h = RlfTx => RlfRx \in T'
        /\ h = RlfRx => CheckState \in T'
        /\ h = ActTx => ActRx \in T' /\ CheckState \in T'
        /\ h = ActRx => CheckState \in T'
    BY <1>2, <1>6, <1>10 DEF NoOverlap
  <2>2. NoOverlap'
    BY <1>1, <1>2, <1>6, <2>1, OpsDiffer DEF NoOverlap
  <2>3. Flags'
    BY <1>1, <1>2, <1>5, <1>6, <2>1, OpsDiffer DEF Flags, NoOverlap, Coming
  <2>4. Kept'
    BY <1>1, <1>2, <1>3, <1>4, <1>5, <1>6, <1>8, <2>1, OpsDiffer DEF Flags, Kept, Coming
  <2>5. Connected'
    BY <1>1, <1>3, <1>4, <1>5, <1>6, <1>8, <2>1, OpsDiffer DEF Connected
  <2>6. Watching'
    BY <1>1, <1>3, <1>5, <1>6, <1>8, <2>1, OpsDiffer DEF Watching
  <2>7. QED
    BY <1>2, <1>7, <2>2, <2>3, <2>4, <2>5, <2>6 DEF HInv, Steady
<1>11. QED
  BY <1>9, <1>10

(* Events are only added to those that are queued. *)
LEMMA QueuedMore ==
  ASSUME TypeInv, batch' = batch
  PROVE  /\ rrc_events' = rrc_events => Queued' = Queued
         /\ \A e \in Event : push_rrc_event(e) => Queued' = Queued \cup {e}
<1>1. Queued' = Ops(rrc_events') \cup Ops(batch')
  BY DEF Queued, Ops
<1>2. rrc_events' = rrc_events => Queued' = Queued
  BY <1>1 DEF Queued
<1>3. ASSUME NEW e \in Event, push_rrc_event(e) PROVE Queued' = Queued \cup {e}
  <2>1. Ops(Append(rrc_events, e)) = Ops(rrc_events) \cup {e}
    BY OpsMore DEF TypeInv, Control
  <2>2. rrc_events' = Append(rrc_events, e)
    BY <1>3 DEF push_rrc_event
  <2>3. QED
    BY <1>1, <2>1, <2>2 DEF Queued
<1>4. QED
  BY <1>2, <1>3

(* check_state closes the connection, or connects, and wakes the tx thread. *)
LEMMA CheckHeld ==
  ASSUME TypeInv, HInv, NEW t \in {"reactor", "timer2"}, check_state(t)
  PROVE  HInv'
<1> DEFINE h == Head(todo[t])
<1>1. h = CheckState /\ todo[t] # <<>> /\ Done(t)
  <2>1. h.op = "check_state" /\ todo[t] # <<>> /\ Done(t)
    BY DEF check_state, Operation
  <2>2. h \in Op
    BY <2>1, DoneSets DEF HInv
  <2>3. \A x \in Op : x # CheckState => x.op = "assign"
    BY DEF Op, RlfTx, RlfRx, RlfEnd, ActTx, ActRx, Exchanged, Requested, Assign
  <2>4. QED
    BY <2>1, <2>2, <2>3
<1>2. /\ InOrder(todo["reactor"])' /\ InOrder(todo["timer2"])'
      /\ t = "reactor" => R = {CheckState} \cup R' /\ T' = T
      /\ t = "timer2" => T = {CheckState} \cup T' /\ R' = R
  BY <1>1, DoneSets DEF HInv
<1>3. /\ \A x \in {RlfTx, RlfRx, ActTx, ActRx, Exchanged, Requested} :
           (x \in R' <=> x \in R) /\ (x \in T' <=> x \in T)
      /\ R' \subseteq R /\ T' \subseteq T
  BY <1>2, OpsDiffer
<1>4. /\ set' = set /\ recv_set' = recv_set /\ pc' = pc /\ teardown' = teardown
      /\ txrx_state' = txrx_state /\ timers' = timers /\ batch' = batch
      /\ is_tx_enabled' = is_tx_enabled /\ is_rx_enabled' = is_rx_enabled
  BY DEF check_state, tx, life, lcrrc
<1>5. NoOverlap /\ Flags /\ Kept /\ Connected /\ Watching
  BY DEF HInv, Steady
<1>6. Steady'
  <2>1. NoOverlap'
    BY <1>3, <1>4, <1>5 DEF NoOverlap
  <2>2. Flags'
    BY <1>3, <1>4, <1>5 DEF Flags, Coming
  <2>3. QED
    BY <1>2, <2>1, <2>2 DEF Steady
<1>7. Queued \subseteq Queued' /\ (push_rrc_event("rlf") => "rlf" \in Queued')
  <2>1. rrc_events' = rrc_events \/ push_rrc_event("rlf")
    BY DEF check_state, CheckedByServer, CheckedByClient, Connect
  <2>2. QED
    BY <1>4, <2>1, QueuedMore DEF Event
<1>8. (is_active' <=> is_active) /\ (is_rlf' <=> is_rlf) /\ ~(is_active /\ is_rlf)
  BY <1>4 DEF is_active, is_rlf
<1>9. set' \in Setting /\ (set'.kind # "TCPS" => backlog' = <<>>)
  BY <1>4 DEF HInv, check_state, CheckedByServer, CheckedByClient, Connect, app
<1>10. /\ ep_event \in Seq({"break", "stop"})
      /\ Append(ep_event, "break") \in Seq({"break", "stop"}) /\ Append(ep_event, "break") # <<>>
  <2>1. ep_event \in Seq({"break", "stop"})
    BY DEF HInv, Woken
  <2>2. Append(ep_event, "break") \in Seq({"break", "stop"})
    BY <2>1
  <2>3. Append(ep_event, "break") # <<>>
    BY <2>1
  <2>4. QED
    BY <2>1, <2>2, <2>3
<1>11. Coming' = Coming
  BY <1>3, <1>4 DEF Coming
<1>12. ASSUME set.kind # "UDP" PROVE ep_event' # <<>>
  BY <1>12, <1>10 DEF check_state, notify_event
<1>13. Watching' /\ Woken'
  <2>1. Watching'
    BY <1>4, <1>5, <1>12 DEF Watching
  <2>2. ep_event' = ep_event \/ ep_event' = Append(ep_event, "break")
    BY DEF check_state, notify_event
  <2>3. Woken'
    BY <1>4, <1>10, <2>2 DEF Woken, HInv
  <2>4. QED
    BY <2>1, <2>3
<1>14. CASE set.kind = "UDP"
  <2>1. Kept' /\ Connected'
    BY <1>4, <1>14 DEF Kept, Connected
  <2>2. QED
    BY <1>6, <1>9, <1>13, <2>1 DEF HInv
<1>15. CASE set.kind = "TCPS"
  <2>1. sock' = IF is_rlf THEN 0 ELSE sock
    BY <1>15 DEF check_state, CheckedByServer
  <2>2. Kept'
    BY <1>3, <1>4, <1>5, <1>7, <1>8, <1>11, <2>1 DEF Kept
  <2>3. Connected'
    BY <1>4, <1>15 DEF Connected
  <2>4. QED
    BY <1>6, <1>9, <1>13, <2>2, <2>3 DEF HInv
<1>16. CASE set.kind = "TCPC"
  <2>1. \/ is_rlf /\ sock' = 0
        \/ is_active /\ (sock' # 0 \/ push_rrc_event("rlf"))
        \/ ~is_rlf /\ ~is_active /\ sock' = sock
    <3>1. CheckedByClient
      BY <1>16 DEF check_state
    <3>2. Len(conns) + 1 # 0
      <4>1. conns \in Seq(Connection)
        BY DEF TypeInv, Sockets
      <4>2. QED
        BY <4>1
    <3>3. QED
      BY <3>1, <3>2 DEF CheckedByClient, Connect
  <2>2. Kept'
    BY <1>3, <1>4, <1>5, <1>7, <1>8, <1>11, <2>1 DEF Kept
  <2>3. Connected'
    BY <1>3, <1>4, <1>7, <1>8, <2>1 DEF Connected
  <2>4. QED
    BY <1>6, <1>9, <1>13, <2>2, <2>3 DEF HInv
<1>17. QED
  <2>1. set.kind \in {"UDP", "TCPS", "TCPC"}
    BY SettingAssumption DEF HInv
  <2>2. QED
    BY <1>14, <1>15, <1>16, <2>1

(* timer2 starts to activate the channel or to give up the request. *)
LEMMA Timer2Held ==
  ASSUME TypeInv, HInv, run_timer2
  PROVE  HInv'
<1>1. PICK due \in timers :
        /\ timers' = timers \ {due}
        /\ todo' = [todo EXCEPT !["timer2"] = IF due = "activate" THEN activate ELSE on_rlf]
  BY DEF run_timer2
<1>2. todo \in [{"reactor", "timer2"} -> Seq(Op)]
  BY DEF TypeInv, Control
<1> DEFINE s == IF due = "activate" THEN activate ELSE on_rlf
<1>3. InOrder(s) /\ Ops(s) = IF due = "activate" THEN {ActTx, CheckState, ActRx}
                             ELSE {RlfTx, CheckState, RlfRx, RlfEnd}
  BY Timer2InOrder
<1>4. todo'["timer2"] = s /\ todo'["reactor"] = todo["reactor"]
  BY <1>1, <1>2
<1> HIDE DEF s
<1>5. T = {} /\ T' = Ops(s) /\ R' = R
  <2>1. todo["timer2"] = <<>>
    BY DEF run_timer2
  <2>2. R' = Ops(todo'["reactor"]) /\ T' = Ops(todo'["timer2"])
    BY DEF R, T, Ops
  <2>3. QED
    BY <1>4, <2>1, <2>2, NoOps DEF R, T
<1>6. /\ due = "activate" => T' = {ActTx, CheckState, ActRx}
      /\ due # "activate" => T' = {RlfTx, CheckState, RlfRx, RlfEnd}
  BY <1>3, <1>5
<1>7. InOrder(todo["reactor"])' /\ InOrder(todo["timer2"])'
  <2>1. InOrder(todo'["reactor"]) /\ InOrder(todo'["timer2"])
    BY <1>3, <1>4 DEF HInv, Steady
  <2>2. QED
    BY <2>1 DEF InOrder, Followed
<1>8. /\ set' = set /\ recv_set' = recv_set /\ pc' = pc /\ teardown' = teardown
      /\ txrx_state' = txrx_state /\ is_tx_enabled' = is_tx_enabled
      /\ is_rx_enabled' = is_rx_enabled /\ sock' = sock /\ ep_event' = ep_event
      /\ backlog' = backlog
  BY DEF run_timer2, tx, life, ep, app
<1>9. Queued' = Queued
  BY DEF run_timer2, events, Queued
<1>10. NoOverlap /\ Flags /\ Kept /\ Connected /\ Watching /\ Woken
  BY DEF HInv, Steady
<1>11. (is_active' <=> is_active) /\ (is_rlf' <=> is_rlf)
  BY <1>8 DEF is_active, is_rlf
<1>12. NoOverlap'
  BY <1>1, <1>5, <1>6, <1>10, OpsDiffer DEF NoOverlap
<1>13. Coming'
  BY <1>6 DEF Coming
<1>14. Flags'
  BY <1>5, <1>6, <1>8, <1>10, <1>13, OpsDiffer DEF Flags
<1>15. Kept' /\ Connected'
  BY <1>5, <1>6, <1>8, <1>9, <1>13 DEF Kept, Connected
<1>16. Watching' /\ Woken'
  BY <1>5, <1>8, <1>10, <1>11 DEF Watching, Woken
<1>17. QED
  BY <1>7, <1>8, <1>12, <1>14, <1>15, <1>16 DEF HInv, Steady

(* The reactor starts to handle an event, after which it is not queued. *)
LEMMA HandleHeld ==
  ASSUME TypeInv, HInv, HandleEvent
  PROVE  HInv'
<1> DEFINE event == Head(batch)
           s == Handler(event)
<1>1. /\ batch # <<>> /\ todo["reactor"] = <<>> /\ batch' = Tail(batch)
      /\ event = "rlf" \/ (event = "request" /\ txrx_state = "ACTIVE") => ~Activating
      /\ todo' = [todo EXCEPT !["reactor"] = s]
      /\ timers' = IF event = "response" THEN timers \ {"expire"} ELSE timers
  BY DEF HandleEvent
<1>2. batch \in Seq(Event) /\ todo \in [{"reactor", "timer2"} -> Seq(Op)]
  BY DEF TypeInv, Control
<1>3. event \in Event /\ Ops(batch) = {event} \cup Ops(batch')
  BY <1>1, <1>2, OpsRest
<1>4. /\ s \in Seq(Op) /\ InOrder(s) /\ ActTx \notin Ops(s) /\ ActRx \notin Ops(s)
      /\ RlfRx \in Ops(s) => RlfTx \in Ops(s)
      /\ CheckState \in Ops(s) => event = "rlf" \/ (event = "request" /\ txrx_state = "ACTIVE")
      /\ event = "rlf" => RlfTx \in Ops(s)
      /\ event = "response" => Exchanged \in Ops(s)
      /\ event = "setup" /\ txrx_state = "NOT_CONFIGURED" => Requested \in Ops(s)
  BY <1>3, HandlerInOrder
<1> HIDE DEF s, event
<1>5. todo'["reactor"] = s /\ todo'["timer2"] = todo["timer2"]
  BY <1>1, <1>2
<1>6. R = {} /\ R' = Ops(s) /\ T' = T
  <2>1. R' = Ops(todo'["reactor"]) /\ T' = Ops(todo'["timer2"])
    BY DEF R, T, Ops
  <2>2. QED
    BY <1>1, <1>5, <2>1, NoOps DEF R, T
<1>7. InOrder(todo["reactor"])' /\ InOrder(todo["timer2"])'
  <2>1. InOrder(todo'["reactor"]) /\ InOrder(todo'["timer2"])
    BY <1>4, <1>5 DEF HInv, Steady
  <2>2. QED
    BY <2>1 DEF InOrder, Followed
<1>8. /\ set' = set /\ recv_set' = recv_set /\ pc' = pc /\ teardown' = teardown
      /\ txrx_state' = txrx_state /\ is_tx_enabled' = is_tx_enabled
      /\ is_rx_enabled' = is_rx_enabled /\ sock' = sock /\ ep_event' = ep_event
      /\ backlog' = backlog /\ rrc_events' = rrc_events
  BY DEF HandleEvent, tx, ep, app
<1>9. Queued = {event} \cup Queued' \/ Queued = Queued'
  <2>1. Queued' = Ops(rrc_events') \cup Ops(batch')
    BY DEF Queued, Ops
  <2>2. QED
    BY <1>3, <1>8, <2>1 DEF Queued
<1>10. NoOverlap /\ Flags /\ Kept /\ Connected /\ Watching /\ Woken
  BY DEF HInv, Steady
<1>11. (is_active' <=> is_active) /\ (is_rlf' <=> is_rlf)
  BY <1>8 DEF is_active, is_rlf
<1>12. NoOverlap'
  <2>1. ~Activating => T = {} /\ "activate" \notin timers
    BY NoOps DEF Activating, T
  <2>2. timers' \subseteq timers
    BY <1>1
  <2>3. QED
    BY <1>1, <1>4, <1>6, <1>10, <2>1, <2>2 DEF NoOverlap
<1>13. Coming => Coming'
  BY <1>1, <1>4, <1>6 DEF Coming
<1>14. Flags'
  BY <1>4, <1>6, <1>8, <1>10, <1>13 DEF Flags
<1>15. Kept'
  <2>1. event = "setup" => Coming' \/ is_active' \/ ActRx \in T'
    <3>1. txrx_state \in {"NOT_CONFIGURED", "CONFIGURING", "CONFIGURED", "ACTIVE"}
      BY DEF TypeInv, Control
    <3>2. CASE txrx_state = "NOT_CONFIGURED"
      BY <1>4, <1>6, <3>2 DEF Coming
    <3>3. CASE txrx_state \in {"CONFIGURING", "CONFIGURED"}
      BY <1>10, <1>13, <3>3 DEF Flags
    <3>4. CASE txrx_state = "ACTIVE"
      BY <1>6, <1>10, <1>11, <3>4 DEF Flags, is_active
    <3>5. QED
      BY <3>1, <3>2, <3>3, <3>4
  <2>2. QED
    BY <1>6, <1>8, <1>9, <1>10, <1>11, <1>13, <2>1 DEF Kept
<1>16. Connected'
  BY <1>4, <1>6, <1>8, <1>9, <1>10, <1>11 DEF Connected
<1>17. Watching' /\ Woken'
  BY <1>6, <1>8, <1>10, <1>11 DEF Watching, Woken
<1>18. QED
  BY <1>7, <1>8, <1>12, <1>14, <1>15, <1>16, <1>17 DEF HInv, Steady

(* What the threads of reactor and timer2 have to do is as before. *)
Steadily ==
  UNCHANGED <<set, is_tx_enabled, is_rx_enabled, txrx_state, timers, todo>>

(***************************************************************************)
(* Whoever opens the connection sets up the channel, whoever closes it     *)
(* gives up the link.                                                      *)
(***************************************************************************)
LEMMA SteadyHeld ==
  ASSUME TypeInv, HInv, Steadily, Queued \subseteq Queued',
         sock' \in {0, sock} \/ is_tx_enabled \/ "setup" \in Queued',
         sock' = 0 => sock = 0 \/ teardown' = "gone" \/ "rlf" \in Queued',
         teardown = "gone" => teardown' = "gone",
         set.kind # "TCPS" => backlog' = backlog, Watching', Woken'
  PROVE  HInv'
<1>1. /\ set' = set /\ txrx_state' = txrx_state /\ timers' = timers /\ todo' = todo
      /\ is_tx_enabled' = is_tx_enabled /\ is_rx_enabled' = is_rx_enabled
  BY DEF Steadily
<1>2. R' = R /\ T' = T
  BY <1>1 DEF R, T
<1>3. (is_active' <=> is_active) /\ (is_rlf' <=> is_rlf) /\ Coming' = Coming
  BY <1>1, <1>2 DEF is_active, is_rlf, Coming
<1>4. NoOverlap /\ Flags /\ Kept /\ Connected
  BY DEF HInv, Steady
<1>5. Steady'
  <2>1. NoOverlap'
    BY <1>1, <1>2, <1>4 DEF NoOverlap
  <2>2. Flags'
    BY <1>1, <1>2, <1>3, <1>4 DEF Flags
  <2>3. InOrder(todo["reactor"])' /\ InOrder(todo["timer2"])'
    BY <1>1 DEF HInv, Steady, InOrder, Followed
  <2>4. QED
    BY <2>1, <2>2, <2>3 DEF Steady
<1>6. Kept'
  <2>1. is_tx_enabled /\ ~is_active => ActRx \in T
    BY <1>4 DEF Flags, is_active
  <2>2. QED
    BY <1>1, <1>2, <1>3, <1>4, <2>1 DEF Kept
<1>7. Connected'
  BY <1>1, <1>2, <1>3, <1>4 DEF Connected
<1>8. QED
  BY <1>1, <1>5, <1>6, <1>7 DEF HInv

(* Nobody but the tx thread reads events: the others may only add one. *)
LEMMA AsideHeld ==
  ASSUME TypeInv, HInv, Steadily, UNCHANGED tx, batch' = batch,
         rrc_events' = rrc_events \/ \E e \in Event : push_rrc_event(e),
         ep_event' = ep_event \/ ep_event' = Append(ep_event, "stop"),
         sock' = sock \/ (sock' = 0 /\ teardown' = "gone"),
         teardown = "gone" => teardown' = "gone",
         set.kind # "TCPS" => backlog' = backlog
  PROVE  HInv'
<1>1. Queued \subseteq Queued'
  BY QueuedMore
<1>2. /\ set' = set /\ todo' = todo /\ recv_set' = recv_set /\ pc' = pc
      /\ is_tx_enabled' = is_tx_enabled /\ is_rx_enabled' = is_rx_enabled
  BY DEF Steadily, tx
<1>3. R' = R /\ T' = T /\ (is_active' <=> is_active)
  BY <1>2 DEF R, T, is_active
<1>4. ep_event' \in Seq({"break", "stop"}) /\ (ep_event # <<>> => ep_event' # <<>>)
  <2>1. ep_event \in Seq({"break", "stop"})
    BY DEF HInv, Woken
  <2>2. Append(ep_event, "stop") \in Seq({"break", "stop"})
    BY <2>1
  <2>3. Append(ep_event, "stop") # <<>>
    BY <2>1
  <2>4. QED
    BY <2>1, <2>2, <2>3
<1>5. Woken'
  BY <1>2, <1>4 DEF HInv, Woken
<1>6. Watching'
  BY <1>2, <1>3, <1>4 DEF HInv, Watching
<1>7. QED
  BY <1>1, <1>5, <1>6, SteadyHeld

(* The tx thread is somewhere between two calls of select. *)
LEMMA ProceedHeld ==
  ASSUME TypeInv, HInv, NEW ready \in SUBSET recv_set, pc' = Proceed(ready),
         pc \in {"recv", "to_tx", "accept", "event"}, recv_set' = recv_set, ep_event' = ep_event
  PROVE  Watching' /\ Woken'
<1>1. ready \in SUBSET {"event", "server", "sock"}
  BY DEF TypeInv, Sockets
<1>2. pc' \in {"top", "recv", "accept", "event"} /\ (pc' = "event" => "event" \in ready)
  BY <1>1, ProceedFacts
<1>3. Watching'
  BY <1>2 DEF Watching
<1>4. Woken'
  BY <1>2 DEF HInv, Woken
<1>5. QED
  BY <1>3, <1>4

(* run_pdcp_tx. *)
LEMMA TxHeld ==
  ASSUME TypeInv, HInv, Tx
  PROVE  HInv'
<1>1. CASE TxTop
  <2>1. /\ recv_set' = {"event"} \cup (IF set.kind = "TCPS" THEN {"server"} ELSE {})
                         \cup (IF sock # 0 /\ Watch THEN {"sock"} ELSE {})
        /\ pc' = "select"
        /\ UNCHANGED <<set, lcrrc, ep, events, todo, app, life>>
    BY <1>1 DEF TxTop
  <2>2. /\ Steadily /\ batch' = batch /\ rrc_events' = rrc_events /\ sock' = sock
        /\ teardown' = teardown /\ backlog' = backlog /\ ep_event' = ep_event /\ set' = set
    BY <2>1 DEF Steadily, lcrrc, ep, events, app, life
  <2>3. Queued' = Queued
    BY <2>2, QueuedMore
  <2>4. Woken'
    BY <2>1, <2>2 DEF HInv, Woken
  <2>5. set.kind \in {"UDP", "TCPS", "TCPC"}
    BY SettingAssumption DEF HInv
  <2>6. is_active' <=> is_active
    BY <2>2 DEF Steadily, is_active
  <2>7. set.kind # "UDP" /\ is_active => Watch
    BY <2>5 DEF Watch
  <2>8. Watching'
    BY <2>1, <2>2, <2>6, <2>7 DEF Watching
  <2>9. QED
    BY <2>2, <2>3, <2>4, <2>8, SteadyHeld
<1>2. CASE TxSelect
  <2>1. /\ UNCHANGED <<set, lcrrc, ep, events, todo, app, life>>
        /\ \/ recv_set' = Ready /\ pc' = Proceed(Ready)
           \/ recv_set' = recv_set /\ pc' = "top"
    BY <1>2 DEF TxSelect
  <2>2. /\ Steadily /\ batch' = batch /\ rrc_events' = rrc_events /\ sock' = sock
        /\ teardown' = teardown /\ backlog' = backlog /\ ep_event' = ep_event /\ set' = set
    BY <2>1 DEF Steadily, lcrrc, ep, events, app, life
  <2>3. Queued' = Queued
    BY <2>2, QueuedMore
  <2>4. Ready \subseteq recv_set /\ ("event" \in Ready => ep_event # <<>>)
    BY DEF Ready
  <2>5. Ready \in SUBSET {"event", "server", "sock"}
    BY <2>4 DEF TypeInv, Sockets
  <2>6. pc' \in {"top", "recv", "accept", "event"} /\ (pc' = "event" => "event" \in recv_set')
    BY <2>1, <2>5, ProceedFacts
  <2>7. Watching'
    BY <2>6 DEF Watching
  <2>8. Woken'
    BY <2>1, <2>2, <2>4, <2>6 DEF HInv, Woken
  <2>9. QED
    BY <2>2, <2>3, <2>7, <2>8, SteadyHeld
<1>3. CASE TxRecv
  <2>1. /\ UNCHANGED <<set, lcrrc, is_tx_enabled, is_rx_enabled, ep_event, batch, todo,
                       backlog, recv_set, life>>
        /\ pc = "recv"
    BY <1>3 DEF TxRecv
  <2>2. Steadily /\ teardown' = teardown
    BY <2>1 DEF Steadily, lcrrc, life
  <2>3. \/ sock' = sock /\ rrc_events' = rrc_events
        \/ sock' = 0 /\ push_rrc_event("rlf")
    BY <1>3 DEF TxRecv
  <2>4. Queued \subseteq Queued' /\ (sock' = sock \/ "rlf" \in Queued')
    BY <2>1, <2>3, QueuedMore DEF Event
  <2>5. Watching' /\ Woken'
    <3>1. CASE pc' = "to_tx"
      BY <2>1, <3>1 DEF HInv, Watching, Woken
    <3>2. CASE pc' = Proceed(recv_set \ {"sock"})
      <4>1. recv_set \ {"sock"} \in SUBSET recv_set
        OBVIOUS
      <4>2. QED
        BY <2>1, <3>2, <4>1, ProceedHeld
    <3>3. QED
      BY <1>3, <3>1, <3>2 DEF TxRecv
  <2>6. QED
    BY <2>1, <2>2, <2>3, <2>4, <2>5, SteadyHeld
<1>4. CASE TxToPdcp
  <2>1. /\ UNCHANGED <<set, lcrrc, ep, batch, todo, app, recv_set, life>>
        /\ pc = "to_tx" /\ pc' \in {pc, Proceed(recv_set \ {"sock"})}
        /\ rrc_events' = rrc_events \/ push_rrc_event("setup")
    BY <1>4 DEF TxToPdcp, AskForChannel
  <2>2. /\ Steadily /\ teardown' = teardown /\ sock' = sock /\ ep_event' = ep_event
        /\ backlog' = backlog
    BY <2>1 DEF Steadily, lcrrc, life, ep, app
  <2>3. Queued \subseteq Queued'
    BY <2>1, QueuedMore DEF Event
  <2>4. Watching' /\ Woken'
    <3>1. CASE pc' = pc
      BY <2>1, <2>2, <3>1 DEF HInv, Watching, Woken
    <3>2. CASE pc' = Proceed(recv_set \ {"sock"})
      <4>1. recv_set \ {"sock"} \in SUBSET recv_set
        OBVIOUS
      <4>2. QED
        BY <2>1, <2>2, <3>2, <4>1, ProceedHeld
    <3>3. QED
      BY <2>1, <3>1, <3>2
  <2>5. QED
    BY <2>1, <2>2, <2>3, <2>4, SteadyHeld
<1>5. CASE TxAccept
  <2>1. /\ UNCHANGED <<set, lcrrc, is_tx_enabled, is_rx_enabled, ep_event, batch, todo,
                       recv_set, life>>
        /\ pc = "accept" /\ pc' = Proceed(recv_set \ {"sock", "server"})
        /\ IF sock # 0 THEN UNCHANGED <<sock, rrc_events>>
           ELSE sock' = Head(backlog) /\ OnAccepted
    BY <1>5 DEF TxAccept
  <2>2. Steadily /\ teardown' = teardown
    BY <2>1 DEF Steadily, lcrrc, life
  <2>3. rrc_events' = rrc_events \/ push_rrc_event("setup")
    BY <2>1 DEF OnAccepted
  <2>4. sock' = sock \/ is_tx_enabled \/ push_rrc_event("setup")
    BY <2>1 DEF OnAccepted
  <2>5. Queued \subseteq Queued' /\ (push_rrc_event("setup") => "setup" \in Queued')
    BY <2>1, <2>3, QueuedMore DEF Event
  <2>6. set.kind = "TCPS"
    BY <2>1 DEF TypeInv, Sockets, HInv
  <2>7. Watching' /\ Woken'
    <3>1. recv_set \ {"sock", "server"} \in SUBSET recv_set
      OBVIOUS
    <3>2. QED
      BY <2>1, <3>1, ProceedHeld
  <2>8. QED
    BY <2>1, <2>2, <2>4, <2>5, <2>6, <2>7, SteadyHeld
<1>6. CASE TxEvent
  <2>1. /\ UNCHANGED <<set, lcrrc, is_tx_enabled, is_rx_enabled, sock, events, todo, app, teardown>>
        /\ pc = "event" /\ pc' = "top" /\ ep_event' = Tail(ep_event)
    BY <1>6 DEF TxEvent
  <2>2. Steadily /\ batch' = batch /\ rrc_events' = rrc_events /\ backlog' = backlog
    BY <2>1 DEF Steadily, lcrrc, events, app
  <2>3. Queued' = Queued
    BY <2>2, QueuedMore
  <2>4. ep_event \in Seq({"break", "stop"}) /\ ep_event # <<>>
    BY <2>1 DEF HInv, Woken
  <2>5. Tail(ep_event) \in Seq({"break", "stop"})
    BY <2>4, OpsRest
  <2>6. Watching' /\ Woken'
    BY <2>1, <2>5 DEF Watching, Woken
  <2>7. QED
    BY <2>1, <2>2, <2>3, <2>6, SteadyHeld
<1>7. QED
  BY <1>1, <1>2, <1>3, <1>4, <1>5, <1>6 DEF Tx

(* The other threads, the stopping and the surroundings. *)
LEMMA OtherHeld ==
  ASSUME TypeInv, HInv,
         \/ on_rrc_event \/ ReactorReturns \/ RxTake \/ RxSend
         \/ \E t \in Thread : ThreadEnds(t)
         \/ on_cmd_stop \/ BeginTeardown \/ Teardown
         \/ AppConnects \/ AppSends \/ AppCloses
         \/ on_cmd_init \/ on_rrc \/ RadioSends \/ RadioReceives \/ RadioFails
  PROVE  HInv'
<1>1. CASE on_rrc_event
  <2>1. /\ Steadily /\ UNCHANGED <<tx, sock, ep_event, teardown, backlog>>
        /\ batch = <<>> /\ batch' = rrc_events /\ rrc_events' = <<>>
    BY <1>1 DEF on_rrc_event, Steadily, lcrrc, ep, app, life
  <2>2. Queued' = Queued
    <3>1. Queued' = Ops(rrc_events') \cup Ops(batch')
      BY DEF Queued, Ops
    <3>2. QED
      BY <2>1, <3>1, NoOps DEF Queued
  <2>3. /\ set' = set /\ todo' = todo /\ recv_set' = recv_set /\ pc' = pc
        /\ is_tx_enabled' = is_tx_enabled /\ is_rx_enabled' = is_rx_enabled
    BY <2>1 DEF Steadily, tx
  <2>4. R' = R /\ T' = T /\ (is_active' <=> is_active)
    BY <2>3 DEF R, T, is_active
  <2>5. Watching' /\ Woken'
    BY <2>1, <2>3, <2>4 DEF HInv, Watching, Woken
  <2>6. QED
    BY <2>1, <2>2, <2>5, SteadyHeld
<1>2. CASE ReactorReturns \/ RxTake \/ RxSend \/ \E t \in Thread : ThreadEnds(t)
  <2>1. /\ Steadily /\ UNCHANGED <<tx, sock, ep_event, teardown, backlog, batch, rrc_events>>
    BY <1>2 DEF ReactorReturns, RxTake, RxSend, ThreadEnds, Steadily, lcrrc, ep, app, life, events
  <2>2. QED
    BY <2>1, AsideHeld
<1>3. CASE BeginTeardown
  <2>1. /\ Steadily /\ UNCHANGED <<tx, sock, ep_event, backlog, batch, rrc_events>>
        /\ teardown = "up"
    BY <1>3 DEF BeginTeardown, Steadily, lcrrc, ep, app, events
  <2>2. QED
    BY <2>1, AsideHeld
<1>4. CASE Teardown
  <2>1. /\ Steadily /\ UNCHANGED <<tx, backlog, batch>> /\ teardown # "gone"
        /\ rrc_events' = rrc_events \/ push_rrc_event("stop")
        /\ ep_event' = ep_event \/ ep_event' = Append(ep_event, "stop")
        /\ sock' = sock \/ (sock' = 0 /\ teardown' = "gone")
    BY <1>4 DEF Teardown, Steadily, lcrrc, app
  <2>2. "stop" \in Event
    BY DEF Event
  <2>3. QED
    BY <2>1, <2>2, AsideHeld
<1>5. CASE AppConnects \/ AppSends \/ AppCloses \/ RadioSends \/ RadioReceives
  <2>1. /\ Steadily /\ UNCHANGED <<tx, sock, ep_event, teardown, batch, rrc_events>>
        /\ set.kind # "TCPS" => backlog' = backlog
    BY <1>5 DEF AppConnects, AppSends, AppCloses, RadioSends, RadioReceives, Steadily, lcrrc, ep,
                app, life, events
  <2>2. QED
    BY <2>1, AsideHeld
<1>6. CASE on_cmd_stop \/ on_cmd_init \/ on_rrc \/ RadioFails
  <2>1. Steadily /\ UNCHANGED <<tx, sock, ep_event, teardown, backlog, batch>>
    BY <1>6 DEF on_cmd_stop, on_cmd_init, on_rrc, RadioFails, Steadily, lcrrc, ep, app, life
  <2>2. \E e \in Event : push_rrc_event(e)
    BY <1>6 DEF on_cmd_stop, on_cmd_init, on_rrc, RadioFails, Event
  <2>3. QED
    BY <2>1, <2>2, AsideHeld
<1>7. QED
  BY <1>1, <1>2, <1>3, <1>4, <1>5, <1>6

(* At the start there is no connection, or that of a UDP end point. *)
LEMMA InitH == Init => HInv
<1> SUFFICES ASSUME Init PROVE HInv
  OBVIOUS
<1>1. /\ set \in Setting /\ backlog = <<>> /\ ep_event = <<>> /\ pc = "top"
      /\ txrx_state = "NOT_CONFIGURED" /\ ~is_tx_enabled /\ ~is_rx_enabled
      /\ set.kind # "UDP" => sock = 0
  BY DEF Init
<1>2. todo["reactor"] = <<>> /\ todo["timer2"] = <<>>
  BY DEF Init
<1>3. R = {} /\ T = {} /\ InOrder(todo["reactor"]) /\ InOrder(todo["timer2"])
  BY <1>2, NoOps DEF R, T
<1>4. Steady
  BY <1>1, <1>3 DEF Steady, NoOverlap, Flags
<1>5. Kept /\ Connected /\ Watching
  BY <1>1 DEF Kept, Connected, Watching, is_active
<1>6. Woken
  BY <1>1 DEF Woken
<1>7. QED
  BY <1>1, <1>4, <1>5, <1>6 DEF HInv

(* A step that leaves all variables alone. *)
LEMMA StutterH == TypeInv /\ HInv /\ UNCHANGED vars => HInv'
<1> SUFFICES ASSUME TypeInv, HInv, UNCHANGED vars PROVE HInv'
  OBVIOUS
<1>1. /\ Steadily
      /\ UNCHANGED <<tx, sock, ep_event, teardown, backlog, batch, rrc_events>>
  BY DEF vars, Steadily, lcrrc, ep, app, life, events
<1>2. QED
  BY <1>1, AsideHeld

(* Every step keeps the invariant. *)
LEMMA NextH == EInv /\ HInv /\ [Next]_vars => HInv'
<1> SUFFICES ASSUME EInv, HInv, [Next]_vars PROVE HInv'
  OBVIOUS
<1>1. TypeInv
  BY DEF EInv
<1>2. CASE Step("reactor") \/ Step("timer2")
  BY <1>1, <1>2, AssignHeld, CheckHeld DEF Step
<1>3. CASE run_timer2
  BY <1>1, <1>3, Timer2Held
<1>4. CASE HandleEvent
  BY <1>1, <1>4, HandleHeld
<1>5. CASE Tx
  BY <1>1, <1>5, TxHeld
<1>6. CASE UNCHANGED vars
  BY <1>1, <1>6, StutterH
<1>7. CASE \/ on_rrc_event \/ ReactorReturns \/ RxTake \/ RxSend
           \/ \E t \in Thread : ThreadEnds(t)
           \/ on_cmd_stop \/ BeginTeardown \/ Teardown
           \/ AppConnects \/ AppSends \/ AppCloses
           \/ on_cmd_init \/ on_rrc \/ RadioSends \/ RadioReceives \/ RadioFails
  BY <1>1, <1>7, OtherHeld
<1>8. QED
  BY <1>2, <1>3, <1>4, <1>5, <1>6, <1>7 DEF Next, Reactor, Timer2

(***************************************************************************)
(* At rest nothing is to come: what keeps a connection without an active   *)
(* channel, or a client without a connection, is an operation, an event or *)
(* a timer, and none is left; and select sees all that could happen.       *)
(***************************************************************************)
LEMMA RestNoHang == TypeInv /\ HInv => NoConnectionHangs
<1> SUFFICES ASSUME TypeInv, HInv, AtRest, set.kind # "UDP"
             PROVE  /\ backlog = <<>>
                    /\ sock # 0 => is_active /\ "sock" \in recv_set /\ conns[sock].far = "open"
                    /\ set.kind = "TCPC" /\ is_active => sock # 0
                    /\ is_active \/ is_rlf
  BY DEF NoConnectionHangs
<1>1. R = {} /\ T = {} /\ Queued = {} /\ timers = {}
  BY NoOps DEF AtRest, R, T, Queued
<1>2. ~Coming
  BY <1>1 DEF Coming
<1>3. pc = "select" /\ Ready = {} /\ ("sock" \in recv_set => sock = watched) /\ teardown = "up"
  BY DEF AtRest
<1>4. Flags /\ Kept /\ Connected /\ Watching
  BY DEF HInv, Steady
<1>5. "event" \in recv_set /\ (set.kind = "TCPS" => "server" \in recv_set)
  BY <1>3, <1>4 DEF Watching
<1>6. ep_event = <<>> /\ (set.kind = "TCPS" => backlog = <<>>)
  BY <1>3, <1>5 DEF Ready
<1>7. backlog = <<>>
  BY <1>6 DEF HInv
<1>8. is_active \/ is_rlf
  BY <1>1, <1>4 DEF Flags, is_active, is_rlf, TypeInv, Control
<1>9. set.kind = "TCPC" /\ is_active => sock # 0
  BY <1>1, <1>3, <1>4 DEF Connected
<1>10. ASSUME sock # 0
       PROVE  is_active /\ "sock" \in recv_set /\ conns[sock].far = "open"
  <2>1. is_active
    BY <1>1, <1>2, <1>4, <1>10 DEF Kept
  <2>2. "sock" \in recv_set
    BY <1>1, <1>3, <1>4, <1>6, <1>10, <2>1 DEF Watching
  <2>3. ~Readable(sock)
    BY <1>3, <1>10, <2>2 DEF Ready
  <2>4. conns[sock].far \in {"open", "shut"}
    <3>1. conns \in Seq(Connection) /\ sock \in 1..Len(conns)
      BY <1>10 DEF TypeInv, Sockets
    <3>2. conns[sock] \in Connection
      BY <3>1
    <3>3. QED
      BY <3>2 DEF Connection
  <2>5. QED
    BY <2>1, <2>2, <2>3, <2>4 DEF Readable
<1>11. QED
  BY <1>7, <1>8, <1>9, <1>10

(***************************************************************************)
(* When the station comes to rest, no connection of the application hangs  *)
(* (check_state, on_rlf, on_init and run_pdcp_tx): an open one belongs to  *)
(* an active channel and is watched, an active client has one, nobody      *)
(* waits to be accepted; for any number of connections, failures, requests *)
(* and events.                                                             *)
(***************************************************************************)
THEOREM NoConnectionHangsHolds == Spec => []NoConnectionHangs
<1>1. Init => EInv /\ HInv
  BY InitE, InitH
<1>2. EInv /\ HInv /\ [Next]_vars => (EInv /\ HInv)'
  BY NextE, NextH
<1>3. EInv /\ HInv => NoConnectionHangs
  BY RestNoHang DEF EInv
<1>4. QED
  BY <1>1, <1>2, <1>3, PTL DEF Spec
=============================================================================
