------------------------------ MODULE EndPoint ------------------------------
(***************************************************************************)
(* One station around one logical channel: the end point that connects the *)
(* channel to an application (UDPEndPoint, TCPServerEndPoint or            *)
(* TCPClientEndPoint), the event queue and the threads of AppRRC, and how  *)
(* all of it is stopped.  The exchange with the other station, which       *)
(* module LcRrc models, is reduced here to its outcomes.                   *)
(*                                                                         *)
(* The threads are the reactor (main), timer2, which activates the channel *)
(* and gives up requests, the two threads of the end point, tx and rx, and *)
(* those that only have to end: the ticker, timer1 and rrc_rx.             *)
(***************************************************************************)
EXTENDS Integers, SequencesExt

CONSTANTS
  Setting,    \* the situations to start from, see Init; their numbers are bounds
  QueueSize,  \* PDCP: max_tx_queue_size
  MaxEvents   \* bound: events that wait for the reactor

ASSUME SettingAssumption ==
  \A s \in Setting :
    /\ s.kind \in {"UDP", "TCPS", "TCPC"}
    /\ s.auto_init_on_tx \in BOOLEAN
    /\ {s.conns, s.reads, s.closes, s.chunks, s.rlfs, s.requests, s.inits, s.stops}
         \subseteq Nat
ASSUME SizeAssumption == QueueSize \in Nat \ {0} /\ MaxEvents \in Nat \ {0}

VARIABLES
  set,            \* the setting
  left,           \* what the bounds of the setting still allow
  txrx_state,     \* of LCRRC
  is_tx_enabled, is_rx_enabled,  \* of the end point
  pdcp,           \* its flags and queues; what was received counts by session
  session,        \* link failures so far
  rrc_events, batch,  \* queued events, and those that the reactor has taken
  todo,           \* what the handlers of reactor and timer2 have still to do
  timers,         \* timer2: "expire" of a request, "activate"
  conns,          \* connections of the application: its end, and bytes to read
  backlog,        \* those that wait for accept
  sock,           \* the one in sock, clientSock or targetSock; 0 if fd() = -1
  recv_set, watched,  \* of select; the fd of sock stands for the connection watched
  ep_event,
  pc,             \* where the tx thread is
  pending,        \* the session of what the rx thread holds, or None
  sent,           \* for each thing sent: when it was received, and when sent
  thread,         \* "looping" or "ended"
  running,        \* the threads whose flag says so
  reactor,        \* "running", "stopping" or "returned"
  teardown        \* how far ~AppRRC has come

app == <<conns, backlog>>
ep == <<is_tx_enabled, is_rx_enabled, sock, ep_event>>
tx == <<recv_set, watched, pc>>
rx == <<pending, sent>>
lcrrc == <<txrx_state, timers, session>>
events == <<rrc_events, batch>>
life == <<thread, running, reactor, teardown>>
vars == <<set, left, lcrrc, ep, pdcp, events, todo, app, tx, rx, life>>

None == -1
Thread == {"ticker", "rrc_rx", "timer1", "timer2", "tx", "rx"}
Connection == [far : {"open", "shut"}, unread : Nat]
Fresh == [far |-> "open", unread |-> 0]

(* A UDP end point has its socket from the start.  Bound: every thread has *)
(* started, and set its flag, before anything else happens.                *)
Init ==
  /\ set \in Setting
  /\ left = set
  /\ txrx_state = "NOT_CONFIGURED" /\ timers = {} /\ session = 0
  /\ is_tx_enabled = FALSE /\ is_rx_enabled = FALSE /\ ep_event = <<>>
  /\ sock = IF set.kind = "UDP" THEN 1 ELSE 0
  /\ conns = IF set.kind = "UDP" THEN <<Fresh>> ELSE <<>>
  /\ backlog = <<>>
  /\ pdcp = [tx |-> FALSE, rx |-> FALSE, to_tx |-> 0, to_rx |-> <<>>]
  /\ rrc_events = <<>> /\ batch = <<>>
  /\ todo = [t \in {"reactor", "timer2"} |-> <<>>]
  /\ recv_set = {} /\ watched = 0 /\ pc = "top"
  /\ pending = None /\ sent = {}
  /\ thread = [t \in Thread |-> "looping"] /\ running = Thread
  /\ reactor = "running" /\ teardown = "up"

Use(what) == left[what] > 0 /\ left' = [left EXCEPT ![what] = @ - 1]
push_rrc_event(event) == rrc_events' = Append(rrc_events, event)

is_active == is_tx_enabled /\ is_rx_enabled
is_rlf == ~is_tx_enabled /\ ~is_rx_enabled

(* The rx thread: what it can send, and what it throws away otherwise.     *)
(* Mutant: a server keeps it like a client.                                *)
CanSend == sock # 0 /\ (set.kind = "UDP" \/ is_active)
ThrownAway_mutant == FALSE
ThrownAway == set.kind = "TCPS"
-----------------------------------------------------------------------------
(***************************************************************************)
(* The handlers of LCRRC as sequences of operations, of which each is a    *)
(* step: the assignments up to the next call of check_state, or such a     *)
(* call.  LcRrc has every assignment as a step.  The flags of LLC change   *)
(* with those of PDCP.                                                     *)
(***************************************************************************)
Assign(values) == [op |-> "assign", values |-> values]
CheckState == [op |-> "check_state"]

on_rlf ==
  <<Assign([state |-> "NOT_CONFIGURED", ep_tx |-> FALSE]), CheckState,
    Assign([pdcp_tx |-> FALSE, ep_rx |-> FALSE]), CheckState, Assign([pdcp_rx |-> FALSE])>>

activate ==
  <<Assign([state |-> "ACTIVE", pdcp_tx |-> TRUE, pdcp_rx |-> TRUE, ep_tx |-> TRUE]),
    CheckState, Assign([ep_rx |-> TRUE]), CheckState>>

(* The channel is configured and activated later. *)
on_exchange == <<Assign([pdcp_rx |-> FALSE, state |-> "CONFIGURED", timer |-> "activate"])>>

on_exchange_request == (IF txrx_state = "ACTIVE" THEN on_rlf ELSE <<>>) \o on_exchange

(* A request expires unless it is answered, see on_rrc. *)
on_init(forced) ==
  IF ~forced /\ txrx_state # "NOT_CONFIGURED" THEN <<>>
  ELSE <<Assign([state |-> "CONFIGURING", timer |-> "expire"])>>

Operation(t, name) == todo[t] # <<>> /\ Head(todo[t]).op = name
Done(t) == todo' = [todo EXCEPT ![t] = Tail(@)]

(***************************************************************************)
(* PDCP empties its transmit queue with every change of pdcp_tx, and never *)
(* its receive queue.  The link has failed when ep_rx is cleared.          *)
(***************************************************************************)
assign(t) ==
  LET v == Head(todo[t]).values
      New(name, old) == IF name \in DOMAIN v THEN v[name] ELSE old
  IN
  /\ Operation(t, "assign")
  /\ txrx_state' = New("state", txrx_state)
  /\ is_tx_enabled' = New("ep_tx", is_tx_enabled)
  /\ is_rx_enabled' = New("ep_rx", is_rx_enabled)
  /\ pdcp' = [pdcp EXCEPT !.tx = New("pdcp_tx", @), !.rx = New("pdcp_rx", @),
                          !.to_tx = IF "pdcp_tx" \in DOMAIN v THEN 0 ELSE @]
  /\ timers' = IF "timer" \in DOMAIN v THEN timers \cup {v.timer} ELSE timers
  /\ session' = IF New("ep_rx", TRUE) THEN session ELSE session + 1
  /\ Done(t)
  /\ UNCHANGED <<set, left, sock, ep_event, events, app, tx, rx, life>>
-----------------------------------------------------------------------------
(***************************************************************************)
(* check_state.  With the link down the connection is closed; a client     *)
(* connects when the channel becomes active, and an activation of a        *)
(* channel that is active connects twice.  The application may refuse.     *)
(* UDPEndPoint has none.                                                   *)
(***************************************************************************)
CheckedByServer == sock' = (IF is_rlf THEN 0 ELSE sock) /\ UNCHANGED <<left, rrc_events, app>>

(* Bound: no thread is so slow that it goes from select to recv while      *)
(* targetSock is closed and opened anew.                                   *)
Connect ==
  /\ pc # "recv"
  /\ \/ /\ Use("conns")
        /\ conns' = Append(conns, Fresh)
        /\ sock' = Len(conns) + 1
        /\ UNCHANGED rrc_events
     \/ /\ sock' = 0
        /\ push_rrc_event("rlf")
        /\ UNCHANGED <<left, conns>>
  /\ UNCHANGED backlog

CheckedByClient ==
  \/ is_rlf /\ sock' = 0 /\ UNCHANGED <<left, rrc_events, app>>
  \/ is_active /\ Connect
  \/ ~is_rlf /\ ~is_active /\ UNCHANGED <<left, rrc_events, app, sock>>

(* notify_event(EVENTFD_BREAK_SELECT).  Mutant: only when the link is down. *)
notify_event_mutant == ep_event' = IF is_rlf THEN Append(ep_event, "break") ELSE ep_event
notify_event == ep_event' = Append(ep_event, "break")

check_state(t) ==
  /\ Operation(t, "check_state")
  /\ \/ set.kind = "TCPS" /\ CheckedByServer /\ notify_event
     \/ set.kind = "TCPC" /\ CheckedByClient /\ notify_event
     \/ set.kind = "UDP" /\ UNCHANGED <<left, rrc_events, app, sock, ep_event>>
  /\ Done(t)
  /\ UNCHANGED <<set, lcrrc, is_tx_enabled, is_rx_enabled, pdcp, batch, tx, rx, life>>

Step(t) == assign(t) \/ check_state(t)
-----------------------------------------------------------------------------
(***************************************************************************)
(* The thread of timer2.  A timer takes 100 ms: long before an activation  *)
(* the rx thread has done what it can with what came before.               *)
(***************************************************************************)
RxIdle ==
  \/ pending = None /\ pdcp.to_rx = <<>>
  \/ pending # None /\ ~CanSend /\ ~ThrownAway

run_timer2 ==
  /\ thread["timer2"] = "looping" /\ todo["timer2"] = <<>>
  /\ \E due \in timers :
       /\ due = "activate" => is_active \/ RxIdle
       /\ timers' = timers \ {due}
       /\ todo' = [todo EXCEPT !["timer2"] = IF due = "activate" THEN activate ELSE on_rlf]
  /\ UNCHANGED <<set, left, txrx_state, session, ep, pdcp, events, app, tx, rx, life>>
-----------------------------------------------------------------------------
(***************************************************************************)
(* The reactor takes all events that are queued and then handles them one  *)
(* after the other.  Bound: a failure of the link, or a new request of the *)
(* other station, does not come during an activation.                      *)
(***************************************************************************)
on_rrc_event ==
  /\ reactor = "running" /\ batch = <<>> /\ todo["reactor"] = <<>>
  /\ rrc_events # <<>>
  /\ batch' = rrc_events
  /\ rrc_events' = <<>>
  /\ UNCHANGED <<set, left, lcrrc, ep, pdcp, todo, app, tx, rx, life>>

Activating == todo["timer2"] # <<>> \/ "activate" \in timers

Handler(event) ==
  CASE event = "setup" -> on_init(FALSE)
    [] event = "forced" -> on_init(TRUE)
    [] event = "request" -> on_exchange_request
    [] event = "response" -> on_exchange
    [] event = "rlf" -> on_rlf
    [] event = "stop" -> <<>>

(* on_rrc_event(rrc_event_stop_t) *)
FlagsCleared == {"rrc_rx", "timer1", "timer2"}

HandleEvent ==
  LET event == Head(batch) IN
  /\ batch # <<>> /\ todo["reactor"] = <<>>
  /\ event = "rlf" \/ (event = "request" /\ txrx_state = "ACTIVE") => ~Activating
  /\ batch' = Tail(batch)
  /\ todo' = [todo EXCEPT !["reactor"] = Handler(event)]
  /\ timers' = IF event = "response" THEN timers \ {"expire"} ELSE timers
  /\ running' = IF event = "stop" THEN running \ FlagsCleared ELSE running
  /\ reactor' = IF event = "stop" THEN "stopping" ELSE reactor
  /\ UNCHANGED <<set, left, txrx_state, session, ep, pdcp, rrc_events, app, tx, rx, thread,
                 teardown>>

ReactorReturns ==
  /\ reactor = "stopping" /\ batch = <<>> /\ todo["reactor"] = <<>>
  /\ reactor' = "returned"
  /\ UNCHANGED <<set, left, lcrrc, ep, pdcp, events, todo, app, tx, rx, thread, running,
                 teardown>>
-----------------------------------------------------------------------------
(***************************************************************************)
(* run_pdcp_tx of the three end points.  recv_set is not cleared between   *)
(* two calls of select: what was ready stays in it.  Without a connection  *)
(* its fd is above the highest that select looks at.                       *)
(***************************************************************************)
Watch ==
  \/ set.kind = "TCPS" /\ (is_active \/ "sock" \in recv_set)
  \/ set.kind \in {"TCPC", "UDP"}

TxTop ==
  /\ thread["tx"] = "looping" /\ pc = "top" /\ "tx" \in running
  /\ recv_set' = {"event"} \cup (IF set.kind = "TCPS" THEN {"server"} ELSE {})
                   \cup (IF sock # 0 /\ Watch THEN {"sock"} ELSE {})
  /\ watched' = sock
  /\ pc' = "select"
  /\ UNCHANGED <<set, left, lcrrc, ep, pdcp, events, todo, app, rx, life>>

Readable(c) == conns[c].unread > 0 \/ conns[c].far = "shut"

Ready ==
  {x \in recv_set :
     \/ x = "event" /\ ep_event # <<>>
     \/ x = "server" /\ backlog # <<>>
     \/ x = "sock" /\ sock # 0 /\ sock = watched /\ Readable(sock)}

(* What the loop does next if what is ready is handled in this order. *)
Proceed(ready) ==
  CASE "sock" \in ready -> "recv"
    [] "sock" \notin ready /\ "server" \in ready -> "accept"
    [] ready = {"event"} -> "event"
    [] ready = {} -> "top"

(* select fails if the fd was closed before the call. *)
TxSelect ==
  /\ pc = "select"
  /\ \/ /\ Ready # {}
        /\ recv_set' = Ready
        /\ pc' = Proceed(Ready)
     \/ /\ "sock" \in recv_set /\ sock # watched
        /\ pc' = "top"
        /\ UNCHANGED recv_set
  /\ UNCHANGED <<set, left, lcrrc, ep, pdcp, events, todo, app, watched, rx, life>>

(* If the application has closed the connection, the link is given up. *)
TxRecv ==
  LET proceed == pc' = Proceed(recv_set \ {"sock"}) IN
  /\ pc = "recv"
  /\ \/ /\ sock = 0
        /\ proceed
        /\ UNCHANGED <<sock, conns, rrc_events>>
     \/ /\ sock # 0 /\ conns[sock].unread > 0
        /\ conns' = [conns EXCEPT ![sock].unread = @ - 1]
        /\ pc' = "to_tx"
        /\ UNCHANGED <<sock, rrc_events>>
     \/ /\ sock # 0 /\ conns[sock].unread = 0 /\ conns[sock].far = "shut"
        /\ sock' = 0
        /\ push_rrc_event("rlf")
        /\ proceed
        /\ UNCHANGED conns
  /\ UNCHANGED <<set, left, lcrrc, is_tx_enabled, is_rx_enabled, ep_event, pdcp, batch, todo,
                 backlog, recv_set, watched, rx, life>>

(***************************************************************************)
(* while (pdcp_tx_running & !pdcp.to_tx(b)).  A full queue is tried again  *)
(* until the end point is stopped, and each try, also one that fails, asks *)
(* for the channel if it is off.  Bound: MaxEvents.                        *)
(***************************************************************************)
(* Mutant: one too many. *)
HasRoom_mutant == pdcp.to_tx <= QueueSize
HasRoom == pdcp.to_tx < QueueSize

(* Mutant: the loop does not look at pdcp_tx_running. *)
GivesUp_mutant == FALSE
GivesUp == "tx" \notin running

AskForChannel ==
  IF ~pdcp.tx /\ set.auto_init_on_tx
  THEN Len(rrc_events) < MaxEvents /\ push_rrc_event("setup")
  ELSE UNCHANGED rrc_events

TxToPdcp ==
  /\ pc = "to_tx"
  /\ AskForChannel
  /\ pdcp' = IF HasRoom THEN [pdcp EXCEPT !.to_tx = @ + 1] ELSE pdcp
  /\ pc' = IF HasRoom \/ GivesUp THEN Proceed(recv_set \ {"sock"}) ELSE pc
  /\ UNCHANGED <<set, left, lcrrc, ep, batch, todo, app, recv_set, watched, rx, life>>

(* on_new_connection: a second connection is closed at once.  Mutant: the  *)
(* channel is not set up for the first one.                                *)
OnAccepted_mutant == UNCHANGED rrc_events
OnAccepted == IF is_tx_enabled THEN UNCHANGED rrc_events ELSE push_rrc_event("setup")

TxAccept ==
  /\ pc = "accept"
  /\ backlog' = Tail(backlog)
  /\ IF sock # 0 THEN UNCHANGED <<sock, rrc_events>>
     ELSE sock' = Head(backlog) /\ OnAccepted
  /\ pc' = Proceed(recv_set \ {"sock", "server"})
  /\ UNCHANGED <<set, left, lcrrc, is_tx_enabled, is_rx_enabled, ep_event, pdcp, batch, todo,
                 conns, recv_set, watched, rx, life>>

TxEvent ==
  /\ pc = "event"
  /\ ep_event' = Tail(ep_event)
  /\ IF Head(ep_event) = "stop"
     THEN /\ running' = running \ {"tx"}
          /\ thread' = [thread EXCEPT !["tx"] = "ended"]
     ELSE UNCHANGED <<thread, running>>
  /\ pc' = "top"
  /\ UNCHANGED <<set, left, lcrrc, is_tx_enabled, is_rx_enabled, sock, pdcp, events, todo, app,
                 recv_set, watched, rx, reactor, teardown>>

Tx == TxTop \/ TxSelect \/ TxRecv \/ TxToPdcp \/ TxAccept \/ TxEvent
-----------------------------------------------------------------------------
(***************************************************************************)
(* run_pdcp_rx.  A client keeps what it cannot send yet.                   *)
(***************************************************************************)
RxTake ==
  /\ thread["rx"] = "looping" /\ "rx" \in running
  /\ pending = None /\ pdcp.to_rx # <<>>
  /\ pending' = Head(pdcp.to_rx)
  /\ pdcp' = [pdcp EXCEPT !.to_rx = Tail(@)]
  /\ UNCHANGED <<set, left, lcrrc, ep, events, todo, app, tx, sent, life>>

RxSend ==
  /\ pending # None
  /\ \/ CanSend /\ sent' = sent \cup {<<pending, session>>}
     \/ ~CanSend /\ ThrownAway /\ UNCHANGED sent
  /\ pending' = None
  /\ UNCHANGED <<set, left, lcrrc, ep, pdcp, events, todo, app, tx, life>>
-----------------------------------------------------------------------------
(* A thread ends when it finds its flag cleared at the head of its loop.   *)
AtHead(t) ==
  /\ t = "timer2" => todo["timer2"] = <<>>
  /\ t = "tx" => pc = "top"
  /\ t = "rx" => (pending = None \/ ~CanSend)

ThreadEnds(t) ==
  /\ thread[t] = "looping" /\ t \notin running /\ AtHead(t)
  /\ thread' = [thread EXCEPT ![t] = "ended"]
  /\ UNCHANGED <<set, left, lcrrc, ep, pdcp, events, todo, app, tx, rx, running, reactor,
                 teardown>>

(***************************************************************************)
(* Stopping: the console pushes the event that stops the reactor, after    *)
(* which main destroys AppRRC; or the configuration is modified, and its   *)
(* watcher destroys AppRRC while the reactor runs.                         *)
(***************************************************************************)
on_cmd_stop ==
  /\ reactor = "running" /\ batch = <<>> /\ todo["reactor"] = <<>>
  /\ Use("stops")
  /\ push_rrc_event("stop")
  /\ UNCHANGED <<set, lcrrc, ep, pdcp, batch, todo, app, tx, rx, life>>

BeginTeardown ==
  /\ teardown = "up"
  /\ \/ reactor = "returned" /\ UNCHANGED left
     \/ Use("stops")
  /\ teardown' = "scheduler"
  /\ running' = running \ {"ticker"}
  /\ UNCHANGED <<set, lcrrc, ep, pdcp, events, todo, app, tx, rx, thread, reactor>>

Ended(ts) == \A t \in ts : thread[t] = "ended"

(***************************************************************************)
(* ~AppRRC, and with eps.clear the destructor of the end point.  Bound:    *)
(* the reactor returns before the end points are destroyed, which waits    *)
(* for the last round of three threads.                                    *)
(***************************************************************************)
Teardown ==
  /\ \/ /\ teardown = "scheduler" /\ Ended({"ticker"})
        /\ push_rrc_event("stop")
        /\ teardown' = "join"
        /\ UNCHANGED <<ep_event, running, sock>>
     \/ /\ teardown = "join" /\ Ended({"rrc_rx", "timer1", "timer2"}) /\ reactor = "returned"
        /\ running' = running \ {"tx", "rx"}
        /\ teardown' = "notify"
        /\ UNCHANGED <<ep_event, rrc_events, sock>>
     \/ /\ teardown = "notify"
        /\ ep_event' = Append(ep_event, "stop")
        /\ teardown' = "join_ep"
        /\ UNCHANGED <<rrc_events, running, sock>>
     \/ /\ teardown = "join_ep" /\ Ended({"tx", "rx"})
        /\ sock' = 0
        /\ teardown' = "gone"
        /\ UNCHANGED <<ep_event, rrc_events, running>>
  /\ UNCHANGED <<set, left, lcrrc, is_tx_enabled, is_rx_enabled, pdcp, batch, todo, app, tx, rx,
                 thread, reactor>>
-----------------------------------------------------------------------------
(***************************************************************************)
(* The surroundings: the application, ...                                  *)
(***************************************************************************)
AppConnects ==
  /\ set.kind = "TCPS" /\ teardown # "gone"
  /\ Use("conns")
  /\ conns' = Append(conns, Fresh)
  /\ backlog' = Append(backlog, Len(conns) + 1)
  /\ UNCHANGED <<set, lcrrc, ep, pdcp, events, todo, tx, rx, life>>

AppSends ==
  /\ Use("reads")
  /\ \E c \in DOMAIN conns :
       conns[c].far = "open" /\ conns' = [conns EXCEPT ![c].unread = @ + 1]
  /\ UNCHANGED <<set, lcrrc, ep, pdcp, events, todo, backlog, tx, rx, life>>

AppCloses ==
  /\ set.kind # "UDP"
  /\ Use("closes")
  /\ \E c \in DOMAIN conns :
       conns[c].far = "open" /\ conns' = [conns EXCEPT ![c].far = "shut"]
  /\ UNCHANGED <<set, lcrrc, ep, pdcp, events, todo, backlog, tx, rx, life>>

(***************************************************************************)
(* ... the console, and the other station.                                 *)
(***************************************************************************)
on_cmd_init ==
  /\ reactor = "running" /\ batch = <<>> /\ todo["reactor"] = <<>>
  /\ Use("inits")
  /\ push_rrc_event("forced")
  /\ UNCHANGED <<set, lcrrc, ep, pdcp, batch, todo, app, tx, rx, life>>

on_rrc ==
  /\ thread["rrc_rx"] = "looping"
  /\ \/ "expire" \in timers /\ ~Contains(rrc_events \o batch, "response")
          /\ push_rrc_event("response") /\ UNCHANGED left
     \/ Use("requests") /\ push_rrc_event("request")
  /\ UNCHANGED <<set, lcrrc, ep, pdcp, batch, todo, app, tx, rx, life>>

RadioSends ==
  /\ thread["ticker"] = "looping" /\ pdcp.tx /\ pdcp.to_tx > 0
  /\ pdcp' = [pdcp EXCEPT !.to_tx = @ - 1]
  /\ UNCHANGED <<set, left, lcrrc, ep, events, todo, app, tx, rx, life>>

RadioReceives ==
  /\ reactor = "running" /\ batch = <<>> /\ todo["reactor"] = <<>> /\ pdcp.rx
  /\ Use("chunks")
  /\ pdcp' = [pdcp EXCEPT !.to_rx = Append(@, session)]
  /\ UNCHANGED <<set, lcrrc, ep, events, todo, app, tx, rx, life>>

RadioFails ==
  /\ thread["ticker"] = "looping" /\ pdcp.tx /\ ~Activating
  /\ Use("rlfs")
  /\ push_rrc_event("rlf")
  /\ UNCHANGED <<set, lcrrc, ep, pdcp, batch, todo, app, tx, rx, life>>
-----------------------------------------------------------------------------
Reactor == Step("reactor") \/ on_rrc_event \/ HandleEvent \/ ReactorReturns
Timer2 == Step("timer2") \/ run_timer2

Next ==
  \/ Reactor \/ Timer2
  \/ Tx \/ RxTake \/ RxSend
  \/ \E t \in Thread : ThreadEnds(t)
  \/ on_cmd_stop \/ BeginTeardown \/ Teardown
  \/ AppConnects \/ AppSends \/ AppCloses
  \/ on_cmd_init \/ on_rrc \/ RadioSends \/ RadioReceives \/ RadioFails

Spec == Init /\ [][Next]_vars

(***************************************************************************)
(* The threads run, main destroys AppRRC once the reactor has returned,    *)
(* the ticker goes on sending, and applications read.  Nothing obliges an  *)
(* application, the other station or the console to do anything.           *)
(***************************************************************************)
Fairness ==
  /\ WF_vars(Reactor) /\ WF_vars(Timer2) /\ WF_vars(Tx) /\ WF_vars(RxTake) /\ WF_vars(RxSend)
  /\ \A t \in Thread : WF_vars(ThreadEnds(t))
  /\ WF_vars(reactor = "returned" /\ BeginTeardown) /\ WF_vars(Teardown)
  /\ WF_vars(RadioSends)

FairSpec == Spec /\ Fairness
-----------------------------------------------------------------------------
(* The variables have their types, and the transmit queue its limit. *)
TypeOK ==
  /\ txrx_state \in {"NOT_CONFIGURED", "CONFIGURING", "CONFIGURED", "ACTIVE"}
  /\ timers \subseteq {"expire", "activate"}
  /\ conns \in Seq(Connection) /\ sock \in 0..Len(conns)
  /\ pdcp.to_tx \in 0..QueueSize
  /\ recv_set \subseteq {"event", "server", "sock"}
  /\ running \subseteq Thread

(* Nothing is under way, and the tx thread has nothing to wake up for. *)
AtRest ==
  /\ rrc_events = <<>> /\ batch = <<>> /\ timers = {}
  /\ todo["reactor"] = <<>> /\ todo["timer2"] = <<>>
  /\ pc = "select" /\ Ready = {} /\ ~("sock" \in recv_set /\ sock # watched)
  /\ reactor = "running" /\ teardown = "up"

(***************************************************************************)
(* When the station comes to rest, no application connection hangs: one    *)
(* that is open belongs to an active channel, is watched by select, and    *)
(* its application has not closed it; a client has one exactly if its      *)
(* channel is active; no application waits to be accepted.                 *)
(***************************************************************************)
NoConnectionHangs ==
  AtRest /\ set.kind # "UDP" =>
    /\ backlog = <<>>
    /\ sock # 0 => is_active /\ "sock" \in recv_set /\ conns[sock].far = "open"
    /\ set.kind = "TCPC" /\ is_active => sock # 0
    /\ is_active \/ is_rlf

(***************************************************************************)
(* What a server sends to its application was received since the last      *)
(* failure of the link: nothing of an earlier connection gets into the     *)
(* next one.                                                               *)
(***************************************************************************)
OwnSession == set.kind = "TCPS" => \A x \in sent : x[1] = x[2]

MaxConns == Max({s.conns : s \in Setting})

(***************************************************************************)
(* If the application closes its connection, the end point closes it, too, *)
(* whatever the state of the channel.                                      *)
(***************************************************************************)
CloseNoticed ==
  \A c \in 1..MaxConns : (sock = c /\ conns[c].far = "shut") ~> sock # c

(***************************************************************************)
(* Stopping ends: every thread is joined, from whatever it was doing.      *)
(***************************************************************************)
Stopping ==
  teardown # "up" \/ reactor # "running" \/ Contains(rrc_events \o batch, "stop")
StopCompletes == Stopping ~> (teardown = "gone" /\ reactor = "returned")
=============================================================================
