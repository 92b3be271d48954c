------------------------------- MODULE LcRrc -------------------------------
(***************************************************************************)
(* How two stations establish one logical channel: the LCRRC of each end,  *)
(* the event queue of its AppRRC, and LCID 0 between them, which may lose  *)
(* RRC messages and deliver them in any order.                             *)
(*                                                                         *)
(* At every end two threads call into LCRRC without a common lock: the     *)
(* reactor, which handles the queued events, and the thread of timer2,     *)
(* which activates the channel and repeats requests.  Each handler becomes *)
(* a sequence of operations, and every operation is a step, so that the    *)
(* two threads interleave between any two of them.                         *)
(***************************************************************************)
EXTENDS Integers, SequencesExt

CONSTANTS
  End,                 \* the two stations
  MaxRetry,            \* tries of a request; 3 in send_exchange_req
  RlfDuringActivation, \* an RLF may be handled while an activation is under way
  Load                 \* bounds on what happens to the two ends

ASSUME EndAssumption == \E x, y \in End : x # y /\ End = {x, y}
ASSUME BoundAssumption ==
  /\ MaxRetry \in Nat \ {0}
  /\ RlfDuringActivation \in BOOLEAN

(***************************************************************************)
(* A load bounds the setup and RLF events of each end and the RRC messages *)
(* lost, and tells whether an answer may instead come late.                *)
(***************************************************************************)
ASSUME LoadAssumption ==
  Load \subseteq [setups : [End -> Nat], rlfs : [End -> Nat], losses : Nat, late : BOOLEAN]

VARIABLES
  txrx_state,
  enabled,       \* the layers that are enabled, one flag per direction
  rrc_requests,  \* the requests that wait for a response
  timers,        \* timer2: what is to be called, in the order of the deadlines
  rrc_req_id,
  rrc_events,
  todo,          \* the operations that each thread of each end has still to do
  air,           \* RRC messages on LCID 0
  load,
  setups, rlfs, lost  \* how much of the load has been

lcrrc == <<txrx_state, enabled, rrc_requests, timers, rrc_req_id>>
bounds == <<load, setups, rlfs, lost>>
vars == <<lcrrc, rrc_events, todo, air, bounds>>

Peer(e) == CHOOSE x \in End : x # e
Thread == {"reactor", "timer2"}
Layer == {"pdcp.tx", "pdcp.rx", "llc.tx", "llc.rx", "ep.tx", "ep.rx"}

Init ==
  /\ load \in Load
  /\ txrx_state = [e \in End |-> "NOT_CONFIGURED"]
  /\ enabled = [e \in End |-> {}]
  /\ rrc_requests = [e \in End |-> {}]
  /\ timers = [e \in End |-> <<>>]
  /\ rrc_req_id = [e \in End |-> 0]
  /\ rrc_events = [e \in End |-> <<>>]
  /\ todo = [e \in End |-> [t \in Thread |-> <<>>]]
  /\ air = {}
  /\ setups = [e \in End |-> 0]
  /\ rlfs = [e \in End |-> 0]
  /\ lost = 0
-----------------------------------------------------------------------------
(***************************************************************************)
(* The operations, and the handlers as sequences of them.                  *)
(***************************************************************************)
Change(state) == [op |-> "change", state |-> state]
Enable(layer) == [op |-> "enable", layer |-> layer]
Disable(layer) == [op |-> "disable", layer |-> layer]
Respond(id) == [op |-> "respond", id |-> id]
ScheduleActivate == [op |-> "schedule_activate"]
Activation == [op |-> "activate"]
AutoSend(retry) == [op |-> "auto_send", retry |-> retry]
Expire(id, retry) == [op |-> "expire", id |-> id, retry |-> retry]

on_rlf == <<Change("NOT_CONFIGURED"),
            Disable("ep.tx"), Disable("pdcp.tx"), Disable("llc.tx"),
            Disable("ep.rx"), Disable("pdcp.rx"), Disable("llc.rx")>>

activate == <<Change("ACTIVE"),
              Enable("pdcp.tx"), Enable("pdcp.rx"), Enable("llc.tx"), Enable("llc.rx"),
              Enable("ep.tx"), Enable("ep.rx")>>

reconfigure_rx == <<Disable("llc.rx"), Disable("pdcp.rx")>>

(* on_rrc_message(RRC_ExchangeRequest).  Mutant: no new activation. *)
on_exchange_request_mutant(e, id) ==
  (IF txrx_state[e] = "ACTIVE" THEN on_rlf ELSE <<>>) \o reconfigure_rx
    \o <<Change("CONFIGURED"), Respond(id)>>
on_exchange_request(e, id) ==
  (IF txrx_state[e] = "ACTIVE" THEN on_rlf ELSE <<>>) \o reconfigure_rx
    \o <<Change("CONFIGURED"), Respond(id), ScheduleActivate>>

(* on_rrc_message(RRC_ExchangeResponse), after check_response *)
on_exchange_response == reconfigure_rx \o <<Change("CONFIGURED"), ScheduleActivate>>

on_init(e, forced) ==
  IF ~forced /\ txrx_state[e] # "NOT_CONFIGURED" THEN <<>>
  ELSE <<Change("CONFIGURING"), AutoSend(MaxRetry)>>
-----------------------------------------------------------------------------
(***************************************************************************)
(* The operations.  Operation(e, t, name) is TRUE if the next operation of *)
(* thread t of end e has that name; Then(e, t, ops) puts ops in its place. *)
(***************************************************************************)
Operation(e, t, name) == todo[e][t] # <<>> /\ Head(todo[e][t]).op = name
Then(e, t, ops) == todo' = [todo EXCEPT ![e][t] = ops \o Tail(@)]

change_txrx_state(e, t) ==
  /\ Operation(e, t, "change")
  /\ txrx_state' = [txrx_state EXCEPT ![e] = Head(todo[e][t]).state]
  /\ Then(e, t, <<>>)
  /\ UNCHANGED <<enabled, rrc_requests, timers, rrc_req_id, rrc_events, air, bounds>>

set_enabled(e, t) ==
  /\ \/ /\ Operation(e, t, "enable")
        /\ enabled' = [enabled EXCEPT ![e] = @ \cup {Head(todo[e][t]).layer}]
     \/ /\ Operation(e, t, "disable")
        /\ enabled' = [enabled EXCEPT ![e] = @ \ {Head(todo[e][t]).layer}]
  /\ Then(e, t, <<>>)
  /\ UNCHANGED <<txrx_state, rrc_requests, timers, rrc_req_id, rrc_events, air, bounds>>

send_exchange_resp(e, t) ==
  /\ Operation(e, t, "respond")
  /\ air' = air \cup {[to |-> Peer(e), type |-> "response", id |-> Head(todo[e][t]).id]}
  /\ Then(e, t, <<>>)
  /\ UNCHANGED <<lcrrc, rrc_events, bounds>>

(* timer::cancel of the timer at one of these places, if there is one. *)
cancel(s, at) == IF at = {} THEN s ELSE RemoveAt(s, CHOOSE i \in at : TRUE)

(* The timer is cancelled, unless its thread has taken it already, and     *)
(* started again.                                                          *)
schedule_activate(e, t) ==
  LET at == {i \in DOMAIN timers[e] : timers[e][i] = Activation} IN
  /\ Operation(e, t, "schedule_activate")
  /\ timers' = [timers EXCEPT ![e] = Append(cancel(@, at), Activation)]
  /\ Then(e, t, <<>>)
  /\ UNCHANGED <<txrx_state, enabled, rrc_requests, rrc_req_id, rrc_events, air, bounds>>

(***************************************************************************)
(* auto_send_rrc.  The entry of a request never gets the message, so what  *)
(* the expiry handler sends again is an empty RRC for LCID 0, which has no *)
(* LCRRC: the peer ignores it.  Only the first try carries the request.    *)
(* Without tries left the link is taken down.                              *)
(***************************************************************************)
OnTheAir(e, retry, id) ==
  IF retry = MaxRetry THEN {[to |-> Peer(e), type |-> "request", id |-> id]} ELSE {}

(* Mutant: it gives up without a word. *)
NoTriesLeft_mutant == <<>>
NoTriesLeft == on_rlf

(* AppRRC::allocate_req_id.  Mutant: the counter stays where it is. *)
allocate_req_id_mutant(e) == UNCHANGED rrc_req_id
allocate_req_id(e) == rrc_req_id' = [rrc_req_id EXCEPT ![e] = @ + 1]

auto_send_rrc(e, t) ==
  LET retry == Head(todo[e][t]).retry
      id == rrc_req_id[e]
  IN
  /\ Operation(e, t, "auto_send")
  /\ allocate_req_id(e)
  /\ IF retry = 0
     THEN /\ Then(e, t, NoTriesLeft)
          /\ UNCHANGED <<rrc_requests, timers, air>>
     ELSE /\ timers' = [timers EXCEPT ![e] = Append(@, Expire(id, retry))]
          /\ rrc_requests' = [rrc_requests EXCEPT ![e] = @ \cup {id}]
          /\ air' = air \cup OnTheAir(e, retry, id)
          /\ Then(e, t, <<>>)
  /\ UNCHANGED <<txrx_state, enabled, rrc_events, bounds>>

(* The expiry handler: nothing if the response came meanwhile. *)
expiry_handler(e, t) ==
  LET id == Head(todo[e][t]).id IN
  /\ Operation(e, t, "expire")
  /\ rrc_requests' = [rrc_requests EXCEPT ![e] = @ \ {id}]
  /\ Then(e, t, IF id \in rrc_requests[e] THEN <<AutoSend(Head(todo[e][t]).retry - 1)>>
                                          ELSE <<>>)
  /\ UNCHANGED <<txrx_state, enabled, timers, rrc_req_id, rrc_events, air, bounds>>

activation_handler(e, t) ==
  /\ Operation(e, t, "activate")
  /\ Then(e, t, activate)
  /\ UNCHANGED <<lcrrc, rrc_events, air, bounds>>
-----------------------------------------------------------------------------
(***************************************************************************)
(* timer::schedule takes the timers that are due, in the order of their    *)
(* deadlines, and then calls them one after the other.  All wait 100 ms,   *)
(* whether or not the answer is under way: what expires before its answer  *)
(* arrives counts as a loss, and the answer is still to come.              *)
(***************************************************************************)
UnderWay(e, id) ==
  LET Carries(m, x) == m.type = x /\ m.id = id IN
  \/ \E m \in air : \/ m.to = e /\ Carries(m, "response")
                    \/ m.to = Peer(e) /\ Carries(m, "request")
  \/ \E k \in DOMAIN rrc_events[e] : Carries(rrc_events[e][k], "response")
  \/ \E k \in DOMAIN rrc_events[Peer(e)] : Carries(rrc_events[Peer(e)][k], "request")
  \/ Contains(todo[Peer(e)]["reactor"], Respond(id))

TooLate(e, n) ==
  \E k \in 1..n : timers[e][k].op = "expire" /\ UnderWay(e, timers[e][k].id)

schedule(e) ==
  /\ todo[e]["timer2"] = <<>>
  /\ \E n \in 1..Len(timers[e]) :
       /\ \/ ~TooLate(e, n) /\ UNCHANGED lost
          \/ TooLate(e, n) /\ load.late /\ lost < load.losses /\ lost' = lost + 1
       /\ todo' = [todo EXCEPT ![e]["timer2"] = SubSeq(timers[e], 1, n)]
       /\ timers' = [timers EXCEPT ![e] = SubSeq(@, n + 1, Len(@))]
  /\ UNCHANGED <<txrx_state, enabled, rrc_requests, rrc_req_id, rrc_events, air, load,
                 setups, rlfs>>

(***************************************************************************)
(* The reactor handles the next event.  An RLF comes long after the last   *)
(* activation unless RlfDuringActivation.                                  *)
(***************************************************************************)
Activating(e) ==
  todo[e]["timer2"] # <<>> \/ Contains(timers[e], Activation)

(* check_response: the request is answered, its timer cancelled.  Mutant:  *)
(* the entry stays and the timer runs on.                                  *)
check_response_mutant(e, id) == UNCHANGED <<rrc_requests, timers>>
check_response(e, id) ==
  LET at == {i \in DOMAIN timers[e] :
               timers[e][i].op = "expire" /\ timers[e][i].id = id /\ id \in rrc_requests[e]}
  IN
  /\ rrc_requests' = [rrc_requests EXCEPT ![e] = @ \ {id}]
  /\ timers' = [timers EXCEPT ![e] = cancel(@, at)]

Handle(e, ops) == todo' = [todo EXCEPT ![e]["reactor"] = ops]

on_rrc_event(e) ==
  LET event == Head(rrc_events[e]) IN
  /\ todo[e]["reactor"] = <<>>
  /\ rrc_events[e] # <<>>
  /\ rrc_events' = [rrc_events EXCEPT ![e] = Tail(@)]
  /\ \/ /\ event.type = "request"
        /\ Handle(e, on_exchange_request(e, event.id))
        /\ UNCHANGED <<rrc_requests, timers>>
     \/ /\ event.type = "response"
        /\ check_response(e, event.id)
        /\ Handle(e, on_exchange_response)
     \/ /\ event.type = "setup"
        /\ Handle(e, on_init(e, event.forced))
        /\ UNCHANGED <<rrc_requests, timers>>
     \/ /\ event.type = "rlf"
        /\ RlfDuringActivation \/ ~Activating(e)
        /\ Handle(e, on_rlf)
        /\ UNCHANGED <<rrc_requests, timers>>
  /\ UNCHANGED <<txrx_state, enabled, rrc_req_id, air, bounds>>

push_rrc_event(e, event) == rrc_events' = [rrc_events EXCEPT ![e] = Append(@, event)]

(* run_rrc_rx: a message arrives on LCID 0 ... *)
run_rrc_rx(e) ==
  /\ \E m \in air :
       /\ m.to = e
       /\ push_rrc_event(e, m)
       /\ air' = air \ {m}
  /\ UNCHANGED <<lcrrc, todo, bounds>>

(* ... or is lost. *)
Lose ==
  /\ lost < load.losses
  /\ \E m \in air : air' = air \ {m}
  /\ lost' = lost + 1
  /\ UNCHANGED <<lcrrc, rrc_events, todo, load, setups, rlfs>>

(* The console (forced) or a layer that is used while it is off. *)
Setup(e) ==
  /\ setups[e] < load.setups[e]
  /\ setups' = [setups EXCEPT ![e] = @ + 1]
  /\ \E forced \in BOOLEAN : push_rrc_event(e, [type |-> "setup", forced |-> forced])
  /\ UNCHANGED <<lcrrc, todo, air, load, rlfs, lost>>

(* A layer gives up the link: LLC::on_tx, PDCP::on_rx or a TCP end point. *)
CanFail == {"llc.tx", "pdcp.rx", "ep.tx", "ep.rx"}

Rlf(e) ==
  /\ rlfs[e] < load.rlfs[e]
  /\ enabled[e] \cap CanFail # {}
  /\ rlfs' = [rlfs EXCEPT ![e] = @ + 1]
  /\ push_rrc_event(e, [type |-> "rlf"])
  /\ UNCHANGED <<lcrrc, todo, air, load, setups, lost>>
-----------------------------------------------------------------------------
Step(e, t) ==
  \/ change_txrx_state(e, t)
  \/ set_enabled(e, t)
  \/ send_exchange_resp(e, t)
  \/ schedule_activate(e, t)
  \/ auto_send_rrc(e, t)
  \/ expiry_handler(e, t)
  \/ activation_handler(e, t)

Next ==
  \/ \E e \in End, t \in Thread : Step(e, t)
  \/ \E e \in End : schedule(e) \/ on_rrc_event(e) \/ run_rrc_rx(e) \/ Setup(e) \/ Rlf(e)
  \/ Lose

Spec == Init /\ [][Next]_vars

(* The two threads of each end keep running; what is not lost arrives. *)
Reactor(e) == Step(e, "reactor") \/ on_rrc_event(e)
Timer2(e) == Step(e, "timer2") \/ schedule(e)
Fairness ==
  \A e \in End : WF_vars(Reactor(e)) /\ WF_vars(Timer2(e)) /\ WF_vars(run_rrc_rx(e))

FairSpec == Spec /\ Fairness
-----------------------------------------------------------------------------
State == {"NOT_CONFIGURED", "CONFIGURING", "CONFIGURED", "ACTIVE"}

(* The fields of LCRRC have their types, and every request that waits for  *)
(* a response was sent.                                                    *)
TypeOK ==
  /\ txrx_state \in [End -> State]
  /\ enabled \in [End -> SUBSET Layer]
  /\ rrc_req_id \in [End -> Nat]
  /\ \A e \in End : rrc_requests[e] \subseteq 0..(rrc_req_id[e] - 1)

(* Nothing is under way at an end. *)
Quiet(e) ==
  /\ \A t \in Thread : todo[e][t] = <<>>
  /\ timers[e] = <<>>
  /\ rrc_events[e] = <<>>

(***************************************************************************)
(* When an end comes to rest, its layers are all enabled and its state is  *)
(* ACTIVE, or all disabled and NOT_CONFIGURED: handlers of the two threads *)
(* that overlapped have left no mixture of their effects.                  *)
(***************************************************************************)
LayersMatchState ==
  \A e \in End : Quiet(e) =>
    \/ txrx_state[e] = "ACTIVE" /\ enabled[e] = Layer
    \/ txrx_state[e] = "NOT_CONFIGURED" /\ enabled[e] = {}

(***************************************************************************)
(* An exchange that loses no message, and none of whose answers comes      *)
(* late, establishes the channel at both ends, whoever starts it, also if  *)
(* both do or do so again.                                                 *)
(***************************************************************************)
NoRlf == \A e \in End : rlfs[e] = 0
AllQuiet == air = {} /\ \A e \in End : Quiet(e)
Exchanged == \E e \in End : rrc_req_id[e] > 0
BothActive == \A e \in End : txrx_state[e] = "ACTIVE"
EstablishedTogether == (AllQuiet /\ Exchanged /\ lost = 0 /\ NoRlf) => BothActive

(* The same with fewer losses than tries: the retries make up for them.    *)
RetriesSurviveLoss ==
  (AllQuiet /\ Exchanged /\ lost < MaxRetry /\ NoRlf) => BothActive

(* No end stays in the middle of an exchange: it becomes active or gives up. *)
ExchangeEnds ==
  \A e \in End :
    txrx_state[e] \in {"CONFIGURING", "CONFIGURED"}
      ~> txrx_state[e] \in {"NOT_CONFIGURED", "ACTIVE"}
=============================================================================
