----------------------------- MODULE MCEndPoint -----------------------------
(***************************************************************************)
(* Instances of EndPoint for TLC: each kind of end point in situations     *)
(* with a few connections, failures and a stop.                            *)
(***************************************************************************)
EXTENDS EndPoint

Idle(kind) ==
  [kind |-> kind, auto_init_on_tx |-> FALSE, conns |-> 0, reads |-> 0, closes |-> 0,
   chunks |-> 0, rlfs |-> 0, requests |-> 0, inits |-> 0, stops |-> 0]

Settings == {
  (* one application closes while another one connects *)
  [Idle("TCPS") EXCEPT !.conns = 2, !.closes = 1],
  (* data of two sessions *)
  [Idle("TCPS") EXCEPT !.conns = 1, !.rlfs = 1, !.requests = 1, !.chunks = 1],
  (* stopped in the middle of it *)
  [Idle("TCPS") EXCEPT !.conns = 1, !.reads = 1, !.stops = 1],
  [Idle("TCPC") EXCEPT !.conns = 1, !.requests = 1, !.chunks = 1, !.stops = 1],
  (* the channel is set up again while it is active *)
  [Idle("TCPC") EXCEPT !.conns = 2, !.closes = 1, !.requests = 1, !.inits = 1],
  (* more datagrams than the queue takes *)
  [Idle("UDP") EXCEPT !.reads = 2, !.requests = 1, !.chunks = 1, !.stops = 1],
  [Idle("UDP") EXCEPT !.reads = 2, !.auto_init_on_tx = TRUE, !.rlfs = 1]}
=============================================================================
