------------------------------- MODULE AmLink -------------------------------
(***************************************************************************)
(* What acknowledged mode promises to PDCP, without sequence numbers,      *)
(* rings, slots or acknowledgements: a PDU handed to the link is held      *)
(* until the peer has it; the only other way to let go of it is to abandon *)
(* it openly.  The peer may get a PDU more than once and in any order.     *)
(***************************************************************************)
EXTENDS Naturals

CONSTANTS
  End,       \* the ends of the link
  MaxPdu     \* MaxPdu[e]: how many PDUs end e has to send

VARIABLES
  offered,   \* how many PDUs PDCP has handed over at each end
  held,      \* the PDUs the sender still keeps a copy of
  delivered, \* the PDUs the peer has passed to its PDCP
  abandoned  \* the PDUs given up

vars == <<offered, held, delivered, abandoned>>

Init ==
  /\ offered = [e \in End |-> 0]
  /\ held = [e \in End |-> {}]
  /\ delivered = [e \in End |-> {}]
  /\ abandoned = [e \in End |-> {}]

(* A new PDU is taken from PDCP, possibly in place of some that are given up. *)
Offer(e) ==
  \E S \in SUBSET held[e] :
    /\ offered[e] < MaxPdu[e]
    /\ offered' = [offered EXCEPT ![e] = @ + 1]
    /\ held' = [held EXCEPT ![e] = (@ \ S) \cup {offered[e] + 1}]
    /\ abandoned' = [abandoned EXCEPT ![e] = @ \cup S]
    /\ UNCHANGED delivered

Deliver(e) ==
  \E p \in 1..offered[e] :
    /\ delivered' = [delivered EXCEPT ![e] = @ \cup {p}]
    /\ UNCHANGED <<offered, held, abandoned>>

(* The sender forgets PDUs, which it may only do once the peer has them. *)
Release(e) ==
  \E S \in SUBSET (held[e] \cap delivered[e]) :
    /\ held' = [held EXCEPT ![e] = @ \ S]
    /\ UNCHANGED <<offered, delivered, abandoned>>

Abandon(e) ==
  \E S \in SUBSET held[e] :
    /\ held' = [held EXCEPT ![e] = @ \ S]
    /\ abandoned' = [abandoned EXCEPT ![e] = @ \cup S]
    /\ UNCHANGED <<offered, delivered>>

Next == \E e \in End : Offer(e) \/ Deliver(e) \/ Release(e) \/ Abandon(e)

Spec == Init /\ [][Next]_vars
=============================================================================
