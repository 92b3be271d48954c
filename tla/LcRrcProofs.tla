----------------------------- MODULE LcRrcProofs ----------------------------
(***************************************************************************)
(* Safety of the establishment of a channel for any number of setups,      *)
(* failures, losses and tries: the types; that the reactor and timer2,     *)
(* which call into LCRRC without a common lock, leave no mixture of their  *)
(* effects behind if no failure is handled during an activation; and that  *)
(* an exchange without losses and failures makes both ends active.         *)
(***************************************************************************)
EXTENDS LcRrc, SequenceTheorems, TLAPS

(* What is on the air, queued and to be done. *)
Message == [to : End, type : {"request", "response"}, id : Nat]
Event == Message \cup [type : {"setup"}, forced : BOOLEAN] \cup [type : {"rlf"}]
Entry == {Activation} \cup {Expire(i, r) : i \in Nat, r \in Nat \ {0}}
Op ==
  Entry \cup {Change(s) : s \in State} \cup {Enable(l) : l \in Layer}
        \cup {Disable(l) : l \in Layer} \cup {Respond(i) : i \in Nat}
        \cup {ScheduleActivate} \cup {AutoSend(r) : r \in Nat}

Types ==
  /\ txrx_state \in [End -> State]
  /\ enabled \in [End -> SUBSET Layer]
  /\ rrc_requests \in [End -> SUBSET Nat]
  /\ rrc_req_id \in [End -> Nat]
  /\ \A e \in End : \A i \in rrc_requests[e] : i < rrc_req_id[e]
  /\ timers \in [End -> Seq(Entry)]
  /\ rrc_events \in [End -> Seq(Event)]
  /\ todo \in [End -> [Thread -> Seq(Op)]]
  /\ air \subseteq Message

(***************************************************************************)
(* The operations by what they do.                                         *)
(***************************************************************************)
Sets(op, state) == op.op = "change" /\ op.state = state
IsUp(op) == op.op = "enable" \/ Sets(op, "ACTIVE")
IsDown(op) == op.op = "disable" \/ Sets(op, "NOT_CONFIGURED")
IsEntry(op) == op.op \in {"activate", "expire"}
IsSend(op) == op.op = "auto_send"
On(op, l) == op.op = "enable" /\ op.layer = l
Off(op, l) == op.op = "disable" /\ op.layer = l

Ops(s) == {s[k] : k \in 1..Len(s)}

(***************************************************************************)
(* timer2 has the operations of the handler it is in, and after them the   *)
(* timers it has still to call.  A handler that changes the state to       *)
(* ACTIVE or NOT_CONFIGURED does that first, and then sees to every layer. *)
(***************************************************************************)
Timer2Ops(s) ==
  /\ \A op \in Ops(s) : IsUp(op) \/ IsDown(op) \/ IsEntry(op) \/ IsSend(op)
  /\ \A j, k \in 1..Len(s) : j < k /\ (IsEntry(s[j]) \/ IsSend(s[j])) => IsEntry(s[k])
  /\ (\A op \in Ops(s) : ~IsUp(op)) \/ (\A op \in Ops(s) : ~IsDown(op))
  /\ \A k \in 2..Len(s) : s[k].op # "change"
  /\ s # <<>> /\ Sets(s[1], "ACTIVE") => \A l \in Layer : \E op \in Ops(s) : On(op, l)
  /\ s # <<>> /\ Sets(s[1], "NOT_CONFIGURED") => \A l \in Layer : \E op \in Ops(s) : Off(op, l)

(***************************************************************************)
(* The handlers of the reactor lead to an activation or a request with     *)
(* their last operation; only on_rlf does not.                             *)
(***************************************************************************)
LeadsOn(op) == op.op \in {"schedule_activate", "auto_send"}
OfReactor(op) == ~IsUp(op) /\ ~IsEntry(op) /\ (IsSend(op) => op.retry = MaxRetry)
ReactorOps(s) ==
  /\ \A op \in Ops(s) : OfReactor(op)
  /\ \A k \in 1..Len(s) : LeadsOn(s[k]) => k = Len(s)
  /\ \/ \E op \in Ops(s) : LeadsOn(op)
     \/ /\ \A k \in 2..Len(s) : s[k].op # "change"
        /\ s # <<>> /\ s[1].op = "change" =>
             s[1].state = "NOT_CONFIGURED" /\ \A l \in Layer : \E op \in Ops(s) : Off(op, l)

(***************************************************************************)
(* An end, with T and R what timer2 and the reactor have still to do, M    *)
(* the timers, Q the requests that wait.  It is sure to come to an         *)
(* activation, to the failure of the link, or to a response or the expiry  *)
(* of a request ...                                                        *)
(***************************************************************************)
Coming(T, R, M, Q) ==
  \/ Activation \in M \cup T
  \/ \E op \in T : Sets(op, "ACTIVE") \/ IsSend(op)
  \/ \E op \in T \cup R : Sets(op, "NOT_CONFIGURED")
  \/ \E op \in R : LeadsOn(op)
  \/ \E x \in M \cup T : x.op = "expire" /\ x.id \in Q

(* ... or its layers follow the state that the last handler has set. *)
Rising(T, R, state, layers) ==
  /\ state = "ACTIVE"
  /\ \A l \in Layer \ layers : \E op \in T : On(op, l)
  /\ \A op \in T \cup R : op.op \notin {"disable", "change"}
Falling(T, R, state, layers) ==
  /\ state = "NOT_CONFIGURED"
  /\ \A l \in layers : \E op \in T \cup R : Off(op, l)
  /\ \A op \in T : ~IsUp(op)
  /\ \A op \in R : op.op # "change"
Settling(T, R, M, Q, state, layers) ==
  \/ Coming(T, R, M, Q)
  \/ Rising(T, R, state, layers)
  \/ Falling(T, R, state, layers)

(* A failure is handled only when no activation is under way. *)
Activates(T, M) == Activation \in M \cup T \/ \E op \in T : IsUp(op)
Exclusive(T, R, M) == R # {} /\ (\A op \in R : ~LeadsOn(op)) => ~Activates(T, M)

(* The above for the sequences of operations. *)
Orderly(t, r, m, Q, state, layers) ==
  /\ Timer2Ops(t) /\ ReactorOps(r)
  /\ Exclusive(Ops(t), Ops(r), Ops(m))
  /\ Settling(Ops(t), Ops(r), Ops(m), Q, state, layers)

EndInv(e) ==
  Orderly(todo[e]["timer2"], todo[e]["reactor"], timers[e], rrc_requests[e],
          txrx_state[e], enabled[e])
LInv == Types /\ \A e \in End : EndInv(e)
-----------------------------------------------------------------------------
(* The fields of the operations. *)
LEMMA Kinds ==
  /\ \A s : Change(s).op = "change" /\ Change(s).state = s
  /\ \A l : Enable(l).op = "enable" /\ Enable(l).layer = l
  /\ \A l : Disable(l).op = "disable" /\ Disable(l).layer = l
  /\ \A i : Respond(i).op = "respond" /\ Respond(i).id = i
  /\ ScheduleActivate.op = "schedule_activate"
  /\ Activation.op = "activate"
  /\ \A r : AutoSend(r).op = "auto_send" /\ AutoSend(r).retry = r
  /\ \A i, r : Expire(i, r).op = "expire" /\ Expire(i, r).id = i /\ Expire(i, r).retry = r
BY DEF Change, Enable, Disable, Respond, ScheduleActivate, Activation, AutoSend, Expire

(* What an operation has by its kind. *)
LEMMA OpKinds ==
  ASSUME NEW op \in Op
  PROVE  /\ op.op = "change" => op.state \in State
         /\ op.op \in {"enable", "disable"} => op.layer \in Layer
         /\ op.op = "activate" => op = Activation
         /\ op.op = "expire" => op.id \in Nat /\ op.retry \in Nat \ {0}
         /\ op.op = "auto_send" => op.retry \in Nat
         /\ op.op = "respond" => op.id \in Nat
         /\ op.op \in {"activate", "expire"} => op \in Entry
BY Kinds DEF Op, Entry

(* An entry of the timers is an operation of one of two kinds. *)
LEMMA EntryKinds ==
  ASSUME NEW x \in Entry
  PROVE  x \in Op /\ IsEntry(x) /\ (x.op = "activate" <=> x = Activation)
BY Kinds DEF Op, Entry, IsEntry

(* The operations of a sequence without its head. *)
LEMMA OpsTail ==
  ASSUME NEW S, NEW s \in Seq(S), s # <<>>
  PROVE  /\ Tail(s) \in Seq(S) /\ Head(s) \in S /\ Head(s) = s[1] /\ Len(s) \in Nat \ {0}
         /\ Len(Tail(s)) = Len(s) - 1
         /\ \A k \in 1..Len(Tail(s)) : k + 1 \in 2..Len(s) /\ Tail(s)[k] = s[k + 1]
         /\ Ops(s) = {Head(s)} \cup Ops(Tail(s))
<1>1. /\ Tail(s) \in Seq(S) /\ Head(s) \in S /\ Head(s) = s[1] /\ Len(s) \in Nat \ {0}
      /\ Len(Tail(s)) = Len(s) - 1
      /\ \A k \in 1..Len(Tail(s)) : k + 1 \in 2..Len(s) /\ Tail(s)[k] = s[k + 1]
  OBVIOUS
<1> DEFINE q == Tail(s)
<1>2. Ops(s) \subseteq {Head(s)} \cup Ops(q)
  <2> SUFFICES ASSUME NEW k \in 1..Len(s)
               PROVE  s[k] = s[1] \/ \E j \in 1..Len(q) : s[k] = q[j]
    BY <1>1 DEF Ops
  <2>1. CASE k = 1
    BY <2>1
  <2>2. CASE k # 1
    <3>1. k - 1 \in 1..Len(q) /\ (k - 1) + 1 = k
      BY <1>1, <2>2
    <3>2. q[k - 1] = s[(k - 1) + 1]
      BY <1>1, <3>1
    <3>3. QED
      BY <3>1, <3>2
  <2>3. QED
    BY <2>1, <2>2
<1>3. {Head(s)} \cup Ops(q) \subseteq Ops(s)
  <2>1. 1 \in 1..Len(s) /\ \A k \in 1..Len(q) : k + 1 \in 1..Len(s)
    BY <1>1
  <2>2. QED
    BY <1>1, <2>1 DEF Ops
<1>4. QED
  BY <1>1, <1>2, <1>3

(* The operations of two sequences in a row. *)
LEMMA OpsConcat ==
  ASSUME NEW S, NEW a \in Seq(S), NEW b \in Seq(S)
  PROVE  /\ a \o b \in Seq(S) /\ Len(a \o b) = Len(a) + Len(b)
         /\ Len(a) \in Nat /\ Len(b) \in Nat
         /\ \A k \in 1..Len(a) : (a \o b)[k] = a[k]
         /\ \A k \in (Len(a) + 1)..(Len(a) + Len(b)) :
              k - Len(a) \in 1..Len(b) /\ (a \o b)[k] = b[k - Len(a)]
         /\ Ops(a \o b) = Ops(a) \cup Ops(b)
<1> DEFINE c == a \o b
<1>1. /\ c \in Seq(S) /\ Len(c) = Len(a) + Len(b) /\ Len(a) \in Nat /\ Len(b) \in Nat
      /\ \A k \in 1..(Len(a) + Len(b)) : c[k] = IF k <= Len(a) THEN a[k] ELSE b[k - Len(a)]
  BY ConcatProperties, LenProperties
<1> HIDE DEF c
<1>2. \A k \in 1..Len(a) : k \in 1..Len(c) /\ c[k] = a[k]
  BY <1>1
<1>3. \A k \in (Len(a) + 1)..(Len(a) + Len(b)) : k - Len(a) \in 1..Len(b) /\ c[k] = b[k - Len(a)]
  BY <1>1
<1>4. Ops(c) \subseteq Ops(a) \cup Ops(b)
  <2> SUFFICES ASSUME NEW k \in 1..Len(c)
               PROVE  (\E j \in 1..Len(a) : c[k] = a[j]) \/ \E j \in 1..Len(b) : c[k] = b[j]
    BY DEF Ops
  <2>1. CASE k <= Len(a)
    BY <1>1, <1>2, <2>1
  <2>2. CASE k > Len(a)
    <3>1. k \in (Len(a) + 1)..(Len(a) + Len(b))
      BY <1>1, <2>2
    <3>2. QED
      BY <1>3, <3>1
  <2>3. QED
    BY <1>1, <2>1, <2>2
<1>5. Ops(a) \subseteq Ops(c)
  BY <1>2 DEF Ops
<1>6. Ops(b) \subseteq Ops(c)
  <2> SUFFICES ASSUME NEW k \in 1..Len(b)
               PROVE  \E j \in 1..Len(c) : b[k] = c[j]
    BY DEF Ops
  <2>1. Len(a) + k \in 1..Len(c) /\ Len(a) + k \in (Len(a) + 1)..(Len(a) + Len(b))
        /\ (Len(a) + k) - Len(a) = k
    BY <1>1
  <2>2. c[Len(a) + k] = b[(Len(a) + k) - Len(a)]
    BY <1>3, <2>1
  <2>3. QED
    BY <2>1, <2>2
<1>7. QED
  BY <1>1, <1>2, <1>3, <1>4, <1>5, <1>6 DEF c

(* Only an empty sequence has no operation. *)
LEMMA OpsNone == Ops(<<>>) = {} /\ \A S : \A s \in Seq(S) : Ops(s) = {} <=> s = <<>>
<1>1. Ops(<<>>) = {}
  BY DEF Ops
<1>2. ASSUME NEW S, NEW s \in Seq(S), s # <<>>
      PROVE  Ops(s) # {}
  <2>1. Ops(s) = {Head(s)} \cup Ops(Tail(s))
    BY <1>2, OpsTail
  <2>2. QED
    BY <2>1
<1>3. QED
  BY <1>1, <1>2

(* One operation after the others. *)
LEMMA OpsAppend ==
  ASSUME NEW S, NEW s \in Seq(S), NEW x \in S
  PROVE  Append(s, x) \in Seq(S) /\ Ops(Append(s, x)) = Ops(s) \cup {x}
<1> DEFINE c == Append(s, x)
<1>1. c \in Seq(S) /\ Len(s) \in Nat /\ Len(c) = Len(s) + 1 /\ c[Len(s) + 1] = x
  OBVIOUS
<1>2. \A k \in 1..Len(s) : c[k] = s[k]
  OBVIOUS
<1> HIDE DEF c
<1>3. \A k \in 1..Len(c) : k \in 1..Len(s) \/ k = Len(s) + 1
  BY <1>1
<1>4. Ops(c) \subseteq Ops(s) \cup {x}
  BY <1>1, <1>2, <1>3 DEF Ops
<1>5. Ops(s) \subseteq Ops(c)
  <2>1. \A k \in 1..Len(s) : k \in 1..Len(c)
    BY <1>1
  <2>2. QED
    BY <1>2, <2>1 DEF Ops
<1>6. x \in Ops(c)
  <2>1. Len(s) + 1 \in 1..Len(c)
    BY <1>1
  <2>2. QED
    BY <1>1, <2>1 DEF Ops
<1>7. QED
  BY <1>1, <1>4, <1>5, <1>6 DEF c

(* The two parts that timer::schedule divides the timers into. *)
LEMMA OpsSplit ==
  ASSUME NEW S, NEW s \in Seq(S), NEW n \in 1..Len(s)
  PROVE  /\ SubSeq(s, 1, n) \in Seq(S) /\ SubSeq(s, n + 1, Len(s)) \in Seq(S)
         /\ Ops(SubSeq(s, 1, n)) \cup Ops(SubSeq(s, n + 1, Len(s))) = Ops(s)
<1> DEFINE a == SubSeq(s, 1, n)
           b == SubSeq(s, n + 1, Len(s))
<1>0. Len(s) \in Nat /\ n \in Nat /\ 1 <= n /\ n <= Len(s)
  OBVIOUS
<1>1. a \in Seq(S) /\ Len(a) = n /\ \A k \in 1..n : a[k] = s[k]
  BY <1>0
<1>2. b \in Seq(S) /\ Len(b) = Len(s) - n /\ \A k \in 1..(Len(s) - n) : b[k] = s[n + k]
  BY <1>0
<1> HIDE DEF a, b
<1>3. Ops(a) \subseteq Ops(s)
  <2>1. \A k \in 1..Len(a) : k \in 1..Len(s) /\ a[k] = s[k]
    BY <1>0, <1>1
  <2>2. QED
    BY <2>1 DEF Ops
<1>4. Ops(b) \subseteq Ops(s)
  <2>1. \A k \in 1..Len(b) : n + k \in 1..Len(s) /\ b[k] = s[n + k]
    BY <1>0, <1>2
  <2>2. QED
    BY <2>1 DEF Ops
<1>5. Ops(s) \subseteq Ops(a) \cup Ops(b)
  <2> SUFFICES ASSUME NEW k \in 1..Len(s)
               PROVE  (\E j \in 1..Len(a) : s[k] = a[j]) \/ \E j \in 1..Len(b) : s[k] = b[j]
    BY DEF Ops
  <2>1. CASE k <= n
    BY <1>0, <1>1, <2>1
  <2>2. CASE k > n
    <3>1. k - n \in 1..Len(b) /\ k - n \in 1..(Len(s) - n) /\ n + (k - n) = k
      BY <1>0, <1>2, <2>2
    <3>2. b[k - n] = s[n + (k - n)]
      BY <1>2, <3>1
    <3>3. QED
      BY <3>1, <3>2
  <2>3. QED
    BY <1>0, <2>1, <2>2
<1>6. QED
  BY <1>1, <1>2, <1>3, <1>4, <1>5 DEF a, b

(* What is left when a timer is cancelled are timers. *)
LEMMA OpsCancel ==
  ASSUME NEW S, NEW s \in Seq(S), NEW at \in SUBSET (DOMAIN s)
  PROVE  cancel(s, at) \in Seq(S)
<1>1. CASE at = {}
  BY <1>1 DEF cancel
<1>2. CASE at # {}
  <2> DEFINE i == CHOOSE k \in at : TRUE
  <2>1. i \in DOMAIN s
    BY <1>2
  <2>2. cancel(s, at) = SubSeq(s, 1, i - 1) \o SubSeq(s, i + 1, Len(s))
    BY <1>2 DEF cancel, RemoveAt
  <2> HIDE DEF i
  <2>3. Len(s) \in Nat /\ i \in 1..Len(s)
    BY <2>1
  <2>4. SubSeq(s, 1, i - 1) \in Seq(S) /\ SubSeq(s, i + 1, Len(s)) \in Seq(S)
    BY <2>3
  <2>5. QED
    BY <2>2, <2>4
<1>3. QED
  BY <1>1, <1>2
-----------------------------------------------------------------------------
(* The operations that the handlers consist of are operations. *)
LEMMA OpsAreOps ==
  /\ \A s \in State : Change(s) \in Op
  /\ \A l \in Layer : Enable(l) \in Op /\ Disable(l) \in Op
  /\ \A i \in Nat : Respond(i) \in Op /\ AutoSend(i) \in Op
  /\ \A i \in Nat, r \in Nat \ {0} : Expire(i, r) \in Entry
  /\ ScheduleActivate \in Op /\ Activation \in Entry /\ Entry \subseteq Op
BY DEF Op, Entry

(* The operations of a handler of seven operations. *)
LEMMA OpsSeven ==
  ASSUME NEW S, NEW s \in Seq(S), Len(s) = 7
  PROVE  /\ s # <<>> /\ \A k \in 2..7 : s[k] \in {s[2], s[3], s[4], s[5], s[6], s[7]}
         /\ Ops(s) = {s[1]} \cup {s[2], s[3], s[4], s[5], s[6], s[7]}
<1>1. 1..7 = {1, 2, 3, 4, 5, 6, 7} /\ 2..7 = {2, 3, 4, 5, 6, 7}
  OBVIOUS
<1>2. Ops(s) = {s[k] : k \in {1, 2, 3, 4, 5, 6, 7}}
  BY <1>1 DEF Ops
<1>3. QED
  BY <1>1, <1>2

(* on_rlf clears the state and then disables every layer. *)
LEMMA OnRlf ==
  /\ on_rlf \in Seq(Op) /\ Len(on_rlf) = 7 /\ on_rlf # <<>>
  /\ on_rlf[1] = Change("NOT_CONFIGURED")
  /\ \A k \in 2..7 : on_rlf[k] \in {Disable(l) : l \in Layer}
  /\ Ops(on_rlf) = {Change("NOT_CONFIGURED")} \cup {Disable(l) : l \in Layer}
<1> DEFINE s == on_rlf
           a == Change("NOT_CONFIGURED")
           b == Disable("ep.tx")
           c == Disable("pdcp.tx")
           d == Disable("llc.tx")
           f == Disable("ep.rx")
           g == Disable("pdcp.rx")
           h == Disable("llc.rx")
           D == {b, c, d, f, g, h}
<1>1. /\ a \in Op /\ b \in Op /\ c \in Op /\ d \in Op /\ f \in Op /\ g \in Op /\ h \in Op
      /\ D = {Disable(l) : l \in Layer}
  BY OpsAreOps DEF Layer, State
<1>2. s = <<a, b, c, d, f, g, h>>
  BY DEF on_rlf
<1>3. /\ s \in Seq(Op) /\ Len(s) = 7 /\ s # <<>> /\ s[1] = a
      /\ \A k \in 2..7 : s[k] \in D
      /\ Ops(s) = {a} \cup D
  <2> HIDE DEF s, a, b, c, d, f, g, h
  <2>1. s \in Seq(Op) /\ Len(s) = 7 /\ s[1] = a
    BY <1>1, <1>2
  <2>2. s[2] = b /\ s[3] = c /\ s[4] = d /\ s[5] = f /\ s[6] = g /\ s[7] = h
    BY <1>2
  <2>3. QED
    BY <2>1, <2>2, OpsSeven
<1>4. QED
  BY <1>1, <1>3

(* The activation sets the state and then enables every layer. *)
LEMMA OnActivation ==
  /\ activate \in Seq(Op) /\ Len(activate) = 7 /\ activate # <<>>
  /\ activate[1] = Change("ACTIVE")
  /\ \A k \in 2..7 : activate[k] \in {Enable(l) : l \in Layer}
  /\ Ops(activate) = {Change("ACTIVE")} \cup {Enable(l) : l \in Layer}
<1> DEFINE s == activate
           a == Change("ACTIVE")
           b == Enable("pdcp.tx")
           c == Enable("pdcp.rx")
           d == Enable("llc.tx")
           f == Enable("llc.rx")
           g == Enable("ep.tx")
           h == Enable("ep.rx")
           D == {b, c, d, f, g, h}
<1>1. /\ a \in Op /\ b \in Op /\ c \in Op /\ d \in Op /\ f \in Op /\ g \in Op /\ h \in Op
      /\ D = {Enable(l) : l \in Layer}
  BY OpsAreOps DEF Layer, State
<1>2. s = <<a, b, c, d, f, g, h>>
  BY DEF activate
<1>3. /\ s \in Seq(Op) /\ Len(s) = 7 /\ s # <<>> /\ s[1] = a
      /\ \A k \in 2..7 : s[k] \in D
      /\ Ops(s) = {a} \cup D
  <2> HIDE DEF s, a, b, c, d, f, g, h
  <2>1. s \in Seq(Op) /\ Len(s) = 7 /\ s[1] = a
    BY <1>1, <1>2
  <2>2. s[2] = b /\ s[3] = c /\ s[4] = d /\ s[5] = f /\ s[6] = g /\ s[7] = h
    BY <1>2
  <2>3. QED
    BY <2>1, <2>2, OpsSeven
<1>4. QED
  BY <1>1, <1>3
-----------------------------------------------------------------------------
(***************************************************************************)
(* timer2: what is said of the operation it is at and of those after it.   *)
(***************************************************************************)
LEMMA Timer2Head ==
  ASSUME NEW s \in Seq(Op), Timer2Ops(s), s # <<>>
  PROVE  /\ Timer2Ops(Tail(s))
         /\ IsUp(Head(s)) \/ IsDown(Head(s)) \/ IsEntry(Head(s)) \/ IsSend(Head(s))
         /\ \A op \in Ops(Tail(s)) : op.op # "change"
         /\ IsEntry(Head(s)) \/ IsSend(Head(s)) => \A op \in Ops(Tail(s)) : IsEntry(op)
         /\ IsUp(Head(s)) => \A op \in Ops(Tail(s)) : ~IsDown(op)
         /\ IsDown(Head(s)) => \A op \in Ops(Tail(s)) : ~IsUp(op)
         /\ Sets(Head(s), "ACTIVE") => \A l \in Layer : \E op \in Ops(Tail(s)) : On(op, l)
         /\ Sets(Head(s), "NOT_CONFIGURED") =>
              \A l \in Layer : \E op \in Ops(Tail(s)) : Off(op, l)
<1> DEFINE q == Tail(s)
           h == Head(s)
<1>1. /\ q \in Seq(Op) /\ h = s[1] /\ Len(s) \in Nat \ {0} /\ Len(q) = Len(s) - 1
      /\ \A k \in 1..Len(q) : k + 1 \in 2..Len(s) /\ q[k] = s[k + 1]
      /\ Ops(s) = {h} \cup Ops(q)
  BY OpsTail
<1> HIDE DEF q, h
<1>2. 1 \in 1..Len(s) /\ \A k \in 1..Len(q) : k + 1 \in 1..Len(s) /\ 1 < k + 1 /\ k \in Nat
  BY <1>1
<1>3. \A op \in Ops(q) : op.op # "change"
  BY <1>1 DEF Timer2Ops, Ops
<1>4. IsEntry(h) \/ IsSend(h) => \A op \in Ops(q) : IsEntry(op)
  BY <1>1, <1>2 DEF Timer2Ops, Ops
<1>5. h \in Ops(s) /\ Ops(q) \subseteq Ops(s)
  BY <1>1
<1>6. /\ IsUp(h) => \A op \in Ops(q) : ~IsDown(op)
      /\ IsDown(h) => \A op \in Ops(q) : ~IsUp(op)
      /\ IsUp(h) \/ IsDown(h) \/ IsEntry(h) \/ IsSend(h)
  BY <1>5 DEF Timer2Ops
<1>7. Sets(h, "ACTIVE") => \A l \in Layer : \E op \in Ops(q) : On(op, l)
  BY <1>1 DEF Timer2Ops, Sets, On
<1>8. Sets(h, "NOT_CONFIGURED") => \A l \in Layer : \E op \in Ops(q) : Off(op, l)
  BY <1>1 DEF Timer2Ops, Sets, Off
<1>9. Timer2Ops(q)
  <2>1. \A op \in Ops(q) : IsUp(op) \/ IsDown(op) \/ IsEntry(op) \/ IsSend(op)
    BY <1>5 DEF Timer2Ops
  <2>2. \A j, k \in 1..Len(q) : j < k /\ (IsEntry(q[j]) \/ IsSend(q[j])) => IsEntry(q[k])
    <3> SUFFICES ASSUME NEW j \in 1..Len(q), NEW k \in 1..Len(q), j < k,
                        IsEntry(q[j]) \/ IsSend(q[j])
                 PROVE  IsEntry(q[k])
      OBVIOUS
    <3>1. j + 1 \in 1..Len(s) /\ k + 1 \in 1..Len(s) /\ j + 1 < k + 1
      BY <1>2
    <3>2. q[j] = s[j + 1] /\ q[k] = s[k + 1]
      BY <1>1
    <3>3. QED
      BY <3>1, <3>2 DEF Timer2Ops
  <2>3. (\A op \in Ops(q) : ~IsUp(op)) \/ (\A op \in Ops(q) : ~IsDown(op))
    BY <1>5 DEF Timer2Ops
  <2>4. \A k \in 1..Len(q) : q[k].op # "change"
    BY <1>3 DEF Ops
  <2>5. q # <<>> => 1 \in 1..Len(q)
    BY <1>1
  <2>6. \A k \in 2..Len(q) : k \in 1..Len(q)
    BY <1>1
  <2>7. QED
    BY <2>1, <2>2, <2>3, <2>4, <2>5, <2>6 DEF Timer2Ops, Sets
<1>10. QED
  BY <1>3, <1>4, <1>6, <1>7, <1>8, <1>9 DEF q, h

(* A handler that timer2 calls, and then the timers it has still to call. *)
LEMMA Timer2Then ==
  ASSUME NEW a \in Seq(Op), NEW b \in Seq(Op), Timer2Ops(a), \A op \in Ops(b) : IsEntry(op)
  PROVE  Timer2Ops(a \o b)
<1> DEFINE c == a \o b
<1>1. /\ c \in Seq(Op) /\ Len(c) = Len(a) + Len(b) /\ Len(a) \in Nat /\ Len(b) \in Nat
      /\ \A k \in 1..Len(a) : c[k] = a[k]
      /\ \A k \in (Len(a) + 1)..(Len(a) + Len(b)) : k - Len(a) \in 1..Len(b) /\ c[k] = b[k - Len(a)]
      /\ Ops(c) = Ops(a) \cup Ops(b)
  BY OpsConcat
<1> HIDE DEF c
<1>2. \A op \in Ops(b) : ~IsUp(op) /\ ~IsDown(op) /\ op.op # "change"
  BY DEF IsEntry, IsUp, IsDown, Sets
<1>3. \A k \in 1..Len(c) : k \in 1..Len(a) \/ (k > Len(a) /\ c[k] \in Ops(b))
  <2> SUFFICES ASSUME NEW k \in 1..Len(c), k \notin 1..Len(a)
               PROVE  k > Len(a) /\ c[k] \in Ops(b)
    OBVIOUS
  <2>1. k > Len(a) /\ k \in (Len(a) + 1)..(Len(a) + Len(b))
    BY <1>1
  <2>2. QED
    BY <1>1, <2>1 DEF Ops
<1>4. \A op \in Ops(c) : IsUp(op) \/ IsDown(op) \/ IsEntry(op) \/ IsSend(op)
  BY <1>1 DEF Timer2Ops
<1>5. \A j, k \in 1..Len(c) : j < k /\ (IsEntry(c[j]) \/ IsSend(c[j])) => IsEntry(c[k])
  <2> SUFFICES ASSUME NEW j \in 1..Len(c), NEW k \in 1..Len(c), j < k,
                      IsEntry(c[j]) \/ IsSend(c[j])
               PROVE  IsEntry(c[k])
    OBVIOUS
  <2>1. CASE k \in 1..Len(a)
    <3>1. j \in 1..Len(a) /\ c[j] = a[j] /\ c[k] = a[k]
      BY <1>1, <2>1
    <3>2. QED
      BY <2>1, <3>1 DEF Timer2Ops
  <2>2. CASE k \notin 1..Len(a)
    BY <1>3, <2>2
  <2>3. QED
    BY <2>1, <2>2
<1>6. (\A op \in Ops(c) : ~IsUp(op)) \/ (\A op \in Ops(c) : ~IsDown(op))
  BY <1>1, <1>2 DEF Timer2Ops
<1>7. \A k \in 2..Len(c) : c[k].op # "change"
  <2> SUFFICES ASSUME NEW k \in 2..Len(c) PROVE c[k].op # "change"
    OBVIOUS
  <2>1. k \in 1..Len(c) /\ (k \in 1..Len(a) => k \in 2..Len(a))
    BY <1>1
  <2>2. QED
    BY <1>1, <1>2, <1>3, <2>1 DEF Timer2Ops
<1>8. /\ c # <<>> /\ Sets(c[1], "ACTIVE") => \A l \in Layer : \E op \in Ops(c) : On(op, l)
      /\ c # <<>> /\ Sets(c[1], "NOT_CONFIGURED") =>
           \A l \in Layer : \E op \in Ops(c) : Off(op, l)
  <2> SUFFICES ASSUME c # <<>>, c[1].op = "change"
               PROVE  /\ Sets(c[1], "ACTIVE") => \A l \in Layer : \E op \in Ops(c) : On(op, l)
                      /\ Sets(c[1], "NOT_CONFIGURED") =>
                           \A l \in Layer : \E op \in Ops(c) : Off(op, l)
    BY DEF Sets
  <2>1. 1 \in 1..Len(c)
    BY <1>1
  <2>2. 1 \in 1..Len(a)
    BY <1>2, <1>3, <2>1
  <2>3. a # <<>> /\ c[1] = a[1]
    BY <1>1, <2>2
  <2>4. QED
    BY <1>1, <2>3 DEF Timer2Ops
<1>9. QED
  BY <1>4, <1>5, <1>6, <1>7, <1>8 DEF Timer2Ops, c

(* The timers that timer2 takes are in order, and so are its handlers. *)
LEMMA Timer2Handlers ==
  /\ Timer2Ops(<<>>)
  /\ \A s \in Seq(Entry) : s \in Seq(Op) /\ Timer2Ops(s)
  /\ Timer2Ops(on_rlf) /\ Timer2Ops(activate)
  /\ \A r \in Nat : Timer2Ops(<<AutoSend(r)>>)
<1>1. Timer2Ops(<<>>)
  BY DEF Timer2Ops, Ops
<1>2. ASSUME NEW s \in Seq(Entry)
      PROVE  s \in Seq(Op) /\ Timer2Ops(s)
  <2>1. \A k \in 1..Len(s) : s[k] \in Entry
    OBVIOUS
  <2>2. \A k \in 1..Len(s) : s[k] \in Op /\ IsEntry(s[k])
    BY <2>1, EntryKinds
  <2>3. s \in Seq(Op)
    BY <2>2
  <2>4. \A op \in Ops(s) : IsEntry(op) /\ ~IsUp(op) /\ ~IsDown(op) /\ op.op # "change"
    BY <2>2 DEF Ops, IsEntry, IsUp, IsDown, Sets
  <2>5. \A k \in 2..Len(s) : k \in 1..Len(s)
    BY <2>3
  <2>6. s # <<>> => 1 \in 1..Len(s)
    BY <2>3
  <2>7. \A k \in 1..Len(s) : s[k].op # "change"
    BY <2>4 DEF Ops
  <2>8. QED
    BY <2>2, <2>3, <2>4, <2>5, <2>6, <2>7 DEF Timer2Ops, Sets
<1>3. Timer2Ops(on_rlf)
  <2>1. \A l \in Layer : Disable(l).op = "disable" /\ Disable(l).layer = l
    BY Kinds
  <2>2. \A k \in 2..7 : on_rlf[k].op = "disable"
    BY OnRlf, <2>1
  <2>3. Sets(on_rlf[1], "NOT_CONFIGURED") /\ ~Sets(on_rlf[1], "ACTIVE")
    BY OnRlf, Kinds DEF Sets
  <2>4. \A k \in 1..7 : k = 1 \/ k \in 2..7
    OBVIOUS
  <2>5. \A k \in 1..7 : IsDown(on_rlf[k]) /\ ~IsUp(on_rlf[k]) /\ ~IsEntry(on_rlf[k])
                        /\ ~IsSend(on_rlf[k])
    BY <2>2, <2>3, <2>4 DEF IsDown, IsUp, IsEntry, IsSend, Sets
  <2>6. \A op \in Ops(on_rlf) : IsDown(op) /\ ~IsUp(op)
    BY <2>5, OnRlf DEF Ops
  <2>7. \A l \in Layer : \E op \in Ops(on_rlf) : Off(op, l)
    BY <2>1, OnRlf DEF Off
  <2>8. Len(on_rlf) = 7
    BY OnRlf
  <2>9. QED
    BY <2>2, <2>3, <2>5, <2>6, <2>7, <2>8 DEF Timer2Ops
<1>4. Timer2Ops(activate)
  <2>1. \A l \in Layer : Enable(l).op = "enable" /\ Enable(l).layer = l
    BY Kinds
  <2>2. \A k \in 2..7 : activate[k].op = "enable"
    BY OnActivation, <2>1
  <2>3. ~Sets(activate[1], "NOT_CONFIGURED") /\ Sets(activate[1], "ACTIVE")
    BY OnActivation, Kinds DEF Sets
  <2>4. \A k \in 1..7 : k = 1 \/ k \in 2..7
    OBVIOUS
  <2>5. \A k \in 1..7 : ~IsDown(activate[k]) /\ IsUp(activate[k]) /\ ~IsEntry(activate[k])
                        /\ ~IsSend(activate[k])
    BY <2>2, <2>3, <2>4 DEF IsDown, IsUp, IsEntry, IsSend, Sets
  <2>6. \A op \in Ops(activate) : ~IsDown(op) /\ IsUp(op)
    BY <2>5, OnActivation DEF Ops
  <2>7. \A l \in Layer : \E op \in Ops(activate) : On(op, l)
    BY <2>1, OnActivation DEF On
  <2>8. Len(activate) = 7
    BY OnActivation
  <2>9. QED
    BY <2>2, <2>3, <2>5, <2>6, <2>7, <2>8 DEF Timer2Ops
<1>5. ASSUME NEW r \in Nat
      PROVE  Timer2Ops(<<AutoSend(r)>>)
  <2> DEFINE s == <<AutoSend(r)>>
  <2>1. Len(s) = 1 /\ s[1] = AutoSend(r)
    OBVIOUS
  <2>2. AutoSend(r).op = "auto_send"
    BY Kinds
  <2> HIDE DEF s
  <2>3. \A k \in 1..1 : k = 1
    OBVIOUS
  <2>4. \A op \in Ops(s) : op.op = "auto_send"
    BY <2>1, <2>2, <2>3 DEF Ops
  <2>5. \A op \in Ops(s) : ~IsUp(op) /\ IsSend(op)
    BY <2>4 DEF IsUp, IsSend, Sets
  <2>6. ~Sets(s[1], "ACTIVE") /\ ~Sets(s[1], "NOT_CONFIGURED")
    BY <2>1, <2>2 DEF Sets
  <2>7. QED
    BY <2>1, <2>5, <2>6 DEF Timer2Ops, s
<1>6. QED
  BY <1>1, <1>2, <1>3, <1>4, <1>5
-----------------------------------------------------------------------------
(***************************************************************************)
(* The reactor: the same.                                                  *)
(***************************************************************************)
LEMMA ReactorHead ==
  ASSUME NEW s \in Seq(Op), ReactorOps(s), s # <<>>
  PROVE  /\ ReactorOps(Tail(s)) /\ OfReactor(Head(s))
         /\ LeadsOn(Head(s)) => Tail(s) = <<>> /\ Ops(Tail(s)) = {}
         /\ Head(s).op = "change" =>
              \/ \E op \in Ops(Tail(s)) : LeadsOn(op)
              \/ /\ Head(s).state = "NOT_CONFIGURED"
                 /\ \A l \in Layer : \E op \in Ops(Tail(s)) : Off(op, l)
                 /\ \A op \in Ops(Tail(s)) : op.op # "change"
<1> DEFINE q == Tail(s)
           h == Head(s)
<1>1. /\ q \in Seq(Op) /\ h = s[1] /\ Len(s) \in Nat \ {0} /\ Len(q) = Len(s) - 1
      /\ \A k \in 1..Len(q) : k + 1 \in 2..Len(s) /\ q[k] = s[k + 1]
      /\ Ops(s) = {h} \cup Ops(q)
  BY OpsTail
<1> HIDE DEF q, h
<1>2. 1 \in 1..Len(s) /\ \A k \in 1..Len(q) : k + 1 \in 1..Len(s) /\ k \in Nat
  BY <1>1
<1>3. h \in Ops(s) /\ Ops(q) \subseteq Ops(s)
  BY <1>1
<1>4. \A k \in 1..Len(q) : LeadsOn(q[k]) => k = Len(q)
  <2> SUFFICES ASSUME NEW k \in 1..Len(q), LeadsOn(q[k])
               PROVE  k = Len(q)
    OBVIOUS
  <2>1. k + 1 = Len(s)
    BY <1>1, <1>2 DEF ReactorOps
  <2>2. QED
    BY <1>1, <1>2, <2>1
<1>5. LeadsOn(h) => q = <<>>
  <2> SUFFICES ASSUME LeadsOn(h) PROVE q = <<>>
    OBVIOUS
  <2>1. Len(s) = 1
    BY <1>1, <1>2 DEF ReactorOps
  <2>2. QED
    BY <1>1, <2>1
<1>6. q = <<>> => Ops(q) = {}
  BY OpsNone
<1>7. OfReactor(h) /\ \A op \in Ops(q) : OfReactor(op)
  BY <1>3 DEF ReactorOps
<1>8. (\A k \in 2..Len(s) : s[k].op # "change") => \A k \in 1..Len(q) : q[k].op # "change"
  BY <1>1
<1>9. q # <<>> => 1 \in 1..Len(q)
  BY <1>1
<1>10. \A k \in 2..Len(q) : k \in 1..Len(q)
  BY <1>1
<1>11. ReactorOps(q)
  <2>1. CASE \E op \in Ops(q) : LeadsOn(op)
    BY <1>4, <1>7, <2>1 DEF ReactorOps
  <2>2. CASE LeadsOn(h)
    <3>1. q = <<>> /\ Len(q) = 0
      BY <1>5, <2>2
    <3>2. QED
      BY <1>4, <1>7, <3>1 DEF ReactorOps
  <2>3. CASE \A op \in Ops(s) : ~LeadsOn(op)
    <3>1. \A k \in 1..Len(q) : q[k].op # "change"
      BY <1>8, <2>3 DEF ReactorOps
    <3>2. (\A k \in 2..Len(q) : q[k].op # "change") /\ (q # <<>> => q[1].op # "change")
      BY <1>9, <1>10, <3>1
    <3>3. QED
      BY <1>4, <1>7, <3>2 DEF ReactorOps
  <2>4. QED
    BY <1>1, <2>1, <2>2, <2>3
<1>12. h.op = "change" =>
         \/ \E op \in Ops(q) : LeadsOn(op)
         \/ /\ h.state = "NOT_CONFIGURED"
            /\ \A l \in Layer : \E op \in Ops(q) : Off(op, l)
            /\ \A op \in Ops(q) : op.op # "change"
  <2> SUFFICES ASSUME h.op = "change", \A op \in Ops(q) : ~LeadsOn(op)
               PROVE  /\ h.state = "NOT_CONFIGURED"
                      /\ \A l \in Layer : \E op \in Ops(q) : Off(op, l)
                      /\ \A op \in Ops(q) : op.op # "change"
    OBVIOUS
  <2>1. \A op \in Ops(s) : ~LeadsOn(op)
    BY <1>1 DEF LeadsOn
  <2>2. /\ \A k \in 2..Len(s) : s[k].op # "change"
        /\ h.state = "NOT_CONFIGURED" /\ \A l \in Layer : \E op \in Ops(s) : Off(op, l)
    BY <1>1, <2>1 DEF ReactorOps
  <2>3. \A op \in Ops(q) : op.op # "change"
    BY <1>8, <2>2 DEF Ops
  <2>4. \A l \in Layer : \E op \in Ops(q) : Off(op, l)
    BY <1>1, <2>2 DEF Off
  <2>5. QED
    BY <2>2, <2>3, <2>4
<1>13. QED
  BY <1>5, <1>6, <1>7, <1>11, <1>12 DEF q, h

(* A handler whose last part leads on. *)
LEMMA ReactorThen ==
  ASSUME NEW a \in Seq(Op), NEW b \in Seq(Op),
         \A op \in Ops(a) : OfReactor(op) /\ ~LeadsOn(op),
         ReactorOps(b), \E op \in Ops(b) : LeadsOn(op)
  PROVE  ReactorOps(a \o b) /\ \E op \in Ops(a \o b) : LeadsOn(op)
<1> DEFINE c == a \o b
<1>1. /\ c \in Seq(Op) /\ Len(c) = Len(a) + Len(b) /\ Len(a) \in Nat /\ Len(b) \in Nat
      /\ \A k \in 1..Len(a) : c[k] = a[k]
      /\ \A k \in (Len(a) + 1)..(Len(a) + Len(b)) : k - Len(a) \in 1..Len(b) /\ c[k] = b[k - Len(a)]
      /\ Ops(c) = Ops(a) \cup Ops(b)
  BY OpsConcat
<1> HIDE DEF c
<1>2. \A k \in 1..Len(c) : LeadsOn(c[k]) => k = Len(c)
  <2> SUFFICES ASSUME NEW k \in 1..Len(c), LeadsOn(c[k])
               PROVE  k = Len(c)
    OBVIOUS
  <2>1. k \notin 1..Len(a)
    BY <1>1 DEF Ops
  <2>2. k \in (Len(a) + 1)..(Len(a) + Len(b))
    BY <1>1, <2>1
  <2>3. k - Len(a) = Len(b)
    BY <1>1, <2>2 DEF ReactorOps
  <2>4. QED
    BY <1>1, <2>2, <2>3
<1>3. \A op \in Ops(c) : OfReactor(op)
  BY <1>1 DEF ReactorOps
<1>4. \E op \in Ops(c) : LeadsOn(op)
  BY <1>1
<1>5. QED
  BY <1>2, <1>3, <1>4 DEF ReactorOps, c

(* The handlers of the reactor. *)
LEMMA RlfIsReactorOps == ReactorOps(on_rlf) /\ \A op \in Ops(on_rlf) : OfReactor(op) /\ ~LeadsOn(op)
<1>1. \A l \in Layer : Disable(l).op = "disable" /\ Disable(l).layer = l
  BY Kinds
<1>2. \A op \in Ops(on_rlf) : op.op = "disable" \/ Sets(op, "NOT_CONFIGURED")
  BY <1>1, OnRlf, Kinds DEF Sets
<1>3. \A op \in Ops(on_rlf) : OfReactor(op) /\ ~LeadsOn(op)
  BY <1>2 DEF OfReactor, LeadsOn, IsUp, IsEntry, IsSend, Sets
<1>4. Len(on_rlf) = 7 /\ \A k \in 2..7 : on_rlf[k].op # "change"
  BY <1>1, OnRlf
<1>5. on_rlf[1].state = "NOT_CONFIGURED" /\ \A l \in Layer : \E op \in Ops(on_rlf) : Off(op, l)
  BY <1>1, OnRlf, Kinds DEF Off
<1>6. \A k \in 1..Len(on_rlf) : ~LeadsOn(on_rlf[k])
  BY <1>3 DEF Ops
<1>7. QED
  BY <1>3, <1>4, <1>5, <1>6 DEF ReactorOps

(* The parts of the handlers of the exchange, and those of a setup. *)
LEMMA ReactorParts ==
  ASSUME NEW i \in Nat
  PROVE  /\ reconfigure_rx \in Seq(Op)
         /\ \A op \in Ops(reconfigure_rx) : OfReactor(op) /\ ~LeadsOn(op)
         /\ <<Change("CONFIGURED"), Respond(i), ScheduleActivate>> \in Seq(Op)
         /\ ReactorOps(<<Change("CONFIGURED"), Respond(i), ScheduleActivate>>)
         /\ \E op \in Ops(<<Change("CONFIGURED"), Respond(i), ScheduleActivate>>) : LeadsOn(op)
         /\ <<Change("CONFIGURED"), ScheduleActivate>> \in Seq(Op)
         /\ ReactorOps(<<Change("CONFIGURED"), ScheduleActivate>>)
         /\ \E op \in Ops(<<Change("CONFIGURED"), ScheduleActivate>>) : LeadsOn(op)
         /\ <<Change("CONFIGURING"), AutoSend(MaxRetry)>> \in Seq(Op)
         /\ ReactorOps(<<Change("CONFIGURING"), AutoSend(MaxRetry)>>)
         /\ \E op \in Ops(<<Change("CONFIGURING"), AutoSend(MaxRetry)>>) : LeadsOn(op)
<1>1. 1..2 = {1, 2} /\ 1..3 = {1, 2, 3}
  OBVIOUS
<1>2. ASSUME NEW a \in Op, NEW b \in Op
      PROVE  /\ <<a, b>> \in Seq(Op) /\ Len(<<a, b>>) = 2
             /\ <<a, b>>[1] = a /\ <<a, b>>[2] = b /\ Ops(<<a, b>>) = {a, b}
  <2> DEFINE s == <<a, b>>
  <2>1. s \in Seq(Op) /\ Len(s) = 2 /\ s[1] = a /\ s[2] = b
    OBVIOUS
  <2> HIDE DEF s
  <2>2. Ops(s) = {s[k] : k \in {1, 2}}
    BY <1>1, <2>1 DEF Ops
  <2>3. Ops(s) = {a, b}
    BY <2>1, <2>2
  <2>4. QED
    BY <2>1, <2>3 DEF s
<1>3. ASSUME NEW a \in Op, NEW b \in Op, OfReactor(a), ~LeadsOn(a), OfReactor(b), LeadsOn(b)
      PROVE  /\ <<a, b>> \in Seq(Op) /\ ReactorOps(<<a, b>>)
             /\ \E op \in Ops(<<a, b>>) : LeadsOn(op)
  <2> DEFINE s == <<a, b>>
  <2>1. s \in Seq(Op) /\ Len(s) = 2 /\ s[1] = a /\ s[2] = b /\ Ops(s) = {a, b}
    BY <1>2
  <2> HIDE DEF s
  <2>2. \A k \in 1..Len(s) : LeadsOn(s[k]) => k = Len(s)
    BY <1>1, <1>3, <2>1
  <2>3. (\A op \in Ops(s) : OfReactor(op)) /\ \E op \in Ops(s) : LeadsOn(op)
    BY <1>3, <2>1
  <2>4. QED
    BY <2>1, <2>2, <2>3 DEF ReactorOps, s
<1>4. ASSUME NEW a \in Op, NEW b \in Op, NEW c \in Op, OfReactor(a), ~LeadsOn(a),
             OfReactor(b), ~LeadsOn(b), OfReactor(c), LeadsOn(c)
      PROVE  /\ <<a, b, c>> \in Seq(Op) /\ ReactorOps(<<a, b, c>>)
             /\ \E op \in Ops(<<a, b, c>>) : LeadsOn(op)
  <2> DEFINE s == <<a, b, c>>
  <2>1. s \in Seq(Op) /\ Len(s) = 3 /\ s[1] = a /\ s[2] = b /\ s[3] = c
    OBVIOUS
  <2> HIDE DEF s
  <2>2. Ops(s) = {s[k] : k \in {1, 2, 3}}
    BY <1>1, <2>1 DEF Ops
  <2>3. Ops(s) = {a, b, c}
    BY <2>1, <2>2
  <2>4. \A k \in 1..Len(s) : LeadsOn(s[k]) => k = Len(s)
    BY <1>1, <1>4, <2>1
  <2>5. (\A op \in Ops(s) : OfReactor(op)) /\ \E op \in Ops(s) : LeadsOn(op)
    BY <1>4, <2>3
  <2>6. QED
    BY <2>1, <2>4, <2>5 DEF ReactorOps, s
<1>5. /\ Disable("llc.rx") \in Op /\ Disable("pdcp.rx") \in Op /\ Respond(i) \in Op
      /\ Change("CONFIGURED") \in Op /\ Change("CONFIGURING") \in Op
      /\ ScheduleActivate \in Op /\ AutoSend(MaxRetry) \in Op
  BY OpsAreOps, BoundAssumption DEF Layer, State
<1>6. /\ OfReactor(Disable("llc.rx")) /\ ~LeadsOn(Disable("llc.rx"))
      /\ OfReactor(Disable("pdcp.rx")) /\ ~LeadsOn(Disable("pdcp.rx"))
      /\ OfReactor(Respond(i)) /\ ~LeadsOn(Respond(i))
  BY Kinds DEF OfReactor, LeadsOn, IsUp, IsEntry, IsSend, Sets
<1>7. /\ OfReactor(Change("CONFIGURED")) /\ ~LeadsOn(Change("CONFIGURED"))
      /\ OfReactor(Change("CONFIGURING")) /\ ~LeadsOn(Change("CONFIGURING"))
  BY Kinds DEF OfReactor, LeadsOn, IsUp, IsEntry, IsSend, Sets
<1>8. /\ OfReactor(ScheduleActivate) /\ LeadsOn(ScheduleActivate)
      /\ OfReactor(AutoSend(MaxRetry)) /\ LeadsOn(AutoSend(MaxRetry))
  BY Kinds DEF OfReactor, LeadsOn, IsUp, IsEntry, IsSend, Sets
<1>9. reconfigure_rx \in Seq(Op) /\ \A op \in Ops(reconfigure_rx) : OfReactor(op) /\ ~LeadsOn(op)
  <2>1. reconfigure_rx \in Seq(Op) /\ Ops(reconfigure_rx) = {Disable("llc.rx"), Disable("pdcp.rx")}
    BY <1>2, <1>5 DEF reconfigure_rx
  <2>2. QED
    BY <1>6, <2>1
<1>10. /\ <<Change("CONFIGURED"), Respond(i), ScheduleActivate>> \in Seq(Op)
       /\ ReactorOps(<<Change("CONFIGURED"), Respond(i), ScheduleActivate>>)
       /\ \E op \in Ops(<<Change("CONFIGURED"), Respond(i), ScheduleActivate>>) : LeadsOn(op)
  <2> DEFINE a == Change("CONFIGURED")
             b == Respond(i)
             c == ScheduleActivate
  <2>1. /\ a \in Op /\ b \in Op /\ c \in Op /\ OfReactor(a) /\ ~LeadsOn(a)
        /\ OfReactor(b) /\ ~LeadsOn(b) /\ OfReactor(c) /\ LeadsOn(c)
    BY <1>5, <1>6, <1>7, <1>8
  <2> HIDE DEF a, b, c
  <2>2. /\ <<a, b, c>> \in Seq(Op) /\ ReactorOps(<<a, b, c>>)
        /\ \E op \in Ops(<<a, b, c>>) : LeadsOn(op)
    BY <1>4, <2>1
  <2>3. QED
    BY <2>2 DEF a, b, c
<1>11. /\ <<Change("CONFIGURED"), ScheduleActivate>> \in Seq(Op)
       /\ ReactorOps(<<Change("CONFIGURED"), ScheduleActivate>>)
       /\ \E op \in Ops(<<Change("CONFIGURED"), ScheduleActivate>>) : LeadsOn(op)
  BY <1>3, <1>5, <1>7, <1>8
<1>12. /\ <<Change("CONFIGURING"), AutoSend(MaxRetry)>> \in Seq(Op)
       /\ ReactorOps(<<Change("CONFIGURING"), AutoSend(MaxRetry)>>)
       /\ \E op \in Ops(<<Change("CONFIGURING"), AutoSend(MaxRetry)>>) : LeadsOn(op)
  BY <1>3, <1>5, <1>7, <1>8
<1>13. QED
  BY <1>9, <1>10, <1>11, <1>12

(* The handlers of a request, a response and a setup lead on. *)
LEMMA ReactorHandlers ==
  ASSUME NEW e, NEW i \in Nat, NEW forced
  PROVE  /\ on_exchange_request(e, i) \in Seq(Op) /\ ReactorOps(on_exchange_request(e, i))
         /\ \E op \in Ops(on_exchange_request(e, i)) : LeadsOn(op)
         /\ on_exchange_response \in Seq(Op) /\ ReactorOps(on_exchange_response)
         /\ \E op \in Ops(on_exchange_response) : LeadsOn(op)
         /\ on_init(e, forced) \in Seq(Op)
         /\ on_init(e, forced) # <<>> =>
              ReactorOps(on_init(e, forced)) /\ \E op \in Ops(on_init(e, forced)) : LeadsOn(op)
<1> DEFINE first == IF txrx_state[e] = "ACTIVE" THEN on_rlf ELSE <<>>
           last == <<Change("CONFIGURED"), Respond(i), ScheduleActivate>>
<1>1. first \in Seq(Op) /\ \A op \in Ops(first) : OfReactor(op) /\ ~LeadsOn(op)
  <2>1. <<>> \in Seq(Op) /\ Ops(<<>>) = {}
    BY OpsNone
  <2>2. on_rlf \in Seq(Op) /\ \A op \in Ops(on_rlf) : OfReactor(op) /\ ~LeadsOn(op)
    BY OnRlf, RlfIsReactorOps
  <2>3. QED
    BY <2>1, <2>2
<1>2. reconfigure_rx \in Seq(Op) /\ \A op \in Ops(reconfigure_rx) : OfReactor(op) /\ ~LeadsOn(op)
  BY ReactorParts
<1>3. last \in Seq(Op) /\ ReactorOps(last) /\ \E op \in Ops(last) : LeadsOn(op)
  BY ReactorParts
<1>4. on_exchange_request(e, i) = first \o reconfigure_rx \o last
  BY DEF on_exchange_request
<1> HIDE DEF first, last
<1>5. /\ first \o reconfigure_rx \in Seq(Op)
      /\ Ops(first \o reconfigure_rx) = Ops(first) \cup Ops(reconfigure_rx)
  BY <1>1, <1>2, OpsConcat
<1>6. \A op \in Ops(first \o reconfigure_rx) : OfReactor(op) /\ ~LeadsOn(op)
  BY <1>1, <1>2, <1>5
<1>7. /\ on_exchange_request(e, i) \in Seq(Op) /\ ReactorOps(on_exchange_request(e, i))
      /\ \E op \in Ops(on_exchange_request(e, i)) : LeadsOn(op)
  <2> DEFINE a == first \o reconfigure_rx
  <2>1. a \in Seq(Op) /\ \A op \in Ops(a) : OfReactor(op) /\ ~LeadsOn(op)
    BY <1>5, <1>6
  <2>2. on_exchange_request(e, i) = a \o last
    BY <1>4
  <2> HIDE DEF a
  <2>3. a \o last \in Seq(Op) /\ ReactorOps(a \o last) /\ \E op \in Ops(a \o last) : LeadsOn(op)
    BY <1>3, <2>1, ReactorThen
  <2>4. QED
    BY <2>2, <2>3
<1>8. /\ on_exchange_response \in Seq(Op) /\ ReactorOps(on_exchange_response)
      /\ \E op \in Ops(on_exchange_response) : LeadsOn(op)
  <2> DEFINE b == <<Change("CONFIGURED"), ScheduleActivate>>
  <2>1. b \in Seq(Op) /\ ReactorOps(b) /\ \E op \in Ops(b) : LeadsOn(op)
    BY ReactorParts
  <2>2. on_exchange_response = reconfigure_rx \o b
    BY DEF on_exchange_response
  <2> HIDE DEF b
  <2>3. /\ reconfigure_rx \o b \in Seq(Op) /\ ReactorOps(reconfigure_rx \o b)
        /\ \E op \in Ops(reconfigure_rx \o b) : LeadsOn(op)
    BY <1>2, <2>1, ReactorThen
  <2>4. QED
    BY <2>2, <2>3
<1>9. /\ on_init(e, forced) \in Seq(Op)
      /\ on_init(e, forced) # <<>> =>
           ReactorOps(on_init(e, forced)) /\ \E op \in Ops(on_init(e, forced)) : LeadsOn(op)
  <2> DEFINE b == <<Change("CONFIGURING"), AutoSend(MaxRetry)>>
  <2>1. b \in Seq(Op) /\ ReactorOps(b) /\ \E op \in Ops(b) : LeadsOn(op)
    BY ReactorParts
  <2>2. on_init(e, forced) = <<>> \/ on_init(e, forced) = b
    BY DEF on_init
  <2> HIDE DEF b
  <2>3. <<>> \in Seq(Op)
    OBVIOUS
  <2>4. QED
    BY <2>1, <2>2, <2>3
<1>10. QED
  BY <1>7, <1>8, <1>9
-----------------------------------------------------------------------------
(***************************************************************************)
(* Each operation leaves an end in order.  First the changes of the state: *)
(* timer2 changes it to ACTIVE, and then the reactor does not handle a     *)
(* failure, or to NOT_CONFIGURED, and then nothing enables a layer.        *)
(***************************************************************************)
LEMMA ChangeByTimer2 ==
  ASSUME NEW t \in Seq(Op), NEW r \in Seq(Op), NEW m, NEW Q, NEW state, NEW layers \in SUBSET Layer,
         Orderly(t, r, m, Q, state, layers), t # <<>>, Head(t).op = "change"
  PROVE  Orderly(Tail(t), r, m, Q, Head(t).state, layers)
<1> DEFINE h == Head(t)
           T == Ops(Tail(t))
           R == Ops(r)
           M == Ops(m)
<1>1. Timer2Ops(t) /\ ReactorOps(r) /\ Exclusive(Ops(t), R, M)
  BY DEF Orderly
<1>2. Ops(t) = {h} \cup T
  BY OpsTail
<1>3. /\ Timer2Ops(Tail(t)) /\ (IsUp(h) \/ IsDown(h) \/ IsEntry(h) \/ IsSend(h))
      /\ \A op \in T : op.op # "change"
      /\ IsUp(h) => \A op \in T : ~IsDown(op)
      /\ IsDown(h) => \A op \in T : ~IsUp(op)
      /\ Sets(h, "ACTIVE") => \A l \in Layer : \E op \in T : On(op, l)
      /\ Sets(h, "NOT_CONFIGURED") => \A l \in Layer : \E op \in T : Off(op, l)
  BY <1>1, Timer2Head
<1>4. \/ \E op \in R : LeadsOn(op)
      \/ \A op \in R : op.op = "change" => Sets(op, "NOT_CONFIGURED")
  <2> SUFFICES ASSUME \A op \in R : ~LeadsOn(op), NEW k \in 1..Len(r), r[k].op = "change"
               PROVE  Sets(r[k], "NOT_CONFIGURED")
    BY DEF Ops
  <2>1. /\ \A j \in 2..Len(r) : r[j].op # "change"
        /\ r # <<>> /\ r[1].op = "change" => r[1].state = "NOT_CONFIGURED"
    BY <1>1 DEF ReactorOps
  <2>2. Len(r) \in Nat /\ k = 1 /\ r # <<>>
    BY <2>1
  <2>3. QED
    BY <2>1, <2>2 DEF Sets
<1>5. h.op = "change"
  OBVIOUS
<1> HIDE DEF h, T, R, M
<1>6. Exclusive(T, R, M)
  BY <1>1, <1>2 DEF Exclusive, Activates
<1>7. Settling(T, R, M, Q, h.state, layers)
  <2>1. CASE \E op \in R : LeadsOn(op)
    BY <2>1 DEF Settling, Coming
  <2>2. CASE IsUp(h) /\ \A op \in R : ~LeadsOn(op)
    <3>1. R = {}
      BY <1>1, <1>2, <2>2 DEF Exclusive, Activates
    <3>2. h.state = "ACTIVE" /\ Sets(h, "ACTIVE")
      BY <1>5, <2>2 DEF IsUp, Sets
    <3>3. \A op \in T : op.op \notin {"disable", "change"}
      BY <1>3, <2>2 DEF IsDown
    <3>4. Rising(T, R, h.state, layers)
      BY <1>3, <3>1, <3>2, <3>3 DEF Rising
    <3>5. QED
      BY <3>4 DEF Settling
  <2>3. CASE ~IsUp(h) /\ \A op \in R : ~LeadsOn(op)
    <3>1. Sets(h, "NOT_CONFIGURED") /\ IsDown(h) /\ h.state = "NOT_CONFIGURED"
      BY <1>3, <1>5, <2>3 DEF IsDown, IsEntry, IsSend, Sets
    <3>2. CASE \E op \in R : op.op = "change"
      BY <1>4, <2>3, <3>2 DEF Settling, Coming
    <3>3. CASE \A op \in R : op.op # "change"
      <4>1. Falling(T, R, h.state, layers)
        BY <1>3, <3>1, <3>3 DEF Falling
      <4>2. QED
        BY <4>1 DEF Settling
    <3>4. QED
      BY <3>2, <3>3
  <2>4. QED
    BY <2>1, <2>2, <2>3
<1>8. QED
  BY <1>1, <1>3, <1>6, <1>7 DEF Orderly, h, T, R, M

(* The reactor changes it to NOT_CONFIGURED, or goes on to a request.       *)
LEMMA ChangeByReactor ==
  ASSUME NEW t \in Seq(Op), NEW r \in Seq(Op), NEW m, NEW Q, NEW state, NEW layers \in SUBSET Layer,
         Orderly(t, r, m, Q, state, layers), r # <<>>, Head(r).op = "change"
  PROVE  Orderly(t, Tail(r), m, Q, Head(r).state, layers)
<1> DEFINE h == Head(r)
           T == Ops(t)
           R == Ops(Tail(r))
           M == Ops(m)
<1>1. Timer2Ops(t) /\ ReactorOps(r) /\ Exclusive(T, Ops(r), M)
  BY DEF Orderly
<1>2. Ops(r) = {h} \cup R
  BY OpsTail
<1>3. /\ ReactorOps(Tail(r))
      /\ \/ \E op \in R : LeadsOn(op)
         \/ /\ h.state = "NOT_CONFIGURED"
            /\ \A l \in Layer : \E op \in R : Off(op, l)
            /\ \A op \in R : op.op # "change"
  BY <1>1, ReactorHead
<1>4. ~LeadsOn(h)
  BY DEF LeadsOn
<1> HIDE DEF h, T, R, M
<1>5. Exclusive(T, R, M)
  BY <1>1, <1>2, <1>4 DEF Exclusive
<1>6. Settling(T, R, M, Q, h.state, layers)
  <2>1. CASE \E op \in R : LeadsOn(op)
    BY <2>1 DEF Settling, Coming
  <2>2. CASE \A op \in R : ~LeadsOn(op)
    <3>1. \A op \in T : ~IsUp(op)
      BY <1>1, <1>2, <1>4, <2>2 DEF Exclusive, Activates
    <3>2. Falling(T, R, h.state, layers)
      BY <1>3, <2>2, <3>1 DEF Falling
    <3>3. QED
      BY <3>2 DEF Settling
  <2>3. QED
    BY <2>1, <2>2
<1>7. QED
  BY <1>1, <1>3, <1>5, <1>6 DEF Orderly, h, T, R, M

(* A layer is enabled by timer2. *)
LEMMA EnableInOrder ==
  ASSUME NEW t \in Seq(Op), NEW r \in Seq(Op), NEW m, NEW Q, NEW state, NEW layers,
         Orderly(t, r, m, Q, state, layers), t # <<>>, Head(t).op = "enable"
  PROVE  Orderly(Tail(t), r, m, Q, state, layers \cup {Head(t).layer})
<1> DEFINE h == Head(t)
           T == Ops(Tail(t))
           R == Ops(r)
           M == Ops(m)
<1>1. /\ Timer2Ops(t) /\ ReactorOps(r) /\ Exclusive(Ops(t), R, M)
      /\ Settling(Ops(t), R, M, Q, state, layers)
  BY DEF Orderly
<1>2. Ops(t) = {h} \cup T /\ Timer2Ops(Tail(t)) /\ h.op = "enable"
  BY <1>1, OpsTail, Timer2Head
<1>3. ReactorOps(r)
  BY <1>1
<1> HIDE DEF h, T, R, M
<1>4. Exclusive(T, R, M)
  BY <1>1, <1>2 DEF Exclusive, Activates
<1>5. CASE Coming(Ops(t), R, M, Q)
  <2>1. h # Activation /\ ~Sets(h, "ACTIVE") /\ ~IsSend(h) /\ ~Sets(h, "NOT_CONFIGURED")
    BY <1>2, Kinds DEF Sets, IsSend
  <2>2. Coming(T, R, M, Q)
    BY <1>2, <1>5, <2>1 DEF Coming
  <2>3. QED
    BY <1>2, <1>3, <1>4, <2>2 DEF Settling, Orderly, T, R, M, h
<1>6. CASE Rising(Ops(t), R, state, layers)
  <2>1. Rising(T, R, state, layers \cup {h.layer})
    BY <1>2, <1>6 DEF Rising, On
  <2>2. QED
    BY <1>2, <1>3, <1>4, <2>1 DEF Settling, Orderly, T, R, M, h
<1>7. CASE Falling(Ops(t), R, state, layers)
  BY <1>2, <1>7 DEF Falling, IsUp
<1>8. QED
  BY <1>1, <1>5, <1>6, <1>7 DEF Settling

(* A layer is disabled by timer2 ... *)
LEMMA DisableByTimer2 ==
  ASSUME NEW t \in Seq(Op), NEW r \in Seq(Op), NEW m, NEW Q, NEW state, NEW layers,
         Orderly(t, r, m, Q, state, layers), t # <<>>, Head(t).op = "disable"
  PROVE  Orderly(Tail(t), r, m, Q, state, layers \ {Head(t).layer})
<1> DEFINE h == Head(t)
           T == Ops(Tail(t))
           R == Ops(r)
           M == Ops(m)
<1>1. /\ Timer2Ops(t) /\ ReactorOps(r) /\ Exclusive(Ops(t), R, M)
      /\ Settling(Ops(t), R, M, Q, state, layers)
  BY DEF Orderly
<1>2. Ops(t) = {h} \cup T /\ Timer2Ops(Tail(t)) /\ h.op = "disable"
  BY <1>1, OpsTail, Timer2Head
<1>3. ReactorOps(r)
  BY <1>1
<1> HIDE DEF h, T, R, M
<1>4. Exclusive(T, R, M)
  BY <1>1, <1>2 DEF Exclusive, Activates
<1>5. CASE Coming(Ops(t), R, M, Q)
  <2>1. h # Activation /\ ~Sets(h, "ACTIVE") /\ ~IsSend(h) /\ ~Sets(h, "NOT_CONFIGURED")
    BY <1>2, Kinds DEF Sets, IsSend
  <2>2. Coming(T, R, M, Q)
    BY <1>2, <1>5, <2>1 DEF Coming
  <2>3. QED
    BY <1>2, <1>3, <1>4, <2>2 DEF Settling, Orderly, T, R, M, h
<1>6. CASE Rising(Ops(t), R, state, layers)
  BY <1>2, <1>6 DEF Rising
<1>7. CASE Falling(Ops(t), R, state, layers)
  <2>1. Falling(T, R, state, layers \ {h.layer})
    BY <1>2, <1>7 DEF Falling, Off
  <2>2. QED
    BY <1>2, <1>3, <1>4, <2>1 DEF Settling, Orderly, T, R, M, h
<1>8. QED
  BY <1>1, <1>5, <1>6, <1>7 DEF Settling

(* ... or by the reactor. *)
LEMMA DisableByReactor ==
  ASSUME NEW t \in Seq(Op), NEW r \in Seq(Op), NEW m, NEW Q, NEW state, NEW layers,
         Orderly(t, r, m, Q, state, layers), r # <<>>, Head(r).op = "disable"
  PROVE  Orderly(t, Tail(r), m, Q, state, layers \ {Head(r).layer})
<1> DEFINE h == Head(r)
           T == Ops(t)
           R == Ops(Tail(r))
           M == Ops(m)
<1>1. /\ Timer2Ops(t) /\ ReactorOps(r) /\ Exclusive(T, Ops(r), M)
      /\ Settling(T, Ops(r), M, Q, state, layers)
  BY DEF Orderly
<1>2. Ops(r) = {h} \cup R /\ ReactorOps(Tail(r)) /\ h.op = "disable"
  BY <1>1, OpsTail, ReactorHead
<1>3. Timer2Ops(t)
  BY <1>1
<1> HIDE DEF h, T, R, M
<1>4. Exclusive(T, R, M)
  BY <1>1, <1>2 DEF Exclusive, LeadsOn
<1>5. CASE Coming(T, Ops(r), M, Q)
  <2>1. ~LeadsOn(h) /\ ~Sets(h, "NOT_CONFIGURED")
    BY <1>2 DEF Sets, LeadsOn
  <2>2. Coming(T, R, M, Q)
    BY <1>2, <1>5, <2>1 DEF Coming
  <2>3. QED
    BY <1>2, <1>3, <1>4, <2>2 DEF Settling, Orderly, T, R, M, h
<1>6. CASE Rising(T, Ops(r), state, layers)
  BY <1>2, <1>6 DEF Rising
<1>7. CASE Falling(T, Ops(r), state, layers)
  <2>1. Falling(T, R, state, layers \ {h.layer})
    BY <1>2, <1>7 DEF Falling, Off
  <2>2. QED
    BY <1>2, <1>3, <1>4, <2>1 DEF Settling, Orderly, T, R, M, h
<1>8. QED
  BY <1>1, <1>5, <1>6, <1>7 DEF Settling

(* The reactor responds. *)
LEMMA RespondInOrder ==
  ASSUME NEW t \in Seq(Op), NEW r \in Seq(Op), NEW m, NEW Q, NEW state, NEW layers,
         Orderly(t, r, m, Q, state, layers), r # <<>>, Head(r).op = "respond"
  PROVE  Orderly(t, Tail(r), m, Q, state, layers)
<1> DEFINE h == Head(r)
           T == Ops(t)
           R == Ops(Tail(r))
           M == Ops(m)
<1>1. /\ Timer2Ops(t) /\ ReactorOps(r) /\ Exclusive(T, Ops(r), M)
      /\ Settling(T, Ops(r), M, Q, state, layers)
  BY DEF Orderly
<1>2. Ops(r) = {h} \cup R /\ ReactorOps(Tail(r)) /\ h.op = "respond"
  BY <1>1, OpsTail, ReactorHead
<1>3. Timer2Ops(t)
  BY <1>1
<1> HIDE DEF h, T, R, M
<1>4. Exclusive(T, R, M)
  BY <1>1, <1>2 DEF Exclusive, LeadsOn
<1>5. ~LeadsOn(h) /\ ~Sets(h, "NOT_CONFIGURED") /\ \A l : ~Off(h, l)
  BY <1>2 DEF Sets, LeadsOn, Off
<1>6. Coming(T, Ops(r), M, Q) => Coming(T, R, M, Q)
  BY <1>2, <1>5 DEF Coming
<1>7. Rising(T, Ops(r), state, layers) => Rising(T, R, state, layers)
  BY <1>2 DEF Rising
<1>8. Falling(T, Ops(r), state, layers) => Falling(T, R, state, layers)
  BY <1>2, <1>5 DEF Falling
<1>9. QED
  BY <1>1, <1>2, <1>3, <1>4, <1>6, <1>7, <1>8 DEF Settling, Orderly, T, R, M

(* A request that was answered expires: nothing is done. *)
LEMMA ExpireInOrder ==
  ASSUME NEW t \in Seq(Op), NEW r \in Seq(Op), NEW m, NEW Q, NEW state, NEW layers,
         Orderly(t, r, m, Q, state, layers), t # <<>>, Head(t).op = "expire", Head(t).id \notin Q
  PROVE  Orderly(Tail(t), r, m, Q, state, layers)
<1> DEFINE h == Head(t)
           T == Ops(Tail(t))
           R == Ops(r)
           M == Ops(m)
<1>1. /\ Timer2Ops(t) /\ ReactorOps(r) /\ Exclusive(Ops(t), R, M)
      /\ Settling(Ops(t), R, M, Q, state, layers)
  BY DEF Orderly
<1>2. Ops(t) = {h} \cup T /\ Timer2Ops(Tail(t)) /\ h.op = "expire" /\ h.id \notin Q
  BY <1>1, OpsTail, Timer2Head
<1>3. ReactorOps(r)
  BY <1>1
<1> HIDE DEF h, T, R, M
<1>4. Exclusive(T, R, M)
  BY <1>1, <1>2 DEF Exclusive, Activates
<1>5. /\ h # Activation /\ ~Sets(h, "ACTIVE") /\ ~IsSend(h) /\ ~Sets(h, "NOT_CONFIGURED")
      /\ \A l : ~Off(h, l) /\ ~On(h, l)
  BY <1>2, Kinds DEF Sets, IsSend, On, Off
<1>6. Coming(Ops(t), R, M, Q) => Coming(T, R, M, Q)
  BY <1>2, <1>5 DEF Coming
<1>7. Rising(Ops(t), R, state, layers) => Rising(T, R, state, layers)
  BY <1>2, <1>5 DEF Rising
<1>8. Falling(Ops(t), R, state, layers) => Falling(T, R, state, layers)
  BY <1>2, <1>5 DEF Falling
<1>9. QED
  BY <1>1, <1>2, <1>3, <1>4, <1>6, <1>7, <1>8 DEF Settling, Orderly, T, R, M

(* The reactor ends a handler with an activation or a request: timer2 will *)
(* see to it.                                                              *)
LEMMA ReactorLeadsOn ==
  ASSUME NEW t \in Seq(Op), NEW r \in Seq(Op), NEW m, NEW Q, NEW state, NEW layers,
         Orderly(t, r, m, Q, state, layers), r # <<>>, LeadsOn(Head(r)),
         NEW n, NEW P, \E x \in Ops(n) : x = Activation \/ (x.op = "expire" /\ x.id \in P)
  PROVE  Orderly(t, Tail(r), n, P, state, layers)
<1>1. Timer2Ops(t) /\ ReactorOps(r)
  BY DEF Orderly
<1>2. ReactorOps(Tail(r)) /\ Ops(Tail(r)) = {}
  BY <1>1, ReactorHead
<1>3. Coming(Ops(t), Ops(Tail(r)), Ops(n), P)
  BY DEF Coming
<1>4. QED
  BY <1>1, <1>2, <1>3 DEF Orderly, Exclusive, Settling

(* timer2 calls a handler that activates the channel, fails the link or    *)
(* repeats a request.  Only an activation enables layers.                  *)
LEMMA Timer2Calls ==
  ASSUME NEW t \in Seq(Op), NEW r \in Seq(Op), NEW m, NEW Q, NEW state, NEW layers,
         Orderly(t, r, m, Q, state, layers), t # <<>>,
         IsEntry(Head(t)) \/ IsSend(Head(t)), NEW P, NEW a \in Seq(Op), Timer2Ops(a),
         \E op \in Ops(a) : Sets(op, "ACTIVE") \/ Sets(op, "NOT_CONFIGURED") \/ IsSend(op),
         Activation \notin Ops(a),
         Head(t) # Activation => \A op \in Ops(a) : ~IsUp(op)
  PROVE  Orderly(a \o Tail(t), r, m, P, state, layers)
<1> DEFINE h == Head(t)
           T == Ops(Tail(t))
           A == Ops(a)
           R == Ops(r)
           M == Ops(m)
<1>1. Timer2Ops(t) /\ ReactorOps(r) /\ Exclusive(Ops(t), R, M)
  BY DEF Orderly
<1>2. Ops(t) = {h} \cup T /\ Tail(t) \in Seq(Op)
  BY OpsTail
<1>3. \A op \in T : IsEntry(op)
  BY <1>1, Timer2Head
<1>4. Timer2Ops(a \o Tail(t)) /\ Ops(a \o Tail(t)) = A \cup T
  <2> DEFINE q == Tail(t)
  <2>1. q \in Seq(Op) /\ \A op \in Ops(q) : IsEntry(op)
    BY <1>2, <1>3
  <2> HIDE DEF q
  <2>2. Timer2Ops(a \o q)
    BY <2>1, Timer2Then
  <2>3. Ops(a \o q) = Ops(a) \cup Ops(q)
    BY <2>1, OpsConcat
  <2>4. QED
    BY <2>2, <2>3 DEF q
<1>5. Coming(A \cup T, R, M, P)
  BY DEF Coming
<1>6. Exclusive(A \cup T, R, M)
  <2> HIDE DEF h, T, A, R, M
  <2>1. Activates(A \cup T, M) => Activates({h} \cup T, M)
    <3>1. Activation \notin A /\ (h # Activation => \A op \in A : ~IsUp(op))
      BY DEF A, h
    <3>2. QED
      BY <3>1 DEF Activates
  <2>2. QED
    BY <1>1, <1>2, <2>1 DEF Exclusive
<1>7. QED
  BY <1>1, <1>4, <1>5, <1>6 DEF Orderly, Settling

(* timer2 has sent a request, which now waits. *)
LEMMA Timer2Sends ==
  ASSUME NEW t \in Seq(Op), NEW r \in Seq(Op), NEW m, NEW Q, NEW state, NEW layers,
         Orderly(t, r, m, Q, state, layers), t # <<>>,
         NEW n, NEW P, NEW x, Ops(n) = Ops(m) \cup {x}, x.op = "expire", x.id \in P
  PROVE  Orderly(Tail(t), r, n, P, state, layers)
<1> DEFINE h == Head(t)
           T == Ops(Tail(t))
           R == Ops(r)
<1>1. Timer2Ops(t) /\ ReactorOps(r) /\ Exclusive(Ops(t), R, Ops(m))
  BY DEF Orderly
<1>2. Ops(t) = {h} \cup T /\ Timer2Ops(Tail(t))
  BY <1>1, OpsTail, Timer2Head
<1>3. Coming(T, R, Ops(n), P)
  BY DEF Coming
<1>4. x # Activation
  BY Kinds
<1>5. Exclusive(T, R, Ops(n))
  <2> HIDE DEF h, T, R
  <2>1. Activates(T, Ops(n)) => Activates(Ops(t), Ops(m))
    BY <1>2, <1>4 DEF Activates
  <2>2. QED
    BY <1>1, <2>1 DEF Exclusive
<1>6. QED
  BY <1>1, <1>2, <1>3, <1>5 DEF Orderly, Settling

(* timer::schedule takes the first timers that are due. *)
LEMMA ScheduleInOrder ==
  ASSUME NEW r \in Seq(Op), NEW m \in Seq(Entry), NEW Q, NEW state, NEW layers,
         Orderly(<<>>, r, m, Q, state, layers), NEW k \in 1..Len(m)
  PROVE  Orderly(SubSeq(m, 1, k), r, SubSeq(m, k + 1, Len(m)), Q, state, layers)
<1> DEFINE a == SubSeq(m, 1, k)
           b == SubSeq(m, k + 1, Len(m))
           R == Ops(r)
<1>1. a \in Seq(Entry) /\ b \in Seq(Entry) /\ Ops(a) \cup Ops(b) = Ops(m)
  BY OpsSplit
<1>2. ReactorOps(r) /\ Exclusive({}, R, Ops(m)) /\ Settling({}, R, Ops(m), Q, state, layers)
  BY OpsNone DEF Orderly
<1> HIDE DEF a, b, R
<1>3. Timer2Ops(a)
  BY <1>1, Timer2Handlers
<1>4. \A op \in Ops(a) : IsEntry(op)
  <2>1. \A j \in 1..Len(a) : a[j] \in Entry
    BY <1>1
  <2>2. QED
    BY <2>1, EntryKinds DEF Ops
<1>5. \A op \in Ops(a) : ~IsUp(op) /\ op.op \notin {"disable", "change"}
  BY <1>4 DEF IsEntry, IsUp, Sets
<1>6. Exclusive(Ops(a), R, Ops(b))
  BY <1>1, <1>2, <1>5 DEF Exclusive, Activates
<1>7. Coming({}, R, Ops(m), Q) => Coming(Ops(a), R, Ops(b), Q)
  BY <1>1 DEF Coming
<1>8. Rising({}, R, state, layers) => Rising(Ops(a), R, state, layers)
  BY <1>5 DEF Rising
<1>9. Falling({}, R, state, layers) => Falling(Ops(a), R, state, layers)
  BY <1>5 DEF Falling
<1>10. QED
  BY <1>2, <1>3, <1>6, <1>7, <1>8, <1>9 DEF Orderly, Settling, a, b, R

(* The reactor starts on a handler that leads on ... *)
LEMMA HandleInOrder ==
  ASSUME NEW t, NEW r, NEW m, NEW n, NEW Q, NEW P, NEW state, NEW layers, NEW a,
         Orderly(t, r, m, Q, state, layers), ReactorOps(a), \E op \in Ops(a) : LeadsOn(op)
  PROVE  Orderly(t, a, n, P, state, layers)
BY DEF Orderly, Exclusive, Settling, Coming

(* ... or on the failure of the link, when no activation is under way. *)
LEMMA RlfInOrder ==
  ASSUME NEW r, NEW m, NEW Q, NEW state, NEW layers,
         Orderly(<<>>, r, m, Q, state, layers), Activation \notin Ops(m)
  PROVE  Orderly(<<>>, on_rlf, m, Q, state, layers)
<1>1. Ops(<<>>) = {} /\ Timer2Ops(<<>>) /\ ReactorOps(on_rlf)
  BY OpsNone, RlfIsReactorOps, Timer2Handlers
<1>2. Change("NOT_CONFIGURED") \in Ops(on_rlf) /\ Sets(Change("NOT_CONFIGURED"), "NOT_CONFIGURED")
  BY OnRlf, Kinds DEF Sets
<1>3. Coming({}, Ops(on_rlf), Ops(m), Q)
  BY <1>2 DEF Coming
<1>4. Exclusive({}, Ops(on_rlf), Ops(m))
  BY DEF Exclusive, Activates
<1>5. QED
  BY <1>1, <1>3, <1>4 DEF Orderly, Settling

(* At the start, and when nothing is left to do, the layers are as the     *)
(* state says.                                                             *)
LEMMA AtRest ==
  ASSUME NEW Q, NEW state, NEW layers \in SUBSET Layer
  PROVE  Orderly(<<>>, <<>>, <<>>, Q, state, layers) <=>
           \/ state = "ACTIVE" /\ layers = Layer
           \/ state = "NOT_CONFIGURED" /\ layers = {}
<1>1. Ops(<<>>) = {} /\ Timer2Ops(<<>>) /\ Len(<<>>) = 0
  BY OpsNone, Timer2Handlers
<1>2. ReactorOps(<<>>)
  BY <1>1 DEF ReactorOps
<1>3. Exclusive({}, {}, {}) /\ ~Coming({}, {}, {}, Q)
  BY DEF Exclusive, Coming
<1>4. Rising({}, {}, state, layers) <=> state = "ACTIVE" /\ layers = Layer
  BY DEF Rising
<1>5. Falling({}, {}, state, layers) <=> state = "NOT_CONFIGURED" /\ layers = {}
  BY DEF Falling
<1>6. QED
  BY <1>1, <1>2, <1>3, <1>4, <1>5 DEF Orderly, Settling
-----------------------------------------------------------------------------
(***************************************************************************)
(* The types.  What a step leaves in the place of an operation.            *)
(***************************************************************************)
LEMMA ThenType ==
  ASSUME Types, NEW e \in End, NEW t \in Thread, todo[e][t] # <<>>, NEW a \in Seq(Op), Then(e, t, a)
  PROVE  /\ todo' \in [End -> [Thread -> Seq(Op)]]
         /\ todo'[e][t] = a \o Tail(todo[e][t])
         /\ \A u \in Thread : u # t => todo'[e][u] = todo[e][u]
         /\ \A x \in End : x # e => todo'[x] = todo[x]
<1> DEFINE q == a \o Tail(todo[e][t])
<1>1. todo \in [End -> [Thread -> Seq(Op)]] /\ todo[e][t] \in Seq(Op)
  BY DEF Types
<1>2. Tail(todo[e][t]) \in Seq(Op)
  BY <1>1, OpsTail
<1>3. q \in Seq(Op)
  BY <1>2, OpsConcat
<1>4. todo' = [todo EXCEPT ![e][t] = q]
  BY DEF Then
<1> HIDE DEF q
<1>5. QED
  BY <1>1, <1>3, <1>4 DEF q

(* The same if it leaves nothing. *)
LEMMA ThenNothing ==
  ASSUME Types, NEW e \in End, NEW t \in Thread, todo[e][t] # <<>>, Then(e, t, <<>>)
  PROVE  /\ todo' \in [End -> [Thread -> Seq(Op)]]
         /\ todo'[e][t] = Tail(todo[e][t])
         /\ \A u \in Thread : u # t => todo'[e][u] = todo[e][u]
         /\ \A x \in End : x # e => todo'[x] = todo[x]
<1> DEFINE q == Tail(todo[e][t])
<1>1. <<>> \in Seq(Op)
  OBVIOUS
<1>2. todo[e][t] \in Seq(Op)
  BY DEF Types
<1>3. q \in Seq(Op)
  BY <1>2, OpsTail
<1>4. <<>> \o q = q
  <2> HIDE DEF q
  <2>1. QED
    BY <1>3
<1>5. /\ todo' \in [End -> [Thread -> Seq(Op)]]
      /\ todo'[e][t] = <<>> \o q
      /\ \A u \in Thread : u # t => todo'[e][u] = todo[e][u]
      /\ \A x \in End : x # e => todo'[x] = todo[x]
  BY <1>1, ThenType
<1>6. QED
  BY <1>4, <1>5

(* The next operation of a thread. *)
LEMMA HeadType ==
  ASSUME Types, NEW e \in End, NEW t \in Thread, NEW name, Operation(e, t, name)
  PROVE  /\ todo[e][t] \in Seq(Op) /\ todo[e][t] # <<>>
         /\ Head(todo[e][t]) \in Op /\ Head(todo[e][t]).op = name
<1>1. todo[e][t] \in Seq(Op) /\ todo[e][t] # <<>> /\ Head(todo[e][t]).op = name
  BY DEF Types, Operation
<1>2. QED
  BY <1>1, OpsTail

(* The other station is one. *)
LEMMA PeerType == ASSUME NEW e \in End PROVE Peer(e) \in End /\ Peer(e) # e
BY EndAssumption DEF Peer

(* Every operation of a thread preserves the types. *)
LEMMA StepTypes ==
  ASSUME Types, NEW e \in End, NEW t \in Thread, Step(e, t)
  PROVE  Types'
<1> DEFINE h == Head(todo[e][t])
<1>1. CASE change_txrx_state(e, t)
  <2>1. todo[e][t] # <<>> /\ h \in Op /\ h.op = "change" /\ Then(e, t, <<>>)
    BY <1>1, HeadType DEF change_txrx_state
  <2>2. h.state \in State /\ todo' \in [End -> [Thread -> Seq(Op)]]
    BY <2>1, OpKinds, ThenNothing
  <2> HIDE DEF h
  <2>3. txrx_state' = [txrx_state EXCEPT ![e] = h.state]
    BY <1>1 DEF change_txrx_state, h
  <2>4. txrx_state' \in [End -> State]
    BY <2>2, <2>3 DEF Types
  <2>5. UNCHANGED <<enabled, rrc_requests, timers, rrc_req_id, rrc_events, air>>
    BY <1>1 DEF change_txrx_state
  <2>6. QED
    BY <2>2, <2>4, <2>5 DEF Types
<1>2. CASE set_enabled(e, t)
  <2>1. /\ todo[e][t] # <<>> /\ h \in Op /\ h.op \in {"enable", "disable"} /\ Then(e, t, <<>>)
        /\ \/ enabled' = [enabled EXCEPT ![e] = @ \cup {h.layer}]
           \/ enabled' = [enabled EXCEPT ![e] = @ \ {h.layer}]
    BY <1>2, HeadType DEF set_enabled
  <2>2. h.layer \in Layer /\ todo' \in [End -> [Thread -> Seq(Op)]]
    BY <2>1, OpKinds, ThenNothing
  <2> HIDE DEF h
  <2>3. enabled \in [End -> SUBSET Layer]
    BY DEF Types
  <2>4. enabled' \in [End -> SUBSET Layer]
    BY <2>1, <2>2, <2>3
  <2>5. UNCHANGED <<txrx_state, rrc_requests, timers, rrc_req_id, rrc_events, air>>
    BY <1>2 DEF set_enabled
  <2>6. QED
    BY <2>2, <2>4, <2>5 DEF Types
<1>3. CASE send_exchange_resp(e, t)
  <2>1. /\ todo[e][t] # <<>> /\ h \in Op /\ h.op = "respond" /\ Then(e, t, <<>>)
        /\ air' = air \cup {[to |-> Peer(e), type |-> "response", id |-> h.id]}
    BY <1>3, HeadType DEF send_exchange_resp
  <2>2. h.id \in Nat /\ todo' \in [End -> [Thread -> Seq(Op)]]
    BY <2>1, OpKinds, ThenNothing
  <2> HIDE DEF h
  <2>3. air' \subseteq Message
    BY <2>1, <2>2, PeerType DEF Types, Message
  <2>4. UNCHANGED <<txrx_state, enabled, rrc_requests, timers, rrc_req_id, rrc_events>>
    BY <1>3 DEF send_exchange_resp, lcrrc
  <2>5. QED
    BY <2>2, <2>3, <2>4 DEF Types
<1>4. CASE schedule_activate(e, t)
  <2> DEFINE at == {i \in DOMAIN timers[e] : timers[e][i] = Activation}
             n == Append(cancel(timers[e], at), Activation)
  <2>1. todo[e][t] # <<>> /\ Then(e, t, <<>>) /\ timers' = [timers EXCEPT ![e] = n]
    BY <1>4, HeadType DEF schedule_activate
  <2>2. timers[e] \in Seq(Entry) /\ at \in SUBSET (DOMAIN timers[e])
    BY DEF Types
  <2> HIDE DEF at
  <2>3. cancel(timers[e], at) \in Seq(Entry)
    BY <2>2, OpsCancel
  <2>4. n \in Seq(Entry)
    BY <2>3, OpsAreOps, OpsAppend
  <2> HIDE DEF n
  <2>5. timers' \in [End -> Seq(Entry)]
    BY <2>1, <2>4 DEF Types
  <2>6. todo' \in [End -> [Thread -> Seq(Op)]]
    BY <2>1, ThenNothing
  <2>7. UNCHANGED <<txrx_state, enabled, rrc_requests, rrc_req_id, rrc_events, air>>
    BY <1>4 DEF schedule_activate
  <2>8. QED
    BY <2>5, <2>6, <2>7 DEF Types
<1>5. CASE auto_send_rrc(e, t)
  <2> DEFINE id == rrc_req_id[e]
  <2>1. /\ todo[e][t] # <<>> /\ h \in Op /\ h.op = "auto_send"
        /\ rrc_req_id' = [rrc_req_id EXCEPT ![e] = id + 1]
        /\ UNCHANGED <<txrx_state, enabled, rrc_events>>
    BY <1>5, HeadType DEF auto_send_rrc, allocate_req_id
  <2>2. h.retry \in Nat
    BY <2>1, OpKinds
  <2>3. id \in Nat /\ rrc_req_id' \in [End -> Nat] /\ \A x \in End : rrc_req_id[x] <= rrc_req_id'[x]
    BY <2>1 DEF Types
  <2>4. id < rrc_req_id'[e]
    BY <2>1, <2>3 DEF Types
  <2>5. CASE h.retry = 0
    <3>1. Then(e, t, on_rlf) /\ UNCHANGED <<rrc_requests, timers, air>>
      BY <1>5, <2>5 DEF auto_send_rrc, NoTriesLeft
    <3>2. todo' \in [End -> [Thread -> Seq(Op)]]
      BY <2>1, <3>1, ThenType, OnRlf
    <3>3. \A x \in End : \A i \in rrc_requests'[x] : i < rrc_req_id'[x]
      <4> SUFFICES ASSUME NEW x \in End, NEW i \in rrc_requests[x]
                   PROVE  i < rrc_req_id'[x]
        BY <3>1
      <4>1. i \in Nat /\ rrc_req_id[x] \in Nat /\ rrc_req_id'[x] \in Nat /\ i < rrc_req_id[x]
        BY <2>3 DEF Types
      <4>2. QED
        BY <2>3, <4>1
    <3>4. QED
      BY <2>1, <2>3, <3>1, <3>2, <3>3 DEF Types
  <2>6. CASE h.retry # 0
    <3> DEFINE x0 == Expire(id, h.retry)
               n == Append(timers[e], x0)
    <3>1. /\ timers' = [timers EXCEPT ![e] = n]
          /\ rrc_requests' = [rrc_requests EXCEPT ![e] = @ \cup {id}]
          /\ air' = air \cup OnTheAir(e, h.retry, id)
          /\ Then(e, t, <<>>)
      BY <1>5, <2>6 DEF auto_send_rrc
    <3>2. todo' \in [End -> [Thread -> Seq(Op)]]
      BY <2>1, <3>1, ThenNothing
    <3>3. x0 \in Entry
      BY <2>2, <2>3, <2>6, OpsAreOps
    <3>4. n \in Seq(Entry)
      <4>1. timers[e] \in Seq(Entry)
        BY DEF Types
      <4> HIDE DEF x0
      <4>2. QED
        BY <3>3, <4>1, OpsAppend
    <3> HIDE DEF n, h, id
    <3>5. timers' \in [End -> Seq(Entry)]
      BY <3>1, <3>4 DEF Types
    <3>6. rrc_requests' \in [End -> SUBSET Nat]
      BY <2>3, <3>1 DEF Types
    <3>7. air' \subseteq Message
      BY <2>3, <3>1, PeerType DEF Types, OnTheAir, Message
    <3>8. \A x \in End : \A i \in rrc_requests'[x] : i < rrc_req_id'[x]
      <4> SUFFICES ASSUME NEW x \in End, NEW i \in rrc_requests'[x]
                   PROVE  i < rrc_req_id'[x]
        OBVIOUS
      <4>1. i \in rrc_requests[x] \/ (x = e /\ i = id)
        BY <3>1 DEF Types
      <4>2. CASE i \in rrc_requests[x]
        <5>1. i \in Nat /\ rrc_req_id[x] \in Nat /\ rrc_req_id'[x] \in Nat /\ i < rrc_req_id[x]
          BY <2>3, <4>2 DEF Types
        <5>2. QED
          BY <2>3, <5>1
      <4>3. QED
        BY <2>4, <4>1, <4>2
    <3>9. QED
      BY <2>1, <2>3, <3>2, <3>5, <3>6, <3>7, <3>8 DEF Types
  <2>7. QED
    BY <2>5, <2>6
<1>6. CASE expiry_handler(e, t)
  <2> DEFINE a == IF h.id \in rrc_requests[e] THEN <<AutoSend(h.retry - 1)>> ELSE <<>>
  <2>1. /\ todo[e][t] # <<>> /\ h \in Op /\ h.op = "expire" /\ Then(e, t, a)
        /\ rrc_requests' = [rrc_requests EXCEPT ![e] = @ \ {h.id}]
    BY <1>6, HeadType DEF expiry_handler
  <2>2. h.retry \in Nat \ {0}
    BY <2>1, OpKinds
  <2>3. h.retry - 1 \in Nat
    BY <2>2
  <2>4. AutoSend(h.retry - 1) \in Op
    BY <2>3, OpsAreOps
  <2>5. a \in Seq(Op)
    <3> DEFINE x0 == AutoSend(h.retry - 1)
    <3>1. x0 \in Op /\ (a = <<x0>> \/ a = <<>>)
      BY <2>4
    <3> HIDE DEF x0, a
    <3>2. <<x0>> \in Seq(Op)
      BY <3>1
    <3>3. <<>> \in Seq(Op)
      OBVIOUS
    <3>4. QED
      BY <3>1, <3>2, <3>3
  <2> HIDE DEF a, h
  <2>6. todo' \in [End -> [Thread -> Seq(Op)]]
    BY <2>1, <2>5, ThenType
  <2>7. /\ rrc_requests' \in [End -> SUBSET Nat]
        /\ \A x \in End : rrc_requests'[x] \subseteq rrc_requests[x]
    BY <2>1 DEF Types
  <2>8. UNCHANGED <<txrx_state, enabled, timers, rrc_req_id, rrc_events, air>>
    BY <1>6 DEF expiry_handler
  <2>9. QED
    BY <2>6, <2>7, <2>8 DEF Types
<1>7. CASE activation_handler(e, t)
  <2>1. todo[e][t] # <<>> /\ Then(e, t, activate)
    BY <1>7, HeadType DEF activation_handler
  <2>2. todo' \in [End -> [Thread -> Seq(Op)]]
    BY <2>1, OnActivation, ThenType
  <2>3. UNCHANGED <<txrx_state, enabled, rrc_requests, timers, rrc_req_id, rrc_events, air>>
    BY <1>7 DEF activation_handler, lcrrc
  <2>4. QED
    BY <2>2, <2>3 DEF Types
<1>8. QED
  BY <1>1, <1>2, <1>3, <1>4, <1>5, <1>6, <1>7 DEF Step

(* So do the other steps. *)
LEMMA OtherTypes ==
  ASSUME Types, NEW e \in End,
         schedule(e) \/ on_rrc_event(e) \/ run_rrc_rx(e) \/ Setup(e) \/ Rlf(e) \/ Lose
  PROVE  Types'
<1>1. ASSUME NEW event \in Event, push_rrc_event(e, event)
      PROVE  rrc_events' \in [End -> Seq(Event)]
  <2> DEFINE q == Append(rrc_events[e], event)
  <2>1. rrc_events[e] \in Seq(Event)
    BY DEF Types
  <2>2. q \in Seq(Event)
    BY <1>1, <2>1, OpsAppend
  <2>3. rrc_events' = [rrc_events EXCEPT ![e] = q]
    BY <1>1 DEF push_rrc_event
  <2> HIDE DEF q
  <2>4. QED
    BY <2>2, <2>3 DEF Types
<1>2. CASE schedule(e)
  <2>1. PICK n \in 1..Len(timers[e]) :
          /\ todo' = [todo EXCEPT ![e]["timer2"] = SubSeq(timers[e], 1, n)]
          /\ timers' = [timers EXCEPT ![e] = SubSeq(timers[e], n + 1, Len(timers[e]))]
    BY <1>2 DEF schedule
  <2> DEFINE a == SubSeq(timers[e], 1, n)
             b == SubSeq(timers[e], n + 1, Len(timers[e]))
  <2>2. timers[e] \in Seq(Entry)
    BY DEF Types
  <2>3. a \in Seq(Entry) /\ b \in Seq(Entry)
    BY <2>2, OpsSplit
  <2>4. todo' = [todo EXCEPT ![e]["timer2"] = a] /\ timers' = [timers EXCEPT ![e] = b]
    BY <2>1
  <2> HIDE DEF a, b
  <2>5. a \in Seq(Op)
    BY <2>3, Timer2Handlers
  <2>6. todo' \in [End -> [Thread -> Seq(Op)]] /\ timers' \in [End -> Seq(Entry)]
    BY <2>3, <2>4, <2>5 DEF Types, Thread
  <2>7. UNCHANGED <<txrx_state, enabled, rrc_requests, rrc_req_id, rrc_events, air>>
    BY <1>2 DEF schedule
  <2>8. QED
    BY <2>6, <2>7 DEF Types
<1>3. CASE on_rrc_event(e)
  <2> DEFINE event == Head(rrc_events[e])
  <2>1. /\ rrc_events[e] # <<>> /\ rrc_events[e] \in Seq(Event)
        /\ rrc_events' = [rrc_events EXCEPT ![e] = Tail(rrc_events[e])]
        /\ UNCHANGED <<txrx_state, enabled, rrc_req_id, air>>
    BY <1>3 DEF on_rrc_event, Types
  <2>2. event \in Event /\ Tail(rrc_events[e]) \in Seq(Event)
    BY <2>1, OpsTail
  <2>3. rrc_events' \in [End -> Seq(Event)]
    BY <2>1, <2>2 DEF Types
  <2>4. event.type \in {"request", "response"} => event.id \in Nat
    BY <2>2 DEF Event, Message
  <2>5. ASSUME NEW a \in Seq(Op), Handle(e, a)
        PROVE  todo' \in [End -> [Thread -> Seq(Op)]]
    BY <2>5 DEF Handle, Types, Thread
  <2>6. ASSUME NEW a \in Seq(Op), Handle(e, a), UNCHANGED <<rrc_requests, timers>>
        PROVE  Types'
    BY <2>1, <2>3, <2>5, <2>6 DEF Types
  <2>7. CASE event.type = "request" /\ Handle(e, on_exchange_request(e, event.id))
             /\ UNCHANGED <<rrc_requests, timers>>
    <3>1. on_exchange_request(e, event.id) \in Seq(Op)
      BY <2>4, <2>7, ReactorHandlers
    <3>2. QED
      BY <2>6, <2>7, <3>1
  <2>8. CASE event.type = "response" /\ check_response(e, event.id)
             /\ Handle(e, on_exchange_response)
    <3> DEFINE at == {i \in DOMAIN timers[e] :
                        /\ timers[e][i].op = "expire" /\ timers[e][i].id = event.id
                        /\ event.id \in rrc_requests[e]}
               n == cancel(timers[e], at)
    <3>1. /\ rrc_requests' = [rrc_requests EXCEPT ![e] = @ \ {event.id}]
          /\ timers' = [timers EXCEPT ![e] = n]
      BY <2>8 DEF check_response
    <3>2. timers[e] \in Seq(Entry) /\ at \in SUBSET (DOMAIN timers[e])
      BY DEF Types
    <3> HIDE DEF at, event
    <3>3. n \in Seq(Entry)
      BY <3>2, OpsCancel
    <3> HIDE DEF n
    <3>4. timers' \in [End -> Seq(Entry)]
      BY <3>1, <3>3 DEF Types
    <3>5. /\ rrc_requests' \in [End -> SUBSET Nat]
          /\ \A x \in End : rrc_requests'[x] \subseteq rrc_requests[x]
      BY <3>1 DEF Types
    <3>6. on_exchange_response \in Seq(Op)
      BY ReactorHandlers
    <3>7. todo' \in [End -> [Thread -> Seq(Op)]]
      BY <2>5, <2>8, <3>6
    <3>8. QED
      BY <2>1, <2>3, <3>4, <3>5, <3>7 DEF Types
  <2>9. CASE event.type = "setup" /\ Handle(e, on_init(e, event.forced))
             /\ UNCHANGED <<rrc_requests, timers>>
    <3>1. on_init(e, event.forced) \in Seq(Op)
      BY ReactorHandlers
    <3>2. QED
      BY <2>6, <2>9, <3>1
  <2>10. CASE event.type = "rlf" /\ Handle(e, on_rlf) /\ UNCHANGED <<rrc_requests, timers>>
    BY <2>6, <2>10, OnRlf
  <2>11. QED
    BY <1>3, <2>7, <2>8, <2>9, <2>10 DEF on_rrc_event
<1>4. CASE run_rrc_rx(e)
  <2>1. PICK m \in air : push_rrc_event(e, m) /\ air' = air \ {m}
    BY <1>4 DEF run_rrc_rx
  <2>2. m \in Event /\ air' \subseteq Message
    BY <2>1 DEF Types, Event
  <2>3. rrc_events' \in [End -> Seq(Event)]
    BY <1>1, <2>1, <2>2
  <2>4. UNCHANGED <<txrx_state, enabled, rrc_requests, timers, rrc_req_id, todo>>
    BY <1>4 DEF run_rrc_rx, lcrrc
  <2>5. QED
    BY <2>2, <2>3, <2>4 DEF Types
<1>5. CASE Setup(e)
  <2>1. PICK forced \in BOOLEAN : push_rrc_event(e, [type |-> "setup", forced |-> forced])
    BY <1>5 DEF Setup
  <2>2. [type |-> "setup", forced |-> forced] \in Event
    BY DEF Event
  <2>3. rrc_events' \in [End -> Seq(Event)]
    BY <1>1, <2>1, <2>2
  <2>4. UNCHANGED <<txrx_state, enabled, rrc_requests, timers, rrc_req_id, todo, air>>
    BY <1>5 DEF Setup, lcrrc
  <2>5. QED
    BY <2>3, <2>4 DEF Types
<1>6. CASE Rlf(e)
  <2>1. push_rrc_event(e, [type |-> "rlf"]) /\ [type |-> "rlf"] \in Event
    BY <1>6 DEF Rlf, Event
  <2>2. rrc_events' \in [End -> Seq(Event)]
    BY <1>1, <2>1
  <2>3. UNCHANGED <<txrx_state, enabled, rrc_requests, timers, rrc_req_id, todo, air>>
    BY <1>6 DEF Rlf, lcrrc
  <2>4. QED
    BY <2>2, <2>3 DEF Types
<1>7. CASE Lose
  BY <1>7 DEF Lose, lcrrc, Types
<1>8. QED
  BY <1>2, <1>3, <1>4, <1>5, <1>6, <1>7

(* The types are an invariant. *)
LEMMA TypesInductive ==
  /\ Init => Types
  /\ Types /\ [Next]_vars => Types'
<1>1. Init => Types
  <2> SUFFICES ASSUME Init PROVE Types
    OBVIOUS
  <2>1. \A S : <<>> \in Seq(S)
    OBVIOUS
  <2>2. QED
    BY <2>1 DEF Init, Types, State
<1>2. ASSUME Types, [Next]_vars PROVE Types'
  <2>1. CASE UNCHANGED vars
    BY <1>2, <2>1 DEF vars, lcrrc, Types
  <2>2. CASE \E e \in End, t \in Thread : Step(e, t)
    BY <1>2, <2>2, StepTypes
  <2>3. CASE \E e \in End : schedule(e) \/ on_rrc_event(e) \/ run_rrc_rx(e) \/ Setup(e) \/ Rlf(e)
    BY <1>2, <2>3, OtherTypes
  <2>4. CASE Lose
    BY <1>2, <2>4, OtherTypes, EndAssumption
  <2>5. QED
    BY <1>2, <2>1, <2>2, <2>3, <2>4 DEF Next
<1>3. QED
  BY <1>1, <1>2

(***************************************************************************)
(* For any number of setups, failures and losses the fields of LCRRC have  *)
(* their types, and every request that waits for a response has an id that *)
(* allocate_req_id has given out.                                          *)
(***************************************************************************)
THEOREM TypeCorrect == Spec => []TypeOK
<1>1. Types => TypeOK
  <2> SUFFICES ASSUME Types PROVE TypeOK
    OBVIOUS
  <2>1. ASSUME NEW e \in End, NEW i \in rrc_requests[e]
        PROVE  i \in 0..(rrc_req_id[e] - 1)
    <3>1. i \in Nat /\ rrc_req_id[e] \in Nat /\ i < rrc_req_id[e]
      BY <2>1 DEF Types
    <3>2. QED
      BY <3>1
  <2>2. QED
    BY <2>1 DEF Types, TypeOK
<1>2. QED
  BY <1>1, TypesInductive, PTL DEF Spec
-----------------------------------------------------------------------------
(***************************************************************************)
(* The order.  A step of one end does not disturb the other.               *)
(***************************************************************************)
LEMMA OtherEnd ==
  ASSUME NEW e \in End, EndInv(e), todo'[e] = todo[e], timers'[e] = timers[e],
         rrc_requests'[e] = rrc_requests[e], txrx_state'[e] = txrx_state[e], enabled'[e] = enabled[e]
  PROVE  EndInv(e)'
BY DEF EndInv

(* What is known of an end, and what is to be shown. *)
LEMMA OneEnd ==
  ASSUME Types, NEW e \in End, EndInv(e)
  PROVE  /\ todo[e]["timer2"] \in Seq(Op) /\ todo[e]["reactor"] \in Seq(Op)
         /\ timers[e] \in Seq(Entry) /\ enabled[e] \in SUBSET Layer
         /\ Timer2Ops(todo[e]["timer2"]) /\ ReactorOps(todo[e]["reactor"])
         /\ Orderly(todo[e]["timer2"], todo[e]["reactor"], timers[e], rrc_requests[e],
                    txrx_state[e], enabled[e])
<1>1. "timer2" \in Thread /\ "reactor" \in Thread
  BY DEF Thread
<1>2. QED
  BY <1>1 DEF Types, EndInv, Orderly

(* The next operation of timer2 and of the reactor is one of theirs. *)
LEMMA WhoDoesWhat ==
  ASSUME Types, NEW e \in End, NEW t \in Thread, NEW name, EndInv(e), Operation(e, t, name)
  PROVE  /\ name \in {"respond", "schedule_activate"} => t = "reactor"
         /\ name \in {"enable", "expire", "activate"} => t = "timer2"
         /\ t = "reactor" /\ name = "auto_send" => Head(todo[e][t]).retry = MaxRetry
<1> DEFINE h == Head(todo[e][t])
<1>1. todo[e][t] \in Seq(Op) /\ todo[e][t] # <<>> /\ h.op = name
  BY HeadType
<1>2. t = "timer2" \/ t = "reactor"
  BY DEF Thread
<1>3. CASE t = "timer2"
  <2>1. IsUp(h) \/ IsDown(h) \/ IsEntry(h) \/ IsSend(h)
    BY <1>1, <1>3, OneEnd, Timer2Head
  <2>2. QED
    BY <1>1, <1>3, <2>1 DEF IsUp, IsDown, IsEntry, IsSend, Sets
<1>4. CASE t = "reactor"
  <2>1. OfReactor(h)
    BY <1>1, <1>4, OneEnd, ReactorHead
  <2>2. QED
    BY <1>1, <1>4, <2>1 DEF OfReactor, IsUp, IsEntry, IsSend
<1>5. QED
  BY <1>2, <1>3, <1>4

(* The state is changed. *)
LEMMA ChangeStep ==
  ASSUME Types, NEW e \in End, NEW t \in Thread, EndInv(e), change_txrx_state(e, t)
  PROVE  EndInv(e)' /\ \A x \in End : x # e /\ EndInv(x) => EndInv(x)'
<1>1. /\ todo[e][t] \in Seq(Op) /\ todo[e][t] # <<>> /\ Head(todo[e][t]).op = "change"
      /\ Then(e, t, <<>>)
  BY HeadType DEF change_txrx_state
<1>2. /\ todo'[e][t] = Tail(todo[e][t])
      /\ \A u \in Thread : u # t => todo'[e][u] = todo[e][u]
      /\ \A x \in End : x # e => todo'[x] = todo[x]
  BY <1>1, ThenNothing
<1>3. /\ txrx_state'[e] = Head(todo[e][t]).state
      /\ \A x \in End : x # e => txrx_state'[x] = txrx_state[x]
      /\ UNCHANGED <<enabled, rrc_requests, timers>>
  BY DEF change_txrx_state, Types
<1>4. \A x \in End : x # e /\ EndInv(x) => EndInv(x)'
  BY <1>2, <1>3, OtherEnd
<1>5. CASE t = "timer2"
  <2>1. Orderly(Tail(todo[e]["timer2"]), todo[e]["reactor"], timers[e], rrc_requests[e],
                Head(todo[e]["timer2"]).state, enabled[e])
    BY <1>1, <1>5, OneEnd, ChangeByTimer2
  <2>2. todo'[e]["reactor"] = todo[e]["reactor"]
    BY <1>2, <1>5 DEF Thread
  <2>3. QED
    BY <1>2, <1>3, <1>4, <1>5, <2>1, <2>2 DEF EndInv
<1>6. CASE t = "reactor"
  <2>1. Orderly(todo[e]["timer2"], Tail(todo[e]["reactor"]), timers[e], rrc_requests[e],
                Head(todo[e]["reactor"]).state, enabled[e])
    BY <1>1, <1>6, OneEnd, ChangeByReactor
  <2>2. todo'[e]["timer2"] = todo[e]["timer2"]
    BY <1>2, <1>6 DEF Thread
  <2>3. QED
    BY <1>2, <1>3, <1>4, <1>6, <2>1, <2>2 DEF EndInv
<1>7. QED
  BY <1>5, <1>6 DEF Thread

(* A layer is enabled or disabled. *)
LEMMA EnableStep ==
  ASSUME Types, NEW e \in End, NEW t \in Thread, EndInv(e), set_enabled(e, t)
  PROVE  EndInv(e)' /\ \A x \in End : x # e /\ EndInv(x) => EndInv(x)'
<1> DEFINE h == Head(todo[e][t])
<1>1. /\ todo[e][t] \in Seq(Op) /\ todo[e][t] # <<>> /\ Then(e, t, <<>>)
      /\ \/ Operation(e, t, "enable") /\ h.op = "enable"
            /\ enabled' = [enabled EXCEPT ![e] = @ \cup {h.layer}]
         \/ h.op = "disable" /\ enabled' = [enabled EXCEPT ![e] = @ \ {h.layer}]
  BY HeadType DEF set_enabled
<1>2. /\ todo'[e][t] = Tail(todo[e][t])
      /\ \A u \in Thread : u # t => todo'[e][u] = todo[e][u]
      /\ \A x \in End : x # e => todo'[x] = todo[x]
  BY <1>1, ThenNothing
<1>3. /\ \A x \in End : x # e => enabled'[x] = enabled[x]
      /\ UNCHANGED <<txrx_state, rrc_requests, timers>>
  BY <1>1 DEF set_enabled, Types
<1>4. \A x \in End : x # e /\ EndInv(x) => EndInv(x)'
  BY <1>2, <1>3, OtherEnd
<1>5. CASE h.op = "enable"
  <2>1. t = "timer2"
    BY <1>1, <1>5, WhoDoesWhat
  <2>2. enabled'[e] = enabled[e] \cup {h.layer}
    BY <1>1, <1>5 DEF Types
  <2>3. Orderly(Tail(todo[e]["timer2"]), todo[e]["reactor"], timers[e], rrc_requests[e],
                txrx_state[e], enabled[e] \cup {Head(todo[e]["timer2"]).layer})
    BY <1>1, <1>5, <2>1, OneEnd, EnableInOrder
  <2>4. todo'[e]["reactor"] = todo[e]["reactor"]
    BY <1>2, <2>1 DEF Thread
  <2>5. QED
    BY <1>2, <1>3, <1>4, <2>1, <2>2, <2>3, <2>4 DEF EndInv
<1>6. CASE h.op = "disable" /\ t = "timer2"
  <2>1. enabled'[e] = enabled[e] \ {h.layer}
    BY <1>1, <1>6 DEF Types
  <2>2. Orderly(Tail(todo[e]["timer2"]), todo[e]["reactor"], timers[e], rrc_requests[e],
                txrx_state[e], enabled[e] \ {Head(todo[e]["timer2"]).layer})
    BY <1>1, <1>6, OneEnd, DisableByTimer2
  <2>3. todo'[e]["reactor"] = todo[e]["reactor"]
    BY <1>2, <1>6 DEF Thread
  <2>4. QED
    BY <1>2, <1>3, <1>4, <1>6, <2>1, <2>2, <2>3 DEF EndInv
<1>7. CASE h.op = "disable" /\ t = "reactor"
  <2>1. enabled'[e] = enabled[e] \ {h.layer}
    BY <1>1, <1>7 DEF Types
  <2>2. Orderly(todo[e]["timer2"], Tail(todo[e]["reactor"]), timers[e], rrc_requests[e],
                txrx_state[e], enabled[e] \ {Head(todo[e]["reactor"]).layer})
    BY <1>1, <1>7, OneEnd, DisableByReactor
  <2>3. todo'[e]["timer2"] = todo[e]["timer2"]
    BY <1>2, <1>7 DEF Thread
  <2>4. QED
    BY <1>2, <1>3, <1>4, <1>7, <2>1, <2>2, <2>3 DEF EndInv
<1>8. QED
  BY <1>1, <1>5, <1>6, <1>7 DEF Thread

(* The response is sent. *)
LEMMA RespondStep ==
  ASSUME Types, NEW e \in End, NEW t \in Thread, EndInv(e), send_exchange_resp(e, t)
  PROVE  EndInv(e)' /\ \A x \in End : x # e /\ EndInv(x) => EndInv(x)'
<1>1. /\ todo[e][t] \in Seq(Op) /\ todo[e][t] # <<>> /\ Then(e, t, <<>>)
      /\ Operation(e, t, "respond") /\ Head(todo[e][t]).op = "respond"
  BY HeadType DEF send_exchange_resp
<1>2. /\ todo'[e][t] = Tail(todo[e][t])
      /\ \A u \in Thread : u # t => todo'[e][u] = todo[e][u]
      /\ \A x \in End : x # e => todo'[x] = todo[x]
  BY <1>1, ThenNothing
<1>3. UNCHANGED <<txrx_state, enabled, rrc_requests, timers>>
  BY DEF send_exchange_resp, lcrrc
<1>4. \A x \in End : x # e /\ EndInv(x) => EndInv(x)'
  BY <1>2, <1>3, OtherEnd
<1>5. t = "reactor"
  BY <1>1, WhoDoesWhat
<1>6. Orderly(todo[e]["timer2"], Tail(todo[e]["reactor"]), timers[e], rrc_requests[e],
              txrx_state[e], enabled[e])
  BY <1>1, <1>5, OneEnd, RespondInOrder
<1>7. todo'[e]["timer2"] = todo[e]["timer2"]
  BY <1>2, <1>5 DEF Thread
<1>8. QED
  BY <1>2, <1>3, <1>4, <1>5, <1>6, <1>7 DEF EndInv

(* The activation is scheduled. *)
LEMMA ScheduleActivateStep ==
  ASSUME Types, NEW e \in End, NEW t \in Thread, EndInv(e), schedule_activate(e, t)
  PROVE  EndInv(e)' /\ \A x \in End : x # e /\ EndInv(x) => EndInv(x)'
<1> DEFINE at == {i \in DOMAIN timers[e] : timers[e][i] = Activation}
           n == Append(cancel(timers[e], at), Activation)
<1>1. /\ todo[e][t] \in Seq(Op) /\ todo[e][t] # <<>> /\ Then(e, t, <<>>)
      /\ Operation(e, t, "schedule_activate") /\ Head(todo[e][t]).op = "schedule_activate"
      /\ timers' = [timers EXCEPT ![e] = n]
  BY HeadType DEF schedule_activate
<1>2. /\ todo'[e][t] = Tail(todo[e][t])
      /\ \A u \in Thread : u # t => todo'[e][u] = todo[e][u]
      /\ \A x \in End : x # e => todo'[x] = todo[x]
  BY <1>1, ThenNothing
<1>3. timers[e] \in Seq(Entry) /\ at \in SUBSET (DOMAIN timers[e])
  BY DEF Types
<1> HIDE DEF at
<1>4. cancel(timers[e], at) \in Seq(Entry)
  BY <1>3, OpsCancel
<1>5. Activation \in Ops(n)
  BY <1>4, OpsAreOps, OpsAppend
<1> HIDE DEF n
<1>6. /\ timers'[e] = n /\ \A x \in End : x # e => timers'[x] = timers[x]
      /\ UNCHANGED <<txrx_state, enabled, rrc_requests>>
  BY <1>1 DEF schedule_activate, Types
<1>7. \A x \in End : x # e /\ EndInv(x) => EndInv(x)'
  BY <1>2, <1>6, OtherEnd
<1>8. t = "reactor" /\ LeadsOn(Head(todo[e][t]))
  BY <1>1, WhoDoesWhat DEF LeadsOn
<1>9. Orderly(todo[e]["timer2"], Tail(todo[e]["reactor"]), n, rrc_requests[e],
              txrx_state[e], enabled[e])
  BY <1>1, <1>5, <1>8, OneEnd, ReactorLeadsOn
<1>10. todo'[e]["timer2"] = todo[e]["timer2"]
  BY <1>2, <1>8 DEF Thread
<1>11. QED
  BY <1>2, <1>6, <1>7, <1>8, <1>9, <1>10 DEF EndInv

(* What timer2 starts on by its handlers. *)
LEMMA CalledOps ==
  /\ \E op \in Ops(activate) : Sets(op, "ACTIVE")
  /\ \E op \in Ops(on_rlf) : Sets(op, "NOT_CONFIGURED")
  /\ Activation \notin Ops(activate) /\ Activation \notin Ops(on_rlf)
  /\ \A op \in Ops(on_rlf) : ~IsUp(op)
  /\ \A i \in Nat : /\ <<AutoSend(i)>> \in Seq(Op) /\ Activation \notin Ops(<<AutoSend(i)>>)
                    /\ \E op \in Ops(<<AutoSend(i)>>) : IsSend(op)
                    /\ \A op \in Ops(<<AutoSend(i)>>) : ~IsUp(op)
<1>1. \A l \in Layer : Enable(l).op = "enable" /\ Disable(l).op = "disable"
  BY Kinds
<1>2. /\ Activation.op = "activate"
      /\ Change("ACTIVE").op = "change" /\ Change("ACTIVE").state = "ACTIVE"
      /\ Change("NOT_CONFIGURED").op = "change" /\ Change("NOT_CONFIGURED").state = "NOT_CONFIGURED"
  BY Kinds
<1>3. Activation \notin Ops(activate) /\ Activation \notin Ops(on_rlf)
  BY <1>1, <1>2, OnRlf, OnActivation
<1>4. Sets(Change("ACTIVE"), "ACTIVE") /\ Sets(Change("NOT_CONFIGURED"), "NOT_CONFIGURED")
  BY <1>2 DEF Sets
<1>5. \A op \in Ops(on_rlf) : ~IsUp(op)
  BY <1>1, <1>2, OnRlf DEF IsUp, Sets
<1>6. ASSUME NEW i \in Nat
      PROVE  /\ <<AutoSend(i)>> \in Seq(Op) /\ Activation \notin Ops(<<AutoSend(i)>>)
             /\ \E op \in Ops(<<AutoSend(i)>>) : IsSend(op)
             /\ \A op \in Ops(<<AutoSend(i)>>) : ~IsUp(op)
  <2> DEFINE x == AutoSend(i)
             s == <<x>>
  <2>1. x \in Op /\ x.op = "auto_send"
    BY OpsAreOps, Kinds
  <2> HIDE DEF x
  <2>2. s \in Seq(Op) /\ Len(s) = 1 /\ s[1] = x
    BY <2>1
  <2> HIDE DEF s
  <2>3. 1..1 = {1}
    OBVIOUS
  <2>4. Ops(s) = {x}
    BY <2>2, <2>3 DEF Ops
  <2>5. IsSend(x) /\ ~IsUp(x) /\ x # Activation
    BY <1>2, <2>1 DEF IsSend, IsUp, Sets
  <2>6. QED
    BY <2>2, <2>4, <2>5 DEF s, x
<1>7. QED
  BY <1>3, <1>4, <1>5, <1>6, OnRlf, OnActivation

(* A request is sent, or no tries are left. *)
LEMMA AutoSendStep ==
  ASSUME Types, NEW e \in End, NEW t \in Thread, EndInv(e), auto_send_rrc(e, t)
  PROVE  EndInv(e)' /\ \A x \in End : x # e /\ EndInv(x) => EndInv(x)'
<1> DEFINE h == Head(todo[e][t])
           id == rrc_req_id[e]
           x0 == Expire(id, h.retry)
           n == Append(timers[e], x0)
<1>1. /\ todo[e][t] \in Seq(Op) /\ todo[e][t] # <<>> /\ h \in Op
      /\ Operation(e, t, "auto_send") /\ h.op = "auto_send"
      /\ UNCHANGED <<txrx_state, enabled>>
  BY HeadType DEF auto_send_rrc
<1>2. h.retry \in Nat /\ id \in Nat
  BY <1>1, OpKinds DEF Types
<1>3. CASE h.retry = 0
  <2>1. Then(e, t, on_rlf) /\ UNCHANGED <<rrc_requests, timers>>
    BY <1>3 DEF auto_send_rrc, NoTriesLeft
  <2>2. /\ todo'[e][t] = on_rlf \o Tail(todo[e][t])
        /\ \A u \in Thread : u # t => todo'[e][u] = todo[e][u]
        /\ \A x \in End : x # e => todo'[x] = todo[x]
    BY <1>1, <2>1, OnRlf, ThenType
  <2>3. \A x \in End : x # e /\ EndInv(x) => EndInv(x)'
    BY <1>1, <2>1, <2>2, OtherEnd
  <2>4. t = "timer2"
    BY <1>1, <1>3, WhoDoesWhat, BoundAssumption DEF Thread
  <2>5. IsSend(Head(todo[e]["timer2"]))
    BY <1>1, <2>4 DEF IsSend
  <2>6. Orderly(on_rlf \o Tail(todo[e]["timer2"]), todo[e]["reactor"], timers[e], rrc_requests[e],
                txrx_state[e], enabled[e])
    <3>1. /\ on_rlf \in Seq(Op) /\ Timer2Ops(on_rlf) /\ Activation \notin Ops(on_rlf)
          /\ \E op \in Ops(on_rlf) : Sets(op, "NOT_CONFIGURED")
          /\ \A op \in Ops(on_rlf) : ~IsUp(op)
      BY OnRlf, Timer2Handlers, CalledOps
    <3>2. QED
      BY <1>1, <2>4, <2>5, <3>1, OneEnd, Timer2Calls
  <2>7. todo'[e]["reactor"] = todo[e]["reactor"]
    BY <2>2, <2>4 DEF Thread
  <2>8. QED
    BY <1>1, <2>1, <2>2, <2>3, <2>4, <2>6, <2>7 DEF EndInv
<1>4. CASE h.retry # 0
  <2>1. /\ Then(e, t, <<>>) /\ timers' = [timers EXCEPT ![e] = n]
        /\ rrc_requests' = [rrc_requests EXCEPT ![e] = @ \cup {id}]
    BY <1>4 DEF auto_send_rrc
  <2>2. /\ todo'[e][t] = Tail(todo[e][t])
        /\ \A u \in Thread : u # t => todo'[e][u] = todo[e][u]
        /\ \A x \in End : x # e => todo'[x] = todo[x]
    BY <1>1, <2>1, ThenNothing
  <2>3. x0 \in Entry /\ x0.op = "expire" /\ x0.id = id
    BY <1>2, <1>4, OpsAreOps, Kinds
  <2>4. timers[e] \in Seq(Entry)
    BY DEF Types
  <2> HIDE DEF x0
  <2>5. Ops(n) = Ops(timers[e]) \cup {x0}
    BY <2>3, <2>4, OpsAppend
  <2> HIDE DEF n, id
  <2>6. /\ timers'[e] = n /\ rrc_requests'[e] = rrc_requests[e] \cup {id}
        /\ \A x \in End : x # e => timers'[x] = timers[x] /\ rrc_requests'[x] = rrc_requests[x]
    BY <2>1 DEF Types
  <2>7. \A x \in End : x # e /\ EndInv(x) => EndInv(x)'
    BY <1>1, <2>2, <2>6, OtherEnd
  <2>8. x0 \in Ops(n) /\ x0.id \in rrc_requests[e] \cup {id}
    BY <2>3, <2>5
  <2>9. CASE t = "timer2"
    <3>1. Orderly(Tail(todo[e]["timer2"]), todo[e]["reactor"], n, rrc_requests[e] \cup {id},
                  txrx_state[e], enabled[e])
      BY <1>1, <2>3, <2>5, <2>8, <2>9, OneEnd, Timer2Sends
    <3>2. todo'[e]["reactor"] = todo[e]["reactor"]
      BY <2>2, <2>9 DEF Thread
    <3>3. QED
      BY <1>1, <2>2, <2>6, <2>7, <2>9, <3>1, <3>2 DEF EndInv
  <2>10. CASE t = "reactor"
    <3>1. LeadsOn(Head(todo[e]["reactor"]))
      BY <1>1, <2>10 DEF LeadsOn
    <3>2. Orderly(todo[e]["timer2"], Tail(todo[e]["reactor"]), n, rrc_requests[e] \cup {id},
                  txrx_state[e], enabled[e])
      BY <1>1, <2>3, <2>8, <2>10, <3>1, OneEnd, ReactorLeadsOn
    <3>3. todo'[e]["timer2"] = todo[e]["timer2"]
      BY <2>2, <2>10 DEF Thread
    <3>4. QED
      BY <1>1, <2>2, <2>6, <2>7, <2>10, <3>2, <3>3 DEF EndInv
  <2>11. QED
    BY <2>9, <2>10 DEF Thread
<1>5. QED
  BY <1>3, <1>4

(* A request expires. *)
LEMMA ExpireStep ==
  ASSUME Types, NEW e \in End, NEW t \in Thread, EndInv(e), expiry_handler(e, t)
  PROVE  EndInv(e)' /\ \A x \in End : x # e /\ EndInv(x) => EndInv(x)'
<1> DEFINE h == Head(todo[e][t])
           a == <<AutoSend(h.retry - 1)>>
<1>1. /\ todo[e][t] \in Seq(Op) /\ todo[e][t] # <<>> /\ h \in Op
      /\ Operation(e, t, "expire") /\ h.op = "expire"
      /\ UNCHANGED <<txrx_state, enabled, timers>>
      /\ rrc_requests' = [rrc_requests EXCEPT ![e] = @ \ {h.id}]
  BY HeadType DEF expiry_handler
<1>2. h.retry \in Nat \ {0}
  BY <1>1, OpKinds
<1>3. t = "timer2"
  BY <1>1, WhoDoesWhat
<1>4. /\ rrc_requests'[e] = rrc_requests[e] \ {h.id}
      /\ \A x \in End : x # e => rrc_requests'[x] = rrc_requests[x]
  BY <1>1 DEF Types
<1>5. CASE h.id \in rrc_requests[e]
  <2>1. Then(e, t, a)
    BY <1>5 DEF expiry_handler
  <2>2. h.retry - 1 \in Nat
    BY <1>2
  <2>3. /\ a \in Seq(Op) /\ Timer2Ops(a) /\ Activation \notin Ops(a)
        /\ \E op \in Ops(a) : IsSend(op)
        /\ \A op \in Ops(a) : ~IsUp(op)
    BY <2>2, CalledOps, Timer2Handlers
  <2> HIDE DEF a
  <2>4. /\ todo'[e][t] = a \o Tail(todo[e][t])
        /\ \A u \in Thread : u # t => todo'[e][u] = todo[e][u]
        /\ \A x \in End : x # e => todo'[x] = todo[x]
    BY <1>1, <2>1, <2>3, ThenType
  <2>5. \A x \in End : x # e /\ EndInv(x) => EndInv(x)'
    BY <1>1, <1>4, <2>4, OtherEnd
  <2>6. IsEntry(Head(todo[e]["timer2"]))
    BY <1>1, <1>3 DEF IsEntry
  <2>7. Orderly(a \o Tail(todo[e]["timer2"]), todo[e]["reactor"], timers[e],
                rrc_requests[e] \ {h.id}, txrx_state[e], enabled[e])
    BY <1>1, <1>3, <2>3, <2>6, OneEnd, Timer2Calls
  <2>8. todo'[e]["reactor"] = todo[e]["reactor"]
    BY <1>3, <2>4 DEF Thread
  <2>9. QED
    BY <1>1, <1>3, <1>4, <2>4, <2>5, <2>7, <2>8 DEF EndInv
<1>6. CASE h.id \notin rrc_requests[e]
  <2>1. Then(e, t, <<>>)
    BY <1>6 DEF expiry_handler
  <2>2. /\ todo'[e][t] = Tail(todo[e][t])
        /\ \A u \in Thread : u # t => todo'[e][u] = todo[e][u]
        /\ \A x \in End : x # e => todo'[x] = todo[x]
    BY <1>1, <2>1, ThenNothing
  <2>3. rrc_requests'[e] = rrc_requests[e]
    BY <1>4, <1>6
  <2>4. \A x \in End : x # e /\ EndInv(x) => EndInv(x)'
    BY <1>1, <1>4, <2>2, OtherEnd
  <2>5. Orderly(Tail(todo[e]["timer2"]), todo[e]["reactor"], timers[e], rrc_requests[e],
                txrx_state[e], enabled[e])
    BY <1>1, <1>3, <1>6, OneEnd, ExpireInOrder
  <2>6. todo'[e]["reactor"] = todo[e]["reactor"]
    BY <1>3, <2>2 DEF Thread
  <2>7. QED
    BY <1>1, <1>3, <2>2, <2>3, <2>4, <2>5, <2>6 DEF EndInv
<1>7. QED
  BY <1>5, <1>6

(* timer2 calls the activation. *)
LEMMA ActivationStep ==
  ASSUME Types, NEW e \in End, NEW t \in Thread, EndInv(e), activation_handler(e, t)
  PROVE  EndInv(e)' /\ \A x \in End : x # e /\ EndInv(x) => EndInv(x)'
<1> DEFINE h == Head(todo[e][t])
<1>1. /\ todo[e][t] \in Seq(Op) /\ todo[e][t] # <<>> /\ h \in Op /\ Then(e, t, activate)
      /\ Operation(e, t, "activate") /\ h.op = "activate"
  BY HeadType DEF activation_handler
<1>2. t = "timer2" /\ h = Activation
  BY <1>1, WhoDoesWhat, OpKinds
<1>3. /\ todo'[e][t] = activate \o Tail(todo[e][t])
      /\ \A u \in Thread : u # t => todo'[e][u] = todo[e][u]
      /\ \A x \in End : x # e => todo'[x] = todo[x]
  BY <1>1, OnActivation, ThenType
<1>4. UNCHANGED <<txrx_state, enabled, rrc_requests, timers>>
  BY DEF activation_handler, lcrrc
<1>5. \A x \in End : x # e /\ EndInv(x) => EndInv(x)'
  BY <1>3, <1>4, OtherEnd
<1>6. Orderly(activate \o Tail(todo[e]["timer2"]), todo[e]["reactor"], timers[e], rrc_requests[e],
              txrx_state[e], enabled[e])
  <2>1. /\ activate \in Seq(Op) /\ Timer2Ops(activate) /\ Activation \notin Ops(activate)
        /\ \E op \in Ops(activate) : Sets(op, "ACTIVE")
    BY OnActivation, Timer2Handlers, CalledOps
  <2>2. IsEntry(Head(todo[e]["timer2"])) /\ Head(todo[e]["timer2"]) = Activation
    BY <1>1, <1>2 DEF IsEntry
  <2>3. QED
    BY <1>1, <1>2, <2>1, <2>2, OneEnd, Timer2Calls
<1>7. todo'[e]["reactor"] = todo[e]["reactor"]
  BY <1>2, <1>3 DEF Thread
<1>8. QED
  BY <1>2, <1>3, <1>4, <1>5, <1>6, <1>7 DEF EndInv

(* timer::schedule takes what is due. *)
LEMMA ScheduleStep ==
  ASSUME Types, NEW e \in End, EndInv(e), schedule(e)
  PROVE  EndInv(e)' /\ \A x \in End : x # e /\ EndInv(x) => EndInv(x)'
<1>1. PICK n \in 1..Len(timers[e]) :
        /\ todo' = [todo EXCEPT ![e]["timer2"] = SubSeq(timers[e], 1, n)]
        /\ timers' = [timers EXCEPT ![e] = SubSeq(timers[e], n + 1, Len(timers[e]))]
  BY DEF schedule
<1> DEFINE a == SubSeq(timers[e], 1, n)
           b == SubSeq(timers[e], n + 1, Len(timers[e]))
<1>2. todo[e]["timer2"] = <<>> /\ UNCHANGED <<txrx_state, enabled, rrc_requests>>
  BY DEF schedule
<1>3. Orderly(a, todo[e]["reactor"], b, rrc_requests[e], txrx_state[e], enabled[e])
  BY <1>2, OneEnd, ScheduleInOrder
<1>4. todo' = [todo EXCEPT ![e]["timer2"] = a] /\ timers' = [timers EXCEPT ![e] = b]
  BY <1>1
<1> HIDE DEF a, b
<1>5. /\ todo'[e]["timer2"] = a /\ todo'[e]["reactor"] = todo[e]["reactor"]
      /\ timers'[e] = b
      /\ \A x \in End : x # e => todo'[x] = todo[x] /\ timers'[x] = timers[x]
  BY <1>4 DEF Types, Thread
<1>6. \A x \in End : x # e /\ EndInv(x) => EndInv(x)'
  BY <1>2, <1>5, OtherEnd
<1>7. QED
  BY <1>2, <1>3, <1>5, <1>6 DEF EndInv

(* The reactor handles an event. *)
LEMMA EventStep ==
  ASSUME Types, NEW e \in End, EndInv(e), on_rrc_event(e),
         Head(rrc_events[e]).type = "rlf" => ~Activating(e)
  PROVE  EndInv(e)' /\ \A x \in End : x # e /\ EndInv(x) => EndInv(x)'
<1> DEFINE event == Head(rrc_events[e])
<1>1. /\ todo[e]["reactor"] = <<>> /\ rrc_events[e] # <<>> /\ rrc_events[e] \in Seq(Event)
      /\ UNCHANGED <<txrx_state, enabled>>
  BY DEF on_rrc_event, Types
<1>2. event \in Event
  BY <1>1, OpsTail
<1>3. event.type \in {"request", "response"} => event.id \in Nat
  BY <1>2 DEF Event, Message
<1>4. ASSUME NEW a, Handle(e, a)
      PROVE  /\ todo'[e]["reactor"] = a /\ todo'[e]["timer2"] = todo[e]["timer2"]
             /\ \A x \in End : x # e => todo'[x] = todo[x]
  BY <1>4 DEF Handle, Types, Thread
<1>5. ASSUME NEW a, Handle(e, a), UNCHANGED <<rrc_requests, timers>>,
             Orderly(todo[e]["timer2"], a, timers[e], rrc_requests[e], txrx_state[e], enabled[e])
      PROVE  EndInv(e)' /\ \A x \in End : x # e /\ EndInv(x) => EndInv(x)'
  <2>1. \A x \in End : x # e /\ EndInv(x) => EndInv(x)'
    BY <1>1, <1>4, <1>5, OtherEnd
  <2>2. QED
    BY <1>1, <1>4, <1>5, <2>1 DEF EndInv
<1>6. CASE event.type = "request" /\ Handle(e, on_exchange_request(e, event.id))
           /\ UNCHANGED <<rrc_requests, timers>>
  <2> DEFINE a == on_exchange_request(e, event.id)
  <2>1. ReactorOps(a) /\ \E op \in Ops(a) : LeadsOn(op)
    BY <1>3, <1>6, ReactorHandlers
  <2> HIDE DEF a
  <2>2. Orderly(todo[e]["timer2"], a, timers[e], rrc_requests[e], txrx_state[e], enabled[e])
    BY <2>1, OneEnd, HandleInOrder
  <2>3. QED
    BY <1>5, <1>6, <2>2 DEF a
<1>7. CASE event.type = "response" /\ check_response(e, event.id) /\ Handle(e, on_exchange_response)
  <2>1. ReactorOps(on_exchange_response) /\ \E op \in Ops(on_exchange_response) : LeadsOn(op)
    BY ReactorHandlers
  <2>2. Orderly(todo[e]["timer2"], on_exchange_response, timers'[e], rrc_requests'[e],
                txrx_state[e], enabled[e])
    BY <2>1, OneEnd, HandleInOrder
  <2>3. \A x \in End : x # e => timers'[x] = timers[x] /\ rrc_requests'[x] = rrc_requests[x]
    BY <1>7 DEF check_response, Types
  <2>4. \A x \in End : x # e /\ EndInv(x) => EndInv(x)'
    BY <1>1, <1>4, <1>7, <2>3, OtherEnd
  <2>5. QED
    BY <1>1, <1>4, <1>7, <2>2, <2>4 DEF EndInv
<1>8. CASE event.type = "setup" /\ Handle(e, on_init(e, event.forced))
           /\ UNCHANGED <<rrc_requests, timers>>
  <2> DEFINE a == on_init(e, event.forced)
  <2>1. a = <<>> \/ (ReactorOps(a) /\ \E op \in Ops(a) : LeadsOn(op))
    BY ReactorHandlers
  <2> HIDE DEF a
  <2>2. Orderly(todo[e]["timer2"], a, timers[e], rrc_requests[e], txrx_state[e], enabled[e])
    BY <1>1, <2>1, OneEnd, HandleInOrder
  <2>3. QED
    BY <1>5, <1>8, <2>2 DEF a
<1>9. CASE event.type = "rlf" /\ ~Activating(e) /\ Handle(e, on_rlf)
           /\ UNCHANGED <<rrc_requests, timers>>
  <2>1. todo[e]["timer2"] = <<>> /\ Activation \notin Ops(timers[e])
    BY <1>9 DEF Activating, Contains, Ops
  <2>2. Orderly(todo[e]["timer2"], on_rlf, timers[e], rrc_requests[e], txrx_state[e], enabled[e])
    BY <2>1, OneEnd, RlfInOrder
  <2>3. QED
    BY <1>5, <1>9, <2>2
<1>10. QED
  BY <1>6, <1>7, <1>8, <1>9 DEF on_rrc_event

(* Every step keeps the order, unless it handles a failure during an       *)
(* activation.                                                             *)
LEMMA OrderStep ==
  ASSUME LInv, [Next]_vars,
         \A e \in End : on_rrc_event(e) /\ Head(rrc_events[e]).type = "rlf" => ~Activating(e)
  PROVE  LInv'
<1>1. Types /\ \A e \in End : EndInv(e)
  BY DEF LInv
<1>2. Types'
  BY <1>1, TypesInductive
<1>3. ASSUME UNCHANGED <<txrx_state, enabled, rrc_requests, timers, todo>>
      PROVE  \A x \in End : EndInv(x)'
  BY <1>1, <1>3, OtherEnd
<1>4. ASSUME NEW e \in End, EndInv(e)' /\ \A x \in End : x # e /\ EndInv(x) => EndInv(x)'
      PROVE  \A x \in End : EndInv(x)'
  BY <1>1, <1>4
<1>5. ASSUME NEW e \in End, NEW t \in Thread, Step(e, t)
      PROVE  \A x \in End : EndInv(x)'
  <2>1. CASE change_txrx_state(e, t)
    BY <1>1, <1>4, <2>1, ChangeStep
  <2>2. CASE set_enabled(e, t)
    BY <1>1, <1>4, <2>2, EnableStep
  <2>3. CASE send_exchange_resp(e, t)
    BY <1>1, <1>4, <2>3, RespondStep
  <2>4. CASE schedule_activate(e, t)
    BY <1>1, <1>4, <2>4, ScheduleActivateStep
  <2>5. CASE auto_send_rrc(e, t)
    BY <1>1, <1>4, <2>5, AutoSendStep
  <2>6. CASE expiry_handler(e, t)
    BY <1>1, <1>4, <2>6, ExpireStep
  <2>7. CASE activation_handler(e, t)
    BY <1>1, <1>4, <2>7, ActivationStep
  <2>8. QED
    BY <1>5, <2>1, <2>2, <2>3, <2>4, <2>5, <2>6, <2>7 DEF Step
<1>6. ASSUME NEW e \in End,
             schedule(e) \/ on_rrc_event(e) \/ run_rrc_rx(e) \/ Setup(e) \/ Rlf(e)
      PROVE  \A x \in End : EndInv(x)'
  <2>1. CASE schedule(e)
    BY <1>1, <1>4, <2>1, ScheduleStep
  <2>2. CASE on_rrc_event(e)
    BY <1>1, <1>4, <2>2, EventStep
  <2>3. CASE run_rrc_rx(e) \/ Setup(e) \/ Rlf(e)
    BY <1>3, <2>3 DEF run_rrc_rx, Setup, Rlf, lcrrc
  <2>4. QED
    BY <1>6, <2>1, <2>2, <2>3
<1>7. ASSUME Lose PROVE \A x \in End : EndInv(x)'
  BY <1>3, <1>7 DEF Lose, lcrrc
<1>8. ASSUME UNCHANGED vars PROVE \A x \in End : EndInv(x)'
  BY <1>3, <1>8 DEF vars, lcrrc
<1>9. \A x \in End : EndInv(x)'
  BY <1>5, <1>6, <1>7, <1>8 DEF Next
<1>10. QED
  BY <1>2, <1>9 DEF LInv

(* It holds at the start. *)
LEMMA OrderInit == Init => LInv
<1> SUFFICES ASSUME Init PROVE LInv
  OBVIOUS
<1>1. Types
  BY TypesInductive
<1>2. ASSUME NEW e \in End PROVE EndInv(e)
  <2>1. /\ todo[e]["timer2"] = <<>> /\ todo[e]["reactor"] = <<>> /\ timers[e] = <<>>
        /\ txrx_state[e] = "NOT_CONFIGURED" /\ enabled[e] = {}
    BY DEF Init, Thread
  <2>2. Orderly(<<>>, <<>>, <<>>, rrc_requests[e], "NOT_CONFIGURED", {})
    BY AtRest
  <2>3. QED
    BY <2>1, <2>2 DEF EndInv
<1>3. QED
  BY <1>1, <1>2 DEF LInv

(* At rest the order says what LayersMatchState says. *)
LEMMA OrderAtRest ==
  ASSUME Types, NEW e \in End, EndInv(e), Quiet(e)
  PROVE  \/ txrx_state[e] = "ACTIVE" /\ enabled[e] = Layer
         \/ txrx_state[e] = "NOT_CONFIGURED" /\ enabled[e] = {}
<1>1. /\ todo[e]["timer2"] = <<>> /\ todo[e]["reactor"] = <<>> /\ timers[e] = <<>>
      /\ enabled[e] \in SUBSET Layer
  BY DEF Quiet, Thread, Types
<1>2. Orderly(<<>>, <<>>, <<>>, rrc_requests[e], txrx_state[e], enabled[e])
  BY <1>1 DEF EndInv
<1>3. QED
  BY <1>1, <1>2, AtRest

(***************************************************************************)
(* However many setups, losses, tries and failures there are, an end that  *)
(* comes to rest is ACTIVE with all its layers enabled or NOT_CONFIGURED   *)
(* with all disabled, if no failure is handled while an activation is      *)
(* under way: the reactor and timer2 leave no mixture of a change_txrx_    *)
(* state of the one and a set_enabled of the other.                        *)
(***************************************************************************)
THEOREM LayersMatchStateHolds ==
  ASSUME ~RlfDuringActivation
  PROVE  Spec => []LayersMatchState
<1>1. LInv => LayersMatchState
  BY OrderAtRest DEF LInv, LayersMatchState
<1>2. LInv /\ [Next]_vars => LInv'
  <2> SUFFICES ASSUME LInv, [Next]_vars PROVE LInv'
    OBVIOUS
  <2>1. ASSUME NEW e \in End, on_rrc_event(e), Head(rrc_events[e]).type = "rlf"
        PROVE  ~Activating(e)
    BY <2>1 DEF on_rrc_event
  <2>2. QED
    BY <2>1, OrderStep
<1>3. QED
  BY <1>1, <1>2, OrderInit, PTL DEF Spec
-----------------------------------------------------------------------------
(***************************************************************************)
(* An exchange without loss.  An end is engaged once it has left           *)
(* NOT_CONFIGURED or its reactor is about to make it leave that state, and *)
(* asked when a request is on its way to it.                               *)
(***************************************************************************)
Engages(op) == Sets(op, "CONFIGURED") \/ Sets(op, "CONFIGURING")
Engaged(e) ==
  txrx_state[e] # "NOT_CONFIGURED" \/ \E op \in Ops(todo[e]["reactor"]) : Engages(op)
Asked(e) ==
  \/ \E m \in air : m.to = e /\ m.type = "request"
  \/ \E event \in Ops(rrc_events[e]) : event.type = "request"

(***************************************************************************)
(* Without losses and failures a request that waits is on its way until it *)
(* is answered, so that no timer of it is taken by timer2 before.  timer2  *)
(* only activates, and what the reactor takes down it puts up again.       *)
(***************************************************************************)
NoFailure(e) == \A event \in Ops(rrc_events[e]) : event.type # "rlf"
OnItsWay(e) == \A i \in rrc_requests[e] : UnderWay(e, i)
Stale(e) ==
  /\ \A x \in Ops(timers[e]) \cup Ops(todo[e]["timer2"]) :
       x.op = "expire" => x.id < rrc_req_id[e]
  /\ \A x \in Ops(todo[e]["timer2"]) : x.op = "expire" => x.id \notin rrc_requests[e]
OnlyUp(e) == \A op \in Ops(todo[e]["timer2"]) : IsUp(op) \/ IsEntry(op)
Restores(s) ==
  \A k \in 1..Len(s) : Sets(s[k], "NOT_CONFIGURED") => \E j \in (k + 1)..Len(s) : Engages(s[j])

(* Who has sent a request is engaged, and so is or will be the other end. *)
Known(e) ==
  /\ (\E op \in Ops(todo[e]["reactor"]) : IsSend(op)) => Engaged(e)
  /\ rrc_req_id[e] > 0 => Engaged(e) /\ (Engaged(Peer(e)) \/ Asked(Peer(e)))

Exchange(e) ==
  /\ NoFailure(e) /\ OnItsWay(e) /\ Stale(e) /\ OnlyUp(e)
  /\ Restores(todo[e]["reactor"]) /\ Known(e)
Undisturbed == lost = 0 /\ NoRlf
XInv ==
  /\ Types /\ lost \in Nat /\ rlfs \in [End -> Nat]
  /\ Undisturbed => \A e \in End : EndInv(e) /\ Exchange(e)

(* UnderWay by what is on the air, queued at the two ends and still to do. *)
Travels(e, i, wire, mine, theirs, ops) ==
  \/ \E m \in wire : m.to = e /\ m.type = "response" /\ m.id = i
  \/ \E m \in wire : m.to = Peer(e) /\ m.type = "request" /\ m.id = i
  \/ \E x \in mine : x.type = "response" /\ x.id = i
  \/ \E x \in theirs : x.type = "request" /\ x.id = i
  \/ Respond(i) \in ops

(* The two mean the same, before a step ... *)
LEMMA UnderWayNow ==
  ASSUME Types, NEW e \in End, NEW i
  PROVE  UnderWay(e, i) <=> Travels(e, i, air, Ops(rrc_events[e]), Ops(rrc_events[Peer(e)]),
                                    Ops(todo[Peer(e)]["reactor"]))
<1>1. Peer(e) \in End
  BY PeerType
<1>2. DOMAIN rrc_events[e] = 1..Len(rrc_events[e])
      /\ DOMAIN rrc_events[Peer(e)] = 1..Len(rrc_events[Peer(e)])
  BY <1>1 DEF Types
<1>3. QED
  BY <1>2 DEF UnderWay, Travels, Contains, Ops

(* ... and after it. *)
LEMMA UnderWayThen ==
  ASSUME Types', NEW e \in End, NEW i
  PROVE  UnderWay(e, i)' <=> Travels(e, i, air', Ops(rrc_events'[e]), Ops(rrc_events'[Peer(e)]),
                                     Ops(todo'[Peer(e)]["reactor"]))
<1>1. Peer(e) \in End
  BY PeerType
<1>2. DOMAIN (rrc_events'[e]) = 1..Len(rrc_events'[e])
      /\ DOMAIN (rrc_events'[Peer(e)]) = 1..Len(rrc_events'[Peer(e)])
  BY <1>1 DEF Types
<1>3. QED
  BY <1>2 DEF UnderWay, Travels, Contains, Ops

(* The other station's other station. *)
LEMMA PeerPeer == ASSUME NEW e \in End, NEW x \in End PROVE x = e \/ (x = Peer(e) /\ Peer(x) = e)
<1>1. Peer(e) \in End /\ Peer(e) # e /\ Peer(x) \in End /\ Peer(x) # x
  BY PeerType
<1>2. QED
  BY <1>1, EndAssumption

(* A timer that is cancelled leaves no other timers than before. *)
LEMMA OpsCancelled ==
  ASSUME NEW S, NEW s \in Seq(S), NEW at \in SUBSET (DOMAIN s)
  PROVE  Ops(cancel(s, at)) \subseteq Ops(s)
<1>1. CASE at = {}
  BY <1>1 DEF cancel
<1>2. CASE at # {}
  <2> DEFINE i == CHOOSE k \in at : TRUE
             a == SubSeq(s, 1, i - 1)
             b == SubSeq(s, i + 1, Len(s))
  <2>1. i \in DOMAIN s
    BY <1>2
  <2>2. cancel(s, at) = a \o b
    BY <1>2 DEF cancel, RemoveAt
  <2> HIDE DEF i
  <2>3. Len(s) \in Nat /\ i \in 1..Len(s)
    BY <2>1
  <2>4. a \in Seq(S) /\ Len(a) = i - 1 /\ \A k \in 1..(i - 1) : a[k] = s[k]
    BY <2>3
  <2>5. b \in Seq(S) /\ Len(b) = Len(s) - i /\ \A k \in 1..(Len(s) - i) : b[k] = s[i + k]
    BY <2>3
  <2> HIDE DEF a, b
  <2>6. Ops(a) \subseteq Ops(s)
    <3>1. \A k \in 1..Len(a) : k \in 1..Len(s) /\ a[k] = s[k]
      BY <2>3, <2>4
    <3>2. QED
      BY <3>1 DEF Ops
  <2>7. Ops(b) \subseteq Ops(s)
    <3>1. \A k \in 1..Len(b) : i + k \in 1..Len(s) /\ b[k] = s[i + k]
      BY <2>3, <2>5
    <3>2. QED
      BY <3>1 DEF Ops
  <2>8. Ops(a \o b) = Ops(a) \cup Ops(b)
    BY <2>4, <2>5, OpsConcat
  <2>9. QED
    BY <2>2, <2>6, <2>7, <2>8
<1>3. QED
  BY <1>1, <1>2

(***************************************************************************)
(* What a step of timer2 does when it only activates: nothing but a change *)
(* to ACTIVE and layers that are enabled.                                  *)
(***************************************************************************)
LEMMA Timer2Effect ==
  ASSUME Types, NEW e \in End, EndInv(e), OnlyUp(e), Stale(e), Step(e, "timer2")
  PROVE  /\ UNCHANGED <<rrc_requests, timers, rrc_req_id, rrc_events, air, lost, rlfs>>
         /\ \A x \in End : x # e => todo'[x] = todo[x] /\ txrx_state'[x] = txrx_state[x]
         /\ todo'[e]["reactor"] = todo[e]["reactor"]
         /\ txrx_state'[e] \in {txrx_state[e], "ACTIVE"}
         /\ \A op \in Ops(todo'[e]["timer2"]) : op \in Ops(todo[e]["timer2"]) \/ IsUp(op)
<1> DEFINE t == "timer2"
           s == todo[e][t]
           h == Head(s)
<1>1. t \in Thread /\ "reactor" \in Thread /\ t # "reactor"
  BY DEF Thread
<1>2. ASSUME Then(e, t, <<>>), s # <<>>
      PROVE  /\ \A x \in End : x # e => todo'[x] = todo[x]
             /\ todo'[e]["reactor"] = todo[e]["reactor"]
             /\ \A op \in Ops(todo'[e][t]) : op \in Ops(s) \/ IsUp(op)
  <2>1. /\ todo'[e][t] = Tail(s) /\ \A u \in Thread : u # t => todo'[e][u] = todo[e][u]
        /\ \A x \in End : x # e => todo'[x] = todo[x]
    BY <1>1, <1>2, ThenNothing
  <2>2. s \in Seq(Op)
    BY <1>1 DEF Types
  <2>3. Ops(s) = {h} \cup Ops(Tail(s))
    BY <1>2, <2>2, OpsTail
  <2>4. QED
    BY <1>1, <2>1, <2>3
<1>3. ASSUME NEW name, Operation(e, t, name)
      PROVE  s # <<>> /\ h.op = name /\ h \in Op /\ h \in Ops(s)
  <2>1. s \in Seq(Op) /\ s # <<>> /\ h \in Op /\ h.op = name
    BY <1>1, <1>3, HeadType
  <2>2. QED
    BY <2>1, OpsTail
<1>4. \A op \in Ops(s) : IsUp(op) \/ IsEntry(op)
  BY DEF OnlyUp
<1>5. CASE change_txrx_state(e, t)
  <2>1. Then(e, t, <<>>) /\ s # <<>> /\ h.op = "change" /\ h \in Ops(s)
    BY <1>3, <1>5 DEF change_txrx_state
  <2>2. h.state = "ACTIVE"
    BY <1>4, <2>1 DEF IsUp, IsEntry, Sets
  <2>3. txrx_state'[e] = "ACTIVE" /\ \A x \in End : x # e => txrx_state'[x] = txrx_state[x]
    BY <1>5, <2>2 DEF change_txrx_state, Types
  <2>4. UNCHANGED <<rrc_requests, timers, rrc_req_id, rrc_events, air, lost, rlfs>>
    BY <1>5 DEF change_txrx_state, bounds
  <2>5. QED
    BY <1>2, <2>1, <2>3, <2>4
<1>6. CASE set_enabled(e, t)
  <2>1. Then(e, t, <<>>) /\ s # <<>>
    BY <1>3, <1>6 DEF set_enabled
  <2>2. UNCHANGED <<txrx_state, rrc_requests, timers, rrc_req_id, rrc_events, air, lost, rlfs>>
    BY <1>6 DEF set_enabled, bounds
  <2>3. QED
    BY <1>2, <2>1, <2>2
<1>7. CASE expiry_handler(e, t)
  <2>1. s # <<>> /\ h.op = "expire" /\ h \in Ops(s)
    BY <1>3, <1>7 DEF expiry_handler
  <2>2. h.id \notin rrc_requests[e]
    BY <2>1 DEF Stale
  <2>3. Then(e, t, <<>>) /\ rrc_requests' = [rrc_requests EXCEPT ![e] = @ \ {h.id}]
    BY <1>7, <2>2 DEF expiry_handler
  <2> HIDE DEF h
  <2>4. rrc_requests' = rrc_requests
    BY <2>2, <2>3 DEF Types
  <2>5. UNCHANGED <<txrx_state, timers, rrc_req_id, rrc_events, air, lost, rlfs>>
    BY <1>7 DEF expiry_handler, bounds
  <2>6. QED
    BY <1>2, <2>1, <2>3, <2>4, <2>5
<1>8. CASE activation_handler(e, t)
  <2>1. s # <<>> /\ s \in Seq(Op) /\ Then(e, t, activate)
    BY <1>1, <1>3, <1>8 DEF activation_handler, Types
  <2>2. /\ todo'[e][t] = activate \o Tail(s)
        /\ \A u \in Thread : u # t => todo'[e][u] = todo[e][u]
        /\ \A x \in End : x # e => todo'[x] = todo[x]
    BY <1>1, <2>1, OnActivation, ThenType
  <2>3. Ops(s) = {h} \cup Ops(Tail(s)) /\ Tail(s) \in Seq(Op)
    BY <2>1, OpsTail
  <2>4. Ops(activate \o Tail(s)) = Ops(activate) \cup Ops(Tail(s))
    <3> DEFINE q == Tail(s)
    <3>1. q \in Seq(Op)
      BY <2>3
    <3> HIDE DEF q
    <3>2. Ops(activate \o q) = Ops(activate) \cup Ops(q)
      BY <3>1, OnActivation, OpsConcat
    <3>3. QED
      BY <3>2 DEF q
  <2>5. \A op \in Ops(activate) : IsUp(op)
    BY OnActivation, Kinds DEF IsUp, Sets
  <2>6. UNCHANGED <<txrx_state, rrc_requests, timers, rrc_req_id, rrc_events, air, lost, rlfs>>
    BY <1>8 DEF activation_handler, lcrrc, bounds
  <2>7. QED
    BY <1>1, <2>2, <2>3, <2>4, <2>5, <2>6
<1>9. ~send_exchange_resp(e, t) /\ ~schedule_activate(e, t)
  BY <1>1, WhoDoesWhat DEF send_exchange_resp, schedule_activate
<1>10. ~auto_send_rrc(e, t)
  <2> SUFFICES ASSUME auto_send_rrc(e, t) PROVE FALSE
    OBVIOUS
  <2>1. h.op = "auto_send" /\ h \in Ops(s)
    BY <1>3 DEF auto_send_rrc
  <2>2. QED
    BY <1>4, <2>1 DEF IsUp, IsEntry, Sets
<1>11. QED
  BY <1>5, <1>6, <1>7, <1>8, <1>9, <1>10 DEF Step

(* What a step of the reactor does. *)
LEMMA ReactorEffect ==
  ASSUME Types, NEW e \in End, EndInv(e), Step(e, "reactor")
  PROVE  LET h == Head(todo[e]["reactor"])
             id == rrc_req_id[e]
         IN
         /\ todo[e]["reactor"] \in Seq(Op) /\ todo[e]["reactor"] # <<>> /\ h \in Op
         /\ UNCHANGED <<rrc_events, lost, rlfs>> /\ air \subseteq air'
         /\ \A x \in End : x # e =>
              /\ todo'[x] = todo[x] /\ txrx_state'[x] = txrx_state[x] /\ timers'[x] = timers[x]
              /\ rrc_requests'[x] = rrc_requests[x] /\ rrc_req_id'[x] = rrc_req_id[x]
         /\ todo'[e]["reactor"] = Tail(todo[e]["reactor"])
         /\ todo'[e]["timer2"] = todo[e]["timer2"]
         /\ txrx_state'[e] = IF h.op = "change" THEN h.state ELSE txrx_state[e]
         /\ h.op = "respond" => [to |-> Peer(e), type |-> "response", id |-> h.id] \in air'
         /\ h.op # "auto_send" =>
              /\ rrc_req_id'[e] = id /\ rrc_requests'[e] = rrc_requests[e]
              /\ Ops(timers'[e]) \subseteq Ops(timers[e]) \cup {Activation}
         /\ h.op = "auto_send" =>
              /\ rrc_req_id'[e] = id + 1 /\ rrc_requests'[e] = rrc_requests[e] \cup {id}
              /\ Ops(timers'[e]) = Ops(timers[e]) \cup {Expire(id, MaxRetry)}
              /\ [to |-> Peer(e), type |-> "request", id |-> id] \in air'
<1> DEFINE t == "reactor"
           s == todo[e][t]
           h == Head(s)
           id == rrc_req_id[e]
<1> USE DEF Thread
<1>1. t \in Thread /\ "timer2" \in Thread /\ t # "timer2"
  OBVIOUS
<1>2. ASSUME Then(e, t, <<>>), s # <<>>
      PROVE  /\ \A x \in End : x # e => todo'[x] = todo[x]
             /\ todo'[e]["timer2"] = todo[e]["timer2"]
             /\ todo'[e][t] = Tail(s)
  BY <1>1, <1>2, ThenNothing
<1>3. ASSUME NEW name, Operation(e, t, name)
      PROVE  s \in Seq(Op) /\ s # <<>> /\ h.op = name /\ h \in Op
  BY <1>1, <1>3, HeadType
<1>4. CASE change_txrx_state(e, t)
  <2>1. Then(e, t, <<>>) /\ s \in Seq(Op) /\ s # <<>> /\ h.op = "change" /\ h \in Op
    BY <1>3, <1>4 DEF change_txrx_state
  <2>2. txrx_state'[e] = h.state /\ \A x \in End : x # e => txrx_state'[x] = txrx_state[x]
    BY <1>4 DEF change_txrx_state, Types
  <2>3. UNCHANGED <<rrc_requests, timers, rrc_req_id, rrc_events, air, lost, rlfs>>
    BY <1>4 DEF change_txrx_state, bounds
  <2>4. QED
    BY <1>2, <2>1, <2>2, <2>3
<1>5. CASE set_enabled(e, t)
  <2>1. Then(e, t, <<>>) /\ s \in Seq(Op) /\ s # <<>> /\ h.op \in {"enable", "disable"} /\ h \in Op
    BY <1>3, <1>5 DEF set_enabled
  <2>2. UNCHANGED <<txrx_state, rrc_requests, timers, rrc_req_id, rrc_events, air, lost, rlfs>>
    BY <1>5 DEF set_enabled, bounds
  <2>3. QED
    BY <1>2, <2>1, <2>2
<1>6. CASE send_exchange_resp(e, t)
  <2>1. Then(e, t, <<>>) /\ s \in Seq(Op) /\ s # <<>> /\ h.op = "respond" /\ h \in Op
    BY <1>3, <1>6 DEF send_exchange_resp
  <2>2. /\ UNCHANGED <<txrx_state, rrc_requests, timers, rrc_req_id, rrc_events, lost, rlfs>>
        /\ air' = air \cup {[to |-> Peer(e), type |-> "response", id |-> h.id]}
    BY <1>6 DEF send_exchange_resp, lcrrc, bounds
  <2>3. QED
    BY <1>2, <2>1, <2>2
<1>7. CASE schedule_activate(e, t)
  <2> DEFINE at == {i \in DOMAIN timers[e] : timers[e][i] = Activation}
             c == cancel(timers[e], at)
  <2>1. Then(e, t, <<>>) /\ s \in Seq(Op) /\ s # <<>> /\ h.op = "schedule_activate" /\ h \in Op
    BY <1>3, <1>7 DEF schedule_activate
  <2>2. /\ UNCHANGED <<txrx_state, rrc_requests, rrc_req_id, rrc_events, air, lost, rlfs>>
        /\ timers' = [timers EXCEPT ![e] = Append(c, Activation)]
    BY <1>7 DEF schedule_activate, bounds
  <2>3. timers[e] \in Seq(Entry) /\ at \in SUBSET (DOMAIN timers[e])
    BY DEF Types
  <2> HIDE DEF at
  <2>4. c \in Seq(Entry) /\ Ops(c) \subseteq Ops(timers[e])
    BY <2>3, OpsCancel, OpsCancelled
  <2> HIDE DEF c
  <2>5. Ops(Append(c, Activation)) = Ops(c) \cup {Activation}
    BY <2>4, OpsAreOps, OpsAppend
  <2>6. /\ timers'[e] = Append(c, Activation)
        /\ \A x \in End : x # e => timers'[x] = timers[x]
    BY <2>2 DEF Types
  <2>7. Ops(timers'[e]) \subseteq Ops(timers[e]) \cup {Activation}
    BY <2>4, <2>5, <2>6
  <2>8. QED
    BY <1>2, <2>1, <2>2, <2>6, <2>7
<1>8. CASE auto_send_rrc(e, t)
  <2>1. s \in Seq(Op) /\ s # <<>> /\ h.op = "auto_send" /\ h \in Op
    BY <1>3, <1>8 DEF auto_send_rrc
  <2>2. h.retry = MaxRetry /\ MaxRetry # 0 /\ MaxRetry \in Nat \ {0}
    BY <1>1, <1>8, WhoDoesWhat, BoundAssumption DEF auto_send_rrc
  <2>3. /\ Then(e, t, <<>>)
        /\ timers' = [timers EXCEPT ![e] = Append(@, Expire(id, MaxRetry))]
        /\ rrc_requests' = [rrc_requests EXCEPT ![e] = @ \cup {id}]
        /\ air' = air \cup OnTheAir(e, MaxRetry, id)
        /\ rrc_req_id' = [rrc_req_id EXCEPT ![e] = @ + 1]
        /\ UNCHANGED <<txrx_state, rrc_events, lost, rlfs>>
    BY <1>8, <2>2 DEF auto_send_rrc, allocate_req_id, bounds
  <2>4. id \in Nat /\ timers[e] \in Seq(Entry)
    BY DEF Types
  <2>5. Expire(id, MaxRetry) \in Entry
    BY <2>2, <2>4, OpsAreOps
  <2>6. Ops(Append(timers[e], Expire(id, MaxRetry))) = Ops(timers[e]) \cup {Expire(id, MaxRetry)}
    <3> DEFINE x0 == Expire(id, MaxRetry)
    <3>1. x0 \in Entry
      BY <2>5
    <3> HIDE DEF x0
    <3>2. Ops(Append(timers[e], x0)) = Ops(timers[e]) \cup {x0}
      BY <2>4, <3>1, OpsAppend
    <3>3. QED
      BY <3>2 DEF x0
  <2>7. /\ timers'[e] = Append(timers[e], Expire(id, MaxRetry))
        /\ rrc_requests'[e] = rrc_requests[e] \cup {id} /\ rrc_req_id'[e] = id + 1
        /\ \A x \in End : x # e => /\ timers'[x] = timers[x] /\ rrc_requests'[x] = rrc_requests[x]
                                   /\ rrc_req_id'[x] = rrc_req_id[x]
    BY <2>3 DEF Types
  <2>8. air \subseteq air' /\ [to |-> Peer(e), type |-> "request", id |-> id] \in air'
    BY <2>3 DEF OnTheAir
  <2>9. QED
    BY <1>2, <2>1, <2>3, <2>6, <2>7, <2>8
<1>9. ~expiry_handler(e, t) /\ ~activation_handler(e, t)
  BY <1>1, WhoDoesWhat DEF expiry_handler, activation_handler
<1>10. QED
  BY <1>4, <1>5, <1>6, <1>7, <1>8, <1>9 DEF Step
-----------------------------------------------------------------------------
(* What is left of a handler still restores what it takes down. *)
LEMMA RestoresTail ==
  ASSUME NEW s \in Seq(Op), s # <<>>, Restores(s)
  PROVE  /\ Restores(Tail(s))
         /\ Sets(Head(s), "NOT_CONFIGURED") => \E op \in Ops(Tail(s)) : Engages(op)
<1> DEFINE q == Tail(s)
<1>1. /\ Head(s) = s[1] /\ Len(s) \in Nat \ {0} /\ Len(q) = Len(s) - 1 /\ q \in Seq(Op)
      /\ \A k \in 1..Len(q) : k + 1 \in 2..Len(s) /\ q[k] = s[k + 1]
  BY OpsTail
<1> HIDE DEF q
<1>2. ASSUME NEW k \in 1..Len(s), Sets(s[k], "NOT_CONFIGURED")
      PROVE  \E j \in k..Len(q) : Engages(q[j])
  <2>1. PICK j \in (k + 1)..Len(s) : Engages(s[j])
    BY <1>2 DEF Restores
  <2>2. j - 1 \in k..Len(q) /\ j - 1 \in 1..Len(q) /\ (j - 1) + 1 = j
    BY <1>1, <2>1
  <2>3. q[j - 1] = s[(j - 1) + 1]
    BY <1>1, <2>2
  <2>4. QED
    BY <2>1, <2>2, <2>3
<1>3. Restores(q)
  <2> SUFFICES ASSUME NEW k \in 1..Len(q), Sets(q[k], "NOT_CONFIGURED")
               PROVE  \E j \in (k + 1)..Len(q) : Engages(q[j])
    BY DEF Restores
  <2>1. k + 1 \in 1..Len(s) /\ Sets(s[k + 1], "NOT_CONFIGURED")
    BY <1>1
  <2>2. QED
    BY <1>2, <2>1
<1>4. Sets(Head(s), "NOT_CONFIGURED") => \E op \in Ops(q) : Engages(op)
  <2> SUFFICES ASSUME Sets(Head(s), "NOT_CONFIGURED")
               PROVE  \E op \in Ops(q) : Engages(op)
    OBVIOUS
  <2>1. 1 \in 1..Len(s) /\ Sets(s[1], "NOT_CONFIGURED")
    BY <1>1
  <2>2. \E j \in 1..Len(q) : Engages(q[j])
    BY <1>2, <2>1
  <2>3. QED
    BY <2>2 DEF Ops
<1>5. QED
  BY <1>3, <1>4 DEF q

(* A handler that ends with a change to CONFIGURED restores everything. *)
LEMMA RestoresThen ==
  ASSUME NEW a \in Seq(Op), NEW b \in Seq(Op),
         Restores(b), \E op \in Ops(b) : Engages(op)
  PROVE  Restores(a \o b) /\ \E op \in Ops(a \o b) : Engages(op)
<1> DEFINE c == a \o b
<1>1. /\ c \in Seq(Op) /\ Len(c) = Len(a) + Len(b) /\ Len(a) \in Nat /\ Len(b) \in Nat
      /\ \A k \in (Len(a) + 1)..(Len(a) + Len(b)) : k - Len(a) \in 1..Len(b) /\ c[k] = b[k - Len(a)]
      /\ Ops(c) = Ops(a) \cup Ops(b)
  BY OpsConcat
<1> HIDE DEF c
<1>2. ASSUME NEW i \in 0..Len(b), NEW j \in (i + 1)..Len(b)
      PROVE  /\ Len(a) + j \in (Len(a) + i + 1)..Len(c) /\ c[Len(a) + j] = b[j]
  <2>1. /\ Len(a) + j \in (Len(a) + i + 1)..Len(c) /\ (Len(a) + j) - Len(a) = j
        /\ Len(a) + j \in (Len(a) + 1)..(Len(a) + Len(b))
    BY <1>1
  <2>2. c[Len(a) + j] = b[(Len(a) + j) - Len(a)]
    BY <1>1, <2>1
  <2>3. QED
    BY <2>1, <2>2
<1>3. ASSUME NEW k \in 1..Len(c), Sets(c[k], "NOT_CONFIGURED")
      PROVE  \E j \in (k + 1)..Len(c) : Engages(c[j])
  <2>1. CASE k <= Len(a)
    <3>1. PICK j \in 1..Len(b) : Engages(b[j])
      BY DEF Ops
    <3>2. 0 \in 0..Len(b) /\ j \in (0 + 1)..Len(b)
      BY <1>1, <3>1
    <3>3. Len(a) + j \in (Len(a) + 0 + 1)..Len(c) /\ c[Len(a) + j] = b[j]
      BY <1>2, <3>2
    <3>4. Len(a) + j \in (k + 1)..Len(c)
      BY <1>1, <2>1, <3>3
    <3>5. QED
      BY <3>1, <3>3, <3>4
  <2>2. CASE k > Len(a)
    <3>1. k - Len(a) \in 1..Len(b) /\ c[k] = b[k - Len(a)]
      BY <1>1, <2>2
    <3>2. PICK j \in (k - Len(a) + 1)..Len(b) : Engages(b[j])
      BY <1>3, <3>1 DEF Restores
    <3>3. k - Len(a) \in 0..Len(b)
      BY <1>1, <3>1
    <3>4. Len(a) + j \in (Len(a) + (k - Len(a)) + 1)..Len(c) /\ c[Len(a) + j] = b[j]
      BY <1>2, <3>2, <3>3
    <3>5. Len(a) + j \in (k + 1)..Len(c)
      BY <1>1, <3>4
    <3>6. QED
      BY <3>2, <3>4, <3>5
  <2>3. QED
    BY <1>1, <2>1, <2>2
<1>4. QED
  BY <1>1, <1>3 DEF Restores, c

(* The handlers of the events but on_rlf. *)
LEMMA HandlersRestore ==
  ASSUME NEW e, NEW i \in Nat, NEW forced
  PROVE  /\ Restores(<<>>)
         /\ Restores(on_exchange_request(e, i))
         /\ \E op \in Ops(on_exchange_request(e, i)) : Engages(op)
         /\ Respond(i) \in Ops(on_exchange_request(e, i))
         /\ Restores(on_exchange_response)
         /\ \E op \in Ops(on_exchange_response) : Engages(op)
         /\ Restores(on_init(e, forced))
         /\ on_init(e, forced) # <<>> => \E op \in Ops(on_init(e, forced)) : Engages(op)
<1> DEFINE first == IF txrx_state[e] = "ACTIVE" THEN on_rlf ELSE <<>>
           last == <<Change("CONFIGURED"), Respond(i), ScheduleActivate>>
           tail2 == <<Change("CONFIGURED"), ScheduleActivate>>
           init == <<Change("CONFIGURING"), AutoSend(MaxRetry)>>
<1>1. Restores(<<>>)
  BY DEF Restores
<1>2. first \in Seq(Op)
  <2>1. on_rlf \in Seq(Op)
    BY OnRlf
  <2>2. <<>> \in Seq(Op)
    OBVIOUS
  <2>3. QED
    BY <2>1, <2>2
<1>3. reconfigure_rx \in Seq(Op) /\ last \in Seq(Op) /\ tail2 \in Seq(Op) /\ init \in Seq(Op)
  BY ReactorParts
<1>4. /\ Len(last) = 3 /\ last[1] = Change("CONFIGURED") /\ last[2] = Respond(i)
      /\ last[3] = ScheduleActivate
      /\ Len(tail2) = 2 /\ tail2[1] = Change("CONFIGURED") /\ tail2[2] = ScheduleActivate
      /\ Len(init) = 2 /\ init[1] = Change("CONFIGURING") /\ init[2] = AutoSend(MaxRetry)
  OBVIOUS
<1>5. 1..2 = {1, 2} /\ 1..3 = {1, 2, 3}
  OBVIOUS
<1>6. on_exchange_request(e, i) = (first \o reconfigure_rx) \o last
      /\ on_exchange_response = reconfigure_rx \o tail2
  BY DEF on_exchange_request, on_exchange_response
<1>7. on_init(e, forced) = <<>> \/ on_init(e, forced) = init
  BY DEF on_init
<1> HIDE DEF first, last, tail2, init
<1>8. Restores(last) /\ (\E op \in Ops(last) : Engages(op)) /\ Respond(i) \in Ops(last)
  BY <1>4, <1>5, Kinds DEF Restores, Ops, Engages, Sets
<1>9. Restores(tail2) /\ \E op \in Ops(tail2) : Engages(op)
  BY <1>4, <1>5, Kinds DEF Restores, Ops, Engages, Sets
<1>10. Restores(init) /\ \E op \in Ops(init) : Engages(op)
  BY <1>4, <1>5, Kinds DEF Restores, Ops, Engages, Sets
<1> DEFINE a == first \o reconfigure_rx
<1>11. a \in Seq(Op)
  BY <1>2, <1>3, OpsConcat
<1> HIDE DEF a
<1>12. /\ Restores(a \o last) /\ (\E op \in Ops(a \o last) : Engages(op))
       /\ Respond(i) \in Ops(a \o last)
  <2>1. Ops(a \o last) = Ops(a) \cup Ops(last)
    BY <1>3, <1>11, OpsConcat
  <2>2. QED
    BY <1>3, <1>8, <1>11, <2>1, RestoresThen
<1>13. Restores(reconfigure_rx \o tail2) /\ \E op \in Ops(reconfigure_rx \o tail2) : Engages(op)
  BY <1>3, <1>9, RestoresThen
<1>14. QED
  BY <1>1, <1>6, <1>7, <1>10, <1>12, <1>13 DEF a
-----------------------------------------------------------------------------
(* What a step has to keep so that both ends stay engaged or asked ... *)
LEMMA KnownKept ==
  ASSUME NEW x \in End, Known(x), rrc_req_id'[x] = rrc_req_id[x],
         Engaged(x) => Engaged(x)',
         (\E op \in Ops(todo'[x]["reactor"]) : IsSend(op)) => Engaged(x)',
         Engaged(Peer(x)) \/ Asked(Peer(x)) => Engaged(Peer(x))' \/ Asked(Peer(x))'
  PROVE  Known(x)'
<1>1. rrc_req_id'[x] > 0 => Engaged(x)' /\ (Engaged(Peer(x))' \/ Asked(Peer(x))')
  BY DEF Known
<1>2. QED
  BY <1>1 DEF Known

(* ... and the requests on their way. *)
LEMMA OnItsWayKept ==
  ASSUME Types, Types', NEW x \in End, OnItsWay(x), rrc_requests'[x] \subseteq rrc_requests[x],
         \A i \in rrc_requests'[x] :
           Travels(x, i, air, Ops(rrc_events[x]), Ops(rrc_events[Peer(x)]),
                   Ops(todo[Peer(x)]["reactor"]))
             => Travels(x, i, air', Ops(rrc_events'[x]), Ops(rrc_events'[Peer(x)]),
                        Ops(todo'[Peer(x)]["reactor"]))
  PROVE  OnItsWay(x)'
<1>1. ASSUME NEW i \in rrc_requests'[x] PROVE UnderWay(x, i)'
  <2>1. UnderWay(x, i)
    BY DEF OnItsWay
  <2>2. Travels(x, i, air, Ops(rrc_events[x]), Ops(rrc_events[Peer(x)]),
                Ops(todo[Peer(x)]["reactor"]))
    BY <2>1, UnderWayNow
  <2>3. QED
    BY <2>2, UnderWayThen
<1>2. QED
  BY <1>1 DEF OnItsWay

(* timer2 does not disturb an exchange. *)
LEMMA Timer2Exchange ==
  ASSUME Types, Types', NEW e \in End, EndInv(e), \A x \in End : Exchange(x), Step(e, "timer2")
  PROVE  \A x \in End : Exchange(x)'
<1>1. OnlyUp(e) /\ Stale(e)
  BY DEF Exchange
<1>2. /\ UNCHANGED <<rrc_requests, timers, rrc_req_id, rrc_events, air>>
      /\ \A x \in End : x # e => todo'[x] = todo[x] /\ txrx_state'[x] = txrx_state[x]
      /\ todo'[e]["reactor"] = todo[e]["reactor"]
      /\ txrx_state'[e] \in {txrx_state[e], "ACTIVE"}
      /\ \A op \in Ops(todo'[e]["timer2"]) : op \in Ops(todo[e]["timer2"]) \/ IsUp(op)
  BY <1>1, Timer2Effect
<1>3. \A x \in End : todo'[x]["reactor"] = todo[x]["reactor"]
  BY <1>2
<1>4. \A x \in End : Peer(x) \in End
  BY PeerType
<1>5. \A x \in End : Engaged(x) => Engaged(x)'
  BY <1>2, <1>3 DEF Engaged
<1>6. \A x \in End : Asked(x) => Asked(x)'
  BY <1>2 DEF Asked
<1>7. \A x \in End : \A op \in Ops(todo'[x]["timer2"]) : op \in Ops(todo[x]["timer2"]) \/ IsUp(op)
  BY <1>2
<1>8. ASSUME NEW x \in End PROVE Exchange(x)'
  <2>1. NoFailure(x) /\ OnItsWay(x) /\ Stale(x) /\ OnlyUp(x) /\ Restores(todo[x]["reactor"]) /\ Known(x)
    BY DEF Exchange
  <2>2. NoFailure(x)'
    BY <1>2, <2>1 DEF NoFailure
  <2>3. OnItsWay(x)'
    BY <1>2, <1>3, <1>4, <2>1, OnItsWayKept
  <2>4. Stale(x)'
    BY <1>2, <1>7, <2>1 DEF Stale, IsUp, Sets
  <2>5. OnlyUp(x)'
    BY <1>7, <2>1 DEF OnlyUp
  <2>6. Restores(todo'[x]["reactor"])
    BY <1>3, <2>1
  <2>7. (\E op \in Ops(todo'[x]["reactor"]) : IsSend(op)) => Engaged(x)'
    BY <1>3, <1>5, <2>1 DEF Known
  <2>8. Known(x)'
    BY <1>2, <1>4, <1>5, <1>6, <2>1, <2>7, KnownKept
  <2>9. QED
    BY <2>2, <2>3, <2>4, <2>5, <2>6, <2>8 DEF Exchange
<1>9. QED
  BY <1>8

(* Nor does the reactor: what it answers or sends is on its way. *)
LEMMA ReactorExchange ==
  ASSUME Types, Types', NEW e \in End, EndInv(e), \A x \in End : Exchange(x), Step(e, "reactor")
  PROVE  \A x \in End : Exchange(x)'
<1> DEFINE s == todo[e]["reactor"]
           q == Tail(s)
           h == Head(s)
           id == rrc_req_id[e]
<1>1. /\ s \in Seq(Op) /\ s # <<>> /\ h \in Op
      /\ UNCHANGED rrc_events /\ air \subseteq air'
      /\ \A x \in End : x # e =>
           /\ todo'[x] = todo[x] /\ txrx_state'[x] = txrx_state[x] /\ timers'[x] = timers[x]
           /\ rrc_requests'[x] = rrc_requests[x] /\ rrc_req_id'[x] = rrc_req_id[x]
      /\ todo'[e]["reactor"] = q /\ todo'[e]["timer2"] = todo[e]["timer2"]
      /\ txrx_state'[e] = IF h.op = "change" THEN h.state ELSE txrx_state[e]
      /\ h.op = "respond" => [to |-> Peer(e), type |-> "response", id |-> h.id] \in air'
      /\ h.op # "auto_send" =>
           /\ rrc_req_id'[e] = id /\ rrc_requests'[e] = rrc_requests[e]
           /\ Ops(timers'[e]) \subseteq Ops(timers[e]) \cup {Activation}
      /\ h.op = "auto_send" =>
           /\ rrc_req_id'[e] = id + 1 /\ rrc_requests'[e] = rrc_requests[e] \cup {id}
           /\ Ops(timers'[e]) = Ops(timers[e]) \cup {Expire(id, MaxRetry)}
           /\ [to |-> Peer(e), type |-> "request", id |-> id] \in air'
  BY ReactorEffect
<1>2. Restores(s) /\ Known(e) /\ Stale(e)
  BY DEF Exchange
<1>3. /\ Ops(s) = {h} \cup Ops(q) /\ Restores(q)
      /\ Sets(h, "NOT_CONFIGURED") => \E op \in Ops(q) : Engages(op)
  BY <1>1, <1>2, OpsTail, RestoresTail
<1>4. id \in Nat /\ timers[e] \in Seq(Entry) /\ todo[e]["timer2"] \in Seq(Op)
  BY DEF Types, Thread
<1>5. \A x \in Ops(timers[e]) \cup Ops(todo[e]["timer2"]) : x \in Op
  BY <1>4, OpsAreOps DEF Ops
<1>6. \A x \in End : Peer(x) \in End /\ Peer(x) # x /\ (x = e \/ (x = Peer(e) /\ Peer(x) = e))
  BY PeerType, PeerPeer
<1> HIDE DEF h, q, id
<1>7. ASSUME NEW x \in End, Engaged(x) PROVE Engaged(x)'
  <2>1. CASE x # e
    BY <1>1, <1>7, <2>1 DEF Engaged
  <2>2. CASE x = e /\ \E op \in Ops(q) : Engages(op)
    BY <1>1, <2>2 DEF Engaged
  <2>3. CASE x = e /\ \A op \in Ops(q) : ~Engages(op)
    <3>1. CASE Engages(h)
      BY <1>1, <2>3, <3>1 DEF Engaged, Engages, Sets
    <3>2. CASE ~Engages(h)
      <4>1. txrx_state[e] # "NOT_CONFIGURED"
        BY <1>3, <1>7, <2>3, <3>2 DEF Engaged
      <4>2. h.op = "change" => h.state # "NOT_CONFIGURED"
        BY <1>3, <2>3 DEF Sets
      <4>3. QED
        BY <1>1, <2>3, <4>1, <4>2 DEF Engaged
    <3>3. QED
      BY <3>1, <3>2
  <2>4. QED
    BY <2>1, <2>2, <2>3
<1>8. \A x \in End : Asked(x) => Asked(x)'
  BY <1>1 DEF Asked
<1>9. ASSUME NEW x \in End PROVE Known(x)'
  <2>1. Known(x)
    BY DEF Exchange
  <2>2. (\E op \in Ops(todo'[x]["reactor"]) : IsSend(op)) => Engaged(x)'
    <3>1. Ops(todo'[x]["reactor"]) \subseteq Ops(todo[x]["reactor"])
      BY <1>1, <1>3
    <3>2. QED
      BY <1>7, <2>1, <3>1 DEF Known
  <2>3. Engaged(Peer(x)) \/ Asked(Peer(x)) => Engaged(Peer(x))' \/ Asked(Peer(x))'
    BY <1>6, <1>7, <1>8
  <2>4. CASE x # e \/ h.op # "auto_send"
    <3>1. rrc_req_id'[x] = rrc_req_id[x]
      BY <1>1, <2>4 DEF id
    <3>2. QED
      BY <1>7, <2>1, <2>2, <2>3, <3>1, KnownKept
  <2>5. CASE x = e /\ h.op = "auto_send"
    <3>1. Engaged(e)'
      BY <1>2, <1>3, <1>7, <2>5 DEF Known, IsSend
    <3>2. Asked(Peer(e))'
      BY <1>1, <2>5 DEF Asked
    <3>3. QED
      BY <2>5, <3>1, <3>2 DEF Known
  <2>6. QED
    BY <2>4, <2>5
<1>10. ASSUME NEW x \in End PROVE OnItsWay(x)'
  <2>1. OnItsWay(x)
    BY DEF Exchange
  <2>2. ASSUME NEW i,
               Travels(x, i, air, Ops(rrc_events[x]), Ops(rrc_events[Peer(x)]),
                       Ops(todo[Peer(x)]["reactor"]))
        PROVE  Travels(x, i, air', Ops(rrc_events'[x]), Ops(rrc_events'[Peer(x)]),
                       Ops(todo'[Peer(x)]["reactor"]))
    <3>1. CASE x = e
      BY <1>1, <1>6, <2>2, <3>1 DEF Travels
    <3>2. CASE x # e
      <4>1. x = Peer(e) /\ Peer(x) = e
        BY <1>6, <3>2
      <4>2. CASE h = Respond(i)
        <5>1. h.op = "respond" /\ h.id = i
          BY <4>2, Kinds
        <5>2. [to |-> x, type |-> "response", id |-> i] \in air'
          BY <1>1, <4>1, <5>1
        <5>3. QED
          BY <5>2 DEF Travels
      <4>3. CASE h # Respond(i)
        BY <1>1, <1>3, <2>2, <4>1, <4>3 DEF Travels
      <4>4. QED
        BY <4>2, <4>3
    <3>3. QED
      BY <3>1, <3>2
  <2>3. CASE x # e \/ h.op # "auto_send"
    <3>1. rrc_requests'[x] \subseteq rrc_requests[x]
      BY <1>1, <2>3
    <3>2. QED
      BY <2>1, <2>2, <3>1, OnItsWayKept
  <2>4. CASE x = e /\ h.op = "auto_send"
    <3>1. ASSUME NEW i \in rrc_requests'[e] PROVE UnderWay(e, i)'
      <4>1. CASE i \in rrc_requests[e]
        <5>1. UnderWay(e, i)
          BY <2>1, <2>4, <4>1 DEF OnItsWay
        <5>2. QED
          BY <2>2, <2>4, <5>1, UnderWayNow, UnderWayThen
      <4>2. CASE i = id
        <5>1. [to |-> Peer(e), type |-> "request", id |-> i] \in air'
          BY <1>1, <2>4, <4>2
        <5>2. Travels(e, i, air', Ops(rrc_events'[e]), Ops(rrc_events'[Peer(e)]),
                      Ops(todo'[Peer(e)]["reactor"]))
          BY <5>1 DEF Travels
        <5>3. QED
          BY <5>2, UnderWayThen
      <4>3. QED
        BY <1>1, <2>4, <4>1, <4>2
    <3>2. QED
      BY <2>4, <3>1 DEF OnItsWay
  <2>5. QED
    BY <2>3, <2>4
<1>11. ASSUME NEW x \in End PROVE Stale(x)'
  <2>1. CASE x # e
    <3>1. Stale(x)
      BY DEF Exchange
    <3>2. QED
      BY <1>1, <2>1, <3>1 DEF Stale
  <2>2. CASE x = e /\ h.op # "auto_send"
    BY <1>1, <1>2, <2>2, Kinds DEF Stale, id
  <2>3. CASE x = e /\ h.op = "auto_send"
    <3>1. \A y \in Ops(timers[e]) \cup Ops(todo[e]["timer2"]) :
             y.op = "expire" => y.id \in Nat /\ y.id < id
      BY <1>2, <1>5, OpKinds DEF Stale, id
    <3>2. \A y \in Ops(timers'[e]) \cup Ops(todo'[e]["timer2"]) :
             y \in Ops(timers[e]) \cup Ops(todo[e]["timer2"]) \/ y = Expire(id, MaxRetry)
      BY <1>1, <2>3
    <3>3. Expire(id, MaxRetry).id = id
      BY Kinds
    <3>4. \A y \in Ops(timers'[e]) \cup Ops(todo'[e]["timer2"]) : y.op = "expire" => y.id < id + 1
      BY <1>4, <3>1, <3>2, <3>3
    <3>5. \A y \in Ops(todo'[e]["timer2"]) : y.op = "expire" => y.id \notin rrc_requests[e] /\ y.id # id
      BY <1>1, <1>2, <1>4, <3>1 DEF Stale
    <3>6. QED
      BY <1>1, <2>3, <3>4, <3>5 DEF Stale
  <2>4. QED
    BY <2>1, <2>2, <2>3
<1>12. ASSUME NEW x \in End PROVE Exchange(x)'
  <2>1. NoFailure(x) /\ OnlyUp(x) /\ Restores(todo[x]["reactor"])
    BY DEF Exchange
  <2>2. NoFailure(x)' /\ OnlyUp(x)'
    BY <1>1, <2>1 DEF NoFailure, OnlyUp
  <2>3. Restores(todo'[x]["reactor"])
    BY <1>1, <1>3, <2>1
  <2>4. QED
    BY <1>9, <1>10, <1>11, <2>2, <2>3 DEF Exchange
<1>13. QED
  BY <1>12

(* timer2 takes no timer of a request that waits, unless an answer is late. *)
LEMMA ScheduleExchange ==
  ASSUME Types, Types', NEW e \in End, \A x \in End : Exchange(x), schedule(e),
         lost \in Nat, lost' = 0
  PROVE  \A x \in End : Exchange(x)'
<1> DEFINE s == timers[e]
<1>0. lost' # lost + 1
  OBVIOUS
<1>1. PICK n \in 1..Len(s) :
        /\ \A k \in 1..n : s[k].op = "expire" => ~UnderWay(e, s[k].id)
        /\ todo' = [todo EXCEPT ![e]["timer2"] = SubSeq(s, 1, n)]
        /\ timers' = [timers EXCEPT ![e] = SubSeq(s, n + 1, Len(s))]
  BY <1>0 DEF schedule, TooLate
<1> DEFINE a == SubSeq(s, 1, n)
           b == SubSeq(s, n + 1, Len(s))
<1>2. UNCHANGED <<txrx_state, rrc_requests, rrc_req_id, rrc_events, air>>
  BY DEF schedule
<1>3. s \in Seq(Entry) /\ Len(s) \in Nat
  BY DEF Types
<1>4. Len(a) = n /\ \A k \in 1..n : a[k] = s[k]
  BY <1>3
<1>5. a \in Seq(Entry) /\ b \in Seq(Entry) /\ Ops(a) \cup Ops(b) = Ops(s)
  BY <1>3, OpsSplit
<1>6. todo' = [todo EXCEPT ![e]["timer2"] = a] /\ timers' = [timers EXCEPT ![e] = b]
  BY <1>1
<1> HIDE DEF a, b
<1>7. /\ todo'[e]["timer2"] = a /\ timers'[e] = b
      /\ \A x \in End : todo'[x]["reactor"] = todo[x]["reactor"]
      /\ \A x \in End : x # e => todo'[x] = todo[x] /\ timers'[x] = timers[x]
  BY <1>6 DEF Types, Thread
<1>8. \A y \in Ops(a) : y.op = "expire" => ~UnderWay(e, y.id)
  BY <1>1, <1>4 DEF Ops
<1>9. \A y \in Ops(a) : IsEntry(y)
  BY <1>5, EntryKinds DEF Ops
<1>10. \A x \in End : Peer(x) \in End
  BY PeerType
<1>11. \A x \in End : (Engaged(x) => Engaged(x)') /\ (Asked(x) => Asked(x)')
  BY <1>2, <1>7 DEF Engaged, Asked
<1>12. ASSUME NEW x \in End PROVE Exchange(x)'
  <2>1. NoFailure(x) /\ OnItsWay(x) /\ Stale(x) /\ OnlyUp(x) /\ Restores(todo[x]["reactor"]) /\ Known(x)
    BY DEF Exchange
  <2>2. NoFailure(x)'
    BY <1>2, <2>1 DEF NoFailure
  <2>3. OnItsWay(x)'
    BY <1>2, <1>7, <1>10, <2>1, OnItsWayKept
  <2>4. Stale(x)' /\ OnlyUp(x)'
    <3>1. CASE x # e
      BY <1>2, <1>7, <2>1, <3>1 DEF Stale, OnlyUp
    <3>2. CASE x = e
      <4>1. \A y \in Ops(a) : y.op = "expire" => y.id \notin rrc_requests[e]
        BY <1>8, <2>1, <3>2 DEF OnItsWay
      <4>2. \A y \in Ops(a) \cup Ops(b) : y.op = "expire" => y.id < rrc_req_id[e]
        BY <1>5, <2>1, <3>2 DEF Stale
      <4>3. QED
        BY <1>2, <1>7, <1>9, <3>2, <4>1, <4>2 DEF Stale, OnlyUp
    <3>3. QED
      BY <3>1, <3>2
  <2>5. Restores(todo'[x]["reactor"])
    BY <1>7, <2>1
  <2>6. (\E op \in Ops(todo'[x]["reactor"]) : IsSend(op)) => Engaged(x)'
    BY <1>7, <1>11, <2>1 DEF Known
  <2>7. Known(x)'
    BY <1>2, <1>10, <1>11, <2>1, <2>6, KnownKept
  <2>8. QED
    BY <2>2, <2>3, <2>4, <2>5, <2>7 DEF Exchange
<1>13. QED
  BY <1>12

(* What the reactor does with an event that is no failure. *)
LEMMA EventEffect ==
  ASSUME Types, Types', NEW e \in End, NoFailure(e), on_rrc_event(e)
  PROVE  LET event == Head(rrc_events[e])
             a == todo'[e]["reactor"]
         IN
         /\ UNCHANGED <<txrx_state, rrc_req_id, air, lost, rlfs>>
         /\ \A x \in End : x # e =>
              /\ todo'[x] = todo[x] /\ rrc_events'[x] = rrc_events[x]
              /\ rrc_requests'[x] = rrc_requests[x] /\ timers'[x] = timers[x]
         /\ Ops(rrc_events[e]) = {event} \cup Ops(rrc_events'[e])
         /\ Ops(todo[e]["reactor"]) = {} /\ todo'[e]["timer2"] = todo[e]["timer2"]
         /\ rrc_requests'[e] \subseteq rrc_requests[e] /\ Ops(timers'[e]) \subseteq Ops(timers[e])
         /\ event.type = "response" => event.id \notin rrc_requests'[e]
         /\ Restores(a) /\ (Ops(a) = {} \/ \E op \in Ops(a) : Engages(op))
         /\ event.type = "request" => Respond(event.id) \in Ops(a)
<1> DEFINE event == Head(rrc_events[e])
           q == Tail(rrc_events[e])
<1>1. /\ todo[e]["reactor"] = <<>> /\ rrc_events[e] # <<>> /\ rrc_events[e] \in Seq(Event)
      /\ UNCHANGED <<txrx_state, rrc_req_id, air, lost, rlfs>>
      /\ rrc_events' = [rrc_events EXCEPT ![e] = q]
  BY DEF on_rrc_event, Types, bounds
<1>2. event \in Event /\ Ops(rrc_events[e]) = {event} \cup Ops(q)
  BY <1>1, OpsTail
<1>3. event.type \in {"request", "response"} => event.id \in Nat
  BY <1>2 DEF Event, Message
<1>4. event.type # "rlf"
  BY <1>2 DEF NoFailure
<1> HIDE DEF q
<1>5. rrc_events'[e] = q /\ \A x \in End : x # e => rrc_events'[x] = rrc_events[x]
  BY <1>1 DEF Types
<1>6. ASSUME NEW a, Handle(e, a)
      PROVE  /\ todo'[e]["reactor"] = a /\ todo'[e]["timer2"] = todo[e]["timer2"]
             /\ \A x \in End : x # e => todo'[x] = todo[x]
  BY <1>6 DEF Handle, Types, Thread
<1>7. Ops(todo[e]["reactor"]) = {}
  BY <1>1, OpsNone
<1>8. CASE event.type = "request" /\ Handle(e, on_exchange_request(e, event.id))
           /\ UNCHANGED <<rrc_requests, timers>>
  <2> DEFINE a == on_exchange_request(e, event.id)
  <2>1. Restores(a) /\ (\E op \in Ops(a) : Engages(op)) /\ Respond(event.id) \in Ops(a)
    BY <1>3, <1>8, HandlersRestore
  <2> HIDE DEF a
  <2>2. Handle(e, a)
    BY <1>8 DEF a
  <2>3. QED
    BY <1>1, <1>2, <1>5, <1>6, <1>7, <1>8, <2>1, <2>2
<1>9. CASE event.type = "response" /\ check_response(e, event.id) /\ Handle(e, on_exchange_response)
  <2> DEFINE at == {i \in DOMAIN timers[e] :
                      /\ timers[e][i].op = "expire" /\ timers[e][i].id = event.id
                      /\ event.id \in rrc_requests[e]}
             c == cancel(timers[e], at)
  <2>1. Restores(on_exchange_response) /\ \E op \in Ops(on_exchange_response) : Engages(op)
    BY HandlersRestore
  <2>2. /\ rrc_requests' = [rrc_requests EXCEPT ![e] = @ \ {event.id}]
        /\ timers' = [timers EXCEPT ![e] = c]
    BY <1>9 DEF check_response
  <2>3. timers[e] \in Seq(Entry) /\ at \in SUBSET (DOMAIN timers[e])
    BY DEF Types
  <2> HIDE DEF at
  <2>4. Ops(c) \subseteq Ops(timers[e])
    BY <2>3, OpsCancelled
  <2> HIDE DEF c, event
  <2>5. /\ timers'[e] = c /\ rrc_requests'[e] = rrc_requests[e] \ {event.id}
        /\ \A x \in End : x # e => rrc_requests'[x] = rrc_requests[x] /\ timers'[x] = timers[x]
    BY <2>2 DEF Types
  <2>6. QED
    BY <1>1, <1>2, <1>5, <1>6, <1>7, <1>9, <2>1, <2>4, <2>5 DEF event
<1>10. CASE event.type = "setup" /\ Handle(e, on_init(e, event.forced))
           /\ UNCHANGED <<rrc_requests, timers>>
  <2> DEFINE a == on_init(e, event.forced)
  <2>1. Restores(a) /\ (a # <<>> => \E op \in Ops(a) : Engages(op))
    BY HandlersRestore
  <2> HIDE DEF a
  <2>2. Handle(e, a) /\ (Ops(a) = {} \/ \E op \in Ops(a) : Engages(op))
    BY <1>10, <2>1, OpsNone DEF a
  <2>3. QED
    BY <1>1, <1>2, <1>5, <1>6, <1>7, <1>10, <2>1, <2>2
<1>11. QED
  BY <1>4, <1>8, <1>9, <1>10 DEF on_rrc_event

(* An event that is handled is answered or was the answer. *)
LEMMA EventExchange ==
  ASSUME Types, Types', NEW e \in End, \A x \in End : Exchange(x), on_rrc_event(e)
  PROVE  \A x \in End : Exchange(x)'
<1> DEFINE event == Head(rrc_events[e])
           a == todo'[e]["reactor"]
<1>1. NoFailure(e)
  BY DEF Exchange
<1>2. /\ UNCHANGED <<txrx_state, rrc_req_id, air>>
      /\ \A x \in End : x # e =>
           /\ todo'[x] = todo[x] /\ rrc_events'[x] = rrc_events[x]
           /\ rrc_requests'[x] = rrc_requests[x] /\ timers'[x] = timers[x]
      /\ Ops(rrc_events[e]) = {event} \cup Ops(rrc_events'[e])
      /\ Ops(todo[e]["reactor"]) = {} /\ todo'[e]["timer2"] = todo[e]["timer2"]
      /\ rrc_requests'[e] \subseteq rrc_requests[e] /\ Ops(timers'[e]) \subseteq Ops(timers[e])
      /\ event.type = "response" => event.id \notin rrc_requests'[e]
      /\ Restores(a) /\ (Ops(a) = {} \/ \E op \in Ops(a) : Engages(op))
      /\ event.type = "request" => Respond(event.id) \in Ops(a)
  BY <1>1, EventEffect
<1> HIDE DEF event
<1>3. \A x \in End : Peer(x) \in End /\ Peer(x) # x /\ (x = e \/ (x = Peer(e) /\ Peer(x) = e))
  BY PeerType, PeerPeer
<1>4. \A x \in End : Engaged(x) => Engaged(x)'
  BY <1>2 DEF Engaged
<1>5. Ops(a) # {} => Engaged(e)'
  BY <1>2 DEF Engaged
<1>6. ASSUME NEW x \in End, Asked(x) PROVE Engaged(x)' \/ Asked(x)'
  <2>1. CASE x # e
    BY <1>2, <1>6, <2>1 DEF Asked
  <2>2. CASE x = e /\ event.type = "request"
    BY <1>2, <1>5, <2>2
  <2>3. CASE x = e /\ event.type # "request"
    BY <1>2, <1>6, <2>3 DEF Asked
  <2>4. QED
    BY <2>1, <2>2, <2>3
<1>7. ASSUME NEW x \in End PROVE OnItsWay(x)'
  <2>1. OnItsWay(x) /\ rrc_requests'[x] \subseteq rrc_requests[x]
    BY <1>2 DEF Exchange
  <2>2. ASSUME NEW i \in rrc_requests'[x],
               Travels(x, i, air, Ops(rrc_events[x]), Ops(rrc_events[Peer(x)]),
                       Ops(todo[Peer(x)]["reactor"]))
        PROVE  Travels(x, i, air', Ops(rrc_events'[x]), Ops(rrc_events'[Peer(x)]),
                       Ops(todo'[Peer(x)]["reactor"]))
    <3>1. CASE x = e
      BY <1>2, <1>3, <2>2, <3>1 DEF Travels
    <3>2. CASE x # e
      BY <1>2, <1>3, <2>2, <3>2 DEF Travels
    <3>3. QED
      BY <3>1, <3>2
  <2>3. QED
    BY <2>1, <2>2, OnItsWayKept
<1>8. ASSUME NEW x \in End PROVE Exchange(x)'
  <2>1. NoFailure(x) /\ Stale(x) /\ OnlyUp(x) /\ Restores(todo[x]["reactor"]) /\ Known(x)
    BY DEF Exchange
  <2>2. NoFailure(x)'
    BY <1>2, <2>1 DEF NoFailure
  <2>3. todo'[x]["timer2"] = todo[x]["timer2"] /\ Ops(timers'[x]) \subseteq Ops(timers[x])
        /\ rrc_requests'[x] \subseteq rrc_requests[x]
    BY <1>2
  <2>4. Stale(x)' /\ OnlyUp(x)'
    BY <1>2, <2>1, <2>3 DEF Stale, OnlyUp
  <2>5. Restores(todo'[x]["reactor"])
    BY <1>2, <2>1
  <2>6. (\E op \in Ops(todo'[x]["reactor"]) : IsSend(op)) => Engaged(x)'
    <3>1. CASE x = e
      BY <1>5, <3>1
    <3>2. CASE x # e
      BY <1>2, <1>4, <2>1, <3>2 DEF Known
    <3>3. QED
      BY <3>1, <3>2
  <2>7. Known(x)'
    BY <1>2, <1>3, <1>4, <1>6, <2>1, <2>6, KnownKept
  <2>8. QED
    BY <1>7, <2>2, <2>4, <2>5, <2>7 DEF Exchange
<1>9. QED
  BY <1>8

(* A message that arrives, or a setup, is queued. *)
LEMMA QueueExchange ==
  ASSUME Types, Types', NEW e \in End, \A x \in End : Exchange(x),
         NEW event \in Event, event.type # "rlf", push_rrc_event(e, event),
         UNCHANGED <<lcrrc, todo>>, \A m \in air : m \in air' \/ (m = event /\ m.to = e)
  PROVE  \A x \in End : Exchange(x)'
<1>1. rrc_events[e] \in Seq(Event)
  BY DEF Types
<1>2. Ops(Append(rrc_events[e], event)) = Ops(rrc_events[e]) \cup {event}
  BY <1>1, OpsAppend
<1>3. /\ rrc_events'[e] = Append(rrc_events[e], event)
      /\ \A x \in End : x # e => rrc_events'[x] = rrc_events[x]
  BY DEF push_rrc_event, Types
<1>4. /\ Ops(rrc_events'[e]) = Ops(rrc_events[e]) \cup {event}
      /\ \A x \in End : Ops(rrc_events[x]) \subseteq Ops(rrc_events'[x])
  BY <1>2, <1>3
<1>5. UNCHANGED <<txrx_state, rrc_requests, timers, rrc_req_id, todo>>
  BY DEF lcrrc
<1>6. \A x \in End : Peer(x) \in End
  BY PeerType
<1>7. \A x \in End : Engaged(x) => Engaged(x)'
  BY <1>5 DEF Engaged
<1>8. \A x \in End : Asked(x) => Asked(x)'
  BY <1>4 DEF Asked
<1>9. ASSUME NEW x \in End PROVE Exchange(x)'
  <2>1. NoFailure(x) /\ OnItsWay(x) /\ Stale(x) /\ OnlyUp(x) /\ Restores(todo[x]["reactor"]) /\ Known(x)
    BY DEF Exchange
  <2>2. NoFailure(x)'
    <3>1. \A y \in Ops(rrc_events'[x]) : y \in Ops(rrc_events[x]) \/ y = event
      BY <1>3, <1>4
    <3>2. \A y \in Ops(rrc_events'[x]) : y.type # "rlf"
      BY <2>1, <3>1 DEF NoFailure
    <3>3. QED
      BY <3>2 DEF NoFailure
  <2>3. ASSUME NEW i,
               Travels(x, i, air, Ops(rrc_events[x]), Ops(rrc_events[Peer(x)]),
                       Ops(todo[Peer(x)]["reactor"]))
        PROVE  Travels(x, i, air', Ops(rrc_events'[x]), Ops(rrc_events'[Peer(x)]),
                       Ops(todo'[Peer(x)]["reactor"]))
    BY <1>4, <1>5, <1>6, <2>3 DEF Travels
  <2>4. OnItsWay(x)'
    BY <1>5, <2>1, <2>3, OnItsWayKept
  <2>5. Stale(x)' /\ OnlyUp(x)' /\ Restores(todo'[x]["reactor"])
    BY <1>5, <2>1 DEF Stale, OnlyUp
  <2>6. (\E op \in Ops(todo'[x]["reactor"]) : IsSend(op)) => Engaged(x)'
    BY <1>5, <1>7, <2>1 DEF Known
  <2>7. Known(x)'
    BY <1>5, <1>6, <1>7, <1>8, <2>1, <2>6, KnownKept
  <2>8. QED
    BY <2>2, <2>4, <2>5, <2>7 DEF Exchange
<1>10. QED
  BY <1>9

(* Every step of an exchange without losses and failures. *)
LEMMA ExchangeStep ==
  ASSUME Types, Types', lost \in Nat, rlfs \in [End -> Nat], Undisturbed',
         \A x \in End : EndInv(x) /\ Exchange(x), Next
  PROVE  \A x \in End : Exchange(x)'
<1>1. ASSUME NEW e \in End, NEW t \in Thread, Step(e, t)
      PROVE  \A x \in End : Exchange(x)'
  BY <1>1, Timer2Exchange, ReactorExchange DEF Thread
<1>2. ASSUME NEW e \in End, run_rrc_rx(e)
      PROVE  \A x \in End : Exchange(x)'
  <2>1. PICK m \in air : m.to = e /\ push_rrc_event(e, m) /\ air' = air \ {m}
    BY <1>2 DEF run_rrc_rx
  <2>2. UNCHANGED <<lcrrc, todo>>
    BY <1>2 DEF run_rrc_rx
  <2>3. m \in Event /\ m.type # "rlf"
    BY DEF Types, Event, Message
  <2>4. \A n \in air : n \in air' \/ (n = m /\ n.to = e)
    BY <2>1
  <2>5. QED
    BY <2>1, <2>2, <2>3, <2>4, QueueExchange
<1>3. ASSUME NEW e \in End, Setup(e)
      PROVE  \A x \in End : Exchange(x)'
  <2>1. PICK forced \in BOOLEAN : push_rrc_event(e, [type |-> "setup", forced |-> forced])
    BY <1>3 DEF Setup
  <2> DEFINE event == [type |-> "setup", forced |-> forced]
  <2>2. UNCHANGED <<lcrrc, todo>> /\ \A n \in air : n \in air'
    BY <1>3 DEF Setup
  <2>3. event \in Event /\ event.type # "rlf" /\ push_rrc_event(e, event)
    BY <2>1 DEF Event
  <2> HIDE DEF event
  <2>4. QED
    BY <2>2, <2>3, QueueExchange
<1>4. ASSUME NEW e \in End, Rlf(e) PROVE FALSE
  <2>1. rlfs'[e] = rlfs[e] + 1 /\ rlfs[e] \in Nat
    BY <1>4 DEF Rlf
  <2>2. rlfs'[e] = 0
    BY DEF Undisturbed, NoRlf
  <2>3. QED
    BY <2>1, <2>2
<1>5. ~Lose
  <2>1. Lose => lost' = lost + 1
    BY DEF Lose
  <2>2. lost' = 0
    BY DEF Undisturbed
  <2>3. QED
    BY <2>1, <2>2
<1>6. lost' = 0
  BY DEF Undisturbed
<1>7. QED
  BY <1>1, <1>2, <1>3, <1>4, <1>5, <1>6, ScheduleExchange, EventExchange DEF Next

(* Losses and failures are only counted up. *)
LEMMA DisturbedForGood ==
  ASSUME lost \in Nat, rlfs \in [End -> Nat], [Next]_vars
  PROVE  lost' \in Nat /\ rlfs' \in [End -> Nat] /\ (Undisturbed' => Undisturbed)
<1>1. CASE UNCHANGED <<lost, rlfs>>
  BY <1>1 DEF Undisturbed, NoRlf
<1>2. CASE Lose
  BY <1>2 DEF Lose, Undisturbed, NoRlf
<1>3. ASSUME NEW e \in End, Rlf(e)
      PROVE  lost' \in Nat /\ rlfs' \in [End -> Nat] /\ (Undisturbed' => Undisturbed)
  <2>1. rlfs' = [rlfs EXCEPT ![e] = @ + 1] /\ lost' = lost
    BY <1>3 DEF Rlf
  <2>2. rlfs' \in [End -> Nat] /\ rlfs'[e] = rlfs[e] + 1 /\ rlfs[e] \in Nat
    BY <2>1
  <2>3. rlfs'[e] # 0
    BY <2>2
  <2>4. ~Undisturbed'
    BY <2>3 DEF Undisturbed, NoRlf
  <2>5. QED
    BY <2>1, <2>2, <2>4
<1>4. ASSUME NEW e \in End, NEW t \in Thread, Step(e, t)
      PROVE  UNCHANGED <<lost, rlfs>>
  BY <1>4 DEF Step, change_txrx_state, set_enabled, send_exchange_resp, schedule_activate,
              auto_send_rrc, expiry_handler, activation_handler, bounds
<1>5. ASSUME NEW e \in End, on_rrc_event(e) \/ run_rrc_rx(e) \/ Setup(e)
      PROVE  UNCHANGED <<lost, rlfs>>
  BY <1>5 DEF on_rrc_event, run_rrc_rx, Setup, bounds
<1>6. UNCHANGED vars => UNCHANGED <<lost, rlfs>>
  BY DEF vars, bounds
<1>7. ASSUME NEW e \in End, schedule(e)
      PROVE  lost' \in Nat /\ rlfs' \in [End -> Nat] /\ (Undisturbed' => Undisturbed)
  <2>1. rlfs' = rlfs /\ (lost' = lost \/ lost' = lost + 1)
    BY <1>7 DEF schedule
  <2>2. QED
    BY <2>1 DEF Undisturbed, NoRlf
<1>8. QED
  BY <1>1, <1>2, <1>3, <1>4, <1>5, <1>6, <1>7 DEF Next

(***************************************************************************)
(* However many setups there are at either end, in whatever order the      *)
(* messages arrive and the threads run, an exchange of which no message    *)
(* was lost or late and no layer gave up leaves both ends ACTIVE when it   *)
(* is over: a second request or a response that takes the layers down is   *)
(* always followed by an activation, and no expiry handler runs into it.   *)
(***************************************************************************)
THEOREM EstablishedTogetherHolds == Spec => []EstablishedTogether
<1>1. Init => XInv
  <2> SUFFICES ASSUME Init PROVE XInv
    OBVIOUS
  <2>1. Types /\ \A e \in End : EndInv(e)
    BY OrderInit DEF LInv
  <2>2. lost \in Nat /\ rlfs \in [End -> Nat]
    BY DEF Init
  <2>3. ASSUME NEW e \in End PROVE Exchange(e)
    <3>1. /\ rrc_events[e] = <<>> /\ rrc_requests[e] = {} /\ timers[e] = <<>> /\ rrc_req_id[e] = 0
          /\ todo[e]["timer2"] = <<>> /\ todo[e]["reactor"] = <<>>
      BY DEF Init, Thread
    <3>2. /\ Ops(rrc_events[e]) = {} /\ Ops(timers[e]) = {}
          /\ Ops(todo[e]["timer2"]) = {} /\ Ops(todo[e]["reactor"]) = {}
      BY <3>1, OpsNone
    <3>3. Restores(todo[e]["reactor"])
      BY <3>1 DEF Restores
    <3>4. QED
      BY <3>1, <3>2, <3>3 DEF Exchange, NoFailure, OnItsWay, Stale, OnlyUp, Known
  <2>4. QED
    BY <2>1, <2>2, <2>3 DEF XInv
<1>2. XInv /\ [Next]_vars => XInv'
  <2> SUFFICES ASSUME XInv, [Next]_vars PROVE XInv'
    OBVIOUS
  <2>1. Types /\ Types' /\ lost \in Nat /\ rlfs \in [End -> Nat]
    BY TypesInductive DEF XInv
  <2>2. lost' \in Nat /\ rlfs' \in [End -> Nat] /\ (Undisturbed' => Undisturbed)
    BY <2>1, DisturbedForGood
  <2>3. ASSUME Undisturbed' PROVE \A e \in End : EndInv(e)' /\ Exchange(e)'
    <3>1. \A e \in End : EndInv(e) /\ Exchange(e)
      BY <2>2, <2>3 DEF XInv
    <3>2. ASSUME NEW e \in End, on_rrc_event(e) PROVE Head(rrc_events[e]).type # "rlf"
      <4>1. rrc_events[e] \in Seq(Event) /\ rrc_events[e] # <<>>
        BY <2>1, <3>2 DEF on_rrc_event, Types
      <4>2. Head(rrc_events[e]) \in Ops(rrc_events[e])
        BY <4>1, OpsTail
      <4>3. QED
        BY <3>1, <4>2 DEF Exchange, NoFailure
    <3>3. \A e \in End : EndInv(e)'
      BY <2>1, <3>1, <3>2, OrderStep DEF LInv
    <3>4. CASE Next
      BY <2>1, <2>3, <3>1, <3>3, <3>4, ExchangeStep
    <3>5. CASE UNCHANGED vars
      <4>1. UNCHANGED <<txrx_state, rrc_requests, timers, rrc_req_id, rrc_events, todo, air>>
        BY <3>5 DEF vars, lcrrc
      <4>2. \A e \in End : Exchange(e)'
        BY <3>1, <4>1 DEF Exchange, NoFailure, OnItsWay, UnderWay, Stale, OnlyUp, Known,
                          Engaged, Asked
      <4>3. QED
        BY <3>3, <4>2
    <3>6. QED
      BY <3>4, <3>5
  <2>4. QED
    BY <2>1, <2>2, <2>3 DEF XInv
<1>3. XInv => EstablishedTogether
  <2> SUFFICES ASSUME XInv, AllQuiet, Exchanged, lost = 0, NoRlf PROVE BothActive
    BY DEF EstablishedTogether
  <2>1. Types /\ \A e \in End : EndInv(e) /\ Exchange(e)
    BY DEF XInv, Undisturbed
  <2>2. \A e \in End : Quiet(e) /\ todo[e]["reactor"] = <<>> /\ rrc_events[e] = <<>>
    BY DEF AllQuiet, Quiet, Thread
  <2>3. \A e \in End : Ops(todo[e]["reactor"]) = {} /\ Ops(rrc_events[e]) = {}
    BY <2>2, OpsNone
  <2>4. \A e \in End : ~Asked(e)
    BY <2>3 DEF Asked, AllQuiet
  <2>5. \A e \in End : Engaged(e) => txrx_state[e] # "NOT_CONFIGURED"
    BY <2>3 DEF Engaged
  <2>6. PICK e \in End : rrc_req_id[e] > 0
    BY DEF Exchanged
  <2>7. Peer(e) \in End
    BY PeerType
  <2>8. Engaged(e) /\ Engaged(Peer(e))
    BY <2>1, <2>4, <2>6, <2>7 DEF Exchange, Known
  <2>9. \A x \in End : Engaged(x)
    BY <2>8, PeerPeer
  <2>10. \A x \in End : txrx_state[x] = "ACTIVE"
    BY <2>1, <2>2, <2>5, <2>9, OrderAtRest
  <2>11. QED
    BY <2>10 DEF BothActive
<1>4. QED
  BY <1>1, <1>2, <1>3, PTL DEF Spec
=============================================================================
