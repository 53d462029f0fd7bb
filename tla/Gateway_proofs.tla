---------------------------- MODULE Gateway_proofs ----------------------------
(***************************************************************************)
(* Proofs about Gateway, for every set of requests and every bound.        *)
(***************************************************************************)
EXTENDS Gateway, FiniteSetTheorems, TLAPS

\* A request that is under way has an id that was minted for it, and one whose
\* send resolved is in the topic.
RequestsForwarded ==
    \A k \in Keys :
        /\ phase[k] = "minted" => order[k] \in OrderIds
        /\ phase[k] = "sent" => [order |-> order[k], key |-> k] \in ToSet(topic)

\* An order is announced after it was created.
AnnouncedExist == \A i \in DOMAIN events : Exists(events[i])

IInv ==
    /\ TypeOK
    /\ RequestsForwarded
    /\ NoFalseAccept
    /\ AnnouncedExist
    /\ AnnouncedOnce

-----------------------------------------------------------------------------
(* The topic only grows. *)

LEMMA Grows ==
  ASSUME NEW S, NEW s \in Seq(S), NEW e \in S
  PROVE  /\ Append(s, e) \in Seq(S)
         /\ Len(Append(s, e)) = Len(s) + 1
         /\ \A i \in DOMAIN s : i \in DOMAIN Append(s, e) /\ Append(s, e)[i] = s[i]
         /\ \A i \in DOMAIN Append(s, e) :
                i \in DOMAIN s \/ (i = Len(s) + 1 /\ Append(s, e)[i] = e)
         /\ Len(s) + 1 \in DOMAIN Append(s, e) /\ Append(s, e)[Len(s) + 1] = e
  OBVIOUS

LEMMA SetGrows ==
  ASSUME NEW S, NEW s \in Seq(S), NEW e \in S
  PROVE  ToSet(s) \subseteq ToSet(Append(s, e)) /\ e \in ToSet(Append(s, e))
<1>1. /\ \A i \in DOMAIN s : i \in DOMAIN Append(s, e) /\ Append(s, e)[i] = s[i]
      /\ Len(s) + 1 \in DOMAIN Append(s, e) /\ Append(s, e)[Len(s) + 1] = e
  BY Grows
<1> QED
  BY <1>1 DEF ToSet

\* What a send puts into the topic is a command of the request.
LEMMA Forwarding ==
  ASSUME IInv, NEW k \in Keys, phase[k] = "minted"
  PROVE  /\ Forwarded(k) \in Seq(Command)
         /\ Len(Forwarded(k)) = Len(topic) + 1
         /\ ToSet(topic) \subseteq ToSet(Forwarded(k))
         /\ [order |-> order[k], key |-> k] \in ToSet(Forwarded(k))
<1>1. topic \in Seq(Command) /\ [order |-> order[k], key |-> k] \in Command
  BY DEF IInv, TypeOK, RequestsForwarded, Command
<1> QED
  BY <1>1, Grows, SetGrows DEF Forwarded

-----------------------------------------------------------------------------
(* The steps of the gateway and its client. *)

\* They leave order-service alone.
LEMMA OrderSideStays ==
  ASSUME IInv, UNCHANGED <<created, events>>
  PROVE  AnnouncedExist' /\ AnnouncedOnce'
  BY DEF IInv, AnnouncedExist, AnnouncedOnce, Exists, IsInjective

LEMMA PostInv == ASSUME IInv, NEW k \in Keys, Post(k) PROVE IInv'
<1>t. TypeOK /\ MaxPosts \in Nat
  BY GatewayAssumption DEF IInv
<1>1. posts + 1 \in OrderIds /\ posts' = posts + 1
  BY <1>t DEF Post, TypeOK, OrderIds
<1>2. TypeOK'
  <2>1. order' \in [Keys -> 0..posts'] /\ told' \in [Keys -> 0..posts']
    BY <1>t, <1>1 DEF Post, TypeOK
  <2> QED BY <1>t, <2>1 DEF Post, TypeOK, orderVars
<1>3. RequestsForwarded'
  BY <1>t, <1>1 DEF Post, TypeOK, IInv, RequestsForwarded
<1>4. NoFalseAccept'
  BY DEF Post, IInv, NoFalseAccept
<1> QED
  BY <1>2, <1>3, <1>4, OrderSideStays DEF Post, orderVars, IInv

LEMMA EmitInv ==
  ASSUME IInv, NEW k \in Keys, Emit(k) \/ EmitFails(k)
  PROVE  IInv'
<1>t. TypeOK /\ MaxFaults \in Nat
  BY GatewayAssumption DEF IInv
<1>1. /\ Forwarded(k) \in Seq(Command)
      /\ Len(Forwarded(k)) = Len(topic) + 1
      /\ ToSet(topic) \subseteq ToSet(Forwarded(k))
      /\ [order |-> order[k], key |-> k] \in ToSet(Forwarded(k))
  BY Forwarding DEF Emit, EmitFails
<1>2. topic' \in {topic, Forwarded(k)} /\ ToSet(topic) \subseteq ToSet(topic')
  BY <1>1 DEF Emit, EmitFails
<1>3. UNCHANGED <<order, posts, told, at, done, created, events>>
  BY DEF Emit, EmitFails, orderVars
<1>4. TypeOK'
  <2>1. topic' \in Seq(Command) /\ Len(topic') >= Len(topic)
    BY <1>t, <1>1, <1>2 DEF TypeOK
  <2>2. at' \in 0..Len(topic') /\ done' \in 0..Len(topic')
    BY <1>t, <1>3, <2>1 DEF TypeOK
  <2>3. phase' \in [Keys -> {"new", "minted", "sent", "accepted", "failed"}]
    BY <1>t DEF Emit, EmitFails, TypeOK
  <2>f. faults' = faults \/ (faults < MaxFaults /\ faults' = faults + 1)
    BY DEF Emit, EmitFails, Fault
  <2>g. faults' \in 0..MaxFaults
    BY <1>t, <2>f DEF TypeOK
  <2> QED BY <1>t, <1>3, <2>1, <2>2, <2>3, <2>g DEF TypeOK
<1>5. RequestsForwarded'
  <2>1. ASSUME NEW q \in Keys, q # k PROVE phase'[q] = phase[q]
    BY <1>t, <2>1 DEF Emit, EmitFails, TypeOK
  <2>2. /\ phase'[k] # "minted"
        /\ phase'[k] = "sent" => topic' = Forwarded(k)
    BY <1>t DEF Emit, EmitFails, TypeOK
  <2> QED BY <1>1, <1>2, <1>3, <2>1, <2>2 DEF IInv, RequestsForwarded
<1>6. NoFalseAccept'
  BY <1>2, <1>3 DEF IInv, NoFalseAccept
<1> QED
  BY <1>3, <1>4, <1>5, <1>6, OrderSideStays DEF IInv

LEMMA ReplyInv ==
  ASSUME IInv, NEW k \in Keys, Reply(k) \/ ReplyLost(k)
  PROVE  IInv'
<1>t. TypeOK /\ MaxFaults \in Nat
  BY GatewayAssumption DEF IInv
<1>1. UNCHANGED <<order, posts, topic, at, done, created, events>>
  BY DEF Reply, ReplyLost, orderVars
<1>2. TypeOK'
  <2>1. told' \in [Keys -> 0..posts]
    BY <1>t DEF Reply, ReplyLost, TypeOK
  <2>2. phase' \in [Keys -> {"new", "minted", "sent", "accepted", "failed"}]
    BY <1>t DEF Reply, ReplyLost, TypeOK
  <2>f. faults' = faults \/ (faults < MaxFaults /\ faults' = faults + 1)
    BY DEF Reply, ReplyLost, Fault
  <2>g. faults' \in 0..MaxFaults
    BY <1>t, <2>f DEF TypeOK
  <2> QED BY <1>t, <1>1, <2>1, <2>2, <2>g DEF TypeOK
<1>3. RequestsForwarded'
  BY <1>t, <1>1 DEF Reply, ReplyLost, IInv, RequestsForwarded, TypeOK
<1>4. NoFalseAccept'
  <2>1. ASSUME NEW q \in Keys, told'[q] # 0
        PROVE  [order |-> told'[q], key |-> q] \in ToSet(topic)
    <3>1. CASE told'[q] = told[q]
      BY <2>1, <3>1 DEF IInv, NoFalseAccept
    <3>2. CASE told'[q] # told[q]
      <4>1. q = k /\ told'[q] = order[k] /\ phase[k] = "sent"
        BY <1>t, <3>2 DEF Reply, ReplyLost, TypeOK
      <4> QED BY <4>1 DEF IInv, RequestsForwarded
    <3> QED BY <3>1, <3>2
  <2> QED BY <1>1, <2>1 DEF NoFalseAccept
<1> QED
  BY <1>1, <1>2, <1>3, <1>4, OrderSideStays DEF IInv

-----------------------------------------------------------------------------
(* The steps of order-service. *)

\* They leave the gateway and the topic alone.
LEMMA GatewaySideStays ==
  ASSUME IInv, UNCHANGED <<clientVars, topic>>
  PROVE  RequestsForwarded' /\ NoFalseAccept'
  BY DEF IInv, RequestsForwarded, NoFalseAccept, clientVars

LEMMA CreateOrderInv == ASSUME IInv, CreateOrder PROVE IInv'
<1> DEFINE command == topic[at + 1]
<1>t. TypeOK
  BY DEF IInv
<1>1. command \in Command /\ at' \in 0..Len(topic)
  BY <1>t DEF CreateOrder, TypeOK
<1>g. RequestsForwarded' /\ NoFalseAccept'
  BY GatewaySideStays DEF CreateOrder
<1>2. CASE UNCHANGED <<created, events>>
  <2>1. TypeOK'
    BY <1>t, <1>1, <1>2 DEF CreateOrder, TypeOK, clientVars
  <2> QED BY <1>2, <1>g, <2>1, OrderSideStays DEF IInv
<1>3. CASE /\ ~Exists(command.order)
           /\ created' = created \union {command}
           /\ events' = Append(events, command.order)
  <2>1. command.order \in OrderIds
    BY <1>1 DEF Command
  <2>2. events \in Seq(OrderIds)
    BY <1>t DEF TypeOK
  <2>3. TypeOK'
    <3>1. events' \in Seq(OrderIds) /\ created' \subseteq Command
      BY <1>t, <1>1, <1>3, <2>1, <2>2, Grows DEF TypeOK
    <3> QED BY <1>t, <1>1, <3>1 DEF CreateOrder, TypeOK, clientVars
  <2>4. /\ \A i \in DOMAIN events : i \in DOMAIN events' /\ events'[i] = events[i]
        /\ \A i \in DOMAIN events' :
              \/ i \in DOMAIN events
              \/ i = Len(events) + 1 /\ events'[i] = command.order
    BY <1>3, <2>1, <2>2, Grows
  <2>5. \A i \in DOMAIN events : Exists(events[i]) /\ events[i] # command.order
    BY <1>3 DEF IInv, AnnouncedExist
  <2>6. AnnouncedExist'
    BY <1>3, <2>4, <2>5 DEF AnnouncedExist, Exists
  <2>7. AnnouncedOnce'
    BY <2>4, <2>5 DEF IInv, AnnouncedOnce, IsInjective
  <2> QED BY <1>g, <2>3, <2>6, <2>7 DEF IInv
<1> QED
  BY <1>2, <1>3 DEF CreateOrder

LEMMA OffsetInv == ASSUME IInv, Commit \/ Restart PROVE IInv'
<1>t. TypeOK /\ MaxFaults \in Nat
  BY GatewayAssumption DEF IInv
<1>1. TypeOK'
  BY <1>t DEF Commit, Restart, Fault, TypeOK, clientVars
<1>2. UNCHANGED <<clientVars, topic, created, events>>
  BY DEF Commit, Restart
<1> QED
  BY <1>1, <1>2, GatewaySideStays, OrderSideStays DEF IInv

-----------------------------------------------------------------------------

LEMMA InitInv == Init => IInv
<1> SUFFICES ASSUME Init PROVE IInv
  OBVIOUS
<1>1. TypeOK
  BY GatewayAssumption DEF Init, TypeOK
<1>2. RequestsForwarded /\ NoFalseAccept /\ AnnouncedExist
  BY DEF Init, RequestsForwarded, NoFalseAccept, AnnouncedExist
<1>3. AnnouncedOnce
  BY DEF Init, AnnouncedOnce, IsInjective
<1> QED
  BY <1>1, <1>2, <1>3 DEF IInv

LEMMA StepInv == IInv /\ [Next]_vars => IInv'
<1> SUFFICES ASSUME IInv, [Next]_vars PROVE IInv'
  OBVIOUS
<1>1. CASE UNCHANGED vars
  <2>1. UNCHANGED <<clientVars, topic, created, events>> /\ TypeOK'
    BY <1>1 DEF vars, clientVars, orderVars, IInv, TypeOK
  <2> QED BY <2>1, GatewaySideStays, OrderSideStays DEF IInv
<1> QED
  BY <1>1, PostInv, EmitInv, ReplyInv, CreateOrderInv, OffsetInv DEF Next

\* The inductive invariant of the gateway and order-service.
THEOREM Invariance == Spec => []IInv
  BY InitInv, StepInv, PTL DEF Spec

\* Every reachable state is well typed.
THEOREM TypeCorrect == Spec => []TypeOK
<1>1. IInv => TypeOK
  BY DEF IInv
<1> QED
  BY <1>1, Invariance, PTL

\* A 202 is never false: the order a client was told of is the one of its own
\* request, and its command is in the topic (the awaited emit of the gateway).
THEOREM AcceptedIsTrue == Spec => []NoFalseAccept
<1>1. IInv => NoFalseAccept
  BY DEF IInv
<1> QED
  BY <1>1, Invariance, PTL

\* However often its command is handled, an order is announced once (the
\* idempotency check of order-service).
THEOREM AnnouncedOnceOnly == Spec => []AnnouncedOnce
<1>1. IInv => AnnouncedOnce
  BY DEF IInv
<1> QED
  BY <1>1, Invariance, PTL

-----------------------------------------------------------------------------
(* Order ids and orders. *)

\* An id that was minted and not yet sent is nobody else's.
MintedAreFresh ==
    /\ \A c \in ToSet(topic) : c.order <= posts
    /\ \A k \in Keys : phase[k] = "minted" =>
        /\ \A c \in ToSet(topic) : c.order # order[k]
        /\ \A q \in Keys : q # k /\ phase[q] = "minted" => order[q] # order[k]

\* Every command behind an offset of order-service has its order, and every
\* order its event.
HandledExist ==
    /\ done <= at
    /\ \A i \in 1..at : topic[i] \in created
    /\ created \subseteq ToSet(topic)
    /\ \A c \in created : \E i \in DOMAIN events : events[i] = c.order

\* Each command of a request beyond the one that was accepted cost a fault.
CommandsOf(k) == {c \in ToSet(topic) : c.key = k}

CommandsNeedFaults ==
    /\ IsFiniteSet(ToSet(topic))
    /\ \A k \in Keys : IF phase[k] \in {"sent", "accepted"}
                       THEN Cardinality(CommandsOf(k)) <= 1 + faults
                       ELSE Cardinality(CommandsOf(k)) <= faults

OrdersInv == IdsAreFresh /\ MintedAreFresh /\ HandledExist /\ CommandsNeedFaults

\* A command that is appended is the only new one.
LEMMA ForwardedSet ==
  ASSUME IInv, NEW k \in Keys, phase[k] = "minted", topic' = Forwarded(k)
  PROVE  /\ ToSet(topic') = ToSet(topic) \union {[order |-> order[k], key |-> k]}
         /\ \A i \in DOMAIN topic : i \in DOMAIN topic' /\ topic'[i] = topic[i]
<1> DEFINE c == [order |-> order[k], key |-> k]
<1>1. topic \in Seq(Command) /\ c \in Command /\ topic' = Append(topic, c)
  BY DEF IInv, TypeOK, RequestsForwarded, Command, Forwarded
<1> HIDE DEF c
<1>2. /\ \A i \in DOMAIN topic : i \in DOMAIN topic' /\ topic'[i] = topic[i]
      /\ \A i \in DOMAIN topic' :
            i \in DOMAIN topic \/ (i = Len(topic) + 1 /\ topic'[i] = c)
      /\ Len(topic) + 1 \in DOMAIN topic' /\ topic'[Len(topic) + 1] = c
  BY <1>1, Grows
<1>3. ToSet(topic') = ToSet(topic) \union {c}
  BY <1>2 DEF ToSet
<1> QED
  BY <1>2, <1>3 DEF c

LEMMA CommandTypes ==
  ASSUME IInv
  PROVE  /\ \A c \in ToSet(topic) : c \in Command /\ c.order \in Nat
         /\ posts \in Nat /\ MaxPosts \in Nat /\ faults \in Nat
         /\ at \in Nat /\ done \in Nat /\ DOMAIN topic = 1..Len(topic) /\ Len(topic) \in Nat
         /\ \A k \in Keys : order[k] \in 0..posts
<1>1. topic \in Seq(Command)
  BY DEF IInv, TypeOK
<1>2. \A c \in ToSet(topic) : c \in Command
  BY <1>1 DEF ToSet
<1> QED
  BY <1>1, <1>2, GatewayAssumption DEF IInv, TypeOK, Command, OrderIds

\* The gateway and its client.
LEMMA PostOrders ==
  ASSUME IInv, OrdersInv, NEW k \in Keys, Post(k)
  PROVE  OrdersInv'
<1>1. /\ UNCHANGED <<topic, at, done, created, events, faults>>
      /\ posts' = posts + 1 /\ phase[k] \in {"new", "failed"}
      /\ phase'[k] = "minted" /\ order'[k] = posts + 1
      /\ \A q \in Keys : q # k => phase'[q] = phase[q] /\ order'[q] = order[q]
  BY DEF Post, orderVars, IInv, TypeOK
<1>2. /\ posts \in Nat
      /\ \A c \in ToSet(topic) : c.order \in Nat /\ c.order <= posts
      /\ \A q \in Keys : order[q] \in Nat /\ order[q] <= posts
  BY CommandTypes DEF OrdersInv, MintedAreFresh
<1>3. MintedAreFresh'
  BY <1>1, <1>2 DEF OrdersInv, MintedAreFresh
<1>4. IdsAreFresh' /\ HandledExist'
  BY <1>1 DEF OrdersInv, IdsAreFresh, HandledExist
<1>5. CommandsNeedFaults'
  BY <1>1 DEF OrdersInv, CommandsNeedFaults, CommandsOf
<1> QED
  BY <1>3, <1>4, <1>5 DEF OrdersInv

LEMMA EmitOrders ==
  ASSUME IInv, OrdersInv, NEW k \in Keys, Emit(k) \/ EmitFails(k)
  PROVE  OrdersInv'
<1> DEFINE c == [order |-> order[k], key |-> k]
<1>1. /\ UNCHANGED <<order, posts, at, done, created, events>>
      /\ phase[k] = "minted" /\ phase'[k] # "minted"
      /\ \A q \in Keys : q # k => phase'[q] = phase[q]
  BY DEF Emit, EmitFails, orderVars, IInv, TypeOK
<1>2. \/ phase'[k] = "sent" /\ topic' = Forwarded(k) /\ faults' = faults
      \/ phase'[k] = "failed" /\ topic' \in {topic, Forwarded(k)} /\ faults' = faults + 1
  BY DEF Emit, EmitFails, Fault, IInv, TypeOK
<1>t. /\ \A d \in ToSet(topic) : d.order \in Nat /\ d \in Command
      /\ posts \in Nat /\ faults \in Nat /\ order[k] \in 0..posts
      /\ at \in Nat /\ Len(topic) \in Nat /\ DOMAIN topic = 1..Len(topic)
  BY CommandTypes
<1>o. /\ IdsAreFresh /\ MintedAreFresh /\ HandledExist /\ CommandsNeedFaults
  BY DEF OrdersInv
<1>c. c.order = order[k] /\ c.key = k
  OBVIOUS
<1>3. CASE topic' = topic
  <2>1. (phase'[k] = "failed" /\ faults' = faults + 1) \/ topic' = Forwarded(k)
    BY <1>2
  <2>2. IdsAreFresh' /\ HandledExist'
    BY <1>1, <1>3, <1>o DEF IdsAreFresh, HandledExist
  <2>3. MintedAreFresh'
    BY <1>1, <1>3, <1>o DEF MintedAreFresh
  <2>4. topic' # Forwarded(k)
    <3>1. Len(Forwarded(k)) = Len(topic) + 1
      BY <1>1, Forwarding
    <3>2. \A n \in Nat : n + 1 # n
      OBVIOUS
    <3>3. Len(topic) + 1 # Len(topic)
      BY <1>t, <3>2, Zenon
    <3> QED BY <1>3, <3>1, <3>3, Zenon
  <2>5. /\ IsFiniteSet(ToSet(topic))
        /\ \A q \in Keys : Cardinality(CommandsOf(q)) \in Nat
    BY <1>o, FS_Subset, FS_CardinalityType DEF CommandsNeedFaults, CommandsOf
  <2>6. \A q \in Keys : CommandsOf(q)' = CommandsOf(q)
    BY <1>3 DEF CommandsOf
  <2>7. CommandsNeedFaults'
    BY <1>1, <1>3, <1>o, <1>t, <2>1, <2>4, <2>5, <2>6 DEF CommandsNeedFaults
  <2> QED BY <2>2, <2>3, <2>7 DEF OrdersInv
<1>4. CASE topic' = Forwarded(k)
  <2>1. /\ ToSet(topic') = ToSet(topic) \union {c}
        /\ \A i \in DOMAIN topic : topic'[i] = topic[i]
    BY <1>1, <1>4, ForwardedSet
  <2> HIDE DEF c
  <2>2. IdsAreFresh'
    BY <1>1, <1>o, <1>c, <2>1 DEF IdsAreFresh, MintedAreFresh
  <2>3. MintedAreFresh'
    BY <1>1, <1>o, <1>c, <1>t, <2>1 DEF MintedAreFresh
  <2>4. HandledExist'
    <3>1. \A i \in 1..at : i \in DOMAIN topic
      BY <1>t DEF IInv, TypeOK
    <3> QED BY <1>1, <1>o, <2>1, <3>1 DEF HandledExist
  <2>5. /\ IsFiniteSet(ToSet(topic)) /\ IsFiniteSet(ToSet(topic'))
        /\ \A q \in Keys : IsFiniteSet(CommandsOf(q)) /\ Cardinality(CommandsOf(q)) \in Nat
    BY <1>o, <2>1, FS_AddElement, FS_Subset, FS_CardinalityType
       DEF CommandsNeedFaults, CommandsOf
  <2>6. \A q \in Keys : q # k => CommandsOf(q)' = CommandsOf(q)
    BY <1>c, <2>1 DEF CommandsOf
  <2>7. CommandsOf(k)' = CommandsOf(k) \union {c}
    BY <1>c, <2>1 DEF CommandsOf
  <2>8. Cardinality(CommandsOf(k)') <= Cardinality(CommandsOf(k)) + 1
    <3>1. Cardinality(CommandsOf(k) \union {c}) \in
            {Cardinality(CommandsOf(k)), Cardinality(CommandsOf(k)) + 1}
      BY <2>5, FS_AddElement
    <3> QED BY <2>5, <2>7, <3>1
  <2>9. Cardinality(CommandsOf(k)) <= faults
    BY <1>1, <1>o DEF CommandsNeedFaults
  <2>10. Cardinality(CommandsOf(k)') \in Nat
    BY <2>5, <2>7, FS_AddElement, FS_CardinalityType
  <2>11. CommandsNeedFaults'
    <3>1. Cardinality(CommandsOf(k)') <= faults + 1
      BY <1>t, <2>5, <2>8, <2>9, <2>10
    <3>2. \A q \in Keys : q # k =>
            IF phase'[q] \in {"sent", "accepted"}
            THEN Cardinality(CommandsOf(q)') <= 1 + faults'
            ELSE Cardinality(CommandsOf(q)') <= faults'
      BY <1>1, <1>2, <1>o, <1>t, <2>5, <2>6 DEF CommandsNeedFaults
    <3>3. IF phase'[k] \in {"sent", "accepted"}
          THEN Cardinality(CommandsOf(k)') <= 1 + faults'
          ELSE Cardinality(CommandsOf(k)') <= faults'
      BY <1>2, <1>t, <2>10, <3>1
    <3> QED BY <2>5, <3>2, <3>3 DEF CommandsNeedFaults
  <2> QED BY <2>2, <2>3, <2>4, <2>11 DEF OrdersInv
<1> QED
  BY <1>2, <1>3, <1>4

LEMMA ReplyOrders ==
  ASSUME IInv, OrdersInv, NEW k \in Keys, Reply(k) \/ ReplyLost(k)
  PROVE  OrdersInv'
<1>1. /\ UNCHANGED <<topic, order, posts, at, done, created, events>>
      /\ phase[k] = "sent"
      /\ \A q \in Keys : q # k => phase'[q] = phase[q]
      /\ \/ phase'[k] = "accepted" /\ faults' = faults
         \/ phase'[k] = "failed" /\ faults' = faults + 1
  BY DEF Reply, ReplyLost, Fault, orderVars, IInv, TypeOK
<1>2. IdsAreFresh' /\ HandledExist'
  BY <1>1 DEF OrdersInv, IdsAreFresh, HandledExist
<1>3. MintedAreFresh'
  BY <1>1 DEF OrdersInv, MintedAreFresh
<1>4. CommandsNeedFaults'
  <2>1. /\ IsFiniteSet(ToSet(topic))
        /\ \A q \in Keys : Cardinality(CommandsOf(q)) \in Nat
    BY FS_Subset, FS_CardinalityType DEF OrdersInv, CommandsNeedFaults, CommandsOf
  <2>2. \A q \in Keys : CommandsOf(q)' = CommandsOf(q)
    BY <1>1 DEF CommandsOf
  <2> QED BY <1>1, <2>1, <2>2, CommandTypes DEF OrdersInv, CommandsNeedFaults
<1> QED
  BY <1>2, <1>3, <1>4 DEF OrdersInv

\* order-service.
LEMMA ServiceOrders ==
  ASSUME IInv, OrdersInv, CreateOrder \/ Commit \/ Restart
  PROVE  OrdersInv'
<1>t. /\ faults \in Nat /\ at \in Nat /\ done \in Nat
      /\ at \in 0..Len(topic) /\ Len(topic) \in Nat /\ DOMAIN topic = 1..Len(topic)
      /\ events \in Seq(OrderIds)
  BY CommandTypes DEF IInv, TypeOK
<1>o. IdsAreFresh /\ MintedAreFresh /\ HandledExist /\ CommandsNeedFaults
  BY DEF OrdersInv
<1>1. UNCHANGED <<topic, phase, order, posts>> /\ faults' \in {faults, faults + 1}
  BY DEF CreateOrder, Commit, Restart, Fault, clientVars
<1>2. IdsAreFresh' /\ MintedAreFresh'
  BY <1>1, <1>o DEF IdsAreFresh, MintedAreFresh
<1>3. CommandsNeedFaults'
  <2>1. /\ IsFiniteSet(ToSet(topic))
        /\ \A q \in Keys : Cardinality(CommandsOf(q)) \in Nat
    BY <1>o, FS_Subset, FS_CardinalityType DEF CommandsNeedFaults, CommandsOf
  <2>2. \A q \in Keys : CommandsOf(q)' = CommandsOf(q)
    BY <1>1 DEF CommandsOf
  <2> QED BY <1>1, <1>t, <1>o, <2>1, <2>2 DEF CommandsNeedFaults
<1>4. CASE Commit \/ Restart
  <2>1. UNCHANGED <<created, events>> /\ at' <= at /\ done' <= at' /\ at' \in Nat
    BY <1>4, <1>t, <1>o DEF Commit, Restart, HandledExist
  <2>2. HandledExist'
    BY <1>1, <1>t, <1>o, <2>1 DEF HandledExist
  <2> QED BY <1>2, <1>3, <2>2 DEF OrdersInv
<1>5. CASE CreateOrder
  <2> DEFINE command == topic[at + 1]
  <2>1. /\ at' = at + 1 /\ done' = done /\ at + 1 \in DOMAIN topic
        /\ command \in ToSet(topic) /\ command.order \in OrderIds
    <3>1. at + 1 \in DOMAIN topic
      BY <1>5, <1>t DEF CreateOrder
    <3>2. command \in ToSet(topic)
      BY <3>1 DEF ToSet
    <3>3. command \in Command
      BY <3>2, CommandTypes
    <3> QED BY <1>5, <3>1, <3>2, <3>3 DEF CreateOrder, Command
  <2> HIDE DEF command
  <2>2. /\ command \in created'
        /\ created' \subseteq created \union {command} /\ created \subseteq created'
        /\ \A c \in created' : \E i \in DOMAIN events' : events'[i] = c.order
    <3>1. CASE Exists(command.order) /\ UNCHANGED <<created, events>>
      <4>1. PICK c \in created : c.order = command.order
        BY <3>1 DEF Exists
      <4>2. c = command
        BY <1>o, <2>1, <4>1 DEF HandledExist, IdsAreFresh
      <4> QED BY <1>o, <3>1, <4>1, <4>2 DEF HandledExist
    <3>2. CASE created' = created \union {command} /\ events' = Append(events, command.order)
      <4>1. /\ \A i \in DOMAIN events : i \in DOMAIN events' /\ events'[i] = events[i]
            /\ Len(events) + 1 \in DOMAIN events'
            /\ events'[Len(events) + 1] = command.order
        BY <1>t, <2>1, <3>2, Grows
      <4> QED BY <1>o, <3>2, <4>1 DEF HandledExist
    <3> QED BY <1>5, <3>1, <3>2 DEF CreateOrder, command
  <2>3. \A i \in 1..at' : topic[i] \in created'
    <3> SUFFICES ASSUME NEW i \in 1..at' PROVE topic[i] \in created'
      OBVIOUS
    <3>1. i \in 1..at \/ i = at + 1
      BY <1>t, <2>1
    <3> QED BY <1>o, <2>2, <3>1 DEF HandledExist, command
  <2>4. done' <= at'
    BY <1>t, <1>o, <2>1 DEF HandledExist
  <2>5. created' \subseteq ToSet(topic)
    BY <1>o, <2>1, <2>2 DEF HandledExist
  <2>6. HandledExist'
    BY <1>1, <2>2, <2>3, <2>4, <2>5 DEF HandledExist
  <2> QED BY <1>2, <1>3, <2>6 DEF OrdersInv
<1> QED
  BY <1>4, <1>5

LEMMA OrdersStep == IInv /\ OrdersInv /\ [Next]_vars => OrdersInv'
<1> SUFFICES ASSUME IInv, OrdersInv, [Next]_vars PROVE OrdersInv'
  OBVIOUS
<1>1. CASE UNCHANGED vars
  BY <1>1 DEF vars, clientVars, orderVars, OrdersInv, IdsAreFresh, MintedAreFresh,
              HandledExist, CommandsNeedFaults, CommandsOf
<1> QED
  BY <1>1, PostOrders, EmitOrders, ReplyOrders, ServiceOrders DEF Next

LEMMA OrdersInit == Init => OrdersInv
<1> SUFFICES ASSUME Init PROVE OrdersInv
  OBVIOUS
<1>1. ToSet(topic) = {}
  BY DEF Init, ToSet
<1>2. \A k \in Keys : CommandsOf(k) = {} /\ phase[k] = "new"
  BY <1>1 DEF CommandsOf, Init
<1>3. IdsAreFresh /\ MintedAreFresh
  BY <1>1, <1>2 DEF IdsAreFresh, MintedAreFresh
<1>4. HandledExist
  BY DEF Init, HandledExist
<1>5. CommandsNeedFaults
  BY <1>1, <1>2, FS_EmptySet DEF CommandsNeedFaults, Init
<1> QED
  BY <1>3, <1>4, <1>5 DEF OrdersInv

\* The invariant of order ids and orders.
THEOREM OrdersInvariance == Spec => []OrdersInv
  BY OrdersInit, OrdersStep, Invariance, PTL DEF Spec

\* No two commands carry the same order id, whoever repeats a request.
THEOREM FreshIds == Spec => []IdsAreFresh
  BY OrdersInvariance, PTL DEF OrdersInv

\* A request makes one order, and one more at most for each fault.
THEOREM RepeatsNeedFaults == Spec => []OrdersNeedFaults
<1>1. IInv /\ OrdersInv => OrdersNeedFaults
  <2> SUFFICES ASSUME IInv, OrdersInv, NEW k \in Keys
               PROVE  Cardinality({c \in created : c.key = k}) <= 1 + faults
    BY DEF OrdersNeedFaults
  <2> DEFINE S == {c \in created : c.key = k}
  <2>1. S \subseteq CommandsOf(k)
    BY DEF OrdersInv, HandledExist, CommandsOf
  <2>2. IsFiniteSet(CommandsOf(k))
    BY FS_Subset DEF OrdersInv, CommandsNeedFaults, CommandsOf
  <2>3. /\ Cardinality(S) <= Cardinality(CommandsOf(k)) /\ Cardinality(S) \in Nat
        /\ Cardinality(CommandsOf(k)) \in Nat
    BY <2>1, <2>2, FS_Subset, FS_CardinalityType
  <2>4. faults \in Nat
    BY CommandTypes
  <2>5. Cardinality(CommandsOf(k)) <= 1 + faults
    BY <2>3, <2>4 DEF OrdersInv, CommandsNeedFaults
  <2> QED BY <2>3, <2>4, <2>5
<1> QED
  BY <1>1, Invariance, OrdersInvariance, PTL

\* Once order-service is past every command, each accepted request has its order
\* and the event of it.
THEOREM RestMeansCreated == Spec => []AcceptedAtRest
<1>1. IInv /\ OrdersInv => AcceptedAtRest
  <2> SUFFICES ASSUME IInv, OrdersInv, at = Len(topic), NEW k \in Keys, told[k] # 0
               PROVE  /\ [order |-> told[k], key |-> k] \in created
                      /\ \E i \in DOMAIN events : events[i] = told[k]
    BY DEF AcceptedAtRest
  <2> DEFINE c == [order |-> told[k], key |-> k]
  <2>1. c \in ToSet(topic) /\ c.order = told[k]
    BY DEF IInv, NoFalseAccept
  <2> HIDE DEF c
  <2>2. PICK i \in DOMAIN topic : topic[i] = c
    BY <2>1 DEF ToSet
  <2>3. i \in 1..at
    BY <2>2, CommandTypes
  <2>4. c \in created
    BY <2>2, <2>3 DEF OrdersInv, HandledExist
  <2> QED BY <2>1, <2>4 DEF OrdersInv, HandledExist, c
<1> QED
  BY <1>1, Invariance, OrdersInvariance, PTL
=============================================================================
