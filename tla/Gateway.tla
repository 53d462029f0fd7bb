------------------------------- MODULE Gateway -------------------------------
(***************************************************************************)
(* POST /orders: a client that repeats a request with its Idempotency-Key  *)
(* until it is accepted, the gateway, and order-service at the other end   *)
(* of order.create.  Every request is given an order id of its own.        *)
(***************************************************************************)
EXTENDS Naturals, SequencesExt

CONSTANTS
    Keys,      \* the client's requests, by idempotency key
    MaxPosts,  \* bound: POSTs, repeated ones included
    MaxFaults  \* bound: failed sends, lost answers, restarts of order-service

ASSUME GatewayAssumption ==
    /\ MaxPosts \in Nat
    /\ MaxFaults \in Nat

VARIABLES
    phase,    \* phase[k]: the state of the request in the client's eyes and the gateway's
    order,    \* order[k]: the order id of its last POST
    posts,    \* POSTs so far; each mints the next order id
    topic,    \* the log of order.create
    told,     \* told[k]: the order id the 202 gave, 0 before
    at,       \* commands order-service handled ...
    done,     \* ... and the offset it committed
    created,  \* the commands whose order exists
    events,   \* the order.created events in the outbox, by order id
    faults    \* how many faults happened

clientVars == <<phase, order, posts, told>>
orderVars == <<at, done, created, events>>
vars == <<clientVars, topic, orderVars, faults>>

OrderIds == 1..MaxPosts
Command == [order : OrderIds, key : Keys]

Init ==
    /\ phase = [k \in Keys |-> "new"]
    /\ order = [k \in Keys |-> 0]
    /\ posts = 0
    /\ topic = <<>>
    /\ told = [k \in Keys |-> 0]
    /\ at = 0
    /\ done = 0
    /\ created = {}
    /\ events = <<>>
    /\ faults = 0

Fault == /\ faults < MaxFaults
         /\ faults' = faults + 1

\* Mutation: the key of the request is taken for the order id.
PostKeyAsId(k) ==
    /\ phase[k] \in {"new", "failed"}
    /\ posts < MaxPosts
    /\ posts' = posts + 1
    /\ order' = [order EXCEPT ![k] = k]
    /\ phase' = [phase EXCEPT ![k] = "minted"]
    /\ UNCHANGED <<told, topic, orderVars, faults>>

\* A first request, or the next try of one that was not answered with a 202.
Post(k) ==
    /\ phase[k] \in {"new", "failed"}
    /\ posts < MaxPosts
    /\ posts' = posts + 1
    /\ order' = [order EXCEPT ![k] = posts + 1]
    /\ phase' = [phase EXCEPT ![k] = "minted"]
    /\ UNCHANGED <<told, topic, orderVars, faults>>

Forwarded(k) == Append(topic, [order |-> order[k], key |-> k])

\* Mutation: the send is not awaited, so it may come to nothing.
EmitUnawaited(k) ==
    /\ phase[k] = "minted"
    /\ topic' \in {topic, Forwarded(k)}
    /\ phase' = [phase EXCEPT ![k] = "sent"]
    /\ UNCHANGED <<order, posts, told, orderVars, faults>>

Emit(k) ==
    /\ phase[k] = "minted"
    /\ topic' = Forwarded(k)
    /\ phase' = [phase EXCEPT ![k] = "sent"]
    /\ UNCHANGED <<order, posts, told, orderVars, faults>>

\* The send rejects, before or after the broker took the command: a 500.
EmitFails(k) ==
    /\ phase[k] = "minted"
    /\ Fault
    /\ topic' \in {topic, Forwarded(k)}
    /\ phase' = [phase EXCEPT ![k] = "failed"]
    /\ UNCHANGED <<order, posts, told, orderVars>>

Reply(k) ==
    /\ phase[k] = "sent"
    /\ phase' = [phase EXCEPT ![k] = "accepted"]
    /\ told' = [told EXCEPT ![k] = order[k]]
    /\ UNCHANGED <<order, posts, topic, orderVars, faults>>

\* The client never sees the 202.
ReplyLost(k) ==
    /\ phase[k] = "sent"
    /\ Fault
    /\ phase' = [phase EXCEPT ![k] = "failed"]
    /\ UNCHANGED <<order, posts, told, topic, orderVars>>

-----------------------------------------------------------------------------
(* order-service. *)

Exists(o) == \E c \in created : c.order = o

\* Mutation: no idempotency check.
CreateOrderAgain ==
    /\ at < Len(topic)
    /\ at' = at + 1
    /\ created' = created \union {topic[at + 1]}
    /\ events' = Append(events, topic[at + 1].order)
    /\ UNCHANGED <<clientVars, topic, done, faults>>

\* The order and its event, unless the order id exists.
CreateOrder ==
    /\ at < Len(topic)
    /\ at' = at + 1
    /\ LET command == topic[at + 1] IN
       \/ /\ Exists(command.order)
          /\ UNCHANGED <<created, events>>
       \/ /\ ~Exists(command.order)
          /\ created' = created \union {command}
          /\ events' = Append(events, command.order)
    /\ UNCHANGED <<clientVars, topic, done, faults>>

Commit ==
    /\ done < at
    /\ done' = at
    /\ UNCHANGED <<clientVars, topic, at, created, events, faults>>

Restart ==
    /\ Fault
    /\ at' = done
    /\ UNCHANGED <<clientVars, topic, done, created, events>>

-----------------------------------------------------------------------------

Next ==
    \/ \E k \in Keys :
         Post(k) \/ Emit(k) \/ EmitFails(k) \/ Reply(k) \/ ReplyLost(k)
    \/ CreateOrder \/ Commit \/ Restart

\* The gateway settles what it awaits and order-service consumes.  A client
\* need not try again.
Fairness ==
    /\ \A k \in Keys : WF_vars(Emit(k)) /\ WF_vars(Reply(k))
    /\ WF_vars(CreateOrder)

Spec == Init /\ [][Next]_vars
FairSpec == Spec /\ Fairness

-----------------------------------------------------------------------------
(* Properties. *)

\* Every variable has its type.
TypeOK ==
    /\ phase \in [Keys -> {"new", "minted", "sent", "accepted", "failed"}]
    /\ order \in [Keys -> 0..posts]
    /\ posts \in 0..MaxPosts
    /\ topic \in Seq(Command)
    /\ told \in [Keys -> 0..posts]
    /\ at \in 0..Len(topic)
    /\ done \in 0..Len(topic)
    /\ created \subseteq Command
    /\ events \in Seq(OrderIds)
    /\ faults \in 0..MaxFaults

\* No "false 202": the order a client was told of is on its way or exists, and
\* it is the order of that client's own request.
NoFalseAccept ==
    \A k \in Keys :
        told[k] # 0 => [order |-> told[k], key |-> k] \in ToSet(topic)

\* An order is announced once, however often its command is handled.
AnnouncedOnce == IsInjective(events)

\* Every POST that reaches the topic has an order id no other one has, so that
\* order-service never takes one order for another.
IdsAreFresh == \A c, d \in ToSet(topic) : c.order = d.order => c = d

\* The key that the gateway passes on dedupes nothing, so a request may make
\* several orders; but beyond the first each costs a failed send or a lost answer.
OrdersNeedFaults ==
    \A k \in Keys : Cardinality({c \in created : c.key = k}) <= 1 + faults

\* Once order-service is past every command, the order of every accepted request
\* exists and is announced.
AcceptedAtRest ==
    at = Len(topic) => \A k \in Keys : told[k] # 0 =>
        /\ [order |-> told[k], key |-> k] \in created
        /\ \E i \in DOMAIN events : events[i] = told[k]

\* An accepted request leads to its order.
AcceptedIsCreated ==
    \A k \in Keys :
        phase[k] = "accepted" ~> [order |-> told[k], key |-> k] \in created

\* "Honors an Idempotency-Key header": the tries of one request make one order.
OneOrderPerKey == \A c, d \in created : c.key = d.key => c = d
=============================================================================
