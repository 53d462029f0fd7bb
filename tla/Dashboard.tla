------------------------------ MODULE Dashboard ------------------------------
(***************************************************************************)
(* One page of the frontend: the order form and its scenario buttons, the  *)
(* busy flag that all its calls share, the validation the gateway answers  *)
(* an order with, and the timeline with its filter and its groups.         *)
(***************************************************************************)
EXTENDS Integers, FiniteSets, Sequences

CONSTANTS
    Envelopes,   \* what the monitor pushes: <<correlation id, "step" or "letter">>
    Quantities,  \* what can be typed as a quantity: <<>>, or <<n>>
    Amounts,     \* what can be typed as an amount: <<>>, or <<n>>
    BoardSize,   \* MAX_EVENTS
    MaxCalls     \* bound: calls the page makes

ASSUME DashboardAssumption ==
    /\ \A e \in Envelopes : e[2] \in {"step", "letter"}
    /\ Quantities \subseteq Seq(Int) /\ Amounts \subseteq Seq(Int)
    /\ BoardSize \in Nat \ {0}
    /\ MaxCalls \in Nat

VARIABLES
    \* The command panel.
    form,        \* the order as it is typed
    generating,  \* a sample is on its way into the form
    \* The page.
    busy,        \* the scenario and replay buttons are disabled
    call,        \* call[c]: the kind of call number c, while it waits for its answer
    order,       \* order[c]: the body it carries
    made,        \* how many calls there were
    controls,    \* how many pauses and resumes were answered
    refused,     \* the bodies the gateway answered with 400
    \* The timeline.
    events,      \* the events the page keeps
    dlqOnly      \* only dead letters are shown

panelVars == <<form, generating>>
pageVars == <<busy, call, order, made, controls, refused>>
boardVars == <<events, dlqOnly>>
vars == <<panelVars, pageVars, boardVars>>

Calls == 1..MaxCalls
Guarded == {"order", "replay"}
GuardedCalls == {c \in Calls : call[c] \in Guarded}

\* A sku is a word or, once trimmed, nothing; a number that cannot be parsed is <<>>.
Forms == [sku : {"", "word"}, quantity : Quantities, amount : Amounts]
Bodies == [sku : {"", "word"}, quantity : Int, amount : Int]
NoOrder == [sku |-> "", quantity |-> 0, amount |-> 0]

-----------------------------------------------------------------------------
(* The command panel. *)

\* sampleOrder: a word, and numbers above zero.
Samples == {f \in Forms : /\ f.sku = "word"
                          /\ f.quantity # <<>> /\ f.quantity[1] >= 1
                          /\ f.amount # <<>> /\ f.amount[1] > 0}

\* JavaScript's  n || default : nothing and zero are replaced.
Or(n, default) == IF n = <<>> \/ n = <<0>> THEN default ELSE n[1]

AtLeastOne(n) == IF n < 1 THEN 1 ELSE n

\* Mutation: the quantity is not raised to one.
CoerceLoosely(f) ==
    [sku |-> "word", quantity |-> Or(f.quantity, 1), amount |-> Or(f.amount, 0)]

\* The form as an order; a missing sku becomes ITEM-1.
Coerce(f) ==
    [sku |-> IF f.sku = "" THEN "word" ELSE f.sku,
     quantity |-> AtLeastOne(Or(f.quantity, 1)),
     amount |-> Or(f.amount, 0)]

\* The body of a scenario: a sentinel takes the place of the sku.
BodyForScenario(sentinel, base) ==
    IF sentinel THEN [base EXCEPT !.sku = "word"] ELSE base

\* The fields can be shown and typed into at any time.
SetField ==
    /\ \/ \E sku \in {"", "word"} : form' = [form EXCEPT !.sku = sku]
       \/ \E n \in Quantities : form' = [form EXCEPT !.quantity = n]
       \/ \E n \in Amounts : form' = [form EXCEPT !.amount = n]
    /\ UNCHANGED <<generating, pageVars, boardVars>>

Generate ==
    /\ ~generating
    /\ generating' = TRUE
    /\ UNCHANGED <<form, pageVars, boardVars>>

\* The timer fires and overwrites what was typed since.
Generated ==
    /\ generating
    /\ form' \in Samples
    /\ generating' = FALSE
    /\ UNCHANGED <<pageVars, boardVars>>

-----------------------------------------------------------------------------
(* The page. *)

\* act: the flag goes up, the call goes out.
Act(kind, body) ==
    /\ made < MaxCalls
    /\ made' = made + 1
    /\ busy' = TRUE
    /\ call' = [call EXCEPT ![made'] = kind]
    /\ order' = [order EXCEPT ![made'] = body]
    /\ UNCHANGED <<controls, refused>>

\* Mutation: the buttons are not disabled.
AlwaysEnabled == TRUE

ButtonsEnabled == ~busy

Run(sentinel) ==
    /\ ButtonsEnabled
    /\ Act("order", BodyForScenario(sentinel, Coerce(form)))
    /\ UNCHANGED <<panelVars, boardVars>>

\* The replay wipes the board before it is granted.
Replay ==
    /\ ButtonsEnabled
    /\ Act("replay", NoOrder)
    /\ events' = <<>>
    /\ UNCHANGED <<panelVars, dlqOnly>>

\* A pause or a resume, whose buttons do not look at the flag.
Control ==
    /\ Act("control", NoOrder)
    /\ UNCHANGED <<panelVars, boardVars>>

\* CreateOrderDto.
Valid(body) == body.sku # "" /\ body.quantity >= 1 /\ body.amount >= 0

\* Mutation: an error is not followed by finally.
SettleIfAccepted(c) ==
    /\ busy' = (call[c] = "order" /\ ~Valid(order[c]))
    /\ call' = [call EXCEPT ![c] = "none"]
    /\ order' = [order EXCEPT ![c] = NoOrder]
    /\ controls' = IF call[c] = "control" THEN controls + 1 ELSE controls
    /\ UNCHANGED <<made, panelVars, boardVars>>

\* The call is over: finally lowers the flag, whatever else is under way.
Settle(c) ==
    /\ busy' = FALSE
    /\ call' = [call EXCEPT ![c] = "none"]
    /\ order' = [order EXCEPT ![c] = NoOrder]
    /\ controls' = IF call[c] = "control" THEN controls + 1 ELSE controls
    /\ UNCHANGED <<made, panelVars, boardVars>>

Refused(c) ==
    /\ call[c] = "order" /\ ~Valid(order[c])
    /\ refused' = refused \union {order[c]}

\* An answer, good or bad, or no connection.
Answer(c) ==
    /\ call[c] # "none"
    /\ Refused(c) \/ UNCHANGED refused
    /\ Settle(c)

-----------------------------------------------------------------------------
(* The timeline. *)

Latest(s) == IF Len(s) > BoardSize THEN Tail(s) ELSE s

\* The monitor pushes: in any order, and again after a redelivery or a replay.
Push(e) ==
    /\ events' = Latest(Append(events, e))
    /\ UNCHANGED <<panelVars, pageVars, dlqOnly>>

Clear ==
    /\ events' = <<>>
    /\ UNCHANGED <<panelVars, pageVars, dlqOnly>>

ToggleDlq ==
    /\ dlqOnly' = ~dlqOnly
    /\ UNCHANGED <<panelVars, pageVars, events>>

IsDlq(e) == e[2] = "letter"

\* Where the events that the filter lets through stand.
Visible == {i \in DOMAIN events : dlqOnly => IsDlq(events[i])}

CidOf(e) == e[1]
Cids == {CidOf(e) : e \in Envelopes}

\* The events of one group of the grouped view.
GroupOf(cid) == {i \in Visible : CidOf(events[i]) = cid}

\* Mutation: a group that gets an event moves to the end.
MovesToTheEnd(x, y) ==
    \E j \in GroupOf(y) : \A i \in GroupOf(x) : i < j

\* Groups stand in the insertion order of the Map, x before y: x was met first.
Precedes(x, y) ==
    GroupOf(y) # {} /\ \E i \in GroupOf(x) : \A j \in GroupOf(y) : i < j

-----------------------------------------------------------------------------

Init ==
    /\ form \in Samples
    /\ generating = FALSE
    /\ busy = FALSE
    /\ call = [c \in Calls |-> "none"]
    /\ order = [c \in Calls |-> NoOrder]
    /\ made = 0
    /\ controls = 0
    /\ refused = {}
    /\ events = <<>>
    /\ dlqOnly = FALSE

Next ==
    \/ SetField \/ Generate \/ Generated
    \/ \E sentinel \in BOOLEAN : Run(sentinel)
    \/ Replay \/ Control
    \/ \E c \in Calls : Answer(c)
    \/ \E e \in Envelopes : Push(e)
    \/ Clear \/ ToggleDlq

Spec == Init /\ [][Next]_vars

\* A fetch comes to an end: each service answers, or the connection fails.
FairSpec == Spec /\ \A c \in Calls : WF_vars(Answer(c))

-----------------------------------------------------------------------------
(* Properties. *)

\* The type of every variable; a call is out only under a number that was given.
TypeOK ==
    /\ form \in Forms
    /\ generating \in BOOLEAN
    /\ busy \in BOOLEAN
    /\ call \in [Calls -> Guarded \union {"control", "none"}]
    /\ order \in [Calls -> Bodies] /\ refused \subseteq Bodies
    /\ made \in 0..MaxCalls
    /\ \A c \in Calls : c > made => call[c] = "none"
    /\ controls \in Nat
    /\ events \in Seq(Envelopes) /\ Len(events) <= BoardSize
    /\ dlqOnly \in BOOLEAN

\* "Coerce the strings to a valid order at submit time": whatever is typed,
\* emptied or generated meanwhile, the gateway finds no fault with an order of
\* the panel other than an amount below zero, which the coercion lets through.
RefusedForAmount == \A body \in refused : body.amount < 0

\* "Every action shares the same busy-guard": the flag is one for all calls, so
\* that any answer enables the buttons.  However the answers are interleaved,
\* each pause or resume lets at most one more order or replay out beside the
\* one the guard allows.
GuardSlips == Cardinality(GuardedCalls) <= 1 + controls

\* The scenario and replay buttons come back after every click, also when the
\* call fails.
ButtonsComeBack == busy ~> ~busy

\* "Preserving the order each saga first appeared": under the same filter, a
\* group moves behind another only if the event that falls off a full board is
\* its own.
GroupsKeepOrder ==
    [][\A x, y \in Cids :
         UNCHANGED dlqOnly /\ Precedes(x, y) /\ Precedes(y, x)'
         => Len(events) = BoardSize /\ CidOf(events[1]) = x]_boardVars

\* No button stays disabled for a call that is over.
BusyIsExplained == busy => \E c \in Calls : call[c] # "none"
=============================================================================
