-------------------------- MODULE Dashboard_proofs --------------------------
(***************************************************************************)
(* Proofs about Dashboard, for every set of envelopes, everything that can *)
(* be typed and every bound.                                               *)
(***************************************************************************)
EXTENDS Dashboard, FiniteSetTheorems, TLAPS

(* The inductive invariant.  An order on its way to the gateway came out   *)
(* of the coercion; while the flag is down the guard has yet to let one    *)
(* call out, so that there is one less than GuardSlips allows.             *)

Coerced(body) == body.sku # "" /\ body.quantity >= 1

OrdersCoerced == \A c \in Calls : call[c] = "order" => Coerced(order[c])

RoomForOne == ~busy => Cardinality(GuardedCalls) <= controls

IInv == TypeOK /\ OrdersCoerced /\ RefusedForAmount /\ GuardSlips /\ RoomForOne

-----------------------------------------------------------------------------
(* Facts about the form, the board and the calls. *)

LEMMA OrTyped ==
  ASSUME NEW n \in Seq(Int), NEW default \in Int
  PROVE  Or(n, default) \in Int
<1>1. CASE n = <<>>
  BY <1>1 DEF Or
<1>2. CASE n # <<>>
  <2>1. n[1] \in Int
    BY <1>2
  <2> QED
    BY <2>1 DEF Or
<1> QED
  BY <1>1, <1>2

LEMMA CoerceTyped ==
  ASSUME NEW f \in Forms
  PROVE  Coerce(f) \in Bodies /\ Coerced(Coerce(f))
<1>1. f.quantity \in Seq(Int) /\ f.amount \in Seq(Int) /\ f.sku \in {"", "word"}
  BY DashboardAssumption DEF Forms
<1>2. Or(f.quantity, 1) \in Int /\ Or(f.amount, 0) \in Int
  <2>1. 1 \in Int /\ 0 \in Int
    OBVIOUS
  <2> QED
    BY <1>1, <2>1, OrTyped, Zenon
<1>3. AtLeastOne(Or(f.quantity, 1)) \in Int /\ AtLeastOne(Or(f.quantity, 1)) >= 1
  BY <1>2 DEF AtLeastOne
<1>4. Coerce(f).sku = "word"
  BY <1>1 DEF Coerce
<1>5. /\ Coerce(f).quantity = AtLeastOne(Or(f.quantity, 1))
      /\ Coerce(f).amount = Or(f.amount, 0)
  BY DEF Coerce
<1>6. Coerced(Coerce(f))
  BY <1>3, <1>4, <1>5 DEF Coerced
<1>7. Coerce(f) \in Bodies
  BY <1>1, <1>2, <1>3 DEF Coerce, Bodies
<1> QED
  BY <1>6, <1>7

LEMMA ScenarioTyped ==
  ASSUME NEW sentinel \in BOOLEAN, NEW f \in Forms
  PROVE  /\ BodyForScenario(sentinel, Coerce(f)) \in Bodies
         /\ Coerced(BodyForScenario(sentinel, Coerce(f)))
BY CoerceTyped DEF BodyForScenario, Bodies, Coerced

LEMMA NoOrderTyped == NoOrder \in Bodies
BY DEF NoOrder, Bodies

LEMMA LatestTyped ==
  ASSUME NEW s \in Seq(Envelopes), Len(s) <= BoardSize, NEW e \in Envelopes
  PROVE  /\ Latest(Append(s, e)) \in Seq(Envelopes)
         /\ Len(Latest(Append(s, e))) <= BoardSize
<1>1. Append(s, e) \in Seq(Envelopes) /\ Len(Append(s, e)) = Len(s) + 1
  OBVIOUS
<1>2. CASE Len(Append(s, e)) > BoardSize
  BY <1>1, <1>2, DashboardAssumption DEF Latest
<1>3. CASE ~(Len(Append(s, e)) > BoardSize)
  BY <1>1, <1>3, DashboardAssumption DEF Latest
<1> QED
  BY <1>2, <1>3

LEMMA GuardedFinite ==
  /\ IsFiniteSet(GuardedCalls) /\ Cardinality(GuardedCalls) \in Nat
  /\ IsFiniteSet(GuardedCalls)' /\ Cardinality(GuardedCalls)' \in Nat
<1>1. IsFiniteSet(Calls)
  BY DashboardAssumption, FS_Interval DEF Calls
<1>2. GuardedCalls \subseteq Calls /\ GuardedCalls' \subseteq Calls
  BY DEF GuardedCalls
<1>3. IsFiniteSet(GuardedCalls) /\ IsFiniteSet(GuardedCalls)'
  BY <1>1, <1>2, FS_Subset
<1> QED
  BY <1>3, FS_CardinalityType

LEMMA InitInv == Init => IInv
<1> SUFFICES ASSUME Init PROVE IInv
  OBVIOUS
<1>1. TypeOK
  <2>1. form \in Forms
    BY DEF Init, Samples
  <2>2. call \in [Calls -> Guarded \union {"control", "none"}]
    BY DEF Init
  <2>3. order \in [Calls -> Bodies]
    BY NoOrderTyped DEF Init
  <2>4. events \in Seq(Envelopes) /\ Len(events) <= BoardSize /\ made \in 0..MaxCalls
    BY DashboardAssumption DEF Init
  <2> QED
    BY <2>1, <2>2, <2>3, <2>4 DEF Init, TypeOK
<1>2. GuardedCalls = {}
  BY DEF Init, GuardedCalls, Guarded
<1>3. Cardinality(GuardedCalls) = 0
  BY <1>2, FS_EmptySet
<1>4. GuardSlips /\ RoomForOne
  BY <1>3 DEF Init, GuardSlips, RoomForOne
<1>5. OrdersCoerced /\ RefusedForAmount
  BY DEF Init, OrdersCoerced, RefusedForAmount
<1> QED
  BY <1>1, <1>4, <1>5 DEF IInv

-----------------------------------------------------------------------------
(* One lemma per group of actions. *)

LEMMA PanelInv ==
  ASSUME IInv, SetField \/ Generate \/ Generated
  PROVE  IInv'
<1>1. form' \in Forms /\ generating' \in BOOLEAN
  <2>1. CASE SetField
    BY <2>1 DEF IInv, TypeOK, SetField, Forms
  <2>2. CASE Generate
    BY <2>2 DEF IInv, TypeOK, Generate
  <2>3. CASE Generated
    BY <2>3 DEF Generated, Samples
  <2> QED
    BY <2>1, <2>2, <2>3
<1>2. UNCHANGED <<pageVars, boardVars>>
  BY DEF SetField, Generate, Generated
<1>3. TypeOK'
  BY <1>1, <1>2 DEF IInv, TypeOK, pageVars, boardVars
<1>4. GuardedCalls' = GuardedCalls
  BY <1>2 DEF GuardedCalls, pageVars
<1> QED
  BY <1>2, <1>3, <1>4
     DEF IInv, OrdersCoerced, RefusedForAmount, GuardSlips, RoomForOne, pageVars

LEMMA TimelineInv ==
  ASSUME IInv, (\E e \in Envelopes : Push(e)) \/ Clear \/ ToggleDlq
  PROVE  IInv'
<1>1. events' \in Seq(Envelopes) /\ Len(events') <= BoardSize /\ dlqOnly' \in BOOLEAN
  <2>1. ASSUME NEW e \in Envelopes, Push(e)
        PROVE  events' \in Seq(Envelopes) /\ Len(events') <= BoardSize /\ dlqOnly' \in BOOLEAN
    BY <2>1, LatestTyped DEF IInv, TypeOK, Push
  <2>2. CASE Clear
    BY <2>2, DashboardAssumption DEF IInv, TypeOK, Clear
  <2>3. CASE ToggleDlq
    BY <2>3 DEF IInv, TypeOK, ToggleDlq
  <2> QED
    BY <2>1, <2>2, <2>3
<1>2. UNCHANGED <<panelVars, pageVars>>
  BY DEF Push, Clear, ToggleDlq
<1>3. TypeOK'
  BY <1>1, <1>2 DEF IInv, TypeOK, panelVars, pageVars
<1>4. GuardedCalls' = GuardedCalls
  BY <1>2 DEF GuardedCalls, pageVars
<1> QED
  BY <1>2, <1>3, <1>4
     DEF IInv, OrdersCoerced, RefusedForAmount, GuardSlips, RoomForOne, pageVars

\* What Act does to the calls, whatever the kind.
LEMMA ActInv ==
  ASSUME IInv, NEW kind \in Guarded \union {"control"}, NEW body \in Bodies,
         kind = "order" => Coerced(body),
         kind \in Guarded => ~busy,
         Act(kind, body)
  PROVE  /\ call' \in [Calls -> Guarded \union {"control", "none"}]
         /\ order' \in [Calls -> Bodies] /\ refused' \subseteq Bodies
         /\ made' \in 0..MaxCalls /\ busy' = TRUE /\ controls' \in Nat
         /\ \A c \in Calls : c > made' => call'[c] = "none"
         /\ OrdersCoerced' /\ RefusedForAmount' /\ GuardSlips' /\ RoomForOne'
<1>1. made \in 0..MaxCalls /\ made' = made + 1 /\ made' \in Calls /\ made' \in 0..MaxCalls
  BY DashboardAssumption DEF IInv, TypeOK, Act, Calls
<1>2. call[made'] = "none"
  BY <1>1 DEF IInv, TypeOK
<1>3. \A c \in Calls : c > made' => call'[c] = "none"
  <2> TAKE c \in Calls
  <2>1. c \in Nat
    BY DEF Calls
  <2> QED
    BY <1>1, <2>1 DEF IInv, TypeOK, Act
<1>4. OrdersCoerced'
  BY <1>1 DEF IInv, TypeOK, OrdersCoerced, Act
<1>5. RefusedForAmount'
  BY DEF IInv, RefusedForAmount, Act
<1>6. ASSUME kind \in Guarded PROVE GuardSlips'
  <2>1. GuardedCalls' = GuardedCalls \union {made'}
    BY <1>1, <1>6 DEF GuardedCalls, IInv, TypeOK, Act
  <2>2. Cardinality(GuardedCalls') <= Cardinality(GuardedCalls) + 1
    BY <2>1, GuardedFinite, FS_AddElement
  <2>3. Cardinality(GuardedCalls) <= controls /\ controls \in Nat
    BY <1>6 DEF IInv, RoomForOne, TypeOK
  <2>4. controls' = controls
    BY DEF Act
  <2> QED
    BY <1>1, <2>2, <2>3, <2>4, GuardedFinite DEF GuardSlips
<1>7. ASSUME kind \notin Guarded PROVE GuardSlips'
  <2>1. GuardedCalls' = GuardedCalls
    BY <1>1, <1>2, <1>7 DEF GuardedCalls, Guarded, IInv, TypeOK, Act
  <2> QED
    BY <2>1 DEF IInv, GuardSlips, Act
<1>8. GuardSlips' /\ RoomForOne'
  BY <1>6, <1>7 DEF RoomForOne, Act
<1> QED
  BY <1>1, <1>3, <1>4, <1>5, <1>8 DEF IInv, TypeOK, Act

LEMMA CallInv ==
  ASSUME IInv, (\E sentinel \in BOOLEAN : Run(sentinel)) \/ Replay \/ Control
  PROVE  IInv'
<1>1. ASSUME NEW sentinel \in BOOLEAN, Run(sentinel)
      PROVE  IInv'
  <2>1. ~busy /\ "order" \in Guarded
    BY <1>1 DEF Run, ButtonsEnabled, Guarded
  <2>2. form \in Forms
    BY DEF IInv, TypeOK
  <2>3. Act("order", BodyForScenario(sentinel, Coerce(form)))
    BY <1>1 DEF Run
  <2> QED
    BY <1>1, <2>1, <2>2, <2>3, ScenarioTyped, ActInv
       DEF IInv, TypeOK, Run, panelVars, boardVars
<1>2. CASE Replay
  <2>1. ~busy /\ "replay" \in Guarded
    BY <1>2 DEF Replay, ButtonsEnabled, Guarded
  <2>2. events' \in Seq(Envelopes) /\ Len(events') <= BoardSize
    BY <1>2, DashboardAssumption DEF Replay
  <2> QED
    BY <1>2, <2>1, <2>2, NoOrderTyped, ActInv
       DEF IInv, TypeOK, Replay, panelVars
<1>3. CASE Control
  <2>1. "control" \notin Guarded
    BY DEF Guarded
  <2> QED
    BY <1>3, <2>1, NoOrderTyped, ActInv
       DEF IInv, TypeOK, Control, panelVars, boardVars
<1> QED
  BY <1>1, <1>2, <1>3

LEMMA AnswerInv ==
  ASSUME IInv, NEW c \in Calls, Answer(c)
  PROVE  IInv'
<1>1. c <= made /\ c \in Nat /\ made \in Nat /\ controls \in Nat
  BY DEF IInv, TypeOK, Answer, Calls
<1>2. OrdersCoerced'
  BY DEF IInv, TypeOK, OrdersCoerced, Answer, Settle
<1>3. RefusedForAmount' /\ refused' \subseteq Bodies
  <2>1. CASE UNCHANGED refused
    BY <2>1 DEF IInv, TypeOK, RefusedForAmount
  <2>2. CASE Refused(c)
    <3>1. order[c] \in Bodies /\ Coerced(order[c]) /\ ~Valid(order[c])
      BY <2>2 DEF Refused, IInv, TypeOK, OrdersCoerced
    <3>2. order[c].amount < 0
      <4>1. order[c].amount \in Int
        BY <3>1 DEF Bodies
      <4>2. ~(order[c].amount >= 0)
        BY <3>1, Zenon DEF Coerced, Valid
      <4> QED
        BY <4>1, <4>2
    <3> QED
      BY <2>2, <3>1, <3>2 DEF Refused, RefusedForAmount, IInv, TypeOK
  <2> QED
    BY <2>1, <2>2 DEF Answer
<1>4. ASSUME call[c] = "control" PROVE GuardSlips' /\ RoomForOne'
  <2>1. GuardedCalls' = GuardedCalls
    BY <1>4 DEF GuardedCalls, Guarded, IInv, TypeOK, Answer, Settle
  <2>2. controls' = controls + 1
    BY <1>4 DEF Answer, Settle
  <2>3. Cardinality(GuardedCalls) <= 1 + controls
    BY DEF IInv, GuardSlips
  <2> QED
    BY <1>1, <2>1, <2>2, <2>3, GuardedFinite DEF GuardSlips, RoomForOne
<1>5. ASSUME call[c] # "control" PROVE GuardSlips' /\ RoomForOne'
  <2>1. c \in GuardedCalls
    BY <1>5 DEF GuardedCalls, IInv, TypeOK, Answer
  <2>2. GuardedCalls' = GuardedCalls \ {c}
    BY DEF GuardedCalls, Guarded, IInv, TypeOK, Answer, Settle
  <2>3. Cardinality(GuardedCalls') = Cardinality(GuardedCalls) - 1
    BY <2>1, <2>2, GuardedFinite, FS_RemoveElement
  <2>4. controls' = controls
    BY <1>5 DEF Answer, Settle
  <2>5. Cardinality(GuardedCalls) <= 1 + controls
    BY DEF IInv, GuardSlips
  <2> QED
    BY <1>1, <2>3, <2>4, <2>5, GuardedFinite DEF GuardSlips, RoomForOne
<1>6. controls' \in Nat
  BY <1>1 DEF Answer, Settle
<1> QED
  BY <1>2, <1>3, <1>4, <1>5, <1>6, NoOrderTyped
     DEF IInv, TypeOK, Answer, Settle, panelVars, boardVars

LEMMA StepInv == IInv /\ [Next]_vars => IInv'
<1> SUFFICES ASSUME IInv, [Next]_vars PROVE IInv'
  OBVIOUS
<1>1. CASE SetField \/ Generate \/ Generated
  BY <1>1, PanelInv
<1>2. CASE (\E sentinel \in BOOLEAN : Run(sentinel)) \/ Replay \/ Control
  BY <1>2, CallInv
<1>3. CASE \E c \in Calls : Answer(c)
  BY <1>3, AnswerInv
<1>4. CASE (\E e \in Envelopes : Push(e)) \/ Clear \/ ToggleDlq
  BY <1>4, TimelineInv
<1>5. CASE UNCHANGED vars
  <2>1. UNCHANGED <<panelVars, pageVars, boardVars>>
    BY <1>5 DEF vars
  <2>2. GuardedCalls' = GuardedCalls
    BY <2>1 DEF GuardedCalls, pageVars
  <2> QED
    BY <2>1, <2>2 DEF IInv, TypeOK, OrdersCoerced, RefusedForAmount, GuardSlips,
                      RoomForOne, panelVars, pageVars, boardVars
<1> QED
  BY <1>1, <1>2, <1>3, <1>4, <1>5 DEF Next

-----------------------------------------------------------------------------
(* The theorems. *)

\* The inductive invariant holds in every run of the page.
THEOREM Invariance == Spec => []IInv
BY InitInv, StepInv, PTL DEF Spec

\* Whatever is typed, and whenever a sample overwrites it, the gateway refuses an
\* order of the panel only for an amount below zero.
THEOREM OnlyTheAmountIsRefused == Spec => []RefusedForAmount
<1>1. IInv => RefusedForAmount
  BY DEF IInv
<1> QED
  BY <1>1, Invariance, PTL

\* However calls and answers are interleaved, and however many there are, each
\* answered pause or resume lets one more order or replay past the busy flag.
THEOREM TheGuardSlipsOnce == Spec => []GuardSlips
<1>1. IInv => GuardSlips
  BY DEF IInv
<1> QED
  BY <1>1, Invariance, PTL

-----------------------------------------------------------------------------
(* The order of the groups. *)

\* Of two groups one at most stands before the other.
LEMMA PrecedesIsStrict ==
  ASSUME TypeOK, NEW x, NEW y, Precedes(x, y)
  PROVE  ~Precedes(y, x)
<1>1. \A i \in Visible : i \in Nat
  BY DEF Visible, TypeOK
<1>2. PICK i \in GroupOf(x) : \A j \in GroupOf(y) : i < j
  BY DEF Precedes
<1>3. i \in Nat /\ \A j \in GroupOf(y) : j \in Nat
  BY <1>1, <1>2 DEF GroupOf
<1>4. ASSUME NEW j \in GroupOf(y), j < i PROVE FALSE
  BY <1>2, <1>3, <1>4
<1> QED
  BY <1>2, <1>4 DEF Precedes

\* What a push does to a place on the board: nothing while there is room, and
\* one place up when there is none.
LEMMA PushShifts ==
  ASSUME TypeOK, NEW e \in Envelopes, Push(e)
  PROVE  \E shift \in {0, 1} :
           /\ shift = 1 => Len(events) = BoardSize
           /\ \A i \in DOMAIN events : i > shift =>
                i - shift \in DOMAIN events' /\ events'[i - shift] = events[i]
           /\ \A j \in DOMAIN events' : j + shift <= Len(events) =>
                j + shift \in DOMAIN events /\ events'[j] = events[j + shift]
<1> DEFINE s == Append(events, e)
<1>1. /\ events \in Seq(Envelopes) /\ Len(events) \in Nat /\ Len(events) <= BoardSize
      /\ BoardSize \in Nat \ {0}
  BY DashboardAssumption DEF TypeOK
<1>2. /\ s \in Seq(Envelopes) /\ Len(s) = Len(events) + 1
      /\ \A i \in 1..Len(events) : s[i] = events[i]
  BY <1>1
<1>3. events' = Latest(s)
  BY DEF Push
<1> HIDE DEF s
<1>4. CASE Len(s) > BoardSize
  <2>1. events' = Tail(s) /\ Len(events) = BoardSize
    BY <1>1, <1>2, <1>3, <1>4 DEF Latest
  <2>2. /\ Len(events') = Len(events) /\ events' \in Seq(Envelopes)
        /\ \A j \in 1..Len(events) : events'[j] = s[j + 1]
    BY <1>1, <1>2, <2>1
  <2>3. /\ \A i \in DOMAIN events : i > 1 =>
             i - 1 \in DOMAIN events' /\ events'[i - 1] = events[i]
        /\ \A j \in DOMAIN events' : j + 1 <= Len(events) =>
             j + 1 \in DOMAIN events /\ events'[j] = events[j + 1]
    <3>1. DOMAIN events = 1..Len(events) /\ DOMAIN events' = 1..Len(events)
      BY <1>1, <2>2
    <3>2. ASSUME NEW i \in DOMAIN events, i > 1
          PROVE  i - 1 \in DOMAIN events' /\ events'[i - 1] = events[i]
      <4>1. i - 1 \in 1..Len(events) /\ (i - 1) + 1 = i /\ i \in 1..Len(events)
        BY <1>1, <3>1, <3>2
      <4> QED BY <1>2, <2>2, <3>1, <4>1
    <3>3. ASSUME NEW j \in DOMAIN events', j + 1 <= Len(events)
          PROVE  j + 1 \in DOMAIN events /\ events'[j] = events[j + 1]
      <4>1. j + 1 \in 1..Len(events) /\ j \in 1..Len(events)
        BY <1>1, <3>1, <3>3
      <4> QED BY <1>2, <2>2, <3>1, <4>1
    <3> QED BY <3>2, <3>3
  <2> QED BY <2>1, <2>3
<1>5. CASE ~(Len(s) > BoardSize)
  <2>1. events' = s
    BY <1>3, <1>5 DEF Latest
  <2>2. /\ \A i \in DOMAIN events : i > 0 =>
             i - 0 \in DOMAIN events' /\ events'[i - 0] = events[i]
        /\ \A j \in DOMAIN events' : j + 0 <= Len(events) =>
             j + 0 \in DOMAIN events /\ events'[j] = events[j + 0]
    BY <1>1, <1>2, <2>1
  <2> QED BY <2>2
<1> QED
  BY <1>4, <1>5

LEMMA PushKeepsGroups ==
  ASSUME TypeOK, NEW e \in Envelopes, Push(e), NEW x \in Cids, NEW y \in Cids,
         Precedes(x, y), Precedes(y, x)'
  PROVE  Len(events) = BoardSize /\ CidOf(events[1]) = x
<1>1. PICK shift \in {0, 1} :
        /\ shift = 1 => Len(events) = BoardSize
        /\ \A i \in DOMAIN events : i > shift =>
             i - shift \in DOMAIN events' /\ events'[i - shift] = events[i]
        /\ \A j \in DOMAIN events' : j + shift <= Len(events) =>
             j + shift \in DOMAIN events /\ events'[j] = events[j + shift]
  BY PushShifts
<1>2. /\ dlqOnly' = dlqOnly /\ Len(events) \in Nat /\ DOMAIN events = 1..Len(events)
      /\ DOMAIN events' \subseteq Nat
  <2>1. events' \in Seq(Envelopes)
    BY LatestTyped DEF TypeOK, Push
  <2> QED BY <2>1 DEF TypeOK, Push
<1>3. PICK i \in GroupOf(x) : \A j \in GroupOf(y) : i < j
  BY DEF Precedes
<1>4. PICK j \in GroupOf(y)' : \A k \in GroupOf(x)' : j < k
  BY DEF Precedes
<1>5. /\ i \in DOMAIN events /\ i \in Nat /\ i >= 1 /\ i <= Len(events)
      /\ j \in DOMAIN events' /\ j \in Nat
  BY <1>2, <1>3, <1>4 DEF GroupOf, Visible
<1>6. ASSUME i > shift PROVE FALSE
  <2>1. i - shift \in GroupOf(x)'
    BY <1>1, <1>2, <1>3, <1>5, <1>6 DEF GroupOf, Visible, IsDlq, CidOf
  <2>2. j + shift < i
    BY <1>1, <1>4, <1>5, <2>1
  <2>3. j + shift \in GroupOf(y)
    BY <1>1, <1>2, <1>4, <1>5, <2>2 DEF GroupOf, Visible, IsDlq, CidOf
  <2> QED BY <1>3, <1>5, <2>2, <2>3
<1>7. shift = 1 /\ i = 1
  BY <1>5, <1>6
<1> QED
  BY <1>1, <1>3, <1>7 DEF GroupOf

\* On a board of any size, under the same filter, a group of the timeline moves
\* behind another only if the event that falls off the full board is its own.
THEOREM GroupsStayInPlace == Spec => GroupsKeepOrder
<1> DEFINE Kept == \A x, y \in Cids :
              UNCHANGED dlqOnly /\ Precedes(x, y) /\ Precedes(y, x)'
              => Len(events) = BoardSize /\ CidOf(events[1]) = x
<1>1. IInv /\ [Next]_vars => Kept
  <2> SUFFICES ASSUME IInv, [Next]_vars, NEW x \in Cids, NEW y \in Cids,
                      UNCHANGED dlqOnly, Precedes(x, y), Precedes(y, x)'
               PROVE  Len(events) = BoardSize /\ CidOf(events[1]) = x
    OBVIOUS
  <2>1. TypeOK
    BY DEF IInv
  <2>2. CASE UNCHANGED events
    <3>1. Precedes(y, x)
      BY <2>2 DEF Precedes, GroupOf, Visible
    <3> QED BY <2>1, <3>1, PrecedesIsStrict
  <2>3. CASE events' = <<>>
    BY <2>3 DEF Precedes, GroupOf, Visible
  <2>4. CASE \E e \in Envelopes : Push(e)
    BY <2>1, <2>4, PushKeepsGroups
  <2>5. \/ UNCHANGED events
        \/ events' = <<>>
        \/ \E e \in Envelopes : Push(e)
    BY DEF Next, SetField, Generate, Generated, Run, Replay, Control, Answer, Settle,
           Clear, ToggleDlq, boardVars, vars
  <2> QED BY <2>2, <2>3, <2>4, <2>5
<1>2. Kept => [Kept]_boardVars
  OBVIOUS
<1> QED
  BY <1>1, <1>2, Invariance, PTL DEF Spec, GroupsKeepOrder

\* The buttons are disabled only while a call is out: the flag never stays up
\* for a call that is over.
THEOREM DisabledForACall == Spec => []BusyIsExplained
<1>1. Init => BusyIsExplained
  BY DEF Init, BusyIsExplained
<1>2. IInv /\ BusyIsExplained /\ [Next]_vars => BusyIsExplained'
  <2> SUFFICES ASSUME IInv, BusyIsExplained, [Next]_vars PROVE BusyIsExplained'
    OBVIOUS
  <2>1. CASE UNCHANGED <<busy, call>>
    BY <2>1 DEF BusyIsExplained
  <2>2. ASSUME NEW c \in Calls, Answer(c) PROVE BusyIsExplained'
    BY <2>2 DEF Answer, Settle, BusyIsExplained
  <2>3. ASSUME NEW kind \in Guarded \union {"control"}, NEW body, Act(kind, body)
        PROVE  BusyIsExplained'
    <3>1. made + 1 \in Calls /\ kind # "none"
      BY <2>3, DashboardAssumption DEF IInv, TypeOK, Act, Calls, Guarded
    <3> QED BY <2>3, <3>1 DEF IInv, TypeOK, Act, BusyIsExplained
  <2>4. CASE (\E sentinel \in BOOLEAN : Run(sentinel)) \/ Replay \/ Control
    BY <2>3, <2>4 DEF Run, Replay, Control, Guarded
  <2> QED
    BY <2>1, <2>2, <2>4 DEF Next, SetField, Generate, Generated, Push, Clear, ToggleDlq,
                            pageVars, vars
<1> QED
  BY <1>1, <1>2, Invariance, PTL DEF Spec
=============================================================================
