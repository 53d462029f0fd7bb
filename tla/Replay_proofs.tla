---------------------------- MODULE Replay_proofs ----------------------------
(***************************************************************************)
(* Proofs about Replay, for any number of browsers, requests and topics,   *)
(* any board size and every bound.                                         *)
(***************************************************************************)
EXTENDS Replay, TLAPS

(* The inductive invariant.  The guard of a replay is on a flag, and it    *)
(* keeps the replays apart because the flag is up exactly while one of     *)
(* them runs; a request that was not made yet is at its beginning.         *)

Unmade ==
  \A r \in Requests : r > asks => request[r] = "none" /\ topic[r] = 1

IInv == TypeOK /\ OneReplay /\ Unmade

-----------------------------------------------------------------------------
(* Facts about the constants and the board. *)

LEMMA PlanFacts ==
  /\ MaxReplays \in Nat /\ MaxOthers \in Nat /\ MaxFaults \in Nat /\ BoardSize \in Nat \ {0}
  /\ Len(TopicOrder) \in Nat
  /\ \A topics \in Plans : Len(topics) \in Nat \ {0}
BY ReplayAssumption DEF Plans

LEMMA PlanTopics ==
  ASSUME NEW topics \in Plans, NEW i \in 1..Len(topics)
  PROVE  topics[i] \in Topics
BY ReplayAssumption DEF Plans, Topics, Replayable, ToSet

LEMMA LatestTyped ==
  ASSUME NEW s \in Seq(Event), Len(s) <= BoardSize, NEW e \in Event
  PROVE  /\ Latest(Append(s, e)) \in Seq(Event)
         /\ Len(Latest(Append(s, e))) <= BoardSize
<1>1. Append(s, e) \in Seq(Event) /\ Len(Append(s, e)) = Len(s) + 1
  OBVIOUS
<1>2. CASE Len(Append(s, e)) > BoardSize
  BY <1>1, <1>2, PlanFacts DEF Latest
<1>3. CASE ~(Len(Append(s, e)) > BoardSize)
  BY <1>1, <1>3, PlanFacts DEF Latest
<1> QED
  BY <1>2, <1>3

LEMMA EmitTyped ==
  ASSUME BrowsersTyped, NEW e \in Event, Emit(e)
  PROVE  /\ board' \in [Browsers -> Seq(Event)]
         /\ \A b \in Browsers : Len(board'[b]) <= BoardSize
<1>1. ASSUME NEW b \in Browsers
      PROVE  board'[b] \in Seq(Event) /\ Len(board'[b]) <= BoardSize
  BY LatestTyped DEF BrowsersTyped, Emit
<1> QED
  BY <1>1 DEF Emit

LEMMA InitInv == Init => IInv
<1> SUFFICES ASSUME Init PROVE IInv
  OBVIOUS
<1>1. TopicOrder \in Plans
  BY DEF Plans
<1>2. Nothing \in [Replayable -> Nat]
  BY DEF Nothing
<1>3. TopicsTyped
  BY PlanFacts DEF Init, TopicsTyped
<1>4. BrowsersTyped
  BY <1>2, PlanFacts DEF Init, BrowsersTyped
<1>5. RequestsTyped
  <2>1. plan \in [Requests -> Plans]
    BY <1>1 DEF Init
  <2>2. /\ asker \in [Requests -> Browsers \union {"caller"}]
        /\ request = [r \in Requests |-> "none"]
    BY DEF Init
  <2>3. asks \in 0..MaxReplays
    BY PlanFacts DEF Init
  <2>4. replaying \in BOOLEAN
    BY DEF Init
  <2> QED
    <3>1. "none" \in Phases
      BY DEF Phases
    <3>2. request \in [Requests -> Phases]
      BY <2>2, <3>1
    <3> QED
      BY <2>1, <2>2, <2>3, <2>4, <3>2 DEF RequestsTyped
<1>6. RunsTyped
  <2>1. TopicOrder \in Plans /\ Len(TopicOrder) \in Nat \ {0}
    BY <1>1, PlanFacts
  <2>2. \A r \in Requests : topic[r] \in 1..Len(plan[r])
    BY <2>1 DEF Init
  <2> QED
    BY <2>2 DEF Init, RunsTyped
<1>7. OneReplay /\ Unmade
  BY DEF Init, OneReplay, Unmade, Running
<1> QED
  BY <1>3, <1>4, <1>5, <1>6, <1>7 DEF IInv, TypeOK

-----------------------------------------------------------------------------
(* The topics and the browsers: nothing here moves a request. *)

LEMMA RequestsKept ==
  ASSUME IInv, UNCHANGED <<askVars, request, replaying, runVars>>
  PROVE  RequestsTyped' /\ RunsTyped' /\ OneReplay' /\ Unmade'
BY DEF IInv, TypeOK, RequestsTyped, RunsTyped, OneReplay, Unmade, askVars, runVars

LEMMA FaultTyped ==
  ASSUME TopicsTyped, UNCHANGED logVars, Fault \/ UNCHANGED faults
  PROVE  TopicsTyped'
BY PlanFacts DEF TopicsTyped, logVars, Fault

LEMMA PublishInv ==
  ASSUME IInv, NEW t \in Topics, Publish(t)
  PROVE  IInv'
<1>1. TopicsTyped'
  BY DEF IInv, TypeOK, TopicsTyped, Publish
<1>2. BrowsersTyped'
  BY DEF IInv, TypeOK, BrowsersTyped, Publish, browserVars
<1> QED
  BY <1>1, <1>2, RequestsKept DEF IInv, TypeOK, Publish

LEMMA PushLiveInv ==
  ASSUME IInv, NEW t \in Topics, PushLive(t)
  PROVE  IInv'
<1>1. TopicsTyped'
  BY DEF IInv, TypeOK, TopicsTyped, PushLive
<1>2. <<t, live[t]>> \in Event
  BY DEF IInv, TypeOK, TopicsTyped, Event
<1>3. BrowsersTyped'
  BY <1>2, EmitTyped DEF IInv, TypeOK, BrowsersTyped, PushLive
<1> QED
  BY <1>1, <1>3, RequestsKept DEF IInv, TypeOK, PushLive

\* A step of a browser that is no request.
LEMMA BrowserInv ==
  ASSUME IInv, NEW b \in Browsers,
         Clear(b) \/ OtherStarts(b) \/ OtherEnds(b) \/ Disconnect(b) \/ Reconnect(b)
  PROVE  IInv'
<1> USE DEF Clear, OtherStarts, OtherEnds, Disconnect, Reconnect
<1>1. Nothing \in [Replayable -> Nat]
  BY DEF Nothing
<1>2. TopicsTyped'
  BY FaultTyped DEF IInv, TypeOK
<1>3. <<>> \in Seq(Event) /\ Len(<<>>) = 0
  OBVIOUS
<1>4. CASE Clear(b)
  BY <1>1, <1>2, <1>3, <1>4, RequestsKept, PlanFacts DEF IInv, TypeOK, BrowsersTyped
<1>5. CASE OtherStarts(b) \/ OtherEnds(b)
  <2>1. others' \in [Browsers -> 0..MaxOthers]
    BY <1>5, PlanFacts DEF IInv, TypeOK, BrowsersTyped
  <2> QED
    BY <1>2, <1>5, <2>1, RequestsKept DEF IInv, TypeOK, BrowsersTyped
<1>6. CASE Disconnect(b)
  BY <1>1, <1>2, <1>6, RequestsKept DEF IInv, TypeOK, BrowsersTyped
<1>7. CASE Reconnect(b)
  BY <1>2, <1>7, RequestsKept DEF IInv, TypeOK, BrowsersTyped
<1> QED
  BY <1>4, <1>5, <1>6, <1>7

-----------------------------------------------------------------------------
(* Requests. *)

LEMMA PostInv ==
  ASSUME IInv, NEW who \in Browsers \union {"caller"}, NEW topics \in Plans,
         Post(who, topics), UNCHANGED <<replaying, runVars>>
  PROVE  RequestsTyped' /\ RunsTyped' /\ OneReplay' /\ Unmade' /\ asks' \in Requests
<1>1. asks' \in Requests /\ asks' = asks + 1 /\ asks \in Nat
  BY PlanFacts DEF IInv, TypeOK, RequestsTyped, Post, Requests
<1>2. request[asks'] = "none" /\ topic[asks'] = 1
  BY <1>1 DEF IInv, Unmade
<1>3. RequestsTyped'
  BY <1>1, PlanFacts DEF IInv, TypeOK, RequestsTyped, Post, Phases
<1>4. RunsTyped'
  BY <1>1, <1>2, PlanFacts DEF IInv, TypeOK, RequestsTyped, RunsTyped, Post, runVars
<1>5. \A r \in Requests : request'[r] \in Running <=> request[r] \in Running
  BY <1>1, <1>2 DEF IInv, TypeOK, RequestsTyped, Post, Running
<1>6. OneReplay'
  BY <1>5 DEF IInv, OneReplay
<1>7. Unmade'
  BY <1>1, PlanFacts DEF IInv, TypeOK, RequestsTyped, Unmade, Post, Requests, runVars
<1> QED
  BY <1>1, <1>3, <1>4, <1>6, <1>7

LEMMA AskInv ==
  ASSUME IInv, NEW b \in Browsers, Ask(b)
  PROVE  IInv'
<1>1. TopicOrder \in Plans
  BY DEF Plans
<1>2. RequestsTyped' /\ RunsTyped' /\ OneReplay' /\ Unmade' /\ asks' \in Requests
  BY <1>1, PostInv DEF Ask
<1>3. TopicsTyped'
  BY FaultTyped DEF IInv, TypeOK, Ask
<1>4. /\ [t \in Replayable |-> head[t]] \in [Replayable -> Nat]
      /\ Nothing \in [Replayable -> Nat]
  BY DEF IInv, TypeOK, TopicsTyped, Topics, Nothing
<1>5. owed' \in [Browsers -> [Replayable -> Nat]]
  BY <1>4 DEF IInv, TypeOK, BrowsersTyped, Ask
<1>6. <<>> \in Seq(Event) /\ Len(<<>>) = 0
  OBVIOUS
<1>7. BrowsersTyped'
  BY <1>2, <1>5, <1>6, PlanFacts DEF IInv, TypeOK, BrowsersTyped, Ask, Requests
<1> QED
  BY <1>2, <1>3, <1>7 DEF IInv, TypeOK

LEMMA CallInv ==
  ASSUME IInv, NEW topics \in Plans, Call(topics)
  PROVE  IInv'
<1>1. RequestsTyped' /\ RunsTyped' /\ OneReplay' /\ Unmade'
  BY PostInv DEF Call
<1>2. TopicsTyped'
  BY FaultTyped DEF IInv, TypeOK, Call
<1>3. BrowsersTyped'
  BY DEF IInv, TypeOK, BrowsersTyped, Call, browserVars
<1> QED
  BY <1>1, <1>2, <1>3 DEF IInv, TypeOK

-----------------------------------------------------------------------------
(* The service.  A step moves one request, that was made, to another phase. *)

LEMMA PhaseTyped ==
  ASSUME IInv, NEW r \in Requests, request[r] # "none", NEW phase \in Phases,
         Proceed(r, phase) \/ Answer(r, phase),
         UNCHANGED askVars, replaying' \in BOOLEAN
  PROVE  RequestsTyped' /\ r <= asks
<1>1. r <= asks
  BY PlanFacts DEF IInv, TypeOK, RequestsTyped, Unmade, Requests
<1> QED
  BY <1>1 DEF IInv, TypeOK, RequestsTyped, Proceed, Answer, askVars

\* Other requests, those not made yet among them, stay as they are.
LEMMA OthersKept ==
  ASSUME IInv, NEW r \in Requests, r <= asks, NEW phase,
         Proceed(r, phase) \/ Answer(r, phase), UNCHANGED asks,
         \A q \in Requests : q # r => topic'[q] = topic[q]
  PROVE  Unmade' /\ \A q \in Requests : q # r => request'[q] = request[q]
<1>1. \A q \in Requests : q # r => request'[q] = request[q]
  BY DEF IInv, TypeOK, RequestsTyped, Proceed, Answer
<1>2. \A q \in Requests : q > asks => q # r
  BY PlanFacts DEF IInv, TypeOK, RequestsTyped, Requests
<1> QED
  BY <1>1, <1>2 DEF IInv, Unmade

\* A step outside of a replay.
LEMMA OutsideInv ==
  ASSUME IInv, NEW r \in Requests, request[r] \notin Running,
         NEW phase \in Phases \ Running,
         \A q \in Requests : q # r => request'[q] = request[q],
         request'[r] = phase, UNCHANGED replaying
  PROVE  OneReplay'
<1>1. \A q \in Requests : request'[q] \in Running <=> request[q] \in Running
  OBVIOUS
<1> QED
  BY <1>1 DEF IInv, OneReplay

\* A step of the running replay.
LEMMA InsideInv ==
  ASSUME IInv, NEW r \in Requests, request[r] \in Running,
         NEW phase \in Running,
         \A q \in Requests : q # r => request'[q] = request[q],
         request'[r] = phase, UNCHANGED replaying
  PROVE  OneReplay'
<1>1. \A q \in Requests : request'[q] \in Running <=> request[q] \in Running
  OBVIOUS
<1> QED
  BY <1>1 DEF IInv, OneReplay

\* The end of the running replay.
LEMMA EndInv ==
  ASSUME IInv, NEW r \in Requests, request[r] \in Running,
         NEW answer \in Phases \ Running,
         \A q \in Requests : q # r => request'[q] = request[q],
         request'[r] = answer, replaying' = FALSE
  PROVE  OneReplay'
<1>1. \A q \in Requests : request'[q] \notin Running
  BY DEF IInv, OneReplay
<1> QED
  BY <1>1 DEF OneReplay
-----------------------------------------------------------------------------

\* What a step of the service does not touch.
LEMMA ServiceFrame ==
  ASSUME IInv, UNCHANGED logVars, Fault \/ UNCHANGED faults,
         UNCHANGED <<connected, others, last>>,
         busy' \in [Browsers -> BOOLEAN],
         owed' \in [Browsers -> [Replayable -> Nat]],
         board' \in [Browsers -> Seq(Event)],
         \A b \in Browsers : Len(board'[b]) <= BoardSize
  PROVE  TopicsTyped' /\ BrowsersTyped'
BY FaultTyped DEF IInv, TypeOK, BrowsersTyped

LEMMA BusyTyped ==
  ASSUME IInv, NEW r, NEW phase, Proceed(r, phase) \/ Answer(r, phase)
  PROVE  /\ busy' \in [Browsers -> BOOLEAN] /\ UNCHANGED others
         /\ \A q \in Requests :
              request'[q] = IF q = r THEN phase ELSE request[q]
BY DEF IInv, TypeOK, BrowsersTyped, RequestsTyped, Proceed, Answer

LEMMA ForgiveTyped ==
  ASSUME IInv, NEW r, Forgive(r) \/ UNCHANGED owed
  PROVE  owed' \in [Browsers -> [Replayable -> Nat]]
<1>1. Nothing \in [Replayable -> Nat]
  BY DEF Nothing
<1> QED
  BY <1>1 DEF IInv, TypeOK, BrowsersTyped, Forgive

\* The typing of a step of the service that moves request r to a phase.
LEMMA StepTyped ==
  ASSUME IInv, NEW r \in Requests, request[r] # "none", NEW phase \in Phases,
         Proceed(r, phase) \/ Answer(r, phase),
         UNCHANGED <<logVars, connected, last, askVars>>,
         replaying' \in BOOLEAN,
         Fault \/ UNCHANGED faults,
         Forgive(r) \/ UNCHANGED owed,
         UNCHANGED board \/ \E e \in Event : Emit(e),
         \A q \in Requests : q # r => topic'[q] = topic[q]
  PROVE  /\ TopicsTyped' /\ BrowsersTyped' /\ RequestsTyped' /\ Unmade'
         /\ request'[r] = phase
         /\ \A q \in Requests : q # r => request'[q] = request[q]
<1>1. /\ board' \in [Browsers -> Seq(Event)]
      /\ \A b \in Browsers : Len(board'[b]) <= BoardSize
  BY EmitTyped DEF IInv, TypeOK, BrowsersTyped
<1>2. TopicsTyped' /\ BrowsersTyped'
  BY <1>1, ServiceFrame, BusyTyped, ForgiveTyped
<1>3. RequestsTyped' /\ r <= asks
  BY PhaseTyped
<1>4. Unmade' /\ \A q \in Requests : q # r => request'[q] = request[q]
  BY <1>3, OthersKept DEF askVars
<1> QED
  BY <1>2, <1>3, <1>4, BusyTyped

LEMMA PhaseFacts ==
  /\ Running \subseteq Phases /\ Answers \subseteq Phases \ Running
  /\ {"mark", "drain", "close"} \subseteq Running
  /\ {"ok", "refused", "failed"} \subseteq Answers
  /\ "posted" \notin Running /\ "none" \notin Running
BY DEF Phases, Running, Answers

LEMMA RefuseInv ==
  ASSUME IInv, NEW r \in Requests, Refuse(r)
  PROVE  IInv'
<1>1. request[r] = "posted" /\ "refused" \in Phases \ Running
  BY PhaseFacts DEF Refuse
<1>2. replaying' \in BOOLEAN
  BY DEF Refuse, IInv, TypeOK, RequestsTyped
<1>3. /\ TopicsTyped' /\ BrowsersTyped' /\ RequestsTyped' /\ Unmade'
      /\ request'[r] = "refused"
      /\ \A q \in Requests : q # r => request'[q] = request[q]
  BY <1>1, <1>2, StepTyped DEF Refuse, runVars
<1>4. OneReplay'
  BY <1>1, <1>3, PhaseFacts, OutsideInv DEF Refuse
<1>5. RunsTyped'
  BY DEF IInv, TypeOK, RunsTyped, Refuse, runVars, askVars
<1> QED
  BY <1>3, <1>4, <1>5 DEF IInv, TypeOK

LEMMA AdmitInv ==
  ASSUME IInv, NEW r \in Requests, Admit(r)
  PROVE  IInv'
<1>1. request[r] = "posted" /\ "mark" \in Phases /\ "mark" \in Running
  BY PhaseFacts DEF Admit
<1>2. replaying' \in BOOLEAN
  BY DEF Admit
<1>3. /\ TopicsTyped' /\ BrowsersTyped' /\ RequestsTyped' /\ Unmade'
      /\ request'[r] = "mark"
      /\ \A q \in Requests : q # r => request'[q] = request[q]
  BY <1>1, <1>2, StepTyped DEF Admit, runVars
<1>4. \A q \in Requests : request[q] \notin Running
  BY DEF IInv, OneReplay, Admit
<1>5. \A q \in Requests : request'[q] \in Running <=> q = r
  BY <1>1, <1>3, <1>4
<1>6. OneReplay'
  BY <1>5 DEF OneReplay, Admit
<1>7. RunsTyped'
  BY DEF IInv, TypeOK, RunsTyped, Admit, runVars, askVars
<1> QED
  BY <1>3, <1>6, <1>7 DEF IInv, TypeOK

\* A running request gets to the next topic, or to its answer.
LEMMA AdvanceInv ==
  ASSUME IInv, NEW r \in Requests, request[r] \in Running, Advance(r),
         UNCHANGED <<logVars, connected, board, last, askVars, owed, faults>>,
         mark' \in [Requests -> Nat], sent' \in [Requests -> Nat],
         stalled' \in [Requests -> BOOLEAN]
  PROVE  IInv'
<1>1. plan[r] \in Plans /\ Len(plan[r]) \in Nat \ {0} /\ topic[r] \in 1..Len(plan[r])
  BY PlanFacts DEF IInv, TypeOK, RequestsTyped, RunsTyped
<1>2. request[r] # "none"
  BY PhaseFacts
<1>3. RunsTyped'
  <2>1. PICK i \in 1..Len(plan[r]) : topic' = [topic EXCEPT ![r] = i]
    <3>1. CASE topic[r] < Len(plan[r]) /\ topic' = [topic EXCEPT ![r] = @ + 1]
      <4>1. topic[r] + 1 \in 1..Len(plan[r])
        BY <1>1, <3>1
      <4> QED
        BY <3>1, <4>1
    <3>2. CASE topic' = [topic EXCEPT ![r] = 1]
      <4>1. 1 \in 1..Len(plan[r])
        BY <1>1
      <4> QED
        BY <3>2, <4>1
    <3> QED
      BY <3>1, <3>2 DEF Advance
  <2>2. i \in Nat
    BY <1>1
  <2>3. topic' \in [Requests -> Nat]
    BY <2>1, <2>2 DEF IInv, TypeOK, RunsTyped
  <2>4. \A q \in Requests : topic'[q] \in 1..Len(plan[q])
    BY <2>1 DEF IInv, TypeOK, RunsTyped
  <2> QED
    BY <2>3, <2>4 DEF RunsTyped, askVars
<1>4. \A q \in Requests : q # r => topic'[q] = topic[q]
  BY DEF IInv, TypeOK, RunsTyped, Advance
<1>5. CASE Proceed(r, "mark") /\ UNCHANGED replaying
  <2>1. replaying' \in BOOLEAN /\ "mark" \in Phases /\ "mark" \in Running
    BY <1>5, PhaseFacts DEF IInv, TypeOK, RequestsTyped
  <2>2. /\ TopicsTyped' /\ BrowsersTyped' /\ RequestsTyped' /\ Unmade'
        /\ request'[r] = "mark"
        /\ \A q \in Requests : q # r => request'[q] = request[q]
    BY <1>2, <1>4, <1>5, <2>1, StepTyped
  <2> QED
    BY <1>3, <1>5, <2>1, <2>2, InsideInv DEF IInv, TypeOK
<1>6. CASE Answer(r, "ok") /\ replaying' = FALSE
  <2>1. "ok" \in Phases \ Running
    BY PhaseFacts
  <2>2. /\ TopicsTyped' /\ BrowsersTyped' /\ RequestsTyped' /\ Unmade'
        /\ request'[r] = "ok"
        /\ \A q \in Requests : q # r => request'[q] = request[q]
    BY <1>2, <1>4, <1>6, <2>1, StepTyped
  <2> QED
    BY <1>3, <1>6, <2>1, <2>2, EndInv DEF IInv, TypeOK
<1> QED
  BY <1>5, <1>6 DEF Advance

\* A running request goes on within its topic.
LEMMA WithinInv ==
  ASSUME IInv, NEW r \in Requests, request[r] \in Running,
         NEW phase \in Running, Proceed(r, phase),
         UNCHANGED <<logVars, connected, last, askVars, replaying, topic>>,
         Fault \/ UNCHANGED faults,
         Forgive(r) \/ UNCHANGED owed,
         UNCHANGED board \/ \E e \in Event : Emit(e),
         mark' \in [Requests -> Nat], sent' \in [Requests -> Nat],
         stalled' \in [Requests -> BOOLEAN]
  PROVE  IInv'
<1>1. request[r] # "none" /\ phase \in Phases
  BY PhaseFacts
<1>2. replaying' \in BOOLEAN
  BY DEF IInv, TypeOK, RequestsTyped
<1>3. /\ TopicsTyped' /\ BrowsersTyped' /\ RequestsTyped' /\ Unmade'
      /\ request'[r] = phase
      /\ \A q \in Requests : q # r => request'[q] = request[q]
  BY <1>1, <1>2, StepTyped
<1>4. RunsTyped'
  BY DEF IInv, TypeOK, RunsTyped, askVars
<1> QED
  BY <1>3, <1>4, InsideInv DEF IInv, TypeOK
LEMMA PushInv ==
  ASSUME IInv, NEW r \in Requests, Push(r)
  PROVE  IInv'
<1> DEFINE phase == IF sent'[r] >= mark[r] THEN "close" ELSE request[r]
<1>1. request[r] \in Running /\ phase \in Running
  BY PhaseFacts DEF Push
<1>2. Current(r) \in Topics
  BY PlanTopics DEF IInv, TypeOK, RequestsTyped, RunsTyped, Current
<1>3. <<Current(r), sent[r]>> \in Event
  BY <1>2 DEF IInv, TypeOK, RunsTyped, Event
<1>4. \E e \in Event : Emit(e)
  BY <1>3 DEF Push
<1>5. /\ mark' \in [Requests -> Nat] /\ sent' \in [Requests -> Nat]
      /\ stalled' \in [Requests -> BOOLEAN]
  BY DEF IInv, TypeOK, RunsTyped, Push
<1>6. Proceed(r, phase)
  BY DEF Push
<1> QED
  BY <1>1, <1>4, <1>5, <1>6, WithinInv DEF Push

LEMMA MarkInv ==
  ASSUME IInv, NEW r \in Requests, Mark(r)
  PROVE  IInv'
<1>1. request[r] \in Running /\ "drain" \in Running
  BY PhaseFacts DEF Mark
<1>2. Current(r) \in Topics
  BY PlanTopics DEF IInv, TypeOK, RequestsTyped, RunsTyped, Current
<1>3. /\ mark' \in [Requests -> Nat] /\ sent' \in [Requests -> Nat]
      /\ stalled' \in [Requests -> BOOLEAN]
  BY <1>2 DEF IInv, TypeOK, TopicsTyped, RunsTyped, Mark
<1>4. CASE Advance(r)
  BY <1>1, <1>3, <1>4, AdvanceInv DEF Mark
<1>5. CASE Proceed(r, "drain") /\ UNCHANGED <<topic, replaying>>
  BY <1>1, <1>3, <1>5, WithinInv DEF Mark
<1> QED
  BY <1>4, <1>5 DEF Mark

LEMMA StallInv ==
  ASSUME IInv, NEW r \in Requests, Stall(r)
  PROVE  IInv'
<1>1. TopicsTyped'
  BY FaultTyped DEF IInv, TypeOK, Stall
<1>2. BrowsersTyped'
  BY ForgiveTyped DEF IInv, TypeOK, BrowsersTyped, Stall
<1>3. RequestsTyped' /\ OneReplay' /\ Unmade'
  BY DEF IInv, TypeOK, RequestsTyped, OneReplay, Unmade, Stall, askVars
<1>4. RunsTyped'
  BY DEF IInv, TypeOK, RunsTyped, Stall, askVars
<1> QED
  BY <1>1, <1>2, <1>3, <1>4 DEF IInv, TypeOK

LEMMA TimeoutInv ==
  ASSUME IInv, NEW r \in Requests, Timeout(r)
  PROVE  IInv'
<1>1. request[r] \in Running /\ "close" \in Running
  BY PhaseFacts DEF Timeout
<1>2. Fault \/ UNCHANGED faults
  BY DEF Timeout
<1>3. /\ mark' \in [Requests -> Nat] /\ sent' \in [Requests -> Nat]
      /\ stalled' \in [Requests -> BOOLEAN] /\ UNCHANGED topic
  BY DEF IInv, TypeOK, RunsTyped, Timeout, runVars
<1> QED
  BY <1>1, <1>2, <1>3, WithinInv DEF Timeout

LEMMA LeaveTyped ==
  ASSUME IInv, NEW r \in Requests, Leave(r)
  PROVE  /\ mark' \in [Requests -> Nat] /\ sent' \in [Requests -> Nat]
         /\ stalled' \in [Requests -> BOOLEAN]
BY DEF IInv, TypeOK, RunsTyped, Leave

LEMMA CloseInv ==
  ASSUME IInv, NEW r \in Requests, Close(r)
  PROVE  IInv'
<1>1. request[r] \in Running
  BY PhaseFacts DEF Close
<1>2. /\ mark' \in [Requests -> Nat] /\ sent' \in [Requests -> Nat]
      /\ stalled' \in [Requests -> BOOLEAN]
  BY LeaveTyped DEF Close
<1> QED
  BY <1>1, <1>2, AdvanceInv DEF Close

LEMMA FailInv ==
  ASSUME IInv, NEW r \in Requests, Fail(r)
  PROVE  IInv'
<1>1. request[r] \in Running /\ request[r] # "none" /\ "failed" \in Phases \ Running
  BY PhaseFacts DEF Fail
<1>2. /\ mark' \in [Requests -> Nat] /\ sent' \in [Requests -> Nat]
      /\ stalled' \in [Requests -> BOOLEAN]
  BY LeaveTyped DEF Fail
<1>3. /\ topic' = [topic EXCEPT ![r] = 1]
      /\ \A q \in Requests : q # r => topic'[q] = topic[q]
  BY DEF IInv, TypeOK, RunsTyped, Fail
<1>4. /\ TopicsTyped' /\ BrowsersTyped' /\ RequestsTyped' /\ Unmade'
      /\ request'[r] = "failed"
      /\ \A q \in Requests : q # r => request'[q] = request[q]
  BY <1>1, <1>3, StepTyped DEF Fail
<1>5. OneReplay'
  BY <1>1, <1>4, EndInv DEF Fail
<1>6. plan[r] \in Plans /\ Len(plan[r]) \in Nat \ {0}
  BY PlanFacts DEF IInv, TypeOK, RequestsTyped
<1>7. RunsTyped'
  <2>1. topic' \in [Requests -> Nat] /\ 1 \in 1..Len(plan[r])
    BY <1>3, <1>6 DEF IInv, TypeOK, RunsTyped
  <2>2. \A q \in Requests : topic'[q] \in 1..Len(plan[q])
    BY <1>3, <2>1 DEF IInv, TypeOK, RunsTyped
  <2>3. UNCHANGED plan
    BY DEF Fail, askVars
  <2> QED
    BY <1>2, <2>1, <2>2, <2>3 DEF RunsTyped
<1> QED
  BY <1>4, <1>5, <1>7 DEF IInv, TypeOK

LEMMA RestartInv ==
  ASSUME IInv, MonitorRestarts
  PROVE  IInv'
<1>1. TopicsTyped'
  <2>1. PICK from \in [Topics -> 0..MaxEvents] :
          /\ \A t \in Topics : from[t] \in 1..live[t] \union {head[t]}
          /\ live' = from
    BY DEF MonitorRestarts
  <2>2. ASSUME NEW t \in Topics PROVE live'[t] \in Nat /\ live'[t] \in 0..head[t]
    <3>1. head[t] \in Nat /\ live[t] \in 0..head[t]
      BY DEF IInv, TypeOK, TopicsTyped
    <3>2. CASE live'[t] \in 1..live[t]
      BY <3>1, <3>2
    <3>3. CASE live'[t] = head[t]
      BY <3>1, <3>3
    <3> QED
      BY <2>1, <3>2, <3>3
  <2>3. live' \in [Topics -> Nat]
    BY <2>1, <2>2
  <2>4. head' = head /\ faults' \in 0..MaxFaults
    BY PlanFacts DEF IInv, TypeOK, TopicsTyped, MonitorRestarts, Fault
  <2> QED
    BY <2>2, <2>3, <2>4 DEF IInv, TypeOK, TopicsTyped
<1>2. BrowsersTyped'
  <2>1. Nothing \in [Replayable -> Nat]
    BY DEF Nothing
  <2>2. /\ connected' \in [Browsers -> BOOLEAN]
        /\ owed' \in [Browsers -> [Replayable -> Nat]]
    BY <2>1 DEF MonitorRestarts
  <2>3. busy' \in [Browsers -> BOOLEAN]
    BY DEF IInv, TypeOK, BrowsersTyped, MonitorRestarts
  <2> QED
    BY <2>2, <2>3 DEF IInv, TypeOK, BrowsersTyped, MonitorRestarts
<1>3. "failed" \in Phases \ Running /\ "none" \notin Running \union {"posted"}
  BY PhaseFacts DEF Running
<1>4. request' \in [Requests -> Phases] /\ \A r \in Requests : request'[r] \notin Running
  BY <1>3 DEF IInv, TypeOK, RequestsTyped, MonitorRestarts
<1>5. RequestsTyped' /\ OneReplay'
  BY <1>4 DEF IInv, TypeOK, RequestsTyped, OneReplay, MonitorRestarts, askVars
<1>6. RunsTyped'
  <2>1. \A r \in Requests : 1 \in 1..Len(plan[r])
    BY PlanFacts DEF IInv, TypeOK, RequestsTyped
  <2> QED
    BY <2>1 DEF MonitorRestarts, RunsTyped, askVars
<1>7. Unmade'
  BY <1>3 DEF IInv, Unmade, MonitorRestarts, askVars
<1> QED
  BY <1>1, <1>2, <1>5, <1>6, <1>7 DEF IInv, TypeOK

LEMMA NextInv == IInv /\ [Next]_vars => IInv'
<1> SUFFICES ASSUME IInv, [Next]_vars PROVE IInv'
  OBVIOUS
<1>1. ASSUME NEW t \in Topics, Publish(t) \/ PushLive(t) PROVE IInv'
  BY <1>1, PublishInv, PushLiveInv
<1>2. ASSUME NEW topics \in Plans, Call(topics) PROVE IInv'
  BY <1>2, CallInv
<1>3. ASSUME NEW b \in Browsers, Ask(b) PROVE IInv'
  BY <1>3, AskInv
<1>4. ASSUME NEW b \in Browsers,
             Clear(b) \/ OtherStarts(b) \/ OtherEnds(b) \/ Disconnect(b) \/ Reconnect(b)
      PROVE  IInv'
  BY <1>4, BrowserInv
<1>5. ASSUME NEW r \in Requests, Serve(r) PROVE IInv'
  BY <1>5, RefuseInv, AdmitInv, MarkInv, PushInv, TimeoutInv, CloseInv DEF Serve
<1>6. ASSUME NEW r \in Requests, Stall(r) \/ Fail(r) PROVE IInv'
  BY <1>6, StallInv, FailInv
<1>7. CASE MonitorRestarts
  BY <1>7, RestartInv
<1>8. CASE UNCHANGED vars
  <2>1. UNCHANGED <<askVars, request, replaying, runVars>>
    BY <1>8 DEF vars
  <2>2. TopicsTyped' /\ BrowsersTyped'
    BY <1>8 DEF vars, logVars, browserVars, IInv, TypeOK, TopicsTyped, BrowsersTyped
  <2> QED
    BY <2>1, <2>2, RequestsKept DEF IInv, TypeOK
<1> QED
  BY <1>1, <1>2, <1>3, <1>4, <1>5, <1>6, <1>7, <1>8 DEF Next

\* Every reachable state is well typed: no board is longer than its cap, the live
\* consumer stays within its topics, a replay within its plan (useMonitor.ts,
\* replay.service.ts).
THEOREM TypeCorrect == Spec => []TypeOK
<1>1. IInv => TypeOK
  BY DEF IInv
<1> QED
  BY <1>1, InitInv, NextInv, PTL DEF Spec

\* Two replays never run at the same time, and the flag is up exactly while one
\* does (replay.service.ts: replay).
THEOREM OneReplayAtATime == Spec => []OneReplay
<1>1. IInv => OneReplay
  BY DEF IInv
<1> QED
  BY <1>1, InitInv, NextInv, PTL DEF Spec

-----------------------------------------------------------------------------
(* A replay brings back what it owes.  While the latest request of a       *)
(* browser runs, the board has all it owes of the topics before, and of    *)
(* the present one what the consumer delivered; the marks are behind what  *)
(* is owed, and a consumer is closed behind its mark.  A board that is not *)
(* full has lost nothing, and one that is not connected is owed nothing.   *)

Has(b, t) == \A i \in 1..owed[b][t] : <<t, i - 1>> \in ToSet(board[b])

HasSent(b, t, n) ==
  \A i \in 1..owed[b][t] : i <= n => <<t, i - 1>> \in ToSet(board[b])

Caught(b, r) ==
  /\ request[r] \in Running =>
       /\ \A j \in 1..Len(TopicOrder) : j < topic[r] => Has(b, TopicOrder[j])
       /\ HasSent(b, TopicOrder[topic[r]], sent[r])
  /\ request[r] = "drain" => owed[b][TopicOrder[topic[r]]] <= mark[r]
  /\ request[r] = "close" => owed[b][TopicOrder[topic[r]]] <= sent[r]
  /\ request[r] = "ok" => \A t \in Replayable : Has(b, t)

OwedInv ==
  \A b \in Browsers :
    /\ ~connected[b] => owed[b] = Nothing
    /\ \A t \in Replayable : owed[b][t] <= head[t]
    /\ last[b] # 0 => /\ last[b] <= asks
                      /\ asker[last[b]] = b
                      /\ plan[last[b]] = TopicOrder

\* A request begins at its first topic and a topic at its first event.
FreshInv ==
  \A r \in Requests :
    /\ request[r] \notin Running => topic[r] = 1
    /\ request[r] \notin {"drain", "close"} => sent[r] = 0

CaughtInv ==
  \A b \in Browsers :
    last[b] # 0 /\ Len(board[b]) < BoardSize => Caught(b, last[b])

RInv == IInv /\ OwedInv /\ FreshInv /\ CaughtInv

LEMMA TopicFacts ==
  ASSUME RInv, NEW b \in Browsers, last[b] # 0
  PROVE  /\ last[b] \in Requests
         /\ topic[last[b]] \in 1..Len(TopicOrder)
         /\ TopicOrder[topic[last[b]]] \in Replayable
         /\ Current(last[b]) = TopicOrder[topic[last[b]]]
<1>1. last[b] \in Requests
  BY PlanFacts DEF RInv, IInv, TypeOK, BrowsersTyped, Requests
<1>2. plan[last[b]] = TopicOrder
  BY DEF RInv, OwedInv
<1>3. topic[last[b]] \in 1..Len(TopicOrder)
  BY <1>1, <1>2 DEF RInv, IInv, TypeOK, RunsTyped
<1>4. TopicOrder[topic[last[b]]] \in Replayable
  BY <1>3, ReplayAssumption DEF Replayable, ToSet
<1> QED
  BY <1>1, <1>2, <1>3, <1>4 DEF Current

\* A board that is not full after an event had room for it, and has it.
LEMMA EmitGrows ==
  ASSUME BrowsersTyped, NEW e \in Event, Emit(e), NEW b \in Browsers,
         Len(board'[b]) < BoardSize
  PROVE  /\ Len(board[b]) < BoardSize
         /\ ToSet(board[b]) \subseteq ToSet(board'[b])
         /\ connected[b] => e \in ToSet(board'[b])
<1>1. board[b] \in Seq(Event) /\ Len(board[b]) <= BoardSize
  BY DEF BrowsersTyped
<1> DEFINE s == Append(board[b], e)
<1>2. /\ s \in Seq(Event) /\ Len(s) = Len(board[b]) + 1
      /\ \A i \in 1..Len(board[b]) : s[i] = board[b][i]
      /\ s[Len(board[b]) + 1] = e
  BY <1>1
<1>3. CASE ~connected[b]
  BY <1>3 DEF Emit
<1>4. CASE connected[b]
  <2>1. board'[b] = Latest(s)
    BY <1>4 DEF Emit
  <2>2. CASE Len(s) > BoardSize
    <3>1. Latest(s) = Tail(s) /\ Len(Tail(s)) = Len(board[b])
      BY <1>2, <2>2, PlanFacts DEF Latest
    <3> QED
      BY <1>1, <1>2, <2>1, <2>2, <3>1, PlanFacts
  <2>3. CASE ~(Len(s) > BoardSize)
    <3>1. board'[b] = s
      BY <2>1, <2>3 DEF Latest
    <3>2. Len(board[b]) < BoardSize
      BY <1>1, <1>2, <2>3, PlanFacts
    <3>3. DOMAIN s = 1..Len(board[b]) + 1 /\ DOMAIN board[b] = 1..Len(board[b])
      BY <1>1, <1>2
    <3>4. ToSet(board[b]) \subseteq ToSet(s)
      BY <1>1, <1>2, <3>3 DEF ToSet
    <3>5. e \in ToSet(s)
      BY <1>1, <1>2, <3>3 DEF ToSet
    <3> QED
      BY <3>1, <3>2, <3>4, <3>5
  <2> QED
    BY <2>2, <2>3
<1> QED
  BY <1>3, <1>4

\* Who is owed nothing has everything.
LEMMA ForgivenCaught ==
  ASSUME IInv', NEW b \in Browsers, NEW r \in Requests,
         owed'[b] = Nothing, topic'[r] \in 1..Len(TopicOrder)
  PROVE  Caught(b, r)'
<1>1. \A t \in Replayable : owed'[b][t] = 0
  BY DEF Nothing
<1>2. \A j \in 1..Len(TopicOrder) : TopicOrder[j] \in Replayable
  BY ReplayAssumption DEF Replayable, ToSet
<1>3. \A t \in Replayable : Has(b, t)' /\ \A n : HasSent(b, t, n)'
  BY <1>1 DEF Has, HasSent
<1>4. \A t \in Replayable : HasSent(b, t, sent[r])'
  BY <1>1 DEF HasSent
<1>5. mark'[r] \in Nat /\ sent'[r] \in Nat
  BY DEF IInv, TypeOK, RunsTyped
<1>6. owed'[b][TopicOrder[topic'[r]]] = 0
  BY <1>1, <1>2
<1>7. owed'[b][TopicOrder[topic'[r]]] <= mark'[r] /\ owed'[b][TopicOrder[topic'[r]]] <= sent'[r]
  BY <1>5, <1>6
<1> QED
  BY <1>2, <1>3, <1>4, <1>7 DEF Caught

\* A step that leaves the latest request of a browser where it is.
LEMMA KeptCaught ==
  ASSUME RInv, IInv', NEW b \in Browsers, NEW r \in Requests,
         last[b] = r, Caught(b, r), topic[r] \in 1..Len(TopicOrder),
         ToSet(board[b]) \subseteq ToSet(board'[b]),
         owed'[b] = owed[b] \/ owed'[b] = Nothing,
         request'[r] = request[r], topic'[r] = topic[r],
         mark'[r] = mark[r], sent'[r] = sent[r]
  PROVE  Caught(b, r)'
<1>1. CASE owed'[b] = Nothing
  BY <1>1, ForgivenCaught
<1>2. CASE owed'[b] = owed[b]
  <2>1. ASSUME NEW t, Has(b, t) PROVE Has(b, t)'
    BY <1>2, <2>1 DEF Has
  <2>2. ASSUME NEW t, HasSent(b, t, sent[r]) PROVE HasSent(b, t, sent[r])'
    BY <1>2, <2>2 DEF HasSent
  <2> QED
    BY <1>2, <2>1, <2>2 DEF Caught
<1> QED
  BY <1>1, <1>2

\* A board that may grow, or a browser that is owed nothing any more.
Follows(b) ==
  \/ owed'[b] = Nothing
  \/ /\ owed'[b] = owed[b]
     /\ Len(board'[b]) < BoardSize => /\ Len(board[b]) < BoardSize
                                      /\ ToSet(board[b]) \subseteq ToSet(board'[b])

LEMMA OthersCaught ==
  ASSUME RInv, IInv', NEW b \in Browsers, last[b] # 0, last'[b] = last[b],
         Follows(b), Len(board'[b]) < BoardSize,
         request'[last[b]] = request[last[b]], topic'[last[b]] = topic[last[b]],
         mark'[last[b]] = mark[last[b]], sent'[last[b]] = sent[last[b]]
  PROVE  Caught(b, last[b])'
<1>1. last[b] \in Requests /\ topic[last[b]] \in 1..Len(TopicOrder)
  BY TopicFacts
<1>2. CASE owed'[b] = Nothing
  BY <1>1, <1>2, ForgivenCaught
<1>3. CASE owed'[b] # Nothing
  <2>1. Len(board[b]) < BoardSize /\ ToSet(board[b]) \subseteq ToSet(board'[b])
    BY <1>3 DEF Follows
  <2>2. Caught(b, last[b])
    BY <2>1 DEF RInv, CaughtInv
  <2> QED
    BY <1>1, <1>3, <2>1, <2>2, KeptCaught DEF Follows
<1> QED
  BY <1>2, <1>3

LEMMA EmitFollows ==
  ASSUME IInv, NEW e \in Event, Emit(e), NEW b \in Browsers, owed'[b] = owed[b]
  PROVE  Follows(b)
BY EmitGrows DEF IInv, TypeOK, Follows

LEMMA NothingFacts == \A t \in Replayable : Nothing[t] = 0
BY DEF Nothing

LEMMA OwedKept ==
  ASSUME RInv, IInv', UNCHANGED <<connected, last, askVars>>,
         \A t \in Topics : head[t] <= head'[t],
         \A b \in Browsers : owed'[b] = owed[b] \/ owed'[b] = Nothing
  PROVE  OwedInv'
<1>1. ASSUME NEW b \in Browsers, NEW t \in Replayable
      PROVE  owed'[b][t] <= head'[t]
  <2>1. /\ t \in Topics /\ head[t] \in Nat /\ head'[t] \in Nat /\ head[t] <= head'[t]
        /\ owed[b][t] \in Nat /\ owed[b][t] <= head[t] /\ Nothing[t] = 0
    BY NothingFacts
       DEF RInv, IInv, TypeOK, TopicsTyped, BrowsersTyped, OwedInv, Topics
  <2>2. CASE owed'[b] = owed[b]
    BY <2>1, <2>2
  <2>3. CASE owed'[b] = Nothing
    BY <2>1, <2>3
  <2> QED
    BY <2>2, <2>3
<1> QED
  BY <1>1 DEF RInv, OwedInv, askVars

\* No request moves.
LEMMA QuietCaught ==
  ASSUME RInv, IInv', UNCHANGED <<request, runVars, last>>,
         \A b \in Browsers : Follows(b)
  PROVE  FreshInv' /\ CaughtInv'
<1>1. FreshInv'
  BY DEF RInv, FreshInv, runVars
<1>2. ASSUME NEW b \in Browsers, last[b] # 0, Len(board'[b]) < BoardSize
      PROVE  Caught(b, last[b])'
  BY <1>2, OthersCaught DEF runVars
<1> QED
  BY <1>1, <1>2 DEF CaughtInv

LEMMA QuietRInv ==
  ASSUME RInv, IInv',
         \/ \E t \in Topics : Publish(t) \/ PushLive(t)
         \/ \E b \in Browsers :
              Clear(b) \/ OtherStarts(b) \/ OtherEnds(b) \/ Disconnect(b) \/ Reconnect(b)
  PROVE  RInv'
<1>1. ASSUME NEW t \in Topics, Publish(t) PROVE RInv'
  <2>1. \A u \in Topics : head[u] <= head'[u]
    BY <1>1 DEF RInv, IInv, TypeOK, TopicsTyped, Publish
  <2>2. OwedInv'
    BY <1>1, <2>1, OwedKept DEF Publish, browserVars
  <2>3. \A b \in Browsers : Follows(b)
    BY <1>1 DEF Follows, Publish, browserVars
  <2> QED
    BY <1>1, <2>2, <2>3, QuietCaught DEF RInv, Publish, browserVars
<1>2. ASSUME NEW t \in Topics, PushLive(t) PROVE RInv'
  <2>1. \A u \in Topics : head[u] <= head'[u]
    BY <1>2 DEF RInv, IInv, TypeOK, TopicsTyped, PushLive
  <2>2. OwedInv'
    BY <1>2, <2>1, OwedKept DEF PushLive
  <2>3. <<t, live[t]>> \in Event
    BY DEF RInv, IInv, TypeOK, TopicsTyped, Event
  <2>4. \A b \in Browsers : Follows(b)
    BY <1>2, <2>3, EmitFollows DEF RInv, PushLive
  <2> QED
    BY <1>2, <2>2, <2>4, QuietCaught DEF RInv, PushLive
<1>3. ASSUME NEW b \in Browsers,
             Clear(b) \/ OtherStarts(b) \/ OtherEnds(b) \/ Disconnect(b) \/ Reconnect(b)
      PROVE  RInv'
  <2> USE DEF Clear, OtherStarts, OtherEnds, Disconnect, Reconnect
  <2>1. \A c \in Browsers : Follows(c)
    BY <1>3 DEF RInv, IInv, TypeOK, BrowsersTyped, Follows
  <2>2. UNCHANGED <<request, runVars, last>>
    BY <1>3
  <2>3. OwedInv'
    <3>1. \A u \in Topics : head[u] <= head'[u]
      BY <1>3 DEF RInv, IInv, TypeOK, TopicsTyped, logVars
    <3>2. \A c \in Browsers : owed'[c] = owed[c] \/ owed'[c] = Nothing
      BY <2>1 DEF Follows
    <3>3. CASE Clear(b) \/ OtherStarts(b) \/ OtherEnds(b)
      BY <3>1, <3>2, <3>3, OwedKept
    <3>4. CASE Disconnect(b) \/ Reconnect(b)
      <4>1. ASSUME NEW c \in Browsers PROVE ~connected'[c] => owed'[c] = Nothing
        <5>1. DOMAIN connected = Browsers /\ DOMAIN owed = Browsers
          BY DEF RInv, IInv, TypeOK, BrowsersTyped
        <5>2. ~connected[c] => owed[c] = Nothing
          BY DEF RInv, OwedInv
        <5> HIDE DEF Disconnect, Reconnect, Nothing, IInv, OwedInv, FreshInv, CaughtInv
        <5>3. CASE Disconnect(b)
          BY <5>1, <5>2, <5>3 DEF Disconnect
        <5>4. CASE Reconnect(b)
          BY <5>1, <5>2, <5>4 DEF Reconnect
        <5> QED
          BY <3>4, <5>3, <5>4
      <4>2. ASSUME NEW c \in Browsers, NEW t \in Replayable PROVE owed'[c][t] <= head'[t]
        <5>1. t \in Topics /\ head'[t] = head[t] /\ head[t] \in Nat /\ Nothing[t] = 0
          BY <3>4, NothingFacts DEF RInv, IInv, TypeOK, TopicsTyped, Topics, logVars
        <5>2. owed[c][t] <= head[t]
          BY DEF RInv, OwedInv
        <5>3. CASE owed'[c] = owed[c]
          BY <5>1, <5>2, <5>3
        <5>4. CASE owed'[c] = Nothing
          BY <5>1, <5>4
        <5> QED
          BY <3>2, <5>3, <5>4
      <4>3. UNCHANGED <<last, askVars>>
        BY <3>4
      <4> QED
        BY <4>1, <4>2, <4>3 DEF RInv, OwedInv, askVars
    <3> QED
      BY <1>3, <3>3, <3>4
  <2> QED
    BY <2>1, <2>2, <2>3, QuietCaught DEF RInv
<1> QED
  BY <1>1, <1>2, <1>3

\* A new request: it has brought back nothing yet, and the others go on.
LEMMA PostRInv ==
  ASSUME RInv, IInv', NEW who \in Browsers \union {"caller"}, NEW topics \in Plans,
         Post(who, topics), UNCHANGED <<connected, replaying, runVars, head>>,
         \/ UNCHANGED <<board, owed, last>>
         \/ /\ who \in Browsers /\ topics = TopicOrder
            /\ last' = [last EXCEPT ![who] = asks']
            /\ \A b \in Browsers : b # who => /\ board'[b] = board[b]
                                             /\ owed'[b] = owed[b]
            /\ owed'[who] = IF connected[who] THEN [t \in Replayable |-> head[t]]
                                              ELSE Nothing
  PROVE  RInv'
<1>1. /\ asks' = asks + 1 /\ asks' \in Requests /\ asks \in Nat
      /\ \A r \in Requests : r # asks' => /\ request'[r] = request[r]
                                         /\ asker'[r] = asker[r]
                                         /\ plan'[r] = plan[r]
      /\ request'[asks'] = "posted" /\ asker'[asks'] = who /\ plan'[asks'] = topics
  BY PlanFacts DEF RInv, IInv, TypeOK, RequestsTyped, Post, Requests
<1>2. \A b \in Browsers :
        last[b] # 0 => last[b] \in Requests /\ last[b] <= asks /\ last[b] # asks'
  BY <1>1, PlanFacts DEF RInv, IInv, TypeOK, BrowsersTyped, OwedInv, Requests
<1>3. FreshInv'
  <2>1. request[asks'] = "none" /\ topic[asks'] = 1
    BY <1>1 DEF RInv, IInv, Unmade
  <2>2. sent[asks'] = 0
    BY <1>1, <2>1 DEF RInv, FreshInv
  <2> QED
    BY <1>1, <2>1, <2>2 DEF RInv, FreshInv, runVars
<1>4. ASSUME NEW b \in Browsers,
             /\ last'[b] = last[b] /\ board'[b] = board[b] /\ owed'[b] = owed[b]
      PROVE  /\ ~connected'[b] => owed'[b] = Nothing
             /\ \A t \in Replayable : owed'[b][t] <= head'[t]
             /\ last'[b] # 0 => /\ last'[b] <= asks' /\ asker'[last'[b]] = b
                                /\ plan'[last'[b]] = TopicOrder
             /\ last'[b] # 0 /\ Len(board'[b]) < BoardSize => Caught(b, last[b])'
  <2>1. /\ ~connected'[b] => owed'[b] = Nothing
        /\ \A t \in Replayable : owed'[b][t] <= head'[t]
    BY <1>4 DEF RInv, OwedInv
  <2>2. last[b] # 0 => last[b] <= asks' /\ asker'[last[b]] = b /\ plan'[last[b]] = TopicOrder
    <3>1. SUFFICES ASSUME last[b] # 0
                   PROVE  last[b] <= asks' /\ asker'[last[b]] = b /\ plan'[last[b]] = TopicOrder
      OBVIOUS
    <3>2. last[b] \in Nat
      BY <1>2, <3>1 DEF Requests
    <3>3. last[b] <= asks'
      BY <1>1, <1>2, <3>1, <3>2
    <3> QED
      BY <1>1, <1>2, <3>1, <3>3 DEF RInv, OwedInv
  <2>3. ASSUME last[b] # 0, Len(board'[b]) < BoardSize PROVE Caught(b, last[b])'
    <3>1. Follows(b)
      BY <1>4 DEF Follows
    <3> QED
      BY <1>1, <1>2, <1>4, <2>3, <3>1, OthersCaught DEF runVars
  <2> QED
    BY <1>4, <2>1, <2>2, <2>3
<1>5. CASE UNCHANGED <<board, owed, last>>
  BY <1>3, <1>4, <1>5 DEF RInv, OwedInv, CaughtInv
<1>6. ASSUME who \in Browsers, topics = TopicOrder,
             last' = [last EXCEPT ![who] = asks'],
             \A b \in Browsers : b # who => board'[b] = board[b] /\ owed'[b] = owed[b],
             owed'[who] = IF connected[who] THEN [t \in Replayable |-> head[t]]
                                            ELSE Nothing
      PROVE  RInv'
  <2>1. last'[who] = asks' /\ \A b \in Browsers : b # who => last'[b] = last[b]
    BY <1>6 DEF RInv, IInv, TypeOK, BrowsersTyped
  <2>2. Caught(who, last[who])'
    BY <1>1, <2>1, PhaseFacts DEF Caught
  <2>3. \A t \in Replayable : owed'[who][t] <= head'[t]
    <3>1. \A t \in Replayable : head[t] \in Nat /\ head'[t] = head[t] /\ Nothing[t] = 0
      BY NothingFacts DEF RInv, IInv, TypeOK, TopicsTyped, Topics
    <3>2. CASE connected[who]
      BY <1>6, <3>1, <3>2
    <3>3. CASE ~connected[who]
      BY <1>6, <3>1, <3>3
    <3> QED
      BY <3>2, <3>3
  <2>4. OwedInv'
    <3>1. asks' <= asks'
      BY <1>1
    <3> QED
      BY <1>1, <1>4, <1>6, <2>1, <2>3, <3>1 DEF OwedInv
  <2>5. CaughtInv'
    BY <1>4, <1>6, <2>1, <2>2 DEF CaughtInv
  <2> QED
    BY <1>3, <2>4, <2>5 DEF RInv
<1> QED
  BY <1>5, <1>6

LEMMA AskRInv ==
  ASSUME RInv, IInv', NEW b \in Browsers, Ask(b)
  PROVE  RInv'
<1>1. TopicOrder \in Plans
  BY DEF Plans
<1>2. /\ \A c \in Browsers : c # b => board'[c] = board[c] /\ owed'[c] = owed[c]
      /\ owed'[b] = IF connected[b] THEN [t \in Replayable |-> head[t]] ELSE Nothing
  BY DEF Ask, RInv, IInv, TypeOK, BrowsersTyped
<1> QED
  BY <1>1, <1>2, PostRInv DEF Ask, logVars

LEMMA CallRInv ==
  ASSUME RInv, IInv', NEW topics \in Plans, Call(topics)
  PROVE  RInv'
BY PostRInv DEF Call, logVars, browserVars

\* A step of the service moves one request; what the others brought back stays.
LEMMA ServiceRInv ==
  ASSUME RInv, IInv', NEW r \in Requests,
         UNCHANGED <<head, connected, last, askVars>>,
         \A b \in Browsers : Follows(b),
         \A q \in Requests : q # r => /\ request'[q] = request[q] /\ topic'[q] = topic[q]
                                      /\ mark'[q] = mark[q] /\ sent'[q] = sent[q],
         request'[r] \notin Running => topic'[r] = 1,
         request'[r] \notin {"drain", "close"} => sent'[r] = 0,
         \A b \in Browsers :
           last[b] = r /\ Len(board'[b]) < BoardSize => Caught(b, r)'
  PROVE  RInv'
<1>1. OwedInv'
  <2>1. \A t \in Topics : head[t] <= head'[t]
    BY DEF RInv, IInv, TypeOK, TopicsTyped
  <2>2. \A b \in Browsers : owed'[b] = owed[b] \/ owed'[b] = Nothing
    BY DEF Follows
  <2> QED
    BY <2>1, <2>2, OwedKept
<1>2. FreshInv'
  BY DEF RInv, FreshInv
<1>3. ASSUME NEW b \in Browsers, last[b] # 0, Len(board'[b]) < BoardSize
      PROVE  Caught(b, last[b])'
  <2>1. last[b] \in Requests
    BY <1>3, TopicFacts
  <2>2. CASE last[b] = r
    <3>1. Caught(b, r)'
      BY <1>3, <2>2
    <3>2. last'[b] = r
      BY <2>2
    <3> QED
      BY <2>2, <3>1, <3>2
  <2>3. CASE last[b] # r
    BY <1>3, <2>1, <2>3, OthersCaught
  <2> QED
    BY <2>2, <2>3
<1>4. CaughtInv'
  BY <1>3 DEF CaughtInv
<1> QED
  BY <1>1, <1>2, <1>4 DEF RInv

\* The end of a topic of which the board has all that is owed.
LEMMA AdvanceCaught ==
  ASSUME RInv, NEW b \in Browsers, NEW r \in Requests, last[b] = r,
         UNCHANGED <<board, owed>>, sent'[r] = 0,
         request[r] \in Running, Advance(r), Caught(b, r), Has(b, Current(r))
  PROVE  Caught(b, r)'
<1>1. r # 0
  BY DEF Requests
<1>2. /\ topic[r] \in 1..Len(TopicOrder) /\ Current(r) = TopicOrder[topic[r]]
      /\ plan[r] = TopicOrder /\ Len(TopicOrder) \in Nat
  BY <1>1, TopicFacts, PlanFacts DEF RInv, OwedInv
<1>3. \A t : Has(b, t)' <=> Has(b, t)
  BY DEF Has
<1>4. \A j \in 1..Len(TopicOrder) : j <= topic[r] => Has(b, TopicOrder[j])
  <2> SUFFICES ASSUME NEW j \in 1..Len(TopicOrder), j <= topic[r]
               PROVE  Has(b, TopicOrder[j])
    OBVIOUS
  <2>1. CASE j = topic[r]
    BY <1>2, <2>1
  <2>2. CASE j # topic[r]
    <3>1. j < topic[r]
      BY <1>2, <2>2
    <3> QED
      BY <3>1 DEF Caught
  <2> QED
    BY <2>1, <2>2
<1>5. r \in DOMAIN request /\ r \in DOMAIN topic
  BY DEF RInv, IInv, TypeOK, RequestsTyped, RunsTyped
<1>6. CASE /\ topic[r] < Len(plan[r]) /\ topic' = [topic EXCEPT ![r] = @ + 1]
           /\ Proceed(r, "mark")
  <2>1. topic'[r] = topic[r] + 1 /\ request'[r] = "mark"
    BY <1>5, <1>6 DEF Proceed
  <2>2. \A j \in 1..Len(TopicOrder) : j < topic'[r] => j <= topic[r]
    BY <1>2, <2>1
  <2>3. HasSent(b, TopicOrder[topic[r]], 0)'
    BY DEF HasSent
  <2>4. HasSent(b, TopicOrder[topic[r]], sent[r])'
    BY <2>3 DEF HasSent
  <2> QED
    BY <1>3, <1>4, <2>1, <2>2, <2>4 DEF Caught
<1>7. CASE topic[r] = Len(plan[r]) /\ Answer(r, "ok")
  <2>1. request'[r] = "ok" /\ "ok" \notin Running
    BY <1>5, <1>7 DEF Answer, Running
  <2>2. ASSUME NEW t \in Replayable PROVE Has(b, t)
    <3>1. PICK j \in 1..Len(TopicOrder) : t = TopicOrder[j]
      BY ReplayAssumption DEF Replayable, ToSet
    <3>2. j <= topic[r]
      BY <1>2, <1>7
    <3> QED
      BY <1>4, <3>1, <3>2
  <2> QED
    BY <1>3, <2>1, <2>2 DEF Caught
<1> QED
  BY <1>6, <1>7 DEF Advance

\* What a step of a request does to the others, and to itself.
LEMMA MoveFacts ==
  ASSUME IInv, NEW r \in Requests, NEW phase, Proceed(r, phase) \/ Answer(r, phase)
  PROVE  /\ request'[r] = phase
         /\ \A q \in Requests : q # r => request'[q] = request[q]
BY DEF IInv, TypeOK, RequestsTyped, Proceed, Answer

LEMMA SameBoardFollows ==
  ASSUME UNCHANGED board, NEW b \in Browsers, owed'[b] = owed[b] \/ owed'[b] = Nothing
  PROVE  Follows(b)
BY DEF Follows

LEMMA AdmissionRInv ==
  ASSUME RInv, IInv', NEW r \in Requests, Refuse(r) \/ Admit(r)
  PROVE  RInv'
<1>1. PICK phase \in {"refused", "mark"} :
        /\ Proceed(r, phase) \/ Answer(r, phase)
        /\ request[r] = "posted"
        /\ UNCHANGED <<logVars, connected, board, owed, last, askVars, runVars, faults>>
  BY DEF Refuse, Admit
<1>2. /\ request'[r] = phase
      /\ \A q \in Requests : q # r => request'[q] = request[q]
  BY <1>1, MoveFacts DEF RInv
<1>3. topic[r] = 1 /\ sent[r] = 0
  BY <1>1, PhaseFacts DEF RInv, FreshInv
<1>4. ASSUME NEW b \in Browsers, last[b] = r PROVE Caught(b, r)'
  <2>1. \A j \in 1..Len(TopicOrder) : ~(j < 1)
    BY PlanFacts
  <2>2. topic'[r] = 1 /\ sent'[r] = 0
    BY <1>1, <1>3 DEF runVars
  <2>3. HasSent(b, TopicOrder[topic[r]], 0)'
    BY DEF HasSent
  <2>4. HasSent(b, TopicOrder[topic[r]], sent[r])'
    BY <2>2, <2>3 DEF HasSent
  <2> QED
    BY <1>2, <2>1, <2>2, <2>4 DEF Caught
<1>5. \A b \in Browsers : Follows(b)
  BY <1>1, SameBoardFollows
<1> QED
  BY <1>1, <1>2, <1>3, <1>4, <1>5, ServiceRInv DEF logVars, runVars

LEMMA MarkRInv ==
  ASSUME RInv, IInv', NEW r \in Requests, Mark(r)
  PROVE  RInv'
<1>1. /\ request[r] = "mark" /\ sent[r] = 0 /\ UNCHANGED sent
      /\ mark' = [mark EXCEPT ![r] = head[Current(r)]]
      /\ UNCHANGED <<logVars, connected, board, owed, last, askVars>>
  BY DEF Mark, RInv, FreshInv
<1>2. \A q \in Requests : q # r => mark'[q] = mark[q] /\ topic'[q] = topic[q]
  BY DEF RInv, IInv, TypeOK, RunsTyped, Mark, Advance
<1>3. \A b \in Browsers : Follows(b)
  BY <1>1, SameBoardFollows
<1>4. ASSUME NEW b \in Browsers, last[b] = r
      PROVE  /\ TopicOrder[topic[r]] \in Replayable /\ Current(r) = TopicOrder[topic[r]]
             /\ owed[b][Current(r)] \in Nat /\ owed[b][Current(r)] <= head[Current(r)]
             /\ head[Current(r)] \in Nat
  <2>1. last[b] # 0
    BY <1>4 DEF Requests
  <2>2. TopicOrder[topic[r]] \in Replayable /\ Current(r) = TopicOrder[topic[r]]
    BY <1>4, <2>1, TopicFacts
  <2>3. ASSUME NEW t \in Replayable
        PROVE  owed[b][t] \in Nat /\ owed[b][t] <= head[t] /\ head[t] \in Nat
    BY DEF RInv, IInv, TypeOK, TopicsTyped, BrowsersTyped, OwedInv, Topics
  <2> QED
    BY <2>2, <2>3
<1>5. CASE head[Current(r)] = 0 /\ Advance(r)
  <2>1. ASSUME NEW b \in Browsers, last[b] = r, Len(board'[b]) < BoardSize
        PROVE  Caught(b, r)'
    <3>1. Has(b, Current(r))
      BY <1>4, <1>5, <2>1 DEF Has
    <3>2. Caught(b, r) /\ request[r] \in Running /\ last[b] # 0
      BY <1>1, <2>1, PhaseFacts DEF RInv, CaughtInv, Requests
    <3> QED
      BY <1>1, <1>5, <2>1, <3>1, <3>2, AdvanceCaught
  <2>2. PICK phase \in {"mark", "ok"} : Proceed(r, phase) \/ Answer(r, phase)
    BY <1>5 DEF Advance
  <2>3. /\ request'[r] = phase
        /\ \A q \in Requests : q # r => request'[q] = request[q]
    BY <2>2, MoveFacts DEF RInv
  <2>4. request'[r] \notin Running => topic'[r] = 1
    <3>1. "mark" \in Running
      BY PhaseFacts
    <3>2. CASE Proceed(r, "mark")
      BY <3>1, <3>2, MoveFacts DEF RInv
    <3>3. CASE topic' = [topic EXCEPT ![r] = 1]
      BY <3>3 DEF RInv, IInv, TypeOK, RunsTyped
    <3> QED
      BY <1>5, <3>2, <3>3 DEF Advance
  <2> QED
    BY <1>1, <1>2, <1>3, <2>1, <2>3, <2>4, ServiceRInv DEF logVars
<1>6. CASE Proceed(r, "drain") /\ UNCHANGED <<topic, replaying>>
  <2>1. /\ request'[r] = "drain"
        /\ \A q \in Requests : q # r => request'[q] = request[q]
    BY <1>6, MoveFacts DEF RInv
  <2>2. ASSUME NEW b \in Browsers, last[b] = r, Len(board'[b]) < BoardSize
        PROVE  Caught(b, r)'
    <3>1. Caught(b, r) /\ request[r] \in Running
      BY <1>1, <2>2, PhaseFacts DEF RInv, CaughtInv, Requests
    <3>2. \A t : Has(b, t)' <=> Has(b, t)
      BY <1>1 DEF Has
    <3>3. HasSent(b, TopicOrder[topic[r]], sent[r])'
      BY <1>1, <3>1 DEF Caught, HasSent
    <3>4. owed'[b][TopicOrder[topic[r]]] <= mark'[r]
      BY <1>1, <1>4, <2>2 DEF RInv, IInv, TypeOK, RunsTyped
    <3>5. "drain" \in Running /\ "drain" # "close" /\ "drain" # "ok"
      BY PhaseFacts
    <3> QED
      BY <1>1, <1>6, <2>1, <3>1, <3>2, <3>3, <3>4, <3>5 DEF Caught
  <2>3. "drain" \in Running
    BY PhaseFacts
  <2> QED
    BY <1>1, <1>2, <1>3, <2>1, <2>2, <2>3, ServiceRInv DEF logVars
<1>7. \/ head[Current(r)] = 0 /\ Advance(r)
      \/ Proceed(r, "drain") /\ UNCHANGED <<topic, replaying>>
  BY DEF Mark
<1> QED
  BY <1>5, <1>6, <1>7

LEMMA CloseRInv ==
  ASSUME RInv, IInv', NEW r \in Requests, Close(r)
  PROVE  RInv'
<1>1. /\ request[r] = "close" /\ Leave(r) /\ Advance(r)
      /\ UNCHANGED <<logVars, connected, board, owed, last, askVars>>
  BY DEF Close
<1>2. /\ sent'[r] = 0
      /\ \A q \in Requests : q # r => /\ mark'[q] = mark[q] /\ sent'[q] = sent[q]
                                     /\ topic'[q] = topic[q]
  BY <1>1 DEF RInv, IInv, TypeOK, RunsTyped, Leave, Advance
<1>3. \A b \in Browsers : Follows(b)
  BY <1>1, SameBoardFollows
<1>4. ASSUME NEW b \in Browsers, last[b] = r, Len(board'[b]) < BoardSize
      PROVE  Caught(b, r)'
  <2>1. Caught(b, r) /\ request[r] \in Running /\ last[b] # 0
    BY <1>1, <1>4, PhaseFacts DEF RInv, CaughtInv, Requests
  <2>2. Current(r) = TopicOrder[topic[r]] /\ Current(r) \in Replayable
    BY <1>4, <2>1, TopicFacts
  <2>3. owed[b][Current(r)] <= sent[r] /\ HasSent(b, Current(r), sent[r])
    BY <1>1, <2>1, <2>2 DEF Caught
  <2>4. owed[b][Current(r)] \in Nat /\ sent[r] \in Nat
    BY <2>2 DEF RInv, IInv, TypeOK, BrowsersTyped, RunsTyped
  <2>5. Has(b, Current(r))
    <3>1. \A i \in 1..owed[b][Current(r)] : i <= sent[r]
      BY <2>3, <2>4
    <3> QED
      BY <2>3, <3>1 DEF Has, HasSent
  <2> QED
    BY <1>1, <1>2, <1>4, <2>1, <2>5, AdvanceCaught
<1>5. PICK phase \in {"mark", "ok"} : Proceed(r, phase) \/ Answer(r, phase)
  BY <1>1 DEF Advance
<1>6. /\ request'[r] = phase
      /\ \A q \in Requests : q # r => request'[q] = request[q]
  BY <1>5, MoveFacts DEF RInv
<1>7. request'[r] \notin Running => topic'[r] = 1
  <2>1. "mark" \in Running
    BY PhaseFacts
  <2>2. CASE Proceed(r, "mark")
    BY <2>1, <2>2, MoveFacts DEF RInv
  <2>3. CASE topic' = [topic EXCEPT ![r] = 1]
    BY <2>3 DEF RInv, IInv, TypeOK, RunsTyped
  <2> QED
    BY <1>1, <2>2, <2>3 DEF Advance
<1> QED
  BY <1>1, <1>2, <1>3, <1>4, <1>6, <1>7, ServiceRInv DEF logVars

LEMMA PushRInv ==
  ASSUME RInv, IInv', NEW r \in Requests, Push(r)
  PROVE  RInv'
<1> DEFINE e == <<Current(r), sent[r]>>
           phase == IF sent'[r] >= mark[r] THEN "close" ELSE request[r]
<1>1. /\ request[r] \in {"drain", "close"} /\ Emit(e) /\ Proceed(r, phase)
      /\ sent' = [sent EXCEPT ![r] = @ + 1]
      /\ UNCHANGED <<logVars, connected, owed, last, askVars, topic, mark>>
  BY DEF Push
<1>2. /\ request'[r] = phase /\ phase \in {"drain", "close"} /\ phase \in Running
      /\ \A q \in Requests : q # r => request'[q] = request[q]
  BY <1>1, MoveFacts, PhaseFacts DEF RInv
<1>3. /\ sent'[r] = sent[r] + 1 /\ sent[r] \in Nat /\ mark[r] \in Nat
      /\ \A q \in Requests : q # r => sent'[q] = sent[q]
  BY <1>1 DEF RInv, IInv, TypeOK, RunsTyped
<1>4. e \in Event
  <2>1. Current(r) \in Topics
    BY PlanTopics DEF RInv, IInv, TypeOK, RequestsTyped, RunsTyped, Current
  <2> QED
    BY <1>3, <2>1 DEF Event
<1>5. \A b \in Browsers : Follows(b)
  BY <1>1, <1>4, EmitFollows DEF RInv
<1>6. ASSUME NEW b \in Browsers, last[b] = r, Len(board'[b]) < BoardSize
      PROVE  Caught(b, r)'
  <2>1. /\ last[b] # 0 /\ TopicOrder[topic[r]] \in Replayable
        /\ Current(r) = TopicOrder[topic[r]] /\ topic[r] \in 1..Len(TopicOrder)
    BY <1>6, TopicFacts DEF Requests
  <2>2. CASE ~connected[b]
    <3>1. owed'[b] = Nothing
      BY <1>1, <2>2 DEF RInv, OwedInv
    <3> QED
      BY <1>1, <2>1, <3>1, ForgivenCaught
  <2>3. CASE connected[b]
    <3>1. /\ Len(board[b]) < BoardSize /\ ToSet(board[b]) \subseteq ToSet(board'[b])
          /\ e \in ToSet(board'[b])
      BY <1>1, <1>4, <1>6, <2>3, EmitGrows DEF RInv, IInv, TypeOK
    <3>2. Caught(b, r) /\ request[r] \in Running
      BY <1>1, <1>6, <2>1, <3>1, PhaseFacts DEF RInv, CaughtInv
    <3>3. \A t : Has(b, t) => Has(b, t)'
      BY <1>1, <3>1 DEF Has
    <3>4. HasSent(b, Current(r), sent[r])
      BY <2>1, <3>2 DEF Caught
    <3>5. ASSUME NEW i \in 1..owed[b][Current(r)], i <= sent'[r]
          PROVE  <<Current(r), i - 1>> \in ToSet(board'[b])
      <4>1. i \in Nat
        BY <2>1 DEF RInv, IInv, TypeOK, BrowsersTyped
      <4>2. CASE i <= sent[r]
        BY <3>1, <3>4, <4>2 DEF HasSent
      <4>3. CASE ~(i <= sent[r])
        <5>1. i - 1 = sent[r]
          BY <1>3, <3>5, <4>1, <4>3
        <5> QED
          BY <3>1, <5>1
      <4> QED
        BY <4>2, <4>3
    <3>6. HasSent(b, TopicOrder[topic[r]], sent[r])'
      BY <1>1, <2>1, <3>5 DEF HasSent
    <3>7. owed[b][Current(r)] \in Nat
      BY <2>1 DEF RInv, IInv, TypeOK, BrowsersTyped
    <3>8. phase = "drain" => owed[b][Current(r)] <= mark[r]
      <4>1. phase = "drain" => request[r] = "drain"
        OBVIOUS
      <4> QED
        BY <2>1, <3>2, <4>1 DEF Caught
    <3>9. phase = "close" => owed[b][Current(r)] <= sent'[r]
      <4>1. CASE request[r] = "close"
        <5>1. owed[b][Current(r)] <= sent[r]
          BY <2>1, <3>2, <4>1 DEF Caught
        <5> QED
          BY <1>3, <3>7, <5>1
      <4>2. CASE request[r] = "drain"
        <5>1. owed[b][Current(r)] <= mark[r]
          BY <2>1, <3>2, <4>2 DEF Caught
        <5>2. phase = "close" => sent'[r] >= mark[r]
          BY <4>2
        <5>3. sent'[r] \in Nat
          BY <1>3
        <5> HIDE DEF phase
        <5> QED
          BY <1>3, <3>7, <5>1, <5>2, <5>3
      <4> QED
        BY <1>1, <4>1, <4>2
    <3> HIDE DEF phase, e
    <3>10. phase # "ok"
      BY <1>2
    <3>11. /\ topic'[r] = topic[r] /\ mark'[r] = mark[r] /\ owed'[b] = owed[b]
           /\ request'[r] = phase
      BY <1>1, <1>2
    <3> QED
      BY <2>1, <3>2, <3>3, <3>6, <3>8, <3>9, <3>10, <3>11 DEF Caught
  <2> QED
    BY <2>2, <2>3
<1> HIDE DEF phase, e
<1>7. request'[r] \in Running /\ request'[r] \in {"drain", "close"}
  BY <1>2
<1> QED
  BY <1>1, <1>2, <1>3, <1>5, <1>6, <1>7, ServiceRInv DEF logVars

\* A step that forgives the browser that asked.
LEMMA ForgivingRInv ==
  ASSUME RInv, IInv', NEW r \in Requests, Timeout(r) \/ Stall(r)
  PROVE  RInv'
<1>1. /\ request[r] = "drain" /\ Forgive(r) /\ UNCHANGED <<topic, mark, sent>>
      /\ UNCHANGED <<logVars, connected, board, last, askVars>>
  BY DEF Timeout, Stall, runVars
<1>2. /\ request'[r] \in {"drain", "close"} /\ request'[r] \in Running
      /\ \A q \in Requests : q # r => request'[q] = request[q]
  <2>1. CASE Timeout(r)
    BY <2>1, MoveFacts, PhaseFacts DEF Timeout, RInv
  <2>2. CASE Stall(r)
    BY <1>1, <2>2, PhaseFacts DEF Stall
  <2> QED
    BY <2>1, <2>2
<1>3. \A b \in Browsers :
        /\ owed'[b] = owed[b] \/ owed'[b] = Nothing
        /\ b = asker[r] => owed'[b] = Nothing
  BY <1>1 DEF Forgive
<1>4. \A b \in Browsers : Follows(b)
  BY <1>1, <1>3, SameBoardFollows
<1>5. ASSUME NEW b \in Browsers, last[b] = r PROVE Caught(b, r)'
  <2>1. last[b] # 0
    BY <1>5 DEF Requests
  <2>2. asker[r] = b /\ topic[r] \in 1..Len(TopicOrder)
    BY <1>5, <2>1, TopicFacts DEF RInv, OwedInv
  <2> QED
    BY <1>1, <1>3, <2>2, ForgivenCaught
<1> QED
  BY <1>1, <1>2, <1>4, <1>5, ServiceRInv DEF logVars

LEMMA FailRInv ==
  ASSUME RInv, IInv', NEW r \in Requests, Fail(r)
  PROVE  RInv'
<1>1. /\ Leave(r) /\ Answer(r, "failed") /\ topic' = [topic EXCEPT ![r] = 1]
      /\ UNCHANGED <<logVars, connected, board, owed, last, askVars>>
  BY DEF Fail
<1>2. /\ request'[r] = "failed"
      /\ \A q \in Requests : q # r => request'[q] = request[q]
  BY <1>1, MoveFacts DEF RInv
<1>3. /\ sent'[r] = 0 /\ topic'[r] = 1
      /\ \A q \in Requests : q # r => /\ mark'[q] = mark[q] /\ sent'[q] = sent[q]
                                     /\ topic'[q] = topic[q]
  BY <1>1 DEF RInv, IInv, TypeOK, RunsTyped, Leave
<1>4. "failed" \notin Running /\ "failed" \notin {"drain", "close", "ok"}
  BY PhaseFacts
<1>5. \A b \in Browsers : Caught(b, r)'
  BY <1>2, <1>4 DEF Caught
<1>6. \A b \in Browsers : Follows(b)
  BY <1>1, SameBoardFollows
<1> QED
  BY <1>1, <1>2, <1>3, <1>5, <1>6, ServiceRInv DEF logVars

LEMMA RestartRInv ==
  ASSUME RInv, IInv', MonitorRestarts
  PROVE  RInv'
<1>1. \A b \in Browsers : owed'[b] = Nothing
  BY DEF MonitorRestarts
<1>2. OwedInv'
  <2>1. \A b \in Browsers, t \in Replayable : owed'[b][t] <= head'[t]
    BY <1>1, NothingFacts DEF IInv, TypeOK, TopicsTyped, Topics
  <2> QED
    BY <1>1, <2>1 DEF RInv, OwedInv, MonitorRestarts, askVars
<1>3. \A r \in Requests : topic'[r] = 1 /\ sent'[r] = 0
  BY DEF MonitorRestarts
<1>4. FreshInv'
  BY <1>3 DEF FreshInv
<1>5. ASSUME NEW b \in Browsers, last'[b] # 0 PROVE Caught(b, last[b])'
  <2>1. last'[b] = last[b] /\ last[b] \in Requests
    BY <1>5, TopicFacts DEF MonitorRestarts
  <2>2. topic'[last[b]] \in 1..Len(TopicOrder)
    BY <1>3, <2>1, ReplayAssumption
  <2> QED
    BY <1>1, <2>1, <2>2, ForgivenCaught
<1> QED
  BY <1>2, <1>4, <1>5 DEF RInv, CaughtInv

LEMMA InitRInv == Init => RInv
<1> SUFFICES ASSUME Init PROVE RInv
  OBVIOUS
<1>1. \A b \in Browsers, t \in Replayable : owed[b][t] <= head[t]
  BY NothingFacts DEF Init, Topics
<1> QED
  BY <1>1, InitInv DEF Init, RInv, OwedInv, FreshInv, CaughtInv

LEMMA NextRInv == RInv /\ [Next]_vars => RInv'
<1> SUFFICES ASSUME RInv, [Next]_vars PROVE RInv'
  OBVIOUS
<1>1. IInv'
  BY NextInv DEF RInv
<1>2. ASSUME NEW t \in Topics, Publish(t) \/ PushLive(t) PROVE RInv'
  BY <1>1, <1>2, QuietRInv
<1>3. ASSUME NEW topics \in Plans, Call(topics) PROVE RInv'
  BY <1>1, <1>3, CallRInv
<1>4. ASSUME NEW b \in Browsers, Ask(b) PROVE RInv'
  BY <1>1, <1>4, AskRInv
<1>5. ASSUME NEW b \in Browsers,
             Clear(b) \/ OtherStarts(b) \/ OtherEnds(b) \/ Disconnect(b) \/ Reconnect(b)
      PROVE  RInv'
  BY <1>1, <1>5, QuietRInv
<1>6. ASSUME NEW r \in Requests, Serve(r) PROVE RInv'
  BY <1>1, <1>6, AdmissionRInv, MarkRInv, PushRInv, ForgivingRInv, CloseRInv DEF Serve
<1>7. ASSUME NEW r \in Requests, Stall(r) \/ Fail(r) PROVE RInv'
  BY <1>1, <1>7, ForgivingRInv, FailRInv
<1>8. CASE MonitorRestarts
  BY <1>1, <1>8, RestartRInv
<1>9. CASE UNCHANGED vars
  <2>1. UNCHANGED <<request, runVars, last, connected, head, askVars>>
    BY <1>9 DEF vars, browserVars, logVars
  <2>2. \A b \in Browsers : Follows(b) /\ owed'[b] = owed[b]
    BY <1>9 DEF vars, browserVars, Follows
  <2>3. \A t \in Topics : head[t] <= head'[t]
    BY <2>1 DEF RInv, IInv, TypeOK, TopicsTyped
  <2> QED
    BY <1>1, <2>1, <2>2, <2>3, OwedKept, QuietCaught DEF RInv
<1> QED
  BY <1>2, <1>3, <1>4, <1>5, <1>6, <1>7, <1>8, <1>9 DEF Next

\* A replay that went through brought back every event that was in the domain
\* topics when the browser asked, unless the board is full, was cleared or lost
\* its socket meanwhile: for any topics, browsers, failures and other replays
\* (replay.service.ts: replay, replayTopic; page.tsx: onReplay).
THEOREM ReplayRebuilds == Spec => []Rebuilt
<1>1. RInv => Rebuilt
  <2> SUFFICES ASSUME RInv, NEW b \in Browsers, last[b] # 0, request[last[b]] = "ok",
                      Len(board[b]) < BoardSize
               PROVE  \A t \in Replayable : Has(b, t)
    BY DEF Rebuilt, Has
  <2> QED
    BY DEF RInv, CaughtInv, Caught
<1> QED
  BY <1>1, InitRInv, NextRInv, PTL DEF Spec

-----------------------------------------------------------------------------
(* Answers: an asked request stays open or was answered, and a disabled     *)
(* button waits for an open request of its own browser or another call.     *)

AskedIsPosted == \A r \in 1..asks : request[r] # "none"

AnswersInv == AskedIsPosted /\ BusyIsExplained

LEMMA AskedAreRequests ==
  ASSUME TypeOK
  PROVE  asks \in Nat /\ MaxReplays \in Nat /\ 1..asks \subseteq Requests
BY PlanFacts DEF TypeOK, RequestsTyped, Requests

\* Whatever answers nobody, and disables buttons only for another call.
LEMMA QuietAnswers ==
  ASSUME AnswersInv, UNCHANGED <<askVars, request>>,
         \A b \in Browsers :
           busy'[b] => others'[b] > 0 \/ (busy[b] /\ others'[b] = others[b])
  PROVE  AnswersInv'
BY DEF AnswersInv, AskedIsPosted, BusyIsExplained, Open, askVars

LEMMA PostAnswers ==
  ASSUME TypeOK, AnswersInv, NEW who, NEW topics, Post(who, topics),
         UNCHANGED others,
         \A b \in Browsers : busy'[b] => busy[b] \/ b = who,
         \A r \in Requests : r > asks => request[r] = "none"
  PROVE  AnswersInv'
<1>1. /\ asks \in Nat /\ asks' = asks + 1 /\ asks' \in Requests
      /\ 1..asks \subseteq Requests /\ request[asks'] = "none"
  BY AskedAreRequests DEF Post, Requests
<1>2. /\ request'[asks'] = "posted" /\ asker'[asks'] = who
      /\ \A r \in Requests : r # asks' => request'[r] = request[r] /\ asker'[r] = asker[r]
  BY <1>1 DEF Post, TypeOK, RequestsTyped
<1>3. AskedIsPosted'
  <2> SUFFICES ASSUME NEW r \in 1..asks' PROVE request'[r] # "none"
    BY DEF AskedIsPosted
  <2>1. r = asks' \/ (r \in 1..asks /\ r \in Requests)
    BY <1>1
  <2> QED BY <1>2, <2>1 DEF AnswersInv, AskedIsPosted
<1>4. ASSUME NEW b \in Browsers, busy'[b], ~(others'[b] > 0)
      PROVE  \E r \in Requests : asker'[r] = b /\ Open(r)'
  <2>1. CASE b = who
    BY <1>1, <1>2, <2>1 DEF Open
  <2>2. CASE busy[b]
    <3>1. PICK r \in Requests : asker[r] = b /\ Open(r)
      BY <1>4, <2>2 DEF AnswersInv, BusyIsExplained
    <3>2. r # asks'
      BY <1>1, <3>1 DEF Open, Running
    <3> QED BY <1>2, <3>1, <3>2 DEF Open
  <2> QED BY <1>4, <2>1, <2>2
<1> QED
  BY <1>3, <1>4 DEF AnswersInv, BusyIsExplained

\* The service moves one request; when it answers it, it lowers the flag of the
\* browser that asked.
LEMMA ServiceAnswers ==
  ASSUME TypeOK, AnswersInv, NEW r \in Requests, request[r] # "none",
         UNCHANGED askVars, NEW phase,
         \/ Proceed(r, phase) /\ phase \in Running
         \/ Answer(r, phase) /\ phase \in Answers
  PROVE  AnswersInv'
<1>1. /\ request' = [request EXCEPT ![r] = phase] /\ phase # "none"
      /\ \A q \in Requests : q # r => request'[q] = request[q]
      /\ request'[r] = phase
  BY DEF Proceed, Answer, Running, Answers, TypeOK, RequestsTyped
<1>2. AskedIsPosted'
  BY <1>1, AskedAreRequests DEF AnswersInv, AskedIsPosted, askVars
<1>3. ASSUME NEW b \in Browsers, busy'[b], ~(others'[b] > 0)
      PROVE  \E q \in Requests : asker'[q] = b /\ Open(q)'
  <2>1. CASE Proceed(r, phase) /\ phase \in Running
    <3>1. PICK q \in Requests : asker[q] = b /\ Open(q)
      BY <1>3, <2>1 DEF AnswersInv, BusyIsExplained, Proceed
    <3> QED BY <1>1, <2>1, <3>1 DEF Open, askVars
  <2>2. CASE Answer(r, phase)
    <3>1. busy[b] /\ b # asker[r] /\ others' = others
      BY <1>3, <2>2 DEF Answer
    <3>2. PICK q \in Requests : asker[q] = b /\ Open(q)
      BY <1>3, <3>1 DEF AnswersInv, BusyIsExplained
    <3> QED BY <1>1, <3>1, <3>2 DEF Open, askVars
  <2> QED BY <2>1, <2>2
<1> QED
  BY <1>2, <1>3 DEF AnswersInv, BusyIsExplained

LEMMA RestartAnswers ==
  ASSUME TypeOK, AnswersInv, MonitorRestarts
  PROVE  AnswersInv'
<1>1. /\ UNCHANGED askVars
      /\ \A r \in Requests :
           request'[r] = IF Open(r) THEN "failed" ELSE request[r]
  BY DEF MonitorRestarts, Open
<1>2. AskedIsPosted'
  BY <1>1, AskedAreRequests DEF AnswersInv, AskedIsPosted, askVars
<1>3. ASSUME NEW b \in Browsers, busy'[b], ~(others'[b] > 0) PROVE FALSE
  <2>1. others' = others /\ busy[b] /\ \A r \in Requests : asker[r] = b => request'[r] = request[r]
    BY <1>3 DEF MonitorRestarts
  <2>2. PICK r \in Requests : asker[r] = b /\ Open(r)
    BY <1>3, <2>1 DEF AnswersInv, BusyIsExplained
  <2>3. request[r] = "failed"
    BY <1>1, <2>1, <2>2
  <2> QED BY <2>2, <2>3 DEF Open, Running
<1> QED
  BY <1>2, <1>3 DEF AnswersInv, BusyIsExplained

LEMMA AdvanceAnswers ==
  ASSUME NEW r \in Requests, Advance(r)
  PROVE  \E phase : \/ Proceed(r, phase) /\ phase \in Running
                    \/ Answer(r, phase) /\ phase \in Answers
<1>1. "mark" \in Running /\ "ok" \in Answers
  BY DEF Running, Answers
<1> QED
  BY <1>1 DEF Advance

LEMMA AnswersStep == IInv /\ AnswersInv /\ [Next]_vars => AnswersInv'
<1> SUFFICES ASSUME IInv, AnswersInv, [Next]_vars PROVE AnswersInv'
  OBVIOUS
<1>t. TypeOK /\ (\A r \in Requests : r > asks => request[r] = "none")
  BY DEF IInv, Unmade
<1>1. CASE UNCHANGED vars
  BY <1>1, QuietAnswers DEF vars, browserVars
<1>2. ASSUME NEW t \in Topics, Publish(t) \/ PushLive(t) PROVE AnswersInv'
  BY <1>2, QuietAnswers DEF Publish, PushLive, browserVars
<1>3. ASSUME NEW topics \in Plans, Call(topics) PROVE AnswersInv'
  BY <1>3, <1>t, PostAnswers DEF Call, browserVars
<1>4. ASSUME NEW b \in Browsers, Ask(b) PROVE AnswersInv'
  <2>1. \A c \in Browsers : busy'[c] => busy[c] \/ c = b
    BY <1>4, <1>t DEF Ask, TypeOK, BrowsersTyped
  <2> QED BY <1>4, <1>t, <2>1, PostAnswers DEF Ask
<1>5. ASSUME NEW b \in Browsers,
             Clear(b) \/ OtherStarts(b) \/ OtherEnds(b) \/ Disconnect(b) \/ Reconnect(b)
      PROVE  AnswersInv'
  <2>1. \A c \in Browsers :
          busy'[c] => others'[c] > 0 \/ (busy[c] /\ others'[c] = others[c])
    BY <1>5, <1>t DEF Clear, OtherStarts, OtherEnds, Disconnect, Reconnect,
                         TypeOK, BrowsersTyped
  <2> QED BY <1>5, <2>1, QuietAnswers
     DEF Clear, OtherStarts, OtherEnds, Disconnect, Reconnect
<1>6. ASSUME NEW r \in Requests, Serve(r) \/ Stall(r) \/ Fail(r) PROVE AnswersInv'
  <2>1. CASE Stall(r)
    BY <2>1, QuietAnswers DEF Stall
  <2>2. CASE Refuse(r) \/ Admit(r) \/ Fail(r)
    <3>1. /\ request[r] # "none" /\ UNCHANGED askVars
          /\ \/ Answer(r, "refused") \/ Proceed(r, "mark") \/ Answer(r, "failed")
      BY <2>2 DEF Refuse, Admit, Fail
    <3>2. {"refused", "failed"} \subseteq Answers /\ "mark" \in Running
      BY DEF Answers, Running
    <3> QED BY <1>t, <3>1, <3>2, ServiceAnswers
  <2>3. CASE Mark(r)
    <3>1. request[r] # "none" /\ UNCHANGED askVars /\ "drain" \in Running
      BY <2>3 DEF Mark, Running
    <3> QED BY <1>t, <2>3, <3>1, AdvanceAnswers, ServiceAnswers DEF Mark
  <2>4. CASE Push(r)
    <3>1. /\ request[r] \in Running /\ UNCHANGED askVars /\ "close" \in Running
          /\ request[r] # "none"
      BY <2>4 DEF Push, Running
    <3>2. \E phase \in Running : Proceed(r, phase)
      BY <2>4, <3>1 DEF Push
    <3> QED BY <1>t, <3>1, <3>2, ServiceAnswers
  <2>5. CASE Timeout(r)
    <3>1. request[r] # "none" /\ UNCHANGED askVars /\ "close" \in Running
      BY <2>5 DEF Timeout, Running
    <3> QED BY <1>t, <2>5, <3>1, ServiceAnswers DEF Timeout
  <2>6. CASE Close(r)
    <3>1. request[r] # "none" /\ UNCHANGED askVars /\ Advance(r)
      BY <2>6 DEF Close
    <3> QED BY <1>t, <3>1, AdvanceAnswers, ServiceAnswers
  <2> QED BY <1>6, <2>1, <2>2, <2>3, <2>4, <2>5, <2>6 DEF Serve
<1> QED
  BY <1>t, <1>1, <1>2, <1>3, <1>4, <1>5, <1>6, RestartAnswers DEF Next

LEMMA AnswersInit == Init => AnswersInv
BY DEF Init, AnswersInv, AskedIsPosted, BusyIsExplained

THEOREM AnswersInvariance == Spec => [](IInv /\ AnswersInv)
<1>1. IInv /\ [Next]_vars => IInv'
  BY NextInv
<1> QED
  BY InitInv, AnswersInit, <1>1, AnswersStep, PTL DEF Spec

\* However replays, pauses, orders, restarts and lost sockets are interleaved, a
\* browser's buttons are disabled only while it has a call open: a replay of its
\* own, a pause, a resume or an order (page.tsx: act, whose finally runs also when
\* the call is refused, fails or dies with the monitor).
THEOREM DisabledForACall == Spec => []BusyIsExplained
<1>1. AnswersInv => BusyIsExplained
  BY DEF AnswersInv
<1> QED
  BY <1>1, AnswersInvariance, PTL

\* What every replay being answered comes to: once no call is open, each one ever
\* made has its answer, the next replay is let in, and the buttons of a browser
\* work as soon as it waits for no other call.
THEOREM RestMeansAnswered == Spec => []AnsweredAtRest
<1>1. IInv /\ AnswersInv => AnsweredAtRest
  <2> SUFFICES ASSUME IInv, AnswersInv, \A r \in Requests : ~Open(r)
               PROVE  /\ \A r \in 1..asks : request[r] \in Answers
                      /\ ~replaying
                      /\ \A b \in Browsers : busy[b] => others[b] > 0
    BY DEF AnsweredAtRest
  <2>1. ASSUME NEW r \in 1..asks PROVE request[r] \in Answers
    <3>1. r \in Requests /\ request[r] # "none" /\ request[r] \in Phases
      BY AskedAreRequests DEF AnswersInv, AskedIsPosted, IInv, TypeOK, RequestsTyped
    <3> QED BY <3>1 DEF Open, Phases
  <2>2. ~replaying
    BY DEF IInv, OneReplay, Open
  <2>3. \A b \in Browsers : busy[b] => others[b] > 0
    BY DEF AnswersInv, BusyIsExplained
  <2> QED BY <2>1, <2>2, <2>3
<1> QED
  BY <1>1, AnswersInvariance, PTL
=============================================================================
