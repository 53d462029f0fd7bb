------------------------ MODULE ConsumerControl_proofs ------------------------
(***************************************************************************)
(* Proofs about ConsumerControl, for every set of services and every bound *)
(* on clicks, events and faults.                                           *)
(***************************************************************************)
EXTENDS ConsumerControl, FiniteSetTheorems, TLAPS

(* What a longer log or one more command makes of PausedBy. *)

\* A command appended behind the first n does not matter to them.
LEMMA PausedByAppend ==
  ASSUME NEW log \in Seq(Command), NEW cmd \in Command,
         NEW s, NEW n \in 0..Len(log)
  PROVE  PausedBy(Append(log, cmd), s, n) <=> PausedBy(log, s, n)
<1>1. \A i \in 1..n : Append(log, cmd)[i] = log[i]
  OBVIOUS
<1>2. \A i \in 1..n : \A j \in (i + 1)..n : j \in 1..n
  OBVIOUS
<1> QED
  BY <1>1, <1>2 DEF PausedBy

\* The next command decides for its addressee ...
LEMMA PausedByOwn ==
  ASSUME NEW log \in Seq(Command), NEW n \in 0..Len(log), n < Len(log),
         NEW s, log[n + 1].service = s
  PROVE  PausedBy(log, s, n + 1) <=> log[n + 1].action = "pause"
<1>1. n + 1 \in 1..(n + 1) /\ log[n + 1] \in Command
  OBVIOUS
<1>2. ASSUME log[n + 1].action = "pause"
      PROVE  PausedBy(log, s, n + 1)
  <2>1. log[n + 1] = [service |-> s, action |-> "pause"]
    BY <1>1, <1>2 DEF Command
  <2>2. ((n + 1) + 1)..(n + 1) = {}
    OBVIOUS
  <2> QED
    BY <1>1, <2>1, <2>2 DEF PausedBy
<1>3. ASSUME PausedBy(log, s, n + 1)
      PROVE  log[n + 1].action = "pause"
  <2>1. PICK i \in 1..(n + 1) :
          /\ log[i] = [service |-> s, action |-> "pause"]
          /\ \A j \in (i + 1)..(n + 1) : log[j].service # s
    BY <1>3 DEF PausedBy
  <2>2. CASE i = n + 1
    BY <2>1, <2>2
  <2>3. CASE i # n + 1
    <3>1. n + 1 \in (i + 1)..(n + 1)
      BY <2>3
    <3> QED BY <2>1, <3>1
  <2> QED BY <2>2, <2>3
<1> QED BY <1>2, <1>3

\* ... and for nobody else.
LEMMA PausedByOther ==
  ASSUME NEW log \in Seq(Command), NEW n \in 0..Len(log), n < Len(log),
         NEW s, log[n + 1].service # s
  PROVE  PausedBy(log, s, n + 1) <=> PausedBy(log, s, n)
<1>1. ASSUME PausedBy(log, s, n)
      PROVE  PausedBy(log, s, n + 1)
  <2>1. PICK i \in 1..n :
          /\ log[i] = [service |-> s, action |-> "pause"]
          /\ \A j \in (i + 1)..n : log[j].service # s
    BY <1>1 DEF PausedBy
  <2>2. \A j \in (i + 1)..(n + 1) : j \in (i + 1)..n \/ j = n + 1
    OBVIOUS
  <2>3. i \in 1..(n + 1)
    OBVIOUS
  <2> QED
    BY <2>1, <2>2, <2>3 DEF PausedBy
<1>2. ASSUME PausedBy(log, s, n + 1)
      PROVE  PausedBy(log, s, n)
  <2>1. PICK i \in 1..(n + 1) :
          /\ log[i] = [service |-> s, action |-> "pause"]
          /\ \A j \in (i + 1)..(n + 1) : log[j].service # s
    BY <1>2 DEF PausedBy
  <2>2. i # n + 1
    BY <2>1
  <2>3. i \in 1..n
    BY <2>2
  <2>4. \A j \in (i + 1)..n : j \in (i + 1)..(n + 1)
    OBVIOUS
  <2> QED
    BY <2>1, <2>3, <2>4 DEF PausedBy
<1> QED BY <1>1, <1>2

-----------------------------------------------------------------------------
(* The inductive invariant: the types, what the flags owe to the log, that *)
(* a stopped service is a fault, and where everybody stands in the topics. *)

\* Every event from where the group came in up to the position of its consumer
\* was handled.
PositionWasHandled ==
  \A s \in Services : \A t \in Topics :
      \A i \in since[s][t]..(pos[s][t] - 1) : i \in handled[s][t]

\* Positions, offsets and the ends a poll has read are not past the end.
WithinTopics ==
  \A s \in Services : \A t \in Topics :
      /\ pos[s][t] <= head[s][t]
      /\ committed[s][t] <= head[s][t]
      /\ read[s][t] <= head[s][t]

Flags == ServiceObeysLog /\ MonitorObeysLog
             /\ (faults = 0 => \A s \in Services : up[s])
Offsets == CommittedWasHandled /\ PositionWasHandled /\ WithinTopics
IInv == TypeOK /\ Flags /\ Offsets

LEMMA InitTyped == Init => TypeOK
<1> SUFFICES ASSUME Init PROVE TypeOK
  OBVIOUS
<1>1. Len(control) = 0 /\ control \in Seq(Command)
  BY DEF Init
<1>2. ServicesTyped
  <2>1. /\ at \in [Services -> 0..Len(control)]
        /\ done \in [Services -> 0..Len(control)]
    BY <1>1 DEF Init
  <2>2. faults \in 0..MaxFaults
    BY ControlAssumption DEF Init
  <2> QED
    BY <1>1, <2>1, <2>2 DEF Init, ServicesTyped
<1>3. TopicsTyped
  <2>1. 0 \in 0..MaxEvents /\ -1 \in -1..MaxEvents /\ 0 \in -1..MaxEvents
    BY ControlAssumption
  <2> QED
    BY <2>1 DEF Init, Each, TopicsTyped
<1>4. MonitorTyped
  <2>1. 0 \in 0..MaxEvents /\ -1 \in -1..MaxEvents
    BY ControlAssumption
  <2>2. monAt \in 0..Len(control) /\ monDone \in 0..Len(control)
    BY <1>1 DEF Init
  <2> QED
    BY <2>1, <2>2 DEF Init, Each, MonitorTyped
<1> QED
  BY <1>2, <1>3, <1>4 DEF TypeOK

LEMMA InitInv == Init => IInv
<1> SUFFICES ASSUME Init PROVE IInv
  OBVIOUS
<1>1. TypeOK
  BY InitTyped
<1>2. \A s : ~PausedBy(control, s, 0)
  BY DEF PausedBy
<1>3. Flags
  BY <1>2 DEF Init, Flags, ServiceObeysLog, MonitorObeysLog
<1>4. \A s \in Services : \A t \in Topics :
        /\ head[s][t] = 0 /\ pos[s][t] = 0 /\ since[s][t] = 0
        /\ committed[s][t] \in {-1, 0} /\ read[s][t] = -1
  BY DEF Init, Each
<1>5. Offsets
  BY <1>4 DEF Offsets, CommittedWasHandled, PositionWasHandled, WithinTopics
<1> QED
  BY <1>1, <1>3, <1>5 DEF IInv

(* What a step leaves alone it keeps. *)

LEMMA FlagsKept ==
  ASSUME Flags, UNCHANGED <<control, paused, at, watched, monAt>>,
         faults' = 0 => faults = 0 /\ up' = up
  PROVE  Flags'
  BY DEF Flags, ServiceObeysLog, MonitorObeysLog

LEMMA OffsetsKept ==
  ASSUME Offsets, UNCHANGED <<topicVars, read>>
  PROVE  Offsets'
  BY DEF Offsets, topicVars, CommittedWasHandled, PositionWasHandled, WithinTopics

LEMMA FaultCounts ==
  ASSUME TypeOK, Fault
  PROVE  faults' \in 0..MaxFaults /\ faults' # 0
  BY ControlAssumption DEF TypeOK, ServicesTyped, Fault

-----------------------------------------------------------------------------
(* The log of commands and its two readers. *)

LEMMA CommandInv ==
  ASSUME IInv, NEW s \in Services, NEW action \in Actions, Control(s, action)
  PROVE  IInv'
<1> DEFINE cmd == [service |-> s, action |-> action]
<1>1. cmd \in Command /\ control \in Seq(Command)
  BY DEF Command, IInv, TypeOK, ServicesTyped
<1>2. control' = Append(control, cmd)
  BY DEF Control, SetConsumer
<1>3. control' \in Seq(Command) /\ Len(control') = Len(control) + 1
  BY <1>1, <1>2
<1>4. TypeOK'
  <2>1. ServicesTyped'
    BY <1>3 DEF IInv, TypeOK, ServicesTyped, Control, serviceVars
  <2>2. TopicsTyped'
    BY DEF IInv, TypeOK, TopicsTyped, Control, topicVars
  <2>3. MonitorTyped'
    BY <1>3 DEF IInv, TypeOK, MonitorTyped, Control, monitorVars, pollVars,
                lagVars, barVars
  <2> QED BY <2>1, <2>2, <2>3 DEF TypeOK
<1>5. \A t : \A n \in 0..Len(control) :
        PausedBy(control', t, n) <=> PausedBy(control, t, n)
  BY <1>1, <1>2, PausedByAppend
<1>6. Flags'
  <2>1. /\ at \in [Services -> 0..Len(control)] /\ monAt \in 0..Len(control)
        /\ UNCHANGED <<up, paused, at, watched, monAt, faults>>
    BY DEF IInv, TypeOK, ServicesTyped, MonitorTyped, Control, serviceVars,
           monitorVars
  <2> QED
    BY <1>5, <2>1 DEF IInv, Flags, ServiceObeysLog, MonitorObeysLog
<1>7. Offsets'
  BY OffsetsKept DEF IInv, Control, pollVars, lagVars
<1> QED
  BY <1>4, <1>6, <1>7 DEF IInv

LEMMA ClickInv ==
  ASSUME IInv, NEW s \in Services, Click(s)
  PROVE  IInv'
<1>1. Toggle(s) \in Actions
  BY DEF Toggle, Actions
<1> QED
  BY <1>1, CommandInv DEF Click, BarClick, MenuClick

LEMMA HandleControlInv ==
  ASSUME IInv, NEW s \in Services, HandleControl(s)
  PROVE  IInv'
<1> DEFINE n == at[s]
           cmd == control[n + 1]
<1>1. /\ control \in Seq(Command) /\ n \in 0..Len(control) /\ n < Len(control)
      /\ paused \in [Services -> BOOLEAN] /\ at \in [Services -> 0..Len(control)]
  BY DEF IInv, TypeOK, ServicesTyped, HandleControl
<1>3. /\ paused' = [paused EXCEPT ![s] =
                       IF cmd.service = s THEN cmd.action = "pause" ELSE @]
      /\ at' = [at EXCEPT ![s] = n + 1]
      /\ UNCHANGED <<control, up, watched, monAt, faults>>
  BY DEF HandleControl, Addressed, Apply, monitorVars
<1>4. TypeOK'
  <2>1. at' \in [Services -> 0..Len(control)]
    BY <1>1, <1>3
  <2>2. paused' \in [Services -> BOOLEAN]
    BY <1>1, <1>3
  <2>3. ServicesTyped'
    BY <2>1, <2>2 DEF IInv, TypeOK, ServicesTyped, HandleControl
  <2> QED
    BY <2>3 DEF IInv, TypeOK, TopicsTyped, MonitorTyped, HandleControl, topicVars,
                monitorVars, pollVars, lagVars, barVars
<1>5. ASSUME NEW t \in Services
      PROVE  /\ paused'[t] => PausedBy(control, t, at'[t])
             /\ faults = 0 => (PausedBy(control, t, at'[t]) => paused'[t])
  <2>0. /\ paused[t] => PausedBy(control, t, at[t])
        /\ faults = 0 => (PausedBy(control, t, at[t]) => paused[t])
    BY DEF IInv, Flags, ServiceObeysLog
  <2>1. CASE t # s
    BY <1>1, <1>3, <2>0, <2>1
  <2>2. CASE t = s /\ cmd.service = s
    <3>1. PausedBy(control, s, n + 1) <=> cmd.action = "pause"
      BY <1>1, <2>2, PausedByOwn
    <3>2. at'[s] = n + 1 /\ paused'[s] = (cmd.action = "pause")
      BY <1>1, <1>3, <2>2
    <3> QED BY <2>2, <3>1, <3>2
  <2>3. CASE t = s /\ cmd.service # s
    <3>1. PausedBy(control, s, n + 1) <=> PausedBy(control, s, n)
      BY <1>1, <2>3, PausedByOther
    <3>2. at'[s] = n + 1 /\ paused'[s] = paused[s]
      BY <1>1, <1>3, <2>3
    <3> QED BY <2>0, <2>3, <3>1, <3>2
  <2> QED BY <2>1, <2>2, <2>3
<1>6. Flags'
  <2>1. ServiceObeysLog'
    BY <1>3, <1>5 DEF ServiceObeysLog
  <2> QED
    BY <1>3, <2>1 DEF IInv, Flags, MonitorObeysLog
<1>7. Offsets'
  BY OffsetsKept DEF IInv, HandleControl, pollVars, lagVars
<1> QED
  BY <1>4, <1>6, <1>7 DEF IInv

LEMMA MonitorHandlesControlInv ==
  ASSUME IInv, MonitorHandlesControl
  PROVE  IInv'
<1> DEFINE cmd == control[monAt + 1]
<1>1. /\ control \in Seq(Command) /\ monAt \in 0..Len(control)
      /\ monAt < Len(control) /\ watched \subseteq Services
  BY DEF IInv, TypeOK, ServicesTyped, MonitorTyped, MonitorHandlesControl
<1>2. cmd.service \in Services
  <2>1. cmd \in Command
    BY <1>1
  <2> QED BY <2>1 DEF Command
<1>3. /\ watched' = IF cmd.action = "pause" THEN watched \union {cmd.service}
                                            ELSE watched \ {cmd.service}
      /\ monAt' = monAt + 1
      /\ UNCHANGED <<control, up, paused, at, faults>>
  BY DEF MonitorHandlesControl, SetPaused, serviceVars
<1>4. TypeOK'
  <2>1. watched' \subseteq Services
    BY <1>1, <1>2, <1>3
  <2>2. monAt' \in 0..Len(control)
    BY <1>1, <1>3
  <2>3. MonitorTyped'
    BY <2>1, <2>2 DEF IInv, TypeOK, MonitorTyped, MonitorHandlesControl, pollVars,
                      lagVars, barVars
  <2> QED
    BY <2>3 DEF IInv, TypeOK, ServicesTyped, TopicsTyped, MonitorHandlesControl,
                serviceVars, topicVars
<1>5. ASSUME NEW t \in Services
      PROVE  /\ t \in watched' => PausedBy(control, t, monAt + 1)
             /\ faults = 0 => (PausedBy(control, t, monAt + 1) => t \in watched')
  <2>0. /\ t \in watched => PausedBy(control, t, monAt)
        /\ faults = 0 => (PausedBy(control, t, monAt) => t \in watched)
    BY DEF IInv, Flags, MonitorObeysLog
  <2>1. CASE cmd.service = t
    <3>1. PausedBy(control, t, monAt + 1) <=> cmd.action = "pause"
      BY <1>1, <2>1, PausedByOwn
    <3>2. t \in watched' <=> cmd.action = "pause"
      BY <1>3, <2>1
    <3> QED BY <3>1, <3>2
  <2>2. CASE cmd.service # t
    <3>1. PausedBy(control, t, monAt + 1) <=> PausedBy(control, t, monAt)
      BY <1>1, <2>2, PausedByOther
    <3>2. t \in watched' <=> t \in watched
      BY <1>3, <2>2
    <3> QED BY <2>0, <3>1, <3>2
  <2> QED BY <2>1, <2>2
<1>6. Flags'
  <2>1. MonitorObeysLog'
    BY <1>3, <1>5 DEF MonitorObeysLog
  <2> QED
    BY <1>3, <2>1 DEF IInv, Flags, ServiceObeysLog
<1>7. Offsets'
  BY OffsetsKept DEF IInv, MonitorHandlesControl, pollVars, lagVars
<1> QED
  BY <1>4, <1>6, <1>7 DEF IInv

-----------------------------------------------------------------------------
(* Restarts. *)

\* A new process has read up to its committed offset and holds no pause.  In a
\* topic it goes on where its group committed, or comes in at the end.
LEMMA StartInv ==
  ASSUME IInv, NEW s \in Services, Start(s)
  PROVE  IInv'
<1> DEFINE New(t) == committed[s][t] < 0
<1>0. \A t \in Topics :
        /\ head[s][t] \in 0..MaxEvents /\ committed[s][t] \in -1..MaxEvents
        /\ since[s][t] \in 0..MaxEvents
  BY DEF IInv, TypeOK, TopicsTyped
<1>1. \A t \in Topics :
        /\ pos'[s][t] = IF New(t) THEN head[s][t] ELSE committed[s][t]
        /\ since'[s][t] = IF New(t) THEN head[s][t] ELSE since[s][t]
  BY <1>0 DEF Start, Join, IInv, TypeOK, TopicsTyped
<1>2. \A u \in Services : u # s => pos'[u] = pos[u] /\ since'[u] = since[u]
  BY DEF Start, IInv, TypeOK, TopicsTyped
<1>3. TypeOK'
  <2>1. ServicesTyped'
    BY DEF IInv, TypeOK, ServicesTyped, Start
  <2>2. \A t \in Topics : pos'[s][t] \in 0..MaxEvents /\ since'[s][t] \in 0..MaxEvents
    BY <1>0, <1>1
  <2>3. TopicsTyped'
    <3>1. /\ pos'[s] \in [Topics -> 0..MaxEvents]
          /\ since'[s] \in [Topics -> 0..MaxEvents]
      BY <2>2 DEF Start, Join, IInv, TypeOK, TopicsTyped
    <3>2. /\ pos' \in [Services -> [Topics -> 0..MaxEvents]]
          /\ since' \in [Services -> [Topics -> 0..MaxEvents]]
      BY <3>1 DEF Start, IInv, TypeOK, TopicsTyped
    <3> QED
      BY <3>2 DEF Start, IInv, TypeOK, TopicsTyped
  <2>4. MonitorTyped'
    BY DEF IInv, TypeOK, MonitorTyped, Start, monitorVars, pollVars, lagVars, barVars
  <2> QED BY <2>1, <2>3, <2>4 DEF TypeOK
<1>4. Flags'
  <2>1. faults # 0 /\ faults' = faults
    BY DEF IInv, Flags, Start
  <2>2. ASSUME NEW t \in Services, paused'[t]
        PROVE  PausedBy(control, t, at'[t])
    <3>1. t # s /\ paused'[t] = paused[t] /\ at'[t] = at[t]
      BY <2>2 DEF IInv, TypeOK, ServicesTyped, Start
    <3> QED
      BY <2>2, <3>1 DEF IInv, Flags, ServiceObeysLog
  <2>3. ServiceObeysLog'
    BY <2>1, <2>2 DEF ServiceObeysLog, Start
  <2>4. MonitorObeysLog'
    BY DEF IInv, Flags, MonitorObeysLog, Start, monitorVars
  <2> QED
    BY <2>1, <2>3, <2>4 DEF Flags
<1>5. UNCHANGED <<head, committed, handled, read>>
  BY DEF Start, pollVars, lagVars
<1>6. ASSUME NEW u \in Services, NEW t \in Topics
      PROVE  /\ \A i \in since'[u][t]..(committed[u][t] - 1) : i \in handled[u][t]
             /\ \A i \in since'[u][t]..(pos'[u][t] - 1) : i \in handled[u][t]
             /\ pos'[u][t] <= head[u][t]
  <2>1. /\ \A i \in since[u][t]..(committed[u][t] - 1) : i \in handled[u][t]
        /\ \A i \in since[u][t]..(pos[u][t] - 1) : i \in handled[u][t]
        /\ pos[u][t] <= head[u][t] /\ committed[u][t] <= head[u][t]
    BY DEF IInv, Offsets, CommittedWasHandled, PositionWasHandled, WithinTopics
  <2>2. CASE u # s
    BY <1>2, <2>1, <2>2
  <2>3. CASE u = s /\ New(t)
    <3>1. /\ since'[u][t] = head[u][t] /\ pos'[u][t] = head[u][t]
          /\ head[u][t] \in Nat /\ committed[u][t] \in Int /\ committed[u][t] < 0
      BY <1>0, <1>1, <2>3
    <3>2. /\ since'[u][t]..(committed[u][t] - 1) = {}
          /\ since'[u][t]..(pos'[u][t] - 1) = {}
      BY <3>1
    <3> QED BY <3>1, <3>2
  <2>4. CASE u = s /\ ~New(t)
    BY <1>1, <2>1, <2>4
  <2> QED BY <2>2, <2>3, <2>4
<1>7. Offsets'
  BY <1>5, <1>6 DEF IInv, Offsets, CommittedWasHandled, PositionWasHandled,
                    WithinTopics
<1> QED
  BY <1>3, <1>4, <1>7 DEF IInv

\* What a poll forgets is typed, and it has read nothing.
LEMMA ForgetTyped ==
  ASSUME Forget
  PROVE  /\ polling' = FALSE
         /\ view' \in [Services -> Statuses \union {"pending", "member", "empty"}]
         /\ read' \in [Services -> [Topics -> -1..MaxEvents]]
         /\ \A s \in Services : \A t \in Topics : read'[s][t] = -1
         /\ counted' \subseteq Services
         /\ lag' \in [Services -> [Topics -> 0..MaxEvents]]
<1>1. 0 \in 0..MaxEvents /\ -1 \in -1..MaxEvents
  BY ControlAssumption
<1> QED
  BY <1>1 DEF Forget, Each

LEMMA ForgetOffsets ==
  ASSUME TypeOK, Offsets, UNCHANGED topicVars, Forget
  PROVE  Offsets'
<1>1. \A s \in Services : \A t \in Topics :
        read'[s][t] = -1 /\ head[s][t] \in 0..MaxEvents
  BY ForgetTyped DEF TypeOK, TopicsTyped
<1>2. \A s \in Services : \A t \in Topics : read'[s][t] <= head[s][t]
  BY <1>1, ControlAssumption
<1> QED
  BY <1>2 DEF Offsets, topicVars, CommittedWasHandled, PositionWasHandled,
              WithinTopics

LEMMA MonitorRestartsInv ==
  ASSUME IInv, MonitorRestarts
  PROVE  IInv'
<1>1. faults' \in 0..MaxFaults /\ faults' # 0
  BY FaultCounts DEF IInv, MonitorRestarts
<1>2. TypeOK'
  <2>1. ServicesTyped' /\ TopicsTyped'
    BY <1>1 DEF IInv, TypeOK, ServicesTyped, TopicsTyped, MonitorRestarts,
                serviceVars, topicVars
  <2>2. MonitorTyped'
    BY ForgetTyped DEF IInv, TypeOK, MonitorTyped, MonitorRestarts, barVars
  <2> QED BY <2>1, <2>2 DEF TypeOK
<1>3. Flags'
  BY <1>1 DEF IInv, Flags, ServiceObeysLog, MonitorObeysLog, MonitorRestarts,
              serviceVars
<1>4. Offsets'
  BY ForgetOffsets DEF IInv, MonitorRestarts
<1> QED
  BY <1>2, <1>3, <1>4 DEF IInv

-----------------------------------------------------------------------------
(* The topics. *)

LEMMA EventArrivesInv ==
  ASSUME IInv, NEW s \in Services, NEW t \in Topics, EventArrives(s, t)
  PROVE  IInv'
<1>1. /\ head \in [Services -> [Topics -> 0..MaxEvents]] /\ head[s][t] < MaxEvents
      /\ head' = [head EXCEPT ![s][t] = @ + 1]
      /\ UNCHANGED <<committed, pos, since, handled, read>>
  BY DEF IInv, TypeOK, TopicsTyped, EventArrives, pollVars, lagVars
<1>2. head' \in [Services -> [Topics -> 0..MaxEvents]]
  BY <1>1, ControlAssumption
<1>3. TypeOK'
  BY <1>2 DEF IInv, TypeOK, ServicesTyped, TopicsTyped, MonitorTyped, EventArrives,
              serviceVars, monitorVars, pollVars, lagVars, barVars
<1>4. \A u \in Services : \A v \in Topics :
        head[u][v] \in Int /\ head'[u][v] \in {head[u][v], head[u][v] + 1}
  BY <1>1
<1>5. WithinTopics'
  <2> SUFFICES ASSUME NEW u \in Services, NEW v \in Topics
               PROVE  /\ pos[u][v] <= head'[u][v]
                      /\ committed[u][v] <= head'[u][v]
                      /\ read[u][v] <= head'[u][v]
    BY <1>1 DEF WithinTopics
  <2>1. /\ pos[u][v] <= head[u][v] /\ committed[u][v] <= head[u][v]
        /\ read[u][v] <= head[u][v]
    BY DEF IInv, Offsets, WithinTopics
  <2>2. pos[u][v] \in Int /\ committed[u][v] \in Int /\ read[u][v] \in Int
    BY DEF IInv, TypeOK, TopicsTyped, MonitorTyped
  <2> QED BY <1>4, <2>1, <2>2
<1>6. Offsets'
  BY <1>1, <1>5 DEF IInv, Offsets, CommittedWasHandled, PositionWasHandled
<1>7. Flags'
  BY FlagsKept DEF IInv, EventArrives, serviceVars, monitorVars
<1> QED
  BY <1>3, <1>6, <1>7 DEF IInv

LEMMA ConsumeInv ==
  ASSUME IInv, NEW s \in Services, NEW t \in Topics, Consume(s, t)
  PROVE  IInv'
<1> DEFINE p == pos[s][t]
<1>1. /\ handled \in [Services -> [Topics -> SUBSET (0..(MaxEvents - 1))]]
      /\ pos \in [Services -> [Topics -> 0..MaxEvents]]
      /\ p \in 0..MaxEvents /\ head[s][t] \in 0..MaxEvents /\ p < head[s][t]
      /\ handled' = [handled EXCEPT ![s][t] = @ \union {p}]
      /\ pos' = [pos EXCEPT ![s][t] = p + 1]
      /\ UNCHANGED <<head, committed, since, read>>
  BY DEF IInv, TypeOK, TopicsTyped, Consume, pollVars, lagVars
<1>2. p \in 0..(MaxEvents - 1) /\ p + 1 \in 0..MaxEvents
  BY <1>1, ControlAssumption
<1>3. TypeOK'
  <2>1. /\ handled' \in [Services -> [Topics -> SUBSET (0..(MaxEvents - 1))]]
        /\ pos' \in [Services -> [Topics -> 0..MaxEvents]]
    BY <1>1, <1>2
  <2> QED
    BY <2>1 DEF IInv, TypeOK, ServicesTyped, TopicsTyped, MonitorTyped, Consume,
                serviceVars, monitorVars, pollVars, lagVars, barVars
<1>4. /\ \A u \in Services : \A v \in Topics :
           /\ handled[u][v] \subseteq handled'[u][v]
           /\ (u = s /\ v = t) \/ pos'[u][v] = pos[u][v]
      /\ p \in handled'[s][t] /\ pos'[s][t] = p + 1
  BY <1>1
<1>5. CommittedWasHandled'
  BY <1>1, <1>4 DEF IInv, Offsets, CommittedWasHandled
<1>6. PositionWasHandled'
  <2> SUFFICES ASSUME NEW u \in Services, NEW v \in Topics,
                      NEW i \in since[u][v]..(pos'[u][v] - 1)
               PROVE  i \in handled'[u][v]
    BY <1>1 DEF PositionWasHandled
  <2>1. \A j \in since[u][v]..(pos[u][v] - 1) : j \in handled'[u][v]
    BY <1>4 DEF IInv, Offsets, PositionWasHandled
  <2>2. CASE pos'[u][v] = pos[u][v]
    BY <2>1, <2>2
  <2>3. CASE u = s /\ v = t
    <3>1. i \in since[u][v]..p
      BY <1>1, <1>4, <2>3
    <3>2. since[u][v] \in Int /\ p \in Int
      BY DEF IInv, TypeOK, TopicsTyped
    <3>3. i = p \/ i \in since[u][v]..(p - 1)
      BY <3>1, <3>2
    <3> QED BY <1>4, <2>1, <2>3, <3>3
  <2> QED BY <1>4, <2>2, <2>3
<1>7. WithinTopics'
  <2>1. pos'[s][t] <= head[s][t]
    BY <1>1, <1>4
  <2> QED
    BY <1>1, <1>4, <2>1 DEF IInv, Offsets, WithinTopics
<1>8. Flags'
  BY FlagsKept DEF IInv, Consume, serviceVars, monitorVars
<1> QED
  BY <1>3, <1>5, <1>6, <1>7, <1>8 DEF IInv, Offsets

LEMMA CommitInv ==
  ASSUME IInv, NEW s \in Services, NEW t \in Topics, Commit(s, t)
  PROVE  IInv'
<1>1. /\ committed \in [Services -> [Topics -> -1..MaxEvents]]
      /\ pos[s][t] \in 0..MaxEvents
      /\ committed' = [committed EXCEPT ![s][t] = pos[s][t]]
      /\ UNCHANGED <<head, pos, since, handled, read>>
  BY DEF IInv, TypeOK, TopicsTyped, Commit, pollVars, lagVars
<1>2. TypeOK'
  <2>1. pos[s][t] \in -1..MaxEvents
    BY <1>1, ControlAssumption
  <2>2. committed' \in [Services -> [Topics -> -1..MaxEvents]]
    BY <1>1, <2>1
  <2> QED
    BY <2>2 DEF IInv, TypeOK, ServicesTyped, TopicsTyped, MonitorTyped, Commit,
                serviceVars, monitorVars, pollVars, lagVars, barVars
<1>3. \A u \in Services : \A v \in Topics : committed'[u][v] \in {committed[u][v], pos[u][v]}
  BY <1>1
<1>4. Offsets'
  BY <1>1, <1>3 DEF IInv, Offsets, CommittedWasHandled, PositionWasHandled,
                    WithinTopics
<1>5. Flags'
  BY FlagsKept DEF IInv, Commit, serviceVars, monitorVars
<1> QED
  BY <1>2, <1>4, <1>5 DEF IInv

-----------------------------------------------------------------------------
(* The poll. *)

LEMMA FetchHeadInv ==
  ASSUME IInv, NEW s \in Services, NEW t \in Topics, FetchHead(s, t)
  PROVE  IInv'
<1>1. /\ read \in [Services -> [Topics -> -1..MaxEvents]]
      /\ head[s][t] \in 0..MaxEvents /\ head[s][t] \in -1..MaxEvents
      /\ read' = [read EXCEPT ![s][t] = head[s][t]]
      /\ UNCHANGED topicVars
  <2>1. head[s][t] \in 0..MaxEvents
    BY DEF IInv, TypeOK, TopicsTyped
  <2>2. head[s][t] \in -1..MaxEvents
    BY <2>1, ControlAssumption
  <2> QED BY <2>1, <2>2 DEF IInv, TypeOK, MonitorTyped, FetchHead
<1>2. read' \in [Services -> [Topics -> -1..MaxEvents]]
  BY <1>1
<1>3. TypeOK'
  BY <1>2 DEF IInv, TypeOK, ServicesTyped, TopicsTyped, MonitorTyped, FetchHead,
              serviceVars, topicVars, monitorVars, barVars
<1>4. \A u \in Services : \A v \in Topics : read'[u][v] \in {read[u][v], head[u][v]}
  BY <1>1
<1>5. \A u \in Services : \A v \in Topics : head[u][v] <= head[u][v]
  BY DEF IInv, TypeOK, TopicsTyped
<1>6. Offsets'
  BY <1>1, <1>4, <1>5 DEF IInv, Offsets, topicVars, CommittedWasHandled,
                          PositionWasHandled, WithinTopics
<1>7. Flags'
  BY FlagsKept DEF IInv, FetchHead, serviceVars, monitorVars
<1> QED
  BY <1>3, <1>6, <1>7 DEF IInv

\* What one topic adds lies within what is in it, and within what is left of it
\* when the group has an offset there.
LEMMA LagBounds ==
  ASSUME NEW end \in -1..MaxEvents, NEW top \in 0..MaxEvents, end <= top,
         NEW offset \in -1..MaxEvents, offset <= top
  PROVE  /\ Lag(end, offset) \in 0..MaxEvents
         /\ Lag(end, offset) <= top
         /\ offset >= 0 => Lag(end, offset) <= top - offset
<1>1. CASE offset >= 0 /\ end > offset
  <2>1. Lag(end, offset) = end - offset
    BY <1>1 DEF Lag
  <2> QED
    BY <1>1, <2>1, ControlAssumption
<1>2. CASE ~(offset >= 0 /\ end > offset)
  <2>1. Lag(end, offset) = 0
    BY <1>2 DEF Lag
  <2> QED
    BY <1>2, <2>1, ControlAssumption
<1> QED BY <1>1, <1>2

\* The lags a poll gets for s.
LEMMA FetchedLags ==
  ASSUME IInv, NEW s \in Services, FetchOffsets(s)
  PROVE  /\ lag' \in [Services -> [Topics -> 0..MaxEvents]]
         /\ \A t \in Topics :
              /\ lag'[s][t] <= head[s][t]
              /\ committed[s][t] >= 0 => lag'[s][t] <= head[s][t] - committed[s][t]
<1> DEFINE f == [t \in Topics |->
                   IF t \in Watched THEN Lag(read[s][t], committed[s][t]) ELSE 0]
<1>1. lag' = [lag EXCEPT ![s] = f] /\ lag \in [Services -> [Topics -> 0..MaxEvents]]
  BY DEF FetchOffsets, IInv, TypeOK, MonitorTyped
<1>2. ASSUME NEW t \in Topics
      PROVE  /\ f[t] \in 0..MaxEvents /\ f[t] <= head[s][t]
             /\ committed[s][t] >= 0 => f[t] <= head[s][t] - committed[s][t]
  <2>1. /\ read[s][t] \in -1..MaxEvents /\ head[s][t] \in 0..MaxEvents
        /\ committed[s][t] \in -1..MaxEvents
    BY DEF IInv, TypeOK, TopicsTyped, MonitorTyped
  <2>2. read[s][t] <= head[s][t] /\ committed[s][t] <= head[s][t]
    BY DEF IInv, Offsets, WithinTopics
  <2>3. CASE t \in Watched
    <3>1. f[t] = Lag(read[s][t], committed[s][t])
      BY <2>3
    <3> HIDE DEF f
    <3> QED BY <2>1, <2>2, <3>1, LagBounds
  <2>4. CASE t \notin Watched
    <3>1. f[t] = 0
      BY <2>4
    <3> HIDE DEF f
    <3> QED BY <2>1, <2>2, <3>1, ControlAssumption
  <2> QED BY <2>3, <2>4
<1>3. f \in [Topics -> 0..MaxEvents]
  BY <1>2
<1>4. lag'[s] = f
  BY <1>1
<1> HIDE DEF f
<1> QED BY <1>1, <1>2, <1>3, <1>4

LEMMA FetchOffsetsInv ==
  ASSUME IInv, NEW s \in Services, FetchOffsets(s)
  PROVE  IInv'
<1>1. lag' \in [Services -> [Topics -> 0..MaxEvents]]
  BY FetchedLags
<1>2. counted' \subseteq Services
  BY DEF IInv, TypeOK, MonitorTyped, FetchOffsets
<1>3. TypeOK'
  BY <1>1, <1>2 DEF IInv, TypeOK, ServicesTyped, TopicsTyped, MonitorTyped,
                    FetchOffsets, serviceVars, topicVars, monitorVars, barVars
<1>4. Flags' /\ Offsets'
  BY FlagsKept, OffsetsKept DEF IInv, FetchOffsets, serviceVars, monitorVars
<1> QED
  BY <1>3, <1>4 DEF IInv

LEMMA FetchFailsInv ==
  ASSUME IInv, NEW s \in Services, FetchFails(s)
  PROVE  IInv'
<1>1. faults' \in 0..MaxFaults /\ faults' # 0
  BY FaultCounts DEF IInv, FetchFails
<1>2. counted' \subseteq Services
  BY DEF IInv, TypeOK, MonitorTyped, FetchFails
<1>3. TypeOK'
  BY <1>1, <1>2 DEF IInv, TypeOK, ServicesTyped, TopicsTyped, MonitorTyped,
                    FetchFails, serviceVars, topicVars, monitorVars, barVars
<1>4. Flags' /\ Offsets'
  BY <1>1, FlagsKept, OffsetsKept DEF IInv, FetchFails, serviceVars, monitorVars
<1> QED
  BY <1>3, <1>4 DEF IInv

LEMMA BroadcastInv ==
  ASSUME IInv, Broadcast
  PROVE  IInv'
<1>1. shown' \in [Services -> Statuses \union {"unknown"}]
  BY DEF IInv, TypeOK, MonitorTyped, Broadcast, Inspected
<1>2. MonitorTyped'
  BY <1>1, ForgetTyped DEF IInv, TypeOK, MonitorTyped, Broadcast, monitorVars
<1>3. TypeOK'
  BY <1>2 DEF IInv, TypeOK, ServicesTyped, TopicsTyped, Broadcast, serviceVars,
              topicVars
<1>4. Flags' /\ Offsets'
  BY FlagsKept, ForgetOffsets DEF IInv, Broadcast, serviceVars, monitorVars
<1> QED
  BY <1>3, <1>4 DEF IInv

-----------------------------------------------------------------------------
(* The other steps touch neither the log nor a flag nor a topic. *)

Other ==
  \/ \E s \in Services :
       CommitControl(s) \/ Stop(s) \/ Expire(s) \/ Describe(s) \/ Decide(s)
  \/ MonitorCommits \/ Poll

LEMMA OtherInv ==
  ASSUME IInv, Other
  PROVE  IInv'
<1> USE DEF serviceVars, monitorVars, pollVars, lagVars, barVars
<1> DEFINE Same == UNCHANGED <<control, paused, at, watched, monAt, topicVars, read>>
                   /\ (faults' = 0 => faults = 0 /\ up' = up)
<1> SUFFICES TypeOK' /\ Same
  BY FlagsKept, OffsetsKept DEF IInv
<1> SUFFICES ServicesTyped' /\ MonitorTyped' /\ Same
  BY DEF IInv, TypeOK, TopicsTyped, topicVars
<1>0. ServicesTyped /\ MonitorTyped /\ TypeOK
  BY DEF IInv, TypeOK
<1>1. ASSUME NEW s \in Services, CommitControl(s)
      PROVE  ServicesTyped' /\ MonitorTyped' /\ Same
  BY <1>0, <1>1 DEF ServicesTyped, MonitorTyped, CommitControl
<1>2. ASSUME NEW s \in Services, Stop(s)
      PROVE  ServicesTyped' /\ MonitorTyped' /\ Same
  <2>1. faults' \in 0..MaxFaults /\ faults' # 0
    BY <1>0, <1>2, FaultCounts DEF Stop
  <2> QED BY <1>0, <1>2, <2>1 DEF ServicesTyped, MonitorTyped, Stop
<1>3. ASSUME NEW s \in Services, Expire(s)
      PROVE  ServicesTyped' /\ MonitorTyped' /\ Same
  BY <1>0, <1>3 DEF ServicesTyped, MonitorTyped, Expire
<1>4. ASSUME NEW s \in Services, Describe(s)
      PROVE  ServicesTyped' /\ MonitorTyped' /\ Same
  <2>1. faults' \in 0..MaxFaults /\ (faults' = 0 => faults = 0)
    BY <1>0, <1>4, FaultCounts DEF ServicesTyped, Describe
  <2> QED BY <1>0, <1>4, <2>1 DEF ServicesTyped, MonitorTyped, Describe
<1>5. ASSUME NEW s \in Services, Decide(s)
      PROVE  ServicesTyped' /\ MonitorTyped' /\ Same
  BY <1>0, <1>5 DEF ServicesTyped, MonitorTyped, Decide, Statuses
<1>6. CASE MonitorCommits
  BY <1>0, <1>6 DEF ServicesTyped, MonitorTyped, MonitorCommits
<1>7. CASE Poll
  BY <1>0, <1>7 DEF ServicesTyped, MonitorTyped, Poll
<1> QED
  BY <1>1, <1>2, <1>3, <1>4, <1>5, <1>6, <1>7 DEF Other

LEMMA NextInv == IInv /\ [Next]_vars => IInv'
<1> SUFFICES ASSUME IInv, [Next]_vars PROVE IInv'
  OBVIOUS
<1>1. CASE UNCHANGED vars
  <2>1. TypeOK'
    BY <1>1 DEF IInv, TypeOK, ServicesTyped, TopicsTyped, MonitorTyped, vars,
                serviceVars, topicVars, monitorVars, pollVars, lagVars, barVars
  <2>2. Flags' /\ Offsets'
    BY <1>1, FlagsKept, OffsetsKept DEF IInv, vars, serviceVars, monitorVars,
                                        pollVars, lagVars
  <2> QED BY <2>1, <2>2 DEF IInv
<1>2. ASSUME NEW s \in Services, Click(s) PROVE IInv'
  BY <1>2, ClickInv
<1>3. ASSUME NEW s \in Services, ServiceStep(s) PROVE IInv'
  BY <1>3, HandleControlInv, ConsumeInv, CommitInv, OtherInv DEF ServiceStep, Other
<1>4. ASSUME NEW s \in Services, Stop(s) \/ Expire(s) \/ Start(s) PROVE IInv'
  BY <1>4, StartInv, OtherInv DEF Other
<1>5. ASSUME NEW s \in Services, Inspect(s) PROVE IInv'
  <2>1. \A t \in Watched : t \in Topics
    BY ControlAssumption
  <2> QED
    BY <1>5, <2>1, FetchHeadInv, FetchOffsetsInv, FetchFailsInv, OtherInv
       DEF Inspect, Other
<1>6. ASSUME NEW s \in Services, NEW t \in Topics, EventArrives(s, t) PROVE IInv'
  BY <1>6, EventArrivesInv
<1>7. CASE MonitorHandlesControl \/ MonitorCommits \/ MonitorRestarts
  BY <1>7, MonitorHandlesControlInv, MonitorRestartsInv, OtherInv DEF Other
<1>8. CASE Poll \/ Broadcast
  BY <1>8, BroadcastInv, OtherInv DEF Other
<1> QED
  BY <1>1, <1>2, <1>3, <1>4, <1>5, <1>6, <1>7, <1>8 DEF Next

\* The inductive invariant of the control plane: types, flags and log, positions
\* and topics.
THEOREM Invariance == Spec => []IInv
<1> QED
  BY InitInv, NextInv, PTL DEF Spec

\* Every reachable state of the control plane has its type: nobody reads or
\* commits past the log of commands, and no lag is out of range.
THEOREM TypeCorrect == Spec => []TypeOK
<1>1. IInv => TypeOK
  BY DEF IInv
<1> QED
  BY <1>1, Invariance, PTL

\* A service is paused exactly by the last command it has read for it, unless a
\* restart emptied its memory (consumer-control.ts: apply).
THEOREM ServiceFollowsItsCommands == Spec => []ServiceObeysLog
<1>1. IInv => ServiceObeysLog
  BY DEF IInv, Flags
<1> QED
  BY <1>1, Invariance, PTL

\* The monitor's set of paused services follows the same log in the same way
\* (consumer-lag.service.ts: setPaused).
THEOREM MonitorFollowsTheCommands == Spec => []MonitorObeysLog
<1>1. IInv => MonitorObeysLog
  BY DEF IInv, Flags
<1> QED
  BY <1>1, Invariance, PTL

\* No group commits past an event it had to handle and did not, whenever it is
\* paused, stopped and started (a consumer commits what it handled).
THEOREM CommittedIsHandled == Spec => []CommittedWasHandled
<1>1. IInv => CommittedWasHandled
  BY DEF IInv, Offsets
<1> QED
  BY <1>1, Invariance, PTL

\* What a poll counts for a group is never more than what the group has not
\* committed at that moment (consumer-lag.service.ts: inspect).
THEOREM LagIsBounded == Spec => LagNotOverstated
<1>1. IInv /\ [Next]_vars =>
        [\A s \in Services : FetchOffsets(s) =>
           \A t \in Topics :
               /\ lag'[s][t] <= head[s][t]
               /\ committed[s][t] >= 0 =>
                      lag'[s][t] <= head[s][t] - committed[s][t]]_vars
  BY FetchedLags
<1> QED
  BY <1>1, Invariance, PTL DEF Spec, LagNotOverstated

-----------------------------------------------------------------------------
(* What the monitor and the browser say of a service. *)

PauseOf(s) == \E i \in DOMAIN control : control[i] = [service |-> s, action |-> "pause"]

\* A status that was decided or shown has its reason.
StatusInv ==
  \A s \in Services :
      /\ view[s] = "paused" \/ shown[s] = "paused" => PauseOf(s)
      /\ faults = 0 => /\ member[s]
                       /\ view[s] \notin {"empty", "down"} /\ shown[s] # "down"

\* A pause stays in the log.
LEMMA PauseStays ==
  ASSUME TypeOK, [Next]_vars, NEW s, PauseOf(s)
  PROVE  PauseOf(s)'
<1>1. UNCHANGED control \/ \E cmd : control' = Append(control, cmd)
  BY DEF Next, Click, BarClick, MenuClick, Control, SetConsumer, ServiceStep,
         HandleControl, CommitControl, Consume, Commit, Stop, Expire, Start,
         Inspect, Describe, Decide, FetchHead, FetchOffsets, FetchFails,
         EventArrives, MonitorHandlesControl, MonitorCommits, MonitorRestarts,
         Poll, Broadcast, vars
<1>2. PICK i \in DOMAIN control : control[i] = [service |-> s, action |-> "pause"]
  BY DEF PauseOf
<1>3. CASE UNCHANGED control
  BY <1>3 DEF PauseOf
<1>4. ASSUME NEW cmd, control' = Append(control, cmd) PROVE PauseOf(s)'
  <2>1. i \in DOMAIN control' /\ control'[i] = control[i]
    BY <1>2, <1>4 DEF TypeOK, ServicesTyped
  <2> QED BY <1>2, <2>1 DEF PauseOf
<1> QED
  BY <1>1, <1>3, <1>4

\* A fault never goes away.
LEMMA FaultsGrow ==
  ASSUME TypeOK, [Next]_vars
  PROVE  faults \in Nat /\ faults' \in {faults, faults + 1}
<1>1. Fault \/ UNCHANGED faults
  BY DEF Next, Click, BarClick, MenuClick, Control,
         ServiceStep, HandleControl, CommitControl, Consume, Commit, Stop, Expire, Start,
         Inspect, Describe, Decide, FetchHead, FetchOffsets, FetchFails,
         EventArrives, MonitorHandlesControl, MonitorCommits, MonitorRestarts,
         Poll, Broadcast, vars
<1> QED
  BY <1>1 DEF TypeOK, ServicesTyped, Fault

LEMMA WatchedWasPaused ==
  ASSUME IInv, NEW s \in watched
  PROVE  PauseOf(s)
<1>1. s \in Services /\ PausedBy(control, s, monAt)
  BY DEF IInv, TypeOK, MonitorTyped, Flags, MonitorObeysLog
<1>2. \A i \in 1..monAt : i \in DOMAIN control
  BY DEF IInv, TypeOK, ServicesTyped, MonitorTyped
<1> QED
  BY <1>1, <1>2 DEF PausedBy, PauseOf

\* The steps that decide nothing.
LEMMA StatusKept ==
  ASSUME IInv, StatusInv, [Next]_vars, UNCHANGED shown,
         \A s \in Services : view'[s] \in {view[s], "pending", "member"},
         \A s \in Services : member[s] => member'[s]
  PROVE  StatusInv'
<1>1. TypeOK
  BY DEF IInv
<1>2. faults' = 0 => faults = 0
  BY <1>1, FaultsGrow
<1> QED
  BY <1>1, <1>2, PauseStays DEF StatusInv

LEMMA StatusStep == IInv /\ StatusInv /\ [Next]_vars => StatusInv'
<1> SUFFICES ASSUME IInv, StatusInv, [Next]_vars PROVE StatusInv'
  OBVIOUS
<1>t. /\ TypeOK /\ view \in [Services -> Statuses \union {"pending", "member", "empty"}]
      /\ member \in [Services -> BOOLEAN]
  BY DEF IInv, TypeOK, MonitorTyped, ServicesTyped
<1>f. faults \in Nat /\ (faults' = 0 => faults = 0)
  BY <1>t, FaultsGrow
<1>1. CASE UNCHANGED <<view, shown, member>>
  BY <1>1, StatusKept
<1>2. ASSUME NEW s \in Services, Start(s) PROVE StatusInv'
  BY <1>2, <1>t, StatusKept DEF Start, pollVars, barVars
<1>3. ASSUME NEW s \in Services, Expire(s) PROVE StatusInv'
  <2>1. faults # 0 /\ UNCHANGED <<view, shown, faults>>
    BY <1>3 DEF Expire, IInv, Flags, pollVars, barVars
  <2> QED BY <1>t, <2>1, PauseStays DEF StatusInv
<1>4. ASSUME NEW s \in Services, Describe(s) PROVE StatusInv'
  <2>1. UNCHANGED <<shown, member>>
    BY <1>4 DEF Describe, serviceVars, barVars
  <2>2. CASE view' = [view EXCEPT ![s] = "empty"] /\ Fault
    <3>1. faults' # 0
      BY <1>f, <2>2 DEF Fault
    <3> QED BY <1>t, <2>1, <2>2, <3>1, PauseStays DEF StatusInv
  <2>3. CASE view' = [view EXCEPT ![s] = IF member[s] THEN "member" ELSE "empty"]
    <3>1. CASE member[s]
      BY <1>t, <2>1, <2>3, <3>1, StatusKept
    <3>2. CASE ~member[s]
      <4>1. faults' # 0
        BY <1>f, <3>2 DEF StatusInv
      <4> QED BY <1>t, <2>1, <2>3, <3>2, <4>1, PauseStays DEF StatusInv
    <3> QED BY <3>1, <3>2
  <2> QED BY <1>4, <2>2, <2>3 DEF Describe
<1>5. ASSUME NEW s \in Services, Decide(s) PROVE StatusInv'
  <2>1. /\ UNCHANGED <<shown, member, faults>>
        /\ view[s] \in {"member", "empty"}
        /\ \A q \in Services : q # s => view'[q] = view[q]
        /\ view'[s] = IF view[s] = "empty" THEN "down"
                      ELSE IF s \in watched THEN "paused" ELSE "up"
    BY <1>5, <1>t DEF Decide, serviceVars, barVars
  <2>2. view'[s] = "paused" => PauseOf(s)
    BY <2>1, WatchedWasPaused
  <2>3. faults = 0 => view'[s] # "down" /\ view'[s] # "empty"
    BY <2>1 DEF StatusInv
  <2> QED BY <1>t, <2>1, <2>2, <2>3, PauseStays DEF StatusInv
<1>6. CASE MonitorRestarts
  BY <1>6, <1>t, StatusKept DEF MonitorRestarts, Forget, serviceVars, barVars
<1>7. CASE Broadcast
  <2>1. /\ shown' = view /\ UNCHANGED <<member, faults>>
        /\ \A s \in Services : view'[s] = "pending"
    BY <1>7 DEF Broadcast, Forget, serviceVars
  <2> QED BY <1>t, <2>1, PauseStays DEF StatusInv
<1> QED
  BY <1>1, <1>2, <1>3, <1>4, <1>5, <1>6, <1>7
     DEF Next, Click, BarClick, MenuClick, Control, ServiceStep,
         HandleControl, CommitControl, Consume, Commit, Stop,
         Inspect, FetchHead, FetchOffsets, FetchFails,
         EventArrives, MonitorHandlesControl, MonitorCommits,
         Poll, vars, serviceVars, pollVars, barVars

LEMMA StatusInit == Init => StatusInv
BY DEF Init, StatusInv

THEOREM StatusInvariance == Spec => [](IInv /\ StatusInv)
<1> QED
  BY InitInv, StatusInit, NextInv, StatusStep, PTL DEF Spec

\* The bar raises no false alarm: down is shown only after a failure, and paused
\* only of a service that somebody paused.
THEOREM NoFalseAlarm == Spec => []StatusIsExplained
<1>1. IInv /\ StatusInv => StatusIsExplained
  BY DEF IInv, TypeOK, ServicesTyped, StatusInv, StatusIsExplained, PauseOf
<1> QED
  BY <1>1, StatusInvariance, PTL

\* Two memories of one log: as long as nothing failed, a service and the monitor
\* that have read the same part of it agree on who is paused.
THEOREM SameLogSameMemory == Spec => []MemoriesAgree
<1>1. IInv => MemoriesAgree
  BY DEF IInv, Flags, ServiceObeysLog, MonitorObeysLog, MemoriesAgree
<1> QED
  BY <1>1, Invariance, PTL

\* What a drained topic means: none of its events was skipped since the group
\* came in, whatever pauses, crashes and repetitions there were.
THEOREM DrainedSkipsNothing == Spec => []DrainedIsHandled
<1>1. IInv => DrainedIsHandled
  BY DEF IInv, Offsets, PositionWasHandled, DrainedIsHandled
<1> QED
  BY <1>1, Invariance, PTL

\* What is not handled up to the end that was read lies behind the offset.
LEMMA FetchedCovers ==
  ASSUME IInv, NEW s \in Services, FetchOffsets(s), NEW t \in Watched,
         committed[s][t] >= 0
  PROVE  Cardinality((since[s][t]..(read[s][t] - 1)) \ handled[s][t]) <= lag'[s][t]
<1> DEFINE c == committed[s][t]
           e == read[s][t]
           Left == (since[s][t]..(e - 1)) \ handled[s][t]
<1>1. t \in Topics /\ c \in Nat /\ e \in Int /\ since[s][t] \in Nat
  BY ControlAssumption DEF IInv, TypeOK, TopicsTyped, MonitorTyped
<1>2. lag'[s][t] = IF e > c THEN e - c ELSE 0
  <2>1. lag'[s][t] = Lag(e, c)
    BY <1>1 DEF FetchOffsets, IInv, TypeOK, MonitorTyped
  <2> QED BY <1>1, <2>1 DEF Lag
<1>3. \A i \in since[s][t]..(c - 1) : i \in handled[s][t]
  BY <1>1 DEF IInv, Offsets, CommittedWasHandled
<1>4. Left \in SUBSET (c..(e - 1))
  BY <1>1, <1>3
<1>5. /\ IsFiniteSet(c..(e - 1))
      /\ Cardinality(c..(e - 1)) = IF c > e - 1 THEN 0 ELSE (e - 1) - c + 1
  <2>1. c \in Int /\ e - 1 \in Int
    BY <1>1
  <2> HIDE DEF c, e
  <2> QED BY <2>1, FS_Interval, Zenon
<1>6. /\ IsFiniteSet(Left) /\ Cardinality(Left) <= Cardinality(c..(e - 1))
  BY <1>4, <1>5, FS_Subset
<1>7. Cardinality(Left) \in Nat
  BY <1>6, FS_CardinalityType
<1> HIDE DEF c, e, Left
<1>8. Cardinality(Left) <= lag'[s][t]
  BY <1>1, <1>2, <1>5, <1>6, <1>7
<1> QED
  BY <1>8 DEF Left, e

\* A poll never misses an event: what was in a topic when its end was read, and is
\* not handled when the offsets are, is counted.
THEOREM LagMissesNothing == Spec => LagNotUnderstated
<1>1. IInv /\ [Next]_vars =>
        [\A s \in Services : FetchOffsets(s) =>
           \A t \in Watched : committed[s][t] >= 0 =>
             Cardinality((since[s][t]..(read[s][t] - 1)) \ handled[s][t]) <= lag'[s][t]]_vars
  BY FetchedCovers
<1> QED
  BY <1>1, Invariance, PTL DEF Spec, LagNotUnderstated
=============================================================================
