--------------------------- MODULE ConsumerControl ---------------------------
(***************************************************************************)
(* Kill-a-consumer and the service bar.  The browser asks for a pause or a *)
(* resume, the gateway appends it to control.consumer, each controllable   *)
(* service pauses or resumes its domain topic, and the event monitor, a    *)
(* second reader of the same log, polls the groups for who is a member and *)
(* how far it is behind its topics, and tells the browser.                 *)
(* Services and monitor restart from their committed offsets, with an      *)
(* empty memory.  A group joins a topic it never committed on at its end:  *)
(* the services do not set fromBeginning.                                  *)
(***************************************************************************)
EXTENDS Integers, Sequences, FiniteSetsExt

CONSTANTS
    Services,   \* the services on the bar
    Topics,     \* the domain topics a service reads, each one partition
    Watched,    \* those of them the monitor looks at
    MaxClicks,  \* bound: commands sent
    MaxEvents,  \* bound: events in each topic
    MaxFaults   \* bound: stops, monitor restarts and failed requests

ASSUME ControlAssumption ==
    /\ Watched \subseteq Topics
    /\ MaxClicks \in Nat
    /\ MaxEvents \in Nat
    /\ MaxFaults \in Nat

VARIABLES
    control,   \* the log of control.consumer
    \* The services.
    up,        \* up[s]: the process of s runs
    member,    \* member[s]: its group has a member in the broker's eyes
    paused,    \* paused[s]: ConsumerControl.paused
    at,        \* at[s]: control messages s handled ...
    done,      \* done[s]: ... and the offset it committed
    \* Their domain topics.
    head,      \* head[s][t]: the end of topic t of s
    committed, \* committed[s][t]: the offset committed, -1 for none
    pos,       \* pos[s][t]: the next offset s will handle
    since,     \* since[s][t]: the offset the group came in at, as far as it knows
    handled,   \* handled[s][t]: the offsets handled, ever
    \* The monitor.
    watched,   \* the set of paused services
    monAt,     \* control messages the monitor handled
    monDone,   \* ... and the offset it committed
    polling,   \* a poll is running
    view,      \* view[s]: what the running poll knows of the membership of s
    read,      \* read[s][t]: the end of t as the running poll read it, -1 before
    counted,   \* the services whose lag the running poll has
    lag,       \* lag[s][t]: what topic t adds to it
    \* The browser.
    shown,     \* shown[s]: the status it got last
    backlog,   \* backlog[s][t]: the lag it got last, by topic
    faults     \* how many faults happened

serviceVars == <<up, member, paused, at, done>>
topicVars == <<head, committed, pos, since, handled>>
monitorVars == <<watched, monAt, monDone>>
lagVars == <<read, counted, lag>>
pollVars == <<polling, view, lagVars>>
barVars == <<shown, backlog>>
vars == <<control, serviceVars, topicVars, monitorVars, pollVars, barVars, faults>>

Actions == {"pause", "resume"}
Command == [service : Services, action : Actions]
Statuses == {"up", "down", "paused"}

\* The same for every topic of every service.
Each(n) == [s \in Services |-> [t \in Topics |-> n]]

Init ==
    /\ control = <<>>
    /\ up = [s \in Services |-> TRUE]
    /\ member = [s \in Services |-> TRUE]
    /\ paused = [s \in Services |-> FALSE]
    /\ at = [s \in Services |-> 0]
    /\ done = [s \in Services |-> 0]
    /\ head = Each(0)
    /\ committed \in {Each(-1), Each(0)}
    /\ pos = Each(0)
    /\ since = Each(0)
    /\ handled = Each({})
    /\ watched = {}
    /\ monAt = 0
    /\ monDone = 0
    /\ polling = FALSE
    /\ view = [s \in Services |-> "pending"]
    /\ read = Each(-1)
    /\ counted = {}
    /\ lag = Each(0)
    /\ shown = [s \in Services |-> "unknown"]
    /\ backlog = Each(0)
    /\ faults = 0

Fault == /\ faults < MaxFaults
         /\ faults' = faults + 1

-----------------------------------------------------------------------------
(* The browser, through the gateway. *)

SetConsumer(cmd) == control' = Append(control, cmd)

\* POST /control/:service/:action
Control(s, action) ==
    /\ Len(control) < MaxClicks
    /\ SetConsumer([service |-> s, action |-> action])
    /\ UNCHANGED <<serviceVars, topicVars, monitorVars, pollVars, barVars, faults>>

\* A button toggles what the last status said.
Toggle(s) == IF shown[s] = "paused" THEN "resume" ELSE "pause"

\* The service bar takes a click whatever the status is.
BarClick(s) == Control(s, Toggle(s))

\* The menu takes none for a service that is down or not known yet.
MenuClick(s) ==
    /\ shown[s] \notin {"down", "unknown"}
    /\ Control(s, Toggle(s))

Click(s) == BarClick(s) \/ MenuClick(s)

-----------------------------------------------------------------------------
(* A service. *)

\* "Acts only on messages addressed to it."
Addressed(cmd, s) == cmd.service = s

\* Mutation: a command is taken for the click it was sent by.
FlipFlag(flag, action) == ~flag

\* Pause and resume only act when they change something; either way the flag
\* ends as the action says.
Apply(flag, action) == action = "pause"

\* Mutation: the pause stops the whole consumer, control topic included.
ReadsUnlessPaused(s) == up[s] /\ ~paused[s]

\* The consumer of s reads the control topic, paused or not.
ReadsControl(s) == up[s]

HandleControl(s) ==
    /\ ReadsControl(s)
    /\ at[s] < Len(control)
    /\ LET cmd == control[at[s] + 1] IN
       paused' = [paused EXCEPT ![s] =
                     IF Addressed(cmd, s) THEN Apply(@, cmd.action) ELSE @]
    /\ at' = [at EXCEPT ![s] = @ + 1]
    /\ UNCHANGED <<control, up, member, done, topicVars, monitorVars, pollVars,
                   barVars, faults>>

CommitControl(s) ==
    /\ up[s]
    /\ done[s] < at[s]
    /\ done' = [done EXCEPT ![s] = at[s]]
    /\ UNCHANGED <<control, up, member, paused, at, topicVars, monitorVars,
                   pollVars, barVars, faults>>

EventArrives(s, t) ==
    /\ head[s][t] < MaxEvents
    /\ head' = [head EXCEPT ![s][t] = @ + 1]
    /\ UNCHANGED <<control, serviceVars, committed, pos, since, handled,
                   monitorVars, pollVars, barVars, faults>>

Consume(s, t) ==
    /\ up[s] /\ ~paused[s]
    /\ pos[s][t] < head[s][t]
    /\ handled' = [handled EXCEPT ![s][t] = @ \union {pos[s][t]}]
    /\ pos' = [pos EXCEPT ![s][t] = @ + 1]
    /\ UNCHANGED <<control, serviceVars, head, committed, since, monitorVars,
                   pollVars, barVars, faults>>

\* What was handled is committed; a consumer that only joined commits nothing.
Commit(s, t) ==
    /\ up[s]
    /\ pos[s][t] - 1 \in handled[s][t] /\ committed[s][t] < pos[s][t]
    /\ committed' = [committed EXCEPT ![s][t] = pos[s][t]]
    /\ UNCHANGED <<control, serviceVars, head, pos, since, handled, monitorVars,
                   pollVars, barVars, faults>>

\* The process is killed: its member stays until the session times out.
Stop(s) ==
    /\ up[s]
    /\ Fault
    /\ up' = [up EXCEPT ![s] = FALSE]
    /\ UNCHANGED <<control, member, paused, at, done, topicVars, monitorVars,
                   pollVars, barVars>>

Expire(s) ==
    /\ ~up[s] /\ member[s]
    /\ member' = [member EXCEPT ![s] = FALSE]
    /\ UNCHANGED <<control, up, paused, at, done, topicVars, monitorVars,
                   pollVars, barVars, faults>>

\* Mutation: the group starts over at the end of its topics.
JoinAtTheEnd(s, known, unknown) == [t \in Topics |-> unknown[t]]

\* The first is for the topics the group committed on.
Join(s, known, unknown) ==
    [t \in Topics |-> IF committed[s][t] >= 0 THEN known[t] ELSE unknown[t]]

\* A new process: a new ConsumerControl, bound as soon as it listens, and a
\* consumer that goes on where its group committed.
Start(s) ==
    /\ ~up[s]
    /\ up' = [up EXCEPT ![s] = TRUE]
    /\ member' = [member EXCEPT ![s] = TRUE]
    /\ paused' = [paused EXCEPT ![s] = FALSE]
    /\ at' = [at EXCEPT ![s] = done[s]]
    /\ pos' = [pos EXCEPT ![s] = Join(s, committed[s], head[s])]
    /\ since' = [since EXCEPT ![s] =
                    [t \in Topics |-> IF committed[s][t] >= 0 THEN @[t]
                                                              ELSE head[s][t]]]
    /\ UNCHANGED <<control, done, head, committed, handled, monitorVars,
                   pollVars, barVars, faults>>

-----------------------------------------------------------------------------
(* The event monitor. *)

\* Mutation: setPaused never takes a service out of the set.
OnlyAdd(set, cmd) == set \union {cmd.service}

SetPaused(set, cmd) ==
    IF cmd.action = "pause" THEN set \union {cmd.service}
                            ELSE set \ {cmd.service}

MonitorHandlesControl ==
    /\ monAt < Len(control)
    /\ watched' = SetPaused(watched, control[monAt + 1])
    /\ monAt' = monAt + 1
    /\ UNCHANGED <<control, serviceVars, topicVars, monDone, pollVars, barVars,
                   faults>>

MonitorCommits ==
    /\ monDone < monAt
    /\ monDone' = monAt
    /\ UNCHANGED <<control, serviceVars, topicVars, watched, monAt, pollVars,
                   barVars, faults>>

\* What a poll knows is gone when it ends.
Forget ==
    /\ polling' = FALSE
    /\ view' = [s \in Services |-> "pending"]
    /\ read' = Each(-1)
    /\ counted' = {}
    /\ lag' = Each(0)

MonitorRestarts ==
    /\ Fault
    /\ watched' = {}
    /\ monAt' = monDone
    /\ Forget
    /\ UNCHANGED <<control, serviceVars, topicVars, monDone, barVars>>

\* The timer: a tick that finds a poll running returns.
Poll ==
    /\ ~polling
    /\ polling' = TRUE
    /\ UNCHANGED <<control, serviceVars, topicVars, monitorVars, view, lagVars,
                   barVars, faults>>

\* The broker's answer to describeGroups; an error counts as an empty group.
Describe(s) ==
    /\ polling /\ view[s] = "pending"
    /\ \/ /\ view' = [view EXCEPT ![s] = IF member[s] THEN "member" ELSE "empty"]
          /\ UNCHANGED faults
       \/ /\ Fault
          /\ view' = [view EXCEPT ![s] = "empty"]
    /\ UNCHANGED <<control, serviceVars, topicVars, monitorVars, polling, lagVars,
                   barVars>>

Decide(s) ==
    /\ polling /\ view[s] \in {"member", "empty"}
    /\ view' = [view EXCEPT ![s] = IF @ = "empty" THEN "down"
                                   ELSE IF s \in watched THEN "paused" ELSE "up"]
    /\ UNCHANGED <<control, serviceVars, topicVars, monitorVars, polling, lagVars,
                   barVars, faults>>

\* The rest of the inspection of s is its lag.
Counting(s) == polling /\ view[s] \in Statuses /\ s \notin counted

FetchHead(s, t) ==
    /\ Counting(s) /\ read[s][t] = -1
    /\ read' = [read EXCEPT ![s][t] = head[s][t]]
    /\ UNCHANGED <<control, serviceVars, topicVars, monitorVars, polling, view,
                   counted, lag, barVars, faults>>

\* Mutation: a group that never committed is counted from its offset -1.
LagFromNever(end, offset) == end - offset

\* Mutation: the committed offset is counted in.
LagInclusive(end, offset) == IF offset >= 0 THEN end - offset + 1 ELSE 0

\* Mutation: the committed offset is taken for the last one handled.
LagBehindLast(end, offset) ==
    IF offset >= 0 /\ end > offset THEN end - offset - 1 ELSE 0

\* The events behind the offset, which may have overtaken the end that was read
\* before; none for a group that never committed.
Lag(end, offset) == IF offset >= 0 /\ end > offset THEN end - offset ELSE 0

FetchOffsets(s) ==
    /\ Counting(s) /\ \A t \in Watched : read[s][t] # -1
    /\ lag' = [lag EXCEPT ![s] = [t \in Topics |->
                  IF t \in Watched THEN Lag(read[s][t], committed[s][t]) ELSE 0]]
    /\ counted' = counted \union {s}
    /\ UNCHANGED <<control, serviceVars, topicVars, monitorVars, polling, view,
                   read, barVars, faults>>

\* A request failed: "treat as zero lag".
FetchFails(s) ==
    /\ Counting(s)
    /\ Fault
    /\ counted' = counted \union {s}
    /\ UNCHANGED <<control, serviceVars, topicVars, monitorVars, polling, view,
                   read, lag, barVars>>

\* Mutation: the inspections are not awaited.
AtOnce == TRUE

Inspected == \A s \in Services : view[s] \in Statuses /\ s \in counted

\* The snapshot is sent once every group has been inspected.
Broadcast ==
    /\ polling /\ Inspected
    /\ shown' = view
    /\ backlog' = lag
    /\ Forget
    /\ UNCHANGED <<control, serviceVars, topicVars, monitorVars, faults>>

-----------------------------------------------------------------------------

ServiceStep(s) ==
    \/ HandleControl(s) \/ CommitControl(s)
    \/ \E t \in Topics : Consume(s, t) \/ Commit(s, t)

Inspect(s) ==
    \/ Describe(s) \/ Decide(s) \/ FetchOffsets(s) \/ FetchFails(s)
    \/ \E t \in Watched : FetchHead(s, t)

Next ==
    \/ \E s \in Services :
         \/ Click(s) \/ ServiceStep(s) \/ Stop(s) \/ Expire(s) \/ Start(s)
         \/ Inspect(s)
         \/ \E t \in Topics : EventArrives(s, t)
    \/ MonitorHandlesControl \/ MonitorCommits \/ MonitorRestarts
    \/ Poll \/ Broadcast

\* Running consumers poll their topics and commit what they handled, the
\* monitor's timer ticks and its requests are answered, sessions time out.
\* Nobody has to click, and nobody has to start a stopped service.
Fairness ==
    /\ \A s \in Services :
         /\ WF_vars(HandleControl(s))
         /\ WF_vars(Expire(s))
         /\ WF_vars(Inspect(s))
         /\ \A t \in Topics : WF_vars(Consume(s, t)) /\ WF_vars(Commit(s, t))
    /\ WF_vars(MonitorHandlesControl)
    /\ WF_vars(Poll)
    /\ WF_vars(Broadcast)

Spec == Init /\ [][Next]_vars
FairSpec == Spec /\ Fairness

-----------------------------------------------------------------------------
(* Properties. *)

ServicesTyped ==
    /\ control \in Seq(Command)
    /\ up \in [Services -> BOOLEAN]
    /\ member \in [Services -> BOOLEAN]
    /\ paused \in [Services -> BOOLEAN]
    /\ at \in [Services -> 0..Len(control)]
    /\ done \in [Services -> 0..Len(control)]
    /\ faults \in 0..MaxFaults

TopicsTyped ==
    /\ head \in [Services -> [Topics -> 0..MaxEvents]]
    /\ committed \in [Services -> [Topics -> -1..MaxEvents]]
    /\ pos \in [Services -> [Topics -> 0..MaxEvents]]
    /\ since \in [Services -> [Topics -> 0..MaxEvents]]
    /\ handled \in [Services -> [Topics -> SUBSET (0..(MaxEvents - 1))]]

MonitorTyped ==
    /\ watched \subseteq Services
    /\ monAt \in 0..Len(control)
    /\ monDone \in 0..Len(control)
    /\ polling \in BOOLEAN
    /\ view \in [Services -> Statuses \union {"pending", "member", "empty"}]
    /\ read \in [Services -> [Topics -> -1..MaxEvents]]
    /\ counted \subseteq Services
    /\ lag \in [Services -> [Topics -> 0..MaxEvents]]
    /\ shown \in [Services -> Statuses \union {"unknown"}]
    /\ backlog \in [Services -> [Topics -> 0..MaxEvents]]

\* Every variable has its type; no lag is negative or beyond what a topic holds.
TypeOK == ServicesTyped /\ TopicsTyped /\ MonitorTyped

\* The last of the first n commands of a log that is for s is a pause.
PausedBy(log, s, n) ==
    \E i \in 1..n :
        /\ log[i] = [service |-> s, action |-> "pause"]
        /\ \A j \in (i + 1)..n : log[j].service # s

\* A service is paused only by the last command addressed to it among those it
\* has read, and is paused by it unless its memory was lost in a restart.
ServiceObeysLog ==
    \A s \in Services :
        /\ paused[s] => PausedBy(control, s, at[s])
        /\ faults = 0 => (PausedBy(control, s, at[s]) => paused[s])

\* The monitor, too, holds a service for paused only by the last command it has
\* read for it: a pause never outlives a later resume, of which it has its own
\* copy to read.
MonitorObeysLog ==
    \A s \in Services :
        /\ s \in watched => PausedBy(control, s, monAt)
        /\ faults = 0 => (PausedBy(control, s, monAt) => s \in watched)

\* An offset is committed only when every event below it that the group had to
\* handle was handled, paused or stopped wherever: a crash loses nothing.  (On a
\* new topic it has nothing to handle before the place it came in at.)
CommittedWasHandled ==
    \A s \in Services : \A t \in Topics :
        \A i \in since[s][t]..(committed[s][t] - 1) : i \in handled[s][t]

\* A lag is never overstated: although the ends and the offsets are read at
\* different moments, what a poll counts is not more than what the group has not
\* committed when the offsets are read.
LagNotOverstated ==
    [][\A s \in Services : FetchOffsets(s) =>
         \A t \in Topics :
             /\ lag'[s][t] <= head[s][t]
             /\ committed[s][t] >= 0 => lag'[s][t] <= head[s][t] - committed[s][t]]_vars

\* Of the topics among these that its group committed on, the events s has to
\* handle and has not ...
Unhandled(s, topics) ==
    LET Left(t) == (since[s][t]..(head[s][t] - 1)) \ handled[s][t]
    IN  MapThenSumSet(LAMBDA t : Cardinality(Left(t)),
                      {t \in topics : committed[s][t] >= 0})

\* ... and those it would go on with, some of them for a second time.
Ahead(s, topics) ==
    MapThenSumSet(LAMBDA t : head[s][t] - pos[s][t],
                  {t \in topics : committed[s][t] >= 0})

\* The lag on the bar.
Told(s) == MapThenSumSet(LAMBDA t : backlog[s][t], Topics)

\* "Resume always lands" and drains: when the last command for a service that
\* stays up is not a pause, what piled up is handled in the end, and the bar
\* says so.
ResumeDrains ==
    \A s \in Services :
        <>[]up[s] =>
            <>[](~PausedBy(control, s, Len(control)) =>
                    pos[s] = head[s] /\ Told(s) = 0)

\* "Stop a service and its lag climbs", and as well when it is paused: the bar
\* ends up showing what a resume will have to work off, and for a stopped service
\* no less than what it has not handled.
BacklogShown ==
    \A s \in Services :
        /\ <>[](up[s] /\ paused[s]) => <>[](Told(s) = Ahead(s, Watched))
        /\ <>[]~up[s] => <>[](Told(s) >= Unhandled(s, Watched))

\* "Total un-consumed messages across all of the group's partitions": the lag of
\* a stopped service is not less than what waits for it in all of its topics.
LagIsTotal ==
    \A s \in Services : <>[]~up[s] => <>[](Told(s) >= Unhandled(s, Topics))

AgreesAtLast ==
    <>[](\A s \in Services : up[s] => (shown[s] = "paused" <=> paused[s]))

\* As long as nobody restarts, service and monitor, which each keep a memory of
\* their own of one log, agree in the end, and so does what the browser shows.
StatusAgrees == [](faults = 0) => AgreesAtLast

\* "paused = deliberately paused via the control plane": the status bar ends up
\* telling which of the running services are paused.
StatusTellsPaused == AgreesAtLast

\* As long as nothing failed, a service and the monitor that have read the same
\* part of the log agree on whether the service is paused.
MemoriesAgree ==
    faults = 0 => \A s \in Services : at[s] = monAt => (paused[s] <=> s \in watched)

\* The bar raises no false alarm: a service is shown as down only if something
\* failed, and as paused only if somebody paused it.
StatusIsExplained ==
    \A s \in Services :
        /\ shown[s] = "down" => faults > 0
        /\ shown[s] = "paused" =>
             \E i \in DOMAIN control : control[i] = [service |-> s, action |-> "pause"]

\* A service that has come to the end of a topic skipped none of its events since
\* its group came in, whatever pauses, restarts and repetitions there were.
DrainedIsHandled ==
    \A s \in Services : \A t \in Topics :
        pos[s][t] = head[s][t] =>
            \A i \in since[s][t]..(head[s][t] - 1) : i \in handled[s][t]

\* Nor is a lag understated: for a topic its group committed on, a poll counts no
\* less than the events up to the end it read that the group has not handled when
\* the offsets are read.
LagNotUnderstated ==
    [][\A s \in Services : FetchOffsets(s) =>
         \A t \in Watched : committed[s][t] >= 0 =>
            Cardinality((since[s][t]..(read[s][t] - 1)) \ handled[s][t]) <= lag'[s][t]]_vars
=============================================================================
