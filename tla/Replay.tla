-------------------------------- MODULE Replay --------------------------------
(***************************************************************************)
(* The event monitor's timeline: its live consumer and its replays push    *)
(* events over the sockets, and each browser keeps the last of them on a   *)
(* board that it wipes before it asks for a replay.  A replay reads the    *)
(* end of each topic in turn and drains it with a throwaway consumer,      *)
(* which goes on delivering until it is disconnected.                      *)
(***************************************************************************)
EXTENDS Naturals, SequencesExt, FiniteSetsExt

CONSTANTS
    Browsers,
    TopicOrder,  \* the domain topics, in the order a replay takes them
    DeadLetters, \* the dead letter topics: pushed live, never replayed
    Singles,     \* bound: the topics that are asked for one at a time
    BoardSize,   \* MAX_EVENTS
    MaxEvents,   \* bound: events in all topics
    MaxReplays,  \* bound: replays asked for
    MaxOthers,   \* bound: other calls a page has open at one time
    MaxFaults    \* bound: stalls, failed calls, lost sockets and restarts

ASSUME ReplayAssumption ==
    /\ TopicOrder \in Seq(ToSet(TopicOrder)) /\ Len(TopicOrder) > 0
    /\ DeadLetters \intersect ToSet(TopicOrder) = {}
    /\ Singles \subseteq ToSet(TopicOrder) \union DeadLetters
    /\ BoardSize \in Nat \ {0}
    /\ MaxEvents \in Nat
    /\ MaxReplays \in Nat
    /\ MaxOthers \in Nat
    /\ MaxFaults \in Nat

VARIABLES
    \* The topics.
    head,       \* head[t]: the end of topic t
    live,       \* live[t]: where the live consumer is in topic t
    \* The browsers.
    connected,  \* connected[b]: the socket is up
    board,      \* board[b]: the events the browser keeps
    owed,       \* owed[b][t]: events its latest replay has to bring back
    busy,       \* busy[b]: its buttons are disabled
    others,     \* others[b]: pauses, resumes and orders it waits for
    last,       \* last[b]: its latest request, or 0
    \* The requests.
    asks,       \* how many there were
    asker,      \* asker[r]: the browser, or a caller of the endpoint
    plan,       \* plan[r]: the topics it is for
    request,    \* request[r]: where the service is with it
    \* The replay service.
    replaying,  \* ReplayService.replaying
    topic,      \* topic[r]: index of the topic the replay is at
    mark,       \* mark[r]: the end of that topic when the replay looked
    sent,       \* sent[r]: events of that topic the replay pushed
    stalled,    \* stalled[r]: its throwaway consumer delivers nothing
    faults      \* how many faults happened

logVars == <<head, live>>
browserVars == <<connected, board, owed, busy, others, last>>
askVars == <<asks, asker, plan>>
runVars == <<topic, mark, sent, stalled>>
vars == <<logVars, browserVars, askVars, request, replaying, runVars, faults>>

Replayable == ToSet(TopicOrder)
Topics == Replayable \union DeadLetters
Requests == 1..MaxReplays
Plans == {TopicOrder} \union {<<t>> : t \in Singles}
Running == {"mark", "drain", "close"}
Answers == {"ok", "refused", "failed"}
Phases == Running \union Answers \union {"none", "posted"}

\* A card on the board, of an event or of a dead letter reshaped as one, is the
\* topic and the offset it came from.
Event == Topics \X Nat

Nothing == [t \in Replayable |-> 0]

Init ==
    /\ head = [t \in Topics |-> 0]
    /\ live = [t \in Topics |-> 0]
    /\ connected = [b \in Browsers |-> TRUE]
    /\ board = [b \in Browsers |-> <<>>]
    /\ owed = [b \in Browsers |-> Nothing]
    /\ busy = [b \in Browsers |-> FALSE]
    /\ others = [b \in Browsers |-> 0]
    /\ last = [b \in Browsers |-> 0]
    /\ asks = 0
    /\ asker = [r \in Requests |-> "caller"]
    /\ plan = [r \in Requests |-> TopicOrder]
    /\ request = [r \in Requests |-> "none"]
    /\ replaying = FALSE
    /\ topic = [r \in Requests |-> 1]
    /\ mark = [r \in Requests |-> 0]
    /\ sent = [r \in Requests |-> 0]
    /\ stalled = [r \in Requests |-> FALSE]
    /\ faults = 0

Fault == /\ faults < MaxFaults
         /\ faults' = faults + 1

Publish(t) ==
    /\ MapThenSumSet(LAMBDA u : head[u], Topics) < MaxEvents
    /\ head' = [head EXCEPT ![t] = @ + 1]
    /\ UNCHANGED <<live, browserVars, askVars, request, replaying, runVars, faults>>

\* Mutation: the board is not capped.
LatestOrAll(s) == s

Latest(s) == IF Len(s) > BoardSize THEN Tail(s) ELSE s

\* server.emit: every browser that is connected appends the event and keeps the
\* latest.
Emit(e) ==
    board' = [b \in Browsers |->
                 IF connected[b] THEN Latest(Append(board[b], e)) ELSE board[b]]

PushLive(t) ==
    /\ live[t] < head[t]
    /\ Emit(<<t, live[t]>>)
    /\ live' = [live EXCEPT ![t] = @ + 1]
    /\ UNCHANGED <<head, connected, owed, busy, others, last, askVars, request, replaying,
                   runVars, faults>>

-----------------------------------------------------------------------------
(* The browser. *)

\* POST /replay, of a browser or of somebody else.
Post(who, topics) ==
    /\ asks < MaxReplays
    /\ asks' = asks + 1
    /\ asker' = [asker EXCEPT ![asks'] = who]
    /\ plan' = [plan EXCEPT ![asks'] = topics]
    /\ request' = [request EXCEPT ![asks'] = "posted"]

\* Disabled while the browser waits.
ReplayButton(b) == ~busy[b]

Ask(b) ==
    /\ ReplayButton(b)
    /\ Post(b, TopicOrder)
    /\ busy' = [busy EXCEPT ![b] = TRUE]
    /\ last' = [last EXCEPT ![b] = asks']
    /\ owed' = [owed EXCEPT ![b] = IF connected[b]
                                   THEN [t \in Replayable |-> head[t]]
                                   ELSE Nothing]
    /\ board' = [board EXCEPT ![b] = <<>>]
    /\ UNCHANGED <<logVars, connected, others, replaying, runVars, faults>>

\* Somebody else calls the endpoint, which takes a single topic as well.
Call(topics) ==
    /\ Post("caller", topics)
    /\ UNCHANGED <<logVars, browserVars, replaying, runVars, faults>>

\* The clear button.
Clear(b) ==
    /\ board[b] # <<>>
    /\ board' = [board EXCEPT ![b] = <<>>]
    /\ owed' = [owed EXCEPT ![b] = Nothing]
    /\ UNCHANGED <<logVars, connected, busy, others, last, askVars, request, replaying,
                   runVars, faults>>

\* A pause or a resume, whose buttons are never disabled, or an order raises the
\* flag that it shares with the replay ...
OtherStarts(b) ==
    /\ others[b] < MaxOthers
    /\ others' = [others EXCEPT ![b] = @ + 1]
    /\ busy' = [busy EXCEPT ![b] = TRUE]
    /\ UNCHANGED <<logVars, connected, board, owed, last, askVars, request,
                   replaying, runVars, faults>>

\* ... and lowers it at its end, whatever else is open.
OtherEnds(b) ==
    /\ others[b] > 0
    /\ others' = [others EXCEPT ![b] = @ - 1]
    /\ busy' = [busy EXCEPT ![b] = FALSE]
    /\ UNCHANGED <<logVars, connected, board, owed, last, askVars, request,
                   replaying, runVars, faults>>

Disconnect(b) ==
    /\ connected[b]
    /\ Fault
    /\ connected' = [connected EXCEPT ![b] = FALSE]
    /\ owed' = [owed EXCEPT ![b] = Nothing]
    /\ UNCHANGED <<logVars, board, busy, others, last, askVars, request, replaying,
                   runVars>>

Reconnect(b) ==
    /\ ~connected[b]
    /\ connected' = [connected EXCEPT ![b] = TRUE]
    /\ UNCHANGED <<logVars, board, owed, busy, others, last, askVars, request, replaying,
                   runVars, faults>>

-----------------------------------------------------------------------------
(* The replay service. *)

Proceed(r, phase) ==
    /\ request' = [request EXCEPT ![r] = phase]
    /\ UNCHANGED <<busy, others>>

\* The response, good or bad, lowers the busy flag of the browser that asked.
Answer(r, answer) ==
    /\ request' = [request EXCEPT ![r] = answer]
    /\ busy' = [b \in Browsers |-> busy[b] /\ b # asker[r]]
    /\ UNCHANGED others

\* Only the domain topics are known.
Known(r) == ToSet(plan[r]) \subseteq Replayable

\* Mutation: the guard is inside of the try, so a refusal clears the flag.
RefuseAndRelease(r) ==
    /\ request[r] = "posted"
    /\ ~Known(r) \/ replaying
    /\ Answer(r, "refused")
    /\ replaying' = FALSE
    /\ UNCHANGED <<logVars, connected, board, owed, last, askVars, runVars, faults>>

\* A topic that is not known, or a second replay.
Refuse(r) ==
    /\ request[r] = "posted"
    /\ ~Known(r) \/ replaying
    /\ Answer(r, "refused")
    /\ UNCHANGED <<logVars, connected, board, owed, last, askVars, replaying,
                   runVars, faults>>

Admit(r) ==
    /\ request[r] = "posted"
    /\ Known(r) /\ ~replaying
    /\ replaying' = TRUE
    /\ Proceed(r, "mark")
    /\ UNCHANGED <<logVars, connected, board, owed, last, askVars, runVars, faults>>

Current(r) == plan[r][topic[r]]

\* The topic is done: the next one, or the answer.
Advance(r) ==
    \/ /\ topic[r] < Len(plan[r])
       /\ topic' = [topic EXCEPT ![r] = @ + 1]
       /\ Proceed(r, "mark")
       /\ UNCHANGED replaying
    \/ /\ topic[r] = Len(plan[r])
       /\ topic' = [topic EXCEPT ![r] = 1]
       /\ replaying' = FALSE
       /\ Answer(r, "ok")

\* Looks for the end of the topic; an empty one is skipped.
Mark(r) ==
    /\ request[r] = "mark"
    /\ LET end == head[Current(r)] IN
       /\ mark' = [mark EXCEPT ![r] = end]
       /\ \/ /\ end = 0
             /\ Advance(r)
          \/ /\ end > 0
             /\ Proceed(r, "drain")
             /\ UNCHANGED <<topic, replaying>>
    /\ UNCHANGED <<logVars, connected, board, owed, last, askVars, sent, stalled,
                   faults>>

\* The replay of the topic returns, and what it knew of it is gone.
Leave(r) ==
    /\ mark' = [mark EXCEPT ![r] = 0]
    /\ sent' = [sent EXCEPT ![r] = 0]
    /\ stalled' = [stalled EXCEPT ![r] = FALSE]

\* Mutation: the offset of the mark is taken for the last one to wait for.
PushOneLess(r) ==
    /\ request[r] \in {"drain", "close"} /\ ~stalled[r]
    /\ sent[r] < head[Current(r)]
    /\ Emit(<<Current(r), sent[r]>>)
    /\ sent' = [sent EXCEPT ![r] = @ + 1]
    /\ Proceed(r, IF sent'[r] + 1 >= mark[r] THEN "close" ELSE request[r])
    /\ UNCHANGED <<logVars, connected, owed, last, askVars, replaying, topic, mark,
                   stalled, faults>>

\* The throwaway consumer delivers an event.  At the mark the replay goes on to
\* disconnect it, and until then it delivers what comes after the mark.
Push(r) ==
    /\ request[r] \in {"drain", "close"} /\ ~stalled[r]
    /\ sent[r] < head[Current(r)]
    /\ Emit(<<Current(r), sent[r]>>)
    /\ sent' = [sent EXCEPT ![r] = @ + 1]
    /\ Proceed(r, IF sent'[r] >= mark[r] THEN "close" ELSE request[r])
    /\ UNCHANGED <<logVars, connected, owed, last, askVars, replaying, topic, mark,
                   stalled, faults>>

\* A replay that does not get to the marks owes nothing.
Forgive(r) ==
    owed' = [b \in Browsers |-> IF b = asker[r] THEN Nothing ELSE owed[b]]

\* The consumer fails; nobody awaits its run().
Stall(r) ==
    /\ request[r] = "drain" /\ ~stalled[r]
    /\ Fault
    /\ stalled' = [stalled EXCEPT ![r] = TRUE]
    /\ Forgive(r)
    /\ UNCHANGED <<logVars, connected, board, busy, others, last, askVars, request, replaying, topic, mark,
                   sent>>

\* Mutation: the timer only watches a consumer that never delivered.
TimeoutIfSilent(r) ==
    /\ request[r] = "drain" /\ sent[r] = 0
    /\ IF stalled[r] THEN UNCHANGED faults ELSE Fault
    /\ Proceed(r, "close")
    /\ Forgive(r)
    /\ UNCHANGED <<logVars, connected, board, last, askVars, replaying, runVars>>

\* The 15 seconds are over, for a consumer that stalled or one that is slow.
Timeout(r) ==
    /\ request[r] = "drain"
    /\ IF stalled[r] THEN UNCHANGED faults ELSE Fault
    /\ Proceed(r, "close")
    /\ Forgive(r)
    /\ UNCHANGED <<logVars, connected, board, last, askVars, replaying, runVars>>

Close(r) ==
    /\ request[r] = "close"
    /\ Leave(r)
    /\ Advance(r)
    /\ UNCHANGED <<logVars, connected, board, owed, last, askVars, faults>>

\* A call to the broker rejects: reading the end, connecting, disconnecting.
Fail(r) ==
    /\ request[r] \in {"mark", "close"}
    /\ Fault
    /\ Leave(r)
    /\ topic' = [topic EXCEPT ![r] = 1]
    /\ replaying' = FALSE
    /\ Answer(r, "failed")
    /\ UNCHANGED <<logVars, connected, board, owed, last, askVars>>

\* The monitor dies and is started again: its sockets and its requests are gone
\* with the flag, and the live consumer goes on from what it committed, or from
\* the end of a topic it committed nothing of.
MonitorRestarts ==
    /\ Fault
    /\ replaying' = FALSE
    /\ request' = [r \in Requests |->
                      IF request[r] \in Running \union {"posted"} THEN "failed"
                                                                ELSE request[r]]
    /\ topic' = [r \in Requests |-> 1]
    /\ mark' = [r \in Requests |-> 0]
    /\ sent' = [r \in Requests |-> 0]
    /\ stalled' = [r \in Requests |-> FALSE]
    /\ connected' = [b \in Browsers |-> FALSE]
    /\ owed' = [b \in Browsers |-> Nothing]
    /\ busy' = [b \in Browsers |->
                   busy[b] /\ \A r \in Requests : asker[r] = b => request'[r] = request[r]]
    /\ \E from \in [Topics -> 0..MaxEvents] :
         /\ \A t \in Topics : from[t] \in 1..live[t] \union {head[t]}
         /\ live' = from
    /\ UNCHANGED <<head, board, others, last, askVars>>

-----------------------------------------------------------------------------

Serve(r) ==
    Refuse(r) \/ Admit(r) \/ Mark(r) \/ Push(r) \/ Timeout(r) \/ Close(r)

Next ==
    \/ \E t \in Topics : Publish(t) \/ PushLive(t)
    \/ \E topics \in Plans : Call(topics)
    \/ \E b \in Browsers :
         Ask(b) \/ Clear(b) \/ OtherStarts(b) \/ OtherEnds(b)
         \/ Disconnect(b) \/ Reconnect(b)
    \/ \E r \in Requests : Serve(r) \/ Stall(r) \/ Fail(r)
    \/ MonitorRestarts

\* The service goes on with every request, and its timer fires.  A consumer
\* that was told to disconnect does, whatever it still has to deliver.
Fairness == \A r \in Requests : WF_vars(Serve(r)) /\ WF_vars(Close(r))

Spec == Init /\ [][Next]_vars
FairSpec == Spec /\ Fairness

-----------------------------------------------------------------------------
(* Properties. *)

TopicsTyped ==
    /\ head \in [Topics -> Nat]
    /\ \A t \in Topics : live[t] \in 0..head[t]
    /\ live \in [Topics -> Nat]
    /\ faults \in 0..MaxFaults

BrowsersTyped ==
    /\ connected \in [Browsers -> BOOLEAN]
    /\ board \in [Browsers -> Seq(Event)]
    /\ \A b \in Browsers : Len(board[b]) <= BoardSize
    /\ owed \in [Browsers -> [Replayable -> Nat]]
    /\ busy \in [Browsers -> BOOLEAN]
    /\ others \in [Browsers -> 0..MaxOthers]
    /\ last \in [Browsers -> 0..MaxReplays]

RequestsTyped ==
    /\ asks \in 0..MaxReplays
    /\ asker \in [Requests -> Browsers \union {"caller"}]
    /\ plan \in [Requests -> Plans]
    /\ request \in [Requests -> Phases]
    /\ replaying \in BOOLEAN

RunsTyped ==
    /\ topic \in [Requests -> Nat]
    /\ \A r \in Requests : topic[r] \in 1..Len(plan[r])
    /\ mark \in [Requests -> Nat]
    /\ sent \in [Requests -> Nat]
    /\ stalled \in [Requests -> BOOLEAN]

\* Every variable has its type; a board has room for its cards and the live
\* consumer and a replay stay within their topics.
TypeOK == TopicsTyped /\ BrowsersTyped /\ RequestsTyped /\ RunsTyped

\* "One replay at a time": two requests never have a throwaway consumer at the
\* same time, and the flag is up exactly while one has.
OneReplay ==
    /\ \A q, r \in Requests :
         request[q] \in Running /\ request[r] \in Running => q = r
    /\ replaying <=> \E r \in Requests : request[r] \in Running

\* "The whole timeline can be rebuilt from the log alone": when the latest replay
\* a browser asked for went through, everything that was in the domain topics
\* when it asked is on its board, whatever it missed before, unless it lost the
\* socket or cleared the board since, or the board is full.
Rebuilt ==
    \A b \in Browsers :
        last[b] # 0 /\ request[last[b]] = "ok" /\ Len(board[b]) < BoardSize
        => \A t \in Replayable :
             \A i \in 1..owed[b][t] : <<t, i - 1>> \in ToSet(board[b])

\* Every request is answered, also when the throwaway consumer never gets to
\* the mark: a replay never hangs, and never keeps the next one out for good.
EveryReplayAnswered ==
    \A r \in Requests : request[r] = "posted" ~> request[r] \in Answers

\* The calls to the service that nobody was answered yet.
Open(r) == request[r] \in Running \union {"posted"}

\* Once no call is open every request ever made was answered, the flag is down
\* and a browser has its buttons disabled only for another call it waits for.
AnsweredAtRest ==
    (\A r \in Requests : ~Open(r)) =>
        /\ \A r \in 1..asks : request[r] \in Answers
        /\ ~replaying
        /\ \A b \in Browsers : busy[b] => others[b] > 0

\* A browser's buttons are disabled only while a replay of its own is open or it
\* waits for a pause, a resume or an order.
BusyIsExplained ==
    \A b \in Browsers :
        busy[b] => others[b] > 0 \/ \E r \in Requests : asker[r] = b /\ Open(r)
=============================================================================
