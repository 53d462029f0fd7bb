---------------------------- MODULE OutboxRelay ----------------------------
(***************************************************************************)
(* The outbox table of one service and the relay that drains it, await by  *)
(* await: the interval timer may call drain() while an earlier call is     *)
(* still waiting for the database or the broker, the handlers keep writing *)
(* rows meanwhile, and any await may fail.                                 *)
(***************************************************************************)
EXTENDS Naturals, Sequences, FiniteSets

CONSTANTS
    Drains,     \* calls of drain() that may be under way at one time
    BatchSize,  \* rows one call takes at most
    MaxRows,    \* bound: rows the handlers write
    MaxFaults   \* bound: failures and restarts

ASSUME RelayAssumption ==
    /\ BatchSize \in Nat \ {0}
    /\ MaxRows \in Nat
    /\ MaxFaults \in Nat

VARIABLES
    written,   \* the rows 1..written exist, numbered by createdAt
    marked,    \* the rows whose publishedAt is set
    log,       \* the rows the broker took, in order
    draining,  \* the relay's flag
    pc,        \* pc[d]: the await call d of drain() is at, or "idle"
    pending,   \* pending[d]: the rows call d has yet to publish
    faults     \* how many faults happened

vars == <<written, marked, log, draining, pc, pending, faults>>

\* Mutation: the relay also sees the row of a transaction that has not committed.
RowsUncommitted == 1..(written + 1)

\* The rows the relay's query sees.
Rows == 1..written

Init ==
    /\ written = 0
    /\ marked = {}
    /\ log = <<>>
    /\ draining = FALSE
    /\ pc = [d \in Drains |-> "idle"]
    /\ pending = [d \in Drains |-> {}]
    /\ faults = 0

Fault == /\ faults < MaxFaults
         /\ faults' = faults + 1

\* A handler's transaction commits one more row.
Insert ==
    /\ written < MaxRows
    /\ written' = written + 1
    /\ UNCHANGED <<marked, log, draining, pc, pending, faults>>

\* Mutation: nothing keeps two calls apart.
TickUnguarded(d) ==
    /\ pc[d] = "idle"
    /\ draining' = TRUE
    /\ pc' = [pc EXCEPT ![d] = "find"]
    /\ UNCHANGED <<written, marked, log, pending, faults>>

\* The timer calls drain(); a call that finds another draining returns.
Tick(d) ==
    /\ pc[d] = "idle"
    /\ ~draining
    /\ draining' = TRUE
    /\ pc' = [pc EXCEPT ![d] = "find"]
    /\ UNCHANGED <<written, marked, log, pending, faults>>

\* The end of a call, also of one that failed.
Finish(d) ==
    /\ draining' = FALSE
    /\ pc' = [pc EXCEPT ![d] = "idle"]
    /\ pending' = [pending EXCEPT ![d] = {}]

Unmarked == Rows \ marked

\* Mutation: the newest rows are taken first.
Newest ==
    {r \in Unmarked : Cardinality({q \in Unmarked : q > r}) < BatchSize}

\* The rows a call takes: the oldest unpublished ones, at most a batch.
Oldest ==
    {r \in Unmarked : Cardinality({q \in Unmarked : q < r}) < BatchSize}

Find(d) ==
    /\ pc[d] = "find"
    /\ UNCHANGED <<written, marked, log, faults>>
    /\ \/ /\ Oldest = {}
          /\ Finish(d)
       \/ /\ Oldest # {}
          /\ pending' = [pending EXCEPT ![d] = Oldest]
          /\ pc' = [pc EXCEPT ![d] = "emit"]
          /\ UNCHANGED draining

\* Row r is the one the loop of call d is at.
Current(d, r) ==
    r \in pending[d] /\ \A q \in pending[d] : r <= q

\* The broker takes the row.
Emit(d) ==
    /\ pc[d] = "emit"
    /\ \E r \in Rows : Current(d, r) /\ log' = Append(log, r)
    /\ pc' = [pc EXCEPT ![d] = "save"]
    /\ UNCHANGED <<written, marked, draining, pending, faults>>

\* The broker takes the row, but the producer does not hear of it and sends it
\* again.
Resend(d) ==
    /\ pc[d] = "emit"
    /\ Fault
    /\ \E r \in Rows : Current(d, r) /\ log' = Append(log, r)
    /\ UNCHANGED <<written, marked, draining, pc, pending>>

\* The row is marked, and the loop goes on with the next one, if any.
Save(d) ==
    /\ pc[d] = "save"
    /\ \E r \in Rows :
        /\ Current(d, r)
        /\ marked' = marked \union {r}
        /\ \/ /\ pending[d] = {r}
              /\ Finish(d)
           \/ /\ pending[d] # {r}
              /\ pending' = [pending EXCEPT ![d] = @ \ {r}]
              /\ pc' = [pc EXCEPT ![d] = "emit"]
              /\ UNCHANGED draining
    /\ UNCHANGED <<written, log, faults>>

\* The row is marked, but the relay hears of an error.
SaveUnheard(d) ==
    /\ pc[d] = "save"
    /\ Fault
    /\ \E r \in Rows : Current(d, r) /\ marked' = marked \union {r}
    /\ Finish(d)
    /\ UNCHANGED <<written, log>>

\* Mutation: the flag is reset only when all went well.
FailHolding(d) ==
    /\ pc[d] # "idle"
    /\ Fault
    /\ pc' = [pc EXCEPT ![d] = "idle"]
    /\ pending' = [pending EXCEPT ![d] = {}]
    /\ UNCHANGED <<written, marked, log, draining>>

\* What the call awaits fails.  (An emit that fails after the broker took the
\* row is Emit followed by this.)
Fail(d) ==
    /\ pc[d] # "idle"
    /\ Fault
    /\ Finish(d)
    /\ UNCHANGED <<written, marked, log>>

\* The process restarts; the table stays.
Restart ==
    /\ Fault
    /\ draining' = FALSE
    /\ pc' = [d \in Drains |-> "idle"]
    /\ pending' = [d \in Drains |-> {}]
    /\ UNCHANGED <<written, marked, log>>

Next ==
    \/ Insert
    \/ Restart
    \/ \E d \in Drains : \/ Tick(d) \/ Find(d) \/ Emit(d) \/ Resend(d)
                         \/ Save(d) \/ SaveUnheard(d) \/ Fail(d)

\* The timer keeps ticking and what is awaited settles.
Fairness ==
    /\ WF_vars(\E d \in Drains : Tick(d))
    /\ \A d \in Drains : WF_vars(Find(d) \/ Emit(d) \/ Save(d))

Spec == Init /\ [][Next]_vars
FairSpec == Spec /\ Fairness

-----------------------------------------------------------------------------
(* Properties. *)

\* Every variable has its type; only rows that exist are marked or published.
TypeOK ==
    /\ written \in 0..MaxRows
    /\ marked \subseteq 1..written
    /\ log \in Seq(1..written)
    /\ draining \in BOOLEAN
    /\ pc \in [Drains -> {"idle", "find", "emit", "save"}]
    /\ pending \in [Drains -> SUBSET (1..written)]
    /\ faults \in 0..MaxFaults

Contract == INSTANCE OutboxContract

\* The relay publishes the rows in the order they were written ("oldest first")
\* and repeats only the row published last, whatever fails and whenever the
\* timer ticks.
ImplementsContract == Contract!Spec

\* Each copy beyond the first is the work of a fault: the relay on its own
\* ("never overlap two drains") publishes a row once.
DuplicatesNeedFaults == Len(log) <= Contract!Frontier + faults

\* A row that the relay will not look at again is with the broker, and so is
\* every older one: marking is the last thing that happens to a row.
MarkedIsPublished ==
    \A r \in marked : \A q \in 1..r : \E i \in DOMAIN log : log[i] = q

\* Every row is eventually published ("Leave rows unpublished; next tick
\* retries").
EveryRowPublished ==
    \A r \in 1..MaxRows : r \in Rows ~> \E i \in DOMAIN log : log[i] = r

\* What a step may publish: the oldest row that is not marked at that moment,
\* whatever happened to the table since the batch was read.
OldestGoesOut ==
    \A r \in Rows : log' = Append(log, r) =>
        /\ r \notin marked
        /\ \A q \in Rows : q < r => q \in marked

-----------------------------------------------------------------------------
(* The inductive invariant behind the safety properties. *)

\* The marked rows are the oldest ones.
MarkedIsPrefix == \A r \in marked : 1..r \subseteq marked

\* At most one call drains, and the flag tells.
OneDrains ==
    /\ \A d \in Drains : pc[d] # "idle" => draining
    /\ \A d, e \in Drains : pc[d] # "idle" /\ pc[e] # "idle" => d = e

\* What a call has yet to publish is unmarked, and nothing older is.
PendingIsOldest ==
    \A d \in Drains :
        /\ pc[d] \in {"idle", "find"} => pending[d] = {}
        /\ pc[d] \in {"emit", "save"} => pending[d] # {}
        /\ pending[d] \subseteq Unmarked
        /\ \A r \in pending[d] : \A q \in Unmarked : q < r => q \in pending[d]

\* The row published last is the last marked one or the one after it, and a
\* call that is about to mark a row is at the row published last.
FrontierFollowsMarks ==
    /\ marked \subseteq 1..Contract!Frontier
    /\ \A r \in 1..Contract!Frontier : r < Contract!Frontier => r \in marked
    /\ \A d \in Drains : pc[d] = "save" => Current(d, Contract!Frontier)

\* A row was published and no call is about to mark it.
Owing == /\ Contract!Frontier \notin marked
         /\ Contract!Frontier # 0
         /\ \A d \in Drains : pc[d] # "save"

\* A fault explains each copy, and the one that will be published next if the
\* last row has to be published again.
CopiesExplained ==
    /\ Len(log) <= Contract!Frontier + faults
    /\ Owing => Len(log) < Contract!Frontier + faults

IInv ==
    /\ TypeOK
    /\ MarkedIsPrefix
    /\ OneDrains
    /\ PendingIsOldest
    /\ FrontierFollowsMarks
    /\ CopiesExplained
=============================================================================
