--------------------------- MODULE PaymentDelivery ---------------------------
(***************************************************************************)
(* One order.created in payment-service, statement by statement: the retry *)
(* loop around the handler, the handler's transaction as the SQL the ORM   *)
(* issues (save() is a SELECT followed by an INSERT or an UPDATE), the     *)
(* dead letter, and the redeliveries after a failure or a restart.         *)
(* READ COMMITTED: a statement sees what has committed when it starts.     *)
(***************************************************************************)
EXTENDS Naturals

CONSTANTS
    Runs,       \* handlers that may be at the message at one time
    Retries,    \* attempts before giving up
    MaxFaults   \* bound: failed statements, lost answers and restarts

ASSUME DeliveryAssumption ==
    /\ Retries \in Nat \ {0}
    /\ MaxFaults \in Nat

VARIABLES
    poison,    \* the order has a POISON item
    row,       \* the payment row is committed
    events,    \* committed outbox rows of the order
    letters,   \* messages in order.created.DLQ
    acked,     \* the consumer is past the message
    pc,        \* pc[r]: where run r is, "idle" outside of the handler
    attempt,   \* attempt[r]: the attempt it is in
    seen,      \* seen[r]: what the SELECT of save() found
    wrote,     \* wrote[r]: what its open transaction did to the payment row
    faults     \* how many faults happened

vars == <<poison, row, events, letters, acked, pc, attempt, seen, wrote, faults>>

\* The statements of the transaction, each of which may fail.
Statements == {"check", "select", "write", "event", "commit"}

Init ==
    /\ poison \in BOOLEAN
    /\ row = FALSE
    /\ events = 0
    /\ letters = 0
    /\ acked = FALSE
    /\ pc = [r \in Runs |-> "idle"]
    /\ attempt = [r \in Runs |-> 1]
    /\ seen = [r \in Runs |-> FALSE]
    /\ wrote = [r \in Runs |-> "nothing"]
    /\ faults = 0

Fault == /\ faults < MaxFaults
         /\ faults' = faults + 1

Goto(r, place) == pc' = [pc EXCEPT ![r] = place]

\* Mutation: the attempts of an earlier delivery are not forgotten.
DeliverCarrying(r) ==
    /\ pc[r] = "idle"
    /\ ~acked
    /\ Goto(r, "start")
    /\ UNCHANGED <<poison, row, events, letters, acked, attempt, seen, wrote, faults>>

\* The consumer hands the message to the handler.
Deliver(r) ==
    /\ pc[r] = "idle"
    /\ ~acked
    /\ Goto(r, "start")
    /\ attempt' = [attempt EXCEPT ![r] = 1]
    /\ UNCHANGED <<poison, row, events, letters, acked, seen, wrote, faults>>

\* Mutation: the handler is retried for as long as it throws.
ThrowForever(r) ==
    /\ Goto(r, "start")
    /\ attempt' = [attempt EXCEPT ![r] = IF @ < Retries THEN @ + 1 ELSE @]
    /\ seen' = [seen EXCEPT ![r] = FALSE]
    /\ wrote' = [wrote EXCEPT ![r] = "nothing"]

\* Mutation: the bound of the loop is off by one.
ThrowOnceMore(r) ==
    /\ \/ /\ attempt[r] <= Retries
          /\ Goto(r, "start")
          /\ attempt' = [attempt EXCEPT ![r] = @ + 1]
       \/ /\ attempt[r] > Retries
          /\ Goto(r, "letter")
          /\ UNCHANGED attempt
    /\ seen' = [seen EXCEPT ![r] = FALSE]
    /\ wrote' = [wrote EXCEPT ![r] = "nothing"]

\* The attempt threw and its transaction rolled back: the next attempt, or the
\* dead letter after the last one.
Throw(r) ==
    /\ \/ /\ attempt[r] < Retries
          /\ Goto(r, "start")
          /\ attempt' = [attempt EXCEPT ![r] = @ + 1]
       \/ /\ attempt[r] >= Retries
          /\ Goto(r, "letter")
          /\ UNCHANGED attempt
    /\ seen' = [seen EXCEPT ![r] = FALSE]
    /\ wrote' = [wrote EXCEPT ![r] = "nothing"]

\* A POISON order throws before the transaction opens.
Start(r) ==
    /\ pc[r] = "start"
    /\ \/ /\ poison
          /\ Throw(r)
       \/ /\ ~poison
          /\ Goto(r, "check")
          /\ UNCHANGED <<attempt, seen, wrote>>
    /\ UNCHANGED <<poison, row, events, letters, acked, faults>>

\* Mutation: no idempotency check.
CheckNothing(r) ==
    /\ pc[r] = "check"
    /\ Goto(r, "select")
    /\ UNCHANGED <<poison, row, events, letters, acked, attempt, seen, wrote, faults>>

\* findOne: a payment that exists ends the handler.
Check(r) ==
    /\ pc[r] = "check"
    /\ Goto(r, IF row THEN "return" ELSE "select")
    /\ UNCHANGED <<poison, row, events, letters, acked, attempt, seen, wrote, faults>>

\* save() looks whether the row it has to write exists ...
Select(r) ==
    /\ pc[r] = "select"
    /\ seen' = [seen EXCEPT ![r] = row]
    /\ Goto(r, "write")
    /\ UNCHANGED <<poison, row, events, letters, acked, attempt, wrote, faults>>

Locked(r) == \E q \in Runs \ {r} : wrote[q] # "nothing"

\* ... and updates it or inserts it.  A writer waits for another one's
\* transaction, and an INSERT of a key that is there throws.
Write(r) ==
    /\ pc[r] = "write"
    /\ ~Locked(r)
    /\ \/ /\ seen[r]
          /\ wrote' = [wrote EXCEPT ![r] = "update"]
          /\ Goto(r, "event")
          /\ UNCHANGED <<attempt, seen>>
       \/ /\ ~seen[r] /\ ~row
          /\ wrote' = [wrote EXCEPT ![r] = "insert"]
          /\ Goto(r, "event")
          /\ UNCHANGED <<attempt, seen>>
       \/ /\ ~seen[r] /\ row
          /\ Throw(r)
    /\ UNCHANGED <<poison, row, events, letters, acked, faults>>

\* The outbox row of the event.
WriteEvent(r) ==
    /\ pc[r] = "event"
    /\ Goto(r, "commit")
    /\ UNCHANGED <<poison, row, events, letters, acked, attempt, seen, wrote, faults>>

Committed == row' = TRUE /\ events' = events + 1

CommitTransaction(r) ==
    /\ pc[r] = "commit"
    /\ Committed
    /\ wrote' = [wrote EXCEPT ![r] = "nothing"]
    /\ Goto(r, "return")
    /\ UNCHANGED <<poison, letters, acked, attempt, seen, faults>>

\* The transaction commits, but the answer is lost.
CommitUnheard(r) ==
    /\ pc[r] = "commit"
    /\ Fault
    /\ Committed
    /\ Throw(r)
    /\ UNCHANGED <<poison, letters, acked>>

StatementFails(r) ==
    /\ pc[r] \in Statements
    /\ Fault
    /\ Throw(r)
    /\ UNCHANGED <<poison, row, events, letters, acked>>

SendLetter(r) ==
    /\ pc[r] = "letter"
    /\ letters' = letters + 1
    /\ Goto(r, "return")
    /\ UNCHANGED <<poison, row, events, acked, attempt, seen, wrote, faults>>

\* The send fails, before or after the broker took the letter: the wrapper
\* throws and the message will be delivered again.
LetterFails(r) ==
    /\ pc[r] = "letter"
    /\ Fault
    /\ letters' \in {letters, letters + 1}
    /\ Goto(r, "idle")
    /\ UNCHANGED <<poison, row, events, acked, attempt, seen, wrote>>

\* The handler returns and the consumer commits the offset.
Return(r) ==
    /\ pc[r] = "return"
    /\ acked' = TRUE
    /\ Goto(r, "idle")
    /\ UNCHANGED <<poison, row, events, letters, attempt, seen, wrote, faults>>

\* The process of the run restarts; its open transaction is rolled back.
Restart(r) ==
    /\ pc[r] # "idle"
    /\ Fault
    /\ Goto(r, "idle")
    /\ seen' = [seen EXCEPT ![r] = FALSE]
    /\ wrote' = [wrote EXCEPT ![r] = "nothing"]
    /\ UNCHANGED <<poison, row, events, letters, acked, attempt>>

Handle(r) ==
    \/ Deliver(r) \/ Start(r) \/ Check(r) \/ Select(r) \/ Write(r)
    \/ WriteEvent(r) \/ CommitTransaction(r) \/ SendLetter(r) \/ Return(r)

Next ==
    \E r \in Runs :
        \/ Handle(r) \/ CommitUnheard(r) \/ StatementFails(r)
        \/ LetterFails(r) \/ Restart(r)

\* A running consumer delivers, and what a handler awaits settles.
Fairness == \A r \in Runs : WF_vars(Handle(r))

Spec == Init /\ [][Next]_vars
FairSpec == Spec /\ Fairness

-----------------------------------------------------------------------------
(* Properties. *)

\* Every variable has its type.
TypeOK ==
    /\ poison \in BOOLEAN
    /\ row \in BOOLEAN
    /\ events \in Nat
    /\ letters \in Nat
    /\ acked \in BOOLEAN
    /\ pc \in [Runs -> Statements \union {"idle", "start", "letter", "return"}]
    /\ attempt \in [Runs -> 1..Retries]
    /\ seen \in [Runs -> BOOLEAN]
    /\ wrote \in [Runs -> {"nothing", "insert", "update"}]
    /\ faults \in 0..MaxFaults

Contract == INSTANCE DeliveryContract WITH charges <- events

\* With one run at a time, whatever statement fails and whatever answer is
\* lost, the order is charged at most once and the message is acknowledged only
\* when it was charged or dead-lettered.
ImplementsContract == Contract!Spec

\* With one run at a time, a dead letter is explained by faults.  Of an order that
\* can be processed each letter takes a failure of every one of its attempts, and
\* each one after the first also the fault that had the message delivered again:
\* no attempt of an earlier delivery counts in a later one.  A POISON order needs
\* only the latter.
LettersNeedFaults ==
    /\ letters <= 1 + faults
    /\ ~poison => letters * (Retries + 1) <= 1 + faults

\* A message never blocks the partition forever: it is processed or routed to
\* the DLQ.
NeverBlocked == <>acked

\* "The DB PK is the concurrency backstop": the order is charged once also when
\* two runs handle the message at one time.
KeyIsBackstop == events <= 1

\* However many runs overlap: a payment and its event go together, a POISON order
\* is never charged, and the message is done with only when it was charged, or
\* dead-lettered for a reason (it is poison, its payment is there already, or
\* the faults were enough to give it up).
DoneForAReason ==
    /\ events > 0 <=> row
    /\ poison => events = 0
    /\ acked => events > 0 \/ letters > 0
    /\ letters > 0 => poison \/ events > 0 \/ faults >= Retries

\* However many runs overlap: one transaction at a time writes the payment row,
\* and it inserts only a row that is not there.
KeyIsRespected ==
    \A r \in Runs : wrote[r] # "nothing" =>
        /\ ~Locked(r)
        /\ wrote[r] = "insert" <=> ~row
        /\ pc[r] \in {"event", "commit"}
=============================================================================
