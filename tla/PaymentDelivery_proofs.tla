------------------------ MODULE PaymentDelivery_proofs ------------------------
(***************************************************************************)
(* Proofs about PaymentDelivery, for every number of attempts and of       *)
(* faults.  The contract and the few letters are about a message that one  *)
(* run at a time handles (with two they are false); type correctness and   *)
(* the last section hold of any number of overlapping runs.                *)
(***************************************************************************)
EXTENDS PaymentDelivery, TLAPS

(* Type correctness. *)

Places == Statements \union {"idle", "start", "letter", "return"}

LEMMA GotoType ==
  ASSUME TypeOK, NEW r \in Runs, NEW place \in Places, Goto(r, place)
  PROVE  pc' \in [Runs -> Places]
  BY DEF TypeOK, Goto, Places

LEMMA ThrowType ==
  ASSUME TypeOK, NEW r \in Runs, Throw(r)
  PROVE  /\ pc' \in [Runs -> Places]
         /\ attempt' \in [Runs -> 1..Retries]
         /\ seen' \in [Runs -> BOOLEAN]
         /\ wrote' \in [Runs -> {"nothing", "insert", "update"}]
<1>1. "start" \in Places /\ "letter" \in Places
  BY DEF Places
<1>2. Goto(r, "start") \/ Goto(r, "letter")
  BY DEF Throw
<1>3. pc' \in [Runs -> Places]
  BY <1>1, <1>2, GotoType
<1>4. attempt' \in [Runs -> 1..Retries]
  BY DeliveryAssumption DEF Throw, TypeOK
<1>5. /\ seen' \in [Runs -> BOOLEAN]
      /\ wrote' \in [Runs -> {"nothing", "insert", "update"}]
  BY DEF Throw, TypeOK
<1> QED
  BY <1>3, <1>4, <1>5

LEMMA FaultType == ASSUME TypeOK, Fault PROVE faults' \in 0..MaxFaults
  BY DeliveryAssumption DEF TypeOK, Fault

LEMMA TypeStep == TypeOK /\ [Next]_vars => TypeOK'
<1> SUFFICES ASSUME TypeOK, [Next]_vars PROVE TypeOK'
  OBVIOUS
<1> USE DeliveryAssumption
<1>p. pc \in [Runs -> Places]
  BY DEF TypeOK, Places
<1>s. ASSUME NEW r \in Runs, pc' \in [Runs -> Places],
             attempt' \in [Runs -> 1..Retries], seen' \in [Runs -> BOOLEAN],
             wrote' \in [Runs -> {"nothing", "insert", "update"}],
             poison' = poison, row' \in BOOLEAN, events' \in Nat,
             letters' \in Nat, acked' \in BOOLEAN, faults' \in 0..MaxFaults
      PROVE  TypeOK'
  BY <1>s DEF TypeOK, Places
<1>g. ASSUME NEW r \in Runs, NEW place \in Places, Goto(r, place)
      PROVE  pc' \in [Runs -> Places]
  BY <1>g, GotoType
<1>l. \A place \in {"check", "select", "write", "event", "commit",
                    "idle", "start", "letter", "return"} : place \in Places
  BY DEF Places, Statements
<1>1. ASSUME NEW r \in Runs, Deliver(r) PROVE TypeOK'
  BY <1>1, <1>g, <1>l, <1>s DEF Deliver, TypeOK
<1>2. ASSUME NEW r \in Runs, Start(r) PROVE TypeOK'
  <2>1. CASE Throw(r)
    BY <1>2, <2>1, <1>s, ThrowType DEF Start, TypeOK
  <2>2. CASE Goto(r, "check") /\ UNCHANGED <<attempt, seen, wrote>>
    BY <1>2, <2>2, <1>g, <1>l, <1>s DEF Start, TypeOK
  <2> QED BY <1>2, <2>1, <2>2 DEF Start
<1>3. ASSUME NEW r \in Runs, Check(r) PROVE TypeOK'
  <2>1. PICK place \in Places : Goto(r, place)
    BY <1>3, <1>l DEF Check
  <2> QED BY <1>3, <2>1, <1>g, <1>s DEF Check, TypeOK
<1>4. ASSUME NEW r \in Runs, Select(r) PROVE TypeOK'
  <2>1. seen' \in [Runs -> BOOLEAN]
    BY <1>4 DEF Select, TypeOK
  <2> QED BY <1>4, <2>1, <1>g, <1>l, <1>s DEF Select, TypeOK
<1>5. ASSUME NEW r \in Runs, Write(r) PROVE TypeOK'
  <2>1. CASE Throw(r)
    BY <1>5, <2>1, <1>s, ThrowType DEF Write, TypeOK
  <2>2. CASE ~Throw(r)
    <3>1. wrote' \in [Runs -> {"nothing", "insert", "update"}]
      BY <1>5, <2>2 DEF Write, TypeOK
    <3> QED BY <1>5, <2>2, <3>1, <1>g, <1>l, <1>s DEF Write, TypeOK
  <2> QED BY <2>1, <2>2
<1>6. ASSUME NEW r \in Runs, WriteEvent(r) PROVE TypeOK'
  BY <1>6, <1>g, <1>l, <1>s DEF WriteEvent, TypeOK
<1>7. ASSUME NEW r \in Runs, CommitTransaction(r) PROVE TypeOK'
  <2>1. wrote' \in [Runs -> {"nothing", "insert", "update"}]
    BY <1>7 DEF CommitTransaction, TypeOK
  <2>2. row' \in BOOLEAN /\ events' \in Nat
    BY <1>7 DEF CommitTransaction, Committed, TypeOK
  <2> QED BY <1>7, <2>1, <2>2, <1>g, <1>l, <1>s DEF CommitTransaction, TypeOK
<1>8. ASSUME NEW r \in Runs, CommitUnheard(r) PROVE TypeOK'
  <2>1. row' \in BOOLEAN /\ events' \in Nat
    BY <1>8 DEF CommitUnheard, Committed, TypeOK
  <2> QED BY <1>8, <2>1, <1>s, ThrowType, FaultType DEF CommitUnheard, TypeOK
<1>9. ASSUME NEW r \in Runs, StatementFails(r) PROVE TypeOK'
  BY <1>9, <1>s, ThrowType, FaultType DEF StatementFails, TypeOK
<1>10. ASSUME NEW r \in Runs, SendLetter(r) PROVE TypeOK'
  <2>1. letters' \in Nat
    BY <1>10 DEF SendLetter, TypeOK
  <2> QED BY <1>10, <2>1, <1>g, <1>l, <1>s DEF SendLetter, TypeOK
<1>11. ASSUME NEW r \in Runs, LetterFails(r) PROVE TypeOK'
  <2>1. letters' \in Nat
    BY <1>11 DEF LetterFails, TypeOK
  <2> QED BY <1>11, <2>1, <1>g, <1>l, <1>s, FaultType DEF LetterFails, TypeOK
<1>12. ASSUME NEW r \in Runs, Return(r) PROVE TypeOK'
  BY <1>12, <1>g, <1>l, <1>s DEF Return, TypeOK
<1>13. ASSUME NEW r \in Runs, Restart(r) PROVE TypeOK'
  <2>1. /\ seen' \in [Runs -> BOOLEAN]
        /\ wrote' \in [Runs -> {"nothing", "insert", "update"}]
    BY <1>13 DEF Restart, TypeOK
  <2> QED BY <1>13, <2>1, <1>g, <1>l, <1>s, FaultType DEF Restart, TypeOK
<1>14. CASE UNCHANGED vars
  BY <1>14 DEF vars, TypeOK
<1> QED
  BY <1>1, <1>2, <1>3, <1>4, <1>5, <1>6, <1>7, <1>8, <1>9, <1>10, <1>11, <1>12,
     <1>13, <1>14 DEF Next, Handle

LEMMA TypeInit == Init => TypeOK
<1> SUFFICES ASSUME Init PROVE TypeOK
  OBVIOUS
<1>1. row \in BOOLEAN /\ acked \in BOOLEAN /\ poison \in BOOLEAN
  BY DEF Init
<1>2. events \in Nat /\ letters \in Nat /\ faults \in 0..MaxFaults
  BY DeliveryAssumption DEF Init
<1>3. /\ pc \in [Runs -> Statements \union {"idle", "start", "letter", "return"}]
      /\ attempt \in [Runs -> 1..Retries]
  BY DeliveryAssumption DEF Init
<1>4. /\ seen \in [Runs -> BOOLEAN]
      /\ wrote \in [Runs -> {"nothing", "insert", "update"}]
  BY DEF Init
<1> QED
  BY <1>1, <1>2, <1>3, <1>4 DEF TypeOK

\* Every reachable state is well typed, also with several runs at a time.
THEOREM TypeCorrect == Spec => []TypeOK
<1> QED
  BY TypeInit, TypeStep, PTL DEF Spec

-----------------------------------------------------------------------------
(* One run at a time. *)

OneAtATime == \A q, r \in Runs : q = r

\* The payment and its event are written together, and once.
ChargedOnce == events = IF row THEN 1 ELSE 0

\* A run past its check has not found a payment, and nobody else wrote one.
RunUncharged(r) ==
    /\ pc[r] \in {"select", "write", "event", "commit"} => ~row
    /\ pc[r] = "write" => ~seen[r]

\* A handler returns, and its message is done with, only with a result.
DoneWithResult ==
    /\ acked => row \/ letters > 0
    /\ \A r \in Runs : /\ pc[r] = "return" => row \/ letters > 0
                       /\ acked => pc[r] = "idle"

\* While the message is not done with, every letter has cost a fault.
LettersPaid ==
    (~acked /\ \A r \in Runs : pc[r] # "return") => letters <= faults

LettersFew == letters <= 1 + faults

IInv ==
    /\ TypeOK
    /\ ChargedOnce
    /\ \A r \in Runs : RunUncharged(r)
    /\ DoneWithResult
    /\ LettersPaid
    /\ LettersFew

\* What a step of the only run moves: the program counter is that run's.
LEMMA GotoOnly ==
  ASSUME TypeOK, OneAtATime, NEW r \in Runs, NEW place, Goto(r, place)
  PROVE  \A q \in Runs : pc'[q] = place
  BY DEF TypeOK, OneAtATime, Goto

LEMMA ThrowOnly ==
  ASSUME TypeOK, OneAtATime, NEW r \in Runs, Throw(r)
  PROVE  \A q \in Runs : pc'[q] \in {"start", "letter"}
<1>1. Goto(r, "start") \/ Goto(r, "letter")
  BY DEF Throw
<1> QED
  BY <1>1, GotoOnly

\* A step to a place outside of the transaction that writes nothing.
LEMMA QuietStep ==
  ASSUME IInv, TypeOK', OneAtATime, NEW r \in Runs, pc[r] # "return", ~acked,
         NEW place \in {"idle", "start", "check", "letter"},
         \A q \in Runs : pc'[q] = place,
         UNCHANGED <<row, events, acked>>,
         \/ letters' = letters /\ faults' = faults
         \/ letters' \in {letters, letters + 1} /\ faults' = faults + 1
  PROVE  IInv'
<1>1. \A q \in Runs : pc[q] # "return"
  BY DEF OneAtATime
<1>2. letters <= faults
  BY <1>1 DEF IInv, LettersPaid
<1>3. letters \in Nat /\ letters' \in Nat /\ faults \in Nat /\ faults' \in Nat
  BY DEF IInv, TypeOK
<1>4. ChargedOnce'
  BY DEF IInv, ChargedOnce
<1>5. \A q \in Runs : RunUncharged(q)'
  BY DEF RunUncharged
<1>6. DoneWithResult'
  BY DEF DoneWithResult
<1>7. letters' <= faults' /\ letters' <= 1 + faults'
  BY <1>2, <1>3
<1>8. LettersPaid' /\ LettersFew'
  BY <1>7 DEF LettersPaid, LettersFew
<1> QED
  BY <1>4, <1>5, <1>6, <1>8 DEF IInv

LEMMA IInvStep == OneAtATime /\ IInv /\ [Next]_vars => IInv'
<1> SUFFICES ASSUME OneAtATime, IInv, [Next]_vars PROVE IInv'
  OBVIOUS
<1>t. TypeOK /\ TypeOK'
  BY TypeStep DEF IInv
<1>n. letters \in Nat /\ letters' \in Nat /\ faults \in Nat /\ faults' \in Nat
  BY <1>t DEF TypeOK
<1>r. \A r \in Runs : pc[r] # "idle" => ~acked
  BY DEF IInv, DoneWithResult
<1>f. Fault => faults' = faults + 1
  BY DEF Fault
<1>1. ASSUME NEW r \in Runs, Deliver(r) PROVE IInv'
  <2>1. \A q \in Runs : pc'[q] = "start"
    BY <1>1, <1>t, GotoOnly DEF Deliver
  <2> QED BY <1>1, <2>1, <1>t, <1>n, QuietStep DEF Deliver
<1>th. ASSUME NEW r \in Runs, Throw(r), pc[r] \notin {"idle", "return"},
              UNCHANGED <<row, events, letters, acked>>,
              faults' = faults \/ faults' = faults + 1
       PROVE  IInv'
  <2>1. PICK place \in {"start", "letter"} : Goto(r, place)
    BY <1>th DEF Throw
  <2>2. \A q \in Runs : pc'[q] = place
    BY <2>1, <1>t, GotoOnly
  <2>3. ~acked
    BY <1>th, <1>r
  <2> QED BY <1>th, <2>2, <2>3, <1>t, <1>n, QuietStep
<1>2. ASSUME NEW r \in Runs, Start(r) PROVE IInv'
  <2>1. CASE Throw(r)
    BY <1>2, <2>1, <1>th DEF Start
  <2>2. CASE Goto(r, "check")
    <3>1. \A q \in Runs : pc'[q] = "check"
      BY <2>2, <1>t, GotoOnly
    <3> QED BY <1>2, <3>1, <1>t, <1>n, <1>r, QuietStep DEF Start
  <2> QED BY <1>2, <2>1, <2>2 DEF Start
<1>3. ASSUME NEW r \in Runs, Check(r) PROVE IInv'
  <2>1. \A q \in Runs : pc'[q] = IF row THEN "return" ELSE "select"
    BY <1>3, <1>t, GotoOnly DEF Check
  <2>2. \A q \in Runs : pc[q] = "check"
    BY <1>3 DEF Check, OneAtATime
  <2>3. ~acked
    BY <1>3, <1>r DEF Check
  <2> QED
    BY <1>3, <1>t, <1>n, <2>1, <2>2, <2>3
       DEF Check, IInv, ChargedOnce, RunUncharged, DoneWithResult, LettersPaid, LettersFew
<1>4. ASSUME NEW r \in Runs, Select(r) PROVE IInv'
  <2>1. \A q \in Runs : pc'[q] = "write"
    BY <1>4, <1>t, GotoOnly DEF Select
  <2>2. \A q \in Runs : pc[q] = "select" /\ ~row
    BY <1>4 DEF Select, OneAtATime, IInv, RunUncharged
  <2>3. \A q \in Runs : ~seen'[q]
    BY <1>4, <1>t, <2>2 DEF Select, OneAtATime, TypeOK
  <2>4. ~acked
    BY <1>4, <1>r DEF Select
  <2> QED
    BY <1>4, <1>t, <1>n, <2>1, <2>2, <2>3, <2>4
       DEF Select, IInv, ChargedOnce, RunUncharged, DoneWithResult, LettersPaid, LettersFew
<1>5. ASSUME NEW r \in Runs, Write(r) PROVE IInv'
  <2>1. CASE Throw(r)
    BY <1>5, <2>1, <1>th DEF Write
  <2>2. CASE Goto(r, "event")
    <3>1. \A q \in Runs : pc'[q] = "event"
      BY <2>2, <1>t, GotoOnly
    <3>2. \A q \in Runs : pc[q] = "write" /\ ~row
      BY <1>5 DEF Write, OneAtATime, IInv, RunUncharged
    <3>3. ~acked
      BY <1>5, <1>r DEF Write
    <3> QED
      BY <1>5, <1>t, <1>n, <3>1, <3>2, <3>3
         DEF Write, IInv, ChargedOnce, RunUncharged, DoneWithResult, LettersPaid, LettersFew
  <2> QED BY <1>5, <2>1, <2>2 DEF Write
<1>6. ASSUME NEW r \in Runs, WriteEvent(r) PROVE IInv'
  <2>1. \A q \in Runs : pc'[q] = "commit"
    BY <1>6, <1>t, GotoOnly DEF WriteEvent
  <2>2. \A q \in Runs : pc[q] = "event" /\ ~row
    BY <1>6 DEF WriteEvent, OneAtATime, IInv, RunUncharged
  <2>3. ~acked
    BY <1>6, <1>r DEF WriteEvent
  <2> QED
    BY <1>6, <1>t, <1>n, <2>1, <2>2, <2>3
       DEF WriteEvent, IInv, ChargedOnce, RunUncharged, DoneWithResult, LettersPaid, LettersFew
<1>c. ASSUME NEW r \in Runs, pc[r] = "commit", Committed, UNCHANGED <<letters, acked>>,
             faults' = faults \/ faults' = faults + 1,
             \A q \in Runs : pc'[q] \in {"return", "start", "letter"}
      PROVE  IInv'
  <2>1. \A q \in Runs : pc[q] = "commit" /\ ~row
    BY <1>c DEF OneAtATime, IInv, RunUncharged
  <2>2. ~acked
    BY <1>c, <1>r
  <2>3. row' /\ events' = 1
    BY <1>c, <2>1 DEF Committed, IInv, ChargedOnce
  <2>4. letters <= faults
    BY <2>1, <2>2 DEF IInv, LettersPaid
  <2>5. letters' = letters /\ faults' \in {faults, faults + 1}
    BY <1>c
  <2>6. letters' <= faults' /\ letters' <= 1 + faults'
    <3>1. CASE faults' = faults
      BY <1>n, <2>4, <2>5, <3>1
    <3>2. CASE faults' = faults + 1
      BY <1>n, <2>4, <2>5, <3>2
    <3> QED BY <2>5, <3>1, <3>2
  <2>7. ChargedOnce' /\ LettersPaid' /\ LettersFew'
    BY <2>3, <2>6 DEF ChargedOnce, LettersPaid, LettersFew
  <2>8. (\A q \in Runs : RunUncharged(q)') /\ DoneWithResult'
    BY <1>c, <2>2, <2>3 DEF RunUncharged, DoneWithResult
  <2> QED
    BY <1>t, <2>7, <2>8 DEF IInv
<1>7. ASSUME NEW r \in Runs, CommitTransaction(r) PROVE IInv'
  <2>1. \A q \in Runs : pc'[q] = "return"
    BY <1>7, <1>t, GotoOnly DEF CommitTransaction
  <2> QED BY <1>7, <2>1, <1>c DEF CommitTransaction
<1>8. ASSUME NEW r \in Runs, CommitUnheard(r) PROVE IInv'
  <2>1. \A q \in Runs : pc'[q] \in {"start", "letter"}
    BY <1>8, <1>t, ThrowOnly DEF CommitUnheard
  <2> QED BY <1>8, <1>f, <2>1, <1>c DEF CommitUnheard
<1>9. ASSUME NEW r \in Runs, StatementFails(r) PROVE IInv'
  BY <1>9, <1>th, <1>f DEF StatementFails, Statements
<1>10. ASSUME NEW r \in Runs, SendLetter(r) PROVE IInv'
  <2>1. \A q \in Runs : pc'[q] = "return"
    BY <1>10, <1>t, GotoOnly DEF SendLetter
  <2>2. \A q \in Runs : pc[q] = "letter"
    BY <1>10 DEF SendLetter, OneAtATime
  <2>3. ~acked
    BY <1>10, <1>r DEF SendLetter
  <2>4. letters <= faults
    BY <2>2, <2>3 DEF IInv, LettersPaid
  <2> QED
    BY <1>10, <1>t, <1>n, <2>1, <2>3, <2>4
       DEF SendLetter, IInv, ChargedOnce, RunUncharged, DoneWithResult, LettersPaid, LettersFew
<1>11. ASSUME NEW r \in Runs, LetterFails(r) PROVE IInv'
  <2>1. \A q \in Runs : pc'[q] = "idle"
    BY <1>11, <1>t, GotoOnly DEF LetterFails
  <2>2. letters' = letters \/ letters' = letters + 1
    BY <1>11 DEF LetterFails
  <2>3. ~acked /\ pc[r] # "return"
    BY <1>11, <1>r DEF LetterFails
  <2>4. UNCHANGED <<row, events, acked>> /\ faults' = faults + 1
    BY <1>11, <1>f DEF LetterFails
  <2> QED BY <2>1, <2>2, <2>3, <2>4, <1>t, <1>n, QuietStep
<1>12. ASSUME NEW r \in Runs, Return(r) PROVE IInv'
  <2>1. \A q \in Runs : pc'[q] = "idle"
    BY <1>12, <1>t, GotoOnly DEF Return
  <2>2. row \/ letters > 0
    BY <1>12 DEF Return, IInv, DoneWithResult
  <2> QED
    BY <1>12, <1>t, <1>n, <2>1, <2>2
       DEF Return, IInv, ChargedOnce, RunUncharged, DoneWithResult, LettersPaid, LettersFew
<1>13. ASSUME NEW r \in Runs, Restart(r) PROVE IInv'
  <2>1. \A q \in Runs : pc'[q] = "idle"
    BY <1>13, <1>t, GotoOnly DEF Restart
  <2>2. ~acked /\ faults' = faults + 1 /\ letters' = letters
    BY <1>13, <1>r, <1>f DEF Restart
  <2>3. letters <= faults + 1
    BY <1>n DEF IInv, LettersFew
  <2> QED
    BY <1>13, <1>t, <1>n, <2>1, <2>2, <2>3
       DEF Restart, IInv, ChargedOnce, RunUncharged, DoneWithResult, LettersPaid, LettersFew
<1>14. CASE UNCHANGED vars
  BY <1>14, <1>t DEF vars, IInv, ChargedOnce, RunUncharged, DoneWithResult,
                     LettersPaid, LettersFew
<1> QED
  BY <1>1, <1>2, <1>3, <1>4, <1>5, <1>6, <1>7, <1>8, <1>9, <1>10, <1>11, <1>12,
     <1>13, <1>14 DEF Next, Handle

LEMMA IInvInit == Init => IInv
<1> SUFFICES ASSUME Init PROVE IInv
  OBVIOUS
<1> QED
  BY TypeInit DEF Init, IInv, ChargedOnce, RunUncharged, DoneWithResult, LettersPaid,
              LettersFew

\* With one run at a time, the order is charged exactly when its row is there,
\* a run past its check has nothing before it, and letters are paid for.
THEOREM Invariance == OneAtATime => (Spec => []IInv)
<1> SUFFICES ASSUME OneAtATime PROVE Spec => []IInv
  OBVIOUS
<1>1. IInv /\ [Next]_vars => IInv'
  BY IInvStep
<1> QED
  BY <1>1, IInvInit, PTL DEF Spec

(* What the letters cost.  A delivery begins at the first attempt, so that   *)
(* a letter of an order that can be processed is paid for by failures of     *)
(* its own delivery, and by the fault that has the message delivered again.  *)

Price == letters * (Retries + 1)

\* Where a run is between two letters: at the beginning nothing is spent, an
\* attempt that is over is, and before a letter all of them are.  A letter that is
\* sent is paid for but for the redelivery that it may not need.
LettersEarned ==
    ~poison =>
        /\ Price <= 1 + faults
        /\ \A r \in Runs :
             /\ pc[r] = "idle" /\ ~acked => Price <= faults
             /\ pc[r] \notin {"idle", "letter", "return"} => Price + attempt[r] <= 1 + faults
             /\ pc[r] = "letter" => Price + Retries <= faults

LEMMA OneMore ==
  ASSUME NEW n \in Nat, NEW k \in Nat
  PROVE  n * k \in Nat /\ (n + 1) * k = n * k + k
OBVIOUS

LEMMA PriceFacts ==
  ASSUME TypeOK, TypeOK'
  PROVE  /\ Price \in Nat /\ Price' \in Nat
         /\ letters' = letters => Price' = Price
         /\ letters' = letters + 1 => Price' = Price + (Retries + 1)
<1> DEFINE k == Retries + 1
<1>1. letters \in Nat /\ letters' \in Nat /\ k \in Nat
  BY DeliveryAssumption DEF TypeOK
<1>2. Price = letters * k /\ Price' = letters' * k
  BY DEF Price
<1> HIDE DEF k
<1>3. Price \in Nat /\ Price' \in Nat
  BY <1>1, <1>2, OneMore
<1>4. letters' = letters + 1 => Price' = Price + k
  BY <1>1, <1>2, OneMore
<1> QED
  BY <1>2, <1>3, <1>4 DEF k

LEMMA LettersEarnedStep ==
  ASSUME OneAtATime, IInv, [Next]_vars, LettersEarned
  PROVE  LettersEarned'
<1>t. /\ TypeOK /\ TypeOK'
      /\ pc \in [Runs -> Places] /\ attempt \in [Runs -> 1..Retries]
      /\ faults \in Nat /\ faults' \in Nat /\ Retries \in Nat /\ Retries >= 1
  BY TypeStep, DeliveryAssumption DEF IInv, TypeOK, Places
<1>p. poison' = poison
  BY DEF Next, Handle, Deliver, Start, Check, Select, Write, WriteEvent,
         CommitTransaction, CommitUnheard, StatementFails, SendLetter, LetterFails,
         Return, Restart, vars
<1> SUFFICES ASSUME ~poison, ~poison' PROVE LettersEarned'
  BY <1>p DEF LettersEarned
<1>c. /\ Price \in Nat /\ Price' \in Nat
      /\ letters' = letters => Price' = Price
      /\ letters' = letters + 1 => Price' = Price + (Retries + 1)
  BY <1>t, PriceFacts
<1>f. Fault => faults' = faults + 1
  BY DEF Fault
<1>e. Price <= 1 + faults
  BY DEF LettersEarned
<1>o. \A q, r \in Runs : q = r
  BY DEF OneAtATime
\* Inside of an attempt, or at its end.
<1>q. ASSUME NEW r \in Runs, NEW place \in Places \ {"letter", "idle"}, Goto(r, place),
             UNCHANGED <<attempt, letters, faults>>,
             pc[r] \notin {"idle", "letter", "return"}
      PROVE  LettersEarned'
  <2>1. \A q \in Runs : pc'[q] = place
    BY <1>q, <1>t, GotoOnly
  <2>2. Price' <= 1 + faults' /\ Price + attempt[r] <= 1 + faults
    BY <1>q, <1>c, <1>e DEF LettersEarned
  <2>3. \A q \in Runs : Price' + attempt'[q] <= 1 + faults'
    BY <1>q, <1>c, <1>o, <2>2
  <2> QED BY <1>q, <2>1, <2>2, <2>3 DEF LettersEarned
\* Between two deliveries.
<1>i. ASSUME NEW r \in Runs, Goto(r, "idle"), Price' <= 1 + faults',
             acked' \/ Price' <= faults'
      PROVE  LettersEarned'
  <2>1. \A q \in Runs : pc'[q] = "idle"
    BY <1>i, <1>t, GotoOnly
  <2> QED BY <1>i, <2>1 DEF LettersEarned
\* A failure.
<1>th. ASSUME NEW r \in Runs, Throw(r), Fault, letters' = letters,
              pc[r] \notin {"idle", "letter", "return"}
       PROVE  LettersEarned'
  <2>1. attempt[r] \in 1..Retries /\ Price + attempt[r] <= 1 + faults /\ Price' = Price
    BY <1>th, <1>t, <1>c DEF LettersEarned
  <2>2. faults' = faults + 1
    BY <1>th, <1>f
  <2>3. Price' <= 1 + faults'
    BY <2>1, <2>2, <1>c, <1>e, <1>t
  <2>4. CASE attempt[r] < Retries /\ Goto(r, "start")
             /\ attempt' = [attempt EXCEPT ![r] = @ + 1]
    <3>1. pc'[r] = "start" /\ attempt'[r] = attempt[r] + 1
      BY <2>4, <1>t DEF Goto
    <3>2. Price' + attempt'[r] <= 1 + faults'
      BY <2>1, <2>2, <3>1, <1>c, <1>t
    <3>3. \A q \in Runs : pc'[q] = "start" /\ Price' + attempt'[q] <= 1 + faults'
      BY <3>1, <3>2, <1>o
    <3> QED BY <2>3, <3>3 DEF LettersEarned
  <2>5. CASE attempt[r] >= Retries /\ Goto(r, "letter") /\ attempt' = attempt
    <3>1. Price' + Retries <= faults'
      BY <2>1, <2>2, <2>5, <1>c, <1>t
    <3>2. \A q \in Runs : pc'[q] = "letter"
      BY <2>5, <1>t, GotoOnly
    <3> QED BY <2>3, <3>1, <3>2 DEF LettersEarned
  <2> QED BY <1>th, <2>4, <2>5 DEF Throw
<1>1. ASSUME NEW r \in Runs, Deliver(r) PROVE LettersEarned'
  <2>1. \A q \in Runs : pc'[q] = "start"
    BY <1>1, <1>t, GotoOnly DEF Deliver
  <2>2. attempt'[r] = 1 /\ Price' = Price /\ faults' = faults /\ Price <= faults
    BY <1>1, <1>t, <1>c DEF Deliver, LettersEarned
  <2>3. Price' <= 1 + faults' /\ Price' + attempt'[r] <= 1 + faults'
    BY <2>2, <1>t, <1>c
  <2>4. \A q \in Runs : Price' + attempt'[q] <= 1 + faults'
    BY <2>3, <1>o
  <2> QED BY <2>1, <2>3, <2>4 DEF LettersEarned
<1>2. ASSUME NEW r \in Runs, Start(r) PROVE LettersEarned'
  BY <1>2, <1>q DEF Start, Places, Statements
<1>3. ASSUME NEW r \in Runs, Check(r) PROVE LettersEarned'
  BY <1>3, <1>q DEF Check, Places, Statements
<1>4. ASSUME NEW r \in Runs, Select(r) PROVE LettersEarned'
  BY <1>4, <1>q DEF Select, Places, Statements
\* One run cannot meet the key of another one's payment: a write that throws has
\* failed.
<1>5. ASSUME NEW r \in Runs, Write(r) PROVE LettersEarned'
  <2>1. ~row
    BY <1>5 DEF IInv, RunUncharged, Write
  <2> QED BY <1>5, <2>1, <1>q DEF Write, Places, Statements
<1>6. ASSUME NEW r \in Runs, WriteEvent(r) PROVE LettersEarned'
  BY <1>6, <1>q DEF WriteEvent, Places, Statements
<1>7. ASSUME NEW r \in Runs, CommitTransaction(r) PROVE LettersEarned'
  BY <1>7, <1>q DEF CommitTransaction, Places, Statements
<1>8. ASSUME NEW r \in Runs, CommitUnheard(r) PROVE LettersEarned'
  BY <1>8, <1>th DEF CommitUnheard
<1>9. ASSUME NEW r \in Runs, StatementFails(r) PROVE LettersEarned'
  BY <1>9, <1>th DEF StatementFails, Statements
<1>10. ASSUME NEW r \in Runs, SendLetter(r) PROVE LettersEarned'
  <2>1. \A q \in Runs : pc'[q] = "return"
    BY <1>10, <1>t, GotoOnly DEF SendLetter
  <2>2. Price + Retries <= faults /\ Price' = Price + (Retries + 1) /\ faults' = faults
    BY <1>10, <1>c DEF SendLetter, LettersEarned
  <2>3. Price' <= 1 + faults'
    BY <2>2, <1>c, <1>t
  <2> QED BY <2>1, <2>3 DEF LettersEarned
<1>11. ASSUME NEW r \in Runs, LetterFails(r) PROVE LettersEarned'
  <2>1. Price + Retries <= faults /\ faults' = faults + 1
    BY <1>11, <1>f DEF LetterFails, LettersEarned
  <2>2. Price' = Price \/ Price' = Price + (Retries + 1)
    BY <1>11, <1>c DEF LetterFails
  <2>3. Price' <= faults' /\ Price' <= 1 + faults'
    BY <2>1, <2>2, <1>c, <1>t
  <2> QED BY <1>11, <2>3, <1>i DEF LetterFails
<1>12. ASSUME NEW r \in Runs, Return(r) PROVE LettersEarned'
  BY <1>12, <1>i, <1>c, <1>e DEF Return
<1>13. ASSUME NEW r \in Runs, Restart(r) PROVE LettersEarned'
  <2>1. faults' = faults + 1 /\ Price' = Price
    BY <1>13, <1>f, <1>c DEF Restart
  <2>2. Price' <= faults' /\ Price' <= 1 + faults'
    BY <2>1, <1>e, <1>c, <1>t
  <2> QED BY <1>13, <2>2, <1>i DEF Restart
<1>14. CASE UNCHANGED vars
  BY <1>14, <1>c DEF vars, LettersEarned
<1> QED
  BY <1>1, <1>2, <1>3, <1>4, <1>5, <1>6, <1>7, <1>8, <1>9, <1>10, <1>11, <1>12,
     <1>13, <1>14 DEF Next, Handle

\* A message that one run at a time handles is dead-lettered at most once more
\* than faults happened; one that can be processed has every letter preceded by as
\* many failures as there are attempts, and by a fault that had it delivered again
\* if it is not the first (processWithDlq counts from 1 and returns once its letter
\* is sent).
THEOREM LettersAreFew == OneAtATime => (Spec => []LettersNeedFaults)
<1> SUFFICES ASSUME OneAtATime PROVE Spec => []LettersNeedFaults
  OBVIOUS
<1>1. Init => LettersEarned
  <2> SUFFICES ASSUME Init PROVE LettersEarned
    OBVIOUS
  <2>1. Price = 0 /\ faults = 0
    BY DeliveryAssumption DEF Init, Price
  <2> QED BY <2>1 DEF Init, LettersEarned
<1>2. IInv /\ LettersEarned /\ [Next]_vars => LettersEarned'
  BY LettersEarnedStep
<1>3. IInv /\ LettersEarned => LettersNeedFaults
  BY DEF IInv, LettersFew, LettersEarned, Price, LettersNeedFaults
<1> QED
  BY <1>1, <1>2, <1>3, Invariance, PTL DEF Spec

-----------------------------------------------------------------------------
(* The contract of a delivery. *)

LEMMA ContractStep ==
  ASSUME OneAtATime, IInv, IInv', [Next]_vars
  PROVE  [Contract!Next]_<<events, letters, acked>>
<1>t. TypeOK /\ ChargedOnce
  BY DEF IInv
<1>r. \A r \in Runs : pc[r] # "idle" => ~acked
  BY DEF IInv, DoneWithResult
<1>1. ASSUME NEW r \in Runs, pc[r] = "commit", Committed, UNCHANGED <<letters, acked>>
      PROVE  Contract!Charge
  <2>1. events = 0 /\ events' = 1
    BY <1>1, <1>t DEF IInv, RunUncharged, ChargedOnce, Committed
  <2> QED BY <1>1, <2>1 DEF Contract!Charge
<1>2. ASSUME NEW r \in Runs, pc[r] = "letter", letters' = letters + 1,
             UNCHANGED <<events, acked>>
      PROVE  Contract!DeadLetter
  BY <1>2, <1>r DEF Contract!DeadLetter
<1>3. ASSUME NEW r \in Runs, Return(r)
      PROVE  Contract!Acknowledge
  <2>1. row \/ letters > 0
    BY <1>3 DEF Return, IInv, DoneWithResult
  <2>2. events = 1 \/ letters > 0
    BY <2>1, <1>t DEF ChargedOnce
  <2> QED BY <1>3, <2>2 DEF Return, Contract!Acknowledge
<1>4. CASE UNCHANGED <<events, letters, acked>>
  BY <1>4
<1>5. CASE ~ UNCHANGED <<events, letters, acked>>
  <2>1. PICK r \in Runs : \/ Handle(r) \/ CommitUnheard(r) \/ StatementFails(r)
                          \/ LetterFails(r) \/ Restart(r)
    BY <1>5 DEF Next, vars
  <2>2. \/ CommitTransaction(r) \/ CommitUnheard(r) \/ SendLetter(r)
        \/ LetterFails(r) \/ Return(r)
    BY <1>5, <2>1 DEF Handle, Deliver, Start, Check, Select, Write, WriteEvent,
                      StatementFails, Restart
  <2>3. CASE CommitTransaction(r) \/ CommitUnheard(r)
    BY <2>3, <1>1 DEF CommitTransaction, CommitUnheard, Contract!Next
  <2>4. CASE SendLetter(r)
    BY <2>4, <1>2 DEF SendLetter, Contract!Next
  <2>5. CASE LetterFails(r)
    <3>1. letters' = letters + 1 /\ UNCHANGED <<events, acked>>
      BY <1>5, <2>5 DEF LetterFails
    <3> QED BY <2>5, <3>1, <1>2 DEF LetterFails, Contract!Next
  <2>6. CASE Return(r)
    BY <2>6, <1>3 DEF Contract!Next
  <2> QED BY <2>2, <2>3, <2>4, <2>5, <2>6
<1> QED
  BY <1>4, <1>5

\* With one run at a time the retried handler implements its contract: the
\* order is charged at most once, and the message is acknowledged only when it
\* was charged or dead-lettered.
THEOREM DeliveryImplementsContract == OneAtATime => (Spec => ImplementsContract)
<1> SUFFICES ASSUME OneAtATime PROVE Spec => ImplementsContract
  OBVIOUS
<1>1. Init => Contract!Init
  BY DEF Init, Contract!Init
<1>2. IInv /\ IInv' /\ [Next]_vars => [Contract!Next]_<<events, letters, acked>>
  BY ContractStep
<1> QED
  BY <1>1, <1>2, Invariance, PTL DEF Spec, ImplementsContract, Contract!Spec

-----------------------------------------------------------------------------
(* Any number of runs at a time. *)

\* What a dead letter is sent for.
Explained == poison \/ row \/ Retries <= faults

\* Where a run is says what its transaction holds, and what it has seen of the
\* payment row is still so.
RunFits(r) ==
    /\ pc[r] \in {"event", "commit"} <=> wrote[r] # "nothing"
    /\ wrote[r] = "insert" => ~row
    /\ wrote[r] = "update" => row
    /\ seen[r] => row
    /\ poison => pc[r] \in {"idle", "start", "letter", "return"}
    /\ pc[r] = "return" => row \/ letters > 0
    /\ pc[r] # "idle" => poison \/ row \/ attempt[r] <= 1 + faults
    /\ pc[r] = "letter" => Explained

OneWriter ==
    \A q, r \in Runs : wrote[q] # "nothing" /\ wrote[r] # "nothing" => q = r

Outcomes ==
    /\ events > 0 <=> row
    /\ poison => ~row
    /\ acked => row \/ letters > 0
    /\ letters > 0 => Explained

RunsInv ==
    /\ TypeOK
    /\ \A r \in Runs : RunFits(r)
    /\ OneWriter
    /\ Outcomes

\* A step of run r is none of another run's business, unless it writes the row:
\* then the others hold no transaction.
LEMMA OtherRuns ==
  ASSUME RunsInv, TypeOK', NEW r \in Runs, NEW q \in Runs, q # r,
         pc'[q] = pc[q], attempt'[q] = attempt[q], seen'[q] = seen[q], wrote'[q] = wrote[q],
         poison' = poison, row => row', row' = row \/ wrote[r] # "nothing",
         letters' >= letters, faults' >= faults
  PROVE  RunFits(q)'
<1>1. /\ faults \in Nat /\ faults' \in Nat /\ letters \in Nat /\ letters' \in Nat
      /\ attempt[q] \in Nat /\ Retries \in Nat /\ row \in BOOLEAN /\ row' \in BOOLEAN
      /\ poison \in BOOLEAN
  BY DeliveryAssumption DEF RunsInv, TypeOK
<1>2. RunFits(q)
  BY DEF RunsInv
<1>3. wrote'[q] = "insert" => ~row'
  <2>1. CASE row' = row
    BY <1>2, <2>1 DEF RunFits
  <2>2. CASE wrote[r] # "nothing"
    <3>1. wrote[q] = "nothing"
      BY <2>2 DEF RunsInv, OneWriter
    <3> QED BY <3>1
  <2> QED BY <2>1, <2>2
<1>4. /\ pc'[q] \in {"event", "commit"} <=> wrote'[q] # "nothing"
      /\ wrote'[q] = "update" => row'
      /\ seen'[q] => row'
      /\ poison' => pc'[q] \in {"idle", "start", "letter", "return"}
  BY <1>2, Zenon DEF RunFits
<1>5. pc'[q] = "return" => row' \/ letters' > 0
  BY <1>1, <1>2 DEF RunFits
<1>6. pc'[q] # "idle" => poison' \/ row' \/ attempt'[q] <= 1 + faults'
  BY <1>1, <1>2 DEF RunFits
<1>7. pc'[q] = "letter" => Explained'
  BY <1>1, <1>2 DEF RunFits, Explained
<1> QED
  BY <1>3, <1>4, <1>5, <1>6, <1>7 DEF RunFits

\* A step of run r that leaves the row and its event alone, and moves to a place
\* where it holds no transaction.
LEMMA IdleStep ==
  ASSUME RunsInv, TypeOK', NEW r \in Runs,
         NEW place \in {"idle", "start", "check", "select", "letter", "return"},
         pc' = [pc EXCEPT ![r] = place], wrote' = [wrote EXCEPT ![r] = "nothing"],
         \A q \in Runs : q # r => attempt'[q] = attempt[q] /\ seen'[q] = seen[q],
         UNCHANGED <<poison, row, events>>,
         seen'[r] => row,
         poison => place \in {"idle", "start", "letter", "return"},
         letters' >= letters, faults' >= faults,
         letters' > letters => Explained,
         acked' => acked \/ row \/ letters' > 0,
         place = "return" => row \/ letters' > 0,
         place # "idle" => poison \/ row \/ attempt'[r] <= 1 + faults',
         place = "letter" => Explained'
  PROVE  RunsInv'
<1>1. /\ faults \in Nat /\ faults' \in Nat /\ letters \in Nat /\ letters' \in Nat
      /\ Retries \in Nat
      /\ pc \in [Runs -> Places] /\ wrote \in [Runs -> {"nothing", "insert", "update"}]
  BY DeliveryAssumption DEF RunsInv, TypeOK, Places
<1>2. \A q \in Runs : q # r => pc'[q] = pc[q] /\ wrote'[q] = wrote[q]
  BY <1>1
<1>3. \A q \in Runs : q # r => RunFits(q)'
  BY <1>2, OtherRuns
<1>4. pc'[r] = place /\ wrote'[r] = "nothing"
  BY <1>1
<1>5. RunFits(r)'
  BY <1>4 DEF RunFits
<1>6. OneWriter'
  BY <1>2, <1>4 DEF RunsInv, OneWriter
<1>7. Explained => Explained'
  BY <1>1 DEF Explained
<1>8. Outcomes'
  <2>1. (events' > 0 <=> row') /\ (poison' => ~row')
    BY DEF RunsInv, Outcomes
  <2>2. acked' => row' \/ letters' > 0
    BY <1>1 DEF RunsInv, Outcomes
  <2>3. letters' > 0 => Explained'
    BY <1>1, <1>7 DEF RunsInv, Outcomes
  <2> QED BY <2>1, <2>2, <2>3 DEF Outcomes
<1> QED
  BY <1>3, <1>5, <1>6, <1>8 DEF RunsInv

\* An attempt throws for a fault, or for a payment that is there, or because the
\* order is poison.
LEMMA ThrowStep ==
  ASSUME RunsInv, TypeOK', NEW r \in Runs, Throw(r), pc[r] # "idle",
         UNCHANGED <<poison, row, events, letters, acked>>,
         \/ faults' = faults + 1
         \/ faults' = faults /\ (poison \/ row)
  PROVE  RunsInv'
<1>1. /\ faults \in Nat /\ faults' \in Nat /\ letters \in Nat /\ Retries \in Nat
      /\ attempt \in [Runs -> 1..Retries] /\ seen \in [Runs -> BOOLEAN]
      /\ attempt[r] \in Nat /\ faults' >= faults
  BY DeliveryAssumption DEF RunsInv, TypeOK
<1>2. poison \/ row \/ (attempt[r] <= 1 + faults /\ faults' = faults + 1)
  BY DEF RunsInv, RunFits
<1>3. /\ wrote' = [wrote EXCEPT ![r] = "nothing"]
      /\ seen' = [seen EXCEPT ![r] = FALSE]
      /\ \A q \in Runs : q # r => attempt'[q] = attempt[q]
  BY <1>1 DEF Throw
<1>4. seen'[r] = FALSE /\ \A q \in Runs : q # r => seen'[q] = seen[q]
  BY <1>1, <1>3
<1>l. letters' >= letters /\ ~ (letters' > letters)
  BY <1>1
<1>i. ASSUME NEW place \in {"start", "letter"}, Goto(r, place),
             poison \/ row \/ attempt'[r] <= 1 + faults',
             place = "letter" => Explained'
      PROVE  RunsInv'
  <2>1. pc' = [pc EXCEPT ![r] = place]
    BY <1>i DEF Goto
  <2>2. place \in {"idle", "start", "check", "select", "letter", "return"}
        /\ place \in {"idle", "start", "letter", "return"} /\ place # "return"
    BY <1>i
  <2> QED BY <1>1, <1>3, <1>4, <1>l, <1>i, <2>1, <2>2, IdleStep
<1>5. CASE /\ Goto(r, "start") /\ attempt' = [attempt EXCEPT ![r] = @ + 1]
  <2>1. attempt'[r] = attempt[r] + 1
    BY <1>1, <1>5
  <2>2. poison \/ row \/ attempt'[r] <= 1 + faults'
    BY <1>1, <1>2, <2>1
  <2> QED BY <1>5, <2>2, <1>i
<1>6. CASE attempt[r] >= Retries /\ Goto(r, "letter") /\ UNCHANGED attempt
  <2>1. poison \/ row \/ attempt'[r] <= 1 + faults'
    BY <1>1, <1>2, <1>6
  <2>2. Explained'
    BY <1>1, <1>2, <1>6 DEF Explained
  <2> QED BY <1>6, <2>1, <2>2, <1>i
<1> QED
  BY <1>5, <1>6 DEF Throw

\* A statement of an open transaction: only the place of the run moves, and what
\* its transaction did to the row.
LEMMA StatementStep ==
  ASSUME RunsInv, TypeOK', NEW r \in Runs, pc[r] # "idle",
         NEW place \in {"check", "select", "write", "event", "commit"}, Goto(r, place),
         ~poison,
         \A q \in Runs : q # r => wrote'[q] = wrote[q] /\ seen'[q] = seen[q],
         seen'[r] => row,
         place \in {"event", "commit"} <=> wrote'[r] # "nothing",
         wrote'[r] = "insert" => ~row,
         wrote'[r] = "update" => row,
         wrote'[r] # "nothing" => ~Locked(r),
         UNCHANGED <<poison, row, events, letters, acked, attempt, faults>>
  PROVE  RunsInv'
<1>1. /\ faults \in Nat /\ letters \in Nat
      /\ pc \in [Runs -> Places]
  BY DeliveryAssumption DEF RunsInv, TypeOK, Places
<1>2. pc'[r] = place /\ \A q \in Runs : q # r => pc'[q] = pc[q]
  BY <1>1 DEF Goto
<1>3. \A q \in Runs : q # r => RunFits(q)'
  BY <1>1, <1>2, OtherRuns
<1>4. RunFits(r)'
  <2>1. row \/ attempt[r] <= 1 + faults
    BY DEF RunsInv, RunFits
  <2> QED BY <1>2, <2>1 DEF RunFits
<1>5. OneWriter'
  BY DEF RunsInv, OneWriter, Locked
<1>6. Outcomes'
  BY DEF RunsInv, Outcomes, Explained
<1> QED
  BY <1>3, <1>4, <1>5, <1>6 DEF RunsInv

\* The writer's transaction commits: the payment is there, with its event.
LEMMA CommitStep ==
  ASSUME RunsInv, TypeOK', NEW r \in Runs, pc[r] = "commit", Committed,
         NEW place \in {"start", "letter", "return"}, Goto(r, place),
         wrote' = [wrote EXCEPT ![r] = "nothing"],
         \A q \in Runs : q # r => attempt'[q] = attempt[q] /\ seen'[q] = seen[q],
         UNCHANGED <<poison, letters, acked>>, faults' >= faults
  PROVE  RunsInv'
<1>1. /\ faults \in Nat /\ letters \in Nat /\ events \in Nat /\ Retries \in Nat
      /\ pc \in [Runs -> Places] /\ wrote \in [Runs -> {"nothing", "insert", "update"}]
  BY DeliveryAssumption DEF RunsInv, TypeOK, Places
<1>2. pc'[r] = place /\ \A q \in Runs : q # r => pc'[q] = pc[q]
  BY <1>1 DEF Goto
<1>3. wrote'[r] = "nothing" /\ \A q \in Runs : q # r => wrote'[q] = wrote[q]
  BY <1>1
<1>4. wrote[r] # "nothing" /\ ~poison
  BY DEF RunsInv, RunFits
<1>5. row' = TRUE /\ events' > 0
  BY <1>1 DEF Committed
<1>l. letters' >= letters /\ poison' = poison
  BY <1>1
<1>6. \A q \in Runs : q # r => RunFits(q)'
  BY <1>2, <1>3, <1>4, <1>5, <1>l, OtherRuns
<1>7. RunFits(r)'
  BY <1>2, <1>3, <1>4, <1>5 DEF RunFits, Explained
<1>8. OneWriter'
  BY <1>3 DEF RunsInv, OneWriter
<1>9. Outcomes'
  BY <1>4, <1>5 DEF Outcomes, Explained
<1> QED
  BY <1>6, <1>7, <1>8, <1>9 DEF RunsInv

LEMMA RunsStep == RunsInv /\ [Next]_vars => RunsInv'
<1> SUFFICES ASSUME RunsInv, [Next]_vars PROVE RunsInv'
  OBVIOUS
<1>t. /\ TypeOK /\ TypeOK'
      /\ faults \in Nat /\ letters \in Nat /\ Retries \in Nat /\ Retries >= 1
      /\ wrote \in [Runs -> {"nothing", "insert", "update"}]
      /\ seen \in [Runs -> BOOLEAN] /\ attempt \in [Runs -> 1..Retries]
  BY TypeStep, DeliveryAssumption DEF RunsInv, TypeOK
<1>f. Fault => faults' = faults + 1 /\ faults' >= faults
  BY <1>t DEF Fault
<1>e. /\ letters' = letters => letters' >= letters /\ ~ (letters' > letters)
      /\ faults' = faults => faults' >= faults
  BY <1>t
<1>r. ASSUME NEW r \in Runs PROVE RunFits(r)
  BY DEF RunsInv
\* A run outside of a transaction holds nothing.
<1>n. ASSUME NEW r \in Runs, pc[r] \notin {"event", "commit"}
      PROVE  wrote = [wrote EXCEPT ![r] = "nothing"]
  <2>1. wrote[r] = "nothing"
    BY <1>n, <1>r DEF RunFits
  <2> QED BY <2>1, <1>t
<1>1. ASSUME NEW r \in Runs, Deliver(r) PROVE RunsInv'
  <2>1. attempt'[r] = 1 /\ \A q \in Runs : q # r => attempt'[q] = attempt[q]
    BY <1>1, <1>t DEF Deliver
  <2>2. pc' = [pc EXCEPT ![r] = "start"] /\ wrote' = [wrote EXCEPT ![r] = "nothing"]
    BY <1>1, <1>n DEF Deliver, Goto
  <2>3. seen'[r] => row
    BY <1>1, <1>r DEF Deliver, RunFits
  <2>4. 1 <= 1 + faults
    BY <1>t
  <2> QED BY <1>1, <1>t, <2>1, <2>2, <2>3, <2>4, <1>e, IdleStep DEF Deliver
<1>2. ASSUME NEW r \in Runs, Start(r) PROVE RunsInv'
  <2>1. CASE poison /\ Throw(r)
    BY <1>2, <1>t, <2>1, ThrowStep DEF Start
  <2>2. CASE ~poison /\ Goto(r, "check") /\ UNCHANGED <<attempt, seen, wrote>>
    <3>1. wrote'[r] = "nothing" /\ (seen'[r] => row)
      BY <1>2, <1>r, <2>2 DEF Start, RunFits
    <3> QED BY <1>2, <1>t, <2>2, <3>1, StatementStep DEF Start
  <2> QED BY <1>2, <2>1, <2>2 DEF Start
<1>3. ASSUME NEW r \in Runs, Check(r) PROVE RunsInv'
  <2>1. ~poison /\ (seen[r] => row) /\ wrote[r] = "nothing"
        /\ (row \/ attempt[r] <= 1 + faults)
    BY <1>3, <1>r DEF Check, RunFits
  <2>2. CASE row /\ Goto(r, "return")
    <3>1. pc' = [pc EXCEPT ![r] = "return"] /\ wrote' = [wrote EXCEPT ![r] = "nothing"]
      BY <1>3, <1>n, <2>2 DEF Check, Goto
    <3> QED BY <1>3, <1>t, <2>1, <2>2, <3>1, <1>e, IdleStep DEF Check
  <2>3. CASE Goto(r, "select")
    BY <1>3, <1>t, <2>1, <2>3, StatementStep DEF Check
  <2> QED BY <1>3, <2>2, <2>3 DEF Check
<1>4. ASSUME NEW r \in Runs, Select(r) PROVE RunsInv'
  <2>1. ~poison /\ wrote[r] = "nothing"
    BY <1>4, <1>r DEF Select, RunFits
  <2>2. seen'[r] = row /\ \A q \in Runs : q # r => seen'[q] = seen[q]
    BY <1>4, <1>t DEF Select
  <2> QED BY <1>4, <1>t, <2>1, <2>2, StatementStep DEF Select
<1>5. ASSUME NEW r \in Runs, Write(r) PROVE RunsInv'
  <2>1. ~poison /\ (seen[r] => row)
    BY <1>5, <1>r DEF Write, RunFits
  <2>2. CASE seen[r] /\ wrote' = [wrote EXCEPT ![r] = "update"] /\ Goto(r, "event")
             /\ UNCHANGED <<attempt, seen>>
    <3>1. wrote'[r] = "update" /\ \A q \in Runs : q # r => wrote'[q] = wrote[q]
      BY <1>t, <2>2
    <3> QED BY <1>5, <1>t, <2>1, <2>2, <3>1, StatementStep DEF Write
  <2>3. CASE ~row /\ wrote' = [wrote EXCEPT ![r] = "insert"] /\ Goto(r, "event")
             /\ UNCHANGED <<attempt, seen>>
    <3>1. wrote'[r] = "insert" /\ \A q \in Runs : q # r => wrote'[q] = wrote[q]
      BY <1>t, <2>3
    <3> QED BY <1>5, <1>t, <2>1, <2>3, <3>1, StatementStep DEF Write
  <2>4. CASE row /\ Throw(r)
    BY <1>5, <1>t, <2>4, ThrowStep DEF Write
  <2> QED BY <1>5, <2>2, <2>3, <2>4 DEF Write
<1>6. ASSUME NEW r \in Runs, WriteEvent(r) PROVE RunsInv'
  <2>1. /\ ~poison /\ (seen[r] => row) /\ wrote[r] # "nothing"
        /\ (wrote[r] = "insert" => ~row) /\ (wrote[r] = "update" => row)
    BY <1>6, <1>r DEF WriteEvent, RunFits
  <2>2. ~Locked(r)
    BY <2>1 DEF Locked, RunsInv, OneWriter
  <2>3. /\ Goto(r, "commit") /\ pc[r] # "idle"
        /\ UNCHANGED <<poison, row, events, letters, acked, attempt, seen, wrote, faults>>
    BY <1>6 DEF WriteEvent
  <2>4. "commit" \in {"check", "select", "write", "event", "commit"}
        /\ "commit" \in {"event", "commit"}
    OBVIOUS
  <2> QED BY <1>t, <2>1, <2>2, <2>3, <2>4, StatementStep
<1>7. ASSUME NEW r \in Runs, CommitTransaction(r) PROVE RunsInv'
  BY <1>7, <1>t, <1>e, CommitStep DEF CommitTransaction
<1>8. ASSUME NEW r \in Runs, CommitUnheard(r) PROVE RunsInv'
  <2>1. PICK place \in {"start", "letter"} : Goto(r, place)
    BY <1>8 DEF CommitUnheard, Throw
  <2>2. /\ wrote' = [wrote EXCEPT ![r] = "nothing"]
        /\ \A q \in Runs : q # r => attempt'[q] = attempt[q] /\ seen'[q] = seen[q]
    BY <1>8, <1>t DEF CommitUnheard, Throw
  <2> QED BY <1>8, <1>t, <1>f, <2>1, <2>2, CommitStep DEF CommitUnheard
<1>9. ASSUME NEW r \in Runs, StatementFails(r) PROVE RunsInv'
  BY <1>9, <1>t, <1>f, ThrowStep DEF StatementFails, Statements
<1>10. ASSUME NEW r \in Runs, NEW place \in {"return", "idle"}, pc[r] = "letter",
              Goto(r, place), letters' \in {letters, letters + 1},
              place = "return" => letters' = letters + 1, faults' >= faults,
              UNCHANGED <<poison, row, events, acked, attempt, seen, wrote>>
       PROVE  RunsInv'
  <2>1. /\ Explained /\ (seen[r] => row)
        /\ (poison \/ row \/ attempt[r] <= 1 + faults)
    BY <1>10, <1>r DEF RunFits
  <2>2. pc' = [pc EXCEPT ![r] = place] /\ wrote' = [wrote EXCEPT ![r] = "nothing"]
    BY <1>10, <1>n DEF Goto
  <2>3. /\ letters' \in Nat /\ letters' >= letters /\ (letters' = letters + 1 => letters' > 0)
        /\ faults' \in Nat
    BY <1>10, <1>t DEF TypeOK
  <2>4. poison \/ row \/ attempt'[r] <= 1 + faults'
    <3>1. attempt[r] \in Nat
      BY <1>t
    <3> QED BY <1>10, <1>t, <2>1, <2>3, <3>1
  <2> QED BY <1>10, <1>t, <2>1, <2>2, <2>3, <2>4, IdleStep
<1>11. ASSUME NEW r \in Runs, SendLetter(r) \/ LetterFails(r) PROVE RunsInv'
  BY <1>11, <1>10, <1>t, <1>f DEF SendLetter, LetterFails
<1>12. ASSUME NEW r \in Runs, Return(r) PROVE RunsInv'
  <2>1. (row \/ letters > 0) /\ (seen[r] => row)
    BY <1>12, <1>r DEF Return, RunFits
  <2>2. pc' = [pc EXCEPT ![r] = "idle"] /\ wrote' = [wrote EXCEPT ![r] = "nothing"]
    BY <1>12, <1>n DEF Return, Goto
  <2> QED BY <1>12, <1>t, <2>1, <2>2, <1>e, IdleStep DEF Return
<1>13. ASSUME NEW r \in Runs, Restart(r) PROVE RunsInv'
  <2>1. /\ pc' = [pc EXCEPT ![r] = "idle"] /\ wrote' = [wrote EXCEPT ![r] = "nothing"]
        /\ ~seen'[r] /\ \A q \in Runs : q # r => seen'[q] = seen[q]
    BY <1>13, <1>t DEF Restart, Goto
  <2> QED BY <1>13, <1>t, <1>f, <2>1, <1>e, IdleStep DEF Restart
<1>14. CASE UNCHANGED vars
  BY <1>14, <1>t DEF vars, RunsInv, RunFits, OneWriter, Outcomes, Explained
<1> QED
  BY <1>1, <1>2, <1>3, <1>4, <1>5, <1>6, <1>7, <1>8, <1>9, <1>11, <1>12,
     <1>13, <1>14 DEF Next, Handle

LEMMA RunsInit == Init => RunsInv
<1> SUFFICES ASSUME Init PROVE RunsInv
  OBVIOUS
<1>1. \A r \in Runs : RunFits(r)
  BY DEF Init, RunFits
<1>2. OneWriter
  BY DEF Init, OneWriter
<1>3. Outcomes
  BY DEF Init, Outcomes
<1> QED
  BY <1>1, <1>2, <1>3, TypeInit DEF RunsInv

\* For any number of overlapping runs, the invariant of the transaction and of
\* the retries.
THEOREM RunsInvariance == Spec => []RunsInv
  BY RunsInit, RunsStep, PTL DEF Spec

\* However many runs overlap, a message is done with for a reason.
THEOREM NothingGivenUp == Spec => []DoneForAReason
<1>1. RunsInv => DoneForAReason
  BY DEF RunsInv, TypeOK, Outcomes, Explained, DoneForAReason
<1> QED
  BY <1>1, RunsInvariance, PTL

\* However many runs overlap, the primary key is never violated by a commit.
THEOREM OneWriterAtATime == Spec => []KeyIsRespected
<1>1. RunsInv => KeyIsRespected
  <2> SUFFICES ASSUME RunsInv, NEW r \in Runs, wrote[r] # "nothing"
               PROVE  /\ ~Locked(r)
                      /\ wrote[r] = "insert" <=> ~row
                      /\ pc[r] \in {"event", "commit"}
    BY DEF KeyIsRespected
  <2>1. RunFits(r) /\ wrote[r] \in {"nothing", "insert", "update"}
    BY DEF RunsInv, TypeOK
  <2>2. ~Locked(r)
    BY DEF RunsInv, OneWriter, Locked
  <2> QED BY <2>1, <2>2 DEF RunFits
<1> QED
  BY <1>1, RunsInvariance, PTL

\* With one run at a time the order is charged once, as the comment on the
\* primary key has it; with two that is what fails.
THEOREM ChargedAtMostOnce == OneAtATime => (Spec => []KeyIsBackstop)
<1> SUFFICES ASSUME OneAtATime PROVE Spec => []KeyIsBackstop
  OBVIOUS
<1>1. IInv => KeyIsBackstop
  BY DEF IInv, ChargedOnce, KeyIsBackstop
<1> QED
  BY <1>1, Invariance, PTL
=============================================================================
