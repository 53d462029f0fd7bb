-------------------------- MODULE OutboxRelay_proofs --------------------------
(***************************************************************************)
(* Proofs about OutboxRelay, for any number of overlapping calls, any      *)
(* batch size, and every bound on rows and faults.                         *)
(***************************************************************************)
EXTENDS OutboxRelay, FiniteSetTheorems, TLAPS

(* What a query returns. *)

LEMMA UnmarkedFinite ==
  ASSUME TypeOK
  PROVE  IsFiniteSet(Unmarked) /\ Unmarked \subseteq 1..written
<1>1. IsFiniteSet(1..written)
  BY FS_Interval DEF TypeOK
<1> QED
  BY <1>1, FS_Subset DEF Unmarked, Rows

\* The rows a query returns are unmarked, and it leaves out no older one.
LEMMA OldestIsClosed ==
  ASSUME TypeOK, NEW r \in Oldest, NEW q \in Unmarked, q < r
  PROVE  q \in Oldest
<1> DEFINE Below(x) == {y \in Unmarked : y < x}
<1>1. r \in Nat /\ q \in Nat /\ Unmarked \subseteq Nat
  BY UnmarkedFinite DEF Oldest, TypeOK
<1>2. Below(q) \subseteq Below(r)
  <2> SUFFICES ASSUME NEW y \in Unmarked, y < q PROVE y < r
    OBVIOUS
  <2>1. y \in Nat
    BY <1>1
  <2> QED BY <1>1, <2>1
<1>3. IsFiniteSet(Below(r))
  BY UnmarkedFinite, FS_Subset
<1>4. Cardinality(Below(q)) <= Cardinality(Below(r))
  BY <1>2, <1>3, FS_Subset
<1>5. Cardinality(Below(q)) \in Nat /\ Cardinality(Below(r)) \in Nat
  BY <1>2, <1>3, FS_Subset, FS_CardinalityType
<1>6. Cardinality(Below(r)) < BatchSize
  BY DEF Oldest
<1>7. Cardinality(Below(q)) < BatchSize
  BY <1>4, <1>5, <1>6, RelayAssumption
<1> QED
  BY <1>7 DEF Oldest

-----------------------------------------------------------------------------
(* Type correctness. *)

LEMMA InitType == Init => TypeOK
<1> SUFFICES ASSUME Init PROVE TypeOK
  OBVIOUS
<1>1. written \in 0..MaxRows /\ faults \in 0..MaxFaults
  BY RelayAssumption DEF Init
<1>2. log \in Seq(1..written)
  BY DEF Init
<1> QED
  BY <1>1, <1>2 DEF Init, TypeOK

LEMMA FaultType ==
  ASSUME TypeOK, Fault
  PROVE  faults' \in 0..MaxFaults /\ faults' = faults + 1
  BY RelayAssumption DEF TypeOK, Fault

LEMMA FinishType ==
  ASSUME TypeOK, NEW d \in Drains, Finish(d)
  PROVE  /\ draining' \in BOOLEAN
         /\ pc' \in [Drains -> {"idle", "find", "emit", "save"}]
         /\ pending' \in [Drains -> SUBSET (1..written)]
  BY DEF TypeOK, Finish

LEMMA TypeStep == TypeOK /\ [Next]_vars => TypeOK'
<1> SUFFICES ASSUME TypeOK, [Next]_vars PROVE TypeOK'
  OBVIOUS
<1> USE DEF TypeOK
<1>1. CASE Insert
  <2>1. written' \in 0..MaxRows /\ 1..written \subseteq 1..written'
    BY <1>1, RelayAssumption DEF Insert
  <2>2. log' \in Seq(1..written')
    BY <1>1, <2>1 DEF Insert
  <2>3. pending' \in [Drains -> SUBSET (1..written')]
    BY <1>1, <2>1 DEF Insert
  <2> QED BY <1>1, <2>1, <2>2, <2>3 DEF Insert
<1>2. CASE Restart
  <2>1. faults' \in 0..MaxFaults
    BY <1>2, FaultType DEF Restart
  <2> QED BY <1>2, <2>1 DEF Restart
<1>3. ASSUME NEW d \in Drains, Tick(d) PROVE TypeOK'
  BY <1>3 DEF Tick
<1>4. ASSUME NEW d \in Drains, Find(d) PROVE TypeOK'
  <2>1. CASE Finish(d)
    BY <1>4, <2>1, FinishType DEF Find
  <2>2. CASE ~Finish(d)
    <3>1. Oldest \subseteq 1..written
      BY UnmarkedFinite DEF Oldest
    <3> QED BY <1>4, <2>2, <3>1 DEF Find
  <2> QED BY <2>1, <2>2
<1>5. ASSUME NEW d \in Drains, Emit(d) PROVE TypeOK'
  BY <1>5 DEF Emit, Rows
<1>6. ASSUME NEW d \in Drains, Resend(d) PROVE TypeOK'
  <2>1. faults' \in 0..MaxFaults
    BY <1>6, FaultType DEF Resend
  <2> QED BY <1>6, <2>1 DEF Resend, Rows
<1>7. ASSUME NEW d \in Drains, Save(d) PROVE TypeOK'
  <2>1. marked' \subseteq 1..written /\ UNCHANGED <<written, log, faults>>
    BY <1>7 DEF Save, Rows
  <2>2. CASE Finish(d)
    BY <2>1, <2>2, FinishType
  <2>3. CASE ~Finish(d)
    BY <1>7, <2>1, <2>3 DEF Save
  <2> QED BY <2>2, <2>3
<1>8. ASSUME NEW d \in Drains, SaveUnheard(d) PROVE TypeOK'
  <2>1. marked' \subseteq 1..written /\ faults' \in 0..MaxFaults
    BY <1>8, FaultType DEF SaveUnheard, Rows
  <2> QED BY <1>8, <2>1, FinishType DEF SaveUnheard
<1>9. ASSUME NEW d \in Drains, Fail(d) PROVE TypeOK'
  <2>1. faults' \in 0..MaxFaults
    BY <1>9, FaultType DEF Fail
  <2> QED BY <1>9, <2>1, FinishType DEF Fail
<1>10. CASE UNCHANGED vars
  BY <1>10 DEF vars
<1> QED
  BY <1>1, <1>2, <1>3, <1>4, <1>5, <1>6, <1>7, <1>8, <1>9, <1>10 DEF Next

\* Every reachable state is well typed: only rows that exist are marked or
\* published.
THEOREM TypeCorrect == Spec => []TypeOK
  BY InitType, TypeStep, PTL DEF Spec

-----------------------------------------------------------------------------
(* The row published last. *)

F == Contract!Frontier

LEMMA FrontierType == TypeOK => F \in 0..written
  BY DEF TypeOK, F, Contract!Frontier

LEMMA FrontierSame == UNCHANGED log => F' = F
  BY DEF F, Contract!Frontier

LEMMA FrontierAppend ==
  ASSUME TypeOK, NEW r \in 1..written, log' = Append(log, r)
  PROVE  F' = r /\ Len(log') = Len(log) + 1
  BY DEF TypeOK, F, Contract!Frontier

\* The row a call is at is the oldest unmarked one: the row published last, or
\* the next one if that is marked.
LEMMA CurrentIsNext ==
  ASSUME IInv, NEW d \in Drains, NEW r \in Rows, Current(d, r)
  PROVE  /\ r \notin marked
         /\ \A q \in 1..written : q < r => q \in marked
         /\ \/ r = F
            \/ r = F + 1 /\ (F = 0 \/ F \in marked)
<1>0. F \in 0..written /\ written \in Nat /\ r \in 1..written /\ marked \subseteq 1..written
  BY FrontierType, RelayAssumption DEF IInv, TypeOK, Rows
<1>1. r \in Unmarked
  BY DEF IInv, PendingIsOldest, Current
<1>2. ASSUME NEW q \in 1..written, q < r PROVE q \in marked
  <2> SUFFICES ASSUME q \notin marked PROVE FALSE
    OBVIOUS
  <2>1. q \in pending[d]
    BY <1>2 DEF IInv, PendingIsOldest, Current, Unmarked, Rows
  <2>2. r <= q
    BY <2>1 DEF Current
  <2> QED BY <1>0, <1>2, <2>2
<1>3. r >= F
  BY <1>0, <1>1 DEF IInv, FrontierFollowsMarks, Unmarked, F
<1>4. r <= F + 1
  <2> SUFFICES ASSUME r > F + 1 PROVE FALSE
    BY <1>0
  <2>1. F + 1 \in marked
    BY <1>0, <1>2
  <2> QED BY <1>0, <2>1 DEF IInv, FrontierFollowsMarks, F
<1>5. r = F + 1 => F = 0 \/ F \in marked
  BY <1>0, <1>2
<1> QED
  BY <1>0, <1>1, <1>2, <1>3, <1>4, <1>5 DEF Unmarked

-----------------------------------------------------------------------------
(* The steps. *)

\* No call is under way.
Quiet == \A e \in Drains : pc[e] = "idle" /\ pending[e] = {}

LEMMA FinishIsQuiet ==
  ASSUME IInv, NEW d \in Drains, pc[d] # "idle", Finish(d)
  PROVE  Quiet'
<1>1. \A e \in Drains : e # d => pc[e] = "idle" /\ pending[e] = {}
  BY DEF IInv, OneDrains, PendingIsOldest
<1> QED
  BY <1>1 DEF IInv, TypeOK, Finish, Quiet

\* A call that ends in a failure owes at most one more copy.
LEMMA FailureStep ==
  ASSUME IInv, TypeOK', Quiet', Fault, UNCHANGED <<written, marked, log>>
  PROVE  IInv'
<1>0. F' = F /\ F \in Nat /\ Len(log) \in Nat /\ faults \in Nat
  BY FrontierSame, FrontierType, RelayAssumption DEF IInv, TypeOK
<1>1. OneDrains' /\ PendingIsOldest' /\ \A d \in Drains : pc'[d] # "save"
  BY DEF Quiet, OneDrains, PendingIsOldest
<1>2. MarkedIsPrefix'
  BY DEF IInv, MarkedIsPrefix
<1>3. FrontierFollowsMarks'
  BY <1>0, <1>1 DEF IInv, FrontierFollowsMarks, F
<1>4. faults' = faults + 1
  BY FaultType DEF IInv
<1>5. CopiesExplained'
  BY <1>0, <1>4 DEF IInv, CopiesExplained, F
<1> QED
  BY <1>1, <1>2, <1>3, <1>5 DEF IInv

LEMMA InsertStep ==
  ASSUME IInv, TypeOK', Insert
  PROVE  IInv'
<1>0. F' = F /\ written' = written + 1 /\ UNCHANGED <<marked, log, draining, pc, pending, faults>>
  BY FrontierSame DEF Insert
<1>1. MarkedIsPrefix' /\ OneDrains'
  BY <1>0 DEF IInv, MarkedIsPrefix, OneDrains
<1>2. PendingIsOldest'
  <2>1. Unmarked \subseteq Unmarked'
    BY <1>0 DEF IInv, TypeOK, Unmarked, Rows
  <2>2. ASSUME NEW d \in Drains, NEW r \in pending[d], NEW q \in Unmarked', q < r
        PROVE  q \in pending[d]
    <3>1. q \in Unmarked
      BY <1>0, <2>2 DEF IInv, TypeOK, Unmarked, Rows
    <3> QED BY <2>2, <3>1 DEF IInv, PendingIsOldest
  <2> QED BY <1>0, <2>1, <2>2 DEF IInv, PendingIsOldest
<1>3. FrontierFollowsMarks'
  BY <1>0 DEF IInv, FrontierFollowsMarks, F, Current
<1>4. CopiesExplained'
  BY <1>0 DEF IInv, CopiesExplained, Owing, F
<1> QED
  BY <1>1, <1>2, <1>3, <1>4 DEF IInv

\* A step that moves a call along without publishing or marking anything.
LEMMA CallStep ==
  ASSUME IInv, TypeOK', OneDrains', PendingIsOldest',
         NEW d \in Drains, pc[d] # "save", pc'[d] # "save",
         \A e \in Drains : e # d => pc'[e] = pc[e] /\ pending'[e] = pending[e],
         UNCHANGED <<written, marked, log, faults>>
  PROVE  IInv'
<1>0. F' = F
  BY FrontierSame
<1>1. MarkedIsPrefix'
  BY DEF IInv, MarkedIsPrefix
<1>2. \A e \in Drains : /\ pc'[e] = "save" <=> pc[e] = "save"
                        /\ pc[e] = "save" => pending'[e] = pending[e]
  OBVIOUS
<1>3. FrontierFollowsMarks'
  BY <1>0, <1>2 DEF IInv, FrontierFollowsMarks, F, Current
<1>4. CopiesExplained'
  BY <1>0, <1>2 DEF IInv, CopiesExplained, Owing, F
<1> QED
  BY <1>1, <1>3, <1>4 DEF IInv

LEMMA TickStep ==
  ASSUME IInv, TypeOK', NEW d \in Drains, Tick(d)
  PROVE  IInv'
<1>1. \A e \in Drains : pc[e] = "idle"
  BY DEF Tick, IInv, OneDrains
<1>2. OneDrains' /\ PendingIsOldest'
  BY <1>1 DEF Tick, IInv, TypeOK, OneDrains, PendingIsOldest, Unmarked, Rows
<1> QED
  BY <1>2, CallStep DEF Tick, IInv, TypeOK

LEMMA FindStep ==
  ASSUME IInv, TypeOK', NEW d \in Drains, Find(d)
  PROVE  IInv'
<1>1. CASE Finish(d)
  <2>1. Quiet'
    BY <1>1, FinishIsQuiet DEF Find
  <2>2. OneDrains' /\ PendingIsOldest'
    BY <2>1 DEF Quiet, OneDrains, PendingIsOldest
  <2> QED BY <1>1, <2>2, CallStep DEF Find, Finish, IInv, TypeOK
<1>2. CASE ~Finish(d)
  <2>1. /\ Oldest # {} /\ pending' = [pending EXCEPT ![d] = Oldest]
        /\ pc' = [pc EXCEPT ![d] = "emit"] /\ UNCHANGED draining
        /\ UNCHANGED <<written, marked, log, faults>> /\ pc[d] = "find"
    BY <1>2 DEF Find
  <2>2. OneDrains'
    BY <2>1 DEF IInv, TypeOK, OneDrains
  <2>3. PendingIsOldest'
    <3>1. Oldest \subseteq Unmarked /\ Unmarked' = Unmarked
      BY <2>1 DEF Oldest, Unmarked, Rows
    <3>2. \A r \in Oldest : \A q \in Unmarked : q < r => q \in Oldest
      BY OldestIsClosed DEF IInv
    <3>3. \A e \in Drains : e # d => pc'[e] = pc[e] /\ pending'[e] = pending[e]
      BY <2>1 DEF IInv, TypeOK
    <3>4. pc'[d] = "emit" /\ pending'[d] = Oldest
      BY <2>1 DEF IInv, TypeOK
    <3> QED BY <2>1, <3>1, <3>2, <3>3, <3>4 DEF IInv, PendingIsOldest
  <2> QED BY <2>1, <2>2, <2>3, CallStep DEF IInv, TypeOK
<1> QED BY <1>1, <1>2

LEMMA EmitStep ==
  ASSUME IInv, TypeOK', NEW d \in Drains, Emit(d)
  PROVE  IInv'
<1>1. PICK r \in Rows : Current(d, r) /\ log' = Append(log, r)
  BY DEF Emit
<1>2. F' = r /\ Len(log') = Len(log) + 1 /\ F \in Nat /\ Len(log) \in Nat
      /\ faults \in Nat /\ r \in Nat /\ r # 0 /\ written \in Nat
  BY <1>1, FrontierAppend, FrontierType, RelayAssumption DEF IInv, TypeOK, Rows
<1>3. /\ r \notin marked /\ \A q \in 1..written : q < r => q \in marked
      /\ r = F \/ (r = F + 1 /\ (F = 0 \/ F \in marked))
  BY <1>1, CurrentIsNext
<1>4. \A e \in Drains : e # d => pc[e] = "idle" /\ pc'[e] = "idle"
  BY DEF Emit, IInv, TypeOK, OneDrains
<1>5. pc[d] = "emit" /\ pc'[d] = "save"
  BY DEF Emit, IInv, TypeOK
<1>6. MarkedIsPrefix' /\ OneDrains' /\ PendingIsOldest'
  BY <1>4, <1>5 DEF Emit, IInv, MarkedIsPrefix, OneDrains, PendingIsOldest, Unmarked, Rows
<1>7. FrontierFollowsMarks'
  <2>1. marked \subseteq 1..r
    BY <1>2, <1>3 DEF IInv, FrontierFollowsMarks, F
  <2>2. \A q \in 1..r : q < r => q \in marked
    BY <1>1, <1>2, <1>3 DEF Rows
  <2>3. Current(d, r)'
    BY <1>1 DEF Emit, Current
  <2> QED BY <1>2, <1>4, <2>1, <2>2, <2>3 DEF Emit, FrontierFollowsMarks, F
<1>8. CopiesExplained'
  <2>1. ~ Owing'
    BY <1>5 DEF Owing
  <2>2. r = F => Owing
    BY <1>2, <1>3, <1>4, <1>5 DEF Owing, F
  <2>3. Len(log) + 1 <= r + faults
    BY <1>2, <1>3, <2>2 DEF IInv, CopiesExplained, F
  <2> QED BY <1>2, <2>1, <2>3 DEF Emit, CopiesExplained, F
<1> QED
  BY <1>6, <1>7, <1>8 DEF IInv

LEMMA ResendStep ==
  ASSUME IInv, TypeOK', NEW d \in Drains, Resend(d)
  PROVE  IInv'
<1>1. PICK r \in Rows : Current(d, r) /\ log' = Append(log, r)
  BY DEF Resend
<1>2. F' = r /\ Len(log') = Len(log) + 1 /\ F \in Nat /\ Len(log) \in Nat
      /\ faults \in Nat /\ r \in Nat /\ r # 0 /\ written \in Nat
  BY <1>1, FrontierAppend, FrontierType, RelayAssumption DEF IInv, TypeOK, Rows
<1>3. /\ r \notin marked /\ \A q \in 1..written : q < r => q \in marked
      /\ r = F \/ (r = F + 1 /\ (F = 0 \/ F \in marked))
  BY <1>1, CurrentIsNext
<1>4. \A e \in Drains : pc[e] # "save"
  BY DEF Resend, IInv, OneDrains
<1>5. faults' = faults + 1
  BY FaultType DEF Resend, IInv
<1>6. MarkedIsPrefix' /\ OneDrains' /\ PendingIsOldest'
  BY DEF Resend, IInv, MarkedIsPrefix, OneDrains, PendingIsOldest, Unmarked, Rows
<1>7. FrontierFollowsMarks'
  <2>1. marked \subseteq 1..r
    BY <1>2, <1>3 DEF IInv, FrontierFollowsMarks, F
  <2>2. \A q \in 1..r : q < r => q \in marked
    BY <1>1, <1>2, <1>3 DEF Rows
  <2> QED BY <1>2, <1>4, <2>1, <2>2 DEF Resend, FrontierFollowsMarks, F
<1>8. CopiesExplained'
  <2>1. r = F => Owing
    BY <1>2, <1>3, <1>4 DEF Owing, F
  <2>2. Len(log) + 1 < r + (faults + 1)
    BY <1>2, <1>3, <2>1 DEF IInv, CopiesExplained, F
  <2> QED BY <1>2, <1>5, <2>2 DEF CopiesExplained, F
<1> QED
  BY <1>6, <1>7, <1>8 DEF IInv

\* The row a call marks is the one published last.
LEMMA SavesFrontier ==
  ASSUME IInv, NEW d \in Drains, pc[d] = "save", NEW r \in Rows, Current(d, r)
  PROVE  r = F /\ F \in 1..written /\ \A q \in 1..F : q < F => q \in marked
<1>1. F \in 0..written /\ written \in Nat /\ r \in 1..written
  BY FrontierType, RelayAssumption DEF IInv, TypeOK, Rows
<1>2. Current(d, F) /\ \A q \in 1..F : q < F => q \in marked
  BY DEF IInv, FrontierFollowsMarks, F
<1>3. r = F
  BY <1>1, <1>2 DEF Current
<1> QED
  BY <1>1, <1>2, <1>3

\* Marking the row published last keeps the parts about rows.
LEMMA MarkParts ==
  ASSUME IInv, F \in 1..written, \A q \in 1..F : q < F => q \in marked,
         marked' = marked \union {F}, UNCHANGED <<written, log>>,
         faults' >= faults, faults' \in Nat
  PROVE  /\ MarkedIsPrefix' /\ CopiesExplained' /\ F' = F
         /\ marked' \subseteq 1..F
         /\ \A q \in 1..F : q < F => q \in marked'
<1>0. F' = F /\ F \in Nat /\ Len(log) \in Nat /\ faults \in Nat
      /\ written \in Nat
  BY FrontierSame, FrontierType, RelayAssumption DEF IInv, TypeOK
<1>1. MarkedIsPrefix'
  BY <1>0 DEF IInv, MarkedIsPrefix
<1>2. CopiesExplained'
  BY <1>0 DEF IInv, CopiesExplained, Owing, F
<1>3. marked' \subseteq 1..F
  BY <1>0 DEF IInv, FrontierFollowsMarks, F
<1> QED
  BY <1>0, <1>1, <1>2, <1>3

LEMMA SaveStep ==
  ASSUME IInv, TypeOK', NEW d \in Drains, Save(d)
  PROVE  IInv'
<1>1. PICK r \in Rows :
        /\ Current(d, r) /\ marked' = marked \union {r}
        /\ \/ pending[d] = {r} /\ Finish(d)
           \/ /\ pending[d] # {r} /\ pending' = [pending EXCEPT ![d] = @ \ {r}]
              /\ pc' = [pc EXCEPT ![d] = "emit"] /\ UNCHANGED draining
  BY DEF Save
<1>2. r = F /\ F \in 1..written /\ \A q \in 1..F : q < F => q \in marked
  BY <1>1, SavesFrontier DEF Save
<1>3. /\ MarkedIsPrefix' /\ CopiesExplained' /\ F' = F
      /\ marked' \subseteq 1..F
      /\ \A q \in 1..F : q < F => q \in marked'
  <2>1. faults \in Nat /\ faults' = faults
    BY RelayAssumption DEF Save, IInv, TypeOK
  <2> QED BY <1>1, <1>2, <2>1, MarkParts DEF Save
<1>4. CASE Finish(d)
  <2>1. Quiet'
    BY <1>4, FinishIsQuiet DEF Save
  <2>2. OneDrains' /\ PendingIsOldest' /\ \A e \in Drains : pc'[e] # "save"
    BY <2>1 DEF Quiet, OneDrains, PendingIsOldest
  <2>3. FrontierFollowsMarks'
    BY <1>3, <2>2 DEF FrontierFollowsMarks, F
  <2> QED BY <1>3, <2>2, <2>3 DEF IInv
<1>5. CASE ~Finish(d)
  <2>1. /\ pending[d] # {r} /\ pending' = [pending EXCEPT ![d] = @ \ {r}]
        /\ pc' = [pc EXCEPT ![d] = "emit"] /\ UNCHANGED draining
    BY <1>1, <1>5
  <2>2. /\ pc'[d] = "emit" /\ pending'[d] = pending[d] \ {r} /\ pending'[d] # {}
        /\ \A e \in Drains : e # d =>
             pc'[e] = "idle" /\ pending'[e] = {} /\ pc[e] = "idle"
    BY <1>1, <2>1 DEF Save, IInv, TypeOK, OneDrains, PendingIsOldest, Current
  <2>3. OneDrains'
    BY <2>1, <2>2 DEF Save, IInv, OneDrains
  <2>4. Unmarked' = Unmarked \ {r}
    BY <1>1 DEF Save, Unmarked, Rows
  <2>5. PendingIsOldest'
    BY <2>2, <2>4 DEF IInv, PendingIsOldest
  <2>6. FrontierFollowsMarks'
    BY <1>3, <2>2 DEF FrontierFollowsMarks, F
  <2> QED BY <1>3, <2>3, <2>5, <2>6 DEF IInv
<1> QED
  BY <1>4, <1>5

LEMMA SaveUnheardStep ==
  ASSUME IInv, TypeOK', NEW d \in Drains, SaveUnheard(d)
  PROVE  IInv'
<1>1. PICK r \in Rows : Current(d, r) /\ marked' = marked \union {r}
  BY DEF SaveUnheard
<1>2. r = F /\ F \in 1..written /\ \A q \in 1..F : q < F => q \in marked
  BY <1>1, SavesFrontier DEF SaveUnheard
<1>3. /\ MarkedIsPrefix' /\ CopiesExplained' /\ F' = F
      /\ marked' \subseteq 1..F
      /\ \A q \in 1..F : q < F => q \in marked'
  <2>1. faults \in Nat /\ faults' = faults + 1
    BY FaultType, RelayAssumption DEF SaveUnheard, IInv, TypeOK
  <2> QED BY <1>1, <1>2, <2>1, MarkParts DEF SaveUnheard
<1>4. Quiet'
  BY FinishIsQuiet DEF SaveUnheard
<1>5. OneDrains' /\ PendingIsOldest' /\ \A e \in Drains : pc'[e] # "save"
  BY <1>4 DEF Quiet, OneDrains, PendingIsOldest
<1>6. FrontierFollowsMarks'
  BY <1>3, <1>5 DEF FrontierFollowsMarks, F
<1> QED
  BY <1>3, <1>5, <1>6 DEF IInv

-----------------------------------------------------------------------------
(* The theorems. *)

LEMMA InitInvariant == Init => IInv
<1> SUFFICES ASSUME Init PROVE IInv
  OBVIOUS
<1>1. F = 0
  BY DEF Init, F, Contract!Frontier
<1>2. TypeOK /\ Len(log) = 0
  BY InitType DEF Init
<1>3. MarkedIsPrefix /\ OneDrains /\ PendingIsOldest
  BY DEF Init, MarkedIsPrefix, OneDrains, PendingIsOldest
<1>4. FrontierFollowsMarks
  BY <1>1 DEF Init, FrontierFollowsMarks, F
<1>5. CopiesExplained
  BY <1>1, <1>2 DEF Init, CopiesExplained, Owing, F
<1> QED
  BY <1>2, <1>3, <1>4, <1>5 DEF IInv

LEMMA StepInvariant == IInv /\ [Next]_vars => IInv'
<1> SUFFICES ASSUME IInv, [Next]_vars PROVE IInv'
  OBVIOUS
<1>0. TypeOK'
  BY TypeStep DEF IInv
<1>1. CASE Insert
  BY <1>0, <1>1, InsertStep
<1>2. CASE Restart
  <2>1. Quiet'
    BY <1>2 DEF Restart, Quiet
  <2> QED BY <1>0, <1>2, <2>1, FailureStep DEF Restart
<1>3. ASSUME NEW d \in Drains, Tick(d) PROVE IInv'
  BY <1>0, <1>3, TickStep
<1>4. ASSUME NEW d \in Drains, Find(d) PROVE IInv'
  BY <1>0, <1>4, FindStep
<1>5. ASSUME NEW d \in Drains, Emit(d) PROVE IInv'
  BY <1>0, <1>5, EmitStep
<1>6. ASSUME NEW d \in Drains, Resend(d) PROVE IInv'
  BY <1>0, <1>6, ResendStep
<1>7. ASSUME NEW d \in Drains, Save(d) PROVE IInv'
  BY <1>0, <1>7, SaveStep
<1>8. ASSUME NEW d \in Drains, SaveUnheard(d) PROVE IInv'
  BY <1>0, <1>8, SaveUnheardStep
<1>9. ASSUME NEW d \in Drains, Fail(d) PROVE IInv'
  <2>1. Quiet'
    BY <1>9, FinishIsQuiet DEF Fail
  <2> QED BY <1>0, <1>9, <2>1, FailureStep DEF Fail
<1>10. CASE UNCHANGED vars
  <2>1. F' = F
    BY <1>10, FrontierSame DEF vars
  <2> QED
    BY <1>0, <1>10, <2>1
       DEF vars, IInv, MarkedIsPrefix, OneDrains, PendingIsOldest, Unmarked, Rows,
           FrontierFollowsMarks, CopiesExplained, Owing, Current, F
<1> QED
  BY <1>1, <1>2, <1>3, <1>4, <1>5, <1>6, <1>7, <1>8, <1>9, <1>10 DEF Next

\* The inductive invariant holds in every reachable state.
THEOREM Invariance == Spec => []IInv
  BY InitInvariant, StepInvariant, PTL DEF Spec

\* A row is published a second time only after a fault.
THEOREM CopiesNeedFaults == Spec => []DuplicatesNeedFaults
<1>1. IInv => DuplicatesNeedFaults
  BY DEF IInv, CopiesExplained, DuplicatesNeedFaults
<1> QED
  BY <1>1, Invariance, PTL

LEMMA ContractInit == Init => Contract!Init
  BY DEF Init, Contract!Init

LEMMA ContractStep ==
  IInv /\ [Next]_vars => [Contract!Next]_<<written, log>>
<1> SUFFICES ASSUME IInv, [Next]_vars PROVE [Contract!Next]_<<written, log>>
  OBVIOUS
<1>1. CASE Insert
  BY <1>1 DEF Insert, Contract!Next, Contract!Write
<1>2. ASSUME NEW d \in Drains, NEW r \in Rows, Current(d, r), log' = Append(log, r),
             UNCHANGED written
      PROVE  Contract!Next
  <2>1. r \in {F, F + 1}
    BY <1>2, CurrentIsNext
  <2> QED BY <1>2, <2>1 DEF Contract!Next, Contract!Publish, F, Rows
<1>3. ASSUME NEW d \in Drains, Emit(d) PROVE Contract!Next
  BY <1>2, <1>3 DEF Emit
<1>4. ASSUME NEW d \in Drains, Resend(d) PROVE Contract!Next
  BY <1>2, <1>4 DEF Resend
<1>5. ASSUME NEW d \in Drains, Tick(d) \/ Find(d) \/ Save(d) \/ SaveUnheard(d) \/ Fail(d)
      PROVE  UNCHANGED <<written, log>>
  BY <1>5 DEF Tick, Find, Save, SaveUnheard, Fail
<1>6. CASE Restart
  BY <1>6 DEF Restart
<1> QED
  BY <1>1, <1>3, <1>4, <1>5, <1>6 DEF Next, vars

\* The relay implements the contract of an outbox: the rows in order, and
\* copies of the last one only.
THEOREM RelayImplementsContract == Spec => ImplementsContract
  BY ContractInit, ContractStep, Invariance, PTL DEF Spec, ImplementsContract, Contract!Spec

-----------------------------------------------------------------------------
(* What the contract means to a reader of the topics. *)

CInv == /\ written \in Nat /\ log \in Seq(Nat \ {0})
        /\ Contract!InOrder /\ Contract!NoGap

LEMMA ContractPublish ==
  ASSUME CInv, Contract!Publish
  PROVE  CInv'
<1> DEFINE n == Len(log)
<1>1. log \in Seq(Nat \ {0}) /\ n \in Nat /\ DOMAIN log = 1..n
  BY DEF CInv
<1>2. F \in Nat /\ (n = 0 => F = 0) /\ (n > 0 => F = log[n])
  BY <1>1 DEF F, Contract!Frontier
<1>3. PICK r \in {F, F + 1} \intersect (1..written) : log' = Append(log, r)
  BY DEF Contract!Publish, F
<1>4. r \in Nat \ {0} /\ written' = written /\ written \in Nat /\ F <= r
  BY <1>2, <1>3 DEF CInv, Contract!Publish
<1>5. /\ log' \in Seq(Nat \ {0}) /\ DOMAIN log' = 1..(n + 1)
      /\ \A i \in 1..n : log'[i] = log[i] /\ log[i] \in Nat
      /\ log'[n + 1] = r
  BY <1>1, <1>3, <1>4
<1>6. \A i \in 1..n : log[i] <= F
  <2> SUFFICES ASSUME NEW i \in 1..n PROVE log[i] <= F
    OBVIOUS
  <2>1. n \in DOMAIN log /\ i \in DOMAIN log /\ i <= n /\ F = log[n]
    BY <1>1, <1>2
  <2> QED BY <2>1 DEF CInv, Contract!InOrder
<1>7. Contract!InOrder'
  <2> SUFFICES ASSUME NEW i \in 1..(n + 1), NEW j \in 1..(n + 1), i <= j
               PROVE  log'[i] <= log'[j]
    BY <1>5 DEF Contract!InOrder
  <2>1. CASE j \in 1..n
    <3>1. i \in 1..n /\ i \in DOMAIN log /\ j \in DOMAIN log
      BY <1>1, <2>1
    <3> QED BY <1>5, <2>1, <3>1 DEF CInv, Contract!InOrder
  <2>2. CASE j = n + 1 /\ i \in 1..n
    <3>1. log'[i] = log[i] /\ log[i] \in Nat /\ log[i] <= F /\ log'[j] = r
      BY <1>5, <1>6, <2>2
    <3> QED BY <1>2, <1>4, <3>1
  <2>3. CASE j = n + 1 /\ i = n + 1
    BY <1>4, <1>5, <2>3
  <2> QED BY <1>1, <2>1, <2>2, <2>3
<1>8. Contract!NoGap'
  <2> SUFFICES ASSUME NEW j \in 1..(n + 1), NEW q \in 1..log'[j]
               PROVE  \E i \in 1..j : log'[i] = q
    BY <1>5 DEF Contract!NoGap
  <2>1. ASSUME NEW k \in 1..n, q \in 1..log[k]
        PROVE  \E i \in 1..k : i \in 1..n /\ log'[i] = q
    <3>1. PICK i \in 1..k : log[i] = q
      BY <1>1, <2>1 DEF CInv, Contract!NoGap
    <3>2. i \in 1..n
      BY <1>1
    <3> QED BY <1>5, <3>1, <3>2
  <2>2. CASE j \in 1..n
    BY <1>5, <2>1, <2>2
  <2>3. CASE j = n + 1 /\ q = r
    BY <1>1, <1>5, <2>3
  <2>4. CASE j = n + 1 /\ q # r
    <3>1. q \in 1..F
      BY <1>2, <1>3, <1>5, <2>4
    <3>2. n \in 1..n /\ F = log[n]
      BY <1>1, <1>2, <3>1
    <3>3. PICK i \in 1..n : log'[i] = q
      BY <2>1, <3>1, <3>2
    <3> QED BY <1>1, <2>4, <3>3
  <2> QED BY <1>1, <2>2, <2>3, <2>4
<1> QED
  BY <1>4, <1>5, <1>7, <1>8 DEF CInv

\* Whatever keeps the contract hands out the rows in order and without a gap.
THEOREM ContractMeansOrder == Contract!Spec => [](Contract!InOrder /\ Contract!NoGap)
<1>1. Contract!Init => CInv
  BY DEF Contract!Init, CInv, Contract!InOrder, Contract!NoGap
<1>2. CInv /\ [Contract!Next]_<<written, log>> => CInv'
  <2> SUFFICES ASSUME CInv, [Contract!Next]_<<written, log>> PROVE CInv'
    OBVIOUS
  <2>1. CASE Contract!Write
    BY <2>1 DEF Contract!Write, CInv, Contract!InOrder, Contract!NoGap
  <2>2. CASE UNCHANGED <<written, log>>
    BY <2>2 DEF CInv, Contract!InOrder, Contract!NoGap
  <2> QED BY <2>1, <2>2, ContractPublish DEF Contract!Next
<1>3. CInv => Contract!InOrder /\ Contract!NoGap
  BY DEF CInv
<1> QED
  BY <1>1, <1>2, <1>3, PTL DEF Contract!Spec

\* The relay hands out the rows in order and without a gap, through every
\* failure and every overlap of its calls.
THEOREM RelayKeepsOrder == Spec => [](Contract!InOrder /\ Contract!NoGap)
  BY RelayImplementsContract, ContractMeansOrder, PTL DEF ImplementsContract

\* What is marked, and every older row, is with the broker.
THEOREM MarkedAfterPublish == Spec => []MarkedIsPublished
<1>1. IInv /\ Contract!NoGap => MarkedIsPublished
  <2> SUFFICES ASSUME IInv, Contract!NoGap, NEW r \in marked, NEW q \in 1..r
               PROVE  \E i \in DOMAIN log : log[i] = q
    BY DEF MarkedIsPublished
  <2>1. r \in 1..F /\ F \in 0..written /\ written \in Nat /\ log \in Seq(1..written)
    BY FrontierType, RelayAssumption DEF IInv, FrontierFollowsMarks, F, TypeOK
  <2>2. Len(log) \in DOMAIN log /\ F = log[Len(log)] /\ Len(log) \in Nat /\ DOMAIN log = 1..Len(log)
    BY <2>1 DEF F, Contract!Frontier
  <2>3. q \in 1..log[Len(log)]
    BY <2>1, <2>2
  <2> QED BY <2>2, <2>3 DEF Contract!NoGap
<1> QED
  BY <1>1, Invariance, RelayKeepsOrder, PTL

-----------------------------------------------------------------------------
(* The loop over a batch. *)

\* Whatever was written, failed to be marked or restarted since the batch was
\* read, a row that goes out is the oldest unmarked one at that very moment: no
\* call publishes a row that another one has marked, or passes an unmarked one
\* (outbox-relay.service.ts: drain).
THEOREM PublishesOldestUnmarked == Spec => [][OldestGoesOut]_vars
<1>1. IInv /\ [Next]_vars => [OldestGoesOut]_vars
  <2> SUFFICES ASSUME IInv, Next, NEW r \in Rows, log' = Append(log, r)
               PROVE  r \notin marked /\ \A q \in Rows : q < r => q \in marked
    BY DEF OldestGoesOut
  <2>1. log' # log
    BY DEF IInv, TypeOK
  <2>2. PICK d \in Drains : Emit(d) \/ Resend(d)
    <3>1. ~Insert /\ ~Restart
      BY <2>1 DEF Insert, Restart
    <3>2. ASSUME NEW d \in Drains,
                 Tick(d) \/ Find(d) \/ Save(d) \/ SaveUnheard(d) \/ Fail(d)
          PROVE  UNCHANGED log
      BY <3>2 DEF Tick, Find, Save, SaveUnheard, Fail
    <3> QED
      BY <2>1, <3>1, <3>2 DEF Next
  <2>3. PICK x \in Rows : Current(d, x) /\ log' = Append(log, x)
    BY <2>2 DEF Emit, Resend
  <2>4. x = r
    BY <2>3, FrontierAppend DEF IInv, Rows
  <2> QED
    BY <2>3, <2>4, CurrentIsNext DEF Rows
<1> QED
  BY <1>1, Invariance, PTL DEF Spec
=============================================================================
