--------------------------- MODULE OutboxContract ---------------------------
(***************************************************************************)
(* What a transactional outbox promises to the topics: every row written   *)
(* reaches the broker in the order of the writes, and the only copies are  *)
(* of the row published last.                                              *)
(***************************************************************************)
EXTENDS Naturals, Sequences

VARIABLES written,  \* how many rows were written
          log       \* the rows the broker took, in order

\* The row published last, 0 before the first.
Frontier == IF log = <<>> THEN 0 ELSE log[Len(log)]

Init == written = 0 /\ log = <<>>

Write == /\ written' = written + 1
         /\ UNCHANGED log

Publish == /\ \E r \in {Frontier, Frontier + 1} \intersect (1..written) :
                 log' = Append(log, r)
           /\ UNCHANGED written

Next == Write \/ Publish

Spec == Init /\ [][Next]_<<written, log>>

-----------------------------------------------------------------------------
(* What the promise comes to for whoever reads the topics. *)

\* No row overtakes another one, copies included.
InOrder == \A i, j \in DOMAIN log : i <= j => log[i] <= log[j]

\* No row is passed over: before a row come all the rows written before it.
NoGap == \A j \in DOMAIN log : \A r \in 1..log[j] : \E i \in 1..j : log[i] = r
=============================================================================
