------------------------------- MODULE AuditLog -------------------------------
(***************************************************************************)
(* What the audit trail promises its readers, whatever the buffering: the   *)
(* entries, numbered in the order in which they are logged, wait in one     *)
(* queue; the front of the queue is written to the table; entries may be    *)
(* lost, and entries whose write was not confirmed may be written again,    *)
(* but nothing ever overtakes anything.                                     *)
(***************************************************************************)
EXTENDS Naturals, Sequences

VARIABLES
  logged,   \* how many entries have been logged
  pending,  \* the entries that wait, oldest first
  table     \* the rows of the table, in the order of their insertion

vars == <<logged, pending, table>>

-----------------------------------------------------------------------------

Init ==
  /\ logged = 0
  /\ pending = <<>>
  /\ table = <<>>

Log ==
  /\ logged' = logged + 1
  /\ pending' = Append(pending, logged + 1)
  /\ UNCHANGED table

\* The first n entries are written. Those from the a-th on keep waiting: a is
\* n + 1 when the write is confirmed, less when it is not, more when the queue
\* has overflowed in the meantime.
Write ==
  \E n \in 1..Len(pending), a \in 1..Len(pending) + 1 :
    /\ table' = table \o SubSeq(pending, 1, n)
    /\ pending' = SubSeq(pending, a, Len(pending))
    /\ UNCHANGED logged

\* Only a contiguous part of the queue survives.
Lose ==
  \E a \in 1..Len(pending) + 1, b \in 0..Len(pending) :
    /\ pending' = SubSeq(pending, a, b)
    /\ UNCHANGED <<logged, table>>

Next == Log \/ Write \/ Lose

Spec == Init /\ [][Next]_vars

-----------------------------------------------------------------------------

TypeOK ==
  /\ logged \in Nat
  /\ pending \in Seq(1..logged)
  /\ table \in Seq(1..logged)

\* Read from the start, the table shows the entries in the order of logging: a
\* row older than one before it can only repeat a row that is before them both.
FirstWritesInOrder ==
  \A i, j \in DOMAIN table :
    i < j /\ table[j] < table[i] => \E h \in DOMAIN table : h < i /\ table[h] = table[j]

=============================================================================
