------------------------------ MODULE AuditProofs ------------------------------
(***************************************************************************)
(* AuditBuffer implements the ordered log of AuditLog, so that the table it *)
(* fills is in the order of logging; it loses no entry silently, repeats    *)
(* only what a lost confirmation made it repeat and discards the oldest     *)
(* first. All for every batch size, buffer size and number of retries.      *)
(***************************************************************************)
EXTENDS AuditBuffer, SequenceTheorems, FiniteSetTheorems, TLAPS

-----------------------------------------------------------------------------
(* Sequences cut in two *)

\* A contiguous part of a sequence, element by element.
LEMMA Part ==
  ASSUME NEW S, NEW s \in Seq(S), NEW a \in 1..Len(s) + 1, NEW b \in 0..Len(s)
  PROVE  /\ SubSeq(s, a, b) \in Seq(S)
         /\ \A i \in DOMAIN SubSeq(s, a, b) :
              a + i - 1 \in DOMAIN s /\ SubSeq(s, a, b)[i] = s[a + i - 1]
  <1>1. \A i \in a..b : s[i] \in S
    BY LenProperties, ElementOfSeq
  <1>2. /\ SubSeq(s, a, b) \in Seq(S)
        /\ Len(SubSeq(s, a, b)) = IF a <= b THEN b - a + 1 ELSE 0
        /\ \A i \in 1..b - a + 1 : SubSeq(s, a, b)[i] = s[a + i - 1]
    BY <1>1, SubSeqProperties, LenProperties
  <1> QED
    BY <1>2, LenProperties

LEMMA SplitJoin ==
  ASSUME NEW S, NEW s \in Seq(S), NEW n \in 0..Len(s)
  PROVE  SubSeq(s, 1, n) \o SubSeq(s, n + 1, Len(s)) = s
  <1>1. Len(s) \in Nat
    BY LenProperties
  <1>2. 1 \in 1..Len(s) + 1 /\ n \in 1 - 1..Len(s) /\ Len(s) \in n..Len(s)
    BY <1>1
  <1>3. SubSeq(s, 1, n) \o SubSeq(s, n + 1, Len(s)) = SubSeq(s, 1, Len(s))
    BY <1>2, ConcatAdjacentSubSeq
  <1> QED
    BY <1>3, SubSeqFull

LEMMA FrontBack ==
  ASSUME NEW S, NEW s \in Seq(S), NEW t \in Seq(S)
  PROVE  /\ s \o t \in Seq(S)
         /\ Len(s \o t) = Len(s) + Len(t)
         /\ SubSeq(s \o t, 1, Len(s)) = s
         /\ SubSeq(s \o t, Len(s) + 1, Len(s \o t)) = t
  <1>1. /\ s \o t \in Seq(S)
        /\ Len(s \o t) = Len(s) + Len(t)
        /\ \A i \in 1..Len(s) + Len(t) : (s \o t)[i] = IF i <= Len(s) THEN s[i] ELSE t[i - Len(s)]
    BY ConcatProperties
  <1>2. Len(s) \in Nat /\ Len(t) \in Nat
    BY LenProperties
  <1> DEFINE u == s \o t
  <1>3. \A i \in 1..Len(u) : u[i] \in S
    BY <1>1, ElementOfSeq
  <1>4. /\ SubSeq(u, 1, Len(s)) \in Seq(S)
        /\ Len(SubSeq(u, 1, Len(s))) = Len(s)
        /\ \A i \in 1..Len(s) : SubSeq(u, 1, Len(s))[i] = u[i]
    <2>1. \A i \in 1..Len(s) : u[i] \in S
      BY <1>1, <1>2, <1>3
    <2> HIDE DEF u
    <2> QED
      BY <2>1, <1>2, SubSeqProperties
  <1>5. /\ SubSeq(u, Len(s) + 1, Len(u)) \in Seq(S)
        /\ Len(SubSeq(u, Len(s) + 1, Len(u))) = Len(t)
        /\ \A i \in 1..Len(t) : SubSeq(u, Len(s) + 1, Len(u))[i] = u[Len(s) + i]
    <2>1. \A i \in Len(s) + 1..Len(u) : u[i] \in S
      BY <1>1, <1>2, <1>3
    <2>2. Len(u) = Len(s) + Len(t)
      BY <1>1
    <2> HIDE DEF u
    <2> QED
      BY <2>1, <2>2, <1>2, SubSeqProperties
  <1>6. SubSeq(u, 1, Len(s)) = s
    <2>1. \A i \in 1..Len(s) : u[i] = s[i]
      BY <1>1, <1>2
    <2> HIDE DEF u
    <2> QED
      BY <2>1, <1>4, SeqEqual
  <1>7. SubSeq(u, Len(s) + 1, Len(u)) = t
    <2>1. \A i \in 1..Len(t) : u[Len(s) + i] = t[i]
      BY <1>1, <1>2
    <2> HIDE DEF u
    <2> QED
      BY <2>1, <1>5, SeqEqual
  <1> QED
    BY <1>1, <1>6, <1>7

LEMMA ElementsInSet ==
  ASSUME NEW S, NEW s \in Seq(S)
  PROVE  Elements(s) \subseteq S
  BY LenProperties, ElementOfSeq DEF Elements

-----------------------------------------------------------------------------
(* The ordered log: the inductive invariant of AuditLog, with what is in     *)
(* flight and what is buffered as its queue                                  *)

Queue == batch \o buffer

QueueTypes ==
  /\ logged \in Nat
  /\ Queue \in Seq(1..logged)
  /\ table \in Seq(1..logged)

\* The queue is in the order of logging.
QueueInOrder == \A i, k \in DOMAIN Queue : i < k => Queue[i] < Queue[k]

\* An entry that still waits although a newer one is in the table is itself in
\* the table already, before that newer one: it waits only to be repeated.
OvertakenWasWritten ==
  \A i \in DOMAIN table, k \in DOMAIN Queue :
    Queue[k] < table[i] => \E h \in DOMAIN table : h < i /\ table[h] = Queue[k]

\* What the queue still holds is what the order of future rows depends on.
LogInv ==
  /\ QueueTypes
  /\ QueueInOrder
  /\ OvertakenWasWritten
  /\ TableInOrder

LEMMA LogInit == AL!Init => LogInv
  BY EmptySeq, ConcatEmptySeq DEF Queue, AL!Init, LogInv, QueueTypes, QueueInOrder, OvertakenWasWritten,
     TableInOrder, AL!FirstWritesInOrder

\* A new entry is newer than everything, so nothing has overtaken it.
LEMMA LogLog == LogInv /\ AL!Log => LogInv'
  <1> SUFFICES ASSUME LogInv, AL!Log PROVE LogInv'
    OBVIOUS
  <1>1. /\ logged' = logged + 1 /\ table' = table
        /\ Queue' = Append(Queue, logged + 1)
        /\ logged \in Nat /\ Queue \in Seq(1..logged) /\ table \in Seq(1..logged)
    BY DEF LogInv, QueueTypes, AL!Log, Queue
  <1>2. Queue \in Seq(1..logged') /\ table' \in Seq(1..logged')
    BY <1>1, SeqMonotonic
  <1>3. /\ Queue' \in Seq(1..logged')
        /\ Len(Queue') = Len(Queue) + 1
        /\ \A i \in 1..Len(Queue) : Queue'[i] = Queue[i]
        /\ Queue'[Len(Queue) + 1] = logged + 1
    BY <1>1, <1>2, AppendProperties
  <1>4. QueueTypes'
    BY <1>1, <1>2, <1>3 DEF QueueTypes
  <1>5. \A i \in DOMAIN Queue : Queue[i] \in 1..logged
    BY <1>1, ElementOfSeq, LenProperties
  <1>6. \A i \in DOMAIN table : table[i] \in 1..logged
    BY <1>1, ElementOfSeq, LenProperties
  <1>7. DOMAIN Queue = 1..Len(Queue) /\ DOMAIN Queue' = 1..Len(Queue) + 1
        /\ Len(Queue) \in Nat
    BY <1>1, <1>3, LenProperties
  <1>8. QueueInOrder'
    BY <1>1, <1>3, <1>5, <1>7 DEF LogInv, QueueInOrder
  <1>9. OvertakenWasWritten'
    BY <1>1, <1>3, <1>6, <1>7 DEF LogInv, OvertakenWasWritten
  <1>10. TableInOrder'
    BY <1>1 DEF LogInv, TableInOrder, AL!FirstWritesInOrder
  <1> QED
    BY <1>4, <1>8, <1>9, <1>10 DEF LogInv

\* Keeping a contiguous part of the queue disturbs no order.
LEMMA LogLose == LogInv /\ AL!Lose => LogInv'
  <1> SUFFICES ASSUME LogInv, AL!Lose PROVE LogInv'
    OBVIOUS
  <1>1. PICK a \in 1..Len(Queue) + 1, b \in 0..Len(Queue) :
          Queue' = SubSeq(Queue, a, b) /\ logged' = logged /\ table' = table
    BY DEF AL!Lose, Queue
  <1>2. logged \in Nat /\ Queue \in Seq(1..logged) /\ table \in Seq(1..logged)
    BY DEF LogInv, QueueTypes
  <1>3. /\ Queue' \in Seq(1..logged)
        /\ \A i \in DOMAIN Queue' : a + i - 1 \in DOMAIN Queue /\ Queue'[i] = Queue[a + i - 1]
    BY <1>1, <1>2, Part
  <1>4. QueueTypes'
    BY <1>1, <1>2, <1>3 DEF QueueTypes
  <1>5. DOMAIN Queue' \subseteq Nat
    BY <1>3, LenProperties
  <1>6. QueueInOrder'
    BY <1>3, <1>5 DEF LogInv, QueueInOrder
  <1>7. OvertakenWasWritten'
    BY <1>1, <1>3 DEF LogInv, OvertakenWasWritten
  <1>8. TableInOrder'
    BY <1>1 DEF LogInv, TableInOrder, AL!FirstWritesInOrder
  <1> QED
    BY <1>4, <1>6, <1>7, <1>8 DEF LogInv

\* The new rows are the front of the queue: whatever is older than one of them
\* and still waits, or is written with them, was written before it.
LEMMA LogWrite == LogInv /\ AL!Write => LogInv'
  <1> SUFFICES ASSUME LogInv, AL!Write PROVE LogInv'
    OBVIOUS
  <1>1. PICK n \in 1..Len(Queue), a \in 1..Len(Queue) + 1 :
          /\ table' = table \o SubSeq(Queue, 1, n)
          /\ Queue' = SubSeq(Queue, a, Len(Queue))
          /\ logged' = logged
    BY DEF AL!Write, Queue
  <1>2. /\ logged \in Nat /\ Queue \in Seq(1..logged) /\ table \in Seq(1..logged)
        /\ DOMAIN Queue = 1..Len(Queue) /\ Len(Queue) \in Nat
        /\ DOMAIN table = 1..Len(table) /\ Len(table) \in Nat
    BY LenProperties DEF LogInv, QueueTypes
  <1> DEFINE rows == SubSeq(Queue, 1, n)
             T == Len(table)
  <1>3. /\ Queue' \in Seq(1..logged)
        /\ \A i \in DOMAIN Queue' : a + i - 1 \in DOMAIN Queue /\ Queue'[i] = Queue[a + i - 1]
    <2>1. Len(Queue) \in 0..Len(Queue)
      BY <1>2
    <2> QED
      BY <1>1, <1>2, <2>1, Part
  <1>4. /\ rows \in Seq(1..logged)
        /\ Len(rows) = n
        /\ \A i \in 1..n : rows[i] = Queue[i]
    BY <1>1, <1>2, SubSeqProperties, ElementOfSeq
  <1>5. /\ table' \in Seq(1..logged)
        /\ DOMAIN table' = 1..T + n
        /\ \A i \in 1..T : table'[i] = table[i]
        /\ \A i \in 1..n : table'[T + i] = Queue[i]
    <2>1. /\ table \o rows \in Seq(1..logged)
          /\ Len(table \o rows) = T + n
          /\ \A i \in 1..T + n : (table \o rows)[i] = IF i <= T THEN table[i] ELSE rows[i - T]
      BY <1>2, <1>4, ConcatProperties
    <2>2. table' = table \o rows
      BY <1>1
    <2> HIDE DEF rows
    <2> QED
      BY <2>1, <2>2, <1>2, <1>4, LenProperties
  <1>13. T \in Nat /\ DOMAIN table = 1..T
    BY <1>2
  <1> HIDE DEF rows, T
  <1>6. QueueTypes'
    BY <1>1, <1>2, <1>3, <1>5 DEF QueueTypes
  <1>7. DOMAIN Queue' \subseteq Nat
    BY <1>3, LenProperties
  <1>8. QueueInOrder'
    BY <1>3, <1>7 DEF LogInv, QueueInOrder
  <1>9. ASSUME NEW i \in 1..T + n, NEW k \in DOMAIN Queue, Queue[k] < table'[i]
        PROVE  \E h \in 1..T + n : h < i /\ table'[h] = Queue[k]
    <2>1. CASE i <= T
      <3>1. table'[i] = table[i] /\ i \in DOMAIN table
        BY <2>1, <1>13, <1>5
      <3>2. PICK h \in DOMAIN table : h < i /\ table[h] = Queue[k]
        BY <3>1, <1>9 DEF LogInv, OvertakenWasWritten
      <3> QED
        BY <3>2, <1>13, <1>5
    <2>2. CASE i > T
      <3> i \in Nat /\ n \in Nat /\ n \in DOMAIN Queue /\ 1..n \subseteq DOMAIN Queue
        BY <1>2, <1>13
      <3>1. PICK j \in 1..n : i = T + j
        <4>1. i - T \in 1..n /\ i = T + (i - T)
          BY <2>2, <1>13
        <4> QED
          BY <4>1
      <3>2. table'[i] = Queue[j] /\ j \in DOMAIN Queue
        BY <3>1, <1>5
      <3>3. Queue[k] < Queue[j]
        BY <3>2, <1>9
      <3>4. Queue[k] \in Nat /\ Queue[j] \in Nat
        BY <3>2, <1>2, ElementOfSeq
      <3>5. j < k => Queue[j] < Queue[k]
        BY <3>2 DEF LogInv, QueueInOrder
      <3>6. k < j
        <4>1. ~ (j < k) /\ j # k
          BY <3>3, <3>4, <3>5
        <4> QED
          BY <4>1, <3>2, <1>2
      <3>7. k \in 1..n /\ T + k \in 1..T + n /\ T + k < i
        BY <3>1, <3>6, <1>2, <1>13
      <3> QED
        BY <3>7, <1>5
    <2> QED
      BY <2>1, <2>2, <1>13
  <1>10. OvertakenWasWritten'
    <2>1. SUFFICES ASSUME NEW i \in DOMAIN table', NEW k \in DOMAIN Queue', Queue'[k] < table'[i]
                   PROVE  \E h \in DOMAIN table' : h < i /\ table'[h] = Queue'[k]
      BY DEF OvertakenWasWritten
    <2>2. a + k - 1 \in DOMAIN Queue /\ Queue'[k] = Queue[a + k - 1]
      BY <1>3
    <2> QED
      BY <2>1, <2>2, <1>5, <1>9
  <1>11. ASSUME NEW i \in 1..T + n, NEW j \in 1..T + n, i < j, table'[j] < table'[i]
         PROVE  \E h \in 1..T + n : h < i /\ table'[h] = table'[j]
    <2>1. CASE j <= T
      <3>1. i \in DOMAIN table /\ j \in DOMAIN table /\ table'[i] = table[i] /\ table'[j] = table[j]
        BY <2>1, <1>13, <1>5, <1>11
      <3>2. PICK h \in DOMAIN table : h < i /\ table[h] = table[j]
        BY <3>1, <1>11 DEF LogInv, TableInOrder, AL!FirstWritesInOrder
      <3> QED
        BY <3>1, <3>2, <1>13, <1>2, <1>5
    <2>2. CASE j > T
      <3>1. j - T \in DOMAIN Queue /\ table'[j] = Queue[j - T]
        BY <2>2, <1>13, <1>5
      <3> QED
        BY <3>1, <1>9, <1>11
    <2> QED
      BY <2>1, <2>2, <1>13
  <1>12. TableInOrder'
    BY <1>5, <1>11 DEF TableInOrder, AL!FirstWritesInOrder
  <1> QED
    BY <1>6, <1>8, <1>10, <1>12 DEF LogInv

LEMMA LogInvariant == AL!Spec => []LogInv
  <1>1. AL!Init => LogInv
    BY LogInit
  <1>2. LogInv /\ [AL!Next]_AL!vars => LogInv'
    <2>1. LogInv /\ UNCHANGED AL!vars => LogInv'
      <3> SUFFICES ASSUME LogInv, UNCHANGED AL!vars PROVE LogInv'
        OBVIOUS
      <3>1. Queue' = Queue /\ table' = table /\ logged' = logged
        BY DEF AL!vars, Queue
      <3> QED
        BY <3>1 DEF LogInv, QueueTypes, QueueInOrder, OvertakenWasWritten, TableInOrder,
                    AL!FirstWritesInOrder
    <2> QED
      BY <2>1, LogLog, LogLose, LogWrite DEF AL!Next
  <1> QED
    BY <1>1, <1>2, PTL DEF AL!Spec

\* Whatever is written, repeated or lost, the first rows of the entries in the
\* table of the ordered log are in the order of logging.
THEOREM LogInOrder == AL!Spec => [](AL!TypeOK /\ AL!FirstWritesInOrder)
  <1>1. LogInv => AL!TypeOK /\ AL!FirstWritesInOrder
    BY DEF LogInv, QueueTypes, Queue, AL!TypeOK, TableInOrder
  <1> QED
    BY <1>1, LogInvariant, PTL

-----------------------------------------------------------------------------
(* Types *)

\* A write is in flight exactly when there are entries in flight, and the
\* shutdown never compares after more than its retries.
TypeInv ==
  /\ TypeOK
  /\ flusher = "none" <=> batch = <<>>
  /\ phase \in {"awaiting", "compare"} => retries < MaxRetries

\* The sequences of the old state are sequences of the new one.
LEMMA Grow ==
  ASSUME TypeOK, logged' = logged \/ logged' = logged + 1
  PROVE  /\ buffer \in Seq(1..logged') /\ batch \in Seq(1..logged') /\ table \in Seq(1..logged')
         /\ lost \subseteq 1..logged'
  <1>1. 1..logged \subseteq 1..logged'
    BY DEF TypeOK
  <1> QED
    BY <1>1, SeqMonotonic DEF TypeOK

LEMMA StartFlushShape ==
  ASSUME NEW S, NEW who, NEW buf \in Seq(S), StartFlush(who, buf), ConstantsAssumption
  PROVE  /\ batch' \in Seq(S) /\ buffer' \in Seq(S)
         /\ batch' # <<>>
         /\ batch' \o buffer' = buf
         /\ flusher' = who /\ flusher = "none"
  <1> DEFINE n == Smaller(BatchSize, Len(buf))
  <1>1. Len(buf) \in Nat \ {0}
    BY EmptySeq DEF StartFlush
  <1>2. n \in 1..Len(buf)
    BY <1>1 DEF Smaller, ConstantsAssumption
  <1>3. batch' = SubSeq(buf, 1, n) /\ buffer' = SubSeq(buf, n + 1, Len(buf))
    BY DEF StartFlush
  <1> HIDE DEF n
  <1>4. /\ 1 \in 1..Len(buf) + 1 /\ n \in 0..Len(buf)
        /\ n + 1 \in 1..Len(buf) + 1 /\ Len(buf) \in 0..Len(buf)
    BY <1>1, <1>2
  <1>5. batch' \in Seq(S)
    BY <1>3, <1>4, Part
  <1>6. buffer' \in Seq(S)
    BY <1>3, <1>4, Part
  <1>7. Len(batch') = n
    <2>1. \A i \in 1..n : buf[i] \in S
      BY <1>2, <1>1, ElementOfSeq
    <2> QED
      BY <2>1, <1>2, <1>1, <1>3, SubSeqProperties
  <1>8. batch' # <<>>
    BY <1>2, <1>7, <1>1, EmptySeq
  <1>9. batch' \o buffer' = buf
    BY <1>3, <1>4, SplitJoin
  <1> QED
    BY <1>5, <1>6, <1>8, <1>9 DEF StartFlush

LEMMA RequeueShape ==
  ASSUME NEW S, batch \in Seq(S), buffer \in Seq(S), Requeue, ConstantsAssumption
  PROVE  /\ batch \o buffer \in Seq(S) /\ buffer' \in Seq(S)
         /\ \E d \in 0..Len(batch \o buffer) :
              /\ buffer' = SubSeq(batch \o buffer, d + 1, Len(batch \o buffer))
              /\ lost' = lost \union Elements(SubSeq(batch \o buffer, 1, d))
              /\ Elements(SubSeq(batch \o buffer, 1, d)) \subseteq S
  <1> DEFINE all == batch \o buffer
             d == IF Len(all) > MaxBuffer THEN Len(all) - MaxBuffer ELSE 0
  <1>1. all \in Seq(S)
    BY ConcatProperties
  <1>2. /\ buffer' = SubSeq(all, d + 1, Len(all))
        /\ lost' = lost \union Elements(SubSeq(all, 1, d))
    BY DEF Requeue
  <1> HIDE DEF all
  <1>3. Len(all) \in Nat
    BY <1>1, LenProperties
  <1>4. d \in 0..Len(all)
    BY <1>3 DEF ConstantsAssumption
  <1> HIDE DEF d
  <1>5. 1 \in 1..Len(all) + 1 /\ d + 1 \in 1..Len(all) + 1 /\ Len(all) \in 0..Len(all)
    BY <1>3, <1>4
  <1>6. SubSeq(all, 1, d) \in Seq(S)
    BY <1>1, <1>4, <1>5, Part
  <1>7. SubSeq(all, d + 1, Len(all)) \in Seq(S)
    BY <1>1, <1>5, Part
  <1>8. Elements(SubSeq(all, 1, d)) \subseteq S
    BY <1>6, ElementsInSet
  <1> QED
    BY <1>1, <1>2, <1>4, <1>7, <1>8 DEF all

LEMMA InitTypes == Init /\ ConstantsAssumption => TypeInv
  BY EmptySeq DEF Init, TypeInv, TypeOK, Flushers, Phases, ConstantsAssumption

LEMMA PushShape ==
  ASSUME NEW buf, Push(buf)
  PROVE  StartFlush("background", buf) \/ (buffer' = buf /\ UNCHANGED <<flusher, batch>>)
  BY DEF Push, SkipFlush

LEMMA LogTypes == TypeInv /\ ConstantsAssumption /\ Log => TypeInv'
  <1> SUFFICES ASSUME TypeInv, ConstantsAssumption, Log PROVE TypeInv'
    OBVIOUS
  <1> DEFINE buf == Append(buffer, logged + 1)
  <1>1. /\ logged \in 0..MaxLogged /\ logged < MaxLogged /\ logged' = logged + 1
        /\ UNCHANGED <<table, phase, retries, before, lost, unknown>>
    BY DEF TypeInv, TypeOK, Log, shutdownVars
  <1>2. /\ buffer \in Seq(1..logged') /\ batch \in Seq(1..logged') /\ table \in Seq(1..logged')
        /\ lost \subseteq 1..logged'
    BY <1>1, Grow DEF TypeInv
  <1>3. logged' \in 0..MaxLogged /\ logged + 1 \in 1..logged'
    BY <1>1 DEF ConstantsAssumption
  <1>4. buf \in Seq(1..logged')
    BY <1>1, <1>2, <1>3, AppendProperties
  <1>5. StartFlush("background", buf) \/ (buffer' = buf /\ UNCHANGED <<flusher, batch>>)
    BY PushShape DEF Log
  <1> HIDE DEF buf
  <1>6. CASE StartFlush("background", buf)
    <2>1. /\ batch' \in Seq(1..logged') /\ buffer' \in Seq(1..logged') /\ batch' # <<>>
          /\ flusher' = "background"
      BY <1>4, <1>6, StartFlushShape
    <2> QED
      BY <1>1, <1>2, <1>3, <2>1 DEF TypeInv, TypeOK, Flushers
  <1>7. CASE buffer' = buf /\ UNCHANGED <<flusher, batch>>
    BY <1>1, <1>2, <1>3, <1>4, <1>7 DEF TypeInv, TypeOK
  <1> QED
    BY <1>5, <1>6, <1>7

LEMMA FlushTypes == TypeInv /\ ConstantsAssumption /\ (TimerFlush \/ ShutdownFlush) => TypeInv'
  <1> SUFFICES ASSUME TypeInv, ConstantsAssumption, TimerFlush \/ ShutdownFlush PROVE TypeInv'
    OBVIOUS
  <1>1. UNCHANGED <<logged, table, retries, lost, unknown>> /\ buffer \in Seq(1..logged)
    BY DEF TypeInv, TypeOK, TimerFlush, ShutdownFlush, shutdownVars
  <1>2. PICK who \in {"background", "shutdown"} : StartFlush(who, buffer)
    BY DEF TimerFlush, ShutdownFlush
  <1>3. /\ batch' \in Seq(1..logged) /\ buffer' \in Seq(1..logged) /\ batch' # <<>>
        /\ flusher' = who
    BY <1>1, <1>2, StartFlushShape
  <1>4. Len(buffer) \in Nat
    BY <1>1, LenProperties
  <1>5. /\ phase' \in Phases /\ before' \in Nat
        /\ phase' \in {"awaiting", "compare"} => retries < MaxRetries
    BY <1>4 DEF TypeInv, TypeOK, TimerFlush, ShutdownFlush, shutdownVars, Phases
  <1> QED
    BY <1>1, <1>3, <1>5 DEF TypeInv, TypeOK, Flushers

LEMMA ReturnTypes == TypeInv /\ ReturnToShutdown =>
    /\ phase' \in Phases
    /\ phase' \in {"awaiting", "compare"} => retries < MaxRetries
  BY DEF TypeInv, TypeOK, ReturnToShutdown, Phases

LEMMA WriteTypes ==
  TypeInv /\ ConstantsAssumption /\ (WriteSucceeds \/ WriteFails \/ WriteUnconfirmed) => TypeInv'
  <1> SUFFICES ASSUME TypeInv, ConstantsAssumption,
                      WriteSucceeds \/ WriteFails \/ WriteUnconfirmed
               PROVE  TypeInv'
    OBVIOUS
  <1>1. /\ UNCHANGED <<logged, retries, before>>
        /\ batch' = <<>> /\ flusher' = "none" /\ ReturnToShutdown
        /\ unknown' \in 0..MaxUnknown
    BY DEF WriteSucceeds, WriteFails, WriteUnconfirmed, ResetFlushing, TypeInv, TypeOK, ConstantsAssumption
  <1>2. /\ phase' \in Phases
        /\ phase' \in {"awaiting", "compare"} => retries < MaxRetries
    BY <1>1, ReturnTypes
  <1>3. /\ batch \in Seq(1..logged) /\ buffer \in Seq(1..logged) /\ table \in Seq(1..logged)
        /\ lost \subseteq 1..logged
    BY DEF TypeInv, TypeOK
  <1>4. table' = table \/ table' = table \o batch
    BY DEF WriteSucceeds, WriteFails, WriteUnconfirmed
  <1>5. table' \in Seq(1..logged)
    BY <1>3, <1>4, ConcatProperties
  <1>6. Requeue => buffer' \in Seq(1..logged) /\ lost' \subseteq 1..logged
    <2> SUFFICES ASSUME Requeue PROVE buffer' \in Seq(1..logged) /\ lost' \subseteq 1..logged
      OBVIOUS
    <2>1. /\ buffer' \in Seq(1..logged)
          /\ \E d \in 0..Len(batch \o buffer) :
               /\ lost' = lost \union Elements(SubSeq(batch \o buffer, 1, d))
               /\ Elements(SubSeq(batch \o buffer, 1, d)) \subseteq 1..logged
      BY <1>3, RequeueShape
    <2> QED
      BY <1>3, <2>1
  <1>7. buffer' \in Seq(1..logged) /\ lost' \subseteq 1..logged
    BY <1>3, <1>6 DEF WriteSucceeds, WriteFails, WriteUnconfirmed
  <1>8. <<>> \in Seq(1..logged)
    BY EmptySeq
  <1> QED
    BY <1>1, <1>2, <1>5, <1>7, <1>8 DEF TypeInv, TypeOK, Flushers

LEMMA ShutdownTypes ==
  TypeInv /\ ConstantsAssumption /\ (ShutdownBegins \/ ShutdownCompare \/ ShutdownEnds) => TypeInv'
  <1> SUFFICES ASSUME TypeInv, ConstantsAssumption,
                      ShutdownBegins \/ ShutdownCompare \/ ShutdownEnds
               PROVE  TypeInv'
    OBVIOUS
  <1>1. UNCHANGED <<logged, batch, flusher, table, before, unknown>>
    BY DEF ShutdownBegins, ShutdownCompare, ShutdownEnds
  <1>2. buffer' \in Seq(1..logged) /\ lost' \subseteq 1..logged
    <2>1. buffer \in Seq(1..logged) /\ lost \subseteq 1..logged
      BY DEF TypeInv, TypeOK
    <2>2. Elements(buffer) \subseteq 1..logged /\ <<>> \in Seq(1..logged)
      BY <2>1, ElementsInSet, EmptySeq
    <2> QED
      BY <2>1, <2>2 DEF ShutdownBegins, ShutdownCompare, ShutdownEnds
  <1>3. phase' \in {"loop", "closed"} /\ retries' \in 0..MaxRetries
    BY DEF ShutdownBegins, ShutdownCompare, ShutdownEnds, TypeInv, TypeOK, ConstantsAssumption
  <1> QED
    BY <1>1, <1>2, <1>3 DEF TypeInv, TypeOK, Phases

LEMMA EndTypes == TypeInv /\ ConstantsAssumption /\ ProcessEnds => TypeInv'
  <1> SUFFICES ASSUME TypeInv, ConstantsAssumption, ProcessEnds PROVE TypeInv'
    OBVIOUS
  <1>1. /\ UNCHANGED <<logged, retries, before, unknown>>
        /\ phase' = "gone" /\ buffer' = <<>> /\ batch' = <<>> /\ flusher' = "none"
        /\ \/ lost' = lost \union Elements(batch \o buffer) /\ table' = table
           \/ lost' = lost \union Elements(buffer) /\ table' = table \o batch
    BY DEF ProcessEnds, ResetFlushing
  <1>2. /\ batch \in Seq(1..logged) /\ buffer \in Seq(1..logged) /\ table \in Seq(1..logged)
        /\ lost \subseteq 1..logged
    BY DEF TypeInv, TypeOK
  <1>3. table \o batch \in Seq(1..logged) /\ batch \o buffer \in Seq(1..logged)
    BY <1>2, ConcatProperties
  <1>4. /\ Elements(buffer) \subseteq 1..logged /\ Elements(batch \o buffer) \subseteq 1..logged
        /\ <<>> \in Seq(1..logged)
    BY <1>2, <1>3, ElementsInSet, EmptySeq
  <1>5. table' \in Seq(1..logged) /\ lost' \subseteq 1..logged
    BY <1>1, <1>2, <1>3, <1>4
  <1> QED
    BY <1>1, <1>4, <1>5 DEF TypeInv, TypeOK, Flushers, Phases

LEMMA StepTypes == TypeInv /\ ConstantsAssumption /\ [Next]_vars => TypeInv'
  <1>1. TypeInv /\ UNCHANGED vars => TypeInv'
    BY DEF TypeInv, TypeOK, vars
  <1> QED
    BY <1>1, LogTypes, FlushTypes, WriteTypes, ShutdownTypes, EndTypes DEF Next

\* The variables of the audit buffer keep their types: the shutdown's retries
\* stay within their maximum and no entry is invented.
THEOREM TypesKept == Spec => []TypeOK
  <1>1. Init => TypeInv
    BY InitTypes, ConstantsAssumption
  <1>2. TypeInv /\ [Next]_vars => TypeInv'
    BY StepTypes, ConstantsAssumption
  <1>3. TypeInv => TypeOK
    BY DEF TypeInv
  <1> QED
    BY <1>1, <1>2, <1>3, PTL DEF Spec

-----------------------------------------------------------------------------
(* The refinement, with batch \o buffer as the queue of AuditLog *)

\* What a re-queue with or without rows in the table is to the log: the shape
\* of the queue afterwards.
LEMMA RequeueKeepsTail ==
  ASSUME TypeInv, ConstantsAssumption, Requeue, batch' = <<>>
  PROVE  \E a \in 1..Len(batch \o buffer) + 1 :
           batch' \o buffer' = SubSeq(batch \o buffer, a, Len(batch \o buffer))
  <1>1. batch \in Seq(1..logged) /\ buffer \in Seq(1..logged)
    BY DEF TypeInv, TypeOK
  <1>2. /\ batch \o buffer \in Seq(1..logged) /\ buffer' \in Seq(1..logged)
        /\ \E d \in 0..Len(batch \o buffer) :
             buffer' = SubSeq(batch \o buffer, d + 1, Len(batch \o buffer))
    BY <1>1, RequeueShape
  <1>3. batch' \o buffer' = buffer'
    BY <1>2, ConcatEmptySeq
  <1>4. PICK d \in 0..Len(batch \o buffer) :
          buffer' = SubSeq(batch \o buffer, d + 1, Len(batch \o buffer))
    BY <1>2
  <1>5. d + 1 \in 1..Len(batch \o buffer) + 1
    BY <1>2, LenProperties
  <1> QED
    BY <1>3, <1>4, <1>5

LEMMA LogMaps == TypeInv /\ ConstantsAssumption /\ Log => AL!Log
  <1> SUFFICES ASSUME TypeInv, ConstantsAssumption, Log PROVE AL!Log
    OBVIOUS
  <1> DEFINE buf == Append(buffer, logged + 1)
  <1>1. logged' = logged + 1 /\ table' = table /\ logged \in Nat
    BY DEF Log, TypeInv, TypeOK
  <1>2. buffer \in Seq(1..logged + 1) /\ batch \in Seq(1..logged + 1)
    BY <1>1, Grow DEF TypeInv
  <1>3. logged + 1 \in 1..logged + 1
    BY <1>1
  <1>4. buf \in Seq(1..logged + 1)
    BY <1>2, <1>3, AppendProperties
  <1>5. StartFlush("background", buf) \/ (buffer' = buf /\ UNCHANGED <<flusher, batch>>)
    BY PushShape DEF Log
  <1>6. batch' \o buffer' = batch \o buf
    <2> HIDE DEF buf
    <2>1. CASE StartFlush("background", buf)
      <3>1. batch' \o buffer' = buf /\ flusher = "none"
        BY <1>4, <2>1, StartFlushShape
      <3>2. batch = <<>>
        BY <3>1 DEF TypeInv
      <3> QED
        BY <3>1, <3>2, <1>4, ConcatEmptySeq
    <2>2. CASE buffer' = buf /\ UNCHANGED <<flusher, batch>>
      BY <2>2
    <2> QED
      BY <1>5, <2>1, <2>2
  <1>7. batch \o buf = Append(batch \o buffer, logged + 1)
    <2>1. buf = buffer \o <<logged + 1>>
      BY <1>2, <1>3, AppendIsConcat
    <2>2. batch \o buffer \in Seq(1..logged + 1) /\ <<logged + 1>> \in Seq(1..logged + 1)
      BY <1>2, <1>3, ConcatProperties
    <2>3. Append(batch \o buffer, logged + 1) = (batch \o buffer) \o <<logged + 1>>
      BY <2>2, <1>3, AppendIsConcat
    <2>4. (batch \o buffer) \o <<logged + 1>> = batch \o (buffer \o <<logged + 1>>)
      BY <1>2, <2>2, ConcatAssociative
    <2> QED
      BY <2>1, <2>3, <2>4
  <1> QED
    BY <1>1, <1>6, <1>7 DEF AL!Log

\* Taking a batch out of the buffer does not change the queue.
LEMMA FlushMaps ==
  TypeInv /\ ConstantsAssumption /\ (TimerFlush \/ ShutdownFlush) => UNCHANGED AL!vars
  <1> SUFFICES ASSUME TypeInv, ConstantsAssumption, TimerFlush \/ ShutdownFlush
               PROVE  UNCHANGED AL!vars
    OBVIOUS
  <1>1. UNCHANGED <<logged, table>> /\ buffer \in Seq(1..logged)
    BY DEF TypeInv, TypeOK, TimerFlush, ShutdownFlush
  <1>2. PICK who \in {"background", "shutdown"} : StartFlush(who, buffer)
    BY DEF TimerFlush, ShutdownFlush
  <1>3. batch' \o buffer' = buffer /\ flusher = "none"
    BY <1>1, <1>2, StartFlushShape
  <1>4. batch \o buffer = buffer
    BY <1>1, <1>3, ConcatEmptySeq DEF TypeInv
  <1> QED
    BY <1>1, <1>3, <1>4 DEF AL!vars

\* The front of the queue is the batch in flight.
LEMMA WriteMaps ==
  ASSUME TypeInv, ConstantsAssumption, batch # <<>>, logged' = logged,
         table' = table \o batch,
         \E a \in 1..Len(batch \o buffer) + 1 :
           batch' \o buffer' = SubSeq(batch \o buffer, a, Len(batch \o buffer))
  PROVE  AL!Write
  <1>1. batch \in Seq(1..logged) /\ buffer \in Seq(1..logged)
    BY DEF TypeInv, TypeOK
  <1>2. /\ Len(batch \o buffer) = Len(batch) + Len(buffer)
        /\ SubSeq(batch \o buffer, 1, Len(batch)) = batch
    BY <1>1, FrontBack
  <1>3. Len(batch) \in 1..Len(batch \o buffer)
    BY <1>1, <1>2, EmptySeq, LenProperties
  <1> QED
    BY <1>2, <1>3 DEF AL!Write

LEMMA SucceedsMaps == TypeInv /\ ConstantsAssumption /\ WriteSucceeds => AL!Write
  <1> SUFFICES ASSUME TypeInv, ConstantsAssumption, WriteSucceeds PROVE AL!Write
    OBVIOUS
  <1>1. batch \in Seq(1..logged) /\ buffer \in Seq(1..logged) /\ batch # <<>>
    BY DEF TypeInv, TypeOK, WriteSucceeds
  <1>2. /\ Len(batch \o buffer) = Len(batch) + Len(buffer)
        /\ SubSeq(batch \o buffer, Len(batch) + 1, Len(batch \o buffer)) = buffer
    BY <1>1, FrontBack
  <1>3. batch' \o buffer' = buffer
    BY <1>1, ConcatEmptySeq DEF WriteSucceeds, ResetFlushing
  <1>4. Len(batch) + 1 \in 1..Len(batch \o buffer) + 1
    BY <1>1, <1>2, LenProperties
  <1>5. \E a \in 1..Len(batch \o buffer) + 1 :
          batch' \o buffer' = SubSeq(batch \o buffer, a, Len(batch \o buffer))
    BY <1>2, <1>3, <1>4
  <1> QED
    BY <1>1, <1>5, WriteMaps DEF WriteSucceeds

LEMMA FailsMaps == TypeInv /\ ConstantsAssumption /\ WriteFails => AL!Lose
  <1> SUFFICES ASSUME TypeInv, ConstantsAssumption, WriteFails PROVE AL!Lose
    OBVIOUS
  <1>1. Requeue /\ batch' = <<>> /\ UNCHANGED <<logged, table>>
    BY DEF WriteFails, ResetFlushing
  <1>2. \E a \in 1..Len(batch \o buffer) + 1 :
          batch' \o buffer' = SubSeq(batch \o buffer, a, Len(batch \o buffer))
    BY <1>1, RequeueKeepsTail
  <1>3. Len(batch \o buffer) \in 0..Len(batch \o buffer)
    <2>1. batch \o buffer \in Seq(1..logged)
      BY ConcatProperties DEF TypeInv, TypeOK
    <2> QED
      BY <2>1, LenProperties
  <1> QED
    BY <1>1, <1>2, <1>3 DEF AL!Lose

LEMMA UnconfirmedMaps == TypeInv /\ ConstantsAssumption /\ WriteUnconfirmed => AL!Write
  <1> SUFFICES ASSUME TypeInv, ConstantsAssumption, WriteUnconfirmed PROVE AL!Write
    OBVIOUS
  <1>1. /\ Requeue /\ batch' = <<>> /\ logged' = logged /\ table' = table \o batch
        /\ batch # <<>>
    BY DEF WriteUnconfirmed, ResetFlushing, TypeInv
  <1>2. \E a \in 1..Len(batch \o buffer) + 1 :
          batch' \o buffer' = SubSeq(batch \o buffer, a, Len(batch \o buffer))
    BY <1>1, RequeueKeepsTail
  <1> QED
    BY <1>1, <1>2, WriteMaps

\* The shutdown discards the buffer and leaves the write in flight.
LEMMA ShutdownMaps ==
  TypeInv /\ (ShutdownBegins \/ ShutdownCompare \/ ShutdownEnds) => AL!Lose \/ UNCHANGED AL!vars
  <1> SUFFICES ASSUME TypeInv, ShutdownEnds PROVE AL!Lose
    BY DEF ShutdownBegins, ShutdownCompare, AL!vars
  <1>1. batch \in Seq(1..logged) /\ buffer \in Seq(1..logged)
    BY DEF TypeInv, TypeOK
  <1>2. /\ Len(batch \o buffer) = Len(batch) + Len(buffer)
        /\ SubSeq(batch \o buffer, 1, Len(batch)) = batch
    BY <1>1, FrontBack
  <1>3. batch' \o buffer' = batch
    BY <1>1, ConcatEmptySeq DEF ShutdownEnds
  <1>4. Len(batch) \in 0..Len(batch \o buffer) /\ 1 \in 1..Len(batch \o buffer) + 1
    BY <1>1, <1>2, LenProperties
  <1> QED
    BY <1>2, <1>3, <1>4 DEF AL!Lose, ShutdownEnds

\* The end of the process loses the queue, after writing the batch or not.
LEMMA EndMaps == TypeInv /\ ConstantsAssumption /\ ProcessEnds => AL!Write \/ AL!Lose
  <1> SUFFICES ASSUME TypeInv, ConstantsAssumption, ProcessEnds PROVE AL!Write \/ AL!Lose
    OBVIOUS
  <1>1. batch \in Seq(1..logged) /\ buffer \in Seq(1..logged) /\ table \in Seq(1..logged)
    BY DEF TypeInv, TypeOK
  <1>2. /\ logged' = logged /\ batch' = <<>> /\ buffer' = <<>>
        /\ table' = table \/ table' = table \o batch
    BY DEF ProcessEnds, ResetFlushing
  <1>3. batch \o buffer \in Seq(1..logged)
    BY <1>1, ConcatProperties
  <1>4. Len(batch \o buffer) \in Nat
    BY <1>3, LenProperties
  <1>5. batch' \o buffer' = <<>>
    BY <1>2, <1>1, EmptySeq, ConcatEmptySeq
  <1>6. CASE table' = table
    <2>1. SubSeq(batch \o buffer, 1, 0) = <<>>
      BY SubSeqEmpty
    <2>2. 1 \in 1..Len(batch \o buffer) + 1 /\ 0 \in 0..Len(batch \o buffer)
      BY <1>4
    <2> QED
      BY <1>2, <1>5, <1>6, <2>1, <2>2 DEF AL!Lose
  <1>7. CASE table' # table
    <2>1. table' = table \o batch
      BY <1>2, <1>7
    <2>2. batch # <<>>
      BY <2>1, <1>1, <1>7, ConcatEmptySeq
    <2>3. SubSeq(batch \o buffer, Len(batch \o buffer) + 1, Len(batch \o buffer)) = <<>>
      BY <1>4, SubSeqEmpty
    <2>4. Len(batch \o buffer) + 1 \in 1..Len(batch \o buffer) + 1
      BY <1>4
    <2>5. \E a \in 1..Len(batch \o buffer) + 1 :
            batch' \o buffer' = SubSeq(batch \o buffer, a, Len(batch \o buffer))
      BY <1>5, <2>3, <2>4
    <2> QED
      BY <1>2, <2>1, <2>2, <2>5, WriteMaps
  <1> QED
    BY <1>6, <1>7

\* AuditService implements the ordered log, through batches, failed and
\* unconfirmed writes, overflow, shutdown and the end of the process.
THEOREM BufferImplementsLog == Spec => ImplementsAuditLog
  <1>1. Init => AL!Init
    BY ConcatEmptySeq, EmptySeq DEF Init, AL!Init
  <1>2. Init => TypeInv
    BY InitTypes, ConstantsAssumption
  <1>3. TypeInv /\ [Next]_vars => TypeInv'
    BY StepTypes, ConstantsAssumption
  <1>4. TypeInv /\ [Next]_vars => [AL!Next]_AL!vars
    <2>1. UNCHANGED vars => UNCHANGED AL!vars
      BY DEF vars, AL!vars
    <2> QED
      BY <2>1, LogMaps, FlushMaps, SucceedsMaps, FailsMaps, UnconfirmedMaps, ShutdownMaps,
         EndMaps, ConstantsAssumption DEF Next, AL!Next
  <1> QED
    BY <1>1, <1>2, <1>3, <1>4, PTL DEF Spec, ImplementsAuditLog, AL!Spec

\* The table shows the first copies of the entries in the order of logging.
THEOREM TableKeepsOrder == Spec => []TableInOrder
  BY BufferImplementsLog, LogInOrder, PTL DEF ImplementsAuditLog, TableInOrder

-----------------------------------------------------------------------------
(* Conservation: a step moves entries between the table, the memory and     *)
(* what is lost                                                             *)

LEMMA ElementsJoined ==
  ASSUME NEW S, NEW s \in Seq(S), NEW t \in Seq(S)
  PROVE  Elements(s \o t) = Elements(s) \union Elements(t)
  <1>1. /\ Len(s) \in Nat /\ DOMAIN s = 1..Len(s)
        /\ Len(t) \in Nat /\ DOMAIN t = 1..Len(t)
    BY LenProperties
  <1>2. /\ s \o t \in Seq(S) /\ Len(s \o t) = Len(s) + Len(t)
        /\ \A i \in 1..Len(s) + Len(t) : (s \o t)[i] = IF i <= Len(s) THEN s[i] ELSE t[i - Len(s)]
    BY ConcatProperties
  <1>3. DOMAIN (s \o t) = 1..Len(s) + Len(t)
    BY <1>2, LenProperties
  <1> DEFINE u == s \o t
  <1>4. \A i \in DOMAIN s : i \in DOMAIN u /\ u[i] = s[i]
    BY <1>1, <1>2, <1>3
  <1>5. \A i \in DOMAIN t : Len(s) + i \in DOMAIN u /\ u[Len(s) + i] = t[i]
    BY <1>1, <1>2, <1>3
  <1>6. \A i \in DOMAIN u : (i \in DOMAIN s /\ u[i] = s[i])
                              \/ (i - Len(s) \in DOMAIN t /\ u[i] = t[i - Len(s)])
    BY <1>1, <1>2, <1>3
  <1> HIDE DEF u
  <1>7. Elements(u) = Elements(s) \union Elements(t)
    BY <1>4, <1>5, <1>6 DEF Elements
  <1> QED
    BY <1>7 DEF u

LEMMA ElementsEmpty == Elements(<<>>) = {}
  BY EmptySeq DEF Elements

LEMMA ElementsOne == ASSUME NEW e PROVE Elements(<<e>>) = {e}
  BY DEF Elements

\* The entries in memory: those in flight and those in the buffer.
Waiting == Elements(batch) \union Elements(buffer)

\* What each kind of step does to the three places where an entry can be.
LEMMA LogMoves ==
  ASSUME TypeInv, ConstantsAssumption, Log
  PROVE  /\ Waiting' = Waiting \union {logged + 1}
         /\ logged' = logged + 1 /\ table' = table /\ lost' = lost
  <1>1. AL!Log /\ logged \in Nat /\ lost' = lost
    BY LogMaps DEF TypeInv, TypeOK, Log
  <1>2. /\ batch \in Seq(1..logged + 1) /\ buffer \in Seq(1..logged + 1)
        /\ batch' \in Seq(1..logged + 1) /\ buffer' \in Seq(1..logged + 1)
        /\ logged + 1 \in 1..logged + 1
    BY <1>1, Grow, LogTypes DEF TypeInv, TypeOK, AL!Log
  <1>3. /\ batch \o buffer \in Seq(1..logged + 1)
        /\ <<logged + 1>> \in Seq(1..logged + 1)
    BY <1>2, ConcatProperties
  <1>4. batch' \o buffer' = (batch \o buffer) \o <<logged + 1>>
    BY <1>1, <1>2, <1>3, AppendIsConcat DEF AL!Log
  <1>5. Elements(batch' \o buffer') = Waiting \union {logged + 1}
    <2>1. Elements(batch \o buffer) = Waiting
      BY <1>2, ElementsJoined DEF Waiting
    <2>2. Elements((batch \o buffer) \o <<logged + 1>>)
            = Elements(batch \o buffer) \union Elements(<<logged + 1>>)
      BY <1>3, ElementsJoined
    <2> QED
      BY <1>4, <2>1, <2>2, ElementsOne
  <1>6. Elements(batch' \o buffer') = Waiting'
    BY <1>2, ElementsJoined DEF Waiting
  <1> QED
    BY <1>1, <1>5, <1>6 DEF AL!Log

LEMMA FlushMoves ==
  ASSUME TypeInv, ConstantsAssumption, TimerFlush \/ ShutdownFlush
  PROVE  Waiting' = Waiting /\ UNCHANGED <<logged, table, lost, unknown>>
  <1>1. UNCHANGED <<logged, table, lost, unknown>> /\ buffer \in Seq(1..logged)
    BY DEF TypeInv, TypeOK, TimerFlush, ShutdownFlush
  <1>2. PICK who \in {"background", "shutdown"} : StartFlush(who, buffer)
    BY DEF TimerFlush, ShutdownFlush
  <1>3. /\ batch' \in Seq(1..logged) /\ buffer' \in Seq(1..logged)
        /\ batch' \o buffer' = buffer /\ batch = <<>>
    BY <1>1, <1>2, StartFlushShape DEF TypeInv
  <1>4. Elements(batch' \o buffer') = Waiting'
    BY <1>3, ElementsJoined DEF Waiting
  <1> QED
    BY <1>1, <1>3, <1>4, ElementsEmpty DEF Waiting

LEMMA WriteMoves ==
  ASSUME TypeInv, ConstantsAssumption, WriteSucceeds \/ WriteUnconfirmed
  PROVE  Elements(table') = Elements(table) \union Elements(batch)
  <1>1. table' = table \o batch
    BY DEF WriteSucceeds, WriteUnconfirmed
  <1> QED
    BY <1>1, ElementsJoined DEF TypeInv, TypeOK

LEMMA RequeueMoves ==
  ASSUME TypeInv, ConstantsAssumption, Requeue, ResetFlushing
  PROVE  /\ Waiting' \subseteq Waiting
         /\ lost' \union Waiting' = lost \union Waiting
  <1> DEFINE all == batch \o buffer
  <1>1. batch \in Seq(1..logged) /\ buffer \in Seq(1..logged)
    BY DEF TypeInv, TypeOK
  <1>2. all \in Seq(1..logged) /\ Elements(all) = Waiting
    BY <1>1, ConcatProperties, ElementsJoined DEF Waiting
  <1>3. PICK d \in 0..Len(all) :
          /\ buffer' = SubSeq(all, d + 1, Len(all))
          /\ lost' = lost \union Elements(SubSeq(all, 1, d))
    BY <1>1, RequeueShape
  <1> HIDE DEF all
  <1>4. /\ 1 \in 1..Len(all) + 1 /\ d + 1 \in 1..Len(all) + 1 /\ Len(all) \in 0..Len(all)
    BY <1>2, LenProperties
  <1>5. SubSeq(all, 1, d) \in Seq(1..logged) /\ SubSeq(all, d + 1, Len(all)) \in Seq(1..logged)
    BY <1>2, <1>4, Part
  <1>6. Elements(SubSeq(all, 1, d)) \union Elements(buffer') = Elements(all)
    <2>1. SubSeq(all, 1, d) \o SubSeq(all, d + 1, Len(all)) = all
      BY <1>2, SplitJoin
    <2> QED
      BY <1>3, <1>5, <2>1, ElementsJoined
  <1>7. Waiting' = Elements(buffer')
    BY ElementsEmpty DEF Waiting, ResetFlushing
  <1> QED
    BY <1>2, <1>3, <1>6, <1>7

LEMMA EndMoves ==
  ASSUME TypeInv, ProcessEnds
  PROVE  /\ Waiting' = {} /\ logged' = logged /\ unknown' = unknown
         /\ \/ lost' = lost \union Waiting /\ table' = table
            \/ /\ lost' = lost \union Elements(buffer)
               /\ table' = table \o batch
               /\ Elements(table') = Elements(table) \union Elements(batch)
  <1>1. batch \in Seq(1..logged) /\ buffer \in Seq(1..logged) /\ table \in Seq(1..logged)
    BY DEF TypeInv, TypeOK
  <1>2. /\ Elements(batch \o buffer) = Waiting
        /\ Elements(table \o batch) = Elements(table) \union Elements(batch)
    BY <1>1, ElementsJoined DEF Waiting
  <1>3. Waiting' = {}
    BY ElementsEmpty DEF Waiting, ProcessEnds, ResetFlushing
  <1> QED
    BY <1>2, <1>3 DEF ProcessEnds

LEMMA ConservationStep ==
  ASSUME TypeInv, ConstantsAssumption, Conservation, [Next]_vars
  PROVE  Conservation'
  <1>0. 1..logged = Elements(table) \union Waiting \union lost
    BY DEF Conservation, Waiting
  <1>1. SUFFICES 1..logged' = Elements(table') \union Waiting' \union lost'
    BY DEF Conservation, Waiting
  <1>2. CASE Log
    <2>1. 1..logged + 1 = 1..logged \union {logged + 1}
      <3>1. logged \in Nat
        BY DEF TypeInv, TypeOK
      <3> QED
        BY <3>1
    <2> QED
      BY <1>0, <1>2, <2>1, LogMoves
  <1>3. CASE TimerFlush \/ ShutdownFlush
    BY <1>0, <1>3, FlushMoves
  <1>4. CASE WriteSucceeds
    <2>1. Waiting' = Elements(buffer) /\ logged' = logged /\ lost' = lost
      BY <1>4, ElementsEmpty DEF WriteSucceeds, ResetFlushing, Waiting
    <2> QED
      BY <1>0, <1>4, <2>1, WriteMoves DEF Waiting
  <1>5. CASE WriteFails
    <2>1. Requeue /\ ResetFlushing /\ logged' = logged /\ table' = table
      BY <1>5 DEF WriteFails
    <2> QED
      BY <1>0, <2>1, RequeueMoves
  <1>6. CASE WriteUnconfirmed
    <2>1. Requeue /\ ResetFlushing /\ logged' = logged
      BY <1>6 DEF WriteUnconfirmed
    <2>2. Elements(batch) \subseteq Waiting
      BY DEF Waiting
    <2> QED
      BY <1>0, <1>6, <2>1, <2>2, RequeueMoves, WriteMoves
  <1>7. CASE ShutdownBegins \/ ShutdownCompare
    BY <1>0, <1>7 DEF ShutdownBegins, ShutdownCompare, Waiting
  <1>8. CASE ShutdownEnds
    <2>1. /\ Waiting' = Elements(batch) /\ lost' = lost \union Elements(buffer)
          /\ logged' = logged /\ table' = table
      BY <1>8, ElementsEmpty DEF ShutdownEnds, Waiting
    <2> QED
      BY <1>0, <2>1 DEF Waiting
  <1>9. CASE ProcessEnds
    BY <1>0, <1>9, EndMoves DEF Waiting
  <1>10. CASE UNCHANGED vars
    BY <1>0, <1>10 DEF vars, Waiting
  <1> QED
    BY <1>2, <1>3, <1>4, <1>5, <1>6, <1>7, <1>8, <1>9, <1>10 DEF Next

\* No entry disappears silently: whatever fails, overflows or shuts down, it is
\* in the table, in memory, or among those given up.
THEOREM NothingDisappears == Spec => []Conservation
  <1>1. Init => TypeInv /\ Conservation
    <2>1. Init => Conservation
      BY ElementsEmpty DEF Init, Conservation
    <2> QED
      BY <2>1, InitTypes, ConstantsAssumption
  <1>2. TypeInv /\ Conservation /\ [Next]_vars => (TypeInv /\ Conservation)'
    BY StepTypes, ConservationStep, ConstantsAssumption
  <1> QED
    BY <1>1, <1>2, PTL DEF Spec

-----------------------------------------------------------------------------
(* Duplicates. A row repeats an entry only when the entry was re-queued by a *)
(* write that had taken effect, so the entries in memory that are already in *)
(* the table are counted with the duplicates: without them the bound is not  *)
(* inductive, because the repeating write itself succeeds.                   *)

Repeated == Waiting \intersect Elements(table)

DupInv ==
  /\ Len(batch) <= BatchSize
  /\ Len(table) - Cardinality(Elements(table)) + Cardinality(Repeated) <= unknown * BatchSize

LEMMA OrderedDistinct ==
  ASSUME NEW S, NEW s \in Seq(S), \A i \in DOMAIN s : s[i] \in Nat,
         \A i, k \in DOMAIN s : i < k => s[i] < s[k]
  PROVE  Cardinality(Elements(s)) = Len(s)
  <1>1. Len(s) \in Nat /\ DOMAIN s = 1..Len(s)
    BY LenProperties
  <1>2. s \in [1..Len(s) -> Elements(s)]
    BY <1>1, LenProperties DEF Elements
  <1>3. \A i, k \in 1..Len(s) : s[i] = s[k] => i = k
    BY <1>1
  <1>4. \A e \in Elements(s) : \E i \in 1..Len(s) : s[i] = e
    BY <1>1 DEF Elements
  <1>5. s \in Bijection(1..Len(s), Elements(s))
    BY <1>2, <1>3, <1>4 DEF Bijection, Injection, Surjection, IsInjective
  <1> QED
    BY <1>1, <1>5, FS_CountingElements DEF ExistsBijection

LEMMA AfterWrite ==
  ASSUME NEW T, NEW Q, IsFiniteSet(T), IsFiniteSet(Q), NEW B \in SUBSET Q
  PROVE  /\ Cardinality(T \union B) = Cardinality(T) + Cardinality(B) - Cardinality(B \intersect T)
         /\ Cardinality((Q \ B) \intersect (T \union B))
              = Cardinality(Q \intersect T) - Cardinality(B \intersect T)
         /\ Cardinality(Q \intersect (T \union B))
              = Cardinality(Q \intersect T) + Cardinality(B) - Cardinality(B \intersect T)
         /\ Cardinality(T) \in Nat /\ Cardinality(B) \in Nat
         /\ Cardinality(B \intersect T) \in Nat /\ Cardinality(Q \intersect T) \in Nat
  <1>1. IsFiniteSet(B) /\ IsFiniteSet(Q \intersect T) /\ IsFiniteSet(B \intersect T)
    BY FS_Subset, FS_Intersection
  <1>2. T \intersect B = B \intersect T /\ (Q \intersect T) \intersect B = B \intersect T
    OBVIOUS
  <1>3. Cardinality(T \union B) = Cardinality(T) + Cardinality(B) - Cardinality(B \intersect T)
    BY <1>1, <1>2, FS_Union
  <1>4. Cardinality((Q \ B) \intersect (T \union B))
          = Cardinality(Q \intersect T) - Cardinality(B \intersect T)
    <2>1. (Q \ B) \intersect (T \union B) = (Q \intersect T) \ B
      OBVIOUS
    <2>2. Cardinality((Q \intersect T) \ B)
            = Cardinality(Q \intersect T) - Cardinality((Q \intersect T) \intersect B)
      BY <1>1, FS_Difference
    <2> QED
      BY <1>2, <2>1, <2>2
  <1>5. Cardinality(Q \intersect (T \union B))
          = Cardinality(Q \intersect T) + Cardinality(B) - Cardinality(B \intersect T)
    <2>1. Q \intersect (T \union B) = (Q \intersect T) \union B
      OBVIOUS
    <2> QED
      BY <1>1, <1>2, <2>1, FS_Union
  <1> QED
    BY <1>1, <1>3, <1>4, <1>5, FS_CardinalityType

LEMMA EntriesFinite ==
  ASSUME TypeInv
  PROVE  /\ IsFiniteSet(Waiting) /\ IsFiniteSet(Elements(table))
         /\ Elements(batch) \in SUBSET Waiting
         /\ Len(table) \in Nat /\ Len(batch) \in Nat
  <1>1. logged \in Nat
    BY DEF TypeInv, TypeOK
  <1>2. IsFiniteSet(1..logged)
    BY <1>1, FS_Interval
  <1>3. /\ Elements(batch) \subseteq 1..logged /\ Elements(buffer) \subseteq 1..logged
        /\ Elements(table) \subseteq 1..logged
    BY ElementsInSet DEF TypeInv, TypeOK
  <1> QED
    BY <1>2, <1>3, FS_Subset, LenProperties DEF Waiting, TypeInv, TypeOK

\* The entries in flight are distinct, and none of them is still in the buffer.
LEMMA BatchDistinct ==
  ASSUME TypeInv, LogInv
  PROVE  /\ Cardinality(Elements(batch)) = Len(batch)
         /\ Elements(buffer) = Waiting \ Elements(batch)
  <1>1. /\ batch \in Seq(1..logged) /\ buffer \in Seq(1..logged) /\ logged \in Nat
        /\ Len(batch) \in Nat /\ DOMAIN batch = 1..Len(batch)
        /\ Len(buffer) \in Nat /\ DOMAIN buffer = 1..Len(buffer)
    BY LenProperties DEF TypeInv, TypeOK
  <1>2. /\ Queue \in Seq(1..logged) /\ DOMAIN Queue = 1..Len(batch) + Len(buffer)
        /\ \A i \in DOMAIN batch : i \in DOMAIN Queue /\ Queue[i] = batch[i]
        /\ \A i \in DOMAIN buffer : /\ Len(batch) + i \in DOMAIN Queue
                                    /\ Queue[Len(batch) + i] = buffer[i]
    BY <1>1, ConcatProperties, LenProperties DEF Queue
  <1>3. /\ \A i, k \in DOMAIN Queue : i < k => Queue[i] < Queue[k]
        /\ \A i \in DOMAIN Queue : Queue[i] \in Nat
    BY <1>1, <1>2, ElementOfSeq, LenProperties DEF LogInv, QueueInOrder
  <1>4. Cardinality(Elements(batch)) = Len(batch)
    <2>1. \A i, k \in DOMAIN batch : i < k => batch[i] < batch[k]
      BY <1>2, <1>3
    <2>2. \A i \in DOMAIN batch : batch[i] \in Nat
      BY <1>2, <1>3
    <2> QED
      BY <1>1, <2>1, <2>2, OrderedDistinct
  <1>5. ASSUME NEW i \in DOMAIN batch, NEW k \in DOMAIN buffer PROVE batch[i] # buffer[k]
    <2>1. i < Len(batch) + k
      BY <1>1
    <2>2. Queue[i] < Queue[Len(batch) + k] /\ Queue[i] \in Nat /\ Queue[Len(batch) + k] \in Nat
      BY <1>2, <1>3, <2>1
    <2> QED
      BY <1>2, <2>2
  <1>6. Elements(batch) \intersect Elements(buffer) = {}
    BY <1>5 DEF Elements
  <1> QED
    BY <1>4, <1>6 DEF Waiting

LEMMA BatchBounded ==
  ASSUME TypeInv, ConstantsAssumption, Len(batch) <= BatchSize, [Next]_vars
  PROVE  Len(batch') <= BatchSize
  <1>1. ASSUME NEW who, NEW S, NEW buf \in Seq(S), StartFlush(who, buf)
        PROVE  Len(batch') <= BatchSize
    <2> DEFINE n == Smaller(BatchSize, Len(buf))
    <2>1. Len(buf) \in Nat \ {0}
      BY <1>1, EmptySeq DEF StartFlush
    <2>2. n \in 1..Len(buf) /\ n <= BatchSize
      BY <2>1 DEF Smaller, ConstantsAssumption
    <2>3. batch' = SubSeq(buf, 1, n)
      BY <1>1 DEF StartFlush
    <2> HIDE DEF n
    <2>4. \A i \in 1..n : buf[i] \in S
      BY <2>1, <2>2, ElementOfSeq
    <2>5. Len(batch') = n
      BY <2>1, <2>2, <2>3, <2>4, SubSeqProperties
    <2> QED
      BY <2>2, <2>5
  <1>2. Len(<<>>) <= BatchSize
    BY EmptySeq DEF ConstantsAssumption
  <1>3. CASE Log
    <2> DEFINE buf == Append(buffer, logged + 1)
    <2>1. logged \in Nat
      BY DEF TypeInv, TypeOK
    <2>2. buffer \in Seq(1..logged + 1) /\ logged + 1 \in 1..logged + 1
      BY <1>3, <2>1, Grow DEF TypeInv, Log
    <2>3. buf \in Seq(1..logged + 1)
      BY <2>2, AppendProperties
    <2>4. StartFlush("background", buf) \/ (buffer' = buf /\ UNCHANGED <<flusher, batch>>)
      BY <1>3, PushShape DEF Log
    <2> HIDE DEF buf
    <2> QED
      BY <1>1, <2>3, <2>4
  <1>4. CASE TimerFlush \/ ShutdownFlush
    BY <1>1, <1>4 DEF TimerFlush, ShutdownFlush, TypeInv, TypeOK
  <1>5. CASE WriteSucceeds \/ WriteFails \/ WriteUnconfirmed \/ ProcessEnds
    BY <1>2, <1>5 DEF WriteSucceeds, WriteFails, WriteUnconfirmed, ProcessEnds, ResetFlushing
  <1>6. CASE ShutdownBegins \/ ShutdownCompare \/ ShutdownEnds \/ UNCHANGED vars
    BY <1>6 DEF ShutdownBegins, ShutdownCompare, ShutdownEnds, vars
  <1> QED
    BY <1>3, <1>4, <1>5, <1>6 DEF Next

\* Steps that write nothing repeat nothing.
LEMMA DuplicatesStay ==
  ASSUME TypeInv, ConstantsAssumption, DupInv, table' = table, unknown' = unknown,
         Repeated' \subseteq Repeated
  PROVE  Len(table') - Cardinality(Elements(table')) + Cardinality(Repeated')
           <= unknown' * BatchSize
  <1>1. IsFiniteSet(Repeated) /\ Cardinality(Elements(table)) \in Nat /\ Len(table) \in Nat
    BY EntriesFinite, FS_Intersection, FS_CardinalityType DEF Repeated
  <1>2. /\ Cardinality(Repeated') <= Cardinality(Repeated)
        /\ Cardinality(Repeated') \in Nat /\ Cardinality(Repeated) \in Nat
    BY <1>1, FS_Subset, FS_CardinalityType
  <1>3. unknown * BatchSize \in Nat
    BY DEF TypeInv, TypeOK, ConstantsAssumption
  <1> QED
    BY <1>1, <1>2, <1>3 DEF DupInv

\* The two balances of a write: confirmed, and not.
LEMMA Settled ==
  ASSUME NEW rows \in Nat, NEW known \in Nat, NEW pending \in Nat, NEW added \in Nat,
         NEW again \in Nat, NEW left \in Nat, NEW owed \in Nat,
         rows - known + pending <= owed, left <= pending - again
  PROVE  (rows + added) - (known + added - again) + left <= owed
  OBVIOUS

LEMMA Balance ==
  ASSUME NEW rows \in Nat, NEW known \in Nat, NEW pending \in Nat, NEW added \in Nat,
         NEW again \in Nat, NEW left \in Nat, NEW owed \in Nat, NEW most \in Nat,
         rows - known + pending <= owed, added <= most, left <= pending + added - again
  PROVE  (rows + added) - (known + added - again) + left <= owed + most
  OBVIOUS

\* A write adds a row per entry in flight: the repeated ones among them were
\* counted before, and what an unconfirmed write leaves to be repeated is at
\* most its own batch.
LEMMA DuplicatesWritten ==
  ASSUME TypeInv, ConstantsAssumption, LogInv, DupInv, table' = table \o batch,
         \/ unknown' = unknown /\ Waiting' \subseteq Elements(buffer)
         \/ unknown' = unknown + 1 /\ Waiting' \subseteq Waiting
  PROVE  Len(table') - Cardinality(Elements(table')) + Cardinality(Repeated')
           <= unknown' * BatchSize
  <1> DEFINE T == Elements(table)
             Q == Waiting
             B == Elements(batch)
  <1>1. /\ IsFiniteSet(T) /\ IsFiniteSet(Q) /\ B \in SUBSET Q
        /\ Len(table) \in Nat /\ Len(batch) \in Nat
    BY EntriesFinite
  <1>2. Cardinality(B) = Len(batch) /\ Elements(buffer) = Q \ B
    BY BatchDistinct
  <1>3. Elements(table') = T \union B /\ Len(table') = Len(table) + Len(batch)
    BY ElementsJoined, ConcatProperties DEF TypeInv, TypeOK
  <1>4. /\ Repeated = Q \intersect T
        /\ Repeated' = Waiting' \intersect (T \union B)
    BY <1>3 DEF Repeated
  <1>5. /\ Len(table) - Cardinality(T) + Cardinality(Q \intersect T) <= unknown * BatchSize
        /\ Len(batch) <= BatchSize
    BY <1>4 DEF DupInv
  <1>6. /\ unknown \in Nat /\ BatchSize \in Nat /\ unknown * BatchSize \in Nat
        /\ (unknown + 1) * BatchSize = unknown * BatchSize + BatchSize
    BY DEF TypeInv, TypeOK, ConstantsAssumption
  <1> HIDE DEF T, Q, B
  <1>7. /\ Cardinality(T \union B) = Cardinality(T) + Cardinality(B) - Cardinality(B \intersect T)
        /\ Cardinality((Q \ B) \intersect (T \union B))
             = Cardinality(Q \intersect T) - Cardinality(B \intersect T)
        /\ Cardinality(Q \intersect (T \union B))
             = Cardinality(Q \intersect T) + Cardinality(B) - Cardinality(B \intersect T)
        /\ Cardinality(T) \in Nat /\ Cardinality(B) \in Nat
        /\ Cardinality(B \intersect T) \in Nat /\ Cardinality(Q \intersect T) \in Nat
    BY <1>1, AfterWrite
  <1>8. CASE unknown' = unknown /\ Waiting' \subseteq Q \ B
    <2>1. Repeated' \subseteq (Q \ B) \intersect (T \union B)
      BY <1>4, <1>8
    <2>2. /\ Cardinality(Repeated') <= Cardinality((Q \ B) \intersect (T \union B))
          /\ Cardinality(Repeated') \in Nat
      BY <1>1, <2>1, FS_Difference, FS_Intersection, FS_Subset, FS_CardinalityType
    <2>3. Cardinality(Repeated') <= Cardinality(Q \intersect T) - Cardinality(B \intersect T)
      BY <1>7, <2>2
    <2>4. (Len(table) + Cardinality(B))
            - (Cardinality(T) + Cardinality(B) - Cardinality(B \intersect T))
            + Cardinality(Repeated')
            <= unknown * BatchSize
      BY <1>1, <1>5, <1>6, <1>7, <2>2, <2>3, Settled
    <2>5. /\ Len(table') = Len(table) + Cardinality(B)
          /\ Cardinality(Elements(table'))
               = Cardinality(T) + Cardinality(B) - Cardinality(B \intersect T)
          /\ unknown' * BatchSize = unknown * BatchSize
      BY <1>2, <1>3, <1>6, <1>7, <1>8
    <2> QED
      BY <2>4, <2>5
  <1>9. CASE unknown' = unknown + 1 /\ Waiting' \subseteq Q
    <2>1. Repeated' \subseteq Q \intersect (T \union B)
      BY <1>4, <1>9
    <2>2. IsFiniteSet(Q \intersect (T \union B))
      BY <1>1, FS_Intersection
    <2>3. /\ Cardinality(Repeated') <= Cardinality(Q \intersect (T \union B))
          /\ Cardinality(Repeated') \in Nat
      BY <2>1, <2>2, FS_Subset, FS_CardinalityType
    <2>4. unknown' * BatchSize = unknown * BatchSize + BatchSize
      BY <1>6, <1>9
    <2>5. Cardinality(Repeated')
            <= Cardinality(Q \intersect T) + Cardinality(B) - Cardinality(B \intersect T)
      BY <1>7, <2>3
    <2>6. /\ Len(table) - Cardinality(T) + Cardinality(Q \intersect T) <= unknown * BatchSize
          /\ Cardinality(B) <= BatchSize
      BY <1>2, <1>5
    <2>7. (Len(table) + Cardinality(B))
            - (Cardinality(T) + Cardinality(B) - Cardinality(B \intersect T))
            + Cardinality(Repeated')
            <= unknown * BatchSize + BatchSize
      BY <1>1, <1>6, <1>7, <2>3, <2>5, <2>6, Balance
    <2>8. /\ Len(table') = Len(table) + Cardinality(B)
          /\ Cardinality(Elements(table'))
               = Cardinality(T) + Cardinality(B) - Cardinality(B \intersect T)
      BY <1>2, <1>3, <1>7
    <2> QED
      BY <2>4, <2>7, <2>8
  <1> QED
    BY <1>2, <1>8, <1>9 DEF Q

LEMMA DuplicatesStep ==
  ASSUME TypeInv, ConstantsAssumption, LogInv, DupInv, [Next]_vars
  PROVE  DupInv'
  <1>1. SUFFICES Len(table') - Cardinality(Elements(table')) + Cardinality(Repeated')
                   <= unknown' * BatchSize
    BY BatchBounded DEF DupInv
  <1>2. CASE Log
    <2>1. Waiting' = Waiting \union {logged + 1} /\ table' = table
      BY <1>2, LogMoves
    <2>2. logged + 1 \notin Elements(table)
      BY ElementsInSet DEF TypeInv, TypeOK
    <2>3. unknown' = unknown
      BY <1>2 DEF Log
    <2> QED
      BY <2>1, <2>2, <2>3, DuplicatesStay DEF Repeated
  <1>3. CASE TimerFlush \/ ShutdownFlush
    BY <1>3, FlushMoves, DuplicatesStay DEF Repeated
  <1>4. CASE WriteSucceeds
    <2>1. Waiting' = Elements(buffer)
      BY <1>4, ElementsEmpty DEF WriteSucceeds, ResetFlushing, Waiting
    <2> QED
      BY <1>4, <2>1, DuplicatesWritten DEF WriteSucceeds
  <1>5. CASE WriteFails
    <2>1. Requeue /\ ResetFlushing /\ table' = table /\ unknown' = unknown
      BY <1>5 DEF WriteFails
    <2> QED
      BY <2>1, RequeueMoves, DuplicatesStay DEF Repeated
  <1>6. CASE WriteUnconfirmed
    <2>1. Requeue /\ ResetFlushing /\ table' = table \o batch /\ unknown' = unknown + 1
      BY <1>6 DEF WriteUnconfirmed
    <2> QED
      BY <2>1, RequeueMoves, DuplicatesWritten
  <1>7. CASE ShutdownBegins \/ ShutdownCompare \/ UNCHANGED vars
    <2>1. Waiting' = Waiting /\ table' = table /\ unknown' = unknown
      BY <1>7 DEF ShutdownBegins, ShutdownCompare, vars, Waiting
    <2> QED
      BY <2>1, DuplicatesStay DEF Repeated
  <1>8. CASE ShutdownEnds
    <2>1. Waiting' = Elements(batch) /\ table' = table /\ unknown' = unknown
      BY <1>8, ElementsEmpty DEF ShutdownEnds, Waiting
    <2> QED
      BY <2>1, DuplicatesStay DEF Repeated, Waiting
  <1>9. CASE ProcessEnds
    <2>1. Waiting' = {} /\ unknown' = unknown /\ (table' = table \/ table' = table \o batch)
      BY <1>9, EndMoves
    <2>2. CASE table' = table
      <3>1. Repeated' \subseteq Repeated
        BY <2>1, <2>2 DEF Repeated
      <3> QED
        BY <2>1, <2>2, <3>1, DuplicatesStay
    <2>3. CASE table' = table \o batch
      BY <2>1, <2>3, DuplicatesWritten
    <2> QED
      BY <2>1, <2>2, <2>3
  <1> QED
    BY <1>2, <1>3, <1>4, <1>5, <1>6, <1>7, <1>8, <1>9 DEF Next

\* Every row beyond the first of an entry is owed to a write whose confirmation
\* was lost, and such a write costs at most a batch of them.
THEOREM DuplicatesAreUnconfirmed == Spec => []DuplicatesOnlyUnconfirmed
  <1>1. Init => TypeInv /\ DupInv
    <2> SUFFICES ASSUME Init PROVE DupInv
      BY InitTypes, ConstantsAssumption
    <2>1. Elements(table) = {} /\ Repeated = {} /\ Len(table) = 0 /\ Len(batch) = 0
          /\ unknown = 0
      BY ElementsEmpty, EmptySeq DEF Init, Repeated
    <2> QED
      BY <2>1, FS_EmptySet, ConstantsAssumption DEF DupInv
  <1>2. Spec => []LogInv
    BY BufferImplementsLog, LogInvariant, PTL DEF ImplementsAuditLog
  <1>3. TypeInv /\ LogInv /\ DupInv /\ [Next]_vars => (TypeInv /\ DupInv)'
    BY StepTypes, DuplicatesStep, ConstantsAssumption
  <1>4. TypeInv /\ DupInv => DuplicatesOnlyUnconfirmed
    <2> SUFFICES ASSUME TypeInv, DupInv PROVE DuplicatesOnlyUnconfirmed
      OBVIOUS
    <2>1. /\ Cardinality(Repeated) \in Nat /\ Cardinality(Elements(table)) \in Nat
          /\ Len(table) \in Nat
      BY EntriesFinite, FS_Intersection, FS_CardinalityType DEF Repeated
    <2>2. unknown * BatchSize \in Nat
      BY ConstantsAssumption DEF TypeInv, TypeOK
    <2> QED
      BY <2>1, <2>2 DEF DupInv, DuplicatesOnlyUnconfirmed
  <1> QED
    BY <1>1, <1>2, <1>3, <1>4, PTL DEF Spec

-----------------------------------------------------------------------------
(* Overflow *)

\* The front of an ordered sequence is older than its back.
LEMMA FrontIsOlder ==
  ASSUME NEW S, NEW s \in Seq(S), NEW d \in 0..Len(s),
         \A j, k \in DOMAIN s : j < k => s[j] < s[k],
         NEW e \in Elements(SubSeq(s, 1, d)), NEW i \in DOMAIN SubSeq(s, d + 1, Len(s))
  PROVE  e < SubSeq(s, d + 1, Len(s))[i]
  <1>1. /\ Len(s) \in Nat /\ d \in Nat /\ 1 \in 1..Len(s) + 1
        /\ d + 1 \in 1..Len(s) + 1 /\ Len(s) \in 0..Len(s)
    BY LenProperties
  <1> DEFINE front == SubSeq(s, 1, d)
             back == SubSeq(s, d + 1, Len(s))
  <1>2. /\ front \in Seq(S)
        /\ \A k \in DOMAIN front : 1 + k - 1 \in DOMAIN s /\ front[k] = s[1 + k - 1]
    BY <1>1, Part
  <1>3. /\ back \in Seq(S)
        /\ \A k \in DOMAIN back : (d + 1) + k - 1 \in DOMAIN s /\ back[k] = s[(d + 1) + k - 1]
    BY <1>1, Part
  <1>4. Len(front) = d
    <2>1. \A k \in 1..d : s[k] \in S
      BY <1>1, ElementOfSeq
    <2> QED
      BY <1>1, <2>1, SubSeqProperties
  <1>5. PICK j \in DOMAIN front : e = front[j]
    BY DEF Elements
  <1> HIDE DEF front, back
  <1>6. j \in 1..d
    BY <1>2, <1>4, <1>5, LenProperties
  <1>7. i \in DOMAIN back /\ i \in Nat \ {0}
    BY <1>3, LenProperties DEF back
  <1>8. 1 + j - 1 = j /\ (d + 1) + i - 1 = d + i /\ j < d + i
    BY <1>1, <1>6, <1>7
  <1>9. j \in DOMAIN s /\ e = s[j] /\ d + i \in DOMAIN s /\ back[i] = s[d + i]
    BY <1>2, <1>3, <1>5, <1>7, <1>8
  <1> QED
    BY <1>8, <1>9 DEF back

\* What a re-queue discards comes before what it keeps.
LEMMA DiscardsOldest ==
  ASSUME TypeInv, ConstantsAssumption, LogInv, Requeue,
         NEW e \in lost' \ lost, NEW i \in DOMAIN buffer'
  PROVE  e < buffer'[i]
  <1>1. batch \in Seq(1..logged) /\ buffer \in Seq(1..logged)
    BY DEF TypeInv, TypeOK
  <1>2. /\ Queue \in Seq(1..logged)
        /\ \A j, k \in DOMAIN Queue : j < k => Queue[j] < Queue[k]
    BY <1>1, ConcatProperties DEF Queue, LogInv, QueueInOrder
  <1>3. PICK d \in 0..Len(Queue) :
          /\ buffer' = SubSeq(Queue, d + 1, Len(Queue))
          /\ lost' = lost \union Elements(SubSeq(Queue, 1, d))
    BY <1>1, RequeueShape DEF Queue
  <1> QED
    BY <1>2, <1>3, FrontIsOlder

\* An overflow gives up the oldest entries: nothing it keeps is older.
THEOREM OverflowIsOldest == Spec => OverflowDropsOldest
  <1>1. ASSUME TypeInv, LogInv, [Next]_vars,
               NEW e \in lost' \ lost, phase # "loop", phase' # "gone"
        PROVE  \A i \in DOMAIN buffer' : e < buffer'[i]
    <2>1. WriteFails \/ WriteUnconfirmed
      BY <1>1 DEF Next, Log, TimerFlush, WriteSucceeds, ShutdownBegins, ShutdownFlush,
                  ShutdownCompare, ShutdownEnds, ProcessEnds, vars
    <2>2. Requeue
      BY <2>1 DEF WriteFails, WriteUnconfirmed
    <2> QED
      BY <1>1, <2>2, DiscardsOldest, ConstantsAssumption
  <1>2. TypeInv /\ LogInv /\ [Next]_vars
          => [\A d \in lost' \ lost : phase # "loop" /\ phase' # "gone" =>
                \A i \in DOMAIN buffer' : d < buffer'[i]]_vars
    BY <1>1
  <1>3. Spec => []LogInv
    BY BufferImplementsLog, LogInvariant, PTL DEF ImplementsAuditLog
  <1>4. Init => TypeInv
    BY InitTypes, ConstantsAssumption
  <1>5. TypeInv /\ [Next]_vars => TypeInv'
    BY StepTypes, ConstantsAssumption
  <1> QED
    BY <1>2, <1>3, <1>4, <1>5, PTL DEF Spec, OverflowDropsOldest

=============================================================================
