------------------------------ MODULE AuditBuffer ------------------------------
(***************************************************************************)
(* AuditService: audit entries are pushed to a buffer in memory and written *)
(* to the database in batches, by a timer, by the push that completes a     *)
(* batch and, on shutdown, by onModuleDestroy. One write is in flight at    *)
(* most. One process is modelled; every process has a buffer of its own.    *)
(*                                                                          *)
(* Entries are numbered in the order of logging. An action is the code      *)
(* between two awaits.                                                      *)
(***************************************************************************)
EXTENDS Integers, Sequences, FiniteSets

CONSTANTS
  BatchSize,    \* BATCH_SIZE
  MaxBuffer,    \* MAX_BUFFER_SIZE
  MaxRetries,   \* MAX_SHUTDOWN_RETRIES
  MaxLogged,    \* bound: entries logged
  MaxUnknown    \* bound: writes that took effect although the client saw an error

ASSUME ConstantsAssumption ==
  /\ BatchSize \in Nat \ {0}
  /\ MaxBuffer \in Nat
  /\ MaxRetries \in Nat
  /\ MaxLogged \in Nat
  /\ MaxUnknown \in Nat

VARIABLES
  logged,    \* how many entries have been logged
  buffer,    \* this.buffer
  batch,     \* the entries of the write in flight
  flusher,   \* who started the write in flight: "none" is flushing = FALSE
  table,     \* the rows of auditLog, in the order of their insertion
  phase,     \* where onModuleDestroy is
  retries,   \* its local of that name
  before,    \* its local of that name
  lost,      \* history: entries discarded or gone with the process
  unknown    \* history: number of writes with a lost confirmation

vars == <<logged, buffer, batch, flusher, table, phase, retries, before, lost, unknown>>
shutdownVars == <<phase, retries, before>>

Flushers == {"none", "background", "shutdown"}

\* "loop" is the head of onModuleDestroy's loop, "awaiting" its await, "compare"
\* the rest of the iteration; "closed": it has returned; "gone": no process.
Phases == {"running", "loop", "awaiting", "compare", "closed", "gone"}

Elements(s) == {s[i] : i \in DOMAIN s}

Smaller(m, n) == IF m <= n THEN m ELSE n

Init ==
  /\ logged = 0
  /\ buffer = <<>>
  /\ batch = <<>>
  /\ flusher = "none"
  /\ table = <<>>
  /\ phase = "running"
  /\ retries = 0
  /\ before = 0
  /\ lost = {}
  /\ unknown = 0

-----------------------------------------------------------------------------
(* flush, up to its await, called with buf as the buffer *)

\* (mutant) The batch is copied (slice) and not taken out (splice).
CopyBatch(who, buf) ==
  /\ flusher = "none"
  /\ buf # <<>>
  /\ flusher' = who
  /\ batch' = SubSeq(buf, 1, Smaller(BatchSize, Len(buf)))
  /\ buffer' = buf

StartFlush(who, buf) ==
  LET n == Smaller(BatchSize, Len(buf))
  IN /\ flusher = "none"
     /\ buf # <<>>
     /\ flusher' = who
     /\ batch' = SubSeq(buf, 1, n)
     /\ buffer' = SubSeq(buf, n + 1, Len(buf))

SkipFlush(buf) ==
  /\ flusher # "none" \/ buf = <<>>
  /\ buffer' = buf
  /\ UNCHANGED <<flusher, batch>>

\* (mutant) The flag is left set.
LeaveFlushing ==
  /\ batch' = <<>>
  /\ UNCHANGED flusher

\* The end of a write: flushing is reset whatever happened.
ResetFlushing ==
  /\ batch' = <<>>
  /\ flusher' = "none"

ReturnToShutdown ==
  phase' = IF flusher = "shutdown" /\ phase = "awaiting" THEN "compare" ELSE phase

-----------------------------------------------------------------------------
(* log and the timer *)

\* A push that completes a batch flushes.
Push(buf) ==
  \/ Len(buf) >= BatchSize /\ StartFlush("background", buf)
  \/ Len(buf) >= BatchSize /\ SkipFlush(buf)
  \/ Len(buf) < BatchSize /\ buffer' = buf /\ UNCHANGED <<flusher, batch>>

Log ==
  /\ phase # "gone"
  /\ logged < MaxLogged
  /\ logged' = logged + 1
  /\ Push(Append(buffer, logged + 1))
  /\ UNCHANGED <<table, shutdownVars, lost, unknown>>

\* The interval is cleared when the shutdown begins.
TimerFlush ==
  /\ phase = "running"
  /\ StartFlush("background", buffer)
  /\ UNCHANGED <<logged, table, shutdownVars, lost, unknown>>

-----------------------------------------------------------------------------
(* the end of a write *)

WriteSucceeds ==
  /\ flusher # "none"
  /\ table' = table \o batch
  /\ ResetFlushing
  /\ ReturnToShutdown
  /\ UNCHANGED <<logged, buffer, retries, before, lost, unknown>>

\* (mutants) The batch goes back to the end, or not at all; the newest entries of
\* a buffer that is too long are discarded.
RequeueAtEnd ==
  LET all == buffer \o batch
      dropped == IF Len(all) > MaxBuffer THEN Len(all) - MaxBuffer ELSE 0
  IN /\ buffer' = SubSeq(all, dropped + 1, Len(all))
     /\ lost' = lost \union Elements(SubSeq(all, 1, dropped))

ForgetBatch == UNCHANGED <<buffer, lost>>

DiscardNewest ==
  LET all == batch \o buffer
      kept == Smaller(MaxBuffer, Len(all))
  IN /\ buffer' = SubSeq(all, 1, kept)
     /\ lost' = lost \union Elements(SubSeq(all, kept + 1, Len(all)))

\* The batch goes back to the front, and the oldest entries of a buffer that is
\* too long are discarded.
Requeue ==
  LET all == batch \o buffer
      dropped == IF Len(all) > MaxBuffer THEN Len(all) - MaxBuffer ELSE 0
  IN /\ buffer' = SubSeq(all, dropped + 1, Len(all))
     /\ lost' = lost \union Elements(SubSeq(all, 1, dropped))

WriteFails ==
  /\ flusher # "none"
  /\ Requeue
  /\ ResetFlushing
  /\ ReturnToShutdown
  /\ UNCHANGED <<logged, table, retries, before, unknown>>

\* The rows are there, but the connection broke before the client knew.
WriteUnconfirmed ==
  /\ flusher # "none"
  /\ unknown < MaxUnknown
  /\ unknown' = unknown + 1
  /\ table' = table \o batch
  /\ Requeue
  /\ ResetFlushing
  /\ ReturnToShutdown
  /\ UNCHANGED <<logged, retries, before>>

-----------------------------------------------------------------------------
(* onModuleDestroy *)

ShutdownBegins ==
  /\ phase = "running"
  /\ phase' = "loop"
  /\ retries' = 0
  /\ UNCHANGED <<logged, buffer, batch, flusher, table, before, lost, unknown>>

ShutdownFlush ==
  /\ phase = "loop"
  /\ retries < MaxRetries
  /\ StartFlush("shutdown", buffer)
  /\ before' = Len(buffer)
  /\ phase' = "awaiting"
  /\ UNCHANGED <<logged, table, retries, lost, unknown>>

ShutdownCompare ==
  /\ phase = "compare"
  /\ retries' = IF Len(buffer) >= before THEN retries + 1 ELSE 0
  /\ phase' = "loop"
  /\ UNCHANGED <<logged, buffer, batch, flusher, table, before, lost, unknown>>

\* The loop ends and what is left is discarded. While another write is in
\* flight, each flush() of the loop returns at once without effect, so the loop
\* uses up its retries without giving the answer of the database a turn: the
\* awaits of promises already settled are all run before the next I/O event.
ShutdownEnds ==
  /\ phase = "loop"
  /\ buffer = <<>> \/ retries = MaxRetries \/ flusher # "none"
  /\ lost' = lost \union Elements(buffer)
  /\ buffer' = <<>>
  /\ phase' = "closed"
  /\ retries' = IF buffer = <<>> THEN retries ELSE MaxRetries
  /\ UNCHANGED <<logged, batch, flusher, table, before, unknown>>

\* The process exits after the shutdown, or crashes before. Entries logged after
\* onModuleDestroy, and a write in flight that fails after it, go with it.
ProcessEnds ==
  /\ phase # "gone"
  /\ phase' = "gone"
  /\ \/ lost' = lost \union Elements(batch \o buffer) /\ UNCHANGED table
     \/ lost' = lost \union Elements(buffer) /\ table' = table \o batch
  /\ buffer' = <<>>
  /\ ResetFlushing
  /\ UNCHANGED <<logged, retries, before, unknown>>

-----------------------------------------------------------------------------

Next ==
  \/ Log
  \/ TimerFlush
  \/ WriteSucceeds
  \/ WriteFails
  \/ WriteUnconfirmed
  \/ ShutdownBegins
  \/ ShutdownFlush
  \/ ShutdownCompare
  \/ ShutdownEnds
  \/ ProcessEnds

Spec == Init /\ [][Next]_vars

\* The interval fires; a write ends, and not always with an error; a process
\* that has shut down exits.
Fairness ==
  /\ WF_vars(TimerFlush)
  /\ WF_vars(WriteSucceeds \/ WriteFails \/ WriteUnconfirmed)
  /\ SF_vars(WriteSucceeds)
  /\ WF_vars(ShutdownFlush \/ ShutdownCompare \/ ShutdownEnds)
  /\ WF_vars(phase = "closed" /\ ProcessEnds)

FairSpec == Spec /\ Fairness

-----------------------------------------------------------------------------

TypeOK ==
  /\ logged \in 0..MaxLogged
  /\ buffer \in Seq(1..logged)
  /\ batch \in Seq(1..logged)
  /\ flusher \in Flushers
  /\ table \in Seq(1..logged)
  /\ phase \in Phases
  /\ retries \in 0..MaxRetries
  /\ before \in Nat
  /\ lost \subseteq 1..logged
  /\ unknown \in 0..MaxUnknown

\* AuditService implements the ordered log: batches, the re-queue in front of
\* entries logged meanwhile, overflow and shutdown never let an entry overtake
\* an older one.
AL == INSTANCE AuditLog WITH pending <- batch \o buffer

ImplementsAuditLog == AL!Spec

\* In the table the first copies of the entries are in the order of logging.
TableInOrder == AL!FirstWritesInOrder

\* No entry disappears silently: each is in the table, in memory, or among those
\* that the service has discarded and reported (or that died with the process).
\* The two awaits around the batch must not open a gap.
Conservation ==
  1..logged = Elements(table) \union Elements(batch) \union Elements(buffer) \union lost

\* An entry is written more often than once only by writes whose confirmation
\* was lost.
DuplicatesOnlyUnconfirmed ==
  Len(table) - Cardinality(Elements(table)) <= unknown * BatchSize

\* What an overflow discards is older than everything that is kept.
OverflowDropsOldest ==
  [][ \A d \in lost' \ lost : phase # "loop" /\ phase' # "gone" =>
        \A i \in DOMAIN buffer' : d < buffer'[i] ]_vars

\* Every entry is eventually written or given up for good: no entry stays in the
\* buffer behind a failing one, a stuck flag or a finished shutdown.
EveryEntryEnds ==
  \A e \in 1..MaxLogged :
    logged >= e ~> e \in Elements(table) \union lost

=============================================================================
