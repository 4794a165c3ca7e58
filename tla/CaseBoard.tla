------------------------------- MODULE CaseBoard -------------------------------
(***************************************************************************)
(* The Kanban board: cases, the stages (columns) they are in, and the       *)
(* column caseCount of a stage, which the code keeps beside the cases'       *)
(* stageId: CasesService, CaseRepository, StageService, StageRepository.     *)
(*                                                                          *)
(* Only moveCaseToStage uses a transaction; everywhere else each statement   *)
(* commits by itself, and other requests run in between. One action is the   *)
(* code up to the next statement that writes or whose result is used later.  *)
(***************************************************************************)
EXTENDS Integers

CONSTANTS
  Requests,     \* requests in flight at one time
  Cases,        \* case ids (uuids, never used twice)
  MaxStage,     \* bound: stages ever created
  Titles,       \* stage titles that differ in more than case
  DefaultTitle  \* DEFAULT_STAGE_TITLE

ASSUME ConstantsAssumption == MaxStage \in Nat /\ DefaultTitle \in Titles
ASSUME NoneIsNoCase == "none" \notin Cases

VARIABLES
  existing,  \* [Cases -> "new", "live" or "deleted"]
  at,        \* [Cases -> stage id, or NoStage]: Case.stageId
  stages,    \* ids of the rows of Stages
  title,     \* [1..MaxStage -> Titles]: stageTitle
  count,     \* [1..MaxStage -> Int]: caseCount
  nextId,    \* next value of the id sequence of Stages
  req        \* [Requests -> locals]

vars == <<existing, at, stages, title, count, nextId, req>>

NoStage == 0
Keep == -1        \* an update whose body does not mention stageId
StageIds == 1..MaxStage

Steps == {"idle", "default", "reserve", "insert", "read", "move", "update",
          "decrement", "increment", "title", "remove"}

Locals == [pc: Steps, case: Cases \union {"none"}, old: StageIds \union {NoStage},
           stage: StageIds \union {NoStage, Keep}, title: Titles]

Idle == [pc |-> "idle", case |-> "none", old |-> NoStage, stage |-> NoStage, title |-> DefaultTitle]

Init ==
  /\ existing = [c \in Cases |-> "new"]
  /\ at = [c \in Cases |-> NoStage]
  /\ stages = {}
  /\ title = [s \in StageIds |-> DefaultTitle]
  /\ count = [s \in StageIds |-> 0]
  /\ nextId = 1
  /\ req = [r \in Requests |-> Idle]

Live(c) == existing[c] = "live"
Members(s) == {c \in Cases : Live(c) /\ at[c] = s}

Begin(r, locals) == req[r] = Idle /\ req' = [req EXCEPT ![r] = locals]
Goto(r, pc) == req' = [req EXCEPT ![r].pc = pc]
Finish(r) == req' = [req EXCEPT ![r] = Idle]

AddStage(t) ==
  /\ nextId <= MaxStage
  /\ stages' = stages \union {nextId}
  /\ title' = [title EXCEPT ![nextId] = t]
  /\ nextId' = nextId + 1

-----------------------------------------------------------------------------
(* create *)

\* A stage id without a row is treated as if none had been given, except that no
\* stage of the default title is looked for.
Create(r) ==
  \E s \in StageIds \union {NoStage} :
    LET found == IF s # NoStage THEN stages \intersect {s}
                 ELSE {d \in stages : title[d] = DefaultTitle}
    IN /\ \/ \E d \in found : Begin(r, [Idle EXCEPT !.pc = "reserve", !.stage = d])
          \/ found = {} /\ Begin(r, [Idle EXCEPT !.pc = "default"])
       /\ UNCHANGED <<existing, at, stages, title, count, nextId>>

CreateDefaultStage(r) ==
  /\ req[r].pc = "default"
  /\ AddStage(DefaultTitle)
  /\ req' = [req EXCEPT ![r].pc = "reserve", ![r].stage = nextId]
  /\ UNCHANGED <<existing, at, count>>

\* (mutant) The stage a new case is put in is not counted.
ReserveNothing(r) ==
  /\ req[r].pc = "reserve"
  /\ Goto(r, "insert")
  /\ UNCHANGED <<existing, at, stages, title, count, nextId>>

\* The case is counted before it exists.
Reserve(r) ==
  LET s == req[r].stage
  IN /\ req[r].pc = "reserve"
     /\ \/ s \in stages /\ count' = [count EXCEPT ![s] = @ + 1] /\ Goto(r, "insert")
        \/ s \notin stages /\ Finish(r) /\ UNCHANGED count
     /\ UNCHANGED <<existing, at, stages, title, nextId>>

Insert(r) ==
  LET s == req[r].stage
  IN /\ req[r].pc = "insert"
     /\ \/ \E c \in Cases :
             /\ s \in stages
             /\ existing[c] = "new"
             /\ existing' = [existing EXCEPT ![c] = "live"]
             /\ at' = [at EXCEPT ![c] = s]
        \/ s \notin stages /\ UNCHANGED <<existing, at>>
     /\ Finish(r)
     /\ UNCHANGED <<stages, title, count, nextId>>

-----------------------------------------------------------------------------
(* dragCase *)

\* The service's checks: the case is in the stage the client says, and the new
\* stage exists. Neither result is used again.
Drag(r, c, current, new) ==
  /\ Live(c)
  /\ at[c] = current
  /\ new \in stages
  /\ Begin(r, [Idle EXCEPT !.pc = "read", !.case = c, !.stage = new, !.old = current])
  /\ UNCHANGED <<existing, at, stages, title, count, nextId>>

\* moveCaseToStage reads the stage again, outside its transaction.
DragRead(r) ==
  LET c == req[r].case
      old == IF Live(c) THEN at[c] ELSE NoStage
  IN /\ req[r].pc = "read"
     /\ \/ old = req[r].stage /\ Finish(r)
        \/ old # req[r].stage /\ req' = [req EXCEPT ![r].pc = "move", ![r].old = old]
     /\ UNCHANGED <<existing, at, stages, title, count, nextId>>

\* One transaction, rolled back when one of its rows is missing.
Move(r) ==
  LET c == req[r].case
      old == req[r].old
      new == req[r].stage
  IN /\ req[r].pc = "move"
     /\ \/ /\ Live(c) /\ {old, new} \subseteq stages \union {NoStage}
           /\ count' = [s \in StageIds |-> count[s] + (IF s = new THEN 1 ELSE 0)
                                                    - (IF s = old THEN 1 ELSE 0)]
           /\ at' = [at EXCEPT ![c] = new]
        \/ ~ (Live(c) /\ {old, new} \subseteq stages \union {NoStage}) /\ UNCHANGED <<count, at>>
     /\ Finish(r)
     /\ UNCHANGED <<existing, stages, title, nextId>>

-----------------------------------------------------------------------------
(* update *)

\* The service's and the repository's lookups, and the check of a new stage.
Update(r, c, new) ==
  /\ Live(c)
  /\ new \in stages \union {NoStage, Keep}
  /\ Begin(r, [Idle EXCEPT !.pc = "update", !.case = c, !.old = at[c], !.stage = new])
  /\ UNCHANGED <<existing, at, stages, title, count, nextId>>

\* (mutant) An absent stageId is stored like a given one.
StoreAbsent(r) == req[r].stage

\* The stage of the case after the statement, and whether its foreign key holds.
NewStage(r) == IF req[r].stage = Keep THEN at[req[r].case] ELSE req[r].stage
Connected(r) == req[r].stage \in stages \union {NoStage, Keep}

\* case.update; afterwards the counters are adjusted when the stage returned by
\* the statement is not the one read before.
UpdateCase(r) ==
  LET c == req[r].case
      new == NewStage(r)
      next == IF req[r].old = NoStage THEN "increment" ELSE "decrement"
  IN /\ req[r].pc = "update"
     /\ \/ /\ Live(c) /\ Connected(r)
           /\ at' = [at EXCEPT ![c] = new]
           /\ \/ new = req[r].old /\ Finish(r)
              \/ new # req[r].old /\ req' = [req EXCEPT ![r].pc = next, ![r].stage = new]
        \/ ~ (Live(c) /\ Connected(r)) /\ Finish(r) /\ UNCHANGED at
     /\ UNCHANGED <<existing, stages, title, count, nextId>>

\* (mutant) A move by update only takes the case out of its old stage.
DecrementOnly(r) ==
  LET old == req[r].old
  IN /\ req[r].pc = "decrement"
     /\ count' = IF old \in stages THEN [count EXCEPT ![old] = @ - 1] ELSE count
     /\ Finish(r)
     /\ UNCHANGED <<existing, at, stages, title, nextId>>

\* Shared with delete, which has no stage to increment. A missing stage ends the
\* request with an error.
Decrement(r) ==
  LET old == req[r].old
      go == IF old \in stages /\ req[r].stage # NoStage THEN [req[r] EXCEPT !.pc = "increment"]
            ELSE Idle
  IN /\ req[r].pc = "decrement"
     /\ count' = IF old \in stages THEN [count EXCEPT ![old] = @ - 1] ELSE count
     /\ req' = [req EXCEPT ![r] = go]
     /\ UNCHANGED <<existing, at, stages, title, nextId>>

Increment(r) ==
  LET new == req[r].stage
  IN /\ req[r].pc = "increment"
     /\ count' = IF new \in stages THEN [count EXCEPT ![new] = @ + 1] ELSE count
     /\ Finish(r)
     /\ UNCHANGED <<existing, at, stages, title, nextId>>

-----------------------------------------------------------------------------
(* delete *)

\* case.delete returns the row, so the stage to decrement is the current one.
Delete(r, c) ==
  /\ Live(c)
  /\ existing' = [existing EXCEPT ![c] = "deleted"]
  /\ at' = [at EXCEPT ![c] = NoStage]
  /\ \/ at[c] = NoStage /\ req[r] = Idle /\ UNCHANGED req
     \/ at[c] # NoStage /\ Begin(r, [Idle EXCEPT !.pc = "decrement", !.case = c, !.old = at[c]])
  /\ UNCHANGED <<stages, title, count, nextId>>

-----------------------------------------------------------------------------
(* StageService.create and remove *)

CreateStage(r, t) ==
  /\ \A s \in stages : title[s] # t
  /\ Begin(r, [Idle EXCEPT !.pc = "title", !.title = t])
  /\ UNCHANGED <<existing, at, stages, title, count, nextId>>

InsertStage(r) ==
  /\ req[r].pc = "title"
  /\ AddStage(req[r].title)
  /\ Finish(r)
  /\ UNCHANGED <<existing, at, count>>

RemoveStage(r, s) ==
  /\ s \in stages
  /\ Members(s) = {}
  /\ Begin(r, [Idle EXCEPT !.pc = "remove", !.stage = s])
  /\ UNCHANGED <<existing, at, stages, title, count, nextId>>

\* The foreign key of Case is ON DELETE SET NULL.
DeleteStage(r) ==
  LET s == req[r].stage
  IN /\ req[r].pc = "remove"
     /\ stages' = stages \ {s}
     /\ at' = [c \in Cases |-> IF at[c] = s THEN NoStage ELSE at[c]]
     /\ Finish(r)
     /\ UNCHANGED <<existing, title, count, nextId>>

-----------------------------------------------------------------------------

\* A statement fails for a reason outside the model, or the process ends.
RequestDies(r) ==
  /\ req[r] # Idle
  /\ Finish(r)
  /\ UNCHANGED <<existing, at, stages, title, count, nextId>>

\* One step of a request, apart from its untimely end.
Serve(r) ==
  \/ Create(r)
  \/ CreateDefaultStage(r)
  \/ Reserve(r)
  \/ Insert(r)
  \/ \E c \in Cases, s, n \in StageIds : Drag(r, c, s, n)
  \/ DragRead(r)
  \/ Move(r)
  \/ \E c \in Cases, n \in StageIds \union {NoStage, Keep} : Update(r, c, n)
  \/ UpdateCase(r)
  \/ Decrement(r)
  \/ Increment(r)
  \/ \E c \in Cases : Delete(r, c)
  \/ \E t \in Titles : CreateStage(r, t)
  \/ InsertStage(r)
  \/ \E s \in StageIds : RemoveStage(r, s)
  \/ DeleteStage(r)

Next == \E r \in Requests : Serve(r) \/ RequestDies(r)

Spec == Init /\ [][Next]_vars

-----------------------------------------------------------------------------
TypeOK ==
  /\ existing \in [Cases -> {"new", "live", "deleted"}]
  /\ at \in [Cases -> StageIds \union {NoStage}]
  /\ stages \subseteq StageIds
  /\ title \in [StageIds -> Titles]
  /\ count \in [StageIds -> Int]
  /\ nextId \in 1..MaxStage + 1
  /\ req \in [Requests -> Locals]

=============================================================================
