------------------------------ MODULE BoardProofs ------------------------------
(***************************************************************************)
(* The counters of the board and what a client sees of it, for any number   *)
(* of requests, cases, stages and titles; and the filters of a search, for   *)
(* all values of a condition and whatever is in a column.                    *)
(***************************************************************************)
EXTENDS MCBoard, Folds, FiniteSetTheorems, SequenceTheorems, WellFoundedInduction, TLAPS

\* A request that moves or updates a case knows which.
CaseKnown == \A r \in Requests : req[r].pc \in {"read", "move", "update"} => req[r].case \in Cases

TypeInv == TypeOK /\ CaseKnown

\* Request r goes on with locals l that are in order.
Proper(l) == l \in Locals /\ (l.pc \in {"read", "move", "update"} => l.case \in Cases)
Served(r) == \E l \in Locals : Proper(l) /\ req' = [req EXCEPT ![r] = l]

LEMMA IdleProper == Proper(Idle)
  BY ConstantsAssumption DEF Proper, Idle, Locals, Steps

\* What a request holds has the right types.
LEMMA LocalsShape ==
  ASSUME TypeInv, NEW r \in Requests
  PROVE  /\ req[r] \in Locals
         /\ req[r].pc \in Steps /\ req[r].case \in Cases \union {"none"}
         /\ req[r].old \in StageIds \union {NoStage}
         /\ req[r].stage \in StageIds \union {NoStage, Keep} /\ req[r].title \in Titles
  <1>1. req[r] \in Locals
    BY DEF TypeInv, TypeOK
  <1> QED
    BY <1>1 DEF Locals

LEMMA GoesOn ==
  ASSUME NEW r \in Requests, NEW l, Proper(l), req' = [req EXCEPT ![r] = l]
  PROVE  Served(r)
  BY DEF Served, Proper

LEMMA ServedTypes ==
  ASSUME TypeInv, NEW r \in Requests, Served(r)
  PROVE  req' \in [Requests -> Locals] /\ CaseKnown'
  BY DEF TypeInv, TypeOK, CaseKnown, Served, Proper

LEMMA FinishServes ==
  ASSUME TypeInv, NEW r \in Requests, Finish(r)
  PROVE  Served(r)
  BY IdleProper DEF Finish, Served, Proper

LEMMA GotoServes ==
  ASSUME TypeInv, NEW r \in Requests, NEW pc \in Steps \ {"read", "move", "update"}, Goto(r, pc)
  PROVE  Served(r)
  <1>1. req' = [req EXCEPT ![r] = [req[r] EXCEPT !.pc = pc]]
    BY DEF Goto
  <1>2. Proper([req[r] EXCEPT !.pc = pc])
    BY LocalsShape DEF Proper, Locals
  <1> QED
    BY <1>1, <1>2, GoesOn

\* The first action of a request that only reads.
LEMMA BeginServes ==
  ASSUME TypeInv, NEW r \in Requests,
         \/ Create(r)
         \/ \E c \in Cases, s, n \in StageIds : Drag(r, c, s, n)
         \/ \E c \in Cases, n \in StageIds \union {NoStage, Keep} : Update(r, c, n)
         \/ \E t \in Titles : CreateStage(r, t)
         \/ \E s \in StageIds : RemoveStage(r, s)
  PROVE  Served(r) /\ UNCHANGED <<existing, at, stages, title, count, nextId>>
  <1> USE ConstantsAssumption DEF Proper, Locals, Idle, Steps, Begin
  <1>1. CASE Create(r)
    <2>1. ASSUME NEW d \in StageIds PROVE Proper([Idle EXCEPT !.pc = "reserve", !.stage = d])
      OBVIOUS
    <2>2. Proper([Idle EXCEPT !.pc = "default"])
      OBVIOUS
    <2>3. stages \subseteq StageIds
      BY DEF TypeInv, TypeOK
    <2> HIDE DEF Proper, Idle
    <2> QED
      BY <1>1, <2>1, <2>2, <2>3, GoesOn DEF Create
  <1>2. ASSUME NEW c \in Cases, NEW s \in StageIds, NEW n \in StageIds, Drag(r, c, s, n)
        PROVE  Served(r)
    <2>1. Proper([Idle EXCEPT !.pc = "read", !.case = c, !.stage = n, !.old = s])
      OBVIOUS
    <2> HIDE DEF Proper, Idle
    <2> QED
      BY <1>2, <2>1, GoesOn DEF Drag
  <1>3. ASSUME NEW c \in Cases, NEW n \in StageIds \union {NoStage, Keep}, Update(r, c, n)
        PROVE  Served(r)
    <2>1. at[c] \in StageIds \union {NoStage}
      BY DEF TypeInv, TypeOK
    <2>2. Proper([Idle EXCEPT !.pc = "update", !.case = c, !.old = at[c], !.stage = n])
      BY <2>1
    <2> HIDE DEF Proper, Idle
    <2> QED
      BY <1>3, <2>2, GoesOn DEF Update
  <1>4. ASSUME NEW t \in Titles, CreateStage(r, t) PROVE Served(r)
    <2>1. Proper([Idle EXCEPT !.pc = "title", !.title = t])
      OBVIOUS
    <2> HIDE DEF Proper, Idle
    <2> QED
      BY <1>4, <2>1, GoesOn DEF CreateStage
  <1>5. ASSUME NEW s \in StageIds, RemoveStage(r, s) PROVE Served(r)
    <2>1. Proper([Idle EXCEPT !.pc = "remove", !.stage = s])
      OBVIOUS
    <2> HIDE DEF Proper, Idle
    <2> QED
      BY <1>5, <2>1, GoesOn DEF RemoveStage
  <1> QED
    BY <1>1, <1>2, <1>3, <1>4, <1>5 DEF Create, Drag, Update, CreateStage, RemoveStage

LEMMA StageStepTypes ==
  ASSUME TypeInv, NEW r \in Requests,
         CreateDefaultStage(r) \/ InsertStage(r) \/ DeleteStage(r)
  PROVE  TypeInv'
  <1>1. CASE CreateDefaultStage(r)
    <2>1. nextId \in StageIds
      BY <1>1, ConstantsAssumption DEF CreateDefaultStage, AddStage, TypeInv, TypeOK, StageIds
    <2>2. Served(r)
      <3>1. req' = [req EXCEPT ![r] = [req[r] EXCEPT !.pc = "reserve", !.stage = nextId]]
        BY <1>1 DEF CreateDefaultStage
      <3>2. Proper([req[r] EXCEPT !.pc = "reserve", !.stage = nextId])
        BY <2>1, LocalsShape DEF Proper, Locals, Steps
      <3> QED
        BY <3>1, <3>2, GoesOn
    <2> QED
      BY <1>1, <2>1, <2>2, ServedTypes, ConstantsAssumption
         DEF CreateDefaultStage, AddStage, TypeInv, TypeOK, StageIds
  <1>2. CASE InsertStage(r)
    <2>1. nextId \in StageIds /\ req[r].title \in Titles
      BY <1>2, LocalsShape, ConstantsAssumption DEF InsertStage, AddStage, TypeInv, TypeOK, StageIds
    <2>2. Served(r)
      BY <1>2, FinishServes DEF InsertStage
    <2> QED
      BY <1>2, <2>1, <2>2, ServedTypes, ConstantsAssumption
         DEF InsertStage, AddStage, TypeInv, TypeOK, StageIds
  <1>3. CASE DeleteStage(r)
    BY <1>3, FinishServes, ServedTypes DEF DeleteStage, TypeInv, TypeOK
  <1> QED
    BY <1>1, <1>2, <1>3

LEMMA CaseStepTypes ==
  ASSUME TypeInv, NEW r \in Requests,
         \/ Reserve(r) \/ Insert(r) \/ DragRead(r) \/ Move(r) \/ UpdateCase(r)
         \/ Decrement(r) \/ Increment(r)
         \/ \E c \in Cases : Delete(r, c)
  PROVE  TypeInv'
  <1>1. CASE Reserve(r)
    <2>1. Served(r)
      BY <1>1, GotoServes, FinishServes DEF Reserve, Steps
    <2>2. count' \in [StageIds -> Int]
      BY <1>1 DEF Reserve, TypeInv, TypeOK
    <2> QED
      BY <1>1, <2>1, <2>2, ServedTypes DEF Reserve, TypeInv, TypeOK
  <1>2. CASE Insert(r)
    <2>1. Served(r)
      BY <1>2, FinishServes DEF Insert
    <2>2. at' \in [Cases -> StageIds \union {NoStage}] /\ existing' \in [Cases -> {"new", "live", "deleted"}]
      BY <1>2 DEF Insert, TypeInv, TypeOK
    <2> QED
      BY <1>2, <2>1, <2>2, ServedTypes DEF Insert, TypeInv, TypeOK
  <1>3. CASE DragRead(r)
    <2> DEFINE old == IF Live(req[r].case) THEN at[req[r].case] ELSE NoStage
    <2>1. req[r].case \in Cases
      BY <1>3 DEF DragRead, TypeInv, CaseKnown
    <2>2. old \in StageIds \union {NoStage}
      BY <2>1 DEF TypeInv, TypeOK
    <2>3. ASSUME req' = [req EXCEPT ![r].pc = "move", ![r].old = old] PROVE Served(r)
      <3>1. req' = [req EXCEPT ![r] = [req[r] EXCEPT !.pc = "move", !.old = old]]
        BY <2>3
      <3>2. Proper([req[r] EXCEPT !.pc = "move", !.old = old])
        BY <2>1, <2>2, LocalsShape DEF Proper, Locals, Steps
      <3> QED
        BY <3>1, <3>2, GoesOn
    <2>4. Served(r)
      BY <1>3, <2>3, FinishServes DEF DragRead
    <2> QED
      BY <1>3, <2>4, ServedTypes DEF DragRead, TypeInv, TypeOK
  <1>4. CASE Move(r)
    <2>1. Served(r)
      BY <1>4, FinishServes DEF Move
    <2>2. at' \in [Cases -> StageIds \union {NoStage}] /\ count' \in [StageIds -> Int]
      BY <1>4 DEF Move, TypeInv, TypeOK
    <2> QED
      BY <1>4, <2>1, <2>2, ServedTypes DEF Move, TypeInv, TypeOK
  <1>5. CASE UpdateCase(r)
    <2>1. req[r].case \in Cases
      BY <1>5 DEF UpdateCase, TypeInv, CaseKnown
    <2>2. Connected(r) => NewStage(r) \in StageIds \union {NoStage}
      BY <2>1, LocalsShape DEF Connected, NewStage, TypeInv, TypeOK
    <2>3. ASSUME NEW next \in {"increment", "decrement"}, Connected(r),
                 req' = [req EXCEPT ![r].pc = next, ![r].stage = NewStage(r)]
          PROVE  Served(r)
      <3>1. req' = [req EXCEPT ![r] = [req[r] EXCEPT !.pc = next, !.stage = NewStage(r)]]
        BY <2>3
      <3>2. Proper([req[r] EXCEPT !.pc = next, !.stage = NewStage(r)])
        BY <2>2, <2>3, LocalsShape DEF Proper, Locals, Steps
      <3> QED
        BY <3>1, <3>2, GoesOn
    <2>4. Served(r)
      BY <1>5, <2>3, FinishServes DEF UpdateCase
    <2>5. at' \in [Cases -> StageIds \union {NoStage}]
      BY <1>5, <2>1, <2>2 DEF UpdateCase, TypeInv, TypeOK
    <2> QED
      BY <1>5, <2>4, <2>5, ServedTypes DEF UpdateCase, TypeInv, TypeOK
  <1>6. CASE Decrement(r)
    <2>1. Served(r)
      <3>1. CASE req' = [req EXCEPT ![r] = Idle]
        BY <3>1, FinishServes DEF Finish
      <3>2. CASE req' = [req EXCEPT ![r] = [req[r] EXCEPT !.pc = "increment"]]
        BY <3>2, GotoServes DEF Goto, Steps, TypeInv, TypeOK
      <3> QED
        BY <1>6, <3>1, <3>2 DEF Decrement
    <2>2. count' \in [StageIds -> Int]
      BY <1>6 DEF Decrement, TypeInv, TypeOK
    <2> QED
      BY <1>6, <2>1, <2>2, ServedTypes DEF Decrement, TypeInv, TypeOK
  <1>7. CASE Increment(r)
    <2>1. Served(r)
      BY <1>7, FinishServes DEF Increment
    <2>2. count' \in [StageIds -> Int]
      BY <1>7 DEF Increment, TypeInv, TypeOK
    <2> QED
      BY <1>7, <2>1, <2>2, ServedTypes DEF Increment, TypeInv, TypeOK
  <1>8. ASSUME NEW c \in Cases, Delete(r, c) PROVE TypeInv'
    <2>1. ASSUME Begin(r, [Idle EXCEPT !.pc = "decrement", !.case = c, !.old = at[c]])
          PROVE  Served(r)
      <3>1. at[c] \in StageIds \union {NoStage}
        BY DEF TypeInv, TypeOK
      <3>2. Proper([Idle EXCEPT !.pc = "decrement", !.case = c, !.old = at[c]])
        BY <3>1, ConstantsAssumption DEF Proper, Locals, Idle, Steps
      <3> QED
        BY <2>1, <3>2, GoesOn DEF Begin
    <2>2. req' \in [Requests -> Locals] /\ CaseKnown'
      BY <1>8, <2>1, ServedTypes DEF Delete, TypeInv, TypeOK, CaseKnown
    <2>3. /\ existing' \in [Cases -> {"new", "live", "deleted"}]
          /\ at' \in [Cases -> StageIds \union {NoStage}]
      BY <1>8 DEF Delete, TypeInv, TypeOK
    <2> QED
      BY <1>8, <2>2, <2>3 DEF Delete, TypeInv, TypeOK
  <1> QED
    BY <1>1, <1>2, <1>3, <1>4, <1>5, <1>6, <1>7, <1>8

LEMMA NextTypes == TypeInv /\ [Next]_vars => TypeInv'
  <1> SUFFICES ASSUME TypeInv, [Next]_vars PROVE TypeInv'
    OBVIOUS
  <1>1. ASSUME NEW r \in Requests, Served(r), UNCHANGED <<existing, at, stages, title, count, nextId>>
        PROVE  TypeInv'
    BY <1>1, ServedTypes DEF TypeInv, TypeOK
  <1>2. ASSUME NEW r \in Requests, Serve(r) PROVE TypeInv'
    BY <1>1, <1>2, BeginServes, StageStepTypes, CaseStepTypes DEF Serve
  <1>3. ASSUME NEW r \in Requests, RequestDies(r) PROVE TypeInv'
    BY <1>1, <1>3, FinishServes DEF RequestDies
  <1>4. CASE UNCHANGED vars
    BY <1>4 DEF vars, TypeInv, TypeOK, CaseKnown
  <1> QED
    BY <1>2, <1>3, <1>4 DEF Next

LEMMA InitTypes == Init => TypeInv
  <1> SUFFICES ASSUME Init PROVE TypeInv
    OBVIOUS
  <1>1. nextId \in 1..MaxStage + 1
    BY ConstantsAssumption DEF Init
  <1> QED
    BY <1>1, IdleProper, ConstantsAssumption DEF Init, TypeInv, TypeOK, CaseKnown, Proper, Idle

\* The board stays well typed.
THEOREM TypeCorrect == Spec => []TypeOK
  <1>1. TypeInv => TypeOK
    BY DEF TypeInv
  <1> QED
    BY <1>1, InitTypes, NextTypes, PTL DEF Spec

-----------------------------------------------------------------------------
(* The board and the requests *)

\* Stage ids in use are below the next one, cases stand in stages that exist, a
\* case that is not on the board has no stage, and requests know only cases that
\* have been created.
Placed ==
  /\ \A s \in stages : s < nextId
  /\ \A c \in Cases : at[c] \in stages \union {NoStage}
  /\ \A c \in Cases : ~ Live(c) => at[c] = NoStage
  /\ \A r \in Requests : req[r].stage < nextId
  /\ \A r \in Requests : req[r].case \in Cases => existing[req[r].case] # "new"

\* In the first regime what a request has read of its case and of the stage to
\* be decremented is still so.
UpToDate ==
  \A r \in Requests :
    /\ req[r].pc \in {"move", "update"} /\ Live(req[r].case) => at[req[r].case] = req[r].old
    /\ req[r].pc = "decrement" => req[r].old \in stages

Base == TypeInv /\ Placed

LEMMA IdleLocals == Idle \in Locals /\ Idle.stage = NoStage /\ Idle.case \notin Cases /\ Idle.pc = "idle"
  BY IdleProper, NoneIsNoCase DEF Proper, Idle

LEMMA InitPlaced == Init => Placed
  BY ConstantsAssumption, IdleLocals DEF Init, Placed, NoStage, Live

\* One request goes on; the board is as it was.
LEMMA QuietPlaced ==
  ASSUME Base, NEW r \in Requests, NEW l \in Locals,
         req' = [req EXCEPT ![r] = l], UNCHANGED <<existing, at, stages, nextId>>,
         l.stage \in stages \union {NoStage, Keep, req[r].stage},
         l.case \in Cases => l.case = req[r].case \/ Live(l.case)
  PROVE  Placed'
  <1>1. l.stage < nextId
    BY LocalsShape DEF Base, TypeInv, TypeOK, Placed, NoStage, Keep
  <1>2. l.case \in Cases => existing[l.case] # "new"
    BY DEF Base, Placed, Live
  <1> QED
    BY <1>1, <1>2 DEF Base, TypeInv, TypeOK, Placed, Live

LEMMA EndPlaced ==
  ASSUME Base, NEW r \in Requests, Finish(r), UNCHANGED <<existing, at, stages, nextId>>
  PROVE  Placed'
  <1> HIDE DEF Idle
  <1> QED
    BY IdleLocals, QuietPlaced DEF Finish

LEMMA BeginPlaced ==
  ASSUME Base, NEW r \in Requests,
         \/ Create(r)
         \/ \E c \in Cases, s, n \in StageIds : Drag(r, c, s, n)
         \/ \E c \in Cases, n \in StageIds \union {NoStage, Keep} : Update(r, c, n)
         \/ \E t \in Titles : CreateStage(r, t)
         \/ \E s \in StageIds : RemoveStage(r, s)
  PROVE  Placed'
  <1>1. Served(r) /\ UNCHANGED <<existing, at, stages, title, count, nextId>>
    BY BeginServes DEF Base
  <1>2. PICK l \in Locals : req' = [req EXCEPT ![r] = l]
    BY <1>1 DEF Served
  <1>3. l = req'[r] /\ req[r] = Idle
    BY <1>2 DEF Base, TypeInv, TypeOK, Create, Drag, Update, CreateStage, RemoveStage, Begin
  <1>4. l.stage \in stages \union {NoStage, Keep} /\ (l.case \in Cases => Live(l.case))
    <2>1. /\ l.stage \in stages \union {NoStage, Keep}
          /\ l.case = "none" \/ (l.case \in Cases /\ Live(l.case))
      <3> USE <1>3 DEF Base, TypeInv, TypeOK, Begin, Idle
      <3>1. CASE Create(r)
        BY <3>1 DEF Create
      <3>2. CASE \E c \in Cases, s, n \in StageIds : Drag(r, c, s, n)
        BY <3>2 DEF Drag
      <3>3. CASE \E c \in Cases, n \in StageIds \union {NoStage, Keep} : Update(r, c, n)
        BY <3>3 DEF Update
      <3>4. CASE \E t \in Titles : CreateStage(r, t)
        BY <3>4 DEF CreateStage
      <3>5. CASE \E s \in StageIds : RemoveStage(r, s)
        BY <3>5 DEF RemoveStage
      <3> QED
        BY <3>1, <3>2, <3>3, <3>4, <3>5
    <2> QED
      BY <2>1, NoneIsNoCase
  <1> QED
    BY <1>1, <1>2, <1>4, QuietPlaced

LEMMA StagePlaced ==
  ASSUME Base, NEW r \in Requests, CreateDefaultStage(r) \/ InsertStage(r) \/ DeleteStage(r)
  PROVE  Placed'
  <1>1. CASE CreateDefaultStage(r)
    <2>1. /\ req'[r] = [req[r] EXCEPT !.pc = "reserve", !.stage = nextId]
          /\ \A q \in Requests \ {r} : req'[q] = req[q]
          /\ UNCHANGED <<existing, at>> /\ stages' = stages \union {nextId} /\ nextId' = nextId + 1
      BY <1>1 DEF CreateDefaultStage, AddStage, Base, TypeInv, TypeOK
    <2>2. req'[r].stage = nextId /\ req'[r].case = req[r].case
      BY <2>1, LocalsShape DEF Base, Locals
    <2>3. nextId \in Nat
      BY ConstantsAssumption DEF Base, TypeInv, TypeOK
    <2>4. \A q \in Requests : req'[q].stage < nextId'
      <3>1. \A q \in Requests : req[q].stage \in Int /\ req[q].stage < nextId
        BY LocalsShape, ConstantsAssumption DEF Base, Placed, StageIds, NoStage, Keep
      <3>2. nextId' = nextId + 1 /\ \A q \in Requests \ {r} : req'[q] = req[q]
        BY <2>1
      <3> QED
        BY <2>2, <2>3, <3>1, <3>2
    <2>5. \A q \in Requests : req'[q].case \in Cases => existing'[req'[q].case] # "new"
      BY <2>1, <2>2 DEF Base, Placed
    <2>6. \A s \in stages' : s < nextId'
      BY <2>1, <2>3, ConstantsAssumption DEF Base, Placed, TypeInv, TypeOK, StageIds
    <2> QED
      BY <2>1, <2>4, <2>5, <2>6 DEF Base, Placed, Live
  <1>2. CASE InsertStage(r)
    <2>1. /\ req'[r] = Idle
          /\ \A q \in Requests \ {r} : req'[q] = req[q]
          /\ UNCHANGED <<existing, at>> /\ stages' = stages \union {nextId} /\ nextId' = nextId + 1
      BY <1>2 DEF InsertStage, AddStage, Finish, Base, TypeInv, TypeOK
    <2>3. nextId \in Nat /\ nextId > 0
      BY ConstantsAssumption DEF Base, TypeInv, TypeOK
    <2>4. \A q \in Requests : req'[q].stage < nextId'
      <3>1. \A q \in Requests : req[q].stage \in Int /\ req[q].stage < nextId
        BY LocalsShape, ConstantsAssumption DEF Base, Placed, StageIds, NoStage, Keep
      <3>2. req'[r].stage = 0
        BY <2>1, IdleLocals DEF NoStage
      <3>3. nextId' > nextId
        BY <2>1, <2>3
      <3> QED
        BY <2>1, <2>3, <3>1, <3>2, <3>3
    <2>5. \A q \in Requests : req'[q].case \in Cases => existing'[req'[q].case] # "new"
      BY <2>1, IdleLocals DEF Base, Placed
    <2>6. \A s \in stages' : s < nextId'
      BY <2>1, <2>3, ConstantsAssumption DEF Base, Placed, TypeInv, TypeOK, StageIds
    <2> QED
      BY <2>1, <2>4, <2>5, <2>6 DEF Base, Placed, Live
  <1>3. CASE DeleteStage(r)
    <2>1. /\ req'[r] = Idle
          /\ \A q \in Requests \ {r} : req'[q] = req[q]
          /\ UNCHANGED <<existing, nextId>> /\ stages' = stages \ {req[r].stage}
          /\ at' = [c \in Cases |-> IF at[c] = req[r].stage THEN NoStage ELSE at[c]]
      BY <1>3 DEF DeleteStage, Finish, Base, TypeInv, TypeOK
    <2> QED
      BY <2>1, IdleLocals DEF Base, Placed, Live, TypeInv, TypeOK, StageIds, NoStage
  <1> QED
    BY <1>1, <1>2, <1>3

LEMMA CasePlaced ==
  ASSUME Base, NEW r \in Requests,
         \/ Reserve(r) \/ Insert(r) \/ DragRead(r) \/ Move(r) \/ UpdateCase(r)
         \/ Decrement(r) \/ Increment(r)
         \/ \E c \in Cases : Delete(r, c)
  PROVE  Placed'
  <1>1. CASE Reserve(r) \/ DragRead(r) \/ Decrement(r) \/ Increment(r)
    <2>1. UNCHANGED <<existing, at, stages, nextId>>
      BY <1>1 DEF Reserve, DragRead, Decrement, Increment
    <2>2. \/ Finish(r)
          \/ \E pc \in Steps : req' = [req EXCEPT ![r] = [req[r] EXCEPT !.pc = pc]]
          \/ \E old \in StageIds \union {NoStage} :
               req' = [req EXCEPT ![r] = [req[r] EXCEPT !.pc = "move", !.old = old]]
      <3>1. DragRead(r) => (IF Live(req[r].case) THEN at[req[r].case] ELSE NoStage)
                             \in StageIds \union {NoStage}
        BY DEF DragRead, Base, TypeInv, TypeOK, CaseKnown
      <3> QED
        BY <1>1, <3>1 DEF Reserve, DragRead, Decrement, Increment, Goto, Finish, Steps
    <2>3. ASSUME NEW pc \in Steps, NEW old \in StageIds \union {NoStage}
          PROVE  /\ [req[r] EXCEPT !.pc = pc] \in Locals
                 /\ [req[r] EXCEPT !.pc = pc, !.old = old] \in Locals
                 /\ [req[r] EXCEPT !.pc = pc].stage = req[r].stage
                 /\ [req[r] EXCEPT !.pc = pc, !.old = old].stage = req[r].stage
                 /\ [req[r] EXCEPT !.pc = pc].case = req[r].case
                 /\ [req[r] EXCEPT !.pc = pc, !.old = old].case = req[r].case
      BY LocalsShape DEF Base, Locals
    <2> QED
      BY <2>1, <2>2, <2>3, EndPlaced, QuietPlaced DEF Steps
  <1>2. CASE Insert(r)
    <2>1. /\ req'[r] = Idle /\ \A q \in Requests \ {r} : req'[q] = req[q]
          /\ UNCHANGED <<stages, nextId>>
      BY <1>2 DEF Insert, Finish, Base, TypeInv, TypeOK
    <2>2. CASE UNCHANGED <<existing, at>>
      BY <1>2, <2>2, EndPlaced DEF Insert
    <2>3. ASSUME NEW c \in Cases, req[r].stage \in stages, existing[c] = "new",
                 existing' = [existing EXCEPT ![c] = "live"], at' = [at EXCEPT ![c] = req[r].stage]
          PROVE  Placed'
      BY <2>1, <2>3, IdleLocals DEF Base, Placed, Live, TypeInv, TypeOK, NoStage
    <2> QED
      BY <1>2, <2>2, <2>3 DEF Insert
  <1>3. CASE Move(r)
    <2>1. CASE UNCHANGED at
      BY <1>3, <2>1, EndPlaced DEF Move
    <2>2. CASE /\ Live(req[r].case) /\ req[r].stage \in stages \union {NoStage}
               /\ at' = [at EXCEPT ![req[r].case] = req[r].stage]
      <3>1. /\ req'[r] = Idle /\ \A q \in Requests \ {r} : req'[q] = req[q]
            /\ UNCHANGED <<existing, stages, nextId>>
        BY <1>3 DEF Move, Finish, Base, TypeInv, TypeOK
      <3> QED
        BY <2>2, <3>1, IdleLocals DEF Base, Placed, Live, TypeInv, TypeOK, NoStage
    <2> QED
      BY <1>3, <2>1, <2>2 DEF Move
  <1>4. CASE UpdateCase(r)
    <2>1. CASE UNCHANGED at /\ Finish(r)
      BY <1>4, <2>1, EndPlaced DEF UpdateCase
    <2>2. CASE Live(req[r].case) /\ Connected(r) /\ at' = [at EXCEPT ![req[r].case] = NewStage(r)]
      <3>1. req[r].case \in Cases
        BY <1>4 DEF UpdateCase, Base, TypeInv, CaseKnown
      <3>2. NewStage(r) \in stages \union {NoStage}
        BY <2>2, <3>1 DEF NewStage, Connected, Base, Placed
      <3>3. /\ UNCHANGED <<existing, stages, nextId>>
            /\ \A q \in Requests \ {r} : req'[q] = req[q]
            /\ req'[r].stage \in {NoStage, NewStage(r)}
            /\ req'[r].case \in Cases => req'[r].case = req[r].case
        <4>1. CASE Finish(r)
          BY <1>4, <4>1, IdleLocals DEF UpdateCase, Finish, Base, TypeInv, TypeOK
        <4>2. ASSUME NEW next,
                     req' = [req EXCEPT ![r] = [req[r] EXCEPT !.pc = next, !.stage = NewStage(r)]]
              PROVE  /\ \A q \in Requests \ {r} : req'[q] = req[q]
                     /\ req'[r].stage = NewStage(r) /\ req'[r].case = req[r].case
          BY <4>2, LocalsShape DEF Base, TypeInv, TypeOK, Locals
        <4> QED
          BY <1>4, <4>1, <4>2 DEF UpdateCase
      <3>4. \A q \in Requests : req'[q].stage < nextId'
        BY <3>2, <3>3, ConstantsAssumption DEF Base, Placed, TypeInv, TypeOK, NoStage
      <3>5. \A q \in Requests : req'[q].case \in Cases => existing'[req'[q].case] # "new"
        BY <3>3 DEF Base, Placed
      <3>6. \A c \in Cases : at'[c] \in stages' \union {NoStage} /\ (~ Live(c)' => at'[c] = NoStage)
        BY <2>2, <3>1, <3>2, <3>3 DEF Base, Placed, Live, TypeInv, TypeOK
      <3> QED
        BY <3>3, <3>4, <3>5, <3>6 DEF Base, Placed
    <2> QED
      BY <1>4, <2>1, <2>2 DEF UpdateCase
  <1>5. ASSUME NEW c \in Cases, Delete(r, c) PROVE Placed'
    <2>1. /\ \A q \in Requests \ {r} : req'[q] = req[q]
          /\ req'[r].stage = NoStage /\ (req'[r].case \in Cases => req'[r].case = c)
      <3>1. CASE req[r] = Idle /\ UNCHANGED req
        BY <3>1, IdleLocals
      <3>2. CASE Begin(r, [Idle EXCEPT !.pc = "decrement", !.case = c, !.old = at[c]])
        BY <3>2 DEF Begin, Idle, Base, TypeInv, TypeOK
      <3> QED
        BY <1>5, <3>1, <3>2 DEF Delete
    <2>2. /\ UNCHANGED <<stages, nextId>> /\ at' = [at EXCEPT ![c] = NoStage]
          /\ existing' = [existing EXCEPT ![c] = "deleted"]
      BY <1>5 DEF Delete
    <2> QED
      BY <2>1, <2>2, ConstantsAssumption DEF Base, Placed, Live, TypeInv, TypeOK, NoStage
  <1> QED
    BY <1>1, <1>2, <1>3, <1>4, <1>5

LEMMA NextBase == Base /\ [Next]_vars => Base'
  <1> SUFFICES ASSUME Base, [Next]_vars PROVE Placed'
    BY NextTypes DEF Base
  <1>1. ASSUME NEW r \in Requests, Serve(r) PROVE Placed'
    BY <1>1, BeginPlaced, StagePlaced, CasePlaced DEF Serve
  <1>2. ASSUME NEW r \in Requests, RequestDies(r) PROVE Placed'
    BY <1>2, EndPlaced DEF RequestDies
  <1>3. CASE UNCHANGED vars
    BY <1>3 DEF vars, Base, Placed, Live
  <1> QED
    BY <1>1, <1>2, <1>3 DEF Next

-----------------------------------------------------------------------------
(* The counters *)

\* A stage that exists or is still to come.
Tracked(s) == s \in StageIds /\ (s \in stages \/ s >= nextId)

InsertsInto(s) == {r \in At("insert") : req[r].stage = s}
TakesFrom(s) == {r \in At("decrement") : req[r].old = s}
BringsTo(s) == {r \in At("decrement") \union At("increment") : req[r].stage = s}

Expected(s) ==
  Cardinality(Members(s)) + Cardinality(InsertsInto(s)) + Cardinality(TakesFrom(s))
    - Cardinality(BringsTo(s))

\* The counters are as they should be, also those of stages that do not exist yet.
Exact == Careful /\ UpToDate /\ \A s \in StageIds : Tracked(s) => count[s] = Expected(s)

CountInv == Base /\ (careful => Exact)

Ones(b) == IF b THEN 1 ELSE 0

\* What request r and case c contribute to what is expected of stage s.
Share(s, r, c) ==
  Ones(c \in Members(s))
    + Ones(req[r].pc = "insert" /\ req[r].stage = s)
    + Ones(req[r].pc = "decrement" /\ req[r].old = s)
    - Ones(req[r].pc \in {"decrement", "increment"} /\ req[r].stage = s)

LEMMA CardinalityMoves ==
  ASSUME NEW S, NEW T, NEW x, IsFiniteSet(S), T \ {x} = S \ {x}
  PROVE  /\ Cardinality(S) \in Int /\ Cardinality(T) \in Int
         /\ Cardinality(T) - Ones(x \in T) = Cardinality(S) - Ones(x \in S)
  <1> DEFINE R == S \ {x}
  <1>1. IsFiniteSet(R) /\ Cardinality(R) \in Nat
    BY FS_RemoveElement, FS_CardinalityType
  <1>2. ASSUME NEW U, U \ {x} = R
        PROVE  Cardinality(U) = Cardinality(R) + Ones(x \in U)
    <2>1. CASE x \in U
      <3>1. U = R \union {x} /\ x \notin R
        BY <1>2, <2>1
      <3> QED
        BY <1>1, <2>1, <3>1, FS_AddElement DEF Ones
    <2>2. CASE x \notin U
      <3>1. U = R
        BY <1>2, <2>2
      <3> QED
        BY <1>1, <2>2, <3>1 DEF Ones
    <2> QED
      BY <2>1, <2>2
  <1>3. Cardinality(S) = Cardinality(R) + Ones(x \in S)
    BY <1>2
  <1>4. Cardinality(T) = Cardinality(R) + Ones(x \in T)
    BY <1>2
  <1> HIDE DEF R
  <1> QED
    BY <1>1, <1>3, <1>4 DEF Ones

\* A step of request r that touches no case but c changes what is expected by what
\* the two contribute.
LEMMA ExpectedMoves ==
  ASSUME NEW r \in Requests, \A q \in Requests \ {r} : req'[q] = req[q],
         NEW s, NEW c, Members(s)' \ {c} = Members(s) \ {c}
  PROVE  /\ Expected(s) \in Int /\ Expected(s)' \in Int
         /\ Expected(s)' - Share(s, r, c)' = Expected(s) - Share(s, r, c)
  <1>1. /\ InsertsInto(s)' \ {r} = InsertsInto(s) \ {r}
        /\ TakesFrom(s)' \ {r} = TakesFrom(s) \ {r}
        /\ BringsTo(s)' \ {r} = BringsTo(s) \ {r}
    BY DEF InsertsInto, TakesFrom, BringsTo, At
  <1>2. /\ IsFiniteSet(Members(s)) /\ IsFiniteSet(InsertsInto(s))
        /\ IsFiniteSet(TakesFrom(s)) /\ IsFiniteSet(BringsTo(s))
    <2>1. /\ Members(s) \in SUBSET Cases /\ InsertsInto(s) \in SUBSET Requests
          /\ TakesFrom(s) \in SUBSET Requests /\ BringsTo(s) \in SUBSET Requests
      BY DEF Members, InsertsInto, TakesFrom, BringsTo, At
    <2> QED
      BY <2>1, FinitelyMany, FS_Subset
  <1>3. /\ (r \in InsertsInto(s)) <=> (req[r].pc = "insert" /\ req[r].stage = s)
        /\ (r \in InsertsInto(s)') <=> (req'[r].pc = "insert" /\ req'[r].stage = s)
        /\ (r \in TakesFrom(s)) <=> (req[r].pc = "decrement" /\ req[r].old = s)
        /\ (r \in TakesFrom(s)') <=> (req'[r].pc = "decrement" /\ req'[r].old = s)
        /\ (r \in BringsTo(s)) <=> (req[r].pc \in {"decrement", "increment"} /\ req[r].stage = s)
        /\ (r \in BringsTo(s)') <=> (req'[r].pc \in {"decrement", "increment"} /\ req'[r].stage = s)
    BY DEF InsertsInto, TakesFrom, BringsTo, At
  <1>4. /\ Cardinality(Members(s)) \in Int /\ Cardinality(Members(s)') \in Int
        /\ Cardinality(Members(s)') - Ones(c \in Members(s)')
             = Cardinality(Members(s)) - Ones(c \in Members(s))
    BY <1>2, CardinalityMoves
  <1>5. /\ Cardinality(InsertsInto(s)) \in Int /\ Cardinality(InsertsInto(s)') \in Int
        /\ Cardinality(InsertsInto(s)') - Ones(req'[r].pc = "insert" /\ req'[r].stage = s)
             = Cardinality(InsertsInto(s)) - Ones(req[r].pc = "insert" /\ req[r].stage = s)
    BY <1>1, <1>2, <1>3, CardinalityMoves DEF Ones
  <1>6. /\ Cardinality(TakesFrom(s)) \in Int /\ Cardinality(TakesFrom(s)') \in Int
        /\ Cardinality(TakesFrom(s)') - Ones(req'[r].pc = "decrement" /\ req'[r].old = s)
             = Cardinality(TakesFrom(s)) - Ones(req[r].pc = "decrement" /\ req[r].old = s)
    BY <1>1, <1>2, <1>3, CardinalityMoves DEF Ones
  <1>7. /\ Cardinality(BringsTo(s)) \in Int /\ Cardinality(BringsTo(s)') \in Int
        /\ Cardinality(BringsTo(s)')
               - Ones(req'[r].pc \in {"decrement", "increment"} /\ req'[r].stage = s)
             = Cardinality(BringsTo(s))
               - Ones(req[r].pc \in {"decrement", "increment"} /\ req[r].stage = s)
    BY <1>1, <1>2, <1>3, CardinalityMoves DEF Ones
  <1> QED
    BY <1>4, <1>5, <1>6, <1>7 DEF Expected, Share, Ones

\* So the counter stays right if it changes by as much.
LEMMA Balances ==
  ASSUME Base, NEW r \in Requests, \A q \in Requests \ {r} : req'[q] = req[q],
         NEW s \in StageIds, count[s] = Expected(s), count'[s] \in Int,
         NEW c, Members(s)' \ {c} = Members(s) \ {c},
         count'[s] - Share(s, r, c)' = count[s] - Share(s, r, c)
  PROVE  count'[s] = Expected(s)'
  <1>1. /\ Expected(s) \in Int /\ Expected(s)' \in Int
        /\ Expected(s)' - Share(s, r, c)' = Expected(s) - Share(s, r, c)
    BY ExpectedMoves
  <1>2. Share(s, r, c) \in Int /\ Share(s, r, c)' \in Int
    BY DEF Share, Ones
  <1> DEFINE n == count'[s]
             f == Expected(s)'
             e == Expected(s)
             y == Share(s, r, c)'
             x == Share(s, r, c)
  <1>3. /\ f \in Int /\ e \in Int /\ f - y = e - x
        /\ x \in Int /\ y \in Int /\ n \in Int
        /\ count[s] = e /\ n - y = count[s] - x
    BY <1>1, <1>2
  <1> HIDE DEF n, f, e, x, y
  <1>4. n = f
    BY <1>3
  <1> QED
    BY <1>4 DEF n, f

-----------------------------------------------------------------------------
(* What the requests know *)

Fresh(r) ==
  /\ req[r].pc \in {"move", "update"} /\ Live(req[r].case) => at[req[r].case] = req[r].old
  /\ req[r].pc = "decrement" => req[r].old \in stages

\* In the first regime no other request runs beside a removal or on the same case.
LEMMA Alone ==
  ASSUME Base, Careful, NEW r \in Requests, NEW q \in Requests, q # r,
         req[r].pc # "idle", req[q].pc # "idle"
  PROVE  req[r].pc # "remove" /\ (req[r].case \in Cases => req[q].case # req[r].case)
  <1>1. req[r] # Idle /\ req[q] # Idle
    BY DEF Idle
  <1> QED
    BY <1>1, NoneIsNoCase DEF Careful

LEMMA OneServed ==
  ASSUME Base, NEW r \in Requests, Serve(r) \/ RequestDies(r)
  PROVE  \A q \in Requests \ {r} : req'[q] = req[q]
  <1> USE DEF Base, TypeInv, TypeOK
  <1>1. CASE RequestDies(r)
    BY <1>1 DEF RequestDies, Finish
  <1>2. CASE Create(r) \/ CreateDefaultStage(r) \/ Reserve(r) \/ Insert(r)
    BY <1>2 DEF Create, CreateDefaultStage, Reserve, Insert, Begin, Goto, Finish
  <1>3. CASE \/ \E c \in Cases, s, n \in StageIds : Drag(r, c, s, n)
             \/ \E c \in Cases, n \in StageIds \union {NoStage, Keep} : Update(r, c, n)
             \/ \E c \in Cases : Delete(r, c)
             \/ \E t \in Titles : CreateStage(r, t)
             \/ \E s \in StageIds : RemoveStage(r, s)
    BY <1>3 DEF Drag, Update, Delete, CreateStage, RemoveStage, Begin
  <1>4. CASE DragRead(r) \/ Move(r) \/ UpdateCase(r)
    BY <1>4 DEF DragRead, Move, UpdateCase, Finish
  <1>5. CASE Decrement(r) \/ Increment(r) \/ InsertStage(r) \/ DeleteStage(r)
    BY <1>5 DEF Decrement, Increment, InsertStage, DeleteStage, Finish
  <1> QED
    BY <1>1, <1>2, <1>3, <1>4, <1>5 DEF Serve

\* What a step of request r can do to cases and stages.
LEMMA Effects ==
  ASSUME Base, NEW r \in Requests, Serve(r) \/ RequestDies(r)
  PROVE  \/ UNCHANGED <<existing, at>> /\ stages \subseteq stages'
         \/ /\ \E c \in Cases : existing[c] = "new" /\ (\A d \in Cases \ {c} :
                                    existing'[d] = existing[d] /\ at'[d] = at[d])
            /\ stages' = stages
         \/ /\ req[r].pc \in {"move", "update"}
            /\ existing' = existing /\ stages' = stages
            /\ \A d \in Cases \ {req[r].case} : at'[d] = at[d]
         \/ /\ \E c \in Cases : existing'[c] = "deleted" /\ (\A d \in Cases \ {c} :
                                    existing'[d] = existing[d] /\ at'[d] = at[d])
            /\ stages' = stages
         \/ req[r].pc = "remove"
  <1> USE DEF Base, TypeInv, TypeOK
  <1>1. CASE \/ Create(r) \/ CreateDefaultStage(r) \/ Reserve(r) \/ DragRead(r)
             \/ \E c \in Cases, s, n \in StageIds : Drag(r, c, s, n)
             \/ \E c \in Cases, n \in StageIds \union {NoStage, Keep} : Update(r, c, n)
             \/ Decrement(r) \/ Increment(r) \/ InsertStage(r) \/ RequestDies(r)
             \/ \E t \in Titles : CreateStage(r, t)
             \/ \E s \in StageIds : RemoveStage(r, s)
    BY <1>1 DEF Create, CreateDefaultStage, Reserve, DragRead, Drag, Update, Decrement, Increment,
                InsertStage, RequestDies, CreateStage, RemoveStage, AddStage
  <1>2. CASE Insert(r)
    BY <1>2 DEF Insert
  <1>3. CASE Move(r) \/ UpdateCase(r)
    BY <1>3 DEF Move, UpdateCase
  <1>4. ASSUME NEW c \in Cases, Delete(r, c)
        PROVE  /\ existing'[c] = "deleted" /\ stages' = stages
               /\ \A d \in Cases \ {c} : existing'[d] = existing[d] /\ at'[d] = at[d]
    BY <1>4 DEF Delete
  <1>5. CASE DeleteStage(r)
    BY <1>5 DEF DeleteStage
  <1> QED
    BY <1>1, <1>2, <1>3, <1>4, <1>5 DEF Serve

LEMMA OthersFresh ==
  ASSUME Base, Careful, UpToDate, NEW r \in Requests, Serve(r) \/ RequestDies(r),
         NEW q \in Requests, q # r
  PROVE  Fresh(q)'
  <1>1. req'[q] = req[q] /\ Fresh(q)
    BY OneServed DEF UpToDate, Fresh
  <1>2. SUFFICES ASSUME req[q].pc \in {"move", "update", "decrement"} PROVE Fresh(q)'
    BY <1>1 DEF Fresh
  <1>3. /\ req[q].pc \in {"move", "update"} => req[q].case \in Cases
        /\ req[q].case \in Cases => existing[req[q].case] # "new"
    BY DEF Base, TypeInv, CaseKnown, Placed
  <1>4. CASE UNCHANGED <<existing, at>> /\ stages \subseteq stages'
    BY <1>1, <1>4 DEF Fresh, Live
  <1>5. CASE req[r].pc = "remove"
    BY <1>2, <1>5, Alone
  <1>6. ASSUME NEW c \in Cases, stages' = stages,
               existing[c] = "new" \/ existing'[c] = "deleted",
               \A d \in Cases \ {c} : existing'[d] = existing[d] /\ at'[d] = at[d]
        PROVE  Fresh(q)'
    BY <1>1, <1>3, <1>6 DEF Fresh, Live
  <1>7. CASE /\ req[r].pc \in {"move", "update"}
             /\ existing' = existing /\ stages' = stages
             /\ \A d \in Cases \ {req[r].case} : at'[d] = at[d]
    <2>1. req[r].case \in Cases
      BY <1>7 DEF Base, TypeInv, CaseKnown
    <2>2. req[q].case # req[r].case
      BY <1>2, <1>7, <2>1, Alone
    <2> QED
      BY <1>1, <1>3, <1>7, <2>2 DEF Fresh, Live
  <1> QED
    BY <1>4, <1>5, <1>6, <1>7, Effects

LEMMA OwnFresh ==
  ASSUME Base, Base', Exact, NEW r \in Requests, Serve(r) \/ RequestDies(r)
  PROVE  Fresh(r)'
  <1> SUFFICES ASSUME req'[r].pc \in {"move", "update", "decrement"} PROVE Fresh(r)'
    BY DEF Fresh
  <1> USE DEF Base, TypeInv, TypeOK
  <1>1. Fresh(r)
    BY DEF Exact, UpToDate, Fresh
  <1>2. ASSUME Finish(r) PROVE FALSE
    BY <1>2, IdleLocals DEF Finish
  <1>3. CASE Create(r) \/ CreateDefaultStage(r) \/ Reserve(r) \/ Insert(r) \/ InsertStage(r)
    <2>1. CASE Create(r)
      BY <2>1 DEF Create, Begin, Idle
    <2>2. CASE CreateDefaultStage(r)
      BY <2>2, LocalsShape DEF CreateDefaultStage, Locals
    <2>3. CASE Reserve(r)
      BY <1>2, <2>3, LocalsShape DEF Reserve, Goto, Locals
    <2> QED
      BY <1>2, <1>3, <2>1, <2>2, <2>3 DEF Insert, InsertStage
  <1>4. CASE \/ \E c \in Cases, s, n \in StageIds : Drag(r, c, s, n)
             \/ \E t \in Titles : CreateStage(r, t)
             \/ \E s \in StageIds : RemoveStage(r, s)
    BY <1>4 DEF Drag, CreateStage, RemoveStage, Begin, Idle
  <1>5. CASE Move(r) \/ Increment(r) \/ DeleteStage(r) \/ RequestDies(r)
    BY <1>2, <1>5 DEF Move, Increment, DeleteStage, RequestDies
  <1>6. CASE DragRead(r)
    <2> DEFINE old == IF Live(req[r].case) THEN at[req[r].case] ELSE NoStage
    <2>1. req' = [req EXCEPT ![r] = [req[r] EXCEPT !.pc = "move", !.old = old]]
      BY <1>2, <1>6 DEF DragRead
    <2>2. req'[r].pc = "move" /\ req'[r].old = old /\ req'[r].case = req[r].case
      <3> HIDE DEF old
      <3> QED
        BY <2>1, LocalsShape DEF Locals
    <2> QED
      BY <1>6, <2>2 DEF DragRead, Fresh, Live
  <1>7. ASSUME NEW c \in Cases, NEW n \in StageIds \union {NoStage, Keep}, Update(r, c, n)
        PROVE  Fresh(r)'
    BY <1>7 DEF Update, Begin, Idle, Fresh, Live
  <1>8. CASE UpdateCase(r)
    <2> DEFINE next == IF req[r].old = NoStage THEN "increment" ELSE "decrement"
    <2>1. /\ Live(req[r].case) /\ stages' = stages
          /\ req' = [req EXCEPT ![r] = [req[r] EXCEPT !.pc = next, !.stage = NewStage(r)]]
      BY <1>2, <1>8 DEF UpdateCase
    <2>2. req'[r].pc = next /\ req'[r].old = req[r].old
      <3> HIDE DEF next
      <3> QED
        BY <2>1, LocalsShape DEF Locals
    <2>3. req[r].case \in Cases /\ at[req[r].case] = req[r].old
      BY <1>1, <1>8, <2>1 DEF UpdateCase, CaseKnown, Fresh
    <2>4. req[r].old \in stages
      BY <2>2, <2>3 DEF Placed
    <2> QED
      BY <2>1, <2>2, <2>4 DEF Fresh
  <1>9. CASE Decrement(r)
    <2>1. req' = [req EXCEPT ![r] = [req[r] EXCEPT !.pc = "increment"]]
      BY <1>2, <1>9 DEF Decrement, Finish
    <2> QED
      BY <2>1, LocalsShape DEF Locals
  <1>10. ASSUME NEW c \in Cases, Delete(r, c) PROVE Fresh(r)'
    <2>1. at[c] # NoStage /\ Begin(r, [Idle EXCEPT !.pc = "decrement", !.case = c, !.old = at[c]])
      BY <1>10, IdleLocals DEF Delete
    <2>2. req'[r].pc = "decrement" /\ req'[r].old = at[c] /\ at[c] \in stages
      BY <2>1 DEF Begin, Idle, Placed
    <2> QED
      BY <1>10, <2>2 DEF Delete, Fresh
  <1> QED
    BY <1>3, <1>4, <1>5, <1>6, <1>7, <1>8, <1>9, <1>10 DEF Serve

-----------------------------------------------------------------------------
(* Every step keeps the counters right *)

\* A stage tracked after a step was tracked before.
LEMMA TrackedBefore ==
  ASSUME Base, NEW r \in Requests, Serve(r) \/ RequestDies(r),
         NEW s \in StageIds, Tracked(s)'
  PROVE  Tracked(s)
  <1>1. nextId \in Int /\ s \in Int
    BY ConstantsAssumption DEF Base, TypeInv, TypeOK, StageIds
  <1>2. \/ stages' \subseteq stages /\ nextId' = nextId
        \/ stages' = stages \union {nextId} /\ nextId' = nextId + 1
    BY DEF Serve, RequestDies, Create, CreateDefaultStage, Reserve, DragRead, Drag, Update, Decrement, Increment,
           InsertStage, CreateStage, RemoveStage, AddStage, Insert, Move, UpdateCase, Delete, DeleteStage
  <1> QED
    BY <1>1, <1>2 DEF Tracked

Counting == {"insert", "decrement", "increment"}

\* A request that has nothing to do with counters before or after the step.
LEMMA QuietCounts ==
  ASSUME Base, Base', NEW r \in Requests, \A q \in Requests \ {r} : req'[q] = req[q],
         NEW s \in StageIds, count[s] = Expected(s), count'[s] = count[s],
         Members(s)' = Members(s), req[r].pc \notin Counting, req'[r].pc \notin Counting
  PROVE  count'[s] = Expected(s)'
  <1>1. Share(s, r, r)' = Share(s, r, r) /\ Share(s, r, r) \in Int
    BY DEF Share, Ones, Counting
  <1>2. count'[s] \in Int
    BY DEF Base, TypeInv, TypeOK
  <1> QED
    BY <1>1, <1>2, Balances

LEMMA QuietStepCounts ==
  ASSUME Base, Base', NEW r \in Requests, Serve(r) \/ RequestDies(r),
         req[r].pc \notin Counting, req'[r].pc \notin Counting,
         UNCHANGED <<existing, at, count>>,
         NEW s \in StageIds, Tracked(s) => count[s] = Expected(s), Tracked(s)'
  PROVE  count'[s] = Expected(s)'
  <1>1. Members(s)' = Members(s)
    BY DEF Members, Live
  <1> QED
    BY <1>1, OneServed, TrackedBefore, QuietCounts

LEMMA ReserveCounts ==
  ASSUME Base, Base', NEW r \in Requests, Reserve(r), NEW s \in StageIds,
         count[s] = Expected(s)
  PROVE  count'[s] = Expected(s)'
  <1> USE DEF Base, TypeInv, TypeOK
  <1>0. Members(s)' = Members(s) /\ \A q \in Requests \ {r} : req'[q] = req[q]
    BY OneServed DEF Reserve, Members, Live, Serve
  <1>1. CASE req[r].stage \notin stages
    BY <1>0, <1>1, QuietCounts, IdleLocals DEF Reserve, Finish, Counting
  <1>2. CASE req[r].stage \in stages
    <2>1. /\ req[r].pc = "reserve" /\ count' = [count EXCEPT ![req[r].stage] = @ + 1]
          /\ req' = [req EXCEPT ![r] = [req[r] EXCEPT !.pc = "insert"]]
      BY <1>2 DEF Reserve, Goto
    <2>2. req'[r].pc = "insert" /\ req'[r].stage = req[r].stage
      BY <2>1, LocalsShape DEF Locals
    <2>3. count'[s] = count[s] + Ones(req[r].stage = s) /\ count[s] \in Int
      BY <1>2, <2>1 DEF Ones
    <2>4. Share(s, r, r) = Ones(r \in Members(s))
          /\ Share(s, r, r)' = Ones(r \in Members(s)) + Ones(req[r].stage = s)
      BY <1>0, <2>1, <2>2 DEF Share, Ones
    <2>5. count'[s] - Share(s, r, r)' = count[s] - Share(s, r, r)
      BY <2>3, <2>4 DEF Ones
    <2> QED
      BY <1>0, <2>3, <2>5, Balances
  <1> QED
    BY <1>1, <1>2

LEMMA InsertCounts ==
  ASSUME Base, Base', NEW r \in Requests, Insert(r), NEW s \in StageIds, Tracked(s),
         count[s] = Expected(s)
  PROVE  count'[s] = Expected(s)'
  <1> USE DEF Base, TypeInv, TypeOK
  <1>0. /\ \A q \in Requests \ {r} : req'[q] = req[q]
        /\ req[r].pc = "insert" /\ req'[r].pc = "idle"
        /\ count'[s] = count[s] /\ count[s] \in Int
    BY OneServed, IdleLocals DEF Insert, Serve, Finish
  <1>1. CASE req[r].stage \notin stages
    <2>1. Members(s)' = Members(s)
      BY <1>1 DEF Insert, Members, Live
    <2>2. req[r].stage # s
      BY <1>1, LocalsShape, ConstantsAssumption DEF Placed, Tracked, StageIds, NoStage, Keep
    <2>3. Share(s, r, r)' = Share(s, r, r) /\ Share(s, r, r) \in Int
      BY <1>0, <2>1, <2>2 DEF Share, Ones
    <2> QED
      BY <1>0, <2>1, <2>3, Balances
  <1>2. ASSUME NEW c \in Cases, req[r].stage \in stages, existing[c] = "new",
               existing' = [existing EXCEPT ![c] = "live"], at' = [at EXCEPT ![c] = req[r].stage]
        PROVE  count'[s] = Expected(s)'
    <2>1. Members(s)' \ {c} = Members(s) \ {c}
      BY <1>2 DEF Members, Live
    <2>2. c \notin Members(s) /\ (c \in Members(s)' <=> req[r].stage = s)
      BY <1>2 DEF Members, Live
    <2>3. Share(s, r, c) = Ones(req[r].stage = s) /\ Share(s, r, c)' = Ones(req[r].stage = s)
      BY <1>0, <2>2 DEF Share, Ones
    <2>4. count'[s] - Share(s, r, c)' = count[s] - Share(s, r, c)
      BY <1>0, <2>3 DEF Ones
    <2> QED
      BY <1>0, <2>1, <2>4, Balances
  <1> QED
    BY <1>1, <1>2 DEF Insert

\* A case goes to another stage.
LEMMA Replaced ==
  ASSUME Base, NEW c \in Cases, Live(c), existing' = existing, NEW new, at' = [at EXCEPT ![c] = new],
         NEW s \in StageIds
  PROVE  /\ Members(s)' \ {c} = Members(s) \ {c}
         /\ c \in Members(s) <=> at[c] = s
         /\ c \in Members(s)' <=> new = s
  BY DEF Members, Live, Base, TypeInv, TypeOK

LEMMA MoveCounts ==
  ASSUME Base, Base', Exact, NEW r \in Requests, Move(r), NEW s \in StageIds,
         count[s] = Expected(s)
  PROVE  count'[s] = Expected(s)'
  <1> USE DEF Base, TypeInv, TypeOK
  <1>0. /\ \A q \in Requests \ {r} : req'[q] = req[q]
        /\ req[r].pc = "move" /\ req'[r].pc = "idle" /\ count[s] \in Int
        /\ req[r].case \in Cases /\ existing' = existing
    BY OneServed, IdleLocals DEF Move, Serve, Finish, CaseKnown
  <1>1. CASE UNCHANGED <<count, at>>
    <2>1. Members(s)' = Members(s)
      BY <1>0, <1>1 DEF Members, Live
    <2> QED
      BY <1>0, <1>1, <2>1, QuietCounts DEF Counting
  <1>2. ASSUME NEW c \in Cases, NEW old, NEW new, c = req[r].case, old = req[r].old,
               Live(c), at' = [at EXCEPT ![c] = new],
               count' = [t \in StageIds |-> count[t] + (IF t = new THEN 1 ELSE 0)
                                                    - (IF t = old THEN 1 ELSE 0)]
        PROVE  count'[s] = Expected(s)'
    <2>1. at[c] = old
      BY <1>0, <1>2 DEF Exact, UpToDate
    <2>2. /\ Members(s)' \ {c} = Members(s) \ {c}
          /\ c \in Members(s) <=> old = s
          /\ c \in Members(s)' <=> new = s
      <3> HIDE DEF Base
      <3> QED
        BY <1>0, <1>2, <2>1, Replaced
    <2>3. Share(s, r, c) = Ones(old = s) /\ Share(s, r, c)' = Ones(new = s)
      BY <1>0, <2>2 DEF Share, Ones
    <2>4. count'[s] = count[s] + Ones(new = s) - Ones(old = s)
      BY <1>2 DEF Ones
    <2>5. count'[s] - Share(s, r, c)' = count[s] - Share(s, r, c) /\ count'[s] \in Int
      BY <1>0, <2>3, <2>4 DEF Ones
    <2> QED
      BY <1>0, <2>2, <2>5, Balances
  <1> QED
    BY <1>0, <1>1, <1>2 DEF Move

\* An update that stores the stage the case had, or that fails.
LEMMA UpdateCounts ==
  ASSUME Base, Base', Exact, NEW r \in Requests, UpdateCase(r), NEW s \in StageIds,
         count[s] = Expected(s)
  PROVE  count'[s] = Expected(s)'
  <1> USE DEF Base, TypeInv, TypeOK
  <1>0. /\ \A q \in Requests \ {r} : req'[q] = req[q]
        /\ req[r].pc = "update" /\ count' = count /\ count[s] \in Int
        /\ req[r].case \in Cases /\ existing' = existing
    BY OneServed DEF UpdateCase, Serve, CaseKnown
  <1>1. CASE UNCHANGED at /\ Finish(r)
    <2>1. Members(s)' = Members(s) /\ req'[r].pc = "idle"
      BY <1>0, <1>1, IdleLocals DEF Members, Live, Finish
    <2> QED
      BY <1>0, <2>1, QuietCounts DEF Counting
  <1>2. ASSUME NEW c \in Cases, c = req[r].case, Live(c), NEW new, new = NewStage(r),
               at' = [at EXCEPT ![c] = new]
        PROVE  count'[s] = Expected(s)'
    <2> DEFINE old == req[r].old
    <2>1. at[c] = old
      BY <1>0, <1>2 DEF Exact, UpToDate
    <2>2. /\ Members(s)' \ {c} = Members(s) \ {c}
          /\ c \in Members(s) <=> old = s
          /\ c \in Members(s)' <=> new = s
      <3> HIDE DEF Base
      <3> QED
        BY <1>2, <1>0, <2>1, Replaced
    <2>3. CASE new = old /\ Finish(r)
      <3>1. req'[r].pc = "idle" /\ Members(s)' = Members(s)
        <4>1. req'[r].pc = "idle"
          BY <2>3, IdleLocals DEF Finish
        <4>2. at' = at
          BY <1>2, <2>1, <2>3
        <4> QED
          BY <1>0, <4>1, <4>2 DEF Members, Live
      <3> QED
        BY <1>0, <3>1, QuietCounts DEF Counting
    <2> DEFINE next == IF old = NoStage THEN "increment" ELSE "decrement"
    <2>4. CASE req' = [req EXCEPT ![r] = [req[r] EXCEPT !.pc = next, !.stage = new]]
      <3>0. next \in {"increment", "decrement"} /\ (next = "increment" => old = NoStage)
        OBVIOUS
      <3> HIDE DEF next
      <3>1. req'[r].pc = next /\ req'[r].stage = new /\ req'[r].old = old
        BY <2>4, LocalsShape DEF Locals
      <3>2. next = "increment" => old # s
        BY <3>0, ConstantsAssumption DEF StageIds, NoStage
      <3>3. Share(s, r, c) = Ones(old = s)
        BY <1>0, <2>2 DEF Share, Ones
      <3>4. Share(s, r, c)' = Ones(new = s) + Ones(next = "decrement" /\ old = s) - Ones(new = s)
        BY <2>2, <3>0, <3>1 DEF Share, Ones
      <3>5. count'[s] - Share(s, r, c)' = count[s] - Share(s, r, c) /\ count'[s] \in Int
        BY <1>0, <3>0, <3>2, <3>3, <3>4 DEF Ones
      <3> QED
        BY <1>0, <2>2, <3>5, Balances
    <2>5. \/ new = old /\ Finish(r)
          \/ req' = [req EXCEPT ![r] = [req[r] EXCEPT !.pc = next, !.stage = new]]
          \/ UNCHANGED at /\ Finish(r)
      BY <1>2 DEF UpdateCase
    <2> HIDE DEF Base, next, old
    <2> QED
      BY <1>1, <2>3, <2>4, <2>5
  <1> QED
    BY <1>0, <1>1, <1>2 DEF UpdateCase

LEMMA DecrementCounts ==
  ASSUME Base, Base', Exact, NEW r \in Requests, Decrement(r), NEW s \in StageIds,
         count[s] = Expected(s)
  PROVE  count'[s] = Expected(s)'
  <1> USE DEF Base, TypeInv, TypeOK
  <1> DEFINE old == req[r].old
             new == req[r].stage
  <1>0. /\ \A q \in Requests \ {r} : req'[q] = req[q]
        /\ req[r].pc = "decrement" /\ count[s] \in Int /\ old \in stages
        /\ Members(s)' = Members(s) /\ count' = [count EXCEPT ![old] = @ - 1]
    BY OneServed DEF Decrement, Serve, Members, Live, Exact, UpToDate
  <1>1. count'[s] = count[s] - Ones(old = s)
    BY <1>0 DEF Ones
  <1>2. \/ new = NoStage /\ req'[r].pc = "idle"
        \/ req'[r].pc = "increment" /\ req'[r].stage = new
    <2>1. CASE new # NoStage
      <3>1. req' = [req EXCEPT ![r] = [req[r] EXCEPT !.pc = "increment"]]
        BY <1>0, <2>1 DEF Decrement
      <3> QED
        BY <3>1, LocalsShape DEF Locals
    <2>2. CASE new = NoStage
      BY <2>2, IdleLocals DEF Decrement
    <2> QED
      BY <2>1, <2>2
  <1>3. new = NoStage => new # s
    BY ConstantsAssumption DEF StageIds, NoStage
  <1>4. Share(s, r, r) = Ones(r \in Members(s)) + Ones(old = s) - Ones(new = s)
    BY <1>0 DEF Share, Ones
  <1>5. Share(s, r, r)' = Ones(r \in Members(s)) - Ones(new = s)
    BY <1>0, <1>2, <1>3 DEF Share, Ones
  <1>6. count'[s] - Share(s, r, r)' = count[s] - Share(s, r, r) /\ count'[s] \in Int
    BY <1>0, <1>1, <1>4, <1>5 DEF Ones
  <1> QED
    BY <1>0, <1>6, Balances

LEMMA IncrementCounts ==
  ASSUME Base, Base', NEW r \in Requests, Increment(r), NEW s \in StageIds, Tracked(s),
         count[s] = Expected(s)
  PROVE  count'[s] = Expected(s)'
  <1> USE DEF Base, TypeInv, TypeOK
  <1> DEFINE new == req[r].stage
  <1>0. /\ \A q \in Requests \ {r} : req'[q] = req[q]
        /\ req[r].pc = "increment" /\ req'[r].pc = "idle" /\ count[s] \in Int
        /\ Members(s)' = Members(s)
        /\ count' = IF new \in stages THEN [count EXCEPT ![new] = @ + 1] ELSE count
    BY OneServed, IdleLocals DEF Increment, Serve, Members, Live, Finish
  <1>1. new \notin stages => new # s
    BY LocalsShape, ConstantsAssumption DEF Placed, Tracked, StageIds, NoStage, Keep
  <1>2. count'[s] = count[s] + Ones(new = s)
    BY <1>0, <1>1 DEF Ones
  <1>3. /\ Share(s, r, r) = Ones(r \in Members(s)) - Ones(new = s)
        /\ Share(s, r, r)' = Ones(r \in Members(s))
    BY <1>0 DEF Share, Ones
  <1>4. count'[s] - Share(s, r, r)' = count[s] - Share(s, r, r) /\ count'[s] \in Int
    BY <1>0, <1>2, <1>3 DEF Ones
  <1> QED
    BY <1>0, <1>4, Balances

LEMMA DeleteCounts ==
  ASSUME Base, Base', NEW r \in Requests, NEW c \in Cases, Delete(r, c), NEW s \in StageIds,
         count[s] = Expected(s)
  PROVE  count'[s] = Expected(s)'
  <1> USE DEF Base, TypeInv, TypeOK
  <1>0. /\ \A q \in Requests \ {r} : req'[q] = req[q]
        /\ count'[s] = count[s] /\ count[s] \in Int /\ s # NoStage
    <2>1. \A q \in Requests \ {r} : req'[q] = req[q]
      BY OneServed DEF Serve
    <2> QED
      BY <2>1, ConstantsAssumption DEF Delete, StageIds, NoStage
  <1>1. /\ Members(s)' \ {c} = Members(s) \ {c}
        /\ c \notin Members(s)'
        /\ c \in Members(s) <=> at[c] = s
    BY DEF Delete, Members, Live
  <1>2. CASE at[c] = NoStage /\ UNCHANGED req
    <2>1. Share(s, r, c)' = Share(s, r, c) /\ Share(s, r, c) \in Int
      BY <1>0, <1>1, <1>2 DEF Share, Ones
    <2> QED
      BY <1>0, <1>1, <2>1, Balances
  <1>3. CASE Begin(r, [Idle EXCEPT !.pc = "decrement", !.case = c, !.old = at[c]])
    <2>1. /\ req[r].pc = "idle" /\ req'[r].pc = "decrement"
          /\ req'[r].old = at[c] /\ req'[r].stage = NoStage
      BY <1>3 DEF Begin, Idle
    <2>2. Share(s, r, c) = Ones(at[c] = s) /\ Share(s, r, c)' = Ones(at[c] = s)
      BY <1>0, <1>1, <2>1 DEF Share, Ones
    <2>3. count'[s] - Share(s, r, c)' = count[s] - Share(s, r, c)
      BY <1>0, <2>2 DEF Ones
    <2> QED
      BY <1>0, <1>1, <2>3, Balances
  <1> QED
    BY <1>2, <1>3 DEF Delete

LEMMA DeleteStageCounts ==
  ASSUME Base, Base', NEW r \in Requests, DeleteStage(r), NEW s \in StageIds,
         Tracked(s), Tracked(s)', count[s] = Expected(s)
  PROVE  count'[s] = Expected(s)'
  <1>0. req[r].stage \in Int /\ req[r].stage < nextId
    BY LocalsShape, ConstantsAssumption DEF Base, Placed, StageIds, NoStage, Keep
  <1> USE DEF Base, TypeInv, TypeOK
  <1>1. /\ \A q \in Requests \ {r} : req'[q] = req[q]
        /\ req[r].pc = "remove" /\ req'[r].pc = "idle" /\ count' = count
        /\ at' = [c \in Cases |-> IF at[c] = req[r].stage THEN NoStage ELSE at[c]]
        /\ stages' = stages \ {req[r].stage} /\ nextId' = nextId /\ existing' = existing
    BY OneServed, IdleLocals DEF DeleteStage, Serve, Finish
  <1>2. s # req[r].stage /\ s # NoStage
    <2>1. nextId \in Int /\ s \in Int /\ s > 0
      BY ConstantsAssumption DEF StageIds
    <2>2. s # req[r].stage
      BY <1>0, <1>1, <2>1 DEF Tracked
    <2> QED
      BY <2>1, <2>2 DEF NoStage
  <1>3. Members(s)' = Members(s)
    BY <1>1, <1>2 DEF Members, Live
  <1> QED
    BY <1>1, <1>3, QuietCounts DEF Counting

\* The other steps leave the counters and the cases alone, and are of requests that
\* have nothing to do with counters before or after.
LEMMA QuietSteps ==
  ASSUME Base, NEW r \in Requests, ~ LeavesUnfinished,
         \/ Create(r) \/ CreateDefaultStage(r) \/ DragRead(r) \/ InsertStage(r) \/ RequestDies(r)
         \/ \E c \in Cases, o, n \in StageIds : Drag(r, c, o, n)
         \/ \E c \in Cases, n \in StageIds \union {NoStage, Keep} : Update(r, c, n)
         \/ \E t \in Titles : CreateStage(r, t)
         \/ \E o \in StageIds : RemoveStage(r, o)
  PROVE  /\ UNCHANGED <<existing, at, count>>
         /\ req[r].pc \notin Counting /\ req'[r].pc \notin Counting
  <1> USE DEF Base, TypeInv, TypeOK
  <1>1. UNCHANGED <<existing, at, count>>
    BY DEF Create, CreateDefaultStage, DragRead, InsertStage, RequestDies, Drag, Update,
           CreateStage, RemoveStage
  <1>2. req[r].pc \notin Counting
    <2>1. CASE RequestDies(r)
      BY <2>1 DEF LeavesUnfinished, Counting
    <2>2. CASE CreateDefaultStage(r) \/ DragRead(r) \/ InsertStage(r)
      BY <2>2 DEF CreateDefaultStage, DragRead, InsertStage, Counting
    <2>3. CASE req[r] = Idle
      BY <2>3, IdleLocals DEF Counting
    <2> QED
      BY <2>1, <2>2, <2>3 DEF Create, Drag, Update, CreateStage, RemoveStage, Begin
  <1>3. req'[r].pc \notin Counting
    <2>1. CASE RequestDies(r) \/ InsertStage(r)
      BY <2>1, IdleLocals DEF RequestDies, InsertStage, Finish, Counting
    <2>2. CASE CreateDefaultStage(r)
      <3>1. req' = [req EXCEPT ![r] = [req[r] EXCEPT !.pc = "reserve", !.stage = nextId]]
        BY <2>2 DEF CreateDefaultStage
      <3> QED
        BY <3>1, LocalsShape DEF Locals, Counting
    <2>3. CASE DragRead(r)
      <3>1. CASE Finish(r)
        BY <3>1, IdleLocals DEF Finish, Counting
      <3>2. ASSUME NEW old, req' = [req EXCEPT ![r] = [req[r] EXCEPT !.pc = "move", !.old = old]]
            PROVE  req'[r].pc \notin Counting
        BY <3>2, LocalsShape DEF Locals, Counting
      <3> QED
        BY <2>3, <3>1, <3>2 DEF DragRead
    <2>4. CASE Create(r)
      BY <2>4 DEF Create, Begin, Idle, Counting
    <2>5. CASE \E c \in Cases, o, n \in StageIds : Drag(r, c, o, n)
      BY <2>5 DEF Drag, Begin, Idle, Counting
    <2>6. CASE \E c \in Cases, n \in StageIds \union {NoStage, Keep} : Update(r, c, n)
      BY <2>6 DEF Update, Begin, Idle, Counting
    <2>7. CASE \/ \E t \in Titles : CreateStage(r, t)
               \/ \E o \in StageIds : RemoveStage(r, o)
      BY <2>7 DEF CreateStage, RemoveStage, Begin, Idle, Counting
    <2> QED
      BY <2>1, <2>2, <2>3, <2>4, <2>5, <2>6, <2>7
  <1> QED
    BY <1>1, <1>2, <1>3

\* Every step of a behaviour in the first regime.
LEMMA StepCounts ==
  ASSUME Base, Base', Exact, NEW r \in Requests, Serve(r) \/ RequestDies(r), ~ LeavesUnfinished,
         NEW s \in StageIds, Tracked(s)'
  PROVE  count'[s] = Expected(s)'
  <1>1. Tracked(s) /\ count[s] = Expected(s)
    BY TrackedBefore DEF Exact
  <1>2. CASE Reserve(r) \/ Insert(r) \/ Move(r) \/ UpdateCase(r) \/ Decrement(r) \/ Increment(r)
    BY <1>1, <1>2, ReserveCounts, InsertCounts, MoveCounts, UpdateCounts, DecrementCounts,
       IncrementCounts
  <1>3. CASE DeleteStage(r) \/ \E c \in Cases : Delete(r, c)
    BY <1>1, <1>3, DeleteCounts, DeleteStageCounts
  <1>4. CASE \/ Create(r) \/ CreateDefaultStage(r) \/ DragRead(r) \/ InsertStage(r) \/ RequestDies(r)
             \/ \E c \in Cases, o, n \in StageIds : Drag(r, c, o, n)
             \/ \E c \in Cases, n \in StageIds \union {NoStage, Keep} : Update(r, c, n)
             \/ \E t \in Titles : CreateStage(r, t)
             \/ \E o \in StageIds : RemoveStage(r, o)
    <2>1. UNCHANGED <<existing, at, count>> /\ req[r].pc \notin Counting /\ req'[r].pc \notin Counting
      BY <1>4, QuietSteps
    <2> QED
      BY <1>1, <1>4, <2>1, QuietStepCounts DEF Serve
  <1> QED
    BY <1>2, <1>3, <1>4 DEF Serve

LEMMA InitCount == BoardInit => CountInv
  <1> SUFFICES ASSUME BoardInit PROVE CountInv
    OBVIOUS
  <1>1. Base
    BY InitTypes, InitPlaced DEF BoardInit, Base
  <1>2. Careful /\ UpToDate
    BY IdleLocals DEF BoardInit, Init, Careful, UpToDate
  <1>3. ASSUME NEW s \in StageIds PROVE count[s] = Expected(s)
    <2>1. /\ Members(s) = {} /\ InsertsInto(s) = {} /\ TakesFrom(s) = {} /\ BringsTo(s) = {}
          /\ count[s] = 0
      BY IdleLocals DEF BoardInit, Init, Members, Live, InsertsInto, TakesFrom, BringsTo, At
    <2> QED
      BY <2>1, FS_EmptySet DEF Expected
  <1> QED
    BY <1>1, <1>2, <1>3 DEF CountInv, Exact

LEMMA NextCount == CountInv /\ [BoardNext]_boardVars => CountInv'
  <1> SUFFICES ASSUME CountInv, [BoardNext]_boardVars PROVE CountInv'
    OBVIOUS
  <1>1. Base /\ Base'
    BY NextBase DEF CountInv, BoardNext, boardVars
  <1>2. ASSUME BoardNext, careful' PROVE Exact'
    <2>1. Exact /\ Careful' /\ ~ LeavesUnfinished
      BY <1>2 DEF BoardNext, CountInv
    <2>2. PICK r \in Requests : Serve(r) \/ RequestDies(r)
      BY <1>2 DEF BoardNext, Next
    <2>3. \A q \in Requests : Fresh(q)'
      BY <1>1, <2>1, <2>2, OwnFresh, OthersFresh DEF Exact
    <2>4. UpToDate'
      BY <2>3 DEF UpToDate, Fresh
    <2>5. \A s \in StageIds : Tracked(s)' => count'[s] = Expected(s)'
      BY <1>1, <2>1, <2>2, StepCounts
    <2> QED
      BY <2>1, <2>4, <2>5 DEF Exact
  <1>3. CASE BoardNext
    BY <1>1, <1>2, <1>3 DEF CountInv
  <1>4. CASE UNCHANGED boardVars
    <2>1. careful' = careful /\ (Exact' <=> Exact)
      BY <1>4 DEF boardVars, vars, Exact, Careful, UpToDate, Tracked, Expected, Members, InsertsInto,
                  TakesFrom, BringsTo, At, Live
    <2> QED
      BY <1>1, <2>1 DEF CountInv
  <1> QED
    BY <1>3, <1>4

\* While requests on different cases interleave, and a stage is removed only when
\* nothing else runs, the caseCount of a stage is the number of its cases up to
\* what requests have still to add or take away.
THEOREM CountsAreRight == BoardSpec => []CountsAccountedFor
  <1>1. CountInv => CountsAccountedFor
    <2> SUFFICES ASSUME CountInv, careful, NEW s \in stages
                 PROVE  count[s] = Expected(s)
      BY DEF CountsAccountedFor, Expected, InsertsInto, TakesFrom, BringsTo
    <2> QED
      BY DEF CountInv, Exact, Tracked, Base, TypeInv, TypeOK
  <1> QED
    BY <1>1, InitCount, NextCount, PTL DEF BoardSpec

-----------------------------------------------------------------------------
(* The sum of a function over a finite set *)

LEMMA StagesFinite == IsFiniteSet(StageIds) /\ \A s \in StageIds : s \in Int
  BY ConstantsAssumption, FS_Interval DEF StageIds

\* A set of subsets of a finite set has a smallest one.
LEMMA Smallest ==
  ASSUME NEW S, IsFiniteSet(S), NEW F \in SUBSET (SUBSET S), F # {}
  PROVE  \E T \in F : \A U \in F : U \subseteq T => U = T
  <1>1. IsWellFoundedOn(StrictSubsetOrdering(S), SUBSET S)
    BY FS_StrictSubsetOrderingWellFounded, FS_FiniteSubsetsOfFinite
  <1>2. \E T \in F : \A U \in F : ~ (<<U, T>> \in StrictSubsetOrdering(S))
    BY <1>1, WFMin
  <1> QED
    BY <1>2 DEF StrictSubsetOrdering

Chosen(S) == CHOOSE x \in S : TRUE

\* g adds up f over every subset of S.
Adds(f, S, g) ==
  g = [s \in SUBSET S |-> IF s = {} THEN 0 ELSE f[Chosen(s)] + g[s \ {Chosen(s)}]]

\* FoldFunctionOnSet takes the first element away as CHOOSE has it.
LEMMA SumIs == ASSUME NEW f, NEW S PROVE SumFunctionOnSet(f, S) = (CHOOSE g : Adds(f, S, g))[S]
  BY DEF SumFunctionOnSet, FoldFunctionOnSet, MapThenFoldSet, Adds, Chosen

LEMMA ChosenIn == ASSUME NEW S, S # {} PROVE Chosen(S) \in S
  BY DEF Chosen

LEMMA AddsStep ==
  ASSUME NEW f, NEW S, NEW g, Adds(f, S, g), NEW s \in SUBSET S
  PROVE  g[s] = IF s = {} THEN 0 ELSE f[Chosen(s)] + g[s \ {Chosen(s)}]
  BY DEF Adds

LEMMA AddsAlike ==
  ASSUME NEW f, NEW S, NEW T, NEW g, NEW h, Adds(f, S, g), Adds(f, T, h), IsFiniteSet(S),
         NEW s, s \subseteq S, s \subseteq T
  PROVE  g[s] = h[s]
  <1> DEFINE Bad == {u \in SUBSET S : u \subseteq T /\ g[u] # h[u]}
  <1> SUFFICES ASSUME Bad # {} PROVE FALSE
    OBVIOUS
  <1>0. /\ Bad \in SUBSET (SUBSET S) /\ Bad # {}
        /\ \A u \in Bad : u \in SUBSET S /\ u \in SUBSET T /\ g[u] # h[u]
        /\ \A u \in SUBSET S : u \in SUBSET T /\ g[u] # h[u] => u \in Bad
    OBVIOUS
  <1> HIDE DEF Bad
  <1>1. PICK u \in Bad : \A v \in Bad : v \subseteq u => v = u
    BY <1>0, Smallest
  <1>2. u \in SUBSET S /\ u \in SUBSET T /\ g[u] # h[u]
    BY <1>0
  <1>3. /\ g[u] = IF u = {} THEN 0 ELSE f[Chosen(u)] + g[u \ {Chosen(u)}]
        /\ h[u] = IF u = {} THEN 0 ELSE f[Chosen(u)] + h[u \ {Chosen(u)}]
    <2>1. u \in SUBSET S /\ Adds(f, S, g)
      BY <1>2
    <2>2. u \in SUBSET T /\ Adds(f, T, h)
      BY <1>2
    <2>3. g[u] = IF u = {} THEN 0 ELSE f[Chosen(u)] + g[u \ {Chosen(u)}]
      BY <2>1, AddsStep
    <2>4. h[u] = IF u = {} THEN 0 ELSE f[Chosen(u)] + h[u \ {Chosen(u)}]
      BY <2>2, AddsStep
    <2> QED
      BY <2>3, <2>4
  <1>4. u # {} /\ g[u \ {Chosen(u)}] # h[u \ {Chosen(u)}]
    BY <1>2, <1>3
  <1>5. u \ {Chosen(u)} \in Bad
    BY <1>0, <1>2, <1>4
  <1> QED
    BY <1>1, <1>4, <1>5, ChosenIn

Summed(f, S) == \E g : Adds(f, S, g)

LEMMA SummedStep ==
  ASSUME NEW f, NEW S, IsFiniteSet(S), Summed(f, S), Summed(f, S \ {Chosen(S)})
  PROVE  SumFunctionOnSet(f, S) = IF S = {} THEN 0 ELSE f[Chosen(S)] + SumFunctionOnSet(f, S \ {Chosen(S)})
  <1> DEFINE T == S \ {Chosen(S)}
             g == CHOOSE x : Adds(f, S, x)
             h == CHOOSE x : Adds(f, T, x)
  <1>1. Adds(f, S, g) /\ Adds(f, T, h)
    BY DEF Summed
  <1>2. SumFunctionOnSet(f, S) = g[S] /\ SumFunctionOnSet(f, T) = h[T]
    BY SumIs
  <1> HIDE DEF g, h
  <1>3. g[S] = IF S = {} THEN 0 ELSE f[Chosen(S)] + g[T]
    BY <1>1, AddsStep
  <1>4. g[T] = h[T]
    BY <1>1, AddsAlike
  <1> QED
    BY <1>2, <1>3, <1>4

LEMMA AllSummed ==
  ASSUME NEW f, NEW S, IsFiniteSet(S)
  PROVE  Summed(f, S)
  <1> DEFINE Bad == {u \in SUBSET S : ~ Summed(f, u)}
  <1> SUFFICES ASSUME Bad # {} PROVE FALSE
    OBVIOUS
  <1>0. Bad \in SUBSET (SUBSET S) /\ Bad # {}
    OBVIOUS
  <1>1. PICK T \in Bad : \A v \in Bad : v \subseteq T => v = T
    <2> HIDE DEF Bad
    <2> QED
      BY <1>0, Smallest
  <1>2. /\ T \in SUBSET S /\ ~ Summed(f, T)
        /\ \A v \in SUBSET T : v # T => Summed(f, v)
        /\ \A v \in SUBSET T : IsFiniteSet(v)
    BY <1>1, FS_Subset
  <1> HIDE DEF Bad
  <1> DEFINE G == [s \in SUBSET T |-> IF s = {} THEN 0 ELSE f[Chosen(s)] + SumFunctionOnSet(f, s \ {Chosen(s)})]
  <1>3. ASSUME NEW u \in SUBSET T, u # T PROVE G[u] = SumFunctionOnSet(f, u)
    <2>1. Summed(f, u) /\ Summed(f, u \ {Chosen(u)}) /\ IsFiniteSet(u)
      <3>1. u \ {Chosen(u)} \in SUBSET T /\ u \ {Chosen(u)} # T
        BY <1>3
      <3> QED
        BY <1>2, <1>3, <3>1
    <2>2. SumFunctionOnSet(f, u) = IF u = {} THEN 0 ELSE f[Chosen(u)] + SumFunctionOnSet(f, u \ {Chosen(u)})
      BY <2>1, SummedStep
    <2> QED
      BY <2>2
  <1>4. ASSUME NEW s \in SUBSET T, s # {} PROVE G[s] = f[Chosen(s)] + G[s \ {Chosen(s)}]
    <2>1. s \ {Chosen(s)} \in SUBSET T /\ s \ {Chosen(s)} # T
      BY <1>4, ChosenIn
    <2>2. G[s \ {Chosen(s)}] = SumFunctionOnSet(f, s \ {Chosen(s)})
      BY <1>3, <2>1
    <2> QED
      BY <1>4, <2>2
  <1>5. G = [s \in SUBSET T |-> IF s = {} THEN 0 ELSE f[Chosen(s)] + G[s \ {Chosen(s)}]]
    <2>1. G \in [SUBSET T -> {G[s] : s \in SUBSET T}] /\ \A s \in SUBSET T : s = {} => G[s] = 0
      OBVIOUS
    <2> HIDE DEF G
    <2> QED
      BY <1>4, <2>1
  <1>6. Adds(f, T, G)
    BY <1>5 DEF Adds
  <1> QED
    BY <1>2, <1>6 DEF Summed

\* The sum over a finite set, one element at a time.
LEMMA SumStep ==
  ASSUME NEW f, NEW S, IsFiniteSet(S)
  PROVE  SumFunctionOnSet(f, S) = IF S = {} THEN 0 ELSE f[Chosen(S)] + SumFunctionOnSet(f, S \ {Chosen(S)})
  <1>1. IsFiniteSet(S \ {Chosen(S)})
    BY FS_Difference
  <1> QED
    BY <1>1, AllSummed, SummedStep

LEMMA SumIsInt ==
  ASSUME NEW f, NEW S, IsFiniteSet(S), \A s \in S : f[s] \in Int
  PROVE  SumFunctionOnSet(f, S) \in Int
  <1> DEFINE Bad == {u \in SUBSET S : SumFunctionOnSet(f, u) \notin Int}
  <1> SUFFICES ASSUME Bad # {} PROVE FALSE
    OBVIOUS
  <1>0. Bad \in SUBSET (SUBSET S) /\ Bad # {}
    OBVIOUS
  <1>1. PICK T \in Bad : \A v \in Bad : v \subseteq T => v = T
    <2> HIDE DEF Bad
    <2> QED
      BY <1>0, Smallest
  <1>2. IsFiniteSet(T)
    BY FS_Subset
  <1>3. SumFunctionOnSet(f, T) = IF T = {} THEN 0 ELSE f[Chosen(T)] + SumFunctionOnSet(f, T \ {Chosen(T)})
    BY <1>2, SumStep
  <1>4. T # {} /\ Chosen(T) \in T
    BY <1>3, ChosenIn
  <1>5. SumFunctionOnSet(f, T \ {Chosen(T)}) \in Int
    BY <1>1, <1>4
  <1> QED
    BY <1>3, <1>4, <1>5

\* Any element may be taken out first.
LEMMA SumTakes ==
  ASSUME NEW f, NEW S, IsFiniteSet(S), \A s \in S : f[s] \in Int, NEW x \in S
  PROVE  SumFunctionOnSet(f, S) = f[x] + SumFunctionOnSet(f, S \ {x})
  <1> DEFINE Bad == {u \in SUBSET S : \E y \in u : SumFunctionOnSet(f, u) # f[y] + SumFunctionOnSet(f, u \ {y})}
  <1> SUFFICES ASSUME Bad # {} PROVE FALSE
    OBVIOUS
  <1>0. Bad \in SUBSET (SUBSET S) /\ Bad # {}
    OBVIOUS
  <1>1. PICK T \in Bad : \A v \in Bad : v \subseteq T => v = T
    <2> HIDE DEF Bad
    <2> QED
      BY <1>0, Smallest
  <1>2. PICK y \in T : SumFunctionOnSet(f, T) # f[y] + SumFunctionOnSet(f, T \ {y})
    BY <1>1
  <1> DEFINE c == Chosen(T)
  <1>3. /\ IsFiniteSet(T) /\ IsFiniteSet((T \ {c}) \ {y})
        /\ T \subseteq S
    <2>1. T \in SUBSET S /\ (T \ {c}) \ {y} \in SUBSET S
      OBVIOUS
    <2> QED
      BY <2>1, FS_Subset
  <1>4. c \in T /\ SumFunctionOnSet(f, T) = f[c] + SumFunctionOnSet(f, T \ {c})
    BY <1>2, <1>3, SumStep, ChosenIn
  <1> HIDE DEF c
  <1>5. c # y
    BY <1>2, <1>4
  <1>6. SumFunctionOnSet(f, T \ {c}) = f[y] + SumFunctionOnSet(f, (T \ {c}) \ {y})
    BY <1>1, <1>2, <1>4, <1>5
  <1>7. SumFunctionOnSet(f, T \ {y}) = f[c] + SumFunctionOnSet(f, (T \ {y}) \ {c})
    BY <1>1, <1>2, <1>4, <1>5
  <1>8. (T \ {y}) \ {c} = (T \ {c}) \ {y}
    OBVIOUS
  <1>9. SumFunctionOnSet(f, (T \ {c}) \ {y}) \in Int
    BY <1>3, SumIsInt
  <1>10. f[c] \in Int /\ f[y] \in Int
    BY <1>2, <1>3, <1>4
  <1> QED
    BY <1>2, <1>4, <1>6, <1>7, <1>8, <1>9, <1>10

LEMMA SumAlike ==
  ASSUME NEW f, NEW g, NEW S, IsFiniteSet(S), \A s \in S : f[s] = g[s]
  PROVE  SumFunctionOnSet(f, S) = SumFunctionOnSet(g, S)
  <1> DEFINE Bad == {u \in SUBSET S : SumFunctionOnSet(f, u) # SumFunctionOnSet(g, u)}
  <1> SUFFICES ASSUME Bad # {} PROVE FALSE
    OBVIOUS
  <1>0. Bad \in SUBSET (SUBSET S) /\ Bad # {}
    OBVIOUS
  <1>1. PICK T \in Bad : \A v \in Bad : v \subseteq T => v = T
    <2> HIDE DEF Bad
    <2> QED
      BY <1>0, Smallest
  <1>2. IsFiniteSet(T)
    BY FS_Subset
  <1>3. /\ SumFunctionOnSet(f, T) = IF T = {} THEN 0 ELSE f[Chosen(T)] + SumFunctionOnSet(f, T \ {Chosen(T)})
        /\ SumFunctionOnSet(g, T) = IF T = {} THEN 0 ELSE g[Chosen(T)] + SumFunctionOnSet(g, T \ {Chosen(T)})
    BY <1>2, SumStep
  <1>4. T # {} /\ Chosen(T) \in T
    BY <1>3, ChosenIn
  <1>5. SumFunctionOnSet(f, T \ {Chosen(T)}) = SumFunctionOnSet(g, T \ {Chosen(T)})
    BY <1>1, <1>4
  <1> QED
    BY <1>3, <1>4, <1>5

-----------------------------------------------------------------------------
(* The total *)

OnBoard == {c \in Cases : Live(c) /\ at[c] # NoStage}
Deleting == {r \in At("decrement") : req[r].stage = NoStage}

Total == SumFunctionOnSet(count, stages)
Whole == Cardinality(OnBoard) + Cardinality(At("insert")) + Cardinality(Deleting)
           - Cardinality(At("increment"))

\* What request r and case c contribute to the whole.
Part(r, c) ==
  Ones(c \in OnBoard) + Ones(req[r].pc = "insert")
    + Ones(req[r].pc = "decrement" /\ req[r].stage = NoStage) - Ones(req[r].pc = "increment")

\* In the second regime no stage goes away, so the stages a request has read exist.
Knows(r) ==
  /\ req[r].pc \in {"insert", "read", "move", "increment"} => req[r].stage \in stages
  /\ req[r].pc = "move" /\ Live(req[r].case) => req[r].old \in stages
  /\ req[r].pc = "update" => req[r].old \in stages
  /\ req[r].pc = "decrement" => req[r].old \in stages /\ req[r].stage \in stages \union {NoStage}

Filed == \A c \in Cases : Live(c) => at[c] \in stages
Unused == \A s \in StageIds : s >= nextId => count[s] = 0

Sound == Moving /\ Filed /\ Unused /\ \A r \in Requests : Knows(r)

TotalInv == Base /\ (moving => Sound /\ Total = Whole)

LEMMA WholeMoves ==
  ASSUME NEW r \in Requests, \A q \in Requests \ {r} : req'[q] = req[q],
         NEW c, OnBoard' \ {c} = OnBoard \ {c}
  PROVE  /\ Whole \in Int /\ Whole' \in Int
         /\ Whole' - Part(r, c)' = Whole - Part(r, c)
  <1>1. /\ At("insert")' \ {r} = At("insert") \ {r}
        /\ Deleting' \ {r} = Deleting \ {r}
        /\ At("increment")' \ {r} = At("increment") \ {r}
    BY DEF Deleting, At
  <1>2. /\ IsFiniteSet(OnBoard) /\ IsFiniteSet(At("insert"))
        /\ IsFiniteSet(Deleting) /\ IsFiniteSet(At("increment"))
    <2>1. /\ OnBoard \in SUBSET Cases /\ At("insert") \in SUBSET Requests
          /\ Deleting \in SUBSET Requests /\ At("increment") \in SUBSET Requests
      BY DEF OnBoard, Deleting, At
    <2> QED
      BY <2>1, FinitelyMany, FS_Subset
  <1>3. /\ (r \in At("insert")) <=> (req[r].pc = "insert")
        /\ (r \in At("insert")') <=> (req'[r].pc = "insert")
        /\ (r \in Deleting) <=> (req[r].pc = "decrement" /\ req[r].stage = NoStage)
        /\ (r \in Deleting') <=> (req'[r].pc = "decrement" /\ req'[r].stage = NoStage)
        /\ (r \in At("increment")) <=> (req[r].pc = "increment")
        /\ (r \in At("increment")') <=> (req'[r].pc = "increment")
    BY DEF Deleting, At
  <1>4. /\ Cardinality(OnBoard) \in Int /\ Cardinality(OnBoard') \in Int
        /\ Cardinality(OnBoard') - Ones(c \in OnBoard')
             = Cardinality(OnBoard) - Ones(c \in OnBoard)
    BY <1>2, CardinalityMoves
  <1>5. /\ Cardinality(At("insert")) \in Int /\ Cardinality(At("insert")') \in Int
        /\ Cardinality(At("insert")') - Ones(req'[r].pc = "insert")
             = Cardinality(At("insert")) - Ones(req[r].pc = "insert")
    BY <1>1, <1>2, <1>3, CardinalityMoves DEF Ones
  <1>6. /\ Cardinality(Deleting) \in Int /\ Cardinality(Deleting') \in Int
        /\ Cardinality(Deleting') - Ones(req'[r].pc = "decrement" /\ req'[r].stage = NoStage)
             = Cardinality(Deleting) - Ones(req[r].pc = "decrement" /\ req[r].stage = NoStage)
    BY <1>1, <1>2, <1>3, CardinalityMoves DEF Ones
  <1>7. /\ Cardinality(At("increment")) \in Int /\ Cardinality(At("increment")') \in Int
        /\ Cardinality(At("increment")') - Ones(req'[r].pc = "increment")
             = Cardinality(At("increment")) - Ones(req[r].pc = "increment")
    BY <1>1, <1>2, <1>3, CardinalityMoves DEF Ones
  <1> QED
    BY <1>4, <1>5, <1>6, <1>7 DEF Whole, Part, Ones

\* So the total stays right if it changes by as much.
LEMMA TotalBalances ==
  ASSUME NEW r \in Requests, \A q \in Requests \ {r} : req'[q] = req[q],
         NEW c, OnBoard' \ {c} = OnBoard \ {c}, Total = Whole, Total' \in Int,
         Total' - Part(r, c)' = Total - Part(r, c)
  PROVE  Total' = Whole'
  <1>1. /\ Whole \in Int /\ Whole' \in Int
        /\ Whole' - Part(r, c)' = Whole - Part(r, c)
    BY WholeMoves
  <1>2. Part(r, c) \in Int /\ Part(r, c)' \in Int
    BY DEF Part, Ones
  <1> DEFINE n == Total'
             f == Whole'
             e == Whole
             y == Part(r, c)'
             x == Part(r, c)
  <1>3. /\ f \in Int /\ e \in Int /\ f - y = e - x
        /\ x \in Int /\ y \in Int /\ n \in Int
        /\ Total = e /\ n - y = Total - x
    BY <1>1, <1>2
  <1> HIDE DEF n, f, e, x, y
  <1>4. n = f
    BY <1>3
  <1> QED
    BY <1>4 DEF n, f

-----------------------------------------------------------------------------
(* Steps on the counters *)

LEMMA StagesSummed ==
  ASSUME NEW f \in [StageIds -> Int], NEW S \in SUBSET StageIds
  PROVE  /\ IsFiniteSet(S) /\ \A s \in S : f[s] \in Int
         /\ SumFunctionOnSet(f, S) \in Int
  <1>1. IsFiniteSet(S) /\ \A s \in S : f[s] \in Int
    BY StagesFinite, FS_Subset
  <1> QED
    BY <1>1, SumIsInt

\* Two functions that differ in one place, differ there by as much as their sums.
LEMMA SumsDiffer ==
  ASSUME NEW f \in [StageIds -> Int], NEW g \in [StageIds -> Int], NEW S \in SUBSET StageIds,
         NEW x \in S, \A s \in S \ {x} : g[s] = f[s]
  PROVE  SumFunctionOnSet(g, S) = SumFunctionOnSet(f, S) + g[x] - f[x]
  <1>1. IsFiniteSet(S) /\ (\A s \in S : f[s] \in Int) /\ (\A s \in S : g[s] \in Int)
    BY StagesSummed
  <1>2. SumFunctionOnSet(f, S) = f[x] + SumFunctionOnSet(f, S \ {x})
    BY <1>1, SumTakes
  <1>3. SumFunctionOnSet(g, S) = g[x] + SumFunctionOnSet(g, S \ {x})
    BY <1>1, SumTakes
  <1>4. SumFunctionOnSet(g, S \ {x}) = SumFunctionOnSet(f, S \ {x})
    <2>1. S \ {x} \in SUBSET StageIds
      OBVIOUS
    <2>2. IsFiniteSet(S \ {x})
      BY <2>1, StagesSummed
    <2> QED
      BY <2>2, SumAlike
  <1>5. SumFunctionOnSet(f, S \ {x}) \in Int
    <2>1. S \ {x} \in SUBSET StageIds
      OBVIOUS
    <2> QED
      BY <2>1, StagesSummed
  <1> QED
    BY <1>1, <1>2, <1>3, <1>4, <1>5

LEMMA TotalIsInt == ASSUME Base PROVE Total \in Int
  BY StagesSummed DEF Base, TypeInv, TypeOK, Total

\* One counter changes.
LEMMA TotalCounts ==
  ASSUME Base, Base', stages' = stages, NEW s \in stages,
         \A t \in stages \ {s} : count'[t] = count[t]
  PROVE  /\ Total' = Total + count'[s] - count[s]
         /\ Total \in Int /\ count[s] \in Int /\ count'[s] \in Int
  <1>1. count \in [StageIds -> Int] /\ count' \in [StageIds -> Int] /\ stages \in SUBSET StageIds
    BY DEF Base, TypeInv, TypeOK
  <1> DEFINE g == count'
  <1>2. g \in [StageIds -> Int] /\ \A t \in stages \ {s} : g[t] = count[t]
    BY <1>1
  <1> HIDE DEF g
  <1>3. SumFunctionOnSet(g, stages) = SumFunctionOnSet(count, stages) + g[s] - count[s]
    BY <1>1, <1>2, SumsDiffer
  <1> QED
    BY <1>1, <1>3, TotalIsInt DEF Total, g

\* A move takes from one counter what it gives to the other.
LEMMA TotalOfMove ==
  ASSUME Base, Base', stages' = stages, NEW old \in stages, NEW new \in stages,
         count' = [s \in StageIds |-> count[s] + (IF s = new THEN 1 ELSE 0)
                                               - (IF s = old THEN 1 ELSE 0)]
  PROVE  Total' = Total
  <1> DEFINE half == [count EXCEPT ![old] = @ - 1]
  <1>1. /\ count \in [StageIds -> Int] /\ count' \in [StageIds -> Int] /\ half \in [StageIds -> Int]
        /\ stages \in SUBSET StageIds
    BY DEF Base, TypeInv, TypeOK
  <1>2. /\ \A t \in stages \ {old} : half[t] = count[t]
        /\ half[old] = count[old] - 1
    BY <1>1
  <1>3. /\ \A t \in stages \ {new} : count'[t] = half[t]
        /\ count'[new] = half[new] + 1
    BY <1>1
  <1> HIDE DEF half
  <1>4. SumFunctionOnSet(half, stages) = SumFunctionOnSet(count, stages) + half[old] - count[old]
    <2>1. \A t \in stages \ {old} : half[t] = count[t]
      BY <1>2
    <2> QED
      BY <1>1, <2>1, SumsDiffer
  <1>5. SumFunctionOnSet(count', stages) = SumFunctionOnSet(half, stages) + count'[new] - half[new]
    BY <1>1, <1>3, SumsDiffer
  <1>6. /\ SumFunctionOnSet(count, stages) \in Int /\ SumFunctionOnSet(half, stages) \in Int
        /\ half[old] \in Int /\ count[old] \in Int /\ half[new] \in Int
    BY <1>1, StagesSummed
  <1> QED
    BY <1>2, <1>3, <1>4, <1>5, <1>6 DEF Total

\* A new stage has counted nothing yet.
LEMMA TotalOfStages ==
  ASSUME Base, Base', Unused, NEW t, AddStage(t), count' = count
  PROVE  Total' = Total /\ Unused'
  <1>1. /\ count \in [StageIds -> Int] /\ stages \in SUBSET StageIds /\ stages' \in SUBSET StageIds
        /\ stages' = stages \union {nextId} /\ nextId' = nextId + 1 /\ nextId \in Int
    BY ConstantsAssumption DEF Base, TypeInv, TypeOK, AddStage
  <1>2. nextId \in stages' /\ nextId \notin stages /\ nextId \in StageIds
    BY <1>1 DEF Base, Placed
  <1>3. count[nextId] = 0
    BY <1>1, <1>2 DEF Unused
  <1>4. IsFiniteSet(stages') /\ \A s \in stages' : count[s] \in Int
    BY <1>1, StagesSummed
  <1>5. SumFunctionOnSet(count, stages') = count[nextId] + SumFunctionOnSet(count, stages' \ {nextId})
    BY <1>2, <1>4, SumTakes
  <1>6. stages' \ {nextId} = stages
    BY <1>1, <1>2
  <1>7. SumFunctionOnSet(count, stages) \in Int
    BY <1>1, StagesSummed
  <1>8. Total' = Total
    <2>1. SumFunctionOnSet(count', stages') = SumFunctionOnSet(count, stages)
      BY <1>3, <1>5, <1>6, <1>7
    <2> QED
      BY <2>1 DEF Total
  <1>9. Unused'
    BY <1>1, StagesFinite DEF Unused
  <1> QED
    BY <1>8, <1>9

\* A counter that changes is one of a stage.
LEMMA UnusedStays ==
  ASSUME Base, Base', Unused, nextId' = nextId, NEW A \in SUBSET stages,
         \A s \in StageIds \ A : count'[s] = count[s]
  PROVE  Unused'
  BY StagesFinite, ConstantsAssumption DEF Base, Placed, TypeInv, TypeOK, Unused

-----------------------------------------------------------------------------
(* Every step keeps the total right *)

\* Stages stay, and a case once read is no more live than before.
LEMMA BoardGrows ==
  ASSUME Base, Base', Moving, NEW r \in Requests, Serve(r) \/ RequestDies(r)
  PROVE  /\ stages \subseteq stages'
         /\ \A c \in Cases : existing[c] # "new" /\ Live(c)' => Live(c)
  <1>1. stages \subseteq stages'
    BY Effects DEF Moving
  <1>2. ASSUME NEW c \in Cases, existing[c] # "new", Live(c)' PROVE Live(c)
    BY <1>2, Effects DEF Moving, Live
  <1> QED
    BY <1>1, <1>2

LEMMA OthersKnow ==
  ASSUME Base, Base', Sound, NEW r \in Requests, Serve(r) \/ RequestDies(r),
         NEW q \in Requests, q # r
  PROVE  Knows(q)'
  <1>1. req'[q] = req[q] /\ Knows(q)
    BY OneServed DEF Sound
  <1>2. stages \subseteq stages' /\ \A c \in Cases : existing[c] # "new" /\ Live(c)' => Live(c)
    BY BoardGrows DEF Sound
  <1>3. /\ req[q].pc = "move" => req[q].case \in Cases
        /\ req[q].case \in Cases => existing[req[q].case] # "new"
    BY DEF Base, TypeInv, CaseKnown, Placed
  <1>4. req[q].pc = "move" /\ Live(req[q].case)' => req[q].old \in stages'
    BY <1>1, <1>2, <1>3 DEF Knows
  <1> QED
    BY <1>1, <1>2, <1>4 DEF Knows

\* What a step of request r has to preserve, besides what the others know.
Preserves(r) == Filed' /\ Unused' /\ Knows(r)' /\ Total' = Whole'

\* The board and its counters stay as they are.
LEMMA SameSums ==
  ASSUME Base, Base', Sound, UNCHANGED <<existing, at, stages>>
  PROVE  /\ Filed' /\ OnBoard' = OnBoard
         /\ count' = count => Total' = Total
         /\ UNCHANGED <<count, nextId>> => Unused'
  <1>1. Filed' /\ OnBoard' = OnBoard
    BY DEF Sound, Filed, OnBoard, Live
  <1>2. count' = count => Total' = Total
    BY DEF Total
  <1>3. UNCHANGED <<count, nextId>> => Unused'
    BY DEF Sound, Unused
  <1> QED
    BY <1>1, <1>2, <1>3

LEMMA QuietTotal ==
  ASSUME Base, Base', Sound, Total = Whole,
         NEW r \in Requests, \A q \in Requests \ {r} : req'[q] = req[q],
         UNCHANGED <<existing, at>>, Total' = Total,
         req[r].pc \notin Counting, req'[r].pc \notin Counting
  PROVE  Total' = Whole'
  <1>1. OnBoard' = OnBoard
    BY DEF OnBoard, Live
  <1>2. Part(r, r)' = Part(r, r) /\ Part(r, r) \in Int
    BY <1>1 DEF Part, Ones, Counting
  <1>3. Total \in Int
    BY TotalIsInt
  <1> QED
    BY <1>1, <1>2, <1>3, TotalBalances

\* A request that begins, reads, ends, or brings a stage.
LEMMA QuietPreserves ==
  ASSUME Base, Base', Sound, Moving', Total = Whole, NEW r \in Requests, ~ LeavesUnfinished,
         \/ Create(r) \/ CreateDefaultStage(r) \/ DragRead(r) \/ InsertStage(r) \/ RequestDies(r)
         \/ \E c \in Cases, o, n \in StageIds : Drag(r, c, o, n)
         \/ \E c \in Cases, n \in StageIds \union {NoStage, Keep} : Update(r, c, n)
         \/ \E t \in Titles : CreateStage(r, t)
         \/ \E o \in StageIds : RemoveStage(r, o)
  PROVE  Preserves(r)
  <1>1. /\ UNCHANGED <<existing, at, count>>
        /\ req[r].pc \notin Counting /\ req'[r].pc \notin Counting
    BY QuietSteps
  <1>2. \A q \in Requests \ {r} : req'[q] = req[q]
    BY OneServed DEF Serve
  <1>3. Total' = Total /\ Unused' /\ stages \subseteq stages'
    <2>1. ASSUME NEW t, AddStage(t) PROVE Total' = Total /\ Unused' /\ stages \subseteq stages'
      <3>1. Total' = Total /\ Unused'
        BY <1>1, <2>1, TotalOfStages DEF Sound
      <3> QED
        BY <2>1, <3>1 DEF AddStage
    <2>2. CASE UNCHANGED <<stages, nextId>>
      BY <1>1, <2>2, SameSums
    <2> QED
      BY <2>1, <2>2 DEF Create, CreateDefaultStage, DragRead, InsertStage, RequestDies, Drag, Update,
                        CreateStage, RemoveStage
  <1>4. Filed'
    BY <1>1, <1>3 DEF Sound, Filed, Live
  <1>5. Total' = Whole'
    BY <1>1, <1>2, <1>3, QuietTotal
  <1>6. Knows(r)'
    <2> USE DEF Base, TypeInv, TypeOK
    <2>1. CASE RequestDies(r) \/ InsertStage(r)
      BY <2>1, IdleLocals DEF RequestDies, InsertStage, Finish, Knows
    <2>2. CASE CreateDefaultStage(r)
      <3>1. req' = [req EXCEPT ![r] = [req[r] EXCEPT !.pc = "reserve", !.stage = nextId]]
        BY <2>2 DEF CreateDefaultStage
      <3>2. req'[r].pc = "reserve"
        BY <3>1, LocalsShape DEF Locals
      <3> QED
        BY <3>2 DEF Knows
    <2>3. CASE DragRead(r)
      <3>1. CASE Finish(r)
        BY <3>1, IdleLocals DEF Finish, Knows
      <3> DEFINE old == IF Live(req[r].case) THEN at[req[r].case] ELSE NoStage
      <3>2. CASE req' = [req EXCEPT ![r] = [req[r] EXCEPT !.pc = "move", !.old = old]]
        <4>1. /\ req'[r].pc = "move" /\ req'[r].old = old
              /\ req'[r].stage = req[r].stage /\ req'[r].case = req[r].case
          <5> HIDE DEF old
          <5> QED
            BY <3>2, LocalsShape DEF Locals
        <4>2. req[r].case \in Cases /\ req[r].stage \in stages
          BY <2>3 DEF DragRead, CaseKnown, Sound, Knows
        <4>3. Live(req[r].case) => old \in stages
          BY <4>2 DEF Sound, Filed
        <4> QED
          BY <1>1, <1>3, <4>1, <4>2, <4>3 DEF Knows, Live
      <3> QED
        BY <2>3, <3>1, <3>2 DEF DragRead
    <2>4. CASE Create(r)
      <3>1. req'[r].pc \in {"default", "reserve"}
        BY <2>4 DEF Create, Begin, Idle
      <3> QED
        BY <3>1 DEF Knows
    <2>5. ASSUME NEW c \in Cases, NEW o \in StageIds, NEW n \in StageIds, Drag(r, c, o, n)
          PROVE  Knows(r)'
      BY <2>5 DEF Drag, Begin, Idle, Knows
    <2>6. ASSUME NEW c \in Cases, NEW n \in StageIds \union {NoStage, Keep}, Update(r, c, n)
          PROVE  Knows(r)'
      BY <2>6 DEF Update, Begin, Idle, Knows, Sound, Filed
    <2>7. CASE \/ \E t \in Titles : CreateStage(r, t)
               \/ \E o \in StageIds : RemoveStage(r, o)
      <3>1. req'[r].pc \in {"title", "remove"}
        BY <2>7 DEF CreateStage, RemoveStage, Begin, Idle
      <3> QED
        BY <3>1 DEF Knows
    <2> QED
      BY <2>1, <2>2, <2>3, <2>4, <2>5, <2>6, <2>7
  <1> QED
    BY <1>3, <1>4, <1>5, <1>6 DEF Preserves

LEMMA ReservePreserves ==
  ASSUME Base, Base', Sound, Total = Whole, NEW r \in Requests, Reserve(r)
  PROVE  Preserves(r)
  <1>0. /\ \A q \in Requests \ {r} : req'[q] = req[q]
        /\ UNCHANGED <<existing, at, stages, nextId>> /\ req[r].pc = "reserve"
    BY OneServed DEF Reserve, Serve
  <1>1. Filed' /\ OnBoard' = OnBoard
    BY <1>0, SameSums
  <1>2. CASE Finish(r) /\ count' = count
    <2>1. Total' = Total /\ Unused'
      BY <1>0, <1>2, SameSums
    <2>2. req'[r].pc = "idle"
      BY <1>2, IdleLocals DEF Finish, Base, TypeInv, TypeOK
    <2> QED
      BY <1>0, <1>1, <2>1, <2>2, QuietTotal DEF Counting, Preserves, Knows
  <1>3. ASSUME NEW s \in stages, s = req[r].stage, count' = [count EXCEPT ![s] = @ + 1],
               Goto(r, "insert")
        PROVE  Preserves(r)
    <2>1. req'[r].pc = "insert" /\ req'[r].stage = s
      <3>1. req' = [req EXCEPT ![r] = [req[r] EXCEPT !.pc = "insert"]]
        BY <1>3 DEF Goto
      <3> QED
        BY <1>3, <3>1, LocalsShape DEF Base, TypeInv, TypeOK, Locals
    <2>2. Total' = Total + 1 /\ Total \in Int
      <3>1. count'[s] = count[s] + 1 /\ \A t \in stages \ {s} : count'[t] = count[t]
        BY <1>3 DEF Base, TypeInv, TypeOK
      <3>2. /\ Total' = Total + count'[s] - count[s]
            /\ Total \in Int /\ count[s] \in Int /\ count'[s] \in Int
        BY <1>0, <3>1, TotalCounts
      <3> QED
        BY <3>1, <3>2
    <2>3. Part(r, r) = Ones(r \in OnBoard) /\ Part(r, r)' = Ones(r \in OnBoard) + 1
      BY <1>0, <1>1, <2>1 DEF Part, Ones
    <2>4. Total' = Whole'
      <3>1. Total' - Part(r, r)' = Total - Part(r, r) /\ Total' \in Int
        BY <2>2, <2>3 DEF Ones
      <3> QED
        BY <1>0, <1>1, <3>1, TotalBalances
    <2>5. Unused'
      <3>1. {s} \in SUBSET stages /\ \A t \in StageIds \ {s} : count'[t] = count[t]
        BY <1>3 DEF Base, TypeInv, TypeOK
      <3> QED
        BY <1>0, <3>1, UnusedStays DEF Sound
    <2>6. Knows(r)'
      BY <1>0, <2>1 DEF Knows
    <2> QED
      BY <1>1, <2>4, <2>5, <2>6 DEF Preserves
  <1> QED
    BY <1>0, <1>2, <1>3 DEF Reserve

LEMMA InsertPreserves ==
  ASSUME Base, Base', Sound, Total = Whole, NEW r \in Requests, Insert(r)
  PROVE  Preserves(r)
  <1>0. /\ \A q \in Requests \ {r} : req'[q] = req[q]
        /\ UNCHANGED <<stages, count, nextId>> /\ req[r].pc = "insert" /\ req'[r].pc = "idle"
    BY OneServed, IdleLocals DEF Insert, Serve, Finish, Base, TypeInv, TypeOK
  <1>1. PICK c \in Cases : /\ existing[c] = "new" /\ existing' = [existing EXCEPT ![c] = "live"]
                           /\ at' = [at EXCEPT ![c] = req[r].stage]
                           /\ req[r].stage \in stages
    BY <1>0 DEF Insert, Sound, Knows
  <1>2. Total' = Total /\ Unused' /\ Knows(r)'
    BY <1>0 DEF Total, Sound, Unused, Knows
  <1>3. Filed'
    BY <1>0, <1>1 DEF Sound, Filed, Live, Base, TypeInv, TypeOK
  <1>4. OnBoard' \ {c} = OnBoard \ {c} /\ c \notin OnBoard /\ c \in OnBoard'
    <2>1. req[r].stage # NoStage
      BY <1>1, StagesFinite, ConstantsAssumption DEF Base, TypeInv, TypeOK, StageIds, NoStage
    <2> QED
      BY <1>1, <2>1 DEF OnBoard, Live, Base, TypeInv, TypeOK
  <1>5. Part(r, c) = 1 /\ Part(r, c)' = 1
    BY <1>0, <1>4 DEF Part, Ones
  <1>6. Total' - Part(r, c)' = Total - Part(r, c) /\ Total' \in Int
    BY <1>2, <1>5, TotalIsInt
  <1> QED
    BY <1>0, <1>2, <1>3, <1>4, <1>6, TotalBalances DEF Preserves

\* A live case goes to a stage that exists.
LEMMA Filing ==
  ASSUME Base, Sound, NEW c \in Cases, Live(c), UNCHANGED <<existing, stages>>,
         NEW new \in stages, at' = [at EXCEPT ![c] = new]
  PROVE  OnBoard' = OnBoard /\ Filed'
  <1>1. NoStage \notin stages
    BY ConstantsAssumption DEF Base, TypeInv, TypeOK, StageIds, NoStage
  <1> QED
    BY <1>1 DEF Sound, Filed, OnBoard, Live, Base, TypeInv, TypeOK

LEMMA MovePreserves ==
  ASSUME Base, Base', Sound, Total = Whole, NEW r \in Requests, Move(r)
  PROVE  Preserves(r)
  <1>0. /\ \A q \in Requests \ {r} : req'[q] = req[q]
        /\ UNCHANGED <<existing, stages, nextId>> /\ req[r].pc = "move" /\ req'[r].pc = "idle"
        /\ req[r].case \in Cases
    BY OneServed, IdleLocals DEF Move, Serve, Finish, Base, TypeInv, TypeOK, CaseKnown
  <1>1. Knows(r)' /\ req[r].pc \notin Counting /\ req'[r].pc \notin Counting
    BY <1>0 DEF Knows, Counting
  <1>2. CASE UNCHANGED <<count, at>>
    <2>1. Filed' /\ Total' = Total /\ Unused'
      BY <1>0, <1>2, SameSums
    <2> QED
      BY <1>0, <1>1, <1>2, <2>1, QuietTotal DEF Preserves
  <1>3. ASSUME NEW c \in Cases, c = req[r].case, Live(c), NEW old, old = req[r].old,
               NEW new, new = req[r].stage, at' = [at EXCEPT ![c] = new],
               count' = [s \in StageIds |-> count[s] + (IF s = new THEN 1 ELSE 0)
                                                     - (IF s = old THEN 1 ELSE 0)]
        PROVE  Preserves(r)
    <2>1. old \in stages /\ new \in stages
      BY <1>0, <1>3 DEF Sound, Knows
    <2>2. Total' = Total /\ Total \in Int
      BY <1>0, <1>3, <2>1, TotalOfMove, TotalIsInt
    <2>3. OnBoard' = OnBoard /\ Filed'
      BY <1>0, <1>3, <2>1, Filing
    <2>4. Part(r, r)' = Part(r, r) /\ Part(r, r) \in Int
      BY <1>0, <2>3 DEF Part, Ones
    <2>5. Total' = Whole'
      BY <1>0, <2>2, <2>3, <2>4, TotalBalances
    <2>6. Unused'
      <3>1. \A s \in StageIds \ {old, new} : count'[s] = count[s]
        BY <1>3 DEF Base, TypeInv, TypeOK
      <3> QED
        BY <1>0, <2>1, <3>1, UnusedStays DEF Sound
    <2> QED
      BY <1>1, <2>3, <2>5, <2>6 DEF Preserves
  <1> QED
    BY <1>0, <1>2, <1>3 DEF Move

LEMMA UpdatePreserves ==
  ASSUME Base, Base', Sound, Total = Whole, NEW r \in Requests, UpdateCase(r)
  PROVE  Preserves(r)
  <1>0. /\ \A q \in Requests \ {r} : req'[q] = req[q]
        /\ UNCHANGED <<existing, stages, count, nextId>> /\ req[r].pc = "update"
        /\ req[r].case \in Cases
    BY OneServed DEF UpdateCase, Serve, Base, TypeInv, CaseKnown
  <1>1. Total' = Total /\ Unused' /\ Total \in Int
    BY <1>0, TotalIsInt DEF Total, Sound, Unused
  <1>2. ASSUME OnBoard' = OnBoard, Filed', Finish(r) PROVE Preserves(r)
    <2>1. req'[r].pc = "idle"
      BY <1>2, IdleLocals DEF Finish, Base, TypeInv, TypeOK
    <2>2. Part(r, r)' = Part(r, r) /\ Part(r, r) \in Int
      BY <1>0, <1>2, <2>1 DEF Part, Ones
    <2>3. Total' = Whole'
      BY <1>0, <1>1, <1>2, <2>2, TotalBalances
    <2> QED
      BY <1>1, <1>2, <2>1, <2>3 DEF Preserves, Knows
  <1>3. CASE UNCHANGED at /\ Finish(r)
    BY <1>0, <1>2, <1>3, SameSums
  <1>4. ASSUME NEW c \in Cases, c = req[r].case, Live(c), Connected(r), NEW new, new = NewStage(r),
               at' = [at EXCEPT ![c] = new]
        PROVE  Preserves(r)
    <2>1. new \in stages
      BY <1>0, <1>4 DEF Connected, NewStage, Sound, Moving, Filed
    <2>2. OnBoard' = OnBoard /\ Filed'
      BY <1>0, <1>4, <2>1, Filing
    <2>3. req[r].old \in stages /\ req[r].old # NoStage
      <3>1. req[r].old \in stages
        BY <1>0 DEF Sound, Knows
      <3> QED
        BY <3>1, ConstantsAssumption DEF Base, TypeInv, TypeOK, StageIds, NoStage
    <2>4. CASE req' = [req EXCEPT ![r] = [req[r] EXCEPT !.pc = "decrement", !.stage = new]]
      <3>1. req'[r].pc = "decrement" /\ req'[r].stage = new /\ req'[r].old = req[r].old
        BY <2>4, LocalsShape DEF Base, TypeInv, TypeOK, Locals
      <3>2. new # NoStage
        BY <2>1, ConstantsAssumption DEF Base, TypeInv, TypeOK, StageIds, NoStage
      <3>3. Part(r, r)' = Part(r, r) /\ Part(r, r) \in Int
        BY <1>0, <2>2, <3>1, <3>2 DEF Part, Ones
      <3>4. Total' = Whole'
        BY <1>0, <1>1, <2>2, <3>3, TotalBalances
      <3>5. Knows(r)'
        BY <1>0, <2>1, <2>3, <3>1 DEF Knows
      <3> QED
        BY <1>1, <2>2, <3>4, <3>5 DEF Preserves
    <2> QED
      BY <1>2, <1>3, <1>4, <2>2, <2>3, <2>4 DEF UpdateCase
  <1> QED
    BY <1>0, <1>3, <1>4 DEF UpdateCase

LEMMA DecrementPreserves ==
  ASSUME Base, Base', Sound, Total = Whole, NEW r \in Requests, Decrement(r)
  PROVE  Preserves(r)
  <1> DEFINE old == req[r].old
             new == req[r].stage
  <1>0. /\ \A q \in Requests \ {r} : req'[q] = req[q]
        /\ UNCHANGED <<existing, at, stages, nextId>> /\ req[r].pc = "decrement"
        /\ old \in stages /\ new \in stages \union {NoStage}
    BY OneServed DEF Decrement, Serve, Sound, Knows
  <1>1. count' = [count EXCEPT ![old] = @ - 1]
    BY <1>0 DEF Decrement
  <1>2. \/ new = NoStage /\ req'[r].pc = "idle"
        \/ new # NoStage /\ req'[r].pc = "increment" /\ req'[r].stage = new
    <2>1. CASE new # NoStage
      <3>1. req' = [req EXCEPT ![r] = [req[r] EXCEPT !.pc = "increment"]]
        BY <1>0, <2>1 DEF Decrement
      <3> QED
        BY <2>1, <3>1, LocalsShape DEF Base, TypeInv, TypeOK, Locals
    <2>2. CASE new = NoStage
      BY <2>2, IdleLocals DEF Decrement, Base, TypeInv, TypeOK
    <2> QED
      BY <2>1, <2>2
  <1>3. Filed' /\ OnBoard' = OnBoard
    BY <1>0, SameSums
  <1>4. Total' = Total - 1 /\ Total \in Int
    <2>1. count'[old] = count[old] - 1 /\ \A t \in stages \ {old} : count'[t] = count[t]
      BY <1>0, <1>1 DEF Base, TypeInv, TypeOK
    <2>2. /\ Total' = Total + count'[old] - count[old]
          /\ Total \in Int /\ count[old] \in Int /\ count'[old] \in Int
      BY <1>0, <2>1, TotalCounts
    <2> QED
      BY <2>1, <2>2
  <1>5. Part(r, r)' = Part(r, r) - 1 /\ Part(r, r) \in Int
    BY <1>0, <1>2, <1>3 DEF Part, Ones
  <1>6. Total' = Whole'
    <2>1. Total' - Part(r, r)' = Total - Part(r, r) /\ Total' \in Int
      BY <1>4, <1>5
    <2> QED
      BY <1>0, <1>3, <2>1, TotalBalances
  <1>7. Unused'
    <2>1. {old} \in SUBSET stages /\ \A t \in StageIds \ {old} : count'[t] = count[t]
      BY <1>0, <1>1 DEF Base, TypeInv, TypeOK
    <2> QED
      BY <1>0, <2>1, UnusedStays DEF Sound
  <1>8. Knows(r)'
    BY <1>0, <1>2 DEF Knows
  <1> QED
    BY <1>3, <1>6, <1>7, <1>8 DEF Preserves

LEMMA IncrementPreserves ==
  ASSUME Base, Base', Sound, Total = Whole, NEW r \in Requests, Increment(r)
  PROVE  Preserves(r)
  <1> DEFINE new == req[r].stage
  <1>0. /\ \A q \in Requests \ {r} : req'[q] = req[q]
        /\ UNCHANGED <<existing, at, stages, nextId>>
        /\ req[r].pc = "increment" /\ req'[r].pc = "idle" /\ new \in stages
    BY OneServed, IdleLocals DEF Increment, Serve, Sound, Knows, Finish, Base, TypeInv, TypeOK
  <1>1. count' = [count EXCEPT ![new] = @ + 1]
    BY <1>0 DEF Increment
  <1>2. Filed' /\ OnBoard' = OnBoard /\ Knows(r)'
    BY <1>0, SameSums DEF Knows
  <1>3. Total' = Total + 1 /\ Total \in Int
    <2>1. count'[new] = count[new] + 1 /\ \A t \in stages \ {new} : count'[t] = count[t]
      BY <1>0, <1>1 DEF Base, TypeInv, TypeOK
    <2>2. /\ Total' = Total + count'[new] - count[new]
          /\ Total \in Int /\ count[new] \in Int /\ count'[new] \in Int
      BY <1>0, <2>1, TotalCounts
    <2> QED
      BY <2>1, <2>2
  <1>4. Part(r, r)' = Part(r, r) + 1 /\ Part(r, r) \in Int
    BY <1>0, <1>2 DEF Part, Ones
  <1>5. Total' = Whole'
    <2>1. Total' - Part(r, r)' = Total - Part(r, r) /\ Total' \in Int
      BY <1>3, <1>4
    <2> QED
      BY <1>0, <1>2, <2>1, TotalBalances
  <1>6. Unused'
    <2>1. {new} \in SUBSET stages /\ \A t \in StageIds \ {new} : count'[t] = count[t]
      BY <1>0, <1>1 DEF Base, TypeInv, TypeOK
    <2> QED
      BY <1>0, <2>1, UnusedStays DEF Sound
  <1> QED
    BY <1>2, <1>5, <1>6 DEF Preserves

LEMMA DeletePreserves ==
  ASSUME Base, Base', Sound, Total = Whole, NEW r \in Requests, NEW c \in Cases, Delete(r, c)
  PROVE  Preserves(r)
  <1>0. /\ \A q \in Requests \ {r} : req'[q] = req[q]
        /\ UNCHANGED <<stages, count, nextId>> /\ Live(c)
        /\ existing' = [existing EXCEPT ![c] = "deleted"] /\ at' = [at EXCEPT ![c] = NoStage]
    BY OneServed DEF Delete, Serve
  <1>1. at[c] \in stages /\ at[c] # NoStage
    <2>1. at[c] \in stages
      BY <1>0 DEF Sound, Filed
    <2> QED
      BY <2>1, ConstantsAssumption DEF Base, TypeInv, TypeOK, StageIds, NoStage
  <1>2. /\ req[r].pc = "idle" /\ req'[r].pc = "decrement"
        /\ req'[r].old = at[c] /\ req'[r].stage = NoStage
    <2>1. Begin(r, [Idle EXCEPT !.pc = "decrement", !.case = c, !.old = at[c]])
      BY <1>1 DEF Delete
    <2> QED
      BY <2>1 DEF Begin, Idle, Base, TypeInv, TypeOK
  <1>3. Total' = Total /\ Unused' /\ Knows(r)' /\ Filed' /\ Total \in Int
    BY <1>0, <1>1, <1>2, TotalIsInt
       DEF Total, Sound, Unused, Knows, Filed, Live, Base, TypeInv, TypeOK
  <1>4. OnBoard' \ {c} = OnBoard \ {c} /\ c \in OnBoard /\ c \notin OnBoard'
    BY <1>0, <1>1 DEF OnBoard, Live, Base, TypeInv, TypeOK
  <1>5. Part(r, c) = 1 /\ Part(r, c)' = 1
    BY <1>2, <1>4 DEF Part, Ones
  <1>6. Total' - Part(r, c)' = Total - Part(r, c) /\ Total' \in Int
    BY <1>3, <1>5
  <1> QED
    BY <1>0, <1>3, <1>4, <1>6, TotalBalances DEF Preserves

LEMMA StepPreserves ==
  ASSUME Base, Base', Sound, Moving', Total = Whole, NEW r \in Requests,
         Serve(r) \/ RequestDies(r), ~ LeavesUnfinished
  PROVE  Preserves(r)
  <1>1. CASE Reserve(r) \/ Insert(r) \/ Move(r) \/ UpdateCase(r) \/ Decrement(r) \/ Increment(r)
    BY <1>1, ReservePreserves, InsertPreserves, MovePreserves, UpdatePreserves, DecrementPreserves,
       IncrementPreserves
  <1>2. CASE \E c \in Cases : Delete(r, c)
    BY <1>2, DeletePreserves
  <1>3. CASE DeleteStage(r)
    BY <1>3 DEF DeleteStage, Sound, Moving
  <1>4. CASE \/ Create(r) \/ CreateDefaultStage(r) \/ DragRead(r) \/ InsertStage(r) \/ RequestDies(r)
             \/ \E c \in Cases, o, n \in StageIds : Drag(r, c, o, n)
             \/ \E c \in Cases, n \in StageIds \union {NoStage, Keep} : Update(r, c, n)
             \/ \E t \in Titles : CreateStage(r, t)
             \/ \E o \in StageIds : RemoveStage(r, o)
    BY <1>4, QuietPreserves
  <1> QED
    BY <1>1, <1>2, <1>3, <1>4 DEF Serve

LEMMA InitTotal == BoardInit => TotalInv
  <1> SUFFICES ASSUME BoardInit PROVE TotalInv
    OBVIOUS
  <1>1. Base
    BY InitTypes, InitPlaced DEF BoardInit, Base
  <1>2. Sound
    BY IdleLocals DEF BoardInit, Init, Sound, Moving, Filed, Unused, Knows, Live
  <1>3. Total = 0
    <2>1. stages = {} /\ IsFiniteSet(stages)
      BY FS_EmptySet DEF BoardInit, Init
    <2> QED
      BY <2>1, SumStep DEF Total
  <1>4. Whole = 0
    <2>1. OnBoard = {} /\ At("insert") = {} /\ Deleting = {} /\ At("increment") = {}
      BY IdleLocals DEF BoardInit, Init, OnBoard, Live, Deleting, At
    <2> QED
      BY <2>1, FS_EmptySet DEF Whole
  <1> QED
    BY <1>1, <1>2, <1>3, <1>4 DEF TotalInv

LEMMA NextTotal == TotalInv /\ [BoardNext]_boardVars => TotalInv'
  <1> SUFFICES ASSUME TotalInv, [BoardNext]_boardVars PROVE TotalInv'
    OBVIOUS
  <1>1. Base /\ Base'
    BY NextBase DEF TotalInv, BoardNext, boardVars
  <1>2. ASSUME BoardNext, moving' PROVE Sound' /\ Total' = Whole'
    <2>1. Sound /\ Total = Whole /\ Moving' /\ ~ LeavesUnfinished
      BY <1>2 DEF BoardNext, TotalInv
    <2>2. PICK r \in Requests : Serve(r) \/ RequestDies(r)
      BY <1>2 DEF BoardNext, Next
    <2>3. Preserves(r)
      BY <1>1, <2>1, <2>2, StepPreserves
    <2>4. \A q \in Requests : Knows(q)'
      BY <1>1, <2>1, <2>2, <2>3, OthersKnow DEF Preserves
    <2> QED
      BY <2>1, <2>3, <2>4 DEF Sound, Preserves
  <1>3. CASE BoardNext
    BY <1>1, <1>2, <1>3 DEF TotalInv
  <1>4. CASE UNCHANGED boardVars
    <2>1. moving' = moving /\ (Sound' <=> Sound) /\ Total' = Total /\ Whole' = Whole
      BY <1>4 DEF boardVars, vars, Sound, Moving, Filed, Unused, Knows, Total, Whole, OnBoard, Deleting,
                  At, Live
    <2> QED
      BY <1>1, <2>1 DEF TotalInv
  <1> QED
    BY <1>3, <1>4

\* While cases are created, moved, updated and deleted in any interleaving, also
\* several requests on one case, the counters of all stages add up to the number of
\* cases on the board, up to what requests have still to add or take away.
THEOREM TotalIsRight == BoardSpec => []TotalAccountedFor
  <1>1. TotalInv => TotalAccountedFor
    BY DEF TotalInv, TotalAccountedFor, Total, Whole, OnBoard, Deleting
  <1> QED
    BY <1>1, InitTotal, NextTotal, PTL DEF BoardSpec

-----------------------------------------------------------------------------
(* Pages *)

LEMMA AheadFinite ==
  ASSUME NEW ids \in SUBSET StageIds, NEW s, NEW sort
  PROVE  /\ Ahead(ids, s, sort) \in SUBSET ids
         /\ IsFiniteSet(Ahead(ids, s, sort)) /\ Cardinality(Ahead(ids, s, sort)) \in Nat
  <1>1. Ahead(ids, s, sort) \in SUBSET ids
    BY DEF Ahead
  <1> QED
    BY <1>1, StagesFinite, FS_Subset, FS_CardinalityType

\* The order of a page is a strict linear order.
LEMMA AheadOrders ==
  ASSUME NEW ids \in SUBSET StageIds, NEW sort, NEW s \in ids, NEW t \in ids
  PROVE  /\ s \notin Ahead(ids, s, sort)
         /\ s = t \/ s \in Ahead(ids, t, sort) \/ t \in Ahead(ids, s, sort)
         /\ s \in Ahead(ids, t, sort) => Ahead(ids, s, sort) \subseteq Ahead(ids, t, sort)
  BY StagesFinite DEF Ahead

\* Some stage of a set comes first, and some last.
LEMMA FirstStage ==
  ASSUME NEW ids \in SUBSET StageIds, NEW sort, NEW T \in SUBSET ids, T # {}
  PROVE  \E m \in T : \A t \in T : t \notin Ahead(ids, m, sort)
  <1> DEFINE F == {Ahead(ids, t, sort) : t \in T}
  <1>1. F \in SUBSET (SUBSET StageIds) /\ F # {}
    BY AheadFinite
  <1>2. PICK S \in F : \A U \in F : U \subseteq S => U = S
    <2> HIDE DEF F
    <2> QED
      BY <1>1, StagesFinite, Smallest
  <1>3. PICK m \in T : S = Ahead(ids, m, sort)
    OBVIOUS
  <1>4. ASSUME NEW t \in T, t \in Ahead(ids, m, sort) PROVE FALSE
    BY <1>2, <1>3, <1>4, AheadOrders
  <1> QED
    BY <1>4

LEMMA LastStage ==
  ASSUME NEW ids \in SUBSET StageIds, NEW sort, NEW T \in SUBSET ids, T # {}
  PROVE  \E m \in T : \A t \in T : m \notin Ahead(ids, t, sort)
  <1> DEFINE F == {ids \ Ahead(ids, t, sort) : t \in T}
  <1>1. F \in SUBSET (SUBSET StageIds) /\ F # {}
    OBVIOUS
  <1>2. PICK S \in F : \A U \in F : U \subseteq S => U = S
    <2> HIDE DEF F
    <2> QED
      BY <1>1, StagesFinite, Smallest
  <1>3. PICK m \in T : S = ids \ Ahead(ids, m, sort)
    OBVIOUS
  <1>4. ASSUME NEW t \in T, m \in Ahead(ids, t, sort) PROVE FALSE
    <2>1. Ahead(ids, m, sort) \subseteq Ahead(ids, t, sort) /\ m \notin Ahead(ids, m, sort)
      BY <1>4, AheadOrders
    <2>2. ids \ Ahead(ids, t, sort) = S
      BY <1>2, <1>3, <2>1
    <2> QED
      BY <1>3, <1>4, <2>1, <2>2
  <1> QED
    BY <1>4

\* The stages with fewer than k before them are k, unless they are all.
LEMMA FirstOnes ==
  ASSUME NEW ids \in SUBSET StageIds, NEW sort, NEW k \in Nat,
         NEW s \in ids, Cardinality(Ahead(ids, s, sort)) >= k
  PROVE  LET few == {t \in ids : Cardinality(Ahead(ids, t, sort)) < k}
         IN IsFiniteSet(few) /\ Cardinality(few) = k
  <1> DEFINE rank(t) == Cardinality(Ahead(ids, t, sort))
             few == {t \in ids : rank(t) < k}
  <1>1. \A t \in ids : rank(t) \in Nat
    BY AheadFinite
  <1>2. IsFiniteSet(few) /\ Cardinality(few) \in Nat
    BY StagesFinite, FS_Subset, FS_CardinalityType
  <1>3. Cardinality(few) >= k
    <2> DEFINE many == ids \ few
    <2>1. s \in many
      BY <1>1
    <2>2. many \in SUBSET ids /\ many # {}
      BY <2>1
    <2>3. PICK m \in many : \A t \in many : t \notin Ahead(ids, m, sort)
      <3> HIDE DEF many
      <3> QED
        BY <2>2, FirstStage
    <2>4. Ahead(ids, m, sort) \subseteq few
      BY <2>3, AheadFinite
    <2>5. rank(m) <= Cardinality(few) /\ rank(m) >= k
      BY <1>1, <1>2, <2>4, FS_Subset
    <2> QED
      BY <1>1, <1>2, <2>5
  <1>4. Cardinality(few) <= k
    <2>1. CASE few = {}
      BY <2>1, FS_EmptySet
    <2>2. CASE few # {}
      <3>1. PICK m \in few : \A t \in few : m \notin Ahead(ids, t, sort)
        BY <2>2, LastStage
      <3>2. few \subseteq Ahead(ids, m, sort) \union {m} /\ m \notin Ahead(ids, m, sort)
        BY <3>1, AheadOrders
      <3>3. /\ IsFiniteSet(Ahead(ids, m, sort) \union {m})
            /\ Cardinality(Ahead(ids, m, sort) \union {m}) = rank(m) + 1
        BY <3>2, AheadFinite, FS_AddElement
      <3>4. Cardinality(few) <= rank(m) + 1
        BY <3>2, <3>3, FS_Subset
      <3> QED
        BY <1>1, <1>2, <3>1, <3>4
    <2> QED
      BY <2>1, <2>2
  <1> QED
    BY <1>2, <1>3, <1>4

Window(ids, sort, lo, hi) == {t \in ids : Cardinality(Ahead(ids, t, sort)) \in lo..hi - 1}

\* A page that does not reach the last stage is full.
LEMMA FullPage ==
  ASSUME NEW ids \in SUBSET StageIds, NEW sort, NEW lo \in Nat, NEW hi \in Nat, lo <= hi,
         NEW s \in ids, Cardinality(Ahead(ids, s, sort)) >= hi
  PROVE  Cardinality(Window(ids, sort, lo, hi)) = hi - lo
  <1> DEFINE rank(t) == Cardinality(Ahead(ids, t, sort))
             before == {t \in ids : rank(t) < lo}
             upto == {t \in ids : rank(t) < hi}
             page == {t \in ids : rank(t) \in lo..hi - 1}
  <1>1. \A t \in ids : rank(t) \in Nat
    BY AheadFinite
  <1>2. IsFiniteSet(before) /\ Cardinality(before) = lo
    <2>1. rank(s) >= lo
      BY <1>1
    <2> QED
      BY <2>1, FirstOnes
  <1>3. IsFiniteSet(upto) /\ Cardinality(upto) = hi
    BY FirstOnes
  <1>4. page = upto \ before /\ upto \cap before = before
    BY <1>1
  <1> HIDE DEF page, upto, before
  <1>5. Cardinality(page) = Cardinality(upto) - Cardinality(before)
    BY <1>2, <1>3, <1>4, FS_Difference
  <1> QED
    BY <1>2, <1>3, <1>5 DEF page, Window

-----------------------------------------------------------------------------
(* What a client sees *)

Walks == [query : Queries, page : Nat \ {0}, missing : SUBSET StageIds]

\* No client is looking and nothing is answered, or one is on some page; the stages
\* of a page come before their cases.
WalkInv ==
  /\ walk # Absent => walk \in Walks
  /\ walk = Absent => reading = Unread
  /\ reading = [shown |-> reading.shown, cases |-> reading.cases, counts |-> reading.counts,
                moved |-> reading.moved]
  /\ reading.shown # Absent => reading.shown \subseteq StageIds
  /\ reading.cases # Absent => reading.shown # Absent
  /\ reading.moved \in Nat

Near(m, n, k) == m \in Nat /\ n \in Nat /\ m - n <= k /\ n - m <= k

\* What one of the two statements about cases has answered is near what the other
\* would answer now.
AnswersInv ==
  /\ reading.cases = Absent /\ reading.counts # Absent =>
       \A s \in StageIds : Near(Cardinality(Matching(s)), reading.counts[s], reading.moved)
  /\ reading.cases # Absent /\ reading.counts = Absent =>
       \A s \in reading.shown :
         Near(Smaller(CaseLimit, Cardinality(Matching(s))), reading.cases[s], reading.moved)
  /\ Complete =>
       \A s \in reading.shown :
         Near(Smaller(CaseLimit, reading.counts[s]), reading.cases[s], reading.moved)

Rank(s) == Cardinality(Ahead(stages, s, walk.query.sort))

\* Stages the client has not seen are not on an earlier page, nor on this one when
\* it has been read.
MissingInv ==
  walk # Absent =>
    /\ walk.missing \subseteq stages
    /\ \A s \in walk.missing : Rank(s) >= (walk.page - 1) * PageLimit
    /\ reading.shown # Absent =>
         \A s \in walk.missing \ reading.shown : Rank(s) >= walk.page * PageLimit

SeenInv == Base /\ WalkInv /\ MissingInv /\ NoStageMissed

LEMMA ViewStepBase ==
  ASSUME Base, [ViewNext]_viewVars
  PROVE  Base' /\ stages \subseteq StageIds /\ stages' \subseteq StageIds
  <1>1. [Next]_vars
    BY DEF ViewNext, viewVars, BoardChanges, BoardNext, StartWalk, ReadStages, ReadCases, ReadCounts,
           AnswerPage, WalkEnds, boardVars
  <1>2. Base'
    BY <1>1, NextBase
  <1> QED
    BY <1>2 DEF Base, TypeInv, TypeOK

LEMMA LookingKeepsBoard ==
  ASSUME StartWalk \/ ReadStages \/ ReadCases \/ ReadCounts \/ AnswerPage \/ WalkEnds
         \/ UNCHANGED viewVars
  PROVE  UNCHANGED <<existing, at, stages>>
  BY DEF StartWalk, ReadStages, ReadCases, ReadCounts, AnswerPage, WalkEnds, boardVars, vars, viewVars

LEMMA WalkStep ==
  ASSUME Base, WalkInv, [ViewNext]_viewVars
  PROVE  WalkInv'
  <1>0. stages \subseteq StageIds
    BY ViewStepBase
  <1>1. CASE StartWalk
    <2>1. walk' \in [query : Queries, page : Nat \ {0}, missing : SUBSET StageIds]
      BY <1>0, <1>1 DEF StartWalk
    <2> QED
      BY <1>1, <2>1, AbsentIsNoWalk DEF StartWalk, WalkInv, Walks
  <1>2. CASE ReadStages
    <2>1. Page(stages, walk.page, walk.query.sort) \subseteq StageIds
      BY <1>0 DEF Page
    <2> QED
      BY <1>2, <2>1 DEF ReadStages, WalkInv
  <1>3. CASE ReadCases
    BY <1>3 DEF ReadCases, WalkInv
  <1>4. CASE ReadCounts
    BY <1>4 DEF ReadCounts, WalkInv
  <1>5. ASSUME reading' = Unread, walk' # Absent => walk' \in Walks PROVE WalkInv'
    BY <1>5 DEF Unread, WalkInv
  <1>6. CASE AnswerPage
    <2>1. walk # Absent
      BY <1>6 DEF AnswerPage, Complete, WalkInv, Unread
    <2>2. ASSUME NEW p \in Nat \ {0}, NEW m \in SUBSET StageIds
          PROVE  [walk EXCEPT !.page = p, !.missing = m] \in Walks
      BY <2>1 DEF WalkInv, Walks
    <2>3. walk.page + 1 \in Nat \ {0} /\ walk.missing \ reading.shown \in SUBSET StageIds
      BY <2>1 DEF WalkInv, Walks
    <2>4. walk' # Absent =>
            walk' = [walk EXCEPT !.page = walk.page + 1, !.missing = walk.missing \ reading.shown]
      BY <1>6 DEF AnswerPage
    <2>5. walk' # Absent => walk' \in Walks
      BY <2>2, <2>3, <2>4
    <2> QED
      BY <1>5, <1>6, <2>5 DEF AnswerPage
  <1>7. CASE WalkEnds
    BY <1>5, <1>7 DEF WalkEnds
  <1>8. CASE BoardChanges
    <2>1. walk' # Absent => walk' \in Walks
      BY <1>8 DEF BoardChanges, WalkInv, Walks
    <2>2. walk' = Absent => walk = Absent
      BY <1>8, AbsentIsNoWalk DEF BoardChanges, WalkInv, Walks
    <2>3. Moved \in Nat
      <3>1. {c \in Cases : at'[c] # at[c]} \in SUBSET Cases
        OBVIOUS
      <3> QED
        BY <3>1, FinitelyMany, FS_Subset, FS_CardinalityType DEF Moved
    <2>4. CASE Between
      <3>1. reading # Unread
        BY <2>4 DEF Between, Unread
      <3>2. reading' = [reading EXCEPT !.moved = @ + Moved]
        BY <1>8, <2>4 DEF BoardChanges
      <3> HIDE DEF Moved
      <3> QED
        BY <2>1, <2>2, <2>3, <3>1, <3>2 DEF WalkInv
    <2>5. CASE ~ Between
      BY <1>8, <2>1, <2>2, <2>5 DEF BoardChanges, WalkInv, Unread
    <2> QED
      BY <2>4, <2>5
  <1>9. CASE UNCHANGED viewVars
    BY <1>9 DEF viewVars, WalkInv
  <1> QED
    BY <1>1, <1>2, <1>3, <1>4, <1>6, <1>7, <1>8, <1>9 DEF ViewNext

LEMMA RanksAreNat == ASSUME Base PROVE \A s : Rank(s) \in Nat
  BY AheadFinite DEF Base, TypeInv, TypeOK, Rank

LEMMA MissingStep ==
  ASSUME Base, WalkInv, MissingInv, NoStageMissed, [ViewNext]_viewVars
  PROVE  MissingInv' /\ NoStageMissed'
  <1>0. /\ stages \subseteq StageIds /\ stages' \subseteq StageIds
        /\ PageLimit \in Nat \ {0}
        /\ walk # Absent => walk.page \in Nat \ {0} /\ walk.missing \subseteq stages
        /\ \A s : Rank(s) \in Nat
    BY ViewStepBase, LimitsAssumption, RanksAreNat DEF WalkInv, Walks, MissingInv
  <1>1. CASE StartWalk
    <2>1. walk = Absent /\ reading = Unread /\ reading' = Unread /\ stages' = stages
      BY <1>1, LookingKeepsBoard DEF StartWalk, WalkInv
    <2>2. walk'.page = 1 /\ walk'.missing = stages
      BY <1>1 DEF StartWalk
    <2>3. \A s : Rank(s)' \in Nat
      BY <1>0, <2>1, AheadFinite DEF Rank
    <2>4. (walk'.page - 1) * PageLimit = 0
      BY <1>0, <2>2
    <2>5. reading'.shown = Absent
      BY <2>1 DEF Unread
    <2> QED
      BY <2>1, <2>2, <2>3, <2>4, <2>5 DEF MissingInv, NoStageMissed
  <1>2. CASE ReadStages
    <2> DEFINE sort == walk.query.sort
               lo == (walk.page - 1) * PageLimit
               hi == walk.page * PageLimit
               shown == Page(stages, walk.page, sort)
    <2>1. /\ walk # Absent /\ walk' = walk /\ stages' = stages
          /\ reading' = [reading EXCEPT !.shown = shown]
      BY <1>2, LookingKeepsBoard DEF ReadStages
    <2>2. lo \in Nat /\ hi \in Nat /\ lo <= hi /\ hi - lo = PageLimit
      BY <1>0, <2>1
    <2>3. reading'.shown = shown
      BY <2>1 DEF WalkInv
    <2>4. \A s : Rank(s)' = Rank(s)
      BY <2>1 DEF Rank
    <2>5. \A s \in stages : s \in shown <=> Rank(s) \in lo..hi - 1
      BY DEF Page, Rank
    <2> HIDE DEF lo, hi
    <2>6. \A s \in walk.missing \ shown : Rank(s) >= hi
      BY <1>0, <2>1, <2>2, <2>5 DEF MissingInv, lo
    <2>7. ASSUME NEW s \in walk.missing \ shown PROVE Cardinality(shown) = PageLimit
      <3>1. /\ s \in stages /\ stages \in SUBSET StageIds
            /\ Cardinality(Ahead(stages, s, sort)) >= hi
        BY <1>0, <2>1, <2>6 DEF Rank
      <3> HIDE DEF sort
      <3>2. Cardinality(Window(stages, sort, lo, hi)) = hi - lo
        BY <2>2, <3>1, FullPage
      <3> QED
        BY <2>2, <3>2 DEF Page, Window, lo, hi, sort
    <2>8. LastPage' => walk.missing \subseteq shown
      BY <1>0, <2>3, <2>7 DEF LastPage
    <2>9. NoStageMissed'
      BY <2>1, <2>3, <2>8 DEF NoStageMissed
    <2>10. MissingInv'
      BY <2>1, <2>3, <2>4, <2>6 DEF MissingInv, hi
    <2> QED
      BY <2>9, <2>10
  <1>3. CASE ReadCases \/ ReadCounts
    <2>1. walk' = walk /\ stages' = stages /\ reading'.shown = reading.shown
      BY <1>3, LookingKeepsBoard DEF ReadCases, ReadCounts, WalkInv
    <2> QED
      BY <2>1 DEF MissingInv, NoStageMissed, LastPage, Rank
  <1>4. CASE AnswerPage
    <2>1. stages' = stages /\ reading'.shown = Absent
      BY <1>4, LookingKeepsBoard DEF AnswerPage, Unread
    <2>2. ASSUME walk' # Absent PROVE MissingInv'
      <3>1. walk # Absent /\ reading.shown # Absent
        BY <1>4 DEF AnswerPage, Complete, WalkInv, Unread
      <3>2. walk' = [walk EXCEPT !.page = walk.page + 1, !.missing = walk.missing \ reading.shown]
        BY <1>4, <2>2 DEF AnswerPage
      <3>3. /\ walk'.page = walk.page + 1 /\ walk'.missing = walk.missing \ reading.shown
            /\ walk'.query = walk.query
        BY <3>1, <3>2 DEF WalkInv, Walks
      <3>4. \A s : Rank(s)' = Rank(s)
        BY <2>1, <3>3 DEF Rank
      <3>5. (walk'.page - 1) * PageLimit = walk.page * PageLimit
        BY <1>0, <3>1, <3>3
      <3> QED
        BY <2>1, <3>1, <3>3, <3>4, <3>5 DEF MissingInv
    <2>3. MissingInv'
      BY <2>2 DEF MissingInv
    <2> QED
      BY <2>1, <2>3 DEF NoStageMissed
  <1>5. CASE WalkEnds
    BY <1>5 DEF WalkEnds, MissingInv, NoStageMissed
  <1>6. CASE BoardChanges
    <2>1. reading'.shown = reading.shown
      BY <1>6 DEF BoardChanges, WalkInv
    <2>2. CASE walk # Absent /\ ~ (stages \subseteq stages')
      <3>1. walk'.missing = {}
        BY <1>6, <2>2 DEF BoardChanges, WalkInv, Walks
      <3> QED
        BY <3>1 DEF MissingInv, NoStageMissed
    <2>3. CASE walk # Absent /\ stages \subseteq stages'
      <3>1. walk' = walk
        BY <1>6, <2>3 DEF BoardChanges
      <3>2. \A s : Rank(s) <= Rank(s)'
        <4>1. ASSUME NEW s PROVE Rank(s) <= Rank(s)'
          <5> DEFINE A == Ahead(stages, s, walk.query.sort)
                     B == Ahead(stages', s, walk.query.sort)
          <5>1. A \in SUBSET B /\ IsFiniteSet(B)
            <6>1. A \in SUBSET B
              BY <2>3 DEF Ahead
            <6>2. stages' \in SUBSET StageIds
              BY <1>0
            <6> QED
              BY <6>1, <6>2, AheadFinite
          <5> HIDE DEF A, B
          <5>2. Cardinality(A) <= Cardinality(B)
            BY <5>1, FS_Subset
          <5> QED
            BY <3>1, <5>2 DEF Rank, A, B
        <4> QED
          BY <4>1
      <3>3. \A s : Rank(s)' \in Nat
        BY <1>0, <3>1, AheadFinite DEF Rank
      <3>4. NoStageMissed'
        BY <2>1, <3>1 DEF NoStageMissed, LastPage
      <3> DEFINE lo == (walk.page - 1) * PageLimit
                 hi == walk.page * PageLimit
      <3>5. lo \in Nat /\ hi \in Nat
        BY <1>0, <2>3
      <3>6. \A s \in walk.missing : Rank(s) >= lo
        BY <2>3 DEF MissingInv
      <3>7. reading.shown # Absent => \A s \in walk.missing \ reading.shown : Rank(s) >= hi
        BY <2>3 DEF MissingInv
      <3> HIDE DEF lo, hi
      <3>8. /\ \A s \in walk.missing : Rank(s)' >= lo
            /\ reading.shown # Absent => \A s \in walk.missing \ reading.shown : Rank(s)' >= hi
        BY <1>0, <3>2, <3>3, <3>5, <3>6, <3>7
      <3>9. MissingInv'
        BY <1>0, <2>1, <2>3, <3>1, <3>8 DEF MissingInv, lo, hi
      <3> QED
        BY <3>4, <3>9
    <2>4. CASE walk = Absent
      <3>1. walk' = Absent
        BY <1>6, <2>4 DEF BoardChanges
      <3> QED
        BY <3>1 DEF MissingInv, NoStageMissed
    <2> QED
      BY <2>2, <2>3, <2>4
  <1>7. CASE UNCHANGED viewVars
    <2>1. UNCHANGED <<stages, walk, reading>>
      BY <1>7, LookingKeepsBoard DEF viewVars
    <2> QED
      BY <2>1 DEF MissingInv, NoStageMissed, LastPage, Rank
  <1> QED
    BY <1>1, <1>2, <1>3, <1>4, <1>5, <1>6, <1>7 DEF ViewNext

LEMMA NextSeen == SeenInv /\ [ViewNext]_viewVars => SeenInv'
  <1> SUFFICES ASSUME SeenInv, [ViewNext]_viewVars PROVE SeenInv'
    OBVIOUS
  <1> QED
    BY ViewStepBase, WalkStep, MissingStep DEF SeenInv

LEMMA InitSeen == ViewInit => SeenInv
  <1> SUFFICES ASSUME ViewInit PROVE SeenInv
    OBVIOUS
  <1>1. Base
    BY InitTypes, InitPlaced DEF ViewInit, BoardInit, Base
  <1>2. WalkInv /\ MissingInv /\ NoStageMissed
    BY DEF ViewInit, Unread, WalkInv, MissingInv, NoStageMissed
  <1> QED
    BY <1>1, <1>2 DEF SeenInv

\* Whoever goes through all pages has seen every stage that was there when they
\* began, as long as none is removed.
THEOREM NothingIsMissed == ViewSpec => []NoStageMissed
  <1>1. SeenInv => NoStageMissed
    BY DEF SeenInv
  <1> QED
    BY <1>1, InitSeen, NextSeen, PTL DEF ViewSpec

-----------------------------------------------------------------------------
(* Two numbers for the cases of a stage *)

\* A case that stays where it is, is or is not in the answer as before.
LEMMA StaysMatched ==
  ASSUME Base, Base', NEW c \in Cases, at'[c] = at[c], walk'.query = walk.query, NEW s \in StageIds
  PROVE  c \in Matching(s)' <=> c \in Matching(s)
  <1>1. AsRow(c)' = AsRow(c)
    BY DEF AsRow
  <1>2. CaseWhere(walk.query, AsRow(c))' <=> CaseWhere(walk.query, AsRow(c))
    BY <1>1
  <1>3. c \in Members(s)' <=> c \in Members(s)
    BY ConstantsAssumption DEF Members, Base, Placed, StageIds, NoStage
  <1> QED
    BY <1>2, <1>3 DEF Matching

LEMMA MatchingFinite ==
  ASSUME NEW s
  PROVE  IsFiniteSet(Matching(s)) /\ Cardinality(Matching(s)) \in Nat
  <1>1. Matching(s) \in SUBSET Cases
    BY DEF Matching, Members
  <1> QED
    BY <1>1, FinitelyMany, FS_Subset, FS_CardinalityType

\* A set changes its size by no more than the elements that are only in one of two.
LEMMA SizesDiffer ==
  ASSUME NEW S, NEW T, NEW D, IsFiniteSet(S), IsFiniteSet(T), IsFiniteSet(D), T \in SUBSET (S \union D)
  PROVE  Cardinality(T) <= Cardinality(S) + Cardinality(D)
  <1>1. IsFiniteSet(S \union D) /\ Cardinality(S \union D) = Cardinality(S) + Cardinality(D) - Cardinality(S \cap D)
    BY FS_Union
  <1>2. IsFiniteSet(S \cap D)
    BY FS_Intersection
  <1>3. /\ Cardinality(S) \in Nat /\ Cardinality(D) \in Nat /\ Cardinality(T) \in Nat
        /\ Cardinality(S \cap D) \in Nat /\ Cardinality(S \union D) \in Nat
    BY <1>1, <1>2, FS_CardinalityType
  <1>4. Cardinality(T) <= Cardinality(S \union D)
    BY <1>1, FS_Subset
  <1> QED
    BY <1>1, <1>3, <1>4

LEMMA MovesBound ==
  ASSUME Base, Base', walk'.query = walk.query, NEW s \in StageIds
  PROVE  /\ Moved \in Nat /\ Cardinality(Matching(s))' \in Nat
         /\ Cardinality(Matching(s))' <= Cardinality(Matching(s)) + Moved
         /\ Cardinality(Matching(s)) <= Cardinality(Matching(s))' + Moved
  <1> DEFINE D == {c \in Cases : at'[c] # at[c]}
             M == Matching(s)
             N == Matching(s)'
  <1>1. IsFiniteSet(D)
    BY FinitelyMany, FS_Subset
  <1>2. /\ IsFiniteSet(M) /\ IsFiniteSet(N)
    <2>1. M \in SUBSET Cases /\ N \in SUBSET Cases
      BY DEF Matching, Members
    <2> QED
      BY <2>1, FinitelyMany, FS_Subset
  <1>3. N \in SUBSET (M \union D) /\ M \in SUBSET (N \union D)
    <2>1. M \subseteq Cases /\ N \subseteq Cases
      BY DEF Matching, Members
    <2>2. \A c \in Cases : c \notin D => (c \in N <=> c \in M)
      BY StaysMatched
    <2> QED
      BY <2>1, <2>2
  <1>4. Moved = Cardinality(D)
    BY DEF Moved
  <1> HIDE DEF D, M, N
  <1>5. /\ Cardinality(N) <= Cardinality(M) + Cardinality(D)
        /\ Cardinality(M) <= Cardinality(N) + Cardinality(D)
    BY <1>1, <1>2, <1>3, SizesDiffer
  <1>6. Cardinality(D) \in Nat /\ Cardinality(N) \in Nat
    BY <1>1, <1>2, FS_CardinalityType
  <1> QED
    BY <1>4, <1>5, <1>6 DEF M, N

LEMMA NearMoves ==
  ASSUME NEW m \in Nat, NEW l \in Nat, NEW n \in Nat, NEW k \in Nat, NEW d \in Nat, NEW limit \in Nat,
         l <= m + d, m <= l + d
  PROVE  /\ Near(m, n, k) => Near(l, n, k + d)
         /\ Near(Smaller(limit, m), n, k) => Near(Smaller(limit, l), n, k + d)
         /\ Near(m, n, k) => Near(Smaller(limit, n), Smaller(limit, m), k)
         /\ Near(m, m, k) /\ Smaller(limit, m) \in Nat
         /\ Near(Smaller(limit, m), Smaller(limit, m), k)
  BY DEF Near, Smaller

LEMMA AnswersStep ==
  ASSUME Base, Base', WalkInv, WalkInv', AnswersInv, [ViewNext]_viewVars
  PROVE  AnswersInv'
  <1>0. CaseLimit \in Nat /\ reading.moved \in Nat
    BY LimitsAssumption DEF WalkInv
  <1>1. ASSUME reading' = Unread PROVE AnswersInv'
    BY <1>1 DEF AnswersInv, Complete, Unread
  <1>2. CASE StartWalk
    BY <1>1, <1>2 DEF StartWalk, WalkInv
  <1>3. CASE AnswerPage \/ WalkEnds
    BY <1>1, <1>3 DEF AnswerPage, WalkEnds
  <1>4. ASSUME walk' = walk, UNCHANGED <<existing, at>>
        PROVE  \A s : Matching(s)' = Matching(s)
    BY <1>4 DEF Matching, Members, Live, AsRow
  <1>5. CASE ReadStages
    <2>1. \A s : Matching(s)' = Matching(s)
      BY <1>4, <1>5, LookingKeepsBoard DEF ReadStages
    <2>2. /\ reading.cases = Absent /\ reading'.cases = Absent
          /\ reading'.counts = reading.counts /\ reading'.moved = reading.moved
      BY <1>5 DEF ReadStages, WalkInv
    <2> QED
      BY <2>1, <2>2 DEF AnswersInv, Complete
  <1>6. CASE ReadCases
    <2>1. \A s : Matching(s)' = Matching(s)
      BY <1>4, <1>6, LookingKeepsBoard DEF ReadCases
    <2>2. /\ reading.cases = Absent /\ reading.shown # Absent /\ reading'.shown = reading.shown
          /\ reading'.cases = [s \in reading.shown |-> Smaller(CaseLimit, Cardinality(Matching(s)))]
          /\ reading'.counts = reading.counts /\ reading'.moved = reading.moved
      BY <1>6 DEF ReadCases, WalkInv
    <2>3. \A s : Cardinality(Matching(s)) \in Nat
      BY MatchingFinite
    <2>4. CASE reading.counts = Absent
      <3>1. \A s \in reading.shown :
              Near(Smaller(CaseLimit, Cardinality(Matching(s))), reading'.cases[s], reading.moved)
        <4>1. ASSUME NEW s \in reading.shown
              PROVE  Near(Smaller(CaseLimit, Cardinality(Matching(s))), reading'.cases[s], reading.moved)
          <5> DEFINE m == Cardinality(Matching(s))
          <5>1. m \in Nat /\ reading'.cases[s] = Smaller(CaseLimit, m)
            BY <2>2, <2>3
          <5> HIDE DEF m
          <5>2. Near(Smaller(CaseLimit, m), reading'.cases[s], reading.moved)
            BY <1>0, <5>1 DEF Near, Smaller
          <5> QED
            BY <5>2 DEF m
        <4> QED
          BY <4>1
      <3> QED
        BY <2>1, <2>2, <2>4, <3>1 DEF AnswersInv, Complete
    <2>5. CASE reading.counts # Absent
      <3>1. \A s \in StageIds : Near(Cardinality(Matching(s)), reading.counts[s], reading.moved)
        BY <2>2, <2>5 DEF AnswersInv
      <3>2. \A s \in reading.shown :
              Near(Smaller(CaseLimit, reading.counts[s]), reading'.cases[s], reading.moved)
        <4>1. ASSUME NEW s \in reading.shown
              PROVE  Near(Smaller(CaseLimit, reading.counts[s]), reading'.cases[s], reading.moved)
          <5> DEFINE m == Cardinality(Matching(s))
          <5>1. m \in Nat /\ reading'.cases[s] = Smaller(CaseLimit, m) /\ m <= m + 0
            BY <2>2, <2>3
          <5>2. Near(m, reading.counts[s], reading.moved) /\ reading.counts[s] \in Nat
            BY <2>2, <3>1 DEF WalkInv, Near
          <5> HIDE DEF m
          <5> QED
            BY <1>0, <5>1, <5>2 DEF Near, Smaller
        <4> QED
          BY <4>1
      <3> QED
        BY <2>1, <2>2, <2>5, <3>1, <3>2 DEF AnswersInv, Complete
    <2> QED
      BY <2>4, <2>5
  <1>7. CASE ReadCounts
    <2>1. \A s : Matching(s)' = Matching(s)
      BY <1>4, <1>7, LookingKeepsBoard DEF ReadCounts
    <2>2. /\ reading.counts = Absent /\ reading'.shown = reading.shown
          /\ reading'.counts = [s \in StageIds |-> Cardinality(Matching(s))]
          /\ reading'.cases = reading.cases /\ reading'.moved = reading.moved
      BY <1>7 DEF ReadCounts, WalkInv
    <2>3. \A s : Cardinality(Matching(s)) \in Nat
      BY MatchingFinite
    <2>4. \A s \in StageIds : Near(Cardinality(Matching(s)), reading'.counts[s], reading.moved)
      BY <1>0, <2>2, <2>3 DEF Near
    <2>5. reading.cases # Absent => \A s \in reading.shown :
            Near(Smaller(CaseLimit, reading'.counts[s]), reading.cases[s], reading.moved)
      <3>1. reading.cases # Absent => reading.shown \subseteq StageIds
        BY DEF WalkInv
      <3> QED
        BY <2>2, <3>1 DEF AnswersInv
    <2> QED
      BY <2>1, <2>2, <2>4, <2>5 DEF AnswersInv, Complete
  <1>8. CASE BoardChanges
    <2>1. CASE walk = Absent
      <3>1. reading = Unread
        BY <2>1 DEF WalkInv
      <3>2. reading' = Unread
        BY <1>8, <3>1 DEF BoardChanges, Between, Unread
      <3> QED
        BY <1>1, <3>2
    <2>2. CASE walk # Absent /\ ~ Between
      <3>1. reading' = reading
        BY <1>8, <2>2 DEF BoardChanges
      <3>2. (reading.cases = Absent) <=> (reading.counts = Absent)
        BY <2>2 DEF Between
      <3> QED
        BY <3>1, <3>2 DEF AnswersInv, Complete
    <2>3. CASE walk # Absent /\ Between
      <3>1. walk'.query = walk.query
        BY <1>8, <2>3 DEF BoardChanges, WalkInv, Walks
      <3>2. \A s \in StageIds :
              /\ Moved \in Nat /\ Cardinality(Matching(s))' \in Nat
              /\ Cardinality(Matching(s))' <= Cardinality(Matching(s)) + Moved
              /\ Cardinality(Matching(s)) <= Cardinality(Matching(s))' + Moved
        BY <3>1, MovesBound
      <3>3. \A s : Cardinality(Matching(s)) \in Nat
        BY MatchingFinite
      <3>4. /\ reading'.shown = reading.shown /\ reading'.cases = reading.cases
            /\ reading'.counts = reading.counts /\ reading'.moved = reading.moved + Moved
        <4>1. reading' = [reading EXCEPT !.moved = @ + Moved]
          BY <1>8, <2>3 DEF BoardChanges
        <4> HIDE DEF Moved
        <4> QED
          BY <4>1 DEF WalkInv
      <3>5. CASE reading.cases = Absent /\ reading.counts # Absent
        <4>1. ASSUME NEW s \in StageIds
              PROVE  Near(Cardinality(Matching(s))', reading.counts[s], reading.moved + Moved)
          <5>1. Near(Cardinality(Matching(s)), reading.counts[s], reading.moved)
            BY <3>5 DEF AnswersInv
          <5>2. reading.counts[s] \in Nat
            BY <5>1 DEF Near
          <5> QED
            BY <1>0, <3>2, <3>3, <5>1, <5>2, NearMoves
        <4> QED
          BY <3>4, <3>5, <4>1 DEF AnswersInv, Complete
      <3>6. CASE reading.cases # Absent /\ reading.counts = Absent
        <4>1. ASSUME NEW s \in reading.shown
              PROVE  Near(Smaller(CaseLimit, Cardinality(Matching(s))'), reading.cases[s],
                          reading.moved + Moved)
          <5>1. /\ Near(Smaller(CaseLimit, Cardinality(Matching(s))), reading.cases[s], reading.moved)
                /\ s \in StageIds
            BY <3>6 DEF AnswersInv, WalkInv
          <5>2. reading.cases[s] \in Nat
            BY <5>1 DEF Near
          <5> QED
            BY <1>0, <3>2, <3>3, <5>1, <5>2, NearMoves
        <4> QED
          BY <3>4, <3>6, <4>1 DEF AnswersInv, Complete
      <3> QED
        BY <2>3, <3>5, <3>6 DEF Between
    <2> QED
      BY <2>1, <2>2, <2>3
  <1>9. CASE UNCHANGED viewVars
    <2>1. \A s : Matching(s)' = Matching(s)
      BY <1>4, <1>9, LookingKeepsBoard DEF viewVars
    <2>2. reading' = reading
      BY <1>9 DEF viewVars
    <2> QED
      BY <2>1, <2>2 DEF AnswersInv, Complete
  <1> QED
    BY <1>2, <1>3, <1>5, <1>6, <1>7, <1>8, <1>9 DEF ViewNext

\* The cases shown of a stage and the number beside its title differ by no more
\* than the cases that moved between the two statements.
THEOREM AnswersAreClose == ViewSpec => []CountsWithinMoves
  <1> DEFINE I == Base /\ WalkInv /\ AnswersInv
  <1>1. ViewInit => I
    <2> SUFFICES ASSUME ViewInit PROVE I
      OBVIOUS
    <2>1. Base /\ WalkInv
      BY InitSeen DEF SeenInv
    <2>2. AnswersInv
      BY DEF ViewInit, Unread, AnswersInv, Complete
    <2> QED
      BY <2>1, <2>2
  <1>2. I /\ [ViewNext]_viewVars => I'
    <2> SUFFICES ASSUME I, [ViewNext]_viewVars PROVE I'
      OBVIOUS
    <2> QED
      BY ViewStepBase, WalkStep, AnswersStep
  <1>3. I => CountsWithinMoves
    <2> SUFFICES ASSUME I, Complete, NEW s \in reading.shown
                 PROVE  LET counted == Smaller(CaseLimit, reading.counts[s])
                        IN Larger(counted - reading.cases[s], reading.cases[s] - counted)
                             <= reading.moved
      BY DEF CountsWithinMoves
    <2> DEFINE n == Smaller(CaseLimit, reading.counts[s])
    <2>1. Near(n, reading.cases[s], reading.moved)
      BY DEF AnswersInv
    <2> HIDE DEF n
    <2>2. Larger(n - reading.cases[s], reading.cases[s] - n) <= reading.moved
      BY <2>1 DEF Near, Larger
    <2> QED
      BY <2>2 DEF n
  <1> QED
    BY <1>1, <1>2, <1>3, PTL DEF ViewSpec

-----------------------------------------------------------------------------
(* Sets and sequences put together *)

LEMMA Listed ==
  ASSUME NEW S, IsFiniteSet(S)
  PROVE  SetToSeq(S) \in Seq(S) /\ Range(SetToSeq(S)) = S
  <1> DEFINE n == Cardinality(S)
             e == SetToSeq(S)
  <1>1. n \in Nat /\ \E f \in Bijection(1..n, S) : TRUE
    BY FS_CardinalityType DEF ExistsBijection
  <1>2. \E f \in [1..n -> S] : IsInjective(f)
    BY <1>1 DEF Bijection, Injection
  <1>3. e \in [1..n -> S] /\ IsInjective(e)
    BY <1>2 DEF SetToSeq
  <1>4. e \in Surjection(1..n, S)
    <2>1. e \in Injection(1..n, S)
      BY <1>3 DEF Injection
    <2>2. Cardinality(1..n) = Cardinality(S)
      <3>1. 1 \in Int /\ n \in Int
        BY <1>1
      <3>2. Cardinality(1..n) = IF 1 > n THEN 0 ELSE n - 1 + 1
        BY <3>1, FS_Interval
      <3> HIDE DEF n
      <3>3. Cardinality(1..n) = n
        BY <1>1, <3>2
      <3> QED
        BY <3>3 DEF n
    <2> QED
      BY <2>1, <2>2, FS_Injection
  <1> HIDE DEF n, e
  <1>5. DOMAIN e = 1..n /\ e \in Seq(S)
    BY <1>1, <1>3
  <1>6. Range(e) = S
    BY <1>3, <1>4, <1>5 DEF Range, Surjection
  <1> QED
    BY <1>5, <1>6 DEF e

LEMMA SingleToSeq ==
  /\ SetToSeq({}) = <<>>
  /\ \A x : SetToSeq({x}) = <<x>>
  <1>1. SetToSeq({}) = <<>>
    <2>1. SetToSeq({}) \in Seq({})
      BY FS_EmptySet, Listed
    <2> QED
      BY <2>1
  <1>2. ASSUME NEW x PROVE SetToSeq({x}) = <<x>>
    <2>1. IsFiniteSet({x}) /\ Cardinality({x}) = 1
      BY FS_Singleton
    <2>2. [i \in 1..1 |-> x] \in [1..1 -> {x}] /\ IsInjective([i \in 1..1 |-> x])
      BY DEF IsInjective
    <2>3. SetToSeq({x}) \in [1..1 -> {x}]
      BY <2>1, <2>2 DEF SetToSeq
    <2> QED
      BY <2>3
  <1> QED
    BY <1>1, <1>2

\* f puts the first of the sequences together.
Flattens(seqs, n, f) == f = [i \in 1..n |-> IF i = 1 THEN seqs[i] ELSE f[i - 1] \o seqs[i]]

LEMMA FlattenIs ==
  ASSUME NEW seqs, Len(seqs) # 0
  PROVE  FlattenSeq(seqs) = (CHOOSE f : Flattens(seqs, Len(seqs), f))[Len(seqs)]
  BY DEF FlattenSeq, Flattens

LEMMA FlattensStep ==
  ASSUME NEW seqs, NEW n \in Nat, NEW f, Flattens(seqs, n, f), NEW i \in 1..n
  PROVE  f[i] = IF i = 1 THEN seqs[i] ELSE f[i - 1] \o seqs[i]
  BY DEF Flattens

LEMMA FlattensExtends ==
  ASSUME NEW seqs, NEW n \in Nat, NEW f, Flattens(seqs, n, f)
  PROVE  \E g : Flattens(seqs, n + 1, g)
  <1> DEFINE last == IF n = 0 THEN seqs[1] ELSE f[n] \o seqs[n + 1]
             g == [i \in 1..n + 1 |-> IF i = n + 1 THEN last ELSE f[i]]
  <1>1. ASSUME NEW i \in 1..n + 1
        PROVE  g[i] = IF i = 1 THEN seqs[i] ELSE g[i - 1] \o seqs[i]
    <2>1. CASE i = n + 1
      <3>1. g[i] = last
        BY <2>1
      <3>2. i # 1 => i - 1 = n /\ g[i - 1] = f[n] /\ n # 0
        BY <2>1
      <3> HIDE DEF g
      <3> QED
        BY <2>1, <3>1, <3>2
    <2>2. CASE i # n + 1
      <3>1. i \in 1..n /\ g[i] = f[i] /\ (i # 1 => g[i - 1] = f[i - 1])
        BY <2>2
      <3> HIDE DEF g
      <3> QED
        BY <3>1, FlattensStep
    <2> QED
      BY <2>1, <2>2
  <1>2. Flattens(seqs, n + 1, g)
    <2>1. \E v : g = [i \in 1..n + 1 |-> v[i]]
      OBVIOUS
    <2> HIDE DEF g
    <2> QED
      BY <1>1, <2>1 DEF Flattens
  <1> HIDE DEF g
  <1> QED
    BY <1>2

\* What is said of 0 and goes on from each number to the next holds of all: N is the
\* set of the numbers it holds of.
LEMMA CountsUp ==
  ASSUME NEW N, 0 \in N, \A n \in Nat : n \in N => n + 1 \in N, NEW k \in Nat
  PROVE  k \in N
  <1> DEFINE F == {1..m : m \in {i \in 0..k : i \notin N}}
  <1> SUFFICES ASSUME k \notin N PROVE FALSE
    OBVIOUS
  <1>1. F \in SUBSET (SUBSET (1..k)) /\ F # {} /\ IsFiniteSet(1..k)
    <2>1. IsFiniteSet(1..k)
      BY FS_Interval
    <2>2. \A m \in 0..k : 1..m \subseteq 1..k
      OBVIOUS
    <2>3. k \in {i \in 0..k : i \notin N}
      OBVIOUS
    <2> QED
      BY <2>1, <2>2, <2>3
  <1>2. PICK S \in F : \A T \in F : T \subseteq S => T = S
    <2> DEFINE K == 1..k
    <2>1. F \in SUBSET (SUBSET K) /\ F # {} /\ IsFiniteSet(K)
      BY <1>1
    <2> HIDE DEF F, K
    <2> QED
      BY <2>1, Smallest
  <1>3. PICK m \in 0..k : m \notin N /\ S = 1..m
    OBVIOUS
  <1>4. m # 0 /\ m - 1 \in 0..k /\ m - 1 \notin N
    <2>1. m # 0 /\ m - 1 \in Nat
      BY <1>3
    <2>2. m - 1 \in N => m - 1 + 1 \in N
      BY <2>1
    <2> QED
      BY <1>3, <2>1, <2>2
  <1>5. 1..m - 1 \in F /\ 1..m - 1 \subseteq S /\ m \in S /\ m \notin 1..m - 1
    BY <1>3, <1>4
  <1> QED
    BY <1>2, <1>5

LEMMA FlattensExist ==
  ASSUME NEW seqs, NEW n \in Nat
  PROVE  \E f : Flattens(seqs, n, f)
  <1> DEFINE N == {i \in Nat : \E f : Flattens(seqs, i, f)}
  <1>1. 0 \in N
    <2>1. Flattens(seqs, 0, [i \in {} |-> {}])
      BY DEF Flattens
    <2> QED
      BY <2>1
  <1>2. \A i \in Nat : i \in N => i + 1 \in N
    BY FlattensExtends
  <1>3. n \in N
    <2> HIDE DEF N
    <2> QED
      BY <1>1, <1>2, CountsUp
  <1> QED
    BY <1>3

\* Sequences put together have the elements of each, and no others.
LEMMA Flattened ==
  ASSUME NEW T, NEW seqs \in Seq(Seq(T))
  PROVE  /\ FlattenSeq(seqs) \in Seq(T)
         /\ Range(FlattenSeq(seqs)) = UNION {Range(seqs[i]) : i \in DOMAIN seqs}
  <1> DEFINE n == Len(seqs)
  <1>1. n \in Nat /\ DOMAIN seqs = 1..n /\ \A i \in 1..n : seqs[i] \in Seq(T)
    OBVIOUS
  <1>2. CASE n = 0
    <2>1. FlattenSeq(seqs) = <<>> /\ seqs = <<>>
      BY <1>2 DEF FlattenSeq
    <2> QED
      BY <2>1 DEF Range
  <1>3. CASE n # 0
    <2>1. PICK f : Flattens(seqs, n, f) /\ FlattenSeq(seqs) = f[n]
      BY <1>1, <1>3, FlattensExist, FlattenIs
    <2> DEFINE Good(i) == /\ f[i] \in Seq(T)
                          /\ Range(f[i]) = UNION {Range(seqs[j]) : j \in 1..i}
               N == {i \in Nat : i \in 1..n => Good(i)}
    <2> HIDE DEF n
    <2>2. 0 \in N
      OBVIOUS
    <2>3. ASSUME NEW i \in Nat, i \in N PROVE i + 1 \in N
      <3>1. SUFFICES ASSUME i + 1 \in 1..n PROVE Good(i + 1)
        OBVIOUS
      <3>2. CASE i = 0
        <4>1. f[1] = seqs[1] /\ seqs[1] \in Seq(T)
          BY <1>1, <2>1, <3>1, <3>2, FlattensStep
        <4>2. 1..1 = {1}
          OBVIOUS
        <4>3. UNION {Range(seqs[j]) : j \in 1..1} = Range(seqs[1])
          BY <4>2
        <4> QED
          BY <3>2, <4>1, <4>3
      <3>3. CASE i # 0
        <4>1. i \in 1..n /\ i + 1 - 1 = i
          BY <1>1, <3>1, <3>3
        <4>2. Good(i)
          BY <2>3, <4>1
        <4>3. f[i + 1] = f[i] \o seqs[i + 1] /\ seqs[i + 1] \in Seq(T)
          <5>1. f[i + 1] = IF i + 1 = 1 THEN seqs[i + 1] ELSE f[i + 1 - 1] \o seqs[i + 1]
            BY <1>1, <2>1, <3>1, FlattensStep
          <5>2. i + 1 # 1
            BY <3>3
          <5> QED
            BY <1>1, <3>1, <4>1, <5>1, <5>2
        <4>4. f[i + 1] \in Seq(T) /\ Range(f[i + 1]) = Range(f[i]) \union Range(seqs[i + 1])
          BY <4>2, <4>3, RangeConcatenation
        <4>5. 1..i + 1 = 1..i \union {i + 1}
          OBVIOUS
        <4>6. UNION {Range(seqs[j]) : j \in 1..i + 1}
                = (UNION {Range(seqs[j]) : j \in 1..i}) \union Range(seqs[i + 1])
          BY <4>5
        <4> QED
          BY <4>2, <4>4, <4>6
      <3> QED
        BY <3>2, <3>3
    <2>4. n \in N
      <3> HIDE DEF N
      <3> QED
        BY <1>1, <2>2, <2>3, CountsUp
    <2> QED
      BY <1>1, <1>3, <2>1, <2>4
  <1> QED
    BY <1>2, <1>3

LEMMA FlattenTwo ==
  ASSUME NEW T, NEW s \in Seq(T), NEW t \in Seq(T)
  PROVE  FlattenSeq(<<s, t>>) = s \o t
  <1> DEFINE seqs == <<s, t>>
  <1>1. Len(seqs) = 2 /\ seqs[1] = s /\ seqs[2] = t
    OBVIOUS
  <1> HIDE DEF seqs
  <1>2. PICK f : Flattens(seqs, 2, f) /\ FlattenSeq(seqs) = f[2]
    <2>1. \E f : Flattens(seqs, 2, f)
      BY FlattensExist
    <2>2. FlattenSeq(seqs) = (CHOOSE f : Flattens(seqs, Len(seqs), f))[Len(seqs)]
      <3>1. Len(seqs) # 0
        BY <1>1
      <3> QED
        BY <3>1, FlattenIs
    <2> QED
      BY <1>1, <2>1, <2>2
  <1>3. f[1] = seqs[1] /\ f[2] = f[1] \o seqs[2]
    <2>1. \A i \in 1..2 : f[i] = IF i = 1 THEN seqs[i] ELSE f[i - 1] \o seqs[i]
      BY <1>2, FlattensStep
    <2>2. 2 \in 1..2 /\ 1 \in 1..2 /\ 2 - 1 = 1 /\ 2 # 1
      OBVIOUS
    <2>3. f[1] = IF 1 = 1 THEN seqs[1] ELSE f[1 - 1] \o seqs[1]
      BY <2>1, <2>2
    <2>4. f[2] = IF 2 = 1 THEN seqs[2] ELSE f[2 - 1] \o seqs[2]
      BY <2>1, <2>2
    <2> QED
      BY <2>2, <2>3, <2>4
  <1> QED
    BY <1>1, <1>2, <1>3 DEF seqs

-----------------------------------------------------------------------------
(* Opposite conditions *)

\* c asks for what p does not, with the same values.
Opposed(c, p) ==
  /\ <<c.operator, p.operator>> \in {
       <<"notEquals", "equals">>, <<"notIn", "in">>, <<"notBetween", "between">>,
       <<"isNotEmpty", "isEmpty">>, <<"notExists", "exists">>,
       <<"notContainsAny", "containsAny">>, <<"notContainsAll", "containsAll">>}
  /\ One(p) = One(c) /\ Many(p) = Many(c)

AtMostOneOf(S) == {U \in SUBSET S : \A x, y \in U : x = y}

\* A condition on a field whose values are of T.
Given(c, T) ==
  /\ c.value \in AtMostOneOf(T)
  /\ c.values = Absent \/ c.values \in Seq(AtMostOneOf(T))

LEMMA SingleValue ==
  ASSUME NEW T, NEW U \in AtMostOneOf(T)
  PROVE  SetToSeq(U) \in Seq(T) /\ Range(SetToSeq(U)) = U
  <1>1. U = {} \/ \E x \in T : U = {x}
    BY DEF AtMostOneOf
  <1>2. IsFiniteSet(U)
    BY <1>1, FS_EmptySet, FS_Singleton
  <1>3. SetToSeq(U) \in Seq(U) /\ Range(SetToSeq(U)) = U
    BY <1>2, Listed
  <1> QED
    <2>1. U \subseteq T
      BY DEF AtMostOneOf
    <2> QED
      BY <1>3, <2>1

LEMMA GivenValues ==
  ASSUME NEW T, NEW c, Given(c, T)
  PROVE  One(c) \in AtMostOneOf(T) /\ Many(c) \in Seq(T)
  <1>1. One(c) \in AtMostOneOf(T)
    <2>1. CASE c.value # {} \/ c.values = Absent
      BY <2>1 DEF One, Given
    <2>2. CASE ~ (c.value # {} \/ c.values = Absent)
      <3>1. One(c) = UNION {c.values[i] : i \in DOMAIN c.values \cap {1}}
        BY <2>2 DEF One
      <3>2. \A i \in DOMAIN c.values : c.values[i] \in AtMostOneOf(T)
        BY <2>2 DEF Given
      <3>3. CASE 1 \in DOMAIN c.values
        <4>1. One(c) = c.values[1]
          BY <3>1, <3>3
        <4> QED
          BY <3>2, <3>3, <4>1
      <3>4. CASE 1 \notin DOMAIN c.values
        <4>1. One(c) = {}
          BY <3>1, <3>4
        <4> QED
          BY <4>1 DEF AtMostOneOf
      <3> QED
        BY <3>3, <3>4
    <2> QED
      BY <2>1, <2>2
  <1> DEFINE given == IF c.values = Absent THEN <<c.value>> ELSE c.values
             lists == [i \in DOMAIN given |-> SetToSeq(given[i])]
  <1>2. given \in Seq(AtMostOneOf(T))
    BY DEF Given
  <1>3. Many(c) = FlattenSeq(lists)
    BY DEF Many
  <1> HIDE DEF given
  <1>4. lists \in Seq(Seq(T))
    <2>1. \A i \in DOMAIN given : SetToSeq(given[i]) \in Seq(T)
      BY <1>2, SingleValue
    <2>2. DOMAIN given = 1..Len(given) /\ Len(given) \in Nat
      BY <1>2
    <2> QED
      BY <2>1, <2>2
  <1> HIDE DEF lists
  <1> QED
    BY <1>1, <1>3, <1>4, Flattened

LEMMA TextOpposites ==
  ASSUME NEW c, NEW p, Opposed(c, p), NEW T, One(c) \in AtMostOneOf(T),
         NEW column \in AtMostOneOf(T)
  PROVE  /\ TextUsed(c) <=> TextUsed(p)
         /\ TextUsed(c) =>
              (TextSelects(c, column) <=>
                 ~ TextSelects(p, column) /\ (column # {} \/ Is(c, Emptiness)))
  <1> DEFINE o == One(c)
  <1>1. \A x, y \in o : x = y
    BY DEF AtMostOneOf
  <1>2. \A x, y \in column : x = y
    BY DEF AtMostOneOf
  <1>3. One(p) = o
    BY DEF Opposed
  <1> HIDE DEF o
  <1>4. CASE c.operator = "notEquals"
    <2>1. p.operator = "equals"
      BY <1>4 DEF Opposed
    <2>2. TextUsed(c) <=> o # {}
      BY <1>4 DEF TextUsed, Is, Emptiness, o
    <2>3. TextUsed(p) <=> o # {}
      BY <1>3, <2>1 DEF TextUsed, Is, Emptiness
    <2>4. TextSelects(c, column) <=> \E t \in column, v \in o : t # v
      BY <1>4 DEF TextSelects, Is, o
    <2>5. TextSelects(p, column) <=> \E t \in column, v \in o : t = v
      BY <1>3, <2>1 DEF TextSelects, Is
    <2>6. ~ Is(c, Emptiness)
      BY <1>4 DEF Is, Emptiness
    <2> QED
      BY <1>1, <1>2, <2>2, <2>3, <2>4, <2>5, <2>6
  <1>5. CASE c.operator = "isNotEmpty"
    <2>1. p.operator = "isEmpty"
      BY <1>5 DEF Opposed
    <2>2. TextUsed(c) /\ TextUsed(p) /\ Is(c, Emptiness)
      BY <1>5, <2>1 DEF TextUsed, Is, Emptiness
    <2>3. TextSelects(c, column) <=> ~ (column \subseteq {<<>>})
      BY <1>5 DEF TextSelects, Is
    <2>4. TextSelects(p, column) <=> column \subseteq {<<>>}
      BY <2>1 DEF TextSelects, Is
    <2> QED
      BY <2>2, <2>3, <2>4
  <1>6. CASE c.operator \notin {"notEquals", "isNotEmpty"}
    <2>1. ~ TextUsed(c) /\ ~ TextUsed(p)
      BY <1>6 DEF TextUsed, Is, Emptiness, Opposed
    <2> QED
      BY <2>1
  <1> QED
    BY <1>4, <1>5, <1>6

LEMMA RangeOpposites ==
  ASSUME NEW c, NEW p, Opposed(c, p), c.operator = "notBetween",
         Many(c) \in Seq(Int), Len(Many(c)) >= 2, NEW x \in Int
  PROVE  Within(c, x) <=> ~ Within(p, x)
  <1> DEFINE m == Many(c)
  <1>1. p.operator = "between" /\ Many(p) = m
    BY DEF Opposed
  <1>2. m[1] \in Int /\ m[2] \in Int
    OBVIOUS
  <1>3. Within(c, x) <=> x < m[1] \/ x > m[2]
    BY DEF Within, Is
  <1>4. Within(p, x) <=> m[1] <= x /\ x <= m[2]
    BY <1>1 DEF Within, Is
  <1> HIDE DEF m
  <1> QED
    BY <1>2, <1>3, <1>4

LEMMA NumberOpposites ==
  ASSUME NEW c, NEW p, Opposed(c, p), One(c) \in AtMostOneOf(Int), Many(c) \in Seq(Int),
         NEW column \in AtMostOneOf(Int)
  PROVE  /\ NumberUsed(c) <=> NumberUsed(p)
         /\ NumberUsed(c) =>
              (NumberSelects(c, column) <=>
                 ~ NumberSelects(p, column) /\ (column # {} \/ Is(c, Emptiness)))
  <1> DEFINE o == One(c)
             m == Many(c)
  <1>1. \A x, y \in o : x = y
    BY DEF AtMostOneOf
  <1>2. (\A x, y \in column : x = y) /\ column \subseteq Int
    BY DEF AtMostOneOf
  <1>3. One(p) = o /\ Many(p) = m
    BY DEF Opposed
  <1> HIDE DEF o, m
  <1>4. CASE c.operator = "notEquals"
    <2>1. p.operator = "equals"
      BY <1>4 DEF Opposed
    <2>2. NumberUsed(c) <=> o # {}
      BY <1>4 DEF NumberUsed, Is, Comparisons, Ranges, o
    <2>3. NumberUsed(p) <=> o # {}
      BY <1>3, <2>1 DEF NumberUsed, Is, Comparisons, Ranges
    <2>4. NumberSelects(c, column) <=> \E x \in column, v \in o : x # v
      BY <1>4 DEF NumberSelects, Compares, Is, Ranges, o
    <2>5. NumberSelects(p, column) <=> \E x \in column, v \in o : x = v
      BY <1>3, <2>1 DEF NumberSelects, Compares, Is, Ranges
    <2>6. ~ Is(c, Emptiness)
      BY <1>4 DEF Is, Emptiness
    <2> QED
      BY <1>1, <1>2, <2>2, <2>3, <2>4, <2>5, <2>6
  <1>5. CASE c.operator = "notIn"
    <2>1. p.operator = "in"
      BY <1>5 DEF Opposed
    <2>2. NumberUsed(c) <=> m # <<>>
      BY <1>5 DEF NumberUsed, Is, Comparisons, Ranges, m
    <2>3. NumberUsed(p) <=> m # <<>>
      BY <1>3, <2>1 DEF NumberUsed, Is, Comparisons, Ranges
    <2>4. NumberSelects(c, column) <=> \E x \in column : x \notin Range(m)
      BY <1>5 DEF NumberSelects, Compares, Is, Ranges, m
    <2>5. NumberSelects(p, column) <=> \E x \in column : x \in Range(m)
      BY <1>3, <2>1 DEF NumberSelects, Compares, Is, Ranges
    <2>6. ~ Is(c, Emptiness)
      BY <1>5 DEF Is, Emptiness
    <2> QED
      BY <1>2, <2>2, <2>3, <2>4, <2>5, <2>6
  <1>6. CASE c.operator = "notBetween"
    <2>1. p.operator = "between"
      BY <1>6 DEF Opposed
    <2>2. NumberUsed(c) <=> Len(m) >= 2
      BY <1>6 DEF NumberUsed, Is, Comparisons, Ranges, m
    <2>3. NumberUsed(p) <=> Len(m) >= 2
      BY <1>3, <2>1 DEF NumberUsed, Is, Comparisons, Ranges
    <2>4. NumberSelects(c, column) <=> \E x \in column : Within(c, x)
      BY <1>6 DEF NumberSelects, Compares, Is, Ranges
    <2>5. NumberSelects(p, column) <=> \E x \in column : Within(p, x)
      BY <2>1 DEF NumberSelects, Compares, Is, Ranges
    <2>6. ~ Is(c, Emptiness)
      BY <1>6 DEF Is, Emptiness
    <2>7. Len(m) >= 2 => \A x \in column : Within(c, x) <=> ~ Within(p, x)
      BY <1>2, <1>6, RangeOpposites DEF m
    <2> QED
      BY <1>2, <2>2, <2>3, <2>4, <2>5, <2>6, <2>7
  <1>7. CASE c.operator \notin {"notEquals", "notIn", "notBetween"}
    <2>1. ~ NumberUsed(c) /\ ~ NumberUsed(p)
      BY <1>7 DEF NumberUsed, Is, Comparisons, Ranges, Opposed
    <2> QED
      BY <2>1
  <1> QED
    BY <1>4, <1>5, <1>6, <1>7

LEMMA DateOpposites ==
  ASSUME NEW c, NEW p, Opposed(c, p), One(c) \in AtMostOneOf(Int), Many(c) \in Seq(Int),
         NEW column \in AtMostOneOf(Int)
  PROVE  /\ DateUsed(c) <=> DateUsed(p)
         /\ DateUsed(c) =>
              (DateSelects(c, column) <=>
                 ~ DateSelects(p, column) /\ (column # {} \/ Is(c, Emptiness)))
  <1> DEFINE o == One(c)
             m == Many(c)
  <1>1. \A x, y \in o : x = y
    BY DEF AtMostOneOf
  <1>2. (\A x, y \in column : x = y) /\ column \subseteq Int
    BY DEF AtMostOneOf
  <1>3. One(p) = o /\ Many(p) = m
    BY DEF Opposed
  <1> HIDE DEF o, m
  <1>4. CASE c.operator = "notEquals"
    <2>1. p.operator = "equals"
      BY <1>4 DEF Opposed
    <2>2. DateUsed(c) <=> o # {}
      BY <1>4 DEF DateUsed, Is, Comparisons, Ranges, Emptiness, o
    <2>3. DateUsed(p) <=> o # {}
      BY <1>3, <2>1 DEF DateUsed, Is, Comparisons, Ranges, Emptiness
    <2>4. DateSelects(c, column) <=> \E x \in column, v \in o : x # v
      BY <1>4 DEF DateSelects, Compares, Is, Ranges, o
    <2>5. DateSelects(p, column) <=> \E x \in column, v \in o : x = v
      BY <1>3, <2>1 DEF DateSelects, Compares, Is, Ranges
    <2>6. ~ Is(c, Emptiness)
      BY <1>4 DEF Is, Emptiness
    <2> QED
      BY <1>1, <1>2, <2>2, <2>3, <2>4, <2>5, <2>6
  <1>5. CASE c.operator = "isNotEmpty"
    <2>1. p.operator = "isEmpty"
      BY <1>5 DEF Opposed
    <2>2. DateUsed(c) /\ DateUsed(p) /\ Is(c, Emptiness)
      BY <1>5, <2>1 DEF DateUsed, Is, Emptiness
    <2>3. DateSelects(c, column) <=> column # {}
      BY <1>5 DEF DateSelects, Compares, Is, Ranges
    <2>4. DateSelects(p, column) <=> column = {}
      BY <2>1 DEF DateSelects, Compares, Is, Ranges
    <2> QED
      BY <2>2, <2>3, <2>4
  <1>6. CASE c.operator = "notBetween"
    <2>1. p.operator = "between"
      BY <1>6 DEF Opposed
    <2>2. DateUsed(c) <=> Len(m) >= 2
      BY <1>6 DEF DateUsed, Is, Comparisons, Ranges, Emptiness, m
    <2>3. DateUsed(p) <=> Len(m) >= 2
      BY <1>3, <2>1 DEF DateUsed, Is, Comparisons, Ranges, Emptiness
    <2>4. DateSelects(c, column) <=> \E x \in column : Within(c, x)
      BY <1>6 DEF DateSelects, Compares, Is, Ranges
    <2>5. DateSelects(p, column) <=> \E x \in column : Within(p, x)
      BY <2>1 DEF DateSelects, Compares, Is, Ranges
    <2>6. ~ Is(c, Emptiness)
      BY <1>6 DEF Is, Emptiness
    <2>7. Len(m) >= 2 => \A x \in column : Within(c, x) <=> ~ Within(p, x)
      BY <1>2, <1>6, RangeOpposites DEF m
    <2> QED
      BY <1>2, <2>2, <2>3, <2>4, <2>5, <2>6, <2>7
  <1>7. CASE c.operator \notin {"notEquals", "isNotEmpty", "notBetween"}
    <2>1. ~ DateUsed(c) /\ ~ DateUsed(p)
      BY <1>7 DEF DateUsed, Is, Comparisons, Ranges, Emptiness, Opposed
    <2> QED
      BY <2>1
  <1> QED
    BY <1>4, <1>5, <1>6, <1>7

LEMMA EnumOpposites ==
  ASSUME NEW c, NEW p, Opposed(c, p), NEW T, NEW column \in AtMostOneOf(T)
  PROVE  /\ EnumUsed(c) <=> EnumUsed(p)
         /\ EnumUsed(c) =>
              (EnumSelects(c, column) <=>
                 ~ EnumSelects(p, column) /\ (column # {} \/ Is(c, Emptiness)))
  <1> DEFINE m == Many(c)
  <1>1. \A x, y \in column : x = y
    BY DEF AtMostOneOf
  <1>2. Many(p) = m
    BY DEF Opposed
  <1> HIDE DEF m
  <1>3. CASE Is(c, NoneOf)
    <2>1. Is(p, SomeOf) /\ ~ Is(c, SomeOf) /\ ~ Is(c, Emptiness)
      BY <1>3 DEF Is, NoneOf, SomeOf, Opposed, Emptiness
    <2>2. (EnumUsed(c) <=> m # <<>>) /\ (EnumUsed(p) <=> m # <<>>)
      <3>1. Is(c, NoneOf \cup SomeOf) /\ Is(p, NoneOf \cup SomeOf)
        BY <1>3, <2>1 DEF Is
      <3> QED
        BY <1>2, <3>1 DEF EnumUsed, m
    <2>3. EnumSelects(c, column) <=> \E x \in column : x \notin Range(m)
      BY <2>1 DEF EnumSelects, m
    <2>4. EnumSelects(p, column) <=> \E x \in column : x \in Range(m)
      BY <1>2, <2>1 DEF EnumSelects
    <2> QED
      BY <1>1, <2>1, <2>2, <2>3, <2>4
  <1>4. CASE ~ Is(c, NoneOf)
    <2>1. ~ EnumUsed(c) /\ ~ EnumUsed(p)
      BY <1>4 DEF EnumUsed, Is, NoneOf, SomeOf, Opposed
    <2> QED
      BY <2>1
  <1> QED
    BY <1>3, <1>4

LEMMA AssigneesOpposites ==
  ASSUME NEW c, NEW p, Opposed(c, p), NEW column
  PROVE  /\ AssigneesUsed(c) <=> AssigneesUsed(p)
         /\ AssigneesUsed(c) =>
              (AssigneesSelect(c, column) <=> ~ AssigneesSelect(p, column))
  <1> DEFINE m == Many(c)
             w == Range(m)
  <1>1. Many(p) = m
    BY DEF Opposed
  <1> HIDE DEF m
  <1>2. CASE Is(c, {"notEquals", "notIn", "notContainsAny"})
    <2>1. Is(p, {"equals", "in", "containsAny"})
      BY <1>2 DEF Is, Opposed
    <2>2. (AssigneesUsed(c) <=> m # <<>>) /\ (AssigneesUsed(p) <=> m # <<>>)
      BY <1>1, <1>2, <2>1 DEF AssigneesUsed, Is, NoneOf, SomeOf, m
    <2>3. AssigneesSelect(c, column) <=> w \cap column = {}
      BY <1>2 DEF AssigneesSelect, Is, NoneOf, m
    <2>4. AssigneesSelect(p, column) <=> w \cap column # {}
      BY <1>1, <2>1 DEF AssigneesSelect, Is, NoneOf
    <2> QED
      BY <2>2, <2>3, <2>4
  <1>3. CASE c.operator = "notContainsAll"
    <2>1. p.operator = "containsAll"
      BY <1>3 DEF Opposed
    <2>2. (AssigneesUsed(c) <=> m # <<>>) /\ (AssigneesUsed(p) <=> m # <<>>)
      BY <1>1, <1>3, <2>1 DEF AssigneesUsed, Is, NoneOf, SomeOf, m
    <2>3. AssigneesSelect(c, column) <=> \E id \in w : id \notin column
      BY <1>3 DEF AssigneesSelect, Is, NoneOf, m
    <2>4. AssigneesSelect(p, column) <=> w \subseteq column
      BY <1>1, <2>1 DEF AssigneesSelect, Is, NoneOf
    <2> HIDE DEF w
    <2> QED
      BY <2>2, <2>3, <2>4
  <1>4. CASE c.operator = "notExists"
    <2>1. p.operator = "exists"
      BY <1>4 DEF Opposed
    <2>2. (AssigneesUsed(c) <=> m # <<>>) /\ (AssigneesUsed(p) <=> m # <<>>)
      BY <1>1, <1>4, <2>1 DEF AssigneesUsed, Is, NoneOf, SomeOf, m
    <2>3. AssigneesSelect(c, column) <=> column = {}
      BY <1>4 DEF AssigneesSelect, Is, NoneOf
    <2>4. AssigneesSelect(p, column) <=> column # {}
      BY <2>1 DEF AssigneesSelect, Is, NoneOf
    <2> QED
      BY <2>2, <2>3, <2>4
  <1>5. CASE c.operator \in {"notBetween", "isNotEmpty"}
    <2>1. ~ AssigneesUsed(c) /\ ~ AssigneesUsed(p)
      BY <1>5 DEF AssigneesUsed, Is, NoneOf, SomeOf, Opposed
    <2> QED
      BY <2>1
  <1> QED
    <2>1. Is(c, {"notEquals", "notIn", "notContainsAny"})
            \/ c.operator \in {"notContainsAll", "notExists", "notBetween", "isNotEmpty"}
      BY DEF Opposed, Is
    <2> QED
      BY <1>2, <1>3, <1>4, <1>5, <2>1

LEMMA MoreElements ==
  ASSUME NEW T, NEW U, T \subseteq U, NEW s \in Seq(T)
  PROVE  s \in Seq(U)
  OBVIOUS

LEMMA Kinds ==
  \A f \in Fields :
    /\ Kind[f] \in {"text", "number", "date", "enum", "assignees"}
    /\ Kind[f] = "assignees" <=> f = "assigneeIds"
  BY DEF Fields, Kind

\* What a column of f may hold.
ColumnOf(f, T) == IF f = "assigneeIds" THEN SUBSET T ELSE AtMostOneOf(T)

LEMMA OppositesComplement ==
  ASSUME NEW c, NEW T, c.field \in Fields, NEW p, p.field = c.field, Opposed(c, p), Given(c, T),
         Kind[c.field] \in {"number", "date"} => T \subseteq Int,
         NEW column \in ColumnOf(c.field, T)
  PROVE  /\ Used(c) <=> Used(p)
         /\ Used(c) =>
              (Selects(c, column) <=>
                 /\ ~ Selects(p, column)
                 /\ column # {} \/ c.field = "assigneeIds" \/ Is(c, Emptiness))
  <1>1. One(c) \in AtMostOneOf(T) /\ Many(c) \in Seq(T)
    BY GivenValues
  <1>2. Kind[p.field] = Kind[c.field]
    OBVIOUS
  <1>3. CASE Kind[c.field] = "text"
    <2>1. c.field # "assigneeIds"
      BY <1>3, Kinds
    <2>2. column \in AtMostOneOf(T)
      BY <2>1 DEF ColumnOf
    <2>3. (Used(c) <=> TextUsed(c)) /\ (Used(p) <=> TextUsed(p))
      BY <1>2, <1>3 DEF Used
    <2>4. /\ Selects(c, column) <=> TextSelects(c, column)
          /\ Selects(p, column) <=> TextSelects(p, column)
      BY <1>2, <1>3 DEF Selects
    <2> QED
      BY <1>1, <2>1, <2>2, <2>3, <2>4, TextOpposites
  <1>4. CASE Kind[c.field] = "number"
    <2>1. c.field # "assigneeIds" /\ T \subseteq Int
      BY <1>4, Kinds
    <2>2. column \in AtMostOneOf(Int) /\ One(c) \in AtMostOneOf(Int) /\ Many(c) \in Seq(Int)
      <3>1. column \in AtMostOneOf(T)
        BY <2>1 DEF ColumnOf
      <3>2. AtMostOneOf(T) \subseteq AtMostOneOf(Int)
        BY <2>1 DEF AtMostOneOf
      <3>3. Many(c) \in Seq(Int)
        BY <1>1, <2>1, MoreElements
      <3> QED
        BY <1>1, <3>1, <3>2, <3>3
    <2>3. (Used(c) <=> NumberUsed(c)) /\ (Used(p) <=> NumberUsed(p))
      BY <1>2, <1>4 DEF Used
    <2>4. /\ Selects(c, column) <=> NumberSelects(c, column)
          /\ Selects(p, column) <=> NumberSelects(p, column)
      BY <1>2, <1>4 DEF Selects
    <2> QED
      BY <2>1, <2>2, <2>3, <2>4, NumberOpposites
  <1>5. CASE Kind[c.field] = "date"
    <2>1. c.field # "assigneeIds" /\ T \subseteq Int
      BY <1>5, Kinds
    <2>2. column \in AtMostOneOf(Int) /\ One(c) \in AtMostOneOf(Int) /\ Many(c) \in Seq(Int)
      <3>1. column \in AtMostOneOf(T)
        BY <2>1 DEF ColumnOf
      <3>2. AtMostOneOf(T) \subseteq AtMostOneOf(Int)
        BY <2>1 DEF AtMostOneOf
      <3>3. Many(c) \in Seq(Int)
        BY <1>1, <2>1, MoreElements
      <3> QED
        BY <1>1, <3>1, <3>2, <3>3
    <2>3. (Used(c) <=> DateUsed(c)) /\ (Used(p) <=> DateUsed(p))
      BY <1>2, <1>5 DEF Used
    <2>4. /\ Selects(c, column) <=> DateSelects(c, column)
          /\ Selects(p, column) <=> DateSelects(p, column)
      BY <1>2, <1>5 DEF Selects
    <2> QED
      BY <2>1, <2>2, <2>3, <2>4, DateOpposites
  <1>6. CASE Kind[c.field] = "enum"
    <2>1. c.field # "assigneeIds"
      BY <1>6, Kinds
    <2>2. column \in AtMostOneOf(T)
      BY <2>1 DEF ColumnOf
    <2>3. (Used(c) <=> EnumUsed(c)) /\ (Used(p) <=> EnumUsed(p))
      BY <1>2, <1>6 DEF Used
    <2>4. /\ Selects(c, column) <=> EnumSelects(c, column)
          /\ Selects(p, column) <=> EnumSelects(p, column)
      BY <1>2, <1>6 DEF Selects
    <2> QED
      BY <2>1, <2>2, <2>3, <2>4, EnumOpposites
  <1>7. CASE Kind[c.field] = "assignees"
    <2>1. c.field = "assigneeIds"
      BY <1>7, Kinds
    <2>3. (Used(c) <=> AssigneesUsed(c)) /\ (Used(p) <=> AssigneesUsed(p))
      BY <1>2, <1>7 DEF Used
    <2>4. /\ Selects(c, column) <=> AssigneesSelect(c, column)
          /\ Selects(p, column) <=> AssigneesSelect(p, column)
      BY <1>2, <1>7 DEF Selects
    <2> QED
      BY <2>1, <2>3, <2>4, AssigneesOpposites
  <1> QED
    BY <1>3, <1>4, <1>5, <1>6, <1>7, Kinds

\* A condition with a negative operator is dropped exactly when its opposite is, and
\* otherwise selects what the opposite leaves out of the cases that have a value in the
\* column: on every field, for all values of it and for whatever its column holds.
THEOREM NegationIsComplement ==
  ASSUME NEW T, NEW field \in Fields, NEW op \in DOMAIN Opposite,
         NEW value \in AtMostOneOf(T), NEW values,
         values = Absent \/ values \in Seq(AtMostOneOf(T)),
         Kind[field] \in {"number", "date"} => T \subseteq Int,
         NEW column \in ColumnOf(field, T),
         NEW c, c = Condition(field, op, value, values)
  PROVE  /\ Used(c) <=> Used(Positive(c))
         /\ Used(c) =>
              (Selects(c, column) <=>
                 /\ ~ Selects(Positive(c), column)
                 /\ column # {} \/ field = "assigneeIds" \/ Is(c, Emptiness))
  <1> DEFINE p == Positive(c)
  <1>1. c.field = field /\ c.operator = op /\ c.value = value /\ c.values = values
    BY DEF Condition
  <1>2. /\ p.field = field /\ p.operator = Opposite[op]
        /\ p.value = c.value /\ p.values = c.values
    BY <1>1 DEF Condition, Positive
  <1> HIDE DEF p
  <1>3. Opposed(c, p)
    <2>1. One(p) = One(c) /\ Many(p) = Many(c)
      BY <1>2 DEF One, Many
    <2>2. <<op, Opposite[op]>> \in {
       <<"notEquals", "equals">>, <<"notIn", "in">>, <<"notBetween", "between">>,
       <<"isNotEmpty", "isEmpty">>, <<"notExists", "exists">>,
       <<"notContainsAny", "containsAny">>, <<"notContainsAll", "containsAll">>}
      BY DEF Opposite
    <2> QED
      BY <1>1, <1>2, <2>1, <2>2 DEF Opposed
  <1>4. Given(c, T)
    BY <1>1 DEF Given
  <1>5. /\ Used(c) <=> Used(p)
        /\ Used(c) =>
              (Selects(c, column) <=>
                 /\ ~ Selects(p, column)
                 /\ column # {} \/ c.field = "assigneeIds" \/ Is(c, Emptiness))
    BY <1>1, <1>2, <1>3, <1>4, OppositesComplement
  <1> QED
    BY <1>1, <1>5 DEF p

LEMMA SampleConditions ==
  ASSUME NEW c \in NegativeConditions
  PROVE  \E field \in Fields, op \in DOMAIN Opposite :
           \E value \in AtMostOneOf(Values(field)),
              values \in {Absent} \cup Seq(AtMostOneOf(Values(field))) :
             c = Condition(field, op, value, values)
  <1>1. PICK field \in SampleFields : c \in Conditions(field, DOMAIN Opposite)
    BY DEF NegativeConditions
  <1>2. field \in Fields
    BY DEF SampleFields, Fields, Kind
  <1>3. AtMostOne(Values(field)) \subseteq AtMostOneOf(Values(field))
    BY DEF AtMostOne, AtMostOneOf
  <1>4. SeqOf(AtMostOne(Values(field)), 2) \subseteq Seq(AtMostOneOf(Values(field)))
    <2>1. \A n \in 0..2 : [1..n -> AtMostOne(Values(field))]
                            \subseteq Seq(AtMostOneOf(Values(field)))
      BY <1>3
    <2> QED
      BY <2>1 DEF SeqOf
  <1> QED
    BY <1>1, <1>2, <1>3, <1>4 DEF Conditions

\* A negative condition on the board is dropped exactly when its opposite is, and
\* selects what the opposite leaves out.
THEOREM NegationsHold == ViewSpec => NegationsComplement
  <1> DEFINE S(f) == IF Kind[f] = "text" THEN Texts ELSE Numbers
  <1>1. \A f \in Fields : /\ Values(f) \subseteq S(f)
                          /\ Columns(f) \subseteq ColumnOf(f, S(f))
                          /\ Kind[f] \in {"number", "date"} => S(f) \subseteq Int
    <2> SUFFICES ASSUME NEW f \in Fields
                 PROVE  /\ Values(f) \subseteq S(f)
                        /\ Columns(f) \subseteq ColumnOf(f, S(f))
                        /\ Kind[f] \in {"number", "date"} => S(f) \subseteq Int
      OBVIOUS
    <2>1. f = "assigneeIds" => Kind[f] # "text"
      BY Kinds
    <2> QED
      BY <2>1 DEF Values, Columns, ColumnOf, AtMostOneOf, Numbers
  <1>2. ASSUME NEW c \in NegativeConditions
        PROVE  /\ c.field \in Fields
               /\ \A column \in Columns(c.field) :
                    /\ Used(c) <=> Used(Positive(c))
                    /\ Used(c) =>
                         (Selects(c, column) <=>
                            /\ ~ Selects(Positive(c), column)
                            /\ column # {} \/ c.field = "assigneeIds" \/ Is(c, Emptiness))
    <2>1. PICK field \in Fields, op \in DOMAIN Opposite :
            \E value \in AtMostOneOf(Values(field)),
               values \in {Absent} \cup Seq(AtMostOneOf(Values(field))) :
              c = Condition(field, op, value, values)
      BY SampleConditions
    <2>2. PICK value \in AtMostOneOf(Values(field)),
               values \in {Absent} \cup Seq(AtMostOneOf(Values(field))) :
            c = Condition(field, op, value, values)
      BY <2>1
    <2>3. c.field = field
      BY <2>2 DEF Condition
    <2> DEFINE T == S(field)
    <2>4. /\ Values(field) \subseteq T
          /\ Columns(field) \subseteq ColumnOf(field, T)
          /\ Kind[field] \in {"number", "date"} => T \subseteq Int
      BY <1>1
    <2> HIDE DEF T
    <2>5. AtMostOneOf(Values(field)) \subseteq AtMostOneOf(T)
      BY <2>4 DEF AtMostOneOf
    <2>6. value \in AtMostOneOf(T) /\ (values = Absent \/ values \in Seq(AtMostOneOf(T)))
      BY <2>5, MoreElements
    <2> QED
      BY <2>2, <2>3, <2>4, <2>6, NegationIsComplement
  <1>3. ASSUME NEW f \in Fields PROVE Columns(f) # {}
    <2>1. <<>> \in Texts /\ 0 \in Numbers /\ {} \in SUBSET Numbers
      BY DEF Texts, Numbers
    <2> DEFINE some == {{x} : x \in IF Kind[f] = "text" THEN Texts ELSE Numbers}
    <2>2. {<<>>} \in some \/ {0} \in some
      BY <2>1
    <2> QED
      BY <2>1, <2>2 DEF Columns
  <1>4. OppositesUsedAlike /\ OppositesSplit
    BY <1>2, <1>3 DEF OppositesUsedAlike, OppositesSplit
  <1> QED
    BY <1>4, PTL DEF NegationsComplement

-----------------------------------------------------------------------------
(* The two ways into a search *)

\* The conditions of a search, one by one.
LEMMA OneCondition ==
  ASSUME NEW case, NEW c
  PROVE  DynamicWhere(<<c>>, case) <=> (Used(c) => Selects(c, case[c.field]))
  <1>1. DOMAIN <<c>> = {1} /\ <<c>>[1] = c
    OBVIOUS
  <1> QED
    BY <1>1 DEF DynamicWhere

LEMMA TwoConditions ==
  ASSUME NEW case, NEW c, NEW d
  PROVE  DynamicWhere(<<c, d>>, case) <=>
           /\ Used(c) => Selects(c, case[c.field])
           /\ Used(d) => Selects(d, case[d.field])
  <1>1. DOMAIN <<c, d>> = {1, 2} /\ <<c, d>>[1] = c /\ <<c, d>>[2] = d
    OBVIOUS
  <1> QED
    BY <1>1 DEF DynamicWhere

\* One parameter alone: the others select everything.
LEMMA OneParameter ==
  ASSUME NEW case, NEW S
  PROVE  /\ case.createdAt # {} =>
              /\ LegacyWhere([NoParameters EXCEPT !.priority = S], case)
                   <=> CasesPriorityFilter(S, case)
              /\ LegacyWhere([NoParameters EXCEPT !.caseSource = S], case)
                   <=> CasesPrTeamFilter(S, case)
              /\ LegacyWhere([NoParameters EXCEPT !.assigneeIds = S], case)
                   <=> CasesAssigneeFilter(S, case)
              /\ LegacyWhere([NoParameters EXCEPT !.stageId = S], case)
                   <=> (S # {} => case.stageId = S)
         /\ \A to : LegacyWhere([NoParameters EXCEPT !.createdAtFrom = S, !.createdAtTo = to], case)
                   <=> CasesCreatedAtFilter(S, to, case)
  <1>1. CasesSearchFilter({}, case)
    BY DEF CasesSearchFilter
  <1>2. case.createdAt # {} => CasesCreatedAtFilter({}, {}, case)
    BY DEF CasesCreatedAtFilter
  <1>3. /\ CasesPriorityFilter({}, case) /\ CasesPrTeamFilter({}, case)
        /\ CasesAssigneeFilter({}, case)
    BY DEF CasesPriorityFilter, CasesPrTeamFilter, CasesAssigneeFilter
  <1>4. LegacyWhere([NoParameters EXCEPT !.priority = S], case)
          <=> CasesPriorityFilter(S, case) /\ CasesCreatedAtFilter({}, {}, case)
    BY <1>1, <1>3 DEF LegacyWhere, NoParameters
  <1>5. LegacyWhere([NoParameters EXCEPT !.caseSource = S], case)
          <=> CasesPrTeamFilter(S, case) /\ CasesCreatedAtFilter({}, {}, case)
    BY <1>1, <1>3 DEF LegacyWhere, NoParameters
  <1>6. LegacyWhere([NoParameters EXCEPT !.assigneeIds = S], case)
          <=> CasesAssigneeFilter(S, case) /\ CasesCreatedAtFilter({}, {}, case)
    BY <1>1, <1>3 DEF LegacyWhere, NoParameters
  <1>7. LegacyWhere([NoParameters EXCEPT !.stageId = S], case)
          <=> (S # {} => case.stageId = S) /\ CasesCreatedAtFilter({}, {}, case)
    BY <1>1, <1>3 DEF LegacyWhere, NoParameters
  <1>8. ASSUME NEW to
        PROVE  LegacyWhere([NoParameters EXCEPT !.createdAtFrom = S, !.createdAtTo = to], case)
                 <=> CasesCreatedAtFilter(S, to, case)
    BY <1>1, <1>3 DEF LegacyWhere, NoParameters
  <1> QED
    BY <1>2, <1>4, <1>5, <1>6, <1>7, <1>8

\* A choice of many, as the values of a condition.
LEMMA ChosenValues ==
  ASSUME NEW S \in SUBSET Int, IsFiniteSet(S), NEW field, NEW op
  PROVE  LET c == Condition(field, op, {}, Elements(S))
         IN Range(Many(c)) = S /\ (Many(c) = <<>> <=> S = {})
  <1> DEFINE singles == {{x} : x \in S}
             list == Elements(S)
             c == Condition(field, op, {}, list)
             lists == [i \in DOMAIN list |-> SetToSeq(list[i])]
  <1>1. list \in Seq(singles) /\ Range(list) = singles
    <2> DEFINE f == [x \in S |-> {x}]
    <2>1. IsFiniteSet(singles)
      <3>1. f \in Surjection(S, singles)
        BY DEF Surjection
      <3> HIDE DEF f, singles
      <3> QED
        BY <3>1, FS_Surjection
    <2> HIDE DEF singles
    <2> QED
      BY <2>1, Listed DEF Elements, singles
  <1>2. list # Absent
    <2>1. singles \subseteq SUBSET Int
      OBVIOUS
    <2> HIDE DEF list, singles
    <2>2. list \in Seq(SUBSET Int)
      BY <1>1, <2>1, MoreElements
    <2> QED
      BY <2>2, AbsentIsNoValues
  <1>3. Many(c) = FlattenSeq(lists)
    <2> HIDE DEF list
    <2> QED
      BY <1>2 DEF Many, Condition
  <1>4. DOMAIN list = 1..Len(list) /\ Len(list) \in Nat
    <2> HIDE DEF list, singles
    <2> QED
      BY <1>1
  <1>5. \A i \in DOMAIN list : list[i] \in singles
    <2> HIDE DEF list
    <2> QED
      BY <1>1 DEF Range
  <1>6. \A i \in DOMAIN list : SetToSeq(list[i]) \in Seq(S) /\ Range(SetToSeq(list[i])) = list[i]
    <2> SUFFICES ASSUME NEW i \in DOMAIN list
                 PROVE  SetToSeq(list[i]) \in Seq(S) /\ Range(SetToSeq(list[i])) = list[i]
      OBVIOUS
    <2> HIDE DEF list
    <2>1. PICK x \in S : list[i] = {x}
      BY <1>5
    <2>2. list[i] \in AtMostOneOf(S)
      BY <2>1 DEF AtMostOneOf
    <2> QED
      BY <2>2, SingleValue
  <1> HIDE DEF list, c
  <1>7. lists \in Seq(Seq(S)) /\ DOMAIN lists = DOMAIN list
    BY <1>4, <1>6
  <1>8. \A i \in DOMAIN lists : Range(lists[i]) = list[i]
    BY <1>6
  <1> HIDE DEF lists
  <1>9. /\ Many(c) \in Seq(S)
        /\ Range(Many(c)) = UNION {Range(lists[i]) : i \in DOMAIN lists}
    BY <1>3, <1>7, Flattened
  <1>10. Range(Many(c)) = S
    <2>1. {Range(lists[i]) : i \in DOMAIN lists} = {list[i] : i \in DOMAIN list}
      BY <1>7, <1>8
    <2>3. Range(list) = {list[i] : i \in DOMAIN list}
      BY DEF Range
    <2>2. UNION singles = S
      OBVIOUS
    <2> QED
      BY <1>1, <1>9, <2>1, <2>2, <2>3
  <1>11. Many(c) = <<>> <=> S = {}
    <2>1. Many(c) = <<>> => Range(Many(c)) = {}
      BY DEF Range
    <2>2. S = {} => Many(c) = <<>>
      BY <1>9
    <2> QED
      BY <1>10, <2>1, <2>2
  <1> QED
    BY <1>10, <1>11 DEF c, list

LEMMA SingleDate ==
  ASSUME NEW from \in Int, NEW to \in Int, NEW field, NEW op
  PROVE  LET m == Many(Condition(field, op, {}, <<{from}, {to}>>))
         IN Len(m) = 2 /\ m[1] = from /\ m[2] = to
  <1> DEFINE values == <<{from}, {to}>>
             c == Condition(field, op, {}, values)
  <1>1. values \in Seq(SUBSET Int) /\ DOMAIN values = 1..2 /\ values[1] = {from} /\ values[2] = {to}
    OBVIOUS
  <1>2. Many(c) = FlattenSeq([i \in DOMAIN values |-> SetToSeq(values[i])])
    <2> HIDE DEF values
    <2> QED
      BY <1>1, AbsentIsNoValues DEF Many, Condition
  <1> HIDE DEF values
  <1>3. [i \in DOMAIN values |-> SetToSeq(values[i])] = <<<<from>>, <<to>>>>
    <2>1. SetToSeq({from}) = <<from>> /\ SetToSeq({to}) = <<to>>
      BY SingleToSeq
    <2>2. [i \in DOMAIN values |-> SetToSeq(values[i])]
            = [i \in 1..2 |-> IF i = 1 THEN <<from>> ELSE <<to>>]
      <3>1. \A i \in 1..2 : SetToSeq(values[i]) = IF i = 1 THEN <<from>> ELSE <<to>>
        <4>1. 1..2 = {1, 2}
          OBVIOUS
        <4> QED
          BY <1>1, <2>1, <4>1
      <3> QED
        BY <1>1, <3>1, Zenon
    <2>3. [i \in 1..2 |-> IF i = 1 THEN <<from>> ELSE <<to>>] = <<<<from>>, <<to>>>>
      OBVIOUS
    <2> QED
      BY <2>2, <2>3
  <1>4. FlattenSeq(<<<<from>>, <<to>>>>) = <<from>> \o <<to>>
    <2>1. <<from>> \in Seq(Int) /\ <<to>> \in Seq(Int)
      OBVIOUS
    <2> QED
      BY <2>1, FlattenTwo
  <1>5. /\ Many(c) \in Seq(Int) /\ Len(Many(c)) = 2
        /\ Many(c)[1] = from /\ Many(c)[2] = to
    <2>1. Many(c) = <<from>> \o <<to>>
      BY <1>2, <1>3, <1>4
    <2>2. <<from>> \in Seq(Int) /\ Len(<<from>>) = 1 /\ <<from>>[1] = from
      OBVIOUS
    <2>3. <<to>> \in Seq(Int) /\ Len(<<to>>) = 1 /\ <<to>>[1] = to
      OBVIOUS
    <2> DEFINE a == <<from>>
               b == <<to>>
    <2>4. a \in Seq(Int) /\ Len(a) = 1 /\ b \in Seq(Int) /\ Len(b) = 1
      BY <2>2, <2>3
    <2> HIDE DEF a, b
    <2>5. a \o b \in Seq(Int) /\ Len(a \o b) = 2 /\ (a \o b)[1] = a[1] /\ (a \o b)[2] = b[1]
      <3>1. /\ a \o b \in Seq(Int) /\ Len(a \o b) = Len(a) + Len(b)
            /\ \A i \in 1..Len(a) + Len(b) :
                 (a \o b)[i] = IF i <= Len(a) THEN a[i] ELSE b[i - Len(a)]
        BY <2>4, ConcatProperties
      <3>2. 1 \in 1..1 + 1 /\ 2 \in 1..1 + 1 /\ 1 + 1 = 2 /\ 1 <= 1 /\ ~ 2 <= 1 /\ 2 - 1 = 1
        OBVIOUS
      <3> QED
        BY <2>4, <3>1, <3>2
    <2> QED
      BY <2>1, <2>2, <2>3, <2>5 DEF a, b
  <1> QED
    BY <1>5 DEF values

\* A filter that has a query parameter of its own selects through it the same cases as
\* the condition that asks for the same: whatever is chosen, and in every case.
THEOREM ParameterIsCondition ==
  ASSUME NEW case, NEW S \in SUBSET Int, IsFiniteSet(S),
         case.createdAt # {}, NEW p, case.priority = {p}, NEW s, case.caseSource = {s}
  PROVE  /\ LegacyWhere([NoParameters EXCEPT !.priority = S], case)
              <=> DynamicWhere(<<Condition("priority", "in", {}, Elements(S))>>, case)
         /\ LegacyWhere([NoParameters EXCEPT !.caseSource = S], case)
              <=> DynamicWhere(<<Condition("caseSource", "containsAny", {}, Elements(S))>>, case)
         /\ LegacyWhere([NoParameters EXCEPT !.assigneeIds = S], case)
              <=> DynamicWhere(<<Condition("assigneeIds", "containsAny", {}, Elements(S))>>, case)
  <1>1. ASSUME NEW field, NEW op \in {"in", "containsAny"}
        PROVE  LET c == Condition(field, op, {}, Elements(S))
               IN /\ c.field = field
                  /\ Kind[field] = "enum" =>
                       /\ Used(c) <=> S # {}
                       /\ \A column : Selects(c, column) <=> \E x \in column : x \in S
                  /\ Kind[field] = "assignees" =>
                       /\ Used(c) <=> S # {}
                       /\ \A column : Selects(c, column) <=> S \cap column # {}
    <2> DEFINE c == Condition(field, op, {}, Elements(S))
    <2>1. c.field = field /\ c.operator = op
      BY DEF Condition
    <2>2. Range(Many(c)) = S /\ (Many(c) = <<>> <=> S = {})
      BY ChosenValues
    <2> HIDE DEF c
    <2>3. Is(c, SomeOf) /\ ~ Is(c, {"contains"}) /\ ~ Is(c, NoneOf)
      BY <2>1 DEF Is, SomeOf, NoneOf
    <2>4. EnumUsed(c) <=> S # {}
      BY <2>2, <2>3 DEF EnumUsed, Is
    <2>5. \A column : EnumSelects(c, column) <=> \E x \in column : x \in S
      BY <2>2, <2>3 DEF EnumSelects
    <2>6. AssigneesUsed(c) <=> S # {}
      BY <2>2, <2>3 DEF AssigneesUsed, Is
    <2>7. \A column : AssigneesSelect(c, column) <=> S \cap column # {}
      BY <2>1, <2>2 DEF AssigneesSelect, Is, NoneOf
    <2>8. Kind[field] = "enum" =>
            (Used(c) <=> EnumUsed(c)) /\ \A column : Selects(c, column) <=> EnumSelects(c, column)
      BY <2>1 DEF Used, Selects
    <2>9. Kind[field] = "assignees" =>
            /\ Used(c) <=> AssigneesUsed(c)
            /\ \A column : Selects(c, column) <=> AssigneesSelect(c, column)
      BY <2>1 DEF Used, Selects
    <2>10. /\ c.field = field
           /\ Kind[field] = "enum" =>
                /\ Used(c) <=> S # {}
                /\ \A column : Selects(c, column) <=> \E x \in column : x \in S
           /\ Kind[field] = "assignees" =>
                /\ Used(c) <=> S # {}
                /\ \A column : Selects(c, column) <=> S \cap column # {}
      BY <2>1, <2>4, <2>5, <2>6, <2>7, <2>8, <2>9
    <2> QED
      BY <2>10 DEF c
  <1>2. Kind["priority"] = "enum" /\ Kind["caseSource"] = "enum" /\ Kind["assigneeIds"] = "assignees"
    BY DEF Kind
  <1>3. LegacyWhere([NoParameters EXCEPT !.priority = S], case)
          <=> DynamicWhere(<<Condition("priority", "in", {}, Elements(S))>>, case)
    <2> DEFINE c == Condition("priority", "in", {}, Elements(S))
    <2>1. /\ c.field = "priority" /\ (Used(c) <=> S # {})
          /\ \A column : Selects(c, column) <=> \E x \in column : x \in S
      BY <1>1, <1>2
    <2> HIDE DEF c
    <2>2. DynamicWhere(<<c>>, case) <=> (S # {} => p \in S)
      BY <2>1, OneCondition
    <2>3. CasesPriorityFilter(S, case) <=> (S # {} => p \in S)
      BY DEF CasesPriorityFilter
    <2> QED
      BY <2>2, <2>3, OneParameter DEF c
  <1>4. LegacyWhere([NoParameters EXCEPT !.caseSource = S], case)
          <=> DynamicWhere(<<Condition("caseSource", "containsAny", {}, Elements(S))>>, case)
    <2> DEFINE c == Condition("caseSource", "containsAny", {}, Elements(S))
    <2>1. /\ c.field = "caseSource" /\ (Used(c) <=> S # {})
          /\ \A column : Selects(c, column) <=> \E x \in column : x \in S
      BY <1>1, <1>2
    <2> HIDE DEF c
    <2>2. DynamicWhere(<<c>>, case) <=> (S # {} => s \in S)
      BY <2>1, OneCondition
    <2>3. CasesPrTeamFilter(S, case) <=> (S # {} => s \in S)
      BY DEF CasesPrTeamFilter
    <2> QED
      BY <2>2, <2>3, OneParameter DEF c
  <1>5. LegacyWhere([NoParameters EXCEPT !.assigneeIds = S], case)
          <=> DynamicWhere(<<Condition("assigneeIds", "containsAny", {}, Elements(S))>>, case)
    <2> DEFINE c == Condition("assigneeIds", "containsAny", {}, Elements(S))
    <2>1. /\ c.field = "assigneeIds" /\ (Used(c) <=> S # {})
          /\ \A column : Selects(c, column) <=> S \cap column # {}
      BY <1>1, <1>2
    <2> HIDE DEF c
    <2>2. DynamicWhere(<<c>>, case) <=> (S # {} => S \cap case.assigneeIds # {})
      BY <2>1, OneCondition
    <2>3. CasesAssigneeFilter(S, case) <=> (S # {} => S \cap case.assigneeIds # {})
      BY DEF CasesAssigneeFilter
    <2> QED
      BY <2>2, <2>3, OneParameter DEF c
  <1> QED
    BY <1>3, <1>4, <1>5

\* The same of the stage, which a case may lack.
THEOREM StageIsCondition ==
  ASSUME NEW case, NEW S \in AtMostOneOf(Int), case.createdAt # {},
         case.stageId \in AtMostOneOf(Int)
  PROVE  LegacyWhere([NoParameters EXCEPT !.stageId = S], case)
           <=> DynamicWhere(<<Condition("stageId", "equals", S, Absent)>>, case)
  <1> DEFINE c == Condition("stageId", "equals", S, Absent)
             column == case.stageId
  <1>1. c.field = "stageId" /\ c.operator = "equals" /\ One(c) = S
    BY DEF Condition, One
  <1> HIDE DEF c
  <1>2. Kind["stageId"] = "number"
    BY DEF Kind
  <1>3. Used(c) <=> S # {}
    BY <1>1, <1>2 DEF Used, NumberUsed, Is, Comparisons, Ranges
  <1>4. Selects(c, column) <=> \E x \in column, v \in S : x = v
    BY <1>1, <1>2 DEF Selects, NumberSelects, Compares, Is, Ranges
  <1>5. DynamicWhere(<<c>>, case) <=> (S # {} => \E x \in column, v \in S : x = v)
    BY <1>1, <1>3, <1>4, OneCondition
  <1>6. (\A x, y \in S : x = y) /\ (\A x, y \in column : x = y)
    BY DEF AtMostOneOf
  <1>7. S # {} => ((\E x \in column, v \in S : x = v) <=> column = S)
    BY <1>6
  <1> QED
    BY <1>5, <1>7, OneParameter DEF c

\* The days of both parameters are those of `between`, and a day alone is a comparison.
THEOREM DatesAreConditions ==
  ASSUME NEW case, NEW created \in Int, case.createdAt = {created},
         NEW from \in AtMostOneOf(Int), NEW to \in AtMostOneOf(Int)
  PROVE  LegacyWhere([NoParameters EXCEPT !.createdAtFrom = from, !.createdAtTo = to], case)
           <=> DynamicWhere(
                 IF from # {} /\ to # {}
                   THEN <<Condition("createdAt", "between", {}, <<from, to>>)>>
                   ELSE <<Condition("createdAt", "greaterThanOrEqual", from, Absent),
                          Condition("createdAt", "lessThanOrEqual", to, Absent)>>, case)
  <1>1. Kind["createdAt"] = "date"
    BY DEF Kind
  <1>2. CasesCreatedAtFilter(from, to, case)
          <=> (\A d \in from : created >= d) /\ (\A d \in to : created <= d)
    BY DEF CasesCreatedAtFilter
  <1>3. CASE from # {} /\ to # {}
    <2>1. PICK a \in Int, b \in Int : from = {a} /\ to = {b}
      <3>1. PICK a \in from, b \in to : TRUE
        BY <1>3
      <3>2. from = {a} /\ to = {b} /\ a \in Int /\ b \in Int
        BY <3>1 DEF AtMostOneOf
      <3> QED
        BY <3>2
    <2> DEFINE c == Condition("createdAt", "between", {}, <<from, to>>)
    <2>2. c.field = "createdAt" /\ c.operator = "between"
      BY DEF Condition
    <2>3. Len(Many(c)) = 2 /\ Many(c)[1] = a /\ Many(c)[2] = b
      BY <2>1, SingleDate
    <2> HIDE DEF c
    <2>4. Len(Many(c)) >= 2 /\ Many(c)[1] = a /\ Many(c)[2] = b
      BY <2>3
    <2>5. Used(c)
      BY <1>1, <2>2, <2>4 DEF Used, DateUsed, Is, Ranges
    <2>6. Selects(c, {created}) <=> a <= created /\ created <= b
      BY <1>1, <2>2, <2>4 DEF Selects, DateSelects, Compares, Within, Is, Ranges
    <2>7. DynamicWhere(<<c>>, case) <=> a <= created /\ created <= b
      BY <2>2, <2>5, <2>6, OneCondition
    <2> QED
      BY <1>2, <1>3, <2>1, <2>7, OneParameter DEF c
  <1>4. CASE ~ (from # {} /\ to # {})
    <2> DEFINE c == Condition("createdAt", "greaterThanOrEqual", from, Absent)
               d == Condition("createdAt", "lessThanOrEqual", to, Absent)
    <2>1. c.field = "createdAt" /\ c.operator = "greaterThanOrEqual" /\ One(c) = from
      BY DEF Condition, One
    <2>2. d.field = "createdAt" /\ d.operator = "lessThanOrEqual" /\ One(d) = to
      BY DEF Condition, One
    <2> HIDE DEF c, d
    <2>3. (Used(c) <=> from # {}) /\ (Used(d) <=> to # {})
      BY <1>1, <2>1, <2>2 DEF Used, DateUsed, Is, Emptiness, Comparisons, Ranges
    <2>4. Selects(c, {created}) <=> \E v \in from : created >= v
      BY <1>1, <2>1 DEF Selects, DateSelects, Compares, Is, Ranges
    <2>5. Selects(d, {created}) <=> \E v \in to : created <= v
      BY <1>1, <2>2 DEF Selects, DateSelects, Compares, Is, Ranges
    <2>6. DynamicWhere(<<c, d>>, case)
            <=> (from # {} => \E v \in from : created >= v) /\ (to # {} => \E v \in to : created <= v)
      BY <2>1, <2>2, <2>3, <2>4, <2>5, TwoConditions
    <2>7. (\A x, y \in from : x = y) /\ (\A x, y \in to : x = y)
      BY DEF AtMostOneOf
    <2>8. /\ (from # {} => \E v \in from : created >= v) <=> \A v \in from : created >= v
          /\ (to # {} => \E v \in to : created <= v) <=> \A v \in to : created <= v
      BY <2>7
    <2> QED
      BY <1>2, <1>4, <2>6, <2>8, OneParameter DEF c, d
  <1> QED
    BY <1>3, <1>4

\* The cases of the sample have a value in each column that the code requires.
Sample(case) ==
  /\ \E x \in Int : case.createdAt = {x}
  /\ \E x : case.priority = {x}
  /\ \E x : case.caseSource = {x}
  /\ case.stageId \in AtMostOneOf(Int)

LEMMA SampleCases ==
  ASSUME NEW f \in {"createdAt", "priority", "assigneeIds", "stageId", "caseSource"},
         NEW column \in Columns(f), NEW case, case = [SomeCase EXCEPT ![f] = column]
  PROVE  Sample(case)
  <1>1. /\ Kind["createdAt"] # "text" /\ Kind["priority"] # "text" /\ Kind["caseSource"] # "text"
        /\ Kind["stageId"] # "text"
    BY DEF Kind
  <1>2. /\ {"createdAt", "priority", "assigneeIds", "stageId", "caseSource"} \subseteq Fields
    BY DEF Fields, Kind
  <1>3. \A g \in {"createdAt", "priority", "assigneeIds", "stageId", "caseSource"} :
          case[g] = IF g = f THEN column ELSE SomeCase[g]
    BY <1>2 DEF SomeCase
  <1>4. /\ SomeCase["createdAt"] = {1} /\ SomeCase["priority"] = {1}
        /\ SomeCase["caseSource"] = {1} /\ SomeCase["stageId"] = {1}
    BY <1>1, <1>2 DEF SomeCase
  <1>5. f \in {"createdAt", "priority", "caseSource"} => \E x \in Int : column = {x}
    BY <1>1 DEF Columns, Nullable, Numbers
  <1>6. f = "stageId" => column \in AtMostOneOf(Int)
    BY <1>1 DEF Columns, Numbers, AtMostOneOf
  <1>7. {1} \in AtMostOneOf(Int)
    BY DEF AtMostOneOf
  <1>8. \E x \in Int : case.createdAt = {x}
    BY <1>3, <1>4, <1>5
  <1>9. \E x : case.priority = {x}
    BY <1>3, <1>4, <1>5
  <1>10. \E x : case.caseSource = {x}
    BY <1>3, <1>4, <1>5
  <1>11. case.stageId \in AtMostOneOf(Int)
    BY <1>3, <1>4, <1>6, <1>7
  <1> QED
    BY <1>8, <1>9, <1>10, <1>11 DEF Sample

\* Both ways into a search select the same cases of the board.
THEOREM ParametersHold == ViewSpec => ParametersAgree
  <1>1. AtMostOne(Numbers) \subseteq AtMostOneOf(Int)
    BY DEF AtMostOne, AtMostOneOf, Numbers
  <1>2. SameDates
    <2> SUFFICES ASSUME NEW from \in AtMostOne(Numbers), NEW to \in AtMostOne(Numbers),
                        NEW f \in {"createdAt", "priority", "assigneeIds", "stageId", "caseSource"},
                        NEW column \in Columns(f),
                        NEW case, case = [SomeCase EXCEPT ![f] = column]
                 PROVE  LegacyWhere([NoParameters EXCEPT !.createdAtFrom = from,
                                                         !.createdAtTo = to], case)
                          <=> DynamicWhere(
                 IF from # {} /\ to # {}
                   THEN <<Condition("createdAt", "between", {}, <<from, to>>)>>
                   ELSE <<Condition("createdAt", "greaterThanOrEqual", from, Absent),
                          Condition("createdAt", "lessThanOrEqual", to, Absent)>>, case)
      BY DEF SameDates, Same
    <2>2. Sample(case)
      BY SampleCases
    <2>1. PICK x \in Int : case.createdAt = {x}
      BY <2>2 DEF Sample
    <2> QED
      BY <1>1, <2>1, DatesAreConditions
  <1>3. SameChoices
    <2>1. ASSUME NEW S \in SUBSET Numbers
          PROVE  /\ Same([NoParameters EXCEPT !.priority = S],
                         <<Condition("priority", "in", {}, Elements(S))>>)
                 /\ Same([NoParameters EXCEPT !.caseSource = S],
                         <<Condition("caseSource", "containsAny", {}, Elements(S))>>)
                 /\ Same([NoParameters EXCEPT !.assigneeIds = S],
                         <<Condition("assigneeIds", "containsAny", {}, Elements(S))>>)
      <3>1. S \in SUBSET Int /\ IsFiniteSet(S)
        <4>1. IsFiniteSet(Numbers)
          <5>1. IsFiniteSet(0..2)
            <6>1. 0 \in Int /\ 2 \in Int
              OBVIOUS
            <6> QED
              BY <6>1, FS_Interval
          <5> QED
            BY <5>1 DEF Numbers
        <4>2. IsFiniteSet(S)
          BY <4>1, FS_Subset
        <4> QED
          BY <4>2 DEF Numbers
      <3>2. ASSUME NEW f \in {"createdAt", "priority", "assigneeIds", "stageId", "caseSource"},
                   NEW column \in Columns(f),
                   NEW case, case = [SomeCase EXCEPT ![f] = column]
            PROVE  /\ LegacyWhere([NoParameters EXCEPT !.priority = S], case)
                        <=> DynamicWhere(<<Condition("priority", "in", {}, Elements(S))>>, case)
                   /\ LegacyWhere([NoParameters EXCEPT !.caseSource = S], case)
                        <=> DynamicWhere(
                              <<Condition("caseSource", "containsAny", {}, Elements(S))>>, case)
                   /\ LegacyWhere([NoParameters EXCEPT !.assigneeIds = S], case)
                        <=> DynamicWhere(
                              <<Condition("assigneeIds", "containsAny", {}, Elements(S))>>, case)
        <4>1. Sample(case)
          BY <3>2, SampleCases
        <4>2. PICK p : case.priority = {p}
          BY <4>1 DEF Sample
        <4>3. PICK s : case.caseSource = {s}
          BY <4>1 DEF Sample
        <4>4. case.createdAt # {}
          BY <4>1 DEF Sample
        <4> QED
          BY <3>1, <4>2, <4>3, <4>4, ParameterIsCondition
      <3> QED
        BY <3>2 DEF Same
    <2>2. ASSUME NEW S \in AtMostOne(Numbers)
          PROVE  Same([NoParameters EXCEPT !.stageId = S],
                      <<Condition("stageId", "equals", S, Absent)>>)
      <3>1. ASSUME NEW f \in {"createdAt", "priority", "assigneeIds", "stageId", "caseSource"},
                   NEW column \in Columns(f),
                   NEW case, case = [SomeCase EXCEPT ![f] = column]
            PROVE  LegacyWhere([NoParameters EXCEPT !.stageId = S], case)
                     <=> DynamicWhere(<<Condition("stageId", "equals", S, Absent)>>, case)
        <4>1. Sample(case)
          BY <3>1, SampleCases
        <4>2. case.createdAt # {} /\ case.stageId \in AtMostOneOf(Int)
          BY <4>1 DEF Sample
        <4> QED
          BY <1>1, <4>2, StageIsCondition
      <3> QED
        BY <3>1 DEF Same
    <2> QED
      BY <2>1, <2>2 DEF SameChoices
  <1> QED
    BY <1>2, <1>3, PTL DEF ParametersAgree
=============================================================================
