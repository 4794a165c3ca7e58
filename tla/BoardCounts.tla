------------------------------ MODULE BoardCounts ------------------------------
(***************************************************************************)
(* When the counters of the board mean something. The code keeps caseCount    *)
(* right only in two regimes; this module follows a behaviour of CaseBoard as *)
(* long as it has been in one of them.                                       *)
(***************************************************************************)
EXTENDS CaseBoard, FiniteSets, Functions, TLC

CONSTANT MaxCount    \* bound: how far a counter may drift

ASSUME MaxCountAssumption == MaxCount \in Nat
ASSUME FinitelyMany == IsFiniteSet(Requests) /\ IsFiniteSet(Cases)

VARIABLES careful, moving    \* so far the behaviour has been in the regime

boardVars == <<vars, careful, moving>>

\* Requests that run at the same time concern different cases, and a stage is
\* removed while no other request runs.
Careful ==
  \A r, q \in Requests : r # q /\ req[r] # Idle /\ req[q] # Idle =>
    /\ req[r].case = req[q].case => req[r].case = "none"
    /\ req[r].pc # "remove"

\* Cases are created, moved, updated and deleted in any interleaving, but no case
\* is taken off the board by an update and no stage is removed.
Moving ==
  \A r \in Requests :
    /\ req[r].pc # "remove"
    /\ req[r].pc = "update" => req[r].stage # NoStage

\* A request ends between a statement on a counter and the one that belongs to it.
LeavesUnfinished ==
  \E r \in Requests : req[r].pc \in {"insert", "decrement", "increment"} /\ RequestDies(r)

BoardInit == Init /\ careful = TRUE /\ moving = TRUE

BoardNext ==
  /\ Next
  /\ ~ LeavesUnfinished
  /\ careful' = (careful /\ Careful')
  /\ moving' = (moving /\ Moving')
  /\ careful' \/ moving'
  /\ \A s \in StageIds : count'[s] \in -MaxCount..MaxCount

BoardSpec == BoardInit /\ [][BoardNext]_boardVars

Symmetry == Permutations(Requests) \union Permutations(Cases)

-----------------------------------------------------------------------------

At(pc) == {r \in Requests : req[r].pc = pc}

\* While requests on different cases interleave, the caseCount of each stage is
\* the number of its cases, up to what requests have still to add or take away.
CountsAccountedFor ==
  careful => \A s \in stages :
    count[s] = Cardinality(Members(s))
             + Cardinality({r \in At("insert") : req[r].stage = s})
             + Cardinality({r \in At("decrement") : req[r].old = s})
             - Cardinality({r \in At("decrement") \union At("increment") : req[r].stage = s})

\* Requests on the same case may leave the counters of single stages wrong, but
\* not their total: a move counted against the wrong stage is still one less
\* here and one more there.
TotalAccountedFor ==
  moving => SumFunctionOnSet(count, stages)
              = Cardinality({c \in Cases : Live(c) /\ at[c] # NoStage})
              + Cardinality(At("insert"))
              + Cardinality({r \in At("decrement") : req[r].stage = NoStage})
              - Cardinality(At("increment"))

=============================================================================
