------------------------------- MODULE BoardViews -------------------------------
(***************************************************************************)
(* A client that looks through the board page by page while others change   *)
(* it: CaseRepository.getAllCasesByAllStages.  Each page is put together     *)
(* from statements that run side by side, each on the board of its moment.   *)
(***************************************************************************)
EXTENDS BoardCounts, CaseFilters

CONSTANTS
  Queries,     \* what clients ask for
  PageLimit,   \* stages on a page
  CaseLimit,   \* cases shown of a stage
  MaxMoved,    \* bound: cases that change stage while a page is put together
  MaxBusy      \* bound: requests that change the board while a client looks

ASSUME LimitsAssumption == {PageLimit, CaseLimit, MaxMoved, MaxBusy} \subseteq Nat \ {0}
ASSUME AbsentIsNoWalk == Absent \notin [query : Queries, page : Nat \ {0}, missing : SUBSET StageIds]

VARIABLES
  walk,      \* the query, the page asked for, and the stages the client is still to see
  reading    \* what the statements for that page have answered so far

viewVars == <<boardVars, walk, reading>>

Smaller(m, n) == IF m < n THEN m ELSE n
Larger(m, n) == IF m < n THEN n ELSE m

Unread == [shown |-> Absent, cases |-> Absent, counts |-> Absent, moved |-> 0]

ViewInit == BoardInit /\ walk = Absent /\ reading = Unread

\* Everything but the stage of a case is the same for all cases here.
AsRow(c) ==
  [f \in Fields |-> CASE f = "stageId" -> {at[c]} \ {NoStage}
                      [] Kind[f] = "text" -> {<<1>>}
                      [] OTHER -> {1}]

Matching(s) == {c \in Members(s) : CaseWhere(walk.query, AsRow(c))}

\* orderBy id: the rows before stage s in the order asked for.
Ahead(ids, s, sort) == {a \in ids : IF sort = "asc" THEN a < s ELSE a > s}

\* (mutant) The first page is page 0.
PageFromZero(ids, n, sort) ==
  {s \in ids : Cardinality(Ahead(ids, s, sort)) \in n * PageLimit..(n + 1) * PageLimit - 1}

\* skip and take: the rows with so many before them.
Page(ids, n, sort) ==
  {s \in ids : Cardinality(Ahead(ids, s, sort)) \in (n - 1) * PageLimit..n * PageLimit - 1}

\* Requests that are changing the board.
Busy == Cardinality({r \in Requests : req[r] # Idle})

StartWalk ==
  /\ walk = Absent /\ Busy <= MaxBusy
  /\ \E q \in Queries :
       /\ \A i \in DOMAIN q.filters : ~Refused(q.filters[i])
       /\ walk' = [query |-> q, page |-> 1, missing |-> stages]
  /\ UNCHANGED <<boardVars, reading>>

\* The stages of the page, by id ...
ReadStages ==
  /\ walk # Absent /\ reading.shown = Absent
  /\ reading' = [reading EXCEPT !.shown = Page(stages, walk.page, walk.query.sort)]
  /\ UNCHANGED <<boardVars, walk>>

\* ... then, for the same result, the first cases of each ...
ReadCases ==
  /\ walk # Absent /\ reading.shown # Absent /\ reading.cases = Absent
  /\ reading' = [reading EXCEPT !.cases =
                   [s \in reading.shown |-> Smaller(CaseLimit, Cardinality(Matching(s)))]]
  /\ UNCHANGED <<boardVars, walk>>

\* (mutant) The number of cases is the one kept with the stage.
ReadCaseCount ==
  /\ walk # Absent /\ reading.counts = Absent
  /\ reading' = [reading EXCEPT !.counts = [s \in StageIds |-> count[s]]]
  /\ UNCHANGED <<boardVars, walk>>

\* ... and at any time the number of cases of each stage, by groupBy: what the
\* column caseCount says is not used.
ReadCounts ==
  /\ walk # Absent /\ reading.counts = Absent
  /\ reading' = [reading EXCEPT !.counts = [s \in StageIds |-> Cardinality(Matching(s))]]
  /\ UNCHANGED <<boardVars, walk>>

Complete == reading.cases # Absent /\ reading.counts # Absent
LastPage == Cardinality(reading.shown) < PageLimit

\* The page is answered; the client asks for the next, or has come to the end.
AnswerPage ==
  /\ Complete
  /\ walk' = IF LastPage THEN Absent
             ELSE [walk EXCEPT !.page = @ + 1, !.missing = @ \ reading.shown]
  /\ reading' = Unread
  /\ UNCHANGED boardVars

\* The client asks for no more, or a statement fails.
WalkEnds ==
  /\ walk # Absent
  /\ walk' = Absent /\ reading' = Unread
  /\ UNCHANGED boardVars

\* While one of the two statements about cases has been answered, the cases that
\* come to another stage are counted.
Between == (reading.cases = Absent) # (reading.counts = Absent)
Moved == Cardinality({c \in Cases : at'[c] # at[c]})

BoardChanges ==
  /\ BoardNext
  /\ (walk # Absent => Busy' <= MaxBusy)
  /\ reading' = IF Between THEN [reading EXCEPT !.moved = @ + Moved] ELSE reading
  /\ reading'.moved <= MaxMoved
  /\ walk' = IF walk # Absent /\ ~(stages \subseteq stages')
               THEN [walk EXCEPT !.missing = {}] ELSE walk

ViewNext ==
  BoardChanges \/ StartWalk \/ ReadStages \/ ReadCases \/ ReadCounts \/ AnswerPage \/ WalkEnds

ViewSpec == ViewInit /\ [][ViewNext]_viewVars

-----------------------------------------------------------------------------

\* The number of cases shown of a stage and the number beside its title, which
\* different statements have read, disagree by no more than the cases that changed
\* stage between the two.
CountsWithinMoves ==
  Complete =>
    \A s \in reading.shown :
      LET counted == Smaller(CaseLimit, reading.counts[s])
      IN Larger(counted - reading.cases[s], reading.cases[s] - counted) <= reading.moved

\* A client that goes through all pages has seen every stage that was there when it
\* began, whatever stages are added on the way; only a removal can move a stage
\* from a page still to come to one already read.
NoStageMissed ==
  walk # Absent /\ reading.shown # Absent /\ LastPage => walk.missing \subseteq reading.shown
=============================================================================
