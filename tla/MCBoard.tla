-------------------------------- MODULE MCBoard --------------------------------
(* The board for TLC: what the client asks for, and the sample conditions and    *)
(* cases over which the filters are compared with each other.                   *)
EXTENDS BoardViews

Condition(field, operator, value, values) ==
  [field |-> field, operator |-> operator, value |-> value, values |-> values]

\* All stages from the last to the first, and from the first to the last without
\* the cases of stage 1 and those that are in no stage.
SearchQueries == {
  NoParameters,
  [NoParameters EXCEPT !.sort = "asc",
                       !.filters = <<Condition("stageId", "notEquals", {1}, Absent)>>]}

-----------------------------------------------------------------------------

Texts == {<<>>, <<1>>, <<1, 2>>, <<2, 1>>}
Numbers == 0..2
AtMostOne(S) == {{}} \cup {{x} : x \in S}

Values(field) == IF Kind[field] = "text" THEN Texts \ {<<>>} ELSE Numbers
Columns(field) ==
  LET some == {{x} : x \in IF Kind[field] = "text" THEN Texts ELSE Numbers}
  IN IF field = "assigneeIds" THEN SUBSET Numbers
     ELSE some \cup (IF field \in Nullable THEN {{}} ELSE {})

\* One field of each kind, and both a required and a nullable column where the
\* kind has both.
SampleFields ==
  {"subjectName", "caseSummary", "age", "createdAt", "dueDate", "priority", "assigneeIds"}

Conditions(field, operators) ==
  {Condition(field, op, v, vs) :
     op \in operators, v \in AtMostOne(Values(field)),
     vs \in {Absent} \cup SeqOf(AtMostOne(Values(field)), 2)}

Opposite == [
  notEquals |-> "equals", notIn |-> "in", notBetween |-> "between",
  isNotEmpty |-> "isEmpty", notExists |-> "exists",
  notContainsAny |-> "containsAny", notContainsAll |-> "containsAll"]

Positive(c) == [c EXCEPT !.operator = Opposite[c.operator]]

NegativeConditions == UNION {Conditions(field, DOMAIN Opposite) : field \in SampleFields}

OppositesUsedAlike == \A c \in NegativeConditions : Used(c) <=> Used(Positive(c))

OppositesSplit ==
  \A c \in NegativeConditions :
    Used(c) /\ ~Refused(c) =>
      \A column \in Columns(c.field) :
        Selects(c, column) <=>
          /\ ~Selects(Positive(c), column)
          /\ column # {} \/ c.field = "assigneeIds" \/ Is(c, Emptiness)

\* A negative condition is dropped exactly when its opposite is, and otherwise
\* selects what the opposite leaves out of the cases that have a value in the
\* column; a case has assignees, or none, but never an unknown number of them.
NegationsComplement == [][OppositesUsedAlike /\ OppositesSplit]_viewVars

SomeCase == [f \in Fields |-> IF Kind[f] = "text" THEN {<<1>>} ELSE {1}]
Elements(S) == SetToSeq({{x} : x \in S})

Same(q, conditions) ==
  \A f \in {"createdAt", "priority", "assigneeIds", "stageId", "caseSource"} :
    \A column \in Columns(f) :
      LET case == [SomeCase EXCEPT ![f] = column]
      IN LegacyWhere(q, case) <=> DynamicWhere(conditions, case)

SameDates ==
  \A from, to \in AtMostOne(Numbers) :
    Same([NoParameters EXCEPT !.createdAtFrom = from, !.createdAtTo = to],
         IF from # {} /\ to # {}
           THEN <<Condition("createdAt", "between", {}, <<from, to>>)>>
           ELSE <<Condition("createdAt", "greaterThanOrEqual", from, Absent),
                  Condition("createdAt", "lessThanOrEqual", to, Absent)>>)

SameChoices ==
  /\ \A S \in SUBSET Numbers :
       /\ Same([NoParameters EXCEPT !.priority = S],
               <<Condition("priority", "in", {}, Elements(S))>>)
       /\ Same([NoParameters EXCEPT !.caseSource = S],
               <<Condition("caseSource", "containsAny", {}, Elements(S))>>)
       /\ Same([NoParameters EXCEPT !.assigneeIds = S],
               <<Condition("assigneeIds", "containsAny", {}, Elements(S))>>)
  /\ \A s \in AtMostOne(Numbers) :
       Same([NoParameters EXCEPT !.stageId = s], <<Condition("stageId", "equals", s, Absent)>>)

\* A filter has two ways into a search, a query parameter and a condition; the two
\* select the same cases.
ParametersAgree == [][SameDates /\ SameChoices]_viewVars
=============================================================================
