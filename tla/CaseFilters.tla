------------------------------ MODULE CaseFilters ------------------------------
(***************************************************************************)
(* Which cases a search of the board selects: FilterQueryBuilderService,    *)
(* and the filters of cases/utils for single query parameters.              *)
(*                                                                          *)
(* A column of a case is the set of its values, empty for NULL: what SQL     *)
(* says of a comparison, which NULL never satisfies, is \E v \in column.     *)
(* Texts are sequences of letters, compared without regard to case.          *)
(*                                                                          *)
(* A condition has a field, an operator, value and values.  A value is the   *)
(* set of what it converts to: {} when it is missing or does not convert.    *)
(***************************************************************************)
EXTENDS Integers, SequencesExt

CONSTANT Absent   \* no values, or no answer yet
ASSUME AbsentIsNoValues == Absent \notin Seq(SUBSET Int)

\* Which columns there are, and which may be NULL.
Kind == [
  subjectName |-> "text",  caseSummary |-> "text",  incidentType |-> "text",
  address911 |-> "text",   callTime911 |-> "text",  state |-> "text",
  city |-> "text",         zip |-> "text",          casePriority |-> "text",
  age |-> "number",        stageId |-> "number",
  dueDate |-> "date",      incidentDate |-> "date", arrestDate |-> "date",
  createdAt |-> "date",    updatedAt |-> "date",
  caseSource |-> "enum",   priority |-> "enum",
  assigneeIds |-> "assignees"]

Fields == DOMAIN Kind
Nullable == {"caseSummary", "address911", "callTime911", "zip", "casePriority",
             "age", "stageId", "dueDate", "arrestDate"}

One(c) ==
  IF c.value # {} \/ c.values = Absent THEN c.value
  ELSE UNION {c.values[i] : i \in DOMAIN c.values \cap {1}}

Many(c) ==
  LET given == IF c.values = Absent THEN <<c.value>> ELSE c.values
  IN FlattenSeq([i \in DOMAIN given |-> SetToSeq(given[i])])

Is(c, operators) == c.operator \in operators

-----------------------------------------------------------------------------
(* One kind of column each: which conditions are used at all, the others     *)
(* being dropped without a word, and what a condition that is used selects.  *)

Emptiness == {"isEmpty", "isNotEmpty"}

TextUsed(c) ==
  \/ Is(c, Emptiness)
  \/ Is(c, {"equals", "notEquals", "contains", "startsWith", "endsWith"}) /\ One(c) # {}

TextSelects(c, column) ==
  \/ \E t \in column, v \in One(c) :
       \/ Is(c, {"equals"}) /\ t = v
       \/ Is(c, {"notEquals"}) /\ t # v
       \/ Is(c, {"contains"}) /\ v \in SubSeqs(t)
       \/ Is(c, {"startsWith"}) /\ IsPrefix(v, t)
       \/ Is(c, {"endsWith"}) /\ IsSuffix(v, t)
  \/ Is(c, {"isEmpty"}) /\ column \subseteq {<<>>}
  \/ Is(c, {"isNotEmpty"}) /\ ~(column \subseteq {<<>>})

Comparisons ==
  {"equals", "notEquals", "greaterThan", "greaterThanOrEqual", "lessThan", "lessThanOrEqual"}
Ranges == {"between", "notBetween"}

Compares(c, x, v) ==
  \/ Is(c, {"equals"}) /\ x = v
  \/ Is(c, {"notEquals"}) /\ x # v
  \/ Is(c, {"greaterThan"}) /\ x > v
  \/ Is(c, {"greaterThanOrEqual"}) /\ x >= v
  \/ Is(c, {"lessThan"}) /\ x < v
  \/ Is(c, {"lessThanOrEqual"}) /\ x <= v

\* (mutant) Outside the range is after its start and before its end, negated one by one.
WithinBoth(c, x) ==
  LET bound == Many(c)
  IN \/ Is(c, {"between"}) /\ bound[1] <= x /\ x <= bound[2]
     \/ Is(c, {"notBetween"}) /\ x < bound[1] /\ x > bound[2]

Within(c, x) ==
  LET bound == Many(c)
  IN \/ Is(c, {"between"}) /\ bound[1] <= x /\ x <= bound[2]
     \/ Is(c, {"notBetween"}) /\ (x < bound[1] \/ x > bound[2])

NumberUsed(c) ==
  \/ Is(c, Comparisons) /\ One(c) # {}
  \/ Is(c, {"in", "notIn"}) /\ Many(c) # <<>>
  \/ Is(c, Ranges) /\ Len(Many(c)) >= 2

NumberSelects(c, column) ==
  \E x \in column :
    \/ \E v \in One(c) : Compares(c, x, v)
    \/ Is(c, {"in"}) /\ x \in Range(Many(c))
    \/ Is(c, {"notIn"}) /\ x \notin Range(Many(c))
    \/ Is(c, Ranges) /\ Within(c, x)

DateUsed(c) ==
  \/ Is(c, Emptiness)
  \/ Is(c, Comparisons) /\ One(c) # {}
  \/ Is(c, Ranges) /\ Len(Many(c)) >= 2

DateSelects(c, column) ==
  \/ Is(c, {"isEmpty"}) /\ column = {}
  \/ Is(c, {"isNotEmpty"}) /\ column # {}
  \/ \E x \in column :
       \/ \E v \in One(c) : Compares(c, x, v)
       \/ Is(c, Ranges) /\ Within(c, x)

NoneOf == {"notEquals", "notIn", "notContainsAny", "notContainsAll"}
SomeOf == {"equals", "in", "contains", "containsAny", "containsAll"}

EnumUsed(c) == Is(c, NoneOf \cup SomeOf) /\ Many(c) # <<>>

EnumSelects(c, column) ==
  \E x \in column : Is(c, SomeOf) <=> x \in Range(Many(c))

\* Also "exists" and "notExists" are dropped without a value.
AssigneesUsed(c) ==
  /\ Is(c, NoneOf \cup SomeOf \cup {"exists", "notExists"}) /\ ~Is(c, {"contains"})
  /\ Many(c) # <<>>

\* (mutant) A case that lacks some of them lacks all of them.
AssigneesSelectNone(c, assignees) ==
  LET wanted == Range(Many(c))
  IN \/ Is(c, {"exists"}) /\ assignees # {}
     \/ Is(c, {"notExists"}) /\ assignees = {}
     \/ Is(c, {"equals", "in", "containsAny"}) /\ wanted \cap assignees # {}
     \/ Is(c, NoneOf) /\ wanted \cap assignees = {}
     \/ Is(c, {"containsAll"}) /\ wanted \subseteq assignees

AssigneesSelect(c, assignees) ==
  LET wanted == Range(Many(c))
  IN \/ Is(c, {"exists"}) /\ assignees # {}
     \/ Is(c, {"notExists"}) /\ assignees = {}
     \/ Is(c, {"equals", "in", "containsAny"}) /\ wanted \cap assignees # {}
     \/ Is(c, NoneOf \ {"notContainsAll"}) /\ wanted \cap assignees = {}
     \/ Is(c, {"containsAll"}) /\ wanted \subseteq assignees
     \/ Is(c, {"notContainsAll"}) /\ \E id \in wanted : id \notin assignees

-----------------------------------------------------------------------------
Used(c) ==
  LET kind == Kind[c.field]
  IN \/ kind = "text" /\ TextUsed(c)
     \/ kind = "number" /\ NumberUsed(c)
     \/ kind = "date" /\ DateUsed(c)
     \/ kind = "enum" /\ EnumUsed(c)
     \/ kind = "assignees" /\ AssigneesUsed(c)

Selects(c, column) ==
  LET kind == Kind[c.field]
  IN \/ kind = "text" /\ TextSelects(c, column)
     \/ kind = "number" /\ NumberSelects(c, column)
     \/ kind = "date" /\ DateSelects(c, column)
     \/ kind = "enum" /\ EnumSelects(c, column)
     \/ kind = "assignees" /\ AssigneesSelect(c, column)

\* Comparing a required column with null fails the whole query.
Refused(c) ==
  Is(c, Emptiness) /\ Used(c) /\ c.field \notin Nullable

DynamicWhere(filters, case) ==
  \A i \in DOMAIN filters : Used(filters[i]) => Selects(filters[i], case[filters[i].field])

-----------------------------------------------------------------------------
(* The query parameters of their own, {} when they are not given.            *)

CasesSearchFilter(search, case) ==
  \A text \in search \ {<<>>} :
    \E t \in case.subjectName \cup case.caseSummary : text \in SubSeqs(t)

\* (mutant) The last day is left out.
CreatedBefore(from, to, case) ==
  \E created \in case.createdAt : (\A d \in from : created >= d) /\ (\A d \in to : created < d)

CasesCreatedAtFilter(from, to, case) ==
  \E created \in case.createdAt : (\A d \in from : created >= d) /\ (\A d \in to : created <= d)

CasesPriorityFilter(priority, case) ==
  priority # {} => case.priority \subseteq priority

CasesAssigneeFilter(assigneeIds, case) ==
  assigneeIds # {} => case.assigneeIds \cap assigneeIds # {}

CasesPrTeamFilter(caseSource, case) ==
  caseSource # {} => case.caseSource \subseteq caseSource

LegacyWhere(q, case) ==
  /\ q.stageId # {} => case.stageId = q.stageId
  /\ CasesSearchFilter(q.search, case)
  /\ CasesCreatedAtFilter(q.createdAtFrom, q.createdAtTo, case)
  /\ CasesPriorityFilter(q.priority, case)
  /\ CasesAssigneeFilter(q.assigneeIds, case)
  /\ CasesPrTeamFilter(q.caseSource, case)

CaseWhere(q, case) == LegacyWhere(q, case) /\ DynamicWhere(q.filters, case)

NoParameters == [
  stageId |-> {}, search |-> {}, createdAtFrom |-> {}, createdAtTo |-> {},
  priority |-> {}, assigneeIds |-> {}, caseSource |-> {}, filters |-> <<>>, sort |-> "desc"]
=============================================================================
