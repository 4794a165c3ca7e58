--------------------------- MODULE SoftDeleteFilter ---------------------------
(***************************************************************************)
(* The Prisma extension that hides trashed rows: how it rewrites the        *)
(* arguments of each operation, and which rows the rewritten operation      *)
(* reaches.  A where is what it says of isDeleted, the rows that satisfy    *)
(* its other fields, and its AND, a sequence of such wheres.                *)
(***************************************************************************)
EXTENDS Integers, Sequences

CONSTANTS
  Rows,     \* rows of a table that has isDeleted
  Trashed   \* those whose isDeleted is true

ASSUME TrashedAreRows == Trashed \subseteq Rows

\* Prisma ignores a field that is undefined.
Where(isDeleted, rest, and) == [isDeleted |-> isDeleted, rest |-> rest, and |-> and]
Flags == {"undefined", "false", "true", "INCLUDE_SOFT_DELETED"}

Flagged(flag) ==
  CASE flag = "true" -> Trashed
    [] flag = "false" -> Rows \ Trashed
    [] flag = "undefined" -> Rows

Reaches(w) ==
  {r \in w.rest : /\ r \in Flagged(w.isDeleted)
                  /\ \A i \in DOMAIN w.and : r \in w.and[i].rest \cap Flagged(w.and[i].isDeleted)}

HasExplicit(w) == w.isDeleted # "undefined"

StripSentinel(w) ==
  IF w.isDeleted = "INCLUDE_SOFT_DELETED" THEN [w EXCEPT !.isDeleted = "undefined"] ELSE w

InjectSoftDeleteFilter(w) ==
  IF HasExplicit(w) THEN StripSentinel(w) ELSE [w EXCEPT !.isDeleted = "false"]

NotTrashed == Where("false", Rows, <<>>)

\* (mutant) The clause replaces those that are there.
InjectReplacingAnd(w) ==
  IF HasExplicit(w) THEN StripSentinel(w) ELSE [w EXCEPT !.and = <<NotTrashed>>]

InjectSoftDeleteFilterViaAnd(w) ==
  IF HasExplicit(w) THEN StripSentinel(w) ELSE [w EXCEPT !.and = Append(@, NotTrashed)]

Direct == {"findFirst", "findFirstOrThrow", "findMany", "count", "aggregate", "groupBy", "updateMany"}
ViaAnd == {"findUnique", "findUniqueOrThrow", "upsert", "update"}
Deleting == [delete |-> "update", deleteMany |-> "updateMany"]
Operations == Direct \cup ViaAnd \cup DOMAIN Deleting

\* The where with which an operation other than delete gets to Prisma.
Filtered(op, w) ==
  IF op \in Direct THEN InjectSoftDeleteFilter(w) ELSE InjectSoftDeleteFilterViaAnd(w)

\* delete and deleteMany are updates of their own, which the extension sees again.
Rewritten(op, w) ==
  IF op \in DOMAIN Deleting THEN Filtered(Deleting[op], [w EXCEPT !.isDeleted = "false"])
                            ELSE Filtered(op, w)

\* An upsert that reaches no row creates one, whether or not a trashed row has its key.
Creates(w) == Reaches(Rewritten("upsert", w)) = {}

-----------------------------------------------------------------------------
AskedFor(w) == {r \in w.rest : \A i \in DOMAIN w.and : r \in w.and[i].rest}

Conditions == {Where("undefined", rest, <<>>) : rest \in SUBSET Rows}
Wheres ==
  {Where(flag, rest, and) : flag \in Flags, rest \in SUBSET Rows,
                            and \in UNION {[1..n -> Conditions] : n \in 0..2}}

DeletesOnce ==
  \A op \in DOMAIN Deleting, w \in Wheres : Reaches(Rewritten(op, w)) = AskedFor(w) \ Trashed

ReachesAsAsked ==
  \A op \in Operations \ DOMAIN Deleting, w \in Wheres :
    Reaches(Rewritten(op, w)) =
      CASE w.isDeleted = "INCLUDE_SOFT_DELETED" -> AskedFor(w)
        [] w.isDeleted = "true" -> AskedFor(w) \cap Trashed
        [] OTHER -> AskedFor(w) \ Trashed
=============================================================================
