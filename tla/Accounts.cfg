CONSTANTS
  Requests = {r1, r2}
  MaxToken = 3
  Rows = {d1, d2, l1, l2}
  Trashed = {d1, d2}
SPECIFICATION Spec
INVARIANTS StatusFitsInvitation
PROPERTIES TrashHidden AcceptanceIsFinal TrashedUntouched
SYMMETRY Symmetry
