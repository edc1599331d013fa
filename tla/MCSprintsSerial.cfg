CONSTANTS
  Requests = {r1}
  MaxSprints = 3
  Tasks = {t1, t2}
  Statuses = {"Todo", "Approved"}
  Design = TRUE
  Readd = FALSE
  MaxOpen = 2
SPECIFICATION Spec
SYMMETRY Symmetry
INVARIANTS
    MembershipHistory
    OneActive
PROPERTIES
    CompletedSealed
