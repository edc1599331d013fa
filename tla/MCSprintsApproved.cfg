CONSTANTS
  Requests = {r1}
  MaxSprints = 2
  Tasks = {t1}
  Statuses = {"Todo", "Approved", "Done"}
  Design = FALSE
  Readd = FALSE
  MaxOpen = 2
SPECIFICATION Spec
SYMMETRY Symmetry
INVARIANT MembershipMatches
