CONSTANTS
  Requests = {r1}
  StatusIds = {s1, s2, s3}
  ColumnIds = {c1, c2, c3}
  Tasks = {t1, t2}
  None = None
  Names <- AllNames
  PresetNames <- Generic
  PresetFirst = "Todo"
  PresetDone <- GenericDone
  PresetEdges <- GenericEdges
  Ops <- AllOps
  Creations <- CustomInitial
  Patches <- RenameMoveOrMakeInitial
  EdgeSets <- OpenEdges
SPECIFICATION Spec
SYMMETRY Symmetry
INVARIANTS
    TypeOK
    TasksHaveStatus
    WorkflowSound
PROPERTIES
    ParentGate
    NoNewGhostEdge
