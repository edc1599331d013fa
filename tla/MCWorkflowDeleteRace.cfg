CONSTANTS
  Requests = {r1, r2}
  StatusIds = {s1, s2, s3, s4}
  ColumnIds = {c1, c2, c3}
  Tasks = {t1}
  None = None
  Names <- AllNames
  PresetNames <- Generic
  PresetFirst = "Todo"
  PresetDone <- GenericDone
  PresetEdges <- GenericEdges
  Ops = {"create", "changeStatus", "deleteStatus"}
  Creations <- NoCreations
  Patches <- NoPatches
  EdgeSets <- NoEdgeSets
SPECIFICATION Spec
SYMMETRY Symmetry
INVARIANT TasksHaveStatus
