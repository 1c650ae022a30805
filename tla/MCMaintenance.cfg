SPECIFICATION MaintenanceSpec
CONSTANTS
  w1 = w1
  w2 = w2
  o1 = o1
  o2 = o2
  o3 = o3
  Writers = {w1, w2}
  Operators = {o1, o2, o3}
  MaxMishaps = 2
SYMMETRY Symmetry
INVARIANTS GateFollowsTables OneRestore NothingLostUnseen ArchivesSound
CHECK_DEADLOCK FALSE
