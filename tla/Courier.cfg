\* Three requests of two couriers about one task, assigned at any time.
CONSTANTS
  r1 = r1
  r2 = r2
  r3 = r3
  first = first
  second = second
  Requests = {r1, r2, r3}
  NULL = NULL
  Couriers = {first, second}
  Tasks = {"pickup"}
  Columns <- MCColumns
  CreateBodies <- MCCreateBodies
  PatchBodies <- MCPatchBodies
  Values <- MCValues
  Omitted <- MCOmitted
  InitialAssignments <- MCInitialAssignments

SPECIFICATION CourierSpec
CHECK_DEADLOCK FALSE
SYMMETRY AnyOrder

INVARIANTS
  CourierTypeOK
  DuplicatesOnlyByOverlap
  UndisturbedReportsAddUp
PROPERTIES
  PatchesTouchTheirOwn
  DuplicatesAreFrozen
