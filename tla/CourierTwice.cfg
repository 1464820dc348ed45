\* Two overlapping POSTs.
CONSTANTS
  r1 = r1
  r2 = r2
  r3 = r3
  first = first
  second = second
  Requests = {r1, r2}
  NULL = NULL
  Couriers = {first, second}
  Tasks = {"pickup", "return"}
  Columns <- MCColumns
  CreateBodies <- MCCreateBodies
  PatchBodies <- MCPatchBodies
  Values <- MCValues
  Omitted <- MCOmitted
  InitialAssignments <- MCInitialAssignments

SPECIFICATION CourierSpec
CHECK_DEADLOCK FALSE

INVARIANT
  OneIntakePerTask
