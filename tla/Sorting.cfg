\* Two requests of any kind on a floor with rows of two organizations.
CONSTANTS
  r1 = r1
  r2 = r2
  Requests = {r1, r2}
  NULL = NULL
  Orgs <- MCOrgs
  CallerOrgSets <- MCCallerOrgSets
  DonationRequests = {"qN", "qS"}
  RequestOrg <- MCRequestOrg
  Intakes = {"iN", "iS"}
  IntakeOrg <- MCIntakeOrg
  IntakeRequest <- MCIntakeRequest
  Columns <- MCColumns
  Values <- MCValues
  CreateBodies <- MCCreateBodies
  PatchBodies <- MCPatchBodies
  Omitted <- MCOmitted
  IntakeDefaults <- MCIntakeDefaults
  OldSessions <- MCOldSessions
  OldItems <- MCOldItems
  OldReviews <- MCOldReviews

SPECIFICATION Spec
CHECK_DEADLOCK FALSE
SYMMETRY AnyOrder

INVARIANTS
  TypeOK
  FloorHangsTogether
PROPERTIES
  WritesStayInCallersOrgs
  HistoryIsOnlyPatched
