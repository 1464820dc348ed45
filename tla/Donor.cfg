\* Two requests of any kind of two donors, while their statuses are edited.
CONSTANTS
  r1 = r1
  r2 = r2
  Requests = {r1, r2}
  NULL = NULL
  Orgs = {"north", "south"}
  Branches = {"main"}
  Donors = {"dora", "omar"}
  Donor <- MCDonor
  Statuses = {"new", "open", "other"}
  StatusOrg <- MCStatusOrg
  StatusSettings <- MCStatusSettings
  Columns <- MCColumns
  Values <- MCValues
  CreateBodies <- MCCreateBodies
  PatchBodies <- MCPatchBodies
  Omitted <- MCOmitted
  OldDonations <- MCOldDonations
  OldLocations <- MCOldLocations
  Contacts <- MCContacts

SPECIFICATION Spec
CHECK_DEADLOCK FALSE
SYMMETRY AnyOrder

INVARIANTS
  TypeOK
  DeskHangsTogether
PROPERTIES
  WritesStayWithTheDonor
  RequestsStartInitial
