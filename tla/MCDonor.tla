------------------------------ MODULE MCDonor -------------------------------
(***************************************************************************)
(* Two donors of one organization, in different branches; a status of      *)
(* another organization.  The first donor has a request already.           *)
(***************************************************************************)
EXTENDS DonorDesk, TLC

CONSTANTS r1, r2

MCDonor == [d \in {"dora", "omar"} |->
  [organization_id |-> "north", branch_id |-> IF d = "dora" THEN "main" ELSE NULL]]

MCStatusOrg == "new" :> "north" @@ "open" :> "north" @@ "other" :> "south"

\* A draft; no draft but one flagged, two flagged, none: the other
\* organization has its draft and sometimes the only flag.
MCStatusSettings ==
  {[drafts |-> {"new", "other"}, initials |-> {"open", "other"}],
   [drafts |-> {"other"}, initials |-> {"open"}],
   [drafts |-> {"other"}, initials |-> {"new", "open"}],
   [drafts |-> {"other"}, initials |-> {"other"}]}

\* A required column, and one that may be left out, such as is_default.
MCColumns == {"address", "default"}
MCValues == {"here", "there", "yes", NULL}
MCCreateBodies == {"address" :> "here"}
MCPatchBodies == {"address" :> "there", "default" :> "yes"}
MCOmitted == [k \in MCColumns |-> NULL]

MCData == "address" :> "here" @@ "default" :> NULL

MCOldLocations ==
  "lDora" :> [donor_id |-> "dora", organization_id |-> "north", data |-> MCData] @@
  "lOmar" :> [donor_id |-> "omar", organization_id |-> "north", data |-> MCData]

MCOldDonations ==
  "qDora" :> [donor_id |-> "dora", organization_id |-> "north", branch_id |-> "main",
              pickup_location_id |-> "lDora", current_status_id |-> "open"]

MCContacts ==
  "cDora" :> [donor_id |-> "dora", data |-> MCData] @@
  "cOmar" :> [donor_id |-> "omar", data |-> MCData]

\* The requests are interchangeable, and the properties checked are safety.
AnyOrder == Permutations({r1, r2})

=============================================================================
