----------------------------- MODULE MCSorting -----------------------------
(***************************************************************************)
(* Two organizations, each with a request, its intake, and a session with  *)
(* one item; a session of the first has a review task.                     *)
(***************************************************************************)
EXTENDS SortingFloor, TLC

CONSTANTS r1, r2

MCOrgs == {"north", "south"}
MCCallerOrgSets == {{"north"}, {"south"}, MCOrgs}
MCRequestOrg == [q \in {"qN", "qS"} |-> IF q = "qN" THEN "north" ELSE "south"]
MCIntakeOrg == [i \in {"iN", "iS"} |-> IF i = "iN" THEN "north" ELSE "south"]
MCIntakeRequest == [i \in {"iN", "iS"} |-> IF i = "iN" THEN "qN" ELSE "qS"]

\* A required column, and a nullable reference such as the branch.
MCColumns == {"status", "ref"}
MCValues == {"pending", "done", "first", NULL}
MCCreateBodies == {"status" :> "pending"}
MCPatchBodies == {"status" :> "done", "ref" :> NULL}
MCOmitted == [k \in MCColumns |-> NULL]
MCIntakeDefaults == [i \in {"iN", "iS"} |-> "status" :> NULL @@ "ref" :> "first"]

MCData == "status" :> "pending" @@ "ref" :> "first"

MCOldSessions ==
  "sN" :> [organization_id |-> "north", donation_request_id |-> "qN",
           intake_record_id |-> "iN", data |-> MCData] @@
  "sS" :> [organization_id |-> "south", donation_request_id |-> "qS",
           intake_record_id |-> "iS", data |-> MCData]

MCOldItems ==
  "tN" :> [sorting_session_id |-> "sN", data |-> MCData] @@
  "tS" :> [sorting_session_id |-> "sS", data |-> MCData]

MCOldReviews == "vS" :> [sorting_session_id |-> "sS", data |-> MCData]

\* The requests are interchangeable, and the properties checked are safety.
AnyOrder == Permutations({r1, r2})

=============================================================================
