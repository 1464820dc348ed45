----------------------------- MODULE MCCourier -----------------------------
(***************************************************************************)
(* Two couriers, whom tasks are given to and taken from, and two columns   *)
(* of which a PATCH may set either.                                        *)
(***************************************************************************)
EXTENDS CourierDesk, TLC

CONSTANTS r1, r2, r3, first, second

MCColumns == {"intake_status", "courier_notes"}
MCValues == {"received", "checked", "text", NULL}
MCCreateBodies == {"intake_status" :> "received"}
MCPatchBodies == {"intake_status" :> "checked", "courier_notes" :> "text", "courier_notes" :> NULL}
MCOmitted == [k \in MCColumns |-> NULL]
MCInitialAssignments == Couriers \X Tasks

\* Requests and couriers are interchangeable, and the properties checked are
\* safety.
AnyOrder == Permutations({r1, r2, r3}) \cup Permutations({first, second})

=============================================================================
