---------------------------- MODULE MCApprovals ----------------------------
(***************************************************************************)
(* One purchase submitted before, and a request no chain is left for.      *)
(* While the chain "main" is active it asks a manager, then anybody; else  *)
(* the chain of the north branch asks the agent.                           *)
(***************************************************************************)
EXTENDS ApprovalDecisions, TLC

CONSTANTS r1, r2, r3

\* "agent" is a manager, but in another organization.
MCUsers == {"lead", "agent"}
MCOrgs == {"here", "there"}
MCUserOrgs == [u \in MCUsers |-> IF u = "agent" THEN MCOrgs ELSE {"here"}]
MCUserRoles ==
  [u \in MCUsers |-> [o \in MCOrgs |->
    IF <<u, o>> \in {<<"lead", "here">>, <<"agent", "there">>} THEN {"manager"} ELSE {}]]

MCTypes == {"purchase", "closed"}
MCTypeOrg == [t \in MCTypes |-> "here"]
MCTypeActive == [t \in MCTypes |-> t # "closed"]
MCTypeEntity == [t \in MCTypes |-> "order"]
MCEntityTypes == {"order"}

MCChains == {"main", "north"}
MCChainOrg == [c \in MCChains |-> "here"]
MCChainType == [c \in MCChains |-> "purchase"]
MCChainEntity == [c \in MCChains |-> "order"]
MCChainBranch == [c \in MCChains |-> IF c = "main" THEN NULL ELSE "north"]
MCChainDefault == [c \in MCChains |-> c = "main"]
MCInitiallyActive == MCChains
MCSwitchable == {"main"}

MCSteps == {"note", "manage", "check", "sign"}
MCStepChain ==
  [s \in MCSteps |-> IF s = "sign" THEN "north" ELSE "main"]
MCStepOrder == [s \in MCSteps |-> CASE s = "note" -> 0 [] s = "check" -> 2 [] OTHER -> 1]
MCStepRequired == [s \in MCSteps |-> s # "note"]
MCStepUser == [s \in MCSteps |-> IF s = "sign" THEN "agent" ELSE NULL]
MCStepRole == [s \in MCSteps |-> IF s = "manage" THEN "manager" ELSE NULL]
MCSuppliedSteps == {NULL, "manage"}

\* The requests are interchangeable, and the properties checked are safety.
AnyOrder == Permutations({r1, r2, r3})

MCSubmitted ==
  [a \in {"before", "orphan"} |->
    [organization_id |-> "here", branch_id |-> NULL, entity_type |-> "order",
     approval_type_id |-> IF a = "before" THEN "purchase" ELSE "closed"]]

=============================================================================
