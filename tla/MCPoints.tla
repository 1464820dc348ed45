------------------------------ MODULE MCPoints ------------------------------
(***************************************************************************)
(* A donor of the caller's organization and one of another; a rule that    *)
(* may be used once, in one instant only, and rules that are refused.      *)
(***************************************************************************)
EXTENDS PointsLedger

CONSTANTS r1, r2, r3

MCOrgs == {"here", "there"}
MCCallerOrgSets == {{"here"}}
MCDonors == {"ali", "stranger"}
MCDonorOrg == [d \in MCDonors |-> IF d = "stranger" THEN "there" ELSE "here"]
MCInitialPoints == [d \in MCDonors |-> 10]

MCRules == {"once", "off", "theirs"}
MCRuleOrg == [x \in MCRules |-> IF x = "theirs" THEN "there" ELSE "here"]
MCRuleActive == [x \in MCRules |-> x # "off"]
MCTimes == {1, 2, 3}
MCRuleStart == [x \in MCRules |-> IF x = "once" THEN 2 ELSE NULL]
MCRuleEnd == [x \in MCRules |-> IF x = "once" THEN 2 ELSE NULL]
MCRuleCap == [x \in MCRules |-> IF x = "once" THEN 1 ELSE NULL]
MCDeltas == {5, -2}

=============================================================================
