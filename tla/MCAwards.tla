------------------------------ MODULE MCAwards ------------------------------
(***************************************************************************)
(* Two organizations, a caller who serves one and a caller who serves      *)
(* both, and a foreign, an inactive or a mismatched row of every kind.     *)
(***************************************************************************)
EXTENDS RecognitionAwards, TLC

CONSTANTS r1, r2, r3

MCOrgs == {"here", "there"}
MCCallerOrgSets == {{"here"}, {"here", "there"}}
MCDonors == {"giver", "visitor"}
MCDonorOrg == [d \in MCDonors |-> IF d = "giver" THEN "here" ELSE "there"]

MCBadges == {"kind", "past", "far"}
MCBadgeOrg == [b \in MCBadges |-> IF b = "far" THEN "there" ELSE "here"]
MCBadgeActive == [b \in MCBadges |-> b # "past"]

MCTemplates == {"thanks", "annual", "withdrawn", "abroad"}
MCTemplateOrg == [t \in MCTemplates |-> IF t = "abroad" THEN "there" ELSE "here"]
MCTemplateActive == [t \in MCTemplates |-> t # "withdrawn"]

MCRules == {"yearly", "void", "foreign"}
MCRuleOrg == [x \in MCRules |-> IF x = "foreign" THEN "there" ELSE "here"]
MCRuleActive == [x \in MCRules |-> x # "void"]
MCRuleTemplate == [x \in MCRules |-> IF x = "foreign" THEN "abroad" ELSE "annual"]

MCAttachments == {"scan"}
MCAttachmentOrg == [a \in MCAttachments |-> "here"]

\* The requests are interchangeable, and the properties checked are safety.
AnyOrder == Permutations({r1, r2, r3})

=============================================================================
