\* Three awards, to the same or to different donors, in every overlap.
CONSTANTS
  r1 = r1
  r2 = r2
  r3 = r3
  Requests = {r1, r2, r3}
  NULL = NULL
  Orgs <- MCOrgs
  CallerOrgSets <- MCCallerOrgSets
  Donors <- MCDonors
  DonorOrg <- MCDonorOrg
  InitialPoints <- MCInitialPoints
  Rules <- MCRules
  RuleOrg <- MCRuleOrg
  RuleActive <- MCRuleActive
  RuleStart <- MCRuleStart
  RuleEnd <- MCRuleEnd
  RuleCap <- MCRuleCap
  Times <- MCTimes
  Deltas <- MCDeltas

SPECIFICATION Spec
CHECK_DEADLOCK FALSE

INVARIANTS
  TypeOK
  LedgerChains
  CounterAccountsForAwards
  CapHoldsWithoutOverlap
