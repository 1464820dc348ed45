\* Two overlapping submissions of one user.
CONSTANTS
  r1 = r1
  r2 = r2
  r3 = r3
  Requests = {r1, r2}
  NULL = NULL
  Branches = {"north"}
  Users <- MCUsers
  UserOrgs <- MCUserOrgs
  UserRoles <- MCUserRoles
  Orgs <- MCOrgs
  Types <- MCTypes
  TypeOrg <- MCTypeOrg
  TypeActive <- MCTypeActive
  TypeEntity <- MCTypeEntity
  EntityTypes <- MCEntityTypes
  Chains <- MCChains
  ChainOrg <- MCChainOrg
  ChainType <- MCChainType
  ChainEntity <- MCChainEntity
  ChainBranch <- MCChainBranch
  ChainDefault <- MCChainDefault
  InitiallyActive <- MCInitiallyActive
  Switchable <- MCSwitchable
  Steps <- MCSteps
  StepChain <- MCStepChain
  StepOrder <- MCStepOrder
  StepRequired <- MCStepRequired
  StepUser <- MCStepUser
  StepRole <- MCStepRole
  SuppliedSteps <- MCSuppliedSteps
  Submitted <- MCSubmitted

SPECIFICATION Spec
CHECK_DEADLOCK FALSE

INVARIANT
  OneDecisionPerUser
