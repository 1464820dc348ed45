\* Up to four requests, one at a time: an instance can go round the loop and end.
CONSTANTS
  r1 = r1
  r2 = r2
  r3 = r3
  r4 = r4
  Requests = {r1, r2, r3, r4}
  NULL = NULL
  Orgs <- MCOrgs
  CallerOrgSets <- MCCallerOrgSets
  EntityTypes <- MCEntityTypes
  Templates <- MCTemplates
  TemplateOrg <- MCTemplateOrg
  TemplateActive <- MCTemplateActive
  TemplateEntity <- MCTemplateEntity
  Steps <- MCSteps
  StepTemplate <- MCStepTemplate
  SortOrder <- MCSortOrder
  InitialFlag <- MCInitialFlag
  TerminalFlag <- MCTerminalFlag
  Rules <- MCRules
  RuleTemplate <- MCRuleTemplate
  RuleFrom <- MCRuleFrom
  RuleTo <- MCRuleTo
  RuleActive <- MCRuleActive
  Automations <- MCAutomations
  AutomationOrg <- MCAutomationOrg
  AutomationActive <- MCAutomationActive

SPECIFICATION SerialSpec
CHECK_DEADLOCK FALSE

INVARIANTS
  OneOpenStep
PROPERTIES
  MovesTheToken
