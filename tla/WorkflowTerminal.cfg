\* Two advances that overlap: one of them ends the instance.
CONSTANTS
  r1 = r1
  r2 = r2
  r3 = r3
  r4 = r4
  Requests = {r1, r2, r3}
  NULL = NULL
  Orgs <- MCOrgs
  CallerOrgSets <- MCCallerOrgSets
  EntityTypes <- MCEntityTypes
  Templates <- MCTemplates
  TemplateOrg <- MCTemplateOrg
  TemplateActive <- MCTemplateActive
  TemplateEntity <- MCTemplateEntity
  Steps <- MCSteps
  StepTemplate <- MCStepTemplate
  SortOrder <- MCSortOrder
  InitialFlag <- MCInitialFlag
  TerminalFlag <- MCTerminalFlag
  Rules <- MCRules
  RuleTemplate <- MCRuleTemplate
  RuleFrom <- MCRuleFrom
  RuleTo <- MCRuleTo
  RuleActive <- MCRuleActive
  Automations <- MCFewAutomations
  AutomationOrg <- MCAutomationOrg
  AutomationActive <- MCAutomationActive

SPECIFICATION Spec
CHECK_DEADLOCK FALSE

PROPERTIES
  CompletedIsFinal
