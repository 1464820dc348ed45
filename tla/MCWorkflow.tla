----------------------------- MODULE MCWorkflow -----------------------------
(***************************************************************************)
(* A small organization for TLC: one running template with a choice, a     *)
(* loop and a terminal step that can be left again, and the broken or      *)
(* foreign configuration rows each early return of the services is about.  *)
(***************************************************************************)
EXTENDS WorkflowSerial

CONSTANTS r1, r2, r3, r4

MCOrgs == {"here", "there"}
MCCallerOrgSets == {{"here"}}
MCEntityTypes == {"donation_request", "sorting_session"}

\* "main" runs; "off" is inactive; "foreign" is another tenant's; "empty" has
\* no initial step.
MCTemplates == {"main", "off", "foreign", "empty"}
MCTemplateOrg == [t \in MCTemplates |-> IF t = "foreign" THEN "there" ELSE "here"]
MCTemplateActive == [t \in MCTemplates |-> t # "off"]
MCTemplateEntity == [t \in MCTemplates |-> "donation_request"]

\* "archive" is only the target of a rule that is not active; "elsewhere" is a
\* step of another template, which a foreign key cannot exclude.
MCSteps == {"start", "review", "end", "archive", "elsewhere"}
MCStepTemplate == [s \in MCSteps |-> IF s = "elsewhere" THEN "empty" ELSE "main"]
MCSortOrder == [s \in MCSteps |-> IF s = "start" THEN 1 ELSE 2]
MCInitialFlag == [s \in MCSteps |-> s \in {"start", "review"}]
MCTerminalFlag == [s \in MCSteps |-> s = "end"]

MCRules == {"submit", "skip", "back", "close", "stale", "broken"}
MCRuleTemplate == [x \in MCRules |-> "main"]
MCRuleFrom == [x \in MCRules |->
  CASE x \in {"submit", "skip"} -> "start"
    [] x \in {"back", "close", "broken"} -> "review"
    [] OTHER -> "start"]
MCRuleTo == [x \in MCRules |->
  CASE x = "submit" -> "review"
    [] x \in {"skip", "close"} -> "end"
    [] x = "back" -> "start"
    [] x = "broken" -> "elsewhere"
    [] OTHER -> "archive"]
MCRuleActive == [x \in MCRules |-> x # "stale"]

MCAutomations == {"mail", "retired", "theirs"}
MCFewAutomations == {"mail"}
MCAutomationOrg == [m \in Automations |-> IF m = "theirs" THEN "there" ELSE "here"]
MCAutomationActive == [m \in Automations |-> m # "retired"]

=============================================================================
