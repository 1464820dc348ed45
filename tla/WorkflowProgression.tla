------------------------ MODULE WorkflowProgression ------------------------
(***************************************************************************)
(* The workflow engine: POST /ops/workflow-instances (create) and          *)
(* POST /ops/workflow-instances/[id]/advance, run by concurrent requests   *)
(* against a database without transactions.                                *)
(*                                                                         *)
(* Every awaited repository call that reads a table some request writes,   *)
(* or that writes one, is an action of its own; reads of the configuration *)
(* tables (templates, steps, transition rules, automation actions), which  *)
(* no request writes, are merged with the call next to them.  A request    *)
(* creates at most one row of each table, so the id of a row is the        *)
(* request that inserted it.  Timestamps are abstracted to whether they    *)
(* are set, except created_at of a step instance, which orders a query.    *)
(***************************************************************************)
EXTENDS Naturals

CONSTANTS
  Requests,          \* the HTTP requests that may arrive, and the rows they insert
  NULL,              \* SQL null, a missing row, an omitted body field
  Orgs,              \* organizations
  CallerOrgSets,     \* the organizationIds an ops caller may have
  EntityTypes,       \* workflow_templates.entity_type
  Templates, TemplateOrg, TemplateActive, TemplateEntity,
  Steps, StepTemplate, SortOrder, InitialFlag, TerminalFlag,
  Rules, RuleTemplate, RuleFrom, RuleTo, RuleActive,
  Automations, AutomationOrg, AutomationActive

(* The configuration is what the foreign keys and column types allow: a    *)
(* rule may even point to a step of another template.                      *)
ASSUME ConfigAssumption ==
  /\ CallerOrgSets \subseteq SUBSET Orgs
  /\ TemplateOrg \in [Templates -> Orgs]
  /\ TemplateActive \in [Templates -> BOOLEAN]
  /\ TemplateEntity \in [Templates -> EntityTypes]
  /\ StepTemplate \in [Steps -> Templates]
  /\ SortOrder \in [Steps -> Nat]
  /\ InitialFlag \in [Steps -> BOOLEAN]
  /\ TerminalFlag \in [Steps -> BOOLEAN]
  /\ RuleTemplate \in [Rules -> Templates]
  /\ RuleFrom \in [Rules -> Steps]
  /\ RuleTo \in [Rules -> Steps]
  /\ RuleActive \in [Rules -> BOOLEAN]
  /\ AutomationOrg \in [Automations -> Orgs]
  /\ AutomationActive \in [Automations -> BOOLEAN]

ASSUME NullAssumption ==
  /\ NULL \notin Requests
  /\ NULL \notin Rules
  /\ NULL \notin Automations
  /\ NULL \notin Steps

VARIABLES
  instances,       \* workflow_instances, by id
  stepInstances,   \* workflow_step_instances, by id
  actionLogs,      \* workflow_action_logs, by id
  clock,           \* number of step instances inserted: the next created_at
  pc,              \* the awaited call each request handler is suspended at
  initialStep,     \* createWorkflowInstance's local of that name
  call,            \* what advanceWorkflowInstance keeps across its awaits
  answer           \* the response a request got

tables == <<instances, stepInstances, actionLogs, clock>>
vars == <<instances, stepInstances, actionLogs, clock, pc, initialStep, call, answer>>

-----------------------------------------------------------------------------
(* Rows, handler locals and responses.                                     *)

InstanceRow ==
  [template : Templates, current_step_id : Steps,
   completed_at : BOOLEAN, cancelled_at : BOOLEAN]

StepInstanceRow ==
  [workflow_instance_id : Requests, workflow_step_id : Steps,
   completed_at : BOOLEAN, result_code : Rules \cup {NULL}, created_at : Nat]

ActionLogRow ==
  [workflow_instance_id : Requests, workflow_step_instance_id : Requests,
   automation_action_id : Automations]

\* advanceWorkflowInstance: the caller's organizations, the instance, the
\* picked rule, the optional automation action, the step instance to complete.
AdvanceCall ==
  [orgs : SUBSET Orgs, instance : Requests, rule : Rules,
   automation : Automations \cup {NULL}, outgoing : Requests \cup {NULL}]

PcAdvance == {"find_active", "mark_completed", "create_step_instance",
              "apply_advance", "log_action"}
PcAll == PcAdvance \cup {"idle", "create_initial_step_instance", "respond", "done"}

Errors == {"NOT_FOUND", "BAD_REQUEST", "CONFLICT", "DEPENDENCY_ERROR"}

ASSUME NullRowAssumption ==
  NULL \notin InstanceRow \cup StepInstanceRow \cup ActionLogRow \cup AdvanceCall

TypeOK ==
  /\ instances \in [Requests -> InstanceRow \cup {NULL}]
  /\ stepInstances \in [Requests -> StepInstanceRow \cup {NULL}]
  /\ actionLogs \in [Requests -> ActionLogRow \cup {NULL}]
  /\ clock \in Nat
  /\ pc \in [Requests -> PcAll]
  /\ initialStep \in [Requests -> Steps \cup {NULL}]
  /\ call \in [Requests -> AdvanceCall \cup {NULL}]
  /\ answer \in [Requests -> Errors \cup {"none", "OK"}]

Init ==
  /\ instances = [i \in Requests |-> NULL]
  /\ stepInstances = [a \in Requests |-> NULL]
  /\ actionLogs = [l \in Requests |-> NULL]
  /\ clock = 0
  /\ pc = [r \in Requests |-> "idle"]
  /\ initialStep = [r \in Requests |-> NULL]
  /\ call = [r \in Requests |-> NULL]
  /\ answer = [r \in Requests |-> "none"]

-----------------------------------------------------------------------------
(* Repository queries and the pure rules of the domain layer.              *)

IsInstance(i) == i \in Requests /\ instances[i] # NULL

StepInstancesOf(i) ==
  {a \in Requests : /\ stepInstances[a] # NULL
                    /\ stepInstances[a].workflow_instance_id = i}

InitialStepsOf(t) == {s \in Steps : StepTemplate[s] = t /\ InitialFlag[s]}

FindInitialStep(t) ==
  {s \in InitialStepsOf(t) : \A u \in InitialStepsOf(t) : SortOrder[s] <= SortOrder[u]}

\* Mutant: the query forgets is_active.
ListOutgoing_AnyRule(t, s) ==
  {x \in Rules : RuleTemplate[x] = t /\ RuleFrom[x] = s}

ListActiveOutgoing(t, s) ==
  {x \in Rules : RuleTemplate[x] = t /\ RuleFrom[x] = s /\ RuleActive[x]}

\* The rule to fire, as a set: empty when the client has to disambiguate or
\* named a rule that is not an active outgoing one.
PickTransition(outgoing, requested) ==
  {x \in outgoing : IF requested = NULL THEN outgoing = {x} ELSE x = requested}

FindStepById(t, s) == {u \in Steps : StepTemplate[u] = t /\ u = s}

\* Mutant: cancellation is not terminal.
IsInstanceTerminal_CompletedOnly(row) == row.completed_at

IsInstanceTerminal(row) == row.completed_at \/ row.cancelled_at

\* Mutant: the query forgets the step.
OpenFor_AnyStep(i, s) == {a \in StepInstancesOf(i) : ~stepInstances[a].completed_at}

\* Open step instances of one step of an instance; the newest comes first.
OpenFor(i, s) ==
  {a \in StepInstancesOf(i) : /\ stepInstances[a].workflow_step_id = s
                              /\ ~stepInstances[a].completed_at}

FindActiveForStep(i, s) ==
  {a \in OpenFor(i, s) :
     \A b \in OpenFor(i, s) : stepInstances[b].created_at <= stepInstances[a].created_at}

TemplateVisible(t, orgs) == TemplateOrg[t] \in orgs

-----------------------------------------------------------------------------
(* Answering a request.                                                    *)

\* The handler ends: its locals are gone.
Respond(r, code) ==
  /\ pc' = [pc EXCEPT ![r] = "done"]
  /\ answer' = [answer EXCEPT ![r] = code]
  /\ call' = [call EXCEPT ![r] = NULL]

Await(r, next) ==
  /\ pc' = [pc EXCEPT ![r] = next]
  /\ UNCHANGED answer

NewStepInstance(i, s) ==
  [workflow_instance_id |-> i, workflow_step_id |-> s,
   completed_at |-> FALSE, result_code |-> NULL, created_at |-> clock]

InsertStepInstance(a, i, s) ==
  /\ stepInstances' = [stepInstances EXCEPT ![a] = NewStepInstance(i, s)]
  /\ clock' = clock + 1

-----------------------------------------------------------------------------
(* createWorkflowInstance                                                  *)

\* What the checks before the first write answer, in the code's order.
CreateRefusal(orgs, t, entity) ==
  CASE ~TemplateVisible(t, orgs)   -> "NOT_FOUND"
    [] TemplateVisible(t, orgs) /\ (~TemplateActive[t] \/ TemplateEntity[t] # entity)
                                   -> "BAD_REQUEST"
    [] OTHER -> IF FindInitialStep(t) = {} THEN "DEPENDENCY_ERROR" ELSE "none"

RefuseCreate(r) ==
  /\ pc[r] = "idle"
  /\ \E orgs \in CallerOrgSets, t \in Templates, entity \in EntityTypes :
       /\ CreateRefusal(orgs, t, entity) # "none"
       /\ Respond(r, CreateRefusal(orgs, t, entity))
  /\ UNCHANGED <<tables, initialStep>>

\* Mutant: the instance is created without a pointer, to be set later.
NewInstance_NullPointer(t, s) ==
  [template |-> t, current_step_id |-> NULL, completed_at |-> FALSE, cancelled_at |-> FALSE]

NewInstance(t, s) ==
  [template |-> t, current_step_id |-> s, completed_at |-> FALSE, cancelled_at |-> FALSE]

CreateInstance(r) ==
  /\ pc[r] = "idle"
  /\ \E orgs \in CallerOrgSets, t \in Templates, entity \in EntityTypes :
       /\ CreateRefusal(orgs, t, entity) = "none"
       /\ \E s \in FindInitialStep(t) :
            /\ instances' = [instances EXCEPT ![r] = NewInstance(t, s)]
            /\ initialStep' = [initialStep EXCEPT ![r] = s]
  /\ Await(r, "create_initial_step_instance")
  /\ UNCHANGED <<stepInstances, actionLogs, clock, call>>

CreateInitialStepInstance(r) ==
  /\ pc[r] = "create_initial_step_instance"
  /\ InsertStepInstance(r, r, initialStep[r])
  /\ Await(r, "respond")
  /\ UNCHANGED <<instances, actionLogs, initialStep, call>>

-----------------------------------------------------------------------------
(* advanceWorkflowInstance                                                 *)

\* What the checks before the first write answer, in the code's order, for
\* the instance row read by assertInstanceInCallerOrgs.
AdvanceRefusal(orgs, i, requested) ==
  IF ~IsInstance(i) \/ ~TemplateVisible(instances[i].template, orgs) THEN "NOT_FOUND"
  ELSE LET row == instances[i]
           outgoing == ListActiveOutgoing(row.template, row.current_step_id)
           picked == PickTransition(outgoing, requested)
       IN CASE IsInstanceTerminal(row) \/ row.current_step_id = NULL \/ outgoing = {}
                 -> "CONFLICT"
            [] ~IsInstanceTerminal(row) /\ outgoing # {} /\ picked = {}
                 -> IF requested = NULL THEN "CONFLICT" ELSE "BAD_REQUEST"
            [] OTHER
                 -> IF \E x \in picked : FindStepById(row.template, RuleTo[x]) = {}
                    THEN "DEPENDENCY_ERROR" ELSE "none"

RefuseAdvance(r) ==
  /\ pc[r] = "idle"
  /\ \E orgs \in CallerOrgSets, i \in Requests \ {r}, requested \in Rules \cup {NULL} :
       /\ AdvanceRefusal(orgs, i, requested) # "none"
       /\ Respond(r, AdvanceRefusal(orgs, i, requested))
  /\ UNCHANGED <<tables, initialStep>>

\* What the handler goes on with: the picked rule and the caller's options.
AcceptedCalls(orgs, i, requested, automation) ==
  {[orgs |-> orgs, instance |-> i, rule |-> x,
    automation |-> automation, outgoing |-> NULL] :
      x \in PickTransition(
              ListActiveOutgoing(instances[i].template, instances[i].current_step_id),
              requested)}

AcceptAdvance(r) ==
  /\ pc[r] = "idle"
  /\ \E orgs \in CallerOrgSets, i \in Requests \ {r},
        requested \in Rules \cup {NULL}, automation \in Automations \cup {NULL} :
       /\ AdvanceRefusal(orgs, i, requested) = "none"
       /\ \E c \in AcceptedCalls(orgs, i, requested, automation) :
            call' = [call EXCEPT ![r] = c]
  /\ Await(r, "find_active")
  /\ UNCHANGED <<tables, initialStep>>

\* The step the instance pointed to when the handler read it.
FromStep(c) == RuleFrom[c.rule]
ToStep(c) == RuleTo[c.rule]

\* Mutant: the insert is inside the if that completes the outgoing step.
AfterFind_SkipInsert(found) == IF found = {} THEN "apply_advance" ELSE "mark_completed"

\* Mutant: the handler waits for an open step instance to appear.
AfterFind_Wait(found) == IF found = {} THEN "find_active" ELSE "mark_completed"

AfterFind(found) == IF found = {} THEN "create_step_instance" ELSE "mark_completed"

FindActive(r) ==
  LET found == FindActiveForStep(call[r].instance, FromStep(call[r]))
  IN /\ pc[r] = "find_active"
     /\ \E a \in IF found = {} THEN {NULL} ELSE found :
          call' = [call EXCEPT ![r].outgoing = a]
     /\ Await(r, AfterFind(found))
     /\ UNCHANGED <<tables, initialStep>>

\* Mutant: completed_at is missing from the patch.
Completed_ResultOnly(row, x) == [row EXCEPT !.result_code = x]

Completed(row, x) == [row EXCEPT !.completed_at = TRUE, !.result_code = x]

\* An UPDATE by primary key: it does not ask whether the row is still open.
MarkCompleted(r) ==
  /\ pc[r] = "mark_completed"
  /\ stepInstances' = [stepInstances EXCEPT
       ![call[r].outgoing] = Completed(stepInstances[call[r].outgoing], call[r].rule)]
  /\ Await(r, "create_step_instance")
  /\ UNCHANGED <<instances, actionLogs, clock, initialStep, call>>

\* Mutant: the new step instance is for the step that was left.
CreateStepInstance_OldStep(r) ==
  /\ pc[r] = "create_step_instance"
  /\ InsertStepInstance(r, call[r].instance, FromStep(call[r]))
  /\ Await(r, "apply_advance")
  /\ UNCHANGED <<instances, actionLogs, initialStep, call>>

CreateStepInstance(r) ==
  /\ pc[r] = "create_step_instance"
  /\ InsertStepInstance(r, call[r].instance, ToStep(call[r]))
  /\ Await(r, "apply_advance")
  /\ UNCHANGED <<instances, actionLogs, initialStep, call>>

\* Mutant: the patch writes completed_at = null for a step that is not terminal.
Advanced_Clears(row, s) ==
  [row EXCEPT !.current_step_id = s, !.completed_at = TerminalFlag[s]]

\* completed_at is in the patch only when the destination is terminal, so an
\* earlier value stays.
Advanced(row, s) ==
  [row EXCEPT !.current_step_id = s, !.completed_at = @ \/ TerminalFlag[s]]

\* Mutant: no action log on an advance to a terminal step.
AfterAdvance_NoTerminalLog(c) ==
  IF c.automation = NULL \/ TerminalFlag[ToStep(c)] THEN "respond" ELSE "log_action"

AfterAdvance(c) == IF c.automation = NULL THEN "respond" ELSE "log_action"

ApplyAdvance(r) ==
  /\ pc[r] = "apply_advance"
  /\ instances' = [instances EXCEPT
       ![call[r].instance] = Advanced(instances[call[r].instance], ToStep(call[r]))]
  /\ Await(r, AfterAdvance(call[r]))
  /\ UNCHANGED <<stepInstances, actionLogs, clock, initialStep, call>>

\* A missing automation action is answered like one of a foreign organization.
AutomationRefusal(c) ==
  CASE AutomationOrg[c.automation] \notin c.orgs -> "NOT_FOUND"
    [] OTHER -> IF AutomationActive[c.automation] THEN "none" ELSE "BAD_REQUEST"

\* The scope check of the automation action comes after the advance is stored.
RefuseLog(r) ==
  /\ pc[r] = "log_action"
  /\ AutomationRefusal(call[r]) # "none"
  /\ Respond(r, AutomationRefusal(call[r]))
  /\ UNCHANGED <<tables, initialStep>>

CreateActionLog(r) ==
  /\ pc[r] = "log_action"
  /\ AutomationRefusal(call[r]) = "none"
  /\ actionLogs' = [actionLogs EXCEPT ![r] =
       [workflow_instance_id |-> call[r].instance, workflow_step_instance_id |-> r,
        automation_action_id |-> call[r].automation]]
  /\ Await(r, "respond")
  /\ UNCHANGED <<instances, stepInstances, clock, initialStep, call>>

-----------------------------------------------------------------------------
(* The end of a handler, and the environment.                              *)

Answer(r) ==
  /\ pc[r] = "respond"
  /\ Respond(r, "OK")
  /\ UNCHANGED <<tables, initialStep>>

InFlight(r) == pc[r] \notin {"idle", "done"}

\* The pending call fails or the process dies: the client gets an error (or
\* nothing) and what was written stays.  At "idle" it is a read before the
\* first write; at "respond" the last write was committed and only its
\* acknowledgement is lost.
FailPendingCall(r) ==
  /\ pc[r] # "done"
  /\ Respond(r, "DEPENDENCY_ERROR")
  /\ UNCHANGED <<tables, initialStep>>

Cancelled(row) == [row EXCEPT !.cancelled_at = TRUE]

\* cancelled_at is read by the engine and written by nothing in it.
CancelExternally(i) ==
  /\ instances[i] # NULL
  /\ ~IsInstanceTerminal(instances[i])
  /\ instances' = [instances EXCEPT ![i] = Cancelled(instances[i])]
  /\ UNCHANGED <<stepInstances, actionLogs, clock, pc, initialStep, call, answer>>

Proceed(r) ==
  \/ CreateInitialStepInstance(r)
  \/ FindActive(r)
  \/ MarkCompleted(r)
  \/ CreateStepInstance(r)
  \/ ApplyAdvance(r)
  \/ RefuseLog(r)
  \/ CreateActionLog(r)
  \/ Answer(r)

Arrive(r) ==
  \/ RefuseCreate(r)
  \/ CreateInstance(r)
  \/ RefuseAdvance(r)
  \/ AcceptAdvance(r)

Next ==
  \/ \E r \in Requests : Arrive(r) \/ Proceed(r) \/ FailPendingCall(r)
  \/ \E i \in Requests : CancelExternally(i)

\* An awaited call resolves and the event loop resumes the handler.  Nothing
\* is assumed of failures, of arrivals or of cancellations.
Fairness == \A r \in Requests : WF_vars(Proceed(r))

Spec == Init /\ [][Next]_vars /\ Fairness

-----------------------------------------------------------------------------
(* Properties.                                                             *)

\* An instance is completed only on the evidence of a step instance of a
\* terminal step, whatever advances overlap, fail or run on stale pointers.
CompletionEvidenced ==
  \A i \in Requests :
    (instances[i] # NULL /\ instances[i].completed_at)
      => \E a \in StepInstancesOf(i) : TerminalFlag[stepInstances[a].workflow_step_id]

\* The pointer of an instance never runs ahead of its history: the current
\* step has a step instance.  The one exception is an instance whose create
\* handler has not reached, or failed at, its second insert.
PointerBacked ==
  \A i \in Requests : instances[i] # NULL =>
    \/ \E a \in StepInstancesOf(i) :
         stepInstances[a].workflow_step_id = instances[i].current_step_id
    \/ /\ instances[i].current_step_id = initialStep[i]
       /\ \/ pc[i] = "create_initial_step_instance"
          \/ answer[i] = "DEPENDENCY_ERROR"

\* result_code is an audit trail: a completed step instance names an active
\* rule of its own template that leaves its own step, an open one names none,
\* even when the handler that completes it acts on a pointer read long before.
AuditTrailFits ==
  \A a \in Requests : stepInstances[a] # NULL =>
    LET row == stepInstances[a]
    IN IF row.completed_at
       THEN row.result_code \in
              ListActiveOutgoing(instances[row.workflow_instance_id].template,
                                 row.workflow_step_id)
       ELSE row.result_code = NULL

\* A handler about to answer 200/201 has stored everything it was asked for:
\* the new step instance, the completion of a terminal destination (which a
\* later overlapping advance must not undo) and the requested action log.
SuccessIsStored ==
  \A r \in Requests : pc[r] = "respond" =>
    IF call[r] = NULL
    THEN /\ instances[r] # NULL
         /\ r \in StepInstancesOf(r)
    ELSE /\ r \in StepInstancesOf(call[r].instance)
         /\ stepInstances[r].workflow_step_id = ToStep(call[r])
         /\ TerminalFlag[ToStep(call[r])] => instances[call[r].instance].completed_at
         /\ (call[r].automation # NULL) <=> (actionLogs[r] # NULL)

\* The tables are a history: rows are never deleted or moved to another
\* parent, a completion is never taken back, an action log never changes.
HistoryKept ==
  [][/\ \A i \in Requests : instances[i] # NULL =>
          /\ instances'[i] # NULL
          /\ instances'[i].template = instances[i].template
          /\ instances[i].completed_at => instances'[i].completed_at
          /\ instances[i].cancelled_at => instances'[i].cancelled_at
     /\ \A a \in Requests : stepInstances[a] # NULL =>
          /\ stepInstances'[a] # NULL
          /\ stepInstances'[a].workflow_instance_id = stepInstances[a].workflow_instance_id
          /\ stepInstances'[a].workflow_step_id = stepInstances[a].workflow_step_id
          /\ stepInstances'[a].created_at = stepInstances[a].created_at
          /\ stepInstances[a].completed_at => stepInstances'[a].completed_at
     /\ \A l \in Requests : actionLogs[l] # NULL => actionLogs'[l] = actionLogs[l]]_vars

\* No handler waits for another one: a request that is being served is
\* answered, also when its step instance was closed by somebody else.
EveryRequestAnswered == \A r \in Requests : InFlight(r) ~> pc[r] = "done"

\* "Terminal instances cannot be advanced": once an instance is completed its
\* pointer stays on the terminal step.  The check is made on a row read several
\* awaits before the pointer is written.
CompletedIsFinal ==
  [][\A i \in Requests :
       (instances[i] # NULL /\ instances[i].completed_at)
         => instances'[i].current_step_id = instances[i].current_step_id]_vars

-----------------------------------------------------------------------------
(* The engine implements WorkflowWalk, overlaps and failures included.     *)

WalkTemplate == [i \in Requests |->
  IF instances[i] = NULL THEN {} ELSE {instances[i].template}]

WalkReached == [i \in Requests |->
  IF instances[i] = NULL THEN {}
  ELSE {initialStep[i]} \cup {stepInstances[a].workflow_step_id : a \in StepInstancesOf(i)}]

WalkPointer == [i \in Requests |->
  IF instances[i] = NULL THEN {} ELSE {instances[i].current_step_id}]

WalkClosed == {i \in Requests : instances[i] # NULL /\ instances[i].completed_at}

Walk == INSTANCE WorkflowWalk WITH
  Instances <- Requests,
  Initial <- [t \in Templates |-> FindInitialStep(t)],
  template <- WalkTemplate, reached <- WalkReached,
  pointer <- WalkPointer, closed <- WalkClosed

\* No overlap or failure makes an instance skip a rule: every step it ever
\* reaches is the target of an active rule from a step it reached before, and
\* the pointer only rests on reached steps.
WalksTheGraph == Walk!Spec

=============================================================================
