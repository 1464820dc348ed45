--------------------- MODULE WorkflowProgressionProofs ---------------------
(***************************************************************************)
(* Theorems about the workflow engine, for every configuration and every   *)
(* number of requests: overlapping and failing ones (WorkflowProgression), *)
(* and ones served in turn (WorkflowSerial).                               *)
(***************************************************************************)
EXTENDS WorkflowSerial, Sequences, FiniteSetTheorems, TLAPS

-----------------------------------------------------------------------------
(* Type correctness.                                                       *)

\* What a handler suspended inside advanceWorkflowInstance still holds.
CallTyped ==
  \A r \in Requests : pc[r] \in PcAdvance =>
    /\ call[r] \in AdvanceCall
    /\ instances[call[r].instance] # NULL
    /\ pc[r] = "mark_completed" => /\ call[r].outgoing # NULL
                                   /\ stepInstances[call[r].outgoing] # NULL
    /\ pc[r] = "log_action" => call[r].automation # NULL

CreateTyped ==
  \A r \in Requests : pc[r] = "create_initial_step_instance" => initialStep[r] \in Steps

TypeInv == TypeOK /\ CallTyped /\ CreateTyped

LEMMA InitTypeInv == Init => TypeInv
  BY ConfigAssumption, NullAssumption
  DEF Init, TypeInv, TypeOK, CallTyped, CreateTyped, PcAll, PcAdvance

LEMMA RefusalCodes ==
  /\ \A orgs \in SUBSET Orgs, t \in Templates, entity \in EntityTypes :
       CreateRefusal(orgs, t, entity) \in Errors \cup {"none"}
  /\ \A orgs \in SUBSET Orgs, i \in Requests, requested \in Rules \cup {NULL} :
       AdvanceRefusal(orgs, i, requested) \in Errors \cup {"none"}
  /\ \A c : AutomationRefusal(c) \in Errors \cup {"none"}
  BY DEF CreateRefusal, AdvanceRefusal, AutomationRefusal, Errors

\* An advance is accepted only for an instance that exists, on a rule that is
\* active, belongs to its template and leaves its current step.
LEMMA AcceptedAdvance ==
  ASSUME NEW orgs \in SUBSET Orgs, NEW i \in Requests, NEW requested,
         NEW automation \in Automations \cup {NULL},
         AdvanceRefusal(orgs, i, requested) = "none",
         NEW c \in AcceptedCalls(orgs, i, requested, automation)
  PROVE  /\ c \in AdvanceCall
         /\ c.instance = i
         /\ instances[i] # NULL
         /\ c.rule \in ListActiveOutgoing(instances[i].template, instances[i].current_step_id)
<1>1. instances[i] # NULL
  BY DEF AdvanceRefusal, IsInstance
<1>2. PICK x \in ListActiveOutgoing(instances[i].template, instances[i].current_step_id) :
        c = [orgs |-> orgs, instance |-> i, rule |-> x,
             automation |-> automation, outgoing |-> NULL]
  BY DEF AcceptedCalls, PickTransition
<1>3. x \in Rules
  BY <1>2 DEF ListActiveOutgoing
<1>4. QED
  BY <1>1, <1>2, <1>3 DEF AdvanceCall

LEMMA NextTypeInv == TypeInv /\ [Next]_vars => TypeInv'
<1> SUFFICES ASSUME TypeInv, [Next]_vars PROVE TypeInv'
  OBVIOUS
<1> USE ConfigAssumption, NullAssumption, NullRowAssumption
       DEF TypeInv, TypeOK, CallTyped, CreateTyped, PcAll, PcAdvance, tables
<1>1. ASSUME NEW r \in Requests, RefuseCreate(r) PROVE TypeInv'
  BY <1>1, RefusalCodes DEF RefuseCreate, Respond
<1>2. ASSUME NEW r \in Requests, CreateInstance(r) PROVE TypeInv'
  <2>1. \A t \in Templates : \A s \in FindInitialStep(t) :
          s \in Steps /\ NewInstance(t, s) \in InstanceRow
    BY DEF NewInstance, InstanceRow, FindInitialStep, InitialStepsOf
  <2>2. QED
    BY <1>2, <2>1 DEF CreateInstance, Await
<1>3. ASSUME NEW r \in Requests, RefuseAdvance(r) PROVE TypeInv'
  BY <1>3, RefusalCodes DEF RefuseAdvance, Respond
<1>4. ASSUME NEW r \in Requests, AcceptAdvance(r) PROVE TypeInv'
  <2>1. PICK c \in AdvanceCall : call' = [call EXCEPT ![r] = c] /\ instances[c.instance] # NULL
    <3>1. PICK orgs \in CallerOrgSets, i \in Requests \ {r},
               requested \in Rules \cup {NULL}, automation \in Automations \cup {NULL} :
            /\ AdvanceRefusal(orgs, i, requested) = "none"
            /\ \E c \in AcceptedCalls(orgs, i, requested, automation) :
                 call' = [call EXCEPT ![r] = c]
      BY <1>4 DEF AcceptAdvance
    <3>2. orgs \in SUBSET Orgs
      BY <3>1
    <3>3. PICK c \in AcceptedCalls(orgs, i, requested, automation) :
            call' = [call EXCEPT ![r] = c]
      BY <3>1
    <3>4. c \in AdvanceCall /\ c.instance = i /\ instances[i] # NULL
      BY <3>1, <3>2, AcceptedAdvance
    <3>5. QED
      BY <3>3, <3>4
  <2>2. QED
    BY <1>4, <2>1 DEF AcceptAdvance, Await
<1>5. ASSUME NEW r \in Requests, CreateInitialStepInstance(r) PROVE TypeInv'
  <2>1. \A s \in Steps : NewStepInstance(r, s) \in StepInstanceRow
    BY DEF NewStepInstance, StepInstanceRow
  <2>2. QED
    BY <1>5, <2>1 DEF CreateInitialStepInstance, InsertStepInstance, Await
<1>6. ASSUME NEW r \in Requests, FindActive(r) PROVE TypeInv'
  <2>1. PICK a \in Requests \cup {NULL} :
          /\ call' = [call EXCEPT ![r].outgoing = a]
          /\ pc'[r] = "mark_completed" => a # NULL /\ stepInstances[a] # NULL
    BY <1>6 DEF FindActive, AfterFind, Await, FindActiveForStep, OpenFor, StepInstancesOf
  <2>2. [call[r] EXCEPT !.outgoing = a] \in AdvanceCall
    BY <1>6, <2>1 DEF FindActive, AdvanceCall
  <2>3. call'[r].instance = call[r].instance /\ call'[r].outgoing = a
    BY <1>6, <2>1 DEF FindActive, AdvanceCall
  <2>4. QED
    BY <1>6, <2>1, <2>2, <2>3 DEF FindActive, AfterFind, Await
<1>7. ASSUME NEW r \in Requests, MarkCompleted(r) PROVE TypeInv'
  <2> DEFINE a == call[r].outgoing
  <2>1. a \in Requests /\ stepInstances[a] \in StepInstanceRow /\ call[r].rule \in Rules
    BY <1>7 DEF MarkCompleted, AdvanceCall
  <2>2. Completed(stepInstances[a], call[r].rule) \in StepInstanceRow
    BY <2>1 DEF Completed, StepInstanceRow
  <2>3. QED
    BY <1>7, <2>1, <2>2 DEF MarkCompleted, Await
<1>8. ASSUME NEW r \in Requests, CreateStepInstance(r) PROVE TypeInv'
  <2>1. call[r].instance \in Requests /\ ToStep(call[r]) \in Steps
    BY <1>8 DEF CreateStepInstance, AdvanceCall, ToStep
  <2>2. NewStepInstance(call[r].instance, ToStep(call[r])) \in StepInstanceRow
    BY <2>1 DEF NewStepInstance, StepInstanceRow
  <2>3. QED
    BY <1>8, <2>2 DEF CreateStepInstance, InsertStepInstance, Await
<1>9. ASSUME NEW r \in Requests, ApplyAdvance(r) PROVE TypeInv'
  <2> DEFINE i == call[r].instance
  <2>1. i \in Requests /\ instances[i] \in InstanceRow /\ ToStep(call[r]) \in Steps
    BY <1>9 DEF ApplyAdvance, ToStep, AdvanceCall
  <2>2. Advanced(instances[i], ToStep(call[r])) \in InstanceRow
    BY <2>1 DEF Advanced, InstanceRow
  <2>3. QED
    BY <1>9, <2>1, <2>2 DEF ApplyAdvance, AfterAdvance, Await
<1>10. ASSUME NEW r \in Requests, RefuseLog(r) PROVE TypeInv'
  BY <1>10, RefusalCodes DEF RefuseLog, Respond
<1>11. ASSUME NEW r \in Requests, CreateActionLog(r) PROVE TypeInv'
  <2>1. [workflow_instance_id |-> call[r].instance, workflow_step_instance_id |-> r,
         automation_action_id |-> call[r].automation] \in ActionLogRow
    BY <1>11 DEF CreateActionLog, AdvanceCall, ActionLogRow
  <2>2. QED
    BY <1>11, <2>1 DEF CreateActionLog, Await
<1>12. ASSUME NEW r \in Requests, Answer(r) \/ FailPendingCall(r) PROVE TypeInv'
  BY <1>12 DEF Answer, FailPendingCall, Respond, Errors
<1>13. ASSUME NEW i \in Requests, CancelExternally(i) PROVE TypeInv'
  <2>1. instances[i] \in InstanceRow
    BY <1>13 DEF CancelExternally
  <2>2. Cancelled(instances[i]) \in InstanceRow
    BY <2>1 DEF Cancelled, InstanceRow
  <2>3. QED
    BY <1>13, <2>2 DEF CancelExternally
<1>14. CASE UNCHANGED vars
  BY <1>14 DEF vars
<1>15. QED
  BY <1>1, <1>2, <1>3, <1>4, <1>5, <1>6, <1>7, <1>8, <1>9, <1>10, <1>11, <1>12, <1>13, <1>14
  DEF Next, Arrive, Proceed

\* Every table row, handler local and response has its declared shape; in
\* particular current_step_id is never null, so the corresponding early return
\* of advanceWorkflowInstance is dead for instances this code creates.
THEOREM TypeCorrect == Spec => []TypeOK
<1>1. TypeInv => TypeOK
  BY DEF TypeInv
<1>2. QED
  BY InitTypeInv, NextTypeInv, <1>1, PTL DEF Spec

-----------------------------------------------------------------------------
(* The tables are a history.                                               *)

PcBeforeInsert == {"idle", "create_initial_step_instance", "find_active",
                   "mark_completed", "create_step_instance"}

\* The row a handler is going to insert does not exist yet.
FreshRows ==
  \A r \in Requests :
    /\ pc[r] \in PcBeforeInsert => stepInstances[r] = NULL
    /\ pc[r] \in PcAdvance \cup {"idle"} => instances[r] = NULL
    /\ pc[r] \in PcBeforeInsert \cup {"apply_advance", "log_action"} => actionLogs[r] = NULL

InstanceKept(i) ==
  instances[i] # NULL =>
    /\ instances'[i] # NULL
    /\ instances'[i].template = instances[i].template
    /\ instances[i].completed_at => instances'[i].completed_at
    /\ instances[i].cancelled_at => instances'[i].cancelled_at

StepInstanceKept(a) ==
  stepInstances[a] # NULL =>
    /\ stepInstances'[a] # NULL
    /\ stepInstances'[a].workflow_instance_id = stepInstances[a].workflow_instance_id
    /\ stepInstances'[a].workflow_step_id = stepInstances[a].workflow_step_id
    /\ stepInstances'[a].created_at = stepInstances[a].created_at
    /\ stepInstances[a].completed_at => stepInstances'[a].completed_at

RowsKept ==
  /\ \A i \in Requests : InstanceKept(i)
  /\ \A a \in Requests : StepInstanceKept(a)
  /\ \A l \in Requests : actionLogs[l] # NULL => actionLogs'[l] = actionLogs[l]

LEMMA NextRowsKept == TypeInv /\ FreshRows /\ [Next]_vars => RowsKept
<1> SUFFICES ASSUME TypeInv, FreshRows, [Next]_vars PROVE RowsKept
  OBVIOUS
<1> USE NullRowAssumption DEF TypeInv, TypeOK
<1>1. ASSUME UNCHANGED tables PROVE RowsKept
  BY <1>1 DEF tables, RowsKept, InstanceKept, StepInstanceKept
<1>2. ASSUME NEW r \in Requests, CreateInstance(r) PROVE RowsKept
  BY <1>2 DEF CreateInstance, FreshRows, RowsKept, InstanceKept, StepInstanceKept
<1>3. ASSUME NEW r \in Requests, CreateInitialStepInstance(r) \/ CreateStepInstance(r)
      PROVE RowsKept
  BY <1>3 DEF CreateInitialStepInstance, CreateStepInstance, InsertStepInstance,
              FreshRows, PcBeforeInsert, RowsKept, InstanceKept, StepInstanceKept
<1>4. ASSUME NEW r \in Requests, MarkCompleted(r) PROVE RowsKept
  <2> DEFINE a == call[r].outgoing
  <2>1. stepInstances[a] \in StepInstanceRow /\ a \in Requests
    BY <1>4 DEF MarkCompleted, CallTyped, PcAdvance, AdvanceCall
  <2>2. Completed(stepInstances[a], call[r].rule) \in StepInstanceRow
    BY <2>1, <1>4 DEF MarkCompleted, CallTyped, PcAdvance, AdvanceCall, Completed, StepInstanceRow
  <2>3. Completed(stepInstances[a], call[r].rule) # NULL
    BY <2>2
  <2>4. StepInstanceKept(a)
    BY <1>4, <2>1, <2>3 DEF MarkCompleted, StepInstanceKept, Completed, StepInstanceRow
  <2>5. \A b \in Requests : b # a => stepInstances'[b] = stepInstances[b]
    BY <1>4 DEF MarkCompleted
  <2>6. QED
    BY <1>4, <2>4, <2>5 DEF MarkCompleted, RowsKept, InstanceKept, StepInstanceKept
<1>5. ASSUME NEW r \in Requests, ApplyAdvance(r) PROVE RowsKept
  <2> DEFINE i == call[r].instance
             row == Advanced(instances[i], ToStep(call[r]))
  <2>1. instances[i] \in InstanceRow /\ i \in Requests /\ ToStep(call[r]) \in Steps
    BY <1>5, ConfigAssumption DEF ApplyAdvance, CallTyped, PcAdvance, AdvanceCall, ToStep
  <2>2. row \in InstanceRow
    BY <2>1, ConfigAssumption DEF Advanced, InstanceRow
  <2>3. row # NULL
    BY <2>2
  <2>4. InstanceKept(i)
    BY <1>5, <2>1, <2>3 DEF ApplyAdvance, InstanceKept, Advanced, InstanceRow
  <2>5. \A k \in Requests : k # i => instances'[k] = instances[k]
    BY <1>5 DEF ApplyAdvance
  <2>6. QED
    BY <1>5, <2>4, <2>5 DEF ApplyAdvance, RowsKept, InstanceKept, StepInstanceKept
<1>6. ASSUME NEW r \in Requests, CreateActionLog(r) PROVE RowsKept
  BY <1>6 DEF CreateActionLog, FreshRows, RowsKept, InstanceKept, StepInstanceKept
<1>7. ASSUME NEW i \in Requests, CancelExternally(i) PROVE RowsKept
  <2>1. instances[i] \in InstanceRow
    BY <1>7 DEF CancelExternally
  <2>2. Cancelled(instances[i]) \in InstanceRow
    BY <2>1 DEF Cancelled, InstanceRow
  <2>3. Cancelled(instances[i]) # NULL
    BY <2>2
  <2>4. InstanceKept(i)
    BY <1>7, <2>1, <2>3 DEF CancelExternally, InstanceKept, Cancelled, InstanceRow
  <2>5. QED
    BY <1>7, <2>4 DEF CancelExternally, RowsKept, InstanceKept, StepInstanceKept
<1>8. QED
  BY <1>1, <1>2, <1>3, <1>4, <1>5, <1>6, <1>7
  DEF Next, Arrive, Proceed, RefuseCreate, RefuseAdvance, AcceptAdvance, FindActive,
      RefuseLog, Answer, FailPendingCall, vars, tables

LEMMA NextFreshRows == TypeInv /\ FreshRows /\ [Next]_vars => FreshRows'
<1> SUFFICES ASSUME TypeInv, FreshRows, [Next]_vars PROVE FreshRows'
  OBVIOUS
<1> USE DEF TypeInv, TypeOK, FreshRows, PcBeforeInsert, PcAdvance, tables
<1>1. ASSUME NEW r \in Requests, RefuseCreate(r) \/ RefuseAdvance(r) \/ RefuseLog(r)
                                 \/ Answer(r) \/ FailPendingCall(r)
      PROVE FreshRows'
  BY <1>1 DEF RefuseCreate, RefuseAdvance, RefuseLog, Answer, FailPendingCall, Respond
<1>2. ASSUME NEW r \in Requests, CreateInstance(r) PROVE FreshRows'
  BY <1>2 DEF CreateInstance, Await
<1>3. ASSUME NEW r \in Requests, AcceptAdvance(r) \/ FindActive(r) PROVE FreshRows'
  BY <1>3 DEF AcceptAdvance, FindActive, AfterFind, Await
<1>4. ASSUME NEW r \in Requests, CreateInitialStepInstance(r) \/ CreateStepInstance(r)
      PROVE FreshRows'
  BY <1>4 DEF CreateInitialStepInstance, CreateStepInstance, InsertStepInstance, Await
<1>5. ASSUME NEW r \in Requests, MarkCompleted(r) PROVE FreshRows'
  BY <1>5 DEF MarkCompleted, Await, CallTyped
<1>6. ASSUME NEW r \in Requests, ApplyAdvance(r) PROVE FreshRows'
  BY <1>6 DEF ApplyAdvance, AfterAdvance, Await, CallTyped
<1>7. ASSUME NEW r \in Requests, CreateActionLog(r) PROVE FreshRows'
  BY <1>7 DEF CreateActionLog, Await
<1>8. ASSUME NEW i \in Requests, CancelExternally(i) PROVE FreshRows'
  BY <1>8 DEF CancelExternally
<1>9. CASE UNCHANGED vars
  BY <1>9 DEF vars
<1>10. QED
  BY <1>1, <1>2, <1>3, <1>4, <1>5, <1>6, <1>7, <1>8, <1>9 DEF Next, Arrive, Proceed

\* Rows are never deleted or moved to another parent, a completion is never
\* taken back and an action log never changes, whatever requests overlap.
THEOREM HistoryIsKept == Spec => HistoryKept
<1>1. Init => TypeInv /\ FreshRows
  BY InitTypeInv DEF Init, FreshRows
<1>2. TypeInv /\ FreshRows /\ [Next]_vars => (TypeInv /\ FreshRows)'
  BY NextTypeInv, NextFreshRows
<1>3. TypeInv /\ FreshRows /\ [Next]_vars => [RowsKept]_vars
  BY NextRowsKept
<1>4. RowsKept =>
        /\ \A i \in Requests : instances[i] # NULL =>
             /\ instances'[i] # NULL
             /\ instances'[i].template = instances[i].template
             /\ instances[i].completed_at => instances'[i].completed_at
             /\ instances[i].cancelled_at => instances'[i].cancelled_at
        /\ \A a \in Requests : stepInstances[a] # NULL =>
             /\ stepInstances'[a] # NULL
             /\ stepInstances'[a].workflow_instance_id = stepInstances[a].workflow_instance_id
             /\ stepInstances'[a].workflow_step_id = stepInstances[a].workflow_step_id
             /\ stepInstances'[a].created_at = stepInstances[a].created_at
             /\ stepInstances[a].completed_at => stepInstances'[a].completed_at
        /\ \A l \in Requests : actionLogs[l] # NULL => actionLogs'[l] = actionLogs[l]
  BY DEF RowsKept, InstanceKept, StepInstanceKept
<1>5. QED
  BY <1>1, <1>2, <1>3, <1>4, PTL DEF Spec, HistoryKept

-----------------------------------------------------------------------------
(* What a suspended handler knows about the rows it acts on.               *)

CallFits ==
  \A r \in Requests : pc[r] \in PcAdvance =>
    /\ call[r].rule \in
         ListActiveOutgoing(instances[call[r].instance].template, FromStep(call[r]))
    /\ pc[r] = "mark_completed" =>
         /\ call[r].outgoing \in StepInstancesOf(call[r].instance)
         /\ stepInstances[call[r].outgoing].workflow_step_id = FromStep(call[r])
    /\ pc[r] \in {"apply_advance", "log_action"} =>
         /\ r \in StepInstancesOf(call[r].instance)
         /\ stepInstances[r].workflow_step_id = ToStep(call[r])

ParentExists ==
  \A a \in Requests : stepInstances[a] # NULL =>
    instances[stepInstances[a].workflow_instance_id] # NULL

CreatePending ==
  \A r \in Requests :
    /\ pc[r] = "create_initial_step_instance" => instances[r] # NULL
    /\ answer[r] = "DEPENDENCY_ERROR" => pc[r] = "done"

\* The inductive core every safety theorem below rests on.
Base == TypeInv /\ FreshRows /\ CallFits /\ ParentExists /\ CreatePending

LEMMA InitBase == Init => Base
  BY InitTypeInv
  DEF Init, Base, FreshRows, CallFits, ParentExists, CreatePending, PcAdvance

\* A step leaves the step instances of an instance in place, on the same steps.
LEMMA StepInstancesStay ==
  ASSUME TypeInv, RowsKept, NEW i \in Requests, NEW a \in StepInstancesOf(i)
  PROVE  /\ a \in StepInstancesOf(i)'
         /\ stepInstances'[a].workflow_step_id = stepInstances[a].workflow_step_id
  BY DEF RowsKept, StepInstanceKept, StepInstancesOf

\* A handler that does not move keeps its locals.
LEMMA HandlerMoves ==
  ASSUME TypeInv, NEW r \in Requests, Arrive(r) \/ Proceed(r) \/ FailPendingCall(r)
  PROVE  \A q \in Requests \ {r} :
           /\ pc'[q] = pc[q] /\ call'[q] = call[q]
           /\ initialStep'[q] = initialStep[q] /\ answer'[q] = answer[q]
<1> USE DEF TypeInv, TypeOK
<1>1. CASE RefuseCreate(r) \/ RefuseAdvance(r) \/ RefuseLog(r) \/ Answer(r) \/ FailPendingCall(r)
  BY <1>1 DEF RefuseCreate, RefuseAdvance, RefuseLog, Answer, FailPendingCall, Respond
<1>2. CASE CreateInstance(r) \/ AcceptAdvance(r) \/ FindActive(r)
           \/ CreateInitialStepInstance(r) \/ CreateStepInstance(r)
  BY <1>2 DEF CreateInstance, AcceptAdvance, FindActive, CreateInitialStepInstance,
              CreateStepInstance, Await
<1>3. CASE MarkCompleted(r) \/ ApplyAdvance(r) \/ CreateActionLog(r)
  BY <1>3 DEF MarkCompleted, ApplyAdvance, CreateActionLog, Await
<1>4. QED
  BY <1>1, <1>2, <1>3 DEF Arrive, Proceed

LEMMA OthersWait ==
  ASSUME TypeInv, Next
  PROVE  \/ UNCHANGED <<pc, call, initialStep, answer>>
         \/ \E r \in Requests :
              /\ Arrive(r) \/ Proceed(r) \/ FailPendingCall(r)
              /\ \A q \in Requests \ {r} :
                   /\ pc'[q] = pc[q] /\ call'[q] = call[q]
                   /\ initialStep'[q] = initialStep[q] /\ answer'[q] = answer[q]
<1>1. ASSUME NEW i \in Requests, CancelExternally(i)
      PROVE  UNCHANGED <<pc, call, initialStep, answer>>
  BY <1>1 DEF CancelExternally
<1>2. QED
  BY <1>1, HandlerMoves DEF Next

LEMMA NextCallFits == Base /\ [Next]_vars => CallFits'
<1> SUFFICES ASSUME Base, [Next]_vars PROVE CallFits'
  OBVIOUS
<1>a. RowsKept /\ TypeInv /\ TypeInv'
  BY NextRowsKept, NextTypeInv DEF Base
<1> DEFINE Fits(r) ==
      pc[r] \in PcAdvance =>
        /\ call[r].rule \in
             ListActiveOutgoing(instances[call[r].instance].template, FromStep(call[r]))
        /\ pc[r] = "mark_completed" =>
             /\ call[r].outgoing \in StepInstancesOf(call[r].instance)
             /\ stepInstances[call[r].outgoing].workflow_step_id = FromStep(call[r])
        /\ pc[r] \in {"apply_advance", "log_action"} =>
             /\ r \in StepInstancesOf(call[r].instance)
             /\ stepInstances[r].workflow_step_id = ToStep(call[r])
\* A handler that does not move still fits: rows are kept.
<1>1. ASSUME NEW q \in Requests, pc'[q] = pc[q], call'[q] = call[q] PROVE Fits(q)'
  <2>1. SUFFICES ASSUME pc[q] \in PcAdvance PROVE Fits(q)'
    BY <1>1
  <2>2. /\ call[q] \in AdvanceCall
        /\ instances'[call[q].instance].template = instances[call[q].instance].template
    BY <1>a, <2>1 DEF TypeInv, CallTyped, AdvanceCall, RowsKept, InstanceKept
  <2>3. Fits(q)
    BY <2>1 DEF Base, CallFits
  <2>4. PICK i \in Requests : i = call[q].instance
    BY <2>2 DEF AdvanceCall
  <2>5. \A a \in StepInstancesOf(i) :
          /\ a \in StepInstancesOf(i)'
          /\ stepInstances'[a].workflow_step_id = stepInstances[a].workflow_step_id
    BY <1>a, <2>4, StepInstancesStay
  <2>6. QED
    BY <1>1, <2>2, <2>3, <2>4, <2>5 DEF ListActiveOutgoing, FromStep, ToStep, StepInstancesOf
\* The handler that moves.
<1>2. ASSUME NEW r \in Requests, Arrive(r) \/ Proceed(r) \/ FailPendingCall(r) PROVE Fits(r)'
  <2> USE <1>a DEF TypeInv, TypeOK, PcAdvance
  <2>1. CASE RefuseCreate(r) \/ RefuseAdvance(r) \/ RefuseLog(r) \/ Answer(r) \/ FailPendingCall(r)
    BY <2>1 DEF RefuseCreate, RefuseAdvance, RefuseLog, Answer, FailPendingCall, Respond
  <2>2. CASE CreateInstance(r) \/ CreateInitialStepInstance(r) \/ CreateActionLog(r)
    BY <2>2 DEF CreateInstance, CreateInitialStepInstance, CreateActionLog, Await
  <2>3. CASE AcceptAdvance(r)
    <3>1. PICK orgs \in CallerOrgSets, i \in Requests \ {r},
               requested \in Rules \cup {NULL}, automation \in Automations \cup {NULL} :
            /\ AdvanceRefusal(orgs, i, requested) = "none"
            /\ \E c \in AcceptedCalls(orgs, i, requested, automation) :
                 call' = [call EXCEPT ![r] = c]
      BY <2>3 DEF AcceptAdvance
    <3>2. orgs \in SUBSET Orgs
      BY <3>1, ConfigAssumption
    <3>3. PICK c \in AcceptedCalls(orgs, i, requested, automation) :
            call' = [call EXCEPT ![r] = c]
      BY <3>1
    <3>4. /\ c \in AdvanceCall /\ c.instance = i
          /\ c.rule \in ListActiveOutgoing(instances[i].template, instances[i].current_step_id)
      BY <3>1, <3>2, AcceptedAdvance
    <3>5. pc'[r] = "find_active" /\ call'[r] = c /\ UNCHANGED instances
      BY <2>3, <3>3 DEF AcceptAdvance, Await, tables
    <3>6. QED
      BY <3>4, <3>5 DEF ListActiveOutgoing, FromStep
  <2>4. CASE FindActive(r)
    <3>1. PICK a \in Requests \cup {NULL} :
            /\ call' = [call EXCEPT ![r].outgoing = a]
            /\ pc'[r] = "mark_completed" =>
                 a \in FindActiveForStep(call[r].instance, FromStep(call[r]))
      BY <2>4 DEF FindActive, AfterFind, Await, FindActiveForStep, OpenFor, StepInstancesOf
    <3>2. call[r] \in AdvanceCall
      BY <2>4 DEF FindActive, CallTyped
    <3>3. /\ call'[r].instance = call[r].instance /\ call'[r].rule = call[r].rule
          /\ call'[r].outgoing = a
      BY <3>1, <3>2 DEF AdvanceCall
    <3>4. UNCHANGED tables /\ pc'[r] \in {"mark_completed", "create_step_instance"}
      BY <2>4 DEF FindActive, AfterFind, Await
    <3>5. Fits(r) /\ pc[r] = "find_active"
      BY <2>4 DEF FindActive, Base, CallFits
    <3>6. QED
      BY <3>1, <3>3, <3>4, <3>5
      DEF tables, FromStep, ListActiveOutgoing, FindActiveForStep, OpenFor, StepInstancesOf
  <2>5. CASE MarkCompleted(r)
    <3>1. Fits(r) /\ pc[r] = "mark_completed" /\ pc'[r] = "create_step_instance"
      BY <2>5 DEF MarkCompleted, Await, Base, CallFits
    <3>2. UNCHANGED <<instances, call>>
      BY <2>5 DEF MarkCompleted
    <3>3. QED
      BY <3>1, <3>2 DEF ListActiveOutgoing, FromStep
  <2>6. CASE CreateStepInstance(r)
    <3>1. Fits(r) /\ pc[r] = "create_step_instance" /\ pc'[r] = "apply_advance"
      BY <2>6 DEF CreateStepInstance, Await, Base, CallFits
    <3>2. stepInstances'[r] = NewStepInstance(call[r].instance, ToStep(call[r]))
      BY <2>6 DEF CreateStepInstance, InsertStepInstance
    <3>a. call[r].instance \in Requests /\ ToStep(call[r]) \in Steps
      BY <2>6, ConfigAssumption DEF CreateStepInstance, CallTyped, AdvanceCall, ToStep
    <3>b. NewStepInstance(call[r].instance, ToStep(call[r])) \in StepInstanceRow
      BY <3>a DEF NewStepInstance, StepInstanceRow
    <3>3. NewStepInstance(call[r].instance, ToStep(call[r])) # NULL
      BY <3>b, NullRowAssumption
    <3>4. UNCHANGED <<instances, call>>
      BY <2>6 DEF CreateStepInstance
    <3>5. QED
      BY <3>1, <3>2, <3>3, <3>4 DEF NewStepInstance, StepInstancesOf, ListActiveOutgoing,
                                    FromStep, ToStep
  <2>7. CASE ApplyAdvance(r)
    <3>1. Fits(r) /\ pc[r] = "apply_advance" /\ pc'[r] \in {"log_action", "respond"}
      BY <2>7 DEF ApplyAdvance, AfterAdvance, Await, Base, CallFits
    <3>2. UNCHANGED <<stepInstances, call>>
      BY <2>7 DEF ApplyAdvance
    <3>3. /\ call[r] \in AdvanceCall /\ instances[call[r].instance] # NULL
      BY <2>7 DEF ApplyAdvance, CallTyped
    <3>4. instances'[call[r].instance].template = instances[call[r].instance].template
      BY <3>3 DEF RowsKept, InstanceKept, AdvanceCall
    <3>5. QED
      BY <3>1, <3>2, <3>4 DEF StepInstancesOf, ListActiveOutgoing, FromStep, ToStep
  <2>8. QED
    BY <1>2, <2>1, <2>2, <2>3, <2>4, <2>5, <2>6, <2>7 DEF Arrive, Proceed
<1>3. CASE UNCHANGED vars
  BY <1>1, <1>3 DEF CallFits, vars
<1>4. CASE Next
  <2>1. \A q \in Requests : Fits(q)'
    BY <1>1, <1>2, <1>4, <1>a, OthersWait
  <2>2. QED
    BY <2>1 DEF CallFits
<1>5. QED
  BY <1>3, <1>4

-----------------------------------------------------------------------------
(* Who writes a row: the only actions that change an instance or a step     *)
(* instance.  The invariants below are proved row by row from these.        *)

LEMMA InstanceWriters ==
  ASSUME TypeInv, [Next]_vars, NEW i \in Requests, instances'[i] # instances[i]
  PROVE  \/ CreateInstance(i)
         \/ CancelExternally(i)
         \/ \E r \in Requests : ApplyAdvance(r) /\ call[r].instance = i
<1> USE DEF TypeInv, TypeOK
<1>1. ASSUME NEW r \in Requests, CreateInstance(r), r # i PROVE FALSE
  BY <1>1 DEF CreateInstance
<1>2. ASSUME NEW k \in Requests, CancelExternally(k), k # i PROVE FALSE
  BY <1>2 DEF CancelExternally
<1>3. ASSUME NEW r \in Requests, ApplyAdvance(r), call[r].instance # i PROVE FALSE
  BY <1>3 DEF ApplyAdvance
<1>4. QED
  BY <1>1, <1>2, <1>3
  DEF Next, Arrive, Proceed, RefuseCreate, RefuseAdvance, AcceptAdvance, FindActive,
      RefuseLog, Answer, FailPendingCall, CreateInitialStepInstance, MarkCompleted,
      CreateStepInstance, CreateActionLog, vars, tables

LEMMA StepInstanceWriters ==
  ASSUME TypeInv, [Next]_vars, NEW a \in Requests, stepInstances'[a] # stepInstances[a]
  PROVE  \/ CreateInitialStepInstance(a)
         \/ CreateStepInstance(a)
         \/ \E r \in Requests : MarkCompleted(r) /\ call[r].outgoing = a
<1> USE DEF TypeInv, TypeOK
<1>1. ASSUME NEW r \in Requests, CreateInitialStepInstance(r) \/ CreateStepInstance(r), r # a
      PROVE  FALSE
  BY <1>1 DEF CreateInitialStepInstance, CreateStepInstance, InsertStepInstance
<1>2. ASSUME NEW r \in Requests, MarkCompleted(r), call[r].outgoing # a PROVE FALSE
  BY <1>2 DEF MarkCompleted
<1>3. QED
  BY <1>1, <1>2
  DEF Next, Arrive, Proceed, RefuseCreate, RefuseAdvance, AcceptAdvance, FindActive,
      RefuseLog, Answer, FailPendingCall, CreateInstance, ApplyAdvance, CancelExternally,
      CreateActionLog, vars, tables

\* The row a step inserts: under the instance the handler works on, open.
LEMMA InsertedRow ==
  ASSUME Base, NEW r \in Requests
  PROVE  /\ CreateInitialStepInstance(r) =>
              /\ stepInstances'[r] = NewStepInstance(r, initialStep[r])
              /\ stepInstances'[r] \in StepInstanceRow
              /\ instances[r] # NULL
         /\ CreateStepInstance(r) =>
              /\ stepInstances'[r] = NewStepInstance(call[r].instance, ToStep(call[r]))
              /\ stepInstances'[r] \in StepInstanceRow
              /\ instances[call[r].instance] # NULL
<1> USE DEF Base, TypeInv, TypeOK
<1>1. \A i \in Requests, s \in Steps : NewStepInstance(i, s) \in StepInstanceRow
  BY DEF NewStepInstance, StepInstanceRow
<1>2. ASSUME CreateInitialStepInstance(r)
      PROVE  /\ stepInstances'[r] = NewStepInstance(r, initialStep[r])
             /\ initialStep[r] \in Steps
             /\ instances[r] # NULL
  BY <1>2 DEF CreateInitialStepInstance, InsertStepInstance, CreatePending, CreateTyped
<1>3. ASSUME CreateStepInstance(r)
      PROVE  /\ stepInstances'[r] = NewStepInstance(call[r].instance, ToStep(call[r]))
             /\ call[r].instance \in Requests /\ ToStep(call[r]) \in Steps
             /\ instances[call[r].instance] # NULL
  BY <1>3, ConfigAssumption
  DEF CreateStepInstance, InsertStepInstance, CallTyped, PcAdvance, AdvanceCall, ToStep
<1>4. QED
  BY <1>1, <1>2, <1>3

LEMMA NextParentExists == Base /\ [Next]_vars => ParentExists'
<1> SUFFICES ASSUME Base, [Next]_vars, NEW a \in Requests, stepInstances'[a] # NULL
             PROVE  instances'[stepInstances'[a].workflow_instance_id] # NULL
  BY DEF ParentExists
<1>1. RowsKept
  BY NextRowsKept DEF Base
<1>2. CASE stepInstances[a] # NULL
  <2>1. stepInstances[a].workflow_instance_id \in Requests
    BY <1>2 DEF Base, TypeInv, TypeOK, StepInstanceRow
  <2>2. instances[stepInstances[a].workflow_instance_id] # NULL
    BY <1>2 DEF Base, ParentExists
  <2>3. QED
    BY <1>1, <1>2, <2>1, <2>2 DEF RowsKept, InstanceKept, StepInstanceKept
<1>3. CASE stepInstances[a] = NULL
  <2>1. CreateInitialStepInstance(a) \/ CreateStepInstance(a)
    <3>1. ASSUME NEW r \in Requests, MarkCompleted(r), call[r].outgoing = a PROVE FALSE
      BY <3>1, <1>3 DEF MarkCompleted, Base, TypeInv, CallTyped, PcAdvance
    <3>2. QED
      BY <1>3, <3>1, StepInstanceWriters DEF Base
  <2>2. CASE CreateInitialStepInstance(a)
    <3>1. stepInstances'[a] = NewStepInstance(a, initialStep[a]) /\ instances[a] # NULL
      BY <2>2, InsertedRow
    <3>2. UNCHANGED instances
      BY <2>2 DEF CreateInitialStepInstance
    <3>3. QED
      BY <3>1, <3>2 DEF NewStepInstance
  <2>3. CASE CreateStepInstance(a)
    <3>1. /\ stepInstances'[a] = NewStepInstance(call[a].instance, ToStep(call[a]))
          /\ instances[call[a].instance] # NULL
      BY <2>3, InsertedRow
    <3>2. UNCHANGED instances
      BY <2>3 DEF CreateStepInstance
    <3>3. QED
      BY <3>1, <3>2 DEF NewStepInstance
  <2>4. QED
    BY <2>1, <2>2, <2>3
<1>4. QED
  BY <1>2, <1>3

LEMMA NextCreatePending == Base /\ [Next]_vars => CreatePending'
<1> SUFFICES ASSUME Base, [Next]_vars PROVE CreatePending'
  OBVIOUS
<1>1. RowsKept
  BY NextRowsKept DEF Base
<1> DEFINE Pending(r) ==
      /\ pc[r] = "create_initial_step_instance" => instances[r] # NULL
      /\ answer[r] = "DEPENDENCY_ERROR" => pc[r] = "done"
<1>2. ASSUME NEW q \in Requests, pc'[q] = pc[q], answer'[q] = answer[q] PROVE Pending(q)'
  BY <1>1, <1>2 DEF Base, CreatePending, RowsKept, InstanceKept
<1>3. ASSUME NEW r \in Requests, Arrive(r) \/ Proceed(r) \/ FailPendingCall(r)
      PROVE  Pending(r)'
  <2> USE DEF Base, TypeInv, TypeOK, CreatePending
  <2>1. CASE RefuseCreate(r) \/ RefuseAdvance(r) \/ RefuseLog(r) \/ Answer(r) \/ FailPendingCall(r)
    BY <2>1 DEF RefuseCreate, RefuseAdvance, RefuseLog, Answer, FailPendingCall, Respond
  <2>2. CASE CreateInstance(r)
    <3>1. \A t \in Templates : \A s \in FindInitialStep(t) : NewInstance(t, s) \in InstanceRow
      BY DEF NewInstance, InstanceRow, FindInitialStep, InitialStepsOf
    <3>2. instances'[r] # NULL
      BY <2>2, <3>1, NullRowAssumption DEF CreateInstance
    <3>3. QED
      BY <2>2, <3>2 DEF CreateInstance, Await
  <2>3. CASE AcceptAdvance(r) \/ FindActive(r) \/ CreateInitialStepInstance(r)
    BY <2>3 DEF AcceptAdvance, FindActive, AfterFind, CreateInitialStepInstance, Await
  <2>4. CASE MarkCompleted(r) \/ CreateStepInstance(r) \/ ApplyAdvance(r) \/ CreateActionLog(r)
    BY <2>4 DEF MarkCompleted, CreateStepInstance, ApplyAdvance, AfterAdvance,
                CreateActionLog, Await
  <2>5. QED
    BY <1>3, <2>1, <2>2, <2>3, <2>4 DEF Arrive, Proceed
<1>4. CASE UNCHANGED vars
  BY <1>2, <1>4 DEF CreatePending, vars
<1>5. CASE Next
  <2>1. \A q \in Requests : Pending(q)'
    BY <1>2, <1>3, <1>5, OthersWait DEF Base
  <2>2. QED
    BY <2>1 DEF CreatePending
<1>6. QED
  BY <1>4, <1>5

LEMMA NextBase == Base /\ [Next]_vars => Base'
  BY NextTypeInv, NextFreshRows, NextCallFits, NextParentExists, NextCreatePending DEF Base

LEMMA SpecBase == Spec => []Base
  BY InitBase, NextBase, PTL DEF Spec

-----------------------------------------------------------------------------
(* The safety invariants, each preserved on top of Base.                    *)

LEMMA NextCompletionEvidenced ==
  Base /\ CompletionEvidenced /\ [Next]_vars => CompletionEvidenced'
<1> SUFFICES ASSUME Base, CompletionEvidenced, [Next]_vars,
                    NEW i \in Requests, instances'[i] # NULL, instances'[i].completed_at
             PROVE  \E a \in StepInstancesOf(i)' :
                      TerminalFlag[stepInstances'[a].workflow_step_id]
  BY DEF CompletionEvidenced
<1>1. TypeInv /\ RowsKept
  BY NextRowsKept DEF Base
\* Evidence that exists stays.
<1>2. ASSUME NEW a \in StepInstancesOf(i), TerminalFlag[stepInstances[a].workflow_step_id]
      PROVE  \E b \in StepInstancesOf(i)' : TerminalFlag[stepInstances'[b].workflow_step_id]
  BY <1>1, <1>2, StepInstancesStay
<1>3. CASE instances[i] # NULL /\ instances[i].completed_at
  BY <1>2, <1>3 DEF CompletionEvidenced
<1>4. CASE instances[i] = NULL \/ ~instances[i].completed_at
  <2>1. instances'[i] # instances[i]
    BY <1>4
  <2>2. ~CreateInstance(i)
    <3>1. SUFFICES ASSUME CreateInstance(i) PROVE FALSE
      OBVIOUS
    <3>2. ~instances'[i].completed_at
      BY <3>1 DEF CreateInstance, NewInstance, Base, TypeInv, TypeOK
    <3>3. QED
      BY <3>2
  <2>3. ~CancelExternally(i)
    <3>1. SUFFICES ASSUME CancelExternally(i) PROVE FALSE
      OBVIOUS
    <3>2. instances[i] \in InstanceRow /\ instances'[i] = Cancelled(instances[i])
      BY <3>1 DEF CancelExternally, Base, TypeInv, TypeOK
    <3>3. instances'[i].completed_at = instances[i].completed_at
      BY <3>2 DEF Cancelled, InstanceRow
    <3>4. instances[i] # NULL
      BY <3>1 DEF CancelExternally
    <3>5. QED
      BY <1>4, <3>3, <3>4
  <2>4. PICK r \in Requests : ApplyAdvance(r) /\ call[r].instance = i
    BY <1>1, <2>1, <2>2, <2>3, InstanceWriters
  <2>5. /\ pc[r] = "apply_advance"
        /\ r \in StepInstancesOf(i)
        /\ stepInstances[r].workflow_step_id = ToStep(call[r])
        /\ instances[i] # NULL
    BY <2>4 DEF ApplyAdvance, Base, CallFits, PcAdvance, TypeInv, CallTyped
  <2>6. /\ instances[i] \in InstanceRow
        /\ instances'[i] = Advanced(instances[i], ToStep(call[r]))
    BY <2>4, <2>5 DEF ApplyAdvance, Base, TypeInv, TypeOK
  <2>7. instances'[i].completed_at = (instances[i].completed_at \/ TerminalFlag[ToStep(call[r])])
    BY <2>6 DEF Advanced, InstanceRow
  <2>8. TerminalFlag[ToStep(call[r])]
    BY <1>4, <2>5, <2>7
  <2>9. QED
    BY <1>2, <2>5, <2>8
<1>5. QED
  BY <1>3, <1>4

\* An instance is completed only on the evidence of a step instance of a
\* terminal step: applyAdvance follows the insert it relies on, and neither an
\* overlapping advance nor a failure takes that row away.
THEOREM CompletionIsEvidenced == Spec => []CompletionEvidenced
<1>1. Init => CompletionEvidenced
  BY DEF Init, CompletionEvidenced
<1>2. QED
  BY <1>1, SpecBase, NextCompletionEvidenced, PTL DEF Spec

\* A handler between two steps: what its create phase leaves behind.
LEMMA CreatePhase ==
  ASSUME Base, [Next]_vars, NEW i \in Requests, instances[i] # NULL
  PROVE  /\ initialStep'[i] = initialStep[i]
         /\ answer[i] = "DEPENDENCY_ERROR" => answer'[i] = "DEPENDENCY_ERROR"
         /\ pc[i] = "create_initial_step_instance" =>
              \/ pc'[i] = pc[i]
              \/ answer'[i] = "DEPENDENCY_ERROR"
              \/ CreateInitialStepInstance(i)
<1> USE DEF Base, TypeInv, TypeOK
<1>1. pc[i] \notin PcAdvance \cup {"idle"}
  BY DEF FreshRows
<1>2. CASE UNCHANGED <<pc, call, initialStep, answer>>
  BY <1>2
<1>3. ASSUME NEW r \in Requests, Arrive(r) \/ Proceed(r) \/ FailPendingCall(r), r = i
      PROVE  /\ initialStep'[i] = initialStep[i]
             /\ answer[i] = "DEPENDENCY_ERROR" => answer'[i] = "DEPENDENCY_ERROR"
             /\ pc[i] = "create_initial_step_instance" =>
                  \/ answer'[i] = "DEPENDENCY_ERROR"
                  \/ CreateInitialStepInstance(i)
  <2>1. CreateInitialStepInstance(i) \/ Answer(i) \/ FailPendingCall(i)
    BY <1>1, <1>3
    DEF Arrive, Proceed, PcAdvance, RefuseCreate, CreateInstance, RefuseAdvance, AcceptAdvance,
        FindActive, MarkCompleted, CreateStepInstance, ApplyAdvance, RefuseLog, CreateActionLog
  <2>2. CASE CreateInitialStepInstance(i)
    BY <2>2 DEF CreateInitialStepInstance, Await
  <2>3. CASE Answer(i)
    BY <2>3 DEF Answer, Respond, CreatePending
  <2>4. CASE FailPendingCall(i)
    BY <2>4 DEF FailPendingCall, Respond
  <2>5. QED
    BY <2>1, <2>2, <2>3, <2>4
<1>4. CASE Next
  <2>1. PICK r \in Requests :
          /\ Arrive(r) \/ Proceed(r) \/ FailPendingCall(r)
          /\ \A q \in Requests \ {r} :
               /\ pc'[q] = pc[q] /\ call'[q] = call[q]
               /\ initialStep'[q] = initialStep[q] /\ answer'[q] = answer[q]
        \/ UNCHANGED <<pc, call, initialStep, answer>>
    BY <1>4, OthersWait
  <2>2. QED
    BY <1>2, <1>3, <2>1
<1>5. CASE UNCHANGED vars
  BY <1>2, <1>5 DEF vars
<1>6. QED
  BY <1>4, <1>5

LEMMA NextPointerBacked == Base /\ PointerBacked /\ [Next]_vars => PointerBacked'
<1> DEFINE Backed(i) ==
      \E a \in StepInstancesOf(i) :
        stepInstances[a].workflow_step_id = instances[i].current_step_id
           Creating(i) ==
      /\ instances[i].current_step_id = initialStep[i]
      /\ pc[i] = "create_initial_step_instance" \/ answer[i] = "DEPENDENCY_ERROR"
<1> SUFFICES ASSUME Base, PointerBacked, [Next]_vars, NEW i \in Requests, instances'[i] # NULL
             PROVE  Backed(i)' \/ Creating(i)'
  BY DEF PointerBacked
<1>1. TypeInv /\ RowsKept
  BY NextRowsKept DEF Base
<1>2. CASE instances[i] = NULL
  <2>1. instances'[i] # instances[i]
    BY <1>2
  <2>2. ~CancelExternally(i)
    BY <1>2 DEF CancelExternally
  <2>3. ASSUME NEW r \in Requests, ApplyAdvance(r), call[r].instance = i PROVE FALSE
    BY <1>2, <2>3 DEF ApplyAdvance, Base, TypeInv, CallTyped, PcAdvance
  <2>4. CreateInstance(i)
    BY <1>1, <2>1, <2>2, <2>3, InstanceWriters
  <2>5. /\ instances'[i].current_step_id = initialStep'[i]
        /\ pc'[i] = "create_initial_step_instance"
    BY <2>4 DEF CreateInstance, NewInstance, Await, Base, TypeInv, TypeOK
  <2>6. QED
    BY <2>5
<1>3. CASE instances[i] # NULL /\ instances'[i].current_step_id = instances[i].current_step_id
  <2>1. CASE Backed(i)
    BY <1>1, <1>3, <2>1, StepInstancesStay
  <2>2. CASE Creating(i) /\ ~CreateInitialStepInstance(i)
    BY <1>3, <2>2, CreatePhase
  <2>3. CASE Creating(i) /\ CreateInitialStepInstance(i)
    <3>1. /\ stepInstances'[i] = NewStepInstance(i, initialStep[i])
          /\ stepInstances'[i] \in StepInstanceRow
      BY <2>3, InsertedRow
    <3>2. i \in StepInstancesOf(i)' /\ stepInstances'[i].workflow_step_id = initialStep[i]
      BY <3>1, NullRowAssumption DEF NewStepInstance, StepInstancesOf
    <3>3. QED
      BY <1>3, <2>3, <3>2
  <2>4. QED
    BY <1>3, <2>1, <2>2, <2>3 DEF PointerBacked
<1>4. CASE instances[i] # NULL /\ instances'[i].current_step_id # instances[i].current_step_id
  <2>1. instances[i] \in InstanceRow
    BY <1>4 DEF Base, TypeInv, TypeOK
  <2>2. ASSUME CancelExternally(i) PROVE FALSE
    <3>1. instances'[i] = Cancelled(instances[i])
      BY <2>2 DEF CancelExternally, Base, TypeInv, TypeOK
    <3>2. QED
      BY <1>4, <2>1, <3>1 DEF Cancelled, InstanceRow
  <2>3. ASSUME CreateInstance(i) PROVE FALSE
    BY <1>4, <2>3 DEF CreateInstance, Base, FreshRows
  <2>4. PICK r \in Requests : ApplyAdvance(r) /\ call[r].instance = i
    BY <1>1, <1>4, <2>2, <2>3, InstanceWriters
  <2>5. /\ instances'[i] = Advanced(instances[i], ToStep(call[r]))
        /\ UNCHANGED stepInstances
    BY <2>4 DEF ApplyAdvance, Base, TypeInv, TypeOK
  <2>6. instances'[i].current_step_id = ToStep(call[r])
    BY <2>1, <2>5 DEF Advanced, InstanceRow
  <2>7. r \in StepInstancesOf(i) /\ stepInstances[r].workflow_step_id = ToStep(call[r])
    BY <2>4 DEF ApplyAdvance, Base, CallFits, PcAdvance
  <2>8. QED
    BY <2>5, <2>6, <2>7 DEF StepInstancesOf
<1>5. QED
  BY <1>2, <1>3, <1>4

\* The pointer of an instance never runs ahead of its history, whatever
\* overlaps or fails: the only instance without a step instance for its
\* current step is one whose create handler stopped between its two inserts.
THEOREM PointerIsBacked == Spec => []PointerBacked
<1>1. Init => PointerBacked
  BY DEF Init, PointerBacked
<1>2. QED
  BY <1>1, SpecBase, NextPointerBacked, PTL DEF Spec

LEMMA NextAuditTrailFits == Base /\ AuditTrailFits /\ [Next]_vars => AuditTrailFits'
<1> DEFINE Fits(a) ==
      IF stepInstances[a].completed_at
      THEN stepInstances[a].result_code \in
             ListActiveOutgoing(instances[stepInstances[a].workflow_instance_id].template,
                                stepInstances[a].workflow_step_id)
      ELSE stepInstances[a].result_code = NULL
<1> SUFFICES ASSUME Base, AuditTrailFits, [Next]_vars,
                    NEW a \in Requests, stepInstances'[a] # NULL
             PROVE  Fits(a)'
  BY DEF AuditTrailFits
<1>1. TypeInv /\ RowsKept
  BY NextRowsKept DEF Base
<1>2. CASE stepInstances'[a] = stepInstances[a]
  <2>1. Fits(a)
    BY <1>2 DEF AuditTrailFits
  <2>2. PICK i \in Requests : i = stepInstances[a].workflow_instance_id
    BY <1>2 DEF Base, TypeInv, TypeOK, StepInstanceRow
  <2>3. instances[i] # NULL
    BY <1>2, <2>2 DEF Base, ParentExists
  <2>4. instances'[i].template = instances[i].template
    BY <1>1, <2>3 DEF RowsKept, InstanceKept
  <2>5. QED
    BY <1>2, <2>1, <2>2, <2>4 DEF ListActiveOutgoing
<1>3. CASE stepInstances'[a] # stepInstances[a]
  <2>1. ASSUME CreateInitialStepInstance(a) PROVE Fits(a)'
    <3>1. stepInstances'[a] = NewStepInstance(a, initialStep[a])
      BY <2>1, InsertedRow
    <3>2. QED
      BY <3>1 DEF NewStepInstance
  <2>2. ASSUME CreateStepInstance(a) PROVE Fits(a)'
    <3>1. stepInstances'[a] = NewStepInstance(call[a].instance, ToStep(call[a]))
      BY <2>2, InsertedRow
    <3>2. QED
      BY <3>1 DEF NewStepInstance
  <2>3. ASSUME NEW r \in Requests, MarkCompleted(r), call[r].outgoing = a PROVE Fits(a)'
    <3>1. /\ a \in StepInstancesOf(call[r].instance)
          /\ stepInstances[a].workflow_step_id = FromStep(call[r])
          /\ call[r].rule \in
               ListActiveOutgoing(instances[call[r].instance].template, FromStep(call[r]))
      BY <2>3 DEF MarkCompleted, Base, CallFits, PcAdvance
    <3>2. stepInstances[a] \in StepInstanceRow
      BY <3>1 DEF Base, TypeInv, TypeOK, StepInstancesOf
    <3>3. /\ stepInstances'[a] = Completed(stepInstances[a], call[r].rule)
          /\ UNCHANGED instances
      BY <2>3 DEF MarkCompleted, Base, TypeInv, TypeOK
    <3>4. /\ stepInstances'[a].completed_at
          /\ stepInstances'[a].result_code = call[r].rule
          /\ stepInstances'[a].workflow_step_id = FromStep(call[r])
          /\ stepInstances'[a].workflow_instance_id = call[r].instance
      BY <3>1, <3>2, <3>3 DEF Completed, StepInstanceRow, StepInstancesOf
    <3>5. QED
      BY <3>1, <3>3, <3>4 DEF ListActiveOutgoing
  <2>4. QED
    BY <1>1, <1>3, <2>1, <2>2, <2>3, StepInstanceWriters
<1>4. QED
  BY <1>2, <1>3

\* The audit trail is truthful for every interleaving: a completed step
\* instance names an active rule of its instance's template that leaves its own
\* step, although markCompleted writes on the strength of rows read earlier.
THEOREM AuditTrailIsTruthful == Spec => []AuditTrailFits
<1>1. Init => AuditTrailFits
  BY DEF Init, AuditTrailFits
<1>2. QED
  BY <1>1, SpecBase, NextAuditTrailFits, PTL DEF Spec

\* SuccessIsStored made inductive: what a handler has stored by the time it
\* awaits its last call.
StoredBefore(r) ==
  /\ pc[r] \in {"idle", "create_initial_step_instance"} => call[r] = NULL
  /\ pc[r] = "log_action" =>
       (TerminalFlag[ToStep(call[r])] => instances[call[r].instance].completed_at)

StoredAll(r) ==
  pc[r] = "respond" =>
    IF call[r] = NULL
    THEN /\ instances[r] # NULL
         /\ r \in StepInstancesOf(r)
    ELSE /\ r \in StepInstancesOf(call[r].instance)
         /\ instances[call[r].instance] # NULL
         /\ stepInstances[r].workflow_step_id = ToStep(call[r])
         /\ TerminalFlag[ToStep(call[r])] => instances[call[r].instance].completed_at
         /\ (call[r].automation # NULL) <=> (actionLogs[r] # NULL)

Stored == \A r \in Requests : StoredBefore(r) /\ StoredAll(r)

LEMMA StoredWhileWaiting ==
  ASSUME Base, Stored, [Next]_vars, NEW q \in Requests, pc'[q] = pc[q], call'[q] = call[q],
         actionLogs'[q] = actionLogs[q]
  PROVE  StoredBefore(q)' /\ StoredAll(q)'
<1>1. TypeInv /\ RowsKept
  BY NextRowsKept DEF Base
<1>2. StoredBefore(q) /\ StoredAll(q)
  BY DEF Stored
<1>3. CASE pc[q] \in {"idle", "create_initial_step_instance"}
  BY <1>2, <1>3 DEF StoredBefore, StoredAll
<1>4. CASE pc[q] = "log_action"
  <2>1. PICK i \in Requests : i = call[q].instance /\ instances[i] # NULL
    BY <1>1, <1>4 DEF TypeInv, CallTyped, PcAdvance, AdvanceCall
  <2>2. QED
    BY <1>1, <1>2, <1>4, <2>1 DEF StoredBefore, StoredAll, RowsKept, InstanceKept, ToStep
<1>5. CASE pc[q] = "respond" /\ call[q] = NULL
  <2>1. instances[q] # NULL /\ q \in StepInstancesOf(q)
    BY <1>2, <1>5 DEF StoredAll
  <2>2. instances'[q] # NULL /\ q \in StepInstancesOf(q)'
    BY <1>1, <2>1, StepInstancesStay DEF RowsKept, InstanceKept
  <2>3. QED
    BY <1>5, <2>2 DEF StoredBefore, StoredAll
<1>6. CASE pc[q] = "respond" /\ call[q] # NULL
  <2>1. PICK i \in Requests : i = call[q].instance
    BY <1>1, <1>6 DEF TypeInv, TypeOK, AdvanceCall
  <2>2. /\ q \in StepInstancesOf(i) /\ instances[i] # NULL
        /\ stepInstances[q].workflow_step_id = ToStep(call[q])
        /\ TerminalFlag[ToStep(call[q])] => instances[i].completed_at
        /\ (call[q].automation # NULL) <=> (actionLogs[q] # NULL)
    BY <1>2, <1>6, <2>1 DEF StoredAll
  <2>3. /\ q \in StepInstancesOf(i)'
        /\ stepInstances'[q].workflow_step_id = stepInstances[q].workflow_step_id
    BY <1>1, <2>2, StepInstancesStay
  <2>4. /\ instances'[i] # NULL
        /\ instances[i].completed_at => instances'[i].completed_at
    BY <1>1, <2>2 DEF RowsKept, InstanceKept
  <2>5. QED
    BY <1>6, <2>1, <2>2, <2>3, <2>4 DEF StoredBefore, StoredAll, ToStep, StepInstancesOf
<1>7. CASE pc[q] \notin {"idle", "create_initial_step_instance", "log_action", "respond"}
  BY <1>7 DEF StoredBefore, StoredAll
<1>8. QED
  BY <1>3, <1>4, <1>5, <1>6, <1>7

LEMMA NextStored == Base /\ Stored /\ [Next]_vars => Stored'
<1> SUFFICES ASSUME Base, Stored, [Next]_vars PROVE Stored'
  OBVIOUS
<1>1. TypeInv /\ TypeInv' /\ RowsKept
  BY NextRowsKept, NextTypeInv DEF Base
<1>2. ASSUME NEW r \in Requests, Arrive(r) \/ Proceed(r) \/ FailPendingCall(r)
      PROVE  StoredBefore(r)' /\ StoredAll(r)'
  <2> USE <1>1 DEF TypeInv, TypeOK
  <2>1. CASE RefuseCreate(r) \/ RefuseAdvance(r) \/ RefuseLog(r) \/ Answer(r) \/ FailPendingCall(r)
    BY <2>1 DEF RefuseCreate, RefuseAdvance, RefuseLog, Answer, FailPendingCall, Respond,
                StoredBefore, StoredAll
  <2>2. CASE AcceptAdvance(r) \/ FindActive(r) \/ MarkCompleted(r) \/ CreateStepInstance(r)
    BY <2>2 DEF AcceptAdvance, FindActive, AfterFind, MarkCompleted, CreateStepInstance, Await,
                StoredBefore, StoredAll
  <2>3. CASE CreateInstance(r)
    BY <2>3 DEF CreateInstance, Await, Stored, StoredBefore, StoredAll
  <2>4. CASE CreateInitialStepInstance(r)
    <3>1. /\ stepInstances'[r] = NewStepInstance(r, initialStep[r])
          /\ stepInstances'[r] \in StepInstanceRow
          /\ instances[r] # NULL
      BY <2>4, InsertedRow
    <3>a. stepInstances'[r].workflow_instance_id = r
      BY <3>1 DEF NewStepInstance
    <3>b. stepInstances'[r] # NULL
      BY <3>1, NullRowAssumption
    <3>2. r \in StepInstancesOf(r)'
      BY <3>a, <3>b DEF StepInstancesOf
    <3>3. pc'[r] = "respond" /\ call'[r] = NULL /\ instances'[r] # NULL
      BY <2>4, <3>1 DEF CreateInitialStepInstance, Await, Stored, StoredBefore
    <3>4. QED
      BY <3>2, <3>3 DEF StoredBefore, StoredAll
  <2>5. CASE ApplyAdvance(r)
    <3>1. PICK i \in Requests : i = call[r].instance /\ instances[i] # NULL
      BY <2>5 DEF ApplyAdvance, CallTyped, PcAdvance, AdvanceCall
    <3>2. /\ instances'[i] = Advanced(instances[i], ToStep(call[r]))
          /\ instances[i] \in InstanceRow
          /\ call[r] # NULL
      BY <2>5, <3>1, NullRowAssumption DEF ApplyAdvance, CallTyped, PcAdvance
    <3>3. TerminalFlag[ToStep(call[r])] => instances'[i].completed_at
      BY <3>2 DEF Advanced, InstanceRow
    <3>4. instances'[i] # NULL
      BY <3>1 DEF RowsKept, InstanceKept
    <3>5. /\ r \in StepInstancesOf(i)
          /\ stepInstances[r].workflow_step_id = ToStep(call[r])
          /\ actionLogs[r] = NULL
      BY <2>5, <3>1 DEF ApplyAdvance, Base, CallFits, FreshRows, PcAdvance
    <3>6. UNCHANGED <<stepInstances, actionLogs, call>>
      BY <2>5 DEF ApplyAdvance
    <3>7. pc'[r] = AfterAdvance(call[r])
      BY <2>5 DEF ApplyAdvance, Await
    <3>8. r \in StepInstancesOf(i)'
      BY <3>5, <3>6 DEF StepInstancesOf
    <3>9. QED
      BY <3>1, <3>2, <3>3, <3>4, <3>5, <3>6, <3>7, <3>8
      DEF AfterAdvance, StoredBefore, StoredAll, ToStep, StepInstancesOf
  <2>6. CASE CreateActionLog(r)
    <3>1. PICK i \in Requests : i = call[r].instance /\ instances[i] # NULL
      BY <2>6 DEF CreateActionLog, CallTyped, PcAdvance, AdvanceCall
    <3>2. /\ r \in StepInstancesOf(i)
          /\ stepInstances[r].workflow_step_id = ToStep(call[r])
          /\ TerminalFlag[ToStep(call[r])] => instances[i].completed_at
          /\ call[r] \in AdvanceCall /\ call[r].automation # NULL
      BY <2>6, <3>1
      DEF CreateActionLog, Base, CallFits, CallTyped, PcAdvance, Stored, StoredBefore
    <3>3. pc'[r] = "respond" /\ UNCHANGED <<instances, stepInstances, call>>
      BY <2>6 DEF CreateActionLog, Await
    <3>4. [workflow_instance_id |-> call[r].instance, workflow_step_instance_id |-> r,
           automation_action_id |-> call[r].automation] \in ActionLogRow
      BY <3>2 DEF AdvanceCall, ActionLogRow
    <3>5. actionLogs'[r] # NULL
      BY <2>6, <3>4, NullRowAssumption DEF CreateActionLog
    <3>6. QED
      BY <3>1, <3>2, <3>3, <3>5, NullRowAssumption
      DEF StoredBefore, StoredAll, ToStep, StepInstancesOf
  <2>7. QED
    BY <1>2, <2>1, <2>2, <2>3, <2>4, <2>5, <2>6 DEF Arrive, Proceed
<1>3. ASSUME NEW r \in Requests, Arrive(r) \/ Proceed(r) \/ FailPendingCall(r),
             NEW q \in Requests \ {r}
      PROVE  actionLogs'[q] = actionLogs[q]
  <2>1. CASE CreateActionLog(r)
    BY <1>1, <2>1 DEF CreateActionLog, TypeInv, TypeOK
  <2>2. CASE ~CreateActionLog(r)
    BY <1>3, <2>2
    DEF Arrive, Proceed, RefuseCreate, CreateInstance, RefuseAdvance, AcceptAdvance,
        CreateInitialStepInstance, FindActive, MarkCompleted, CreateStepInstance, ApplyAdvance,
        RefuseLog, Answer, FailPendingCall, tables
  <2>3. QED
    BY <2>1, <2>2
<1>4. CASE UNCHANGED vars
  BY <1>4, StoredWhileWaiting DEF Stored, vars
<1>5. ASSUME NEW i \in Requests, CancelExternally(i) PROVE Stored'
  BY <1>5, StoredWhileWaiting DEF Stored, CancelExternally
<1>6. ASSUME NEW r \in Requests, Arrive(r) \/ Proceed(r) \/ FailPendingCall(r)
      PROVE  Stored'
  <2>1. ASSUME NEW q \in Requests \ {r} PROVE pc'[q] = pc[q] /\ call'[q] = call[q]
    <3>1. CASE RefuseCreate(r) \/ RefuseAdvance(r) \/ RefuseLog(r) \/ Answer(r)
               \/ FailPendingCall(r)
      BY <1>1, <3>1 DEF RefuseCreate, RefuseAdvance, RefuseLog, Answer, FailPendingCall,
                        Respond, TypeInv, TypeOK
    <3>2. CASE CreateInstance(r) \/ AcceptAdvance(r) \/ FindActive(r)
               \/ CreateInitialStepInstance(r) \/ CreateStepInstance(r)
      BY <1>1, <3>2 DEF CreateInstance, AcceptAdvance, FindActive, CreateInitialStepInstance,
                        CreateStepInstance, Await, TypeInv, TypeOK
    <3>3. CASE MarkCompleted(r) \/ ApplyAdvance(r) \/ CreateActionLog(r)
      BY <1>1, <3>3 DEF MarkCompleted, ApplyAdvance, CreateActionLog, Await, TypeInv, TypeOK
    <3>4. QED
      BY <1>6, <3>1, <3>2, <3>3 DEF Arrive, Proceed
  <2>2. ASSUME NEW q \in Requests \ {r} PROVE StoredBefore(q)' /\ StoredAll(q)'
    BY <1>3, <1>6, <2>1, StoredWhileWaiting
  <2>3. QED
    BY <1>2, <1>6, <2>2 DEF Stored
<1>7. QED
  BY <1>4, <1>5, <1>6 DEF Next

\* A 200 or 201 is never sent for an operation that is only partly stored, and
\* no overlapping advance takes back what it reports.
THEOREM SuccessMeansStored == Spec => []SuccessIsStored
<1>1. Init => Stored
  BY DEF Init, Stored, StoredBefore, StoredAll
<1>2. Stored => SuccessIsStored
  BY DEF Stored, StoredAll, SuccessIsStored
<1>3. QED
  BY <1>1, <1>2, SpecBase, NextStored, PTL DEF Spec

-----------------------------------------------------------------------------
(* The refinement: the engine implements WorkflowWalk.  For every set of   *)
(* requests and every configuration, and with any number of overlapping,   *)
(* failing and cancelled operations, an instance only walks along active   *)
(* rules.                                                                  *)

\* The mapping for one instance.
TemplateOf(i) == IF instances[i] = NULL THEN {} ELSE {instances[i].template}

ReachedBy(i) ==
  IF instances[i] = NULL THEN {}
  ELSE {initialStep[i]} \cup {stepInstances[a].workflow_step_id : a \in StepInstancesOf(i)}

PointerOf(i) == IF instances[i] = NULL THEN {} ELSE {instances[i].current_step_id}

Closed(i) == instances[i] # NULL /\ instances[i].completed_at

\* A suspended advance leaves from a step its instance has reached.
FromReached ==
  \A r \in Requests : pc[r] \in PcAdvance => FromStep(call[r]) \in ReachedBy(call[r].instance)

WalkInv == Base /\ PointerBacked /\ FromReached

LEMMA ReachedStays ==
  ASSUME Base, [Next]_vars, NEW i \in Requests
  PROVE  ReachedBy(i) \subseteq ReachedBy(i)'
<1>1. CASE instances[i] = NULL
  BY <1>1 DEF ReachedBy
<1>2. CASE instances[i] # NULL
  <2>1. TypeInv /\ RowsKept
    BY NextRowsKept DEF Base
  <2>2. initialStep'[i] = initialStep[i] /\ instances'[i] # NULL
    BY <1>2, <2>1, CreatePhase DEF RowsKept, InstanceKept
  <2>3. \A a \in StepInstancesOf(i) :
          /\ a \in StepInstancesOf(i)'
          /\ stepInstances'[a].workflow_step_id = stepInstances[a].workflow_step_id
    BY <2>1, StepInstancesStay
  <2>4. QED
    BY <1>2, <2>2, <2>3 DEF ReachedBy
<1>3. QED
  BY <1>1, <1>2

LEMMA PointerReached ==
  ASSUME PointerBacked, NEW i \in Requests, instances[i] # NULL
  PROVE  instances[i].current_step_id \in ReachedBy(i)
  BY DEF PointerBacked, ReachedBy

LEMMA NextFromReached == WalkInv /\ [Next]_vars => FromReached'
<1> SUFFICES ASSUME WalkInv, [Next]_vars PROVE FromReached'
  OBVIOUS
<1>1. Base /\ TypeInv
  BY DEF WalkInv, Base
<1> DEFINE Reached(r) == pc[r] \in PcAdvance => FromStep(call[r]) \in ReachedBy(call[r].instance)
\* A handler whose instance and rule do not change.
<1>2. ASSUME NEW q \in Requests, pc[q] \in PcAdvance,
             call'[q].instance = call[q].instance, call'[q].rule = call[q].rule
      PROVE  Reached(q)'
  <2>1. PICK i \in Requests : i = call[q].instance
    BY <1>1, <1>2 DEF TypeInv, CallTyped, AdvanceCall
  <2>2. FromStep(call[q]) \in ReachedBy(i)
    BY <1>2, <2>1 DEF WalkInv, FromReached
  <2>3. FromStep(call[q]) \in ReachedBy(i)'
    BY <1>1, <2>2, ReachedStays
  <2>4. QED
    BY <1>2, <2>1, <2>3 DEF FromStep
<1>3. ASSUME NEW q \in Requests, pc'[q] = pc[q], call'[q] = call[q] PROVE Reached(q)'
  BY <1>2, <1>3
<1>4. ASSUME NEW r \in Requests, Arrive(r) \/ Proceed(r) \/ FailPendingCall(r)
      PROVE  Reached(r)'
  <2> USE <1>1 DEF TypeInv, TypeOK, PcAdvance
  <2>1. CASE RefuseCreate(r) \/ RefuseAdvance(r) \/ RefuseLog(r) \/ Answer(r) \/ FailPendingCall(r)
    BY <2>1 DEF RefuseCreate, RefuseAdvance, RefuseLog, Answer, FailPendingCall, Respond
  <2>2. CASE CreateInstance(r) \/ CreateInitialStepInstance(r) \/ CreateActionLog(r)
    BY <2>2 DEF CreateInstance, CreateInitialStepInstance, CreateActionLog, Await
  <2>3. CASE AcceptAdvance(r)
    <3>1. PICK orgs \in CallerOrgSets, i \in Requests \ {r},
               requested \in Rules \cup {NULL}, automation \in Automations \cup {NULL} :
            /\ AdvanceRefusal(orgs, i, requested) = "none"
            /\ \E c \in AcceptedCalls(orgs, i, requested, automation) :
                 call' = [call EXCEPT ![r] = c]
      BY <2>3 DEF AcceptAdvance
    <3>2. orgs \in SUBSET Orgs
      BY <3>1, ConfigAssumption
    <3>3. PICK c \in AcceptedCalls(orgs, i, requested, automation) :
            call' = [call EXCEPT ![r] = c]
      BY <3>1
    <3>4. /\ c.instance = i /\ instances[i] # NULL
          /\ c.rule \in ListActiveOutgoing(instances[i].template, instances[i].current_step_id)
      BY <3>1, <3>2, AcceptedAdvance
    <3>5. FromStep(c) = instances[i].current_step_id
      BY <3>4 DEF ListActiveOutgoing, FromStep
    <3>6. FromStep(c) \in ReachedBy(i)'
      BY <1>1, <3>4, <3>5, PointerReached, ReachedStays DEF WalkInv
    <3>7. call'[r] = c
      BY <3>3
    <3>8. QED
      BY <3>4, <3>6, <3>7
  <2>4. CASE FindActive(r)
    <3>1. call[r] \in AdvanceCall /\ pc[r] \in PcAdvance
      BY <2>4 DEF FindActive, CallTyped
    <3>2. PICK a : call' = [call EXCEPT ![r].outgoing = a]
      BY <2>4 DEF FindActive
    <3>3. call'[r].instance = call[r].instance /\ call'[r].rule = call[r].rule
      BY <3>1, <3>2 DEF AdvanceCall
    <3>4. QED
      BY <1>2, <3>1, <3>3
  <2>5. CASE MarkCompleted(r) \/ CreateStepInstance(r) \/ ApplyAdvance(r)
    <3>1. pc[r] \in PcAdvance /\ call' = call
      BY <2>5 DEF MarkCompleted, CreateStepInstance, ApplyAdvance
    <3>2. QED
      BY <1>2, <3>1
  <2>6. QED
    BY <1>4, <2>1, <2>2, <2>3, <2>4, <2>5 DEF Arrive, Proceed
<1>5. CASE UNCHANGED vars
  BY <1>3, <1>5 DEF FromReached, vars
<1>6. CASE Next
  <2>1. \A q \in Requests : Reached(q)'
    BY <1>1, <1>3, <1>4, <1>6, OthersWait
  <2>2. QED
    BY <2>1 DEF FromReached
<1>7. QED
  BY <1>5, <1>6

LEMMA NextWalkInv == WalkInv /\ [Next]_vars => WalkInv'
  BY NextBase, NextPointerBacked, NextFromReached DEF WalkInv

-----------------------------------------------------------------------------
(* Each step of the engine is a step of the walk or a stutter.              *)

\* Steps that leave every instance's template, pointer and closing alone.
SameInstances(i) ==
  /\ TemplateOf(i)' = TemplateOf(i)
  /\ PointerOf(i)' = PointerOf(i)
  /\ Closed(i)' = Closed(i)

LEMMA MappingPointwise ==
  /\ WalkTemplate = [i \in Requests |-> TemplateOf(i)]
  /\ WalkReached = [i \in Requests |-> ReachedBy(i)]
  /\ WalkPointer = [i \in Requests |-> PointerOf(i)]
  /\ WalkClosed = {i \in Requests : Closed(i)}
  BY DEF WalkTemplate, WalkReached, WalkPointer, WalkClosed,
         TemplateOf, ReachedBy, PointerOf, Closed

LEMMA WalkStutters ==
  ASSUME \A i \in Requests : SameInstances(i) /\ ReachedBy(i)' = ReachedBy(i)
  PROVE  UNCHANGED Walk!walk
<1>1. /\ WalkTemplate' = [i \in Requests |-> TemplateOf(i)']
      /\ WalkReached' = [i \in Requests |-> ReachedBy(i)']
      /\ WalkPointer' = [i \in Requests |-> PointerOf(i)']
      /\ WalkClosed' = {i \in Requests : Closed(i)'}
  BY DEF WalkTemplate, WalkReached, WalkPointer, WalkClosed,
         TemplateOf, ReachedBy, PointerOf, Closed
<1>2. QED
  BY <1>1, MappingPointwise DEF SameInstances, Walk!walk

\* A created instance opens at an initial step of its template.
LEMMA CreateOpens ==
  ASSUME WalkInv, NEW r \in Requests, CreateInstance(r)
  PROVE  Walk!Open(r)
<1>1. TypeOK /\ instances[r] = NULL /\ ParentExists
  BY DEF WalkInv, Base, TypeInv, FreshRows, PcAdvance, CreateInstance
<1>2. PICK t \in Templates, s \in Steps :
        /\ s \in FindInitialStep(t)
        /\ instances' = [instances EXCEPT ![r] = NewInstance(t, s)]
        /\ initialStep' = [initialStep EXCEPT ![r] = s]
  BY DEF CreateInstance, FindInitialStep, InitialStepsOf
<1>3. UNCHANGED stepInstances
  BY DEF CreateInstance
<1>4. NewInstance(t, s) # NULL
  <2>1. NewInstance(t, s) \in InstanceRow
    BY <1>2 DEF NewInstance, InstanceRow, FindInitialStep, InitialStepsOf
  <2>2. QED
    BY <2>1, NullRowAssumption
<1>5. StepInstancesOf(r) = {} /\ StepInstancesOf(r)' = {}
  BY <1>1, <1>3 DEF StepInstancesOf, ParentExists
<1>6. /\ TemplateOf(r) = {} /\ TemplateOf(r)' = {t}
      /\ ReachedBy(r)' = {s} /\ PointerOf(r)' = {s}
      /\ ~Closed(r) /\ ~Closed(r)'
  <2>1. instances'[r] = NewInstance(t, s) /\ initialStep'[r] = s
    BY <1>1, <1>2 DEF TypeOK
  <2>2. /\ instances'[r].template = t /\ instances'[r].current_step_id = s
        /\ ~instances'[r].completed_at
    BY <2>1 DEF NewInstance
  <2>3. QED
    BY <1>1, <1>4, <1>5, <2>1, <2>2 DEF TemplateOf, ReachedBy, PointerOf, Closed
<1>7. ASSUME NEW i \in Requests \ {r}
      PROVE  SameInstances(i) /\ ReachedBy(i)' = ReachedBy(i)
  <2>1. instances'[i] = instances[i] /\ initialStep'[i] = initialStep[i]
    BY <1>1, <1>2 DEF TypeOK
  <2>2. QED
    BY <1>3, <2>1
    DEF SameInstances, TemplateOf, ReachedBy, PointerOf, Closed, StepInstancesOf
<1>8. /\ WalkTemplate' = [WalkTemplate EXCEPT ![r] = {t}]
      /\ WalkReached' = [WalkReached EXCEPT ![r] = {s}]
      /\ WalkPointer' = [WalkPointer EXCEPT ![r] = {s}]
      /\ WalkClosed' = WalkClosed
  <2>1. /\ WalkTemplate' = [i \in Requests |-> TemplateOf(i)']
        /\ WalkReached' = [i \in Requests |-> ReachedBy(i)']
        /\ WalkPointer' = [i \in Requests |-> PointerOf(i)']
        /\ WalkClosed' = {i \in Requests : Closed(i)'}
    BY DEF WalkTemplate, WalkReached, WalkPointer, WalkClosed,
           TemplateOf, ReachedBy, PointerOf, Closed
  <2>2. QED
    BY <1>6, <1>7, <2>1, MappingPointwise DEF SameInstances
<1>9. WalkTemplate[r] = {}
  BY <1>6, MappingPointwise
<1>10. s \in [u \in Templates |-> FindInitialStep(u)][t]
  BY <1>2
<1>11. QED
  BY <1>2, <1>8, <1>9, <1>10 DEF Walk!Open

\* The inserted step instance of an advance reaches the rule's target.
LEMMA InsertReaches ==
  ASSUME WalkInv, NEW r \in Requests, CreateStepInstance(r)
  PROVE  Walk!Reach(call[r].instance)
<1>1. TypeOK /\ stepInstances[r] = NULL
  BY DEF WalkInv, Base, TypeInv, FreshRows, PcBeforeInsert, CreateStepInstance
<1>2. PICK k \in Requests : k = call[r].instance /\ instances[k] # NULL
  BY DEF CreateStepInstance, WalkInv, Base, TypeInv, CallTyped, PcAdvance, AdvanceCall
<1>3. /\ call[r].rule \in ListActiveOutgoing(instances[k].template, FromStep(call[r]))
      /\ FromStep(call[r]) \in ReachedBy(k)
  BY <1>2 DEF CreateStepInstance, WalkInv, Base, CallFits, FromReached, PcAdvance
<1>4. /\ stepInstances'[r] = NewStepInstance(k, ToStep(call[r]))
      /\ stepInstances'[r] # NULL
  BY <1>2, InsertedRow, NullRowAssumption DEF WalkInv
<1>5. /\ stepInstances'[r].workflow_instance_id = k
      /\ stepInstances'[r].workflow_step_id = ToStep(call[r])
  BY <1>4 DEF NewStepInstance
<1>6. \A a \in Requests \ {r} : stepInstances'[a] = stepInstances[a]
  BY <1>1 DEF CreateStepInstance, InsertStepInstance, TypeOK
<1>7. UNCHANGED <<instances, initialStep>>
  BY DEF CreateStepInstance
<1>8. /\ StepInstancesOf(k)' = StepInstancesOf(k) \cup {r}
      /\ r \notin StepInstancesOf(k)
      /\ \A i \in Requests \ {k} : StepInstancesOf(i)' = StepInstancesOf(i)
      /\ \A i \in Requests : r \notin StepInstancesOf(i)
  BY <1>1, <1>4, <1>5, <1>6 DEF StepInstancesOf
<1>9. ReachedBy(k)' = ReachedBy(k) \cup {ToStep(call[r])}
  <2>1. {stepInstances'[a].workflow_step_id : a \in StepInstancesOf(k)'}
          = {stepInstances[a].workflow_step_id : a \in StepInstancesOf(k)} \cup {ToStep(call[r])}
    BY <1>5, <1>6, <1>8 DEF StepInstancesOf
  <2>2. QED
    BY <1>2, <1>7, <2>1 DEF ReachedBy
<1>10. \A i \in Requests : SameInstances(i)
  BY <1>7 DEF SameInstances, TemplateOf, PointerOf, Closed
<1>11. ASSUME NEW i \in Requests \ {k} PROVE ReachedBy(i)' = ReachedBy(i)
  <2>1. {stepInstances'[a].workflow_step_id : a \in StepInstancesOf(i)'}
          = {stepInstances[a].workflow_step_id : a \in StepInstancesOf(i)}
    BY <1>6, <1>8 DEF StepInstancesOf
  <2>2. QED
    BY <1>7, <2>1 DEF ReachedBy
<1>12. /\ WalkTemplate' = WalkTemplate /\ WalkPointer' = WalkPointer /\ WalkClosed' = WalkClosed
       /\ WalkReached' = [WalkReached EXCEPT ![k] = @ \cup {ToStep(call[r])}]
  <2>1. /\ WalkTemplate' = [i \in Requests |-> TemplateOf(i)']
        /\ WalkReached' = [i \in Requests |-> ReachedBy(i)']
        /\ WalkPointer' = [i \in Requests |-> PointerOf(i)']
        /\ WalkClosed' = {i \in Requests : Closed(i)'}
    BY DEF WalkTemplate, WalkReached, WalkPointer, WalkClosed,
           TemplateOf, ReachedBy, PointerOf, Closed
  <2>2. QED
    BY <1>9, <1>10, <1>11, <2>1, MappingPointwise DEF SameInstances
<1>13. /\ call[r].rule \in Rules /\ RuleActive[call[r].rule]
       /\ RuleTemplate[call[r].rule] \in WalkTemplate[k]
       /\ RuleFrom[call[r].rule] \in WalkReached[k]
  BY <1>2, <1>3, MappingPointwise DEF ListActiveOutgoing, FromStep, TemplateOf
<1>14. QED
  BY <1>2, <1>12, <1>13 DEF Walk!Reach, ToStep

\* The pointer comes to rest on the step the advance has reached.
LEMMA ApplyRests ==
  ASSUME WalkInv, NEW r \in Requests, ApplyAdvance(r)
  PROVE  Walk!Rest(call[r].instance)
<1>1. TypeOK /\ pc[r] = "apply_advance"
  BY DEF WalkInv, Base, TypeInv, ApplyAdvance
<1>2. PICK k \in Requests : k = call[r].instance /\ instances[k] # NULL
  BY DEF ApplyAdvance, WalkInv, Base, TypeInv, CallTyped, PcAdvance, AdvanceCall
<1>3. PICK s \in Steps : s = ToStep(call[r])
  <2>1. call[r].rule \in Rules
    BY <1>1 DEF WalkInv, Base, TypeInv, CallTyped, PcAdvance, AdvanceCall
  <2>2. QED
    BY <2>1, ConfigAssumption DEF ToStep
<1>4. s \in ReachedBy(k)
  BY <1>1, <1>2, <1>3 DEF WalkInv, Base, CallFits, PcAdvance, ReachedBy
<1>5. instances' = [instances EXCEPT ![k] = Advanced(instances[k], s)]
  BY <1>2, <1>3 DEF ApplyAdvance
<1>6. instances[k] \in InstanceRow
  BY <1>1, <1>2 DEF TypeOK
<1>7. Advanced(instances[k], s) # NULL
  <2>1. Advanced(instances[k], s) \in InstanceRow
    BY <1>3, <1>6, ConfigAssumption DEF Advanced, InstanceRow
  <2>2. QED
    BY <2>1, NullRowAssumption
<1>8. /\ instances'[k] # NULL
      /\ instances'[k].template = instances[k].template
      /\ instances'[k].current_step_id = s
      /\ instances'[k].completed_at = (instances[k].completed_at \/ TerminalFlag[s])
  BY <1>1, <1>2, <1>5, <1>6, <1>7 DEF Advanced, InstanceRow, TypeOK
<1>9. /\ UNCHANGED <<stepInstances, initialStep>>
      /\ \A i \in Requests \ {k} : instances'[i] = instances[i]
  BY <1>1, <1>5 DEF ApplyAdvance, TypeOK
<1>10. \A i \in Requests : TemplateOf(i)' = TemplateOf(i) /\ ReachedBy(i)' = ReachedBy(i)
  BY <1>2, <1>8, <1>9 DEF TemplateOf, ReachedBy, StepInstancesOf
<1>11. /\ PointerOf(k)' = {s}
       /\ Closed(k)' = (Closed(k) \/ TerminalFlag[s])
       /\ \A i \in Requests \ {k} : PointerOf(i)' = PointerOf(i) /\ Closed(i)' = Closed(i)
  BY <1>2, <1>8, <1>9 DEF PointerOf, Closed
<1>12. /\ WalkTemplate' = WalkTemplate /\ WalkReached' = WalkReached
       /\ WalkPointer' = [WalkPointer EXCEPT ![k] = {s}]
       /\ WalkClosed' = IF TerminalFlag[s] THEN WalkClosed \cup {k} ELSE WalkClosed
  <2>1. /\ WalkTemplate' = [i \in Requests |-> TemplateOf(i)']
        /\ WalkReached' = [i \in Requests |-> ReachedBy(i)']
        /\ WalkPointer' = [i \in Requests |-> PointerOf(i)']
        /\ WalkClosed' = {i \in Requests : Closed(i)'}
    BY DEF WalkTemplate, WalkReached, WalkPointer, WalkClosed,
           TemplateOf, ReachedBy, PointerOf, Closed
  <2>2. WalkClosed' = IF TerminalFlag[s] THEN WalkClosed \cup {k} ELSE WalkClosed
    BY <1>11, <2>1, MappingPointwise
  <2>3. QED
    BY <1>10, <1>11, <2>1, <2>2, MappingPointwise
<1>13. s \in WalkReached[k]
  BY <1>4, MappingPointwise
<1>14. QED
  BY <1>2, <1>12, <1>13 DEF Walk!Rest

\* Steps that only touch handlers, logs or the completion of a step instance.
LEMMA OtherStepsStutter ==
  ASSUME WalkInv, [Next]_vars,
         \A r \in Requests : ~CreateInstance(r) /\ ~CreateStepInstance(r) /\ ~ApplyAdvance(r)
  PROVE  UNCHANGED Walk!walk
<1>1. Base /\ TypeInv /\ RowsKept
  BY NextRowsKept DEF WalkInv, Base
<1>2. ASSUME NEW i \in Requests PROVE SameInstances(i)
  <2>1. CASE instances'[i] = instances[i]
    BY <2>1 DEF SameInstances, TemplateOf, PointerOf, Closed
  <2>2. CASE instances'[i] # instances[i]
    <3>1. CancelExternally(i)
      BY <1>1, <2>2, InstanceWriters
    <3>2. /\ instances[i] \in InstanceRow
          /\ instances[i] # NULL /\ instances'[i] = Cancelled(instances[i])
      BY <1>1, <3>1 DEF CancelExternally, TypeInv, TypeOK
    <3>3. Cancelled(instances[i]) # NULL
      BY <1>1, <3>2 DEF RowsKept, InstanceKept
    <3>4. /\ instances'[i].template = instances[i].template
          /\ instances'[i].current_step_id = instances[i].current_step_id
          /\ instances'[i].completed_at = instances[i].completed_at
      BY <3>2 DEF Cancelled, InstanceRow
    <3>5. QED
      BY <3>2, <3>3, <3>4 DEF SameInstances, TemplateOf, PointerOf, Closed
  <2>3. QED
    BY <2>1, <2>2
<1>3. ASSUME NEW i \in Requests PROVE ReachedBy(i)' = ReachedBy(i)
  <2>1. ReachedBy(i) \subseteq ReachedBy(i)'
    BY <1>1, ReachedStays
  <2>2. CASE instances[i] = NULL
    <3>1. instances'[i] = NULL
      <4>1. ~CancelExternally(i)
        BY <2>2 DEF CancelExternally
      <4>2. QED
        BY <1>1, <2>2, <4>1, InstanceWriters
    <3>2. QED
      BY <2>2, <3>1 DEF ReachedBy
  <2>3. CASE instances[i] # NULL
    <3>1. initialStep'[i] = initialStep[i] /\ instances'[i] # NULL
      BY <1>1, <2>3, CreatePhase DEF RowsKept, InstanceKept
    <3>2. ASSUME NEW a \in Requests, stepInstances'[a] # NULL,
                 stepInstances'[a].workflow_instance_id = i
          PROVE  stepInstances'[a].workflow_step_id \in ReachedBy(i)
      <4>1. CASE stepInstances[a] # NULL
        BY <1>1, <2>3, <3>2, <4>1
        DEF RowsKept, StepInstanceKept, ReachedBy, StepInstancesOf
      <4>2. CASE stepInstances[a] = NULL
        <5>1. ASSUME NEW r \in Requests, MarkCompleted(r), call[r].outgoing = a PROVE FALSE
          BY <1>1, <4>2, <5>1 DEF MarkCompleted, TypeInv, CallTyped, PcAdvance
        <5>2. CreateInitialStepInstance(a)
          BY <1>1, <3>2, <4>2, <5>1, StepInstanceWriters
        <5>3. stepInstances'[a] = NewStepInstance(a, initialStep[a])
          BY <1>1, <5>2, InsertedRow
        <5>4. i = a /\ stepInstances'[a].workflow_step_id = initialStep[a]
          BY <3>2, <5>3 DEF NewStepInstance
        <5>5. QED
          BY <2>3, <5>4 DEF ReachedBy
      <4>3. QED
        BY <4>1, <4>2
    <3>3. ReachedBy(i)' \subseteq ReachedBy(i)
      BY <2>3, <3>1, <3>2 DEF ReachedBy, StepInstancesOf
    <3>4. QED
      BY <2>1, <3>3
  <2>4. QED
    BY <2>2, <2>3
<1>4. QED
  BY <1>2, <1>3, WalkStutters

LEMMA InitWalk == Init => Walk!Init /\ WalkInv
<1>1. Init => WalkInv
  BY InitBase DEF Init, WalkInv, PointerBacked, FromReached, PcAdvance
<1>2. Init => Walk!Init
  BY DEF Init, Walk!Init, WalkTemplate, WalkReached, WalkPointer, WalkClosed
<1>3. QED
  BY <1>1, <1>2

\* The engine implements WorkflowWalk: overlaps, failures and cancellations
\* included, every step an instance reaches is the target of an active rule of
\* its template from a step it reached before, and the pointer rests only on
\* reached steps.
THEOREM EngineWalksTheGraph == Spec => WalksTheGraph
<1>1. WalkInv /\ [Next]_vars => [Walk!Next]_(Walk!walk)
  <2> SUFFICES ASSUME WalkInv, [Next]_vars PROVE [Walk!Next]_(Walk!walk)
    OBVIOUS
  <2>1. ASSUME NEW r \in Requests, CreateInstance(r) PROVE Walk!Next
    BY <2>1, CreateOpens DEF Walk!Next
  <2>2. ASSUME NEW r \in Requests, CreateStepInstance(r) PROVE Walk!Next
    <3>1. call[r].instance \in Requests
      BY <2>2 DEF CreateStepInstance, WalkInv, Base, TypeInv, CallTyped, PcAdvance, AdvanceCall
    <3>2. QED
      BY <2>2, <3>1, InsertReaches DEF Walk!Next
  <2>3. ASSUME NEW r \in Requests, ApplyAdvance(r) PROVE Walk!Next
    <3>1. call[r].instance \in Requests
      BY <2>3 DEF ApplyAdvance, WalkInv, Base, TypeInv, CallTyped, PcAdvance, AdvanceCall
    <3>2. QED
      BY <2>3, <3>1, ApplyRests DEF Walk!Next
  <2>4. QED
    BY <2>1, <2>2, <2>3, OtherStepsStutter
<1>2. QED
  BY <1>1, InitWalk, NextWalkInv, PTL DEF Spec, WalksTheGraph, Walk!Spec

-----------------------------------------------------------------------------
(* Requests served one at a time: the engine implements WorkflowToken.      *)

\* a is the newest step instance of i, and every other one is completed.
NewestOf(i, a) ==
  /\ a \in StepInstancesOf(i)
  /\ \A b \in StepInstancesOf(i) \ {a} :
       /\ stepInstances[b].completed_at
       /\ stepInstances[b].created_at < stepInstances[a].created_at

\* Nobody works on i: its newest step instance is open, on the pointer's step.
Rests(i) ==
  \E a \in Requests :
    /\ NewestOf(i, a)
    /\ ~stepInstances[a].completed_at
    /\ stepInstances[a].workflow_step_id = instances[i].current_step_id

\* Between the completion of the outgoing step instance and the advance of the
\* pointer, or before the first step instance.
Busy(i) ==
  \/ pc[i] = "create_initial_step_instance"
  \/ \E r \in Requests : /\ pc[r] \in {"create_step_instance", "apply_advance"}
                         /\ call[r].instance = i

RestingRows == \A i \in Requests : instances[i] # NULL /\ ~Busy(i) => Rests(i)

\* The outgoing step instance is completed on the picked rule.
Outgoing(r) ==
  LET a == call[r].outgoing
  IN /\ a \in StepInstancesOf(call[r].instance)
     /\ stepInstances[a].completed_at
     /\ stepInstances[a].result_code = call[r].rule

\* What a handler that is not disturbed may rely on at each of its awaits.
Ready(r) ==
  /\ pc[r] = "create_initial_step_instance" =>
       /\ instances[r].current_step_id = initialStep[r]
       /\ StepInstancesOf(r) = {}
  /\ pc[r] \in {"find_active", "mark_completed", "create_step_instance", "apply_advance"} =>
       /\ FromStep(call[r]) = instances[call[r].instance].current_step_id
       /\ ~IsInstanceTerminal(instances[call[r].instance])
  /\ pc[r] = "mark_completed" => ~stepInstances[call[r].outgoing].completed_at
  /\ pc[r] = "create_step_instance" =>
       Outgoing(r) /\ NewestOf(call[r].instance, call[r].outgoing)
  /\ pc[r] = "apply_advance" =>
       /\ Outgoing(r) /\ call[r].outgoing # r
       /\ NewestOf(call[r].instance, r) /\ ~stepInstances[r].completed_at
       /\ \A b \in StepInstancesOf(call[r].instance) \ {r, call[r].outgoing} :
            stepInstances[b].created_at < stepInstances[call[r].outgoing].created_at

OneAtATime == \A r, q \in Requests : InFlight(r) /\ InFlight(q) => r = q

StoredRows == {a \in Requests : stepInstances[a] # NULL}

Dated == \A a \in StoredRows : stepInstances[a].created_at < clock

SerialInv ==
  /\ Base
  /\ OneAtATime
  /\ IsFiniteSet(StoredRows)
  /\ Dated
  /\ \A r \in Requests : Ready(r)
  /\ RestingRows

\* The only request being served, before and after a step of r.
Alone(r) ==
  \A q \in Requests \ {r} :
    /\ ~InFlight(q) /\ ~InFlight(q)'
    /\ pc'[q] = pc[q] /\ call'[q] = call[q] /\ initialStep'[q] = initialStep[q]

BusyFor(r, i) ==
  \/ pc[r] = "create_initial_step_instance" /\ r = i
  \/ pc[r] \in {"create_step_instance", "apply_advance"} /\ call[r].instance = i

LEMMA MovesAlone ==
  ASSUME Base, OneAtATime, NEW r \in Requests, (Quiescent /\ Arrive(r)) \/ Proceed(r)
  PROVE  /\ Alone(r)
         /\ OneAtATime'
         /\ \A i \in Requests : Busy(i) <=> BusyFor(r, i)
         /\ \A i \in Requests : Busy(i)' <=> BusyFor(r, i)'
         /\ \A q \in Requests \ {r} : Ready(q)'
<1>1. \A q \in Requests \ {r} : ~InFlight(q)
  <2>1. ASSUME Proceed(r) PROVE InFlight(r)
    BY <2>1 DEF Proceed, CreateInitialStepInstance, FindActive, MarkCompleted,
                CreateStepInstance, ApplyAdvance, RefuseLog, CreateActionLog, Answer, InFlight
  <2>2. QED
    BY <2>1 DEF OneAtATime, Quiescent
<1>2. Alone(r)
  BY <1>1, HandlerMoves DEF Base, Alone, InFlight
<1>3. QED
  BY <1>2 DEF Alone, OneAtATime, InFlight, Busy, BusyFor, Ready

LEMMA InitSerialInv == Init => SerialInv
<1> SUFFICES ASSUME Init PROVE SerialInv
  OBVIOUS
<1>1. StoredRows = {}
  BY DEF Init, StoredRows
<1>2. IsFiniteSet(StoredRows) /\ Dated
  BY <1>1, FS_EmptySet DEF Dated
<1>3. OneAtATime /\ RestingRows /\ \A r \in Requests : Ready(r)
  BY DEF Init, OneAtATime, InFlight, RestingRows, Ready
<1>4. QED
  BY <1>2, <1>3, InitBase DEF SerialInv

LEMMA SerialStepIsStep == [SerialNext]_vars => [Next]_vars
  BY DEF SerialNext, Next

\* What an insert does to the step instances of every instance.
LEMMA InsertedUnder ==
  ASSUME Base, NEW r \in Requests, NEW i \in Requests, NEW s,
         \/ CreateInitialStepInstance(r) /\ i = r /\ s = initialStep[r]
         \/ CreateStepInstance(r) /\ i = call[r].instance /\ s = ToStep(call[r])
  PROVE  /\ \A k \in Requests : r \notin StepInstancesOf(k)
         /\ StepInstancesOf(i)' = StepInstancesOf(i) \cup {r}
         /\ \A k \in Requests \ {i} : StepInstancesOf(k)' = StepInstancesOf(k)
         /\ \A a \in Requests \ {r} : stepInstances'[a] = stepInstances[a]
         /\ StoredRows' = StoredRows \cup {r} /\ r \notin StoredRows
         /\ stepInstances'[r].workflow_step_id = s
         /\ ~stepInstances'[r].completed_at
         /\ stepInstances'[r].created_at = clock
         /\ clock' = clock + 1 /\ clock \in Nat
         /\ UNCHANGED instances
<1>1. TypeOK /\ stepInstances[r] = NULL
  BY DEF Base, TypeInv, FreshRows, PcBeforeInsert, CreateInitialStepInstance, CreateStepInstance
<1>2. stepInstances'[r] = NewStepInstance(i, s) /\ stepInstances'[r] # NULL
  BY InsertedRow, NullRowAssumption
<1>3. \A a \in Requests \ {r} : stepInstances'[a] = stepInstances[a]
  BY <1>1 DEF CreateInitialStepInstance, CreateStepInstance, InsertStepInstance, TypeOK
<1>4. clock' = clock + 1 /\ clock \in Nat /\ UNCHANGED instances
  BY <1>1 DEF CreateInitialStepInstance, CreateStepInstance, InsertStepInstance, TypeOK
<1>5. /\ stepInstances'[r].workflow_instance_id = i
      /\ stepInstances'[r].workflow_step_id = s
      /\ ~stepInstances'[r].completed_at
      /\ stepInstances'[r].created_at = clock
  BY <1>2 DEF NewStepInstance
<1>6. QED
  BY <1>1, <1>2, <1>3, <1>4, <1>5 DEF StepInstancesOf, StoredRows

\* What a completion does to them: one open row is closed in its place.
LEMMA CompletedInPlace ==
  ASSUME Base, NEW r \in Requests, MarkCompleted(r), NEW a, a = call[r].outgoing
  PROVE  /\ a \in Requests /\ stepInstances[a] # NULL
         /\ \A k \in Requests : StepInstancesOf(k)' = StepInstancesOf(k)
         /\ \A b \in Requests \ {a} : stepInstances'[b] = stepInstances[b]
         /\ StoredRows' = StoredRows
         /\ stepInstances'[a].completed_at
         /\ stepInstances'[a].result_code = call[r].rule
         /\ stepInstances'[a].created_at = stepInstances[a].created_at
         /\ UNCHANGED <<instances, clock>>
<1>1. /\ a \in Requests /\ stepInstances[a] # NULL /\ stepInstances[a] \in StepInstanceRow
      /\ call[r].rule \in Rules /\ TypeOK
  BY DEF MarkCompleted, Base, TypeInv, TypeOK, CallTyped, PcAdvance, AdvanceCall
<1>2. stepInstances'[a] = Completed(stepInstances[a], call[r].rule)
  BY <1>1 DEF MarkCompleted, TypeOK
<1>3. \A b \in Requests \ {a} : stepInstances'[b] = stepInstances[b]
  BY <1>1 DEF MarkCompleted, TypeOK
<1>4. Completed(stepInstances[a], call[r].rule) \in StepInstanceRow
  BY <1>1 DEF Completed, StepInstanceRow
<1>5. stepInstances'[a] # NULL
  BY <1>2, <1>4, NullRowAssumption
<1>6. /\ stepInstances'[a].completed_at
      /\ stepInstances'[a].result_code = call[r].rule
      /\ stepInstances'[a].created_at = stepInstances[a].created_at
      /\ stepInstances'[a].workflow_instance_id = stepInstances[a].workflow_instance_id
  BY <1>1, <1>2 DEF Completed, StepInstanceRow
<1>7. UNCHANGED <<instances, clock>>
  BY DEF MarkCompleted
<1>8. QED
  BY <1>1, <1>3, <1>5, <1>6, <1>7 DEF StepInstancesOf, StoredRows

\* Every other step leaves the step instances alone.
LEMMA StepInstancesUntouched ==
  ASSUME [Next]_vars,
         \A r \in Requests : /\ ~CreateInitialStepInstance(r)
                             /\ ~CreateStepInstance(r) /\ ~MarkCompleted(r)
  PROVE  UNCHANGED <<stepInstances, clock>>
  BY DEF Next, Arrive, Proceed, RefuseCreate, CreateInstance, RefuseAdvance, AcceptAdvance,
         FindActive, ApplyAdvance, RefuseLog, CreateActionLog, Answer, FailPendingCall,
         CancelExternally, vars, tables

\* Only finitely many rows are ever stored, and each is older than the clock.
LEMMA NextStoredRows ==
  Base /\ IsFiniteSet(StoredRows) /\ Dated /\ [Next]_vars => IsFiniteSet(StoredRows') /\ Dated'
<1> SUFFICES ASSUME Base, IsFiniteSet(StoredRows), Dated, [Next]_vars
             PROVE  IsFiniteSet(StoredRows') /\ Dated'
  OBVIOUS
<1>0. \A a \in StoredRows : stepInstances[a].created_at \in Nat
  BY DEF Base, TypeInv, TypeOK, StoredRows, StepInstanceRow
<1>1. ASSUME NEW r \in Requests, CreateInitialStepInstance(r) \/ CreateStepInstance(r)
      PROVE  IsFiniteSet(StoredRows') /\ Dated'
  <2>1. PICK i, s :
          /\ i \in Requests
          /\ \/ CreateInitialStepInstance(r) /\ i = r /\ s = initialStep[r]
             \/ CreateStepInstance(r) /\ i = call[r].instance /\ s = ToStep(call[r])
    BY <1>1 DEF Base, TypeInv, CallTyped, PcAdvance, AdvanceCall, CreateStepInstance
  <2>2. /\ \A a \in Requests \ {r} : stepInstances'[a] = stepInstances[a]
        /\ StoredRows' = StoredRows \cup {r} /\ r \notin StoredRows
        /\ stepInstances'[r].created_at = clock
        /\ clock' = clock + 1 /\ clock \in Nat
    BY <2>1, InsertedUnder
  <2>3. IsFiniteSet(StoredRows')
    BY <2>2, FS_AddElement
  <2>4. Dated'
    BY <1>0, <2>2 DEF Dated, StoredRows
  <2>5. QED
    BY <2>3, <2>4
<1>2. ASSUME NEW r \in Requests, MarkCompleted(r)
      PROVE  IsFiniteSet(StoredRows') /\ Dated'
  <2>1. PICK a : a = call[r].outgoing
    OBVIOUS
  <2>2. /\ \A b \in Requests \ {a} : stepInstances'[b] = stepInstances[b]
        /\ StoredRows' = StoredRows /\ UNCHANGED clock
        /\ stepInstances'[a].created_at = stepInstances[a].created_at
    BY <1>2, <2>1, CompletedInPlace
  <2>3. QED
    BY <2>2 DEF Dated, StoredRows
<1>3. CASE UNCHANGED <<stepInstances, clock>>
  BY <1>3 DEF Dated, StoredRows
<1>4. QED
  BY <1>1, <1>2, <1>3, StepInstancesUntouched

LEMMA RestsStays ==
  ASSUME NEW i \in Requests, Rests(i),
         StepInstancesOf(i)' = StepInstancesOf(i),
         \A a \in StepInstancesOf(i) : stepInstances'[a] = stepInstances[a],
         instances'[i].current_step_id = instances[i].current_step_id
  PROVE  Rests(i)'
<1>1. PICK a \in Requests :
        /\ NewestOf(i, a)
        /\ ~stepInstances[a].completed_at
        /\ stepInstances[a].workflow_step_id = instances[i].current_step_id
  BY DEF Rests
<1>2. NewestOf(i, a)'
  BY <1>1 DEF NewestOf
<1>3. stepInstances'[a] = stepInstances[a]
  BY <1>1 DEF NewestOf
<1>4. QED
  BY <1>1, <1>2, <1>3 DEF Rests

\* Steps that touch neither a row nor the pointer.
LEMMA QuietStep ==
  ASSUME SerialInv, NEW r \in Requests, Alone(r),
         \A i \in Requests : Busy(i) <=> BusyFor(r, i),
         \A i \in Requests : Busy(i)' <=> BusyFor(r, i)',
         UNCHANGED tables,
         \A i \in Requests : BusyFor(r, i) => BusyFor(r, i)'
  PROVE  RestingRows'
<1>1. ASSUME NEW i \in Requests, instances'[i] # NULL, ~Busy(i)' PROVE Rests(i)'
  <2>1. Rests(i)
    BY <1>1 DEF SerialInv, RestingRows, tables
  <2>2. QED
    BY <2>1, RestsStays DEF tables, StepInstancesOf
<1>2. QED
  BY <1>1 DEF RestingRows

LEMMA ArriveReady ==
  ASSUME SerialInv, NEW r \in Requests, Quiescent, Arrive(r)
  PROVE  Ready(r)' /\ RestingRows'
<1>0. /\ Base /\ Alone(r)
      /\ \A i \in Requests : Busy(i) <=> BusyFor(r, i)
      /\ \A i \in Requests : Busy(i)' <=> BusyFor(r, i)'
  BY MovesAlone DEF SerialInv
<1>t. TypeOK /\ pc[r] = "idle" /\ pc'[r] \in PcAll
  BY <1>0, InitTypeInv, NextTypeInv
  DEF Base, TypeInv, TypeOK, Arrive, RefuseCreate, CreateInstance, RefuseAdvance, AcceptAdvance,
      Respond, Await, PcAll, PcAdvance
<1>n. \A i \in Requests : ~BusyFor(r, i)
  BY <1>t DEF BusyFor
<1>1. CASE RefuseCreate(r) \/ RefuseAdvance(r)
  <2>1. pc'[r] = "done" /\ UNCHANGED tables
    BY <1>1, <1>t DEF RefuseCreate, RefuseAdvance, Respond, TypeOK
  <2>2. Ready(r)'
    BY <2>1 DEF Ready
  <2>3. QED
    BY <1>0, <1>n, <2>1, <2>2, QuietStep
<1>2. CASE CreateInstance(r)
  <2>1. PICK t \in Templates, s \in Steps :
          /\ instances' = [instances EXCEPT ![r] = NewInstance(t, s)]
          /\ initialStep' = [initialStep EXCEPT ![r] = s]
    BY <1>2 DEF CreateInstance, FindInitialStep, InitialStepsOf
  <2>2. /\ instances'[r].current_step_id = initialStep'[r]
        /\ \A i \in Requests \ {r} : instances'[i] = instances[i]
    BY <1>t, <2>1 DEF NewInstance, TypeOK
  <2>3. pc'[r] = "create_initial_step_instance" /\ UNCHANGED stepInstances
    BY <1>2, <1>t DEF CreateInstance, Await, TypeOK
  <2>4. StepInstancesOf(r)' = {}
    <3>1. instances[r] = NULL /\ ParentExists
      BY <1>0, <1>t DEF Base, FreshRows, PcAdvance
    <3>2. QED
      BY <2>3, <3>1 DEF ParentExists, StepInstancesOf
  <2>5. Ready(r)'
    BY <2>2, <2>3, <2>4 DEF Ready
  <2>6. ASSUME NEW i \in Requests, instances'[i] # NULL, ~Busy(i)' PROVE Rests(i)'
    <3>1. i # r
      BY <1>0, <2>3, <2>6 DEF BusyFor
    <3>2. Rests(i)
      BY <1>0, <1>n, <2>2, <2>6, <3>1 DEF SerialInv, RestingRows
    <3>3. QED
      BY <2>2, <2>3, <3>1, <3>2, RestsStays DEF StepInstancesOf
  <2>7. QED
    BY <2>5, <2>6 DEF RestingRows
<1>3. CASE AcceptAdvance(r)
  <2>1. PICK orgs \in CallerOrgSets, i \in Requests \ {r},
             requested \in Rules \cup {NULL}, automation \in Automations \cup {NULL} :
          /\ AdvanceRefusal(orgs, i, requested) = "none"
          /\ \E c \in AcceptedCalls(orgs, i, requested, automation) :
               call' = [call EXCEPT ![r] = c]
    BY <1>3 DEF AcceptAdvance
  <2>2. PICK c \in AcceptedCalls(orgs, i, requested, automation) :
          call' = [call EXCEPT ![r] = c]
    BY <2>1
  <2>3. orgs \in SUBSET Orgs
    BY <2>1, ConfigAssumption
  <2>4. /\ c.instance = i
        /\ c.rule \in ListActiveOutgoing(instances[i].template, instances[i].current_step_id)
    BY <2>1, <2>2, <2>3, AcceptedAdvance
  <2>5. ~IsInstanceTerminal(instances[i])
    BY <2>1 DEF AdvanceRefusal
  <2>6. call'[r] = c /\ pc'[r] = "find_active" /\ UNCHANGED tables
    BY <1>3, <1>t, <2>2 DEF AcceptAdvance, Await, TypeOK
  <2>7. Ready(r)'
    BY <2>4, <2>5, <2>6 DEF Ready, FromStep, ListActiveOutgoing, tables, IsInstanceTerminal
  <2>8. QED
    BY <1>0, <1>n, <2>6, <2>7, QuietStep
<1>4. QED
  BY <1>1, <1>2, <1>3 DEF Arrive

\* The first step instance of a created instance is where it rests.
LEMMA InitialReady ==
  ASSUME SerialInv, NEW r \in Requests, CreateInitialStepInstance(r)
  PROVE  Ready(r)' /\ RestingRows'
<1>0. /\ Base /\ Alone(r)
      /\ \A i \in Requests : Busy(i) <=> BusyFor(r, i)
      /\ \A i \in Requests : Busy(i)' <=> BusyFor(r, i)'
  BY MovesAlone DEF SerialInv, Proceed
<1>1. pc[r] = "create_initial_step_instance" /\ pc'[r] = "respond"
  BY <1>0 DEF CreateInitialStepInstance, Await, Base, TypeInv, TypeOK
<1>2. Ready(r) /\ Ready(r)'
  BY <1>1 DEF SerialInv, Ready
<1>3. /\ StepInstancesOf(r)' = StepInstancesOf(r) \cup {r}
      /\ \A k \in Requests \ {r} : StepInstancesOf(k)' = StepInstancesOf(k)
      /\ \A a \in Requests \ {r} : stepInstances'[a] = stepInstances[a]
      /\ \A k \in Requests : r \notin StepInstancesOf(k)
      /\ stepInstances'[r].workflow_step_id = initialStep[r]
      /\ ~stepInstances'[r].completed_at
      /\ UNCHANGED instances
  <2>1. PICK s : s = initialStep[r]
    OBVIOUS
  <2>2. QED
    BY <1>0, <2>1, InsertedUnder
<1>4. Rests(r)'
  <2>1. StepInstancesOf(r)' = {r}
    BY <1>1, <1>2, <1>3 DEF Ready
  <2>2. QED
    BY <1>1, <1>2, <1>3, <2>1 DEF Rests, NewestOf, Ready
<1>5. ASSUME NEW i \in Requests \ {r}, instances'[i] # NULL PROVE Rests(i)'
  <2>1. ~Busy(i)
    BY <1>0, <1>1 DEF BusyFor
  <2>2. Rests(i)
    BY <1>3, <1>5, <2>1 DEF SerialInv, RestingRows
  <2>3. \A a \in StepInstancesOf(i) : stepInstances'[a] = stepInstances[a]
    BY <1>3 DEF StepInstancesOf
  <2>4. QED
    BY <1>3, <2>2, <2>3, RestsStays
<1>6. QED
  BY <1>2, <1>4, <1>5 DEF RestingRows

\* Undisturbed, an advance finds the one open step instance of its instance.
LEMMA FindsTheOpenOne ==
  ASSUME SerialInv, NEW r \in Requests, FindActive(r)
  PROVE  /\ pc'[r] = "mark_completed"
         /\ call'[r].outgoing \in StepInstancesOf(call[r].instance)
         /\ ~stepInstances[call'[r].outgoing].completed_at
         /\ call'[r].instance = call[r].instance /\ call'[r].rule = call[r].rule
<1>1. /\ Base /\ TypeOK /\ pc[r] = "find_active" /\ call[r] \in AdvanceCall
      /\ instances[call[r].instance] # NULL
  BY DEF SerialInv, Base, TypeInv, CallTyped, PcAdvance, FindActive
<1>2. PICK i \in Requests : i = call[r].instance
  BY <1>1 DEF AdvanceCall
<1>3. Rests(i)
  <2>1. ~Busy(i)
    BY <1>1, MovesAlone DEF SerialInv, Proceed, BusyFor
  <2>2. QED
    BY <1>1, <1>2, <2>1 DEF SerialInv, RestingRows
<1>4. PICK a \in Requests :
        /\ NewestOf(i, a)
        /\ ~stepInstances[a].completed_at
        /\ stepInstances[a].workflow_step_id = instances[i].current_step_id
  BY <1>3 DEF Rests
<1>5. FromStep(call[r]) = instances[i].current_step_id
  BY <1>1, <1>2 DEF SerialInv, Ready
<1>6. OpenFor(i, FromStep(call[r])) = {a}
  BY <1>4, <1>5 DEF OpenFor, NewestOf
<1>7. stepInstances[a].created_at \in Nat
  BY <1>1, <1>4 DEF NewestOf, StepInstancesOf, TypeOK, StepInstanceRow
<1>8. FindActiveForStep(i, FromStep(call[r])) = {a}
  BY <1>6, <1>7 DEF FindActiveForStep
<1>9. call' = [call EXCEPT ![r].outgoing = a] /\ pc'[r] = "mark_completed"
  BY <1>1, <1>2, <1>8 DEF FindActive, AfterFind, Await, TypeOK
<1>10. /\ call'[r].outgoing = a
       /\ call'[r].instance = call[r].instance /\ call'[r].rule = call[r].rule
  BY <1>1, <1>9 DEF AdvanceCall, TypeOK
<1>11. QED
  BY <1>2, <1>4, <1>9, <1>10 DEF NewestOf

LEMMA FindReady ==
  ASSUME SerialInv, NEW r \in Requests, FindActive(r)
  PROVE  Ready(r)' /\ RestingRows'
<1>0. /\ Base /\ Alone(r)
      /\ \A i \in Requests : Busy(i) <=> BusyFor(r, i)
      /\ \A i \in Requests : Busy(i)' <=> BusyFor(r, i)'
  BY MovesAlone DEF SerialInv, Proceed
<1>1. /\ pc[r] = "find_active" /\ pc'[r] = "mark_completed" /\ UNCHANGED tables
      /\ ~stepInstances[call'[r].outgoing].completed_at
      /\ call'[r].instance = call[r].instance /\ call'[r].rule = call[r].rule
  BY FindsTheOpenOne DEF FindActive
<1>2. Ready(r)
  BY DEF SerialInv
<1>3. Ready(r)'
  BY <1>1, <1>2 DEF Ready, FromStep, tables, IsInstanceTerminal
<1>4. \A i \in Requests : ~BusyFor(r, i)
  BY <1>1 DEF BusyFor
<1>5. QED
  BY <1>0, <1>1, <1>3, <1>4, QuietStep

\* What holds of a handler in the middle of an advance.
LEMMA AdvanceInProgress ==
  ASSUME SerialInv, NEW r \in Requests,
         pc[r] \in {"mark_completed", "create_step_instance", "apply_advance"}
  PROVE  /\ call[r] \in AdvanceCall /\ call[r].instance \in Requests
         /\ instances[call[r].instance] # NULL
         /\ Ready(r)
  BY DEF SerialInv, Base, TypeInv, CallTyped, PcAdvance, AdvanceCall

LEMMA MarkReady ==
  ASSUME SerialInv, NEW r \in Requests, MarkCompleted(r)
  PROVE  Ready(r)' /\ RestingRows'
<1>0. /\ Base /\ Alone(r)
      /\ \A i \in Requests : Busy(i) <=> BusyFor(r, i)
      /\ \A i \in Requests : Busy(i)' <=> BusyFor(r, i)'
  BY MovesAlone DEF SerialInv, Proceed
<1>1. pc[r] = "mark_completed" /\ pc'[r] = "create_step_instance" /\ UNCHANGED call
  BY <1>0 DEF MarkCompleted, Await, Base, TypeInv, TypeOK
<1>2. PICK i \in Requests : i = call[r].instance /\ instances[i] # NULL
  BY <1>1, AdvanceInProgress
<1>3. PICK a : a = call[r].outgoing
  OBVIOUS
<1>4. /\ a \in Requests
      /\ \A k \in Requests : StepInstancesOf(k)' = StepInstancesOf(k)
      /\ \A b \in Requests \ {a} : stepInstances'[b] = stepInstances[b]
      /\ stepInstances'[a].completed_at
      /\ stepInstances'[a].result_code = call[r].rule
      /\ stepInstances'[a].created_at = stepInstances[a].created_at
      /\ UNCHANGED instances
  BY <1>0, <1>3, CompletedInPlace
<1>5. a \in StepInstancesOf(i) /\ ~stepInstances[a].completed_at
  BY <1>0, <1>1, <1>2, <1>3, AdvanceInProgress DEF Ready, Base, CallFits, PcAdvance
<1>6. NewestOf(i, a)
  <2>1. Rests(i)
    BY <1>0, <1>1, <1>2 DEF SerialInv, RestingRows, BusyFor
  <2>2. QED
    BY <1>5, <2>1 DEF Rests, NewestOf
<1>7. NewestOf(i, a)'
  <2>1. \A b \in StepInstancesOf(i) \ {a} : stepInstances'[b] = stepInstances[b]
    BY <1>4 DEF StepInstancesOf
  <2>2. QED
    BY <1>4, <1>6, <2>1 DEF NewestOf
<1>8. Ready(r)'
  <2>1. Outgoing(r)'
    BY <1>1, <1>2, <1>3, <1>4, <1>5 DEF Outgoing
  <2>2. Ready(r)
    BY <1>1, AdvanceInProgress
  <2>3. QED
    BY <1>1, <1>2, <1>3, <1>4, <1>7, <2>1, <2>2 DEF Ready, FromStep, IsInstanceTerminal
<1>9. ASSUME NEW k \in Requests, instances'[k] # NULL, ~Busy(k)' PROVE Rests(k)'
  <2>1. k # i /\ ~Busy(k)
    BY <1>0, <1>1, <1>2, <1>9 DEF BusyFor
  <2>2. Rests(k)
    BY <1>4, <1>9, <2>1 DEF SerialInv, RestingRows
  <2>3. a \notin StepInstancesOf(k)
    BY <1>5, <2>1 DEF StepInstancesOf
  <2>4. \A b \in StepInstancesOf(k) : stepInstances'[b] = stepInstances[b]
    BY <1>4, <2>3 DEF StepInstancesOf
  <2>5. QED
    BY <1>4, <2>2, <2>4, RestsStays
<1>10. QED
  BY <1>8, <1>9 DEF RestingRows

LEMMA CreateReady ==
  ASSUME SerialInv, NEW r \in Requests, CreateStepInstance(r)
  PROVE  Ready(r)' /\ RestingRows'
<1>0. /\ Base /\ Alone(r)
      /\ \A i \in Requests : Busy(i) <=> BusyFor(r, i)
      /\ \A i \in Requests : Busy(i)' <=> BusyFor(r, i)'
  BY MovesAlone DEF SerialInv, Proceed
<1>1. pc[r] = "create_step_instance" /\ pc'[r] = "apply_advance" /\ UNCHANGED call
  BY <1>0 DEF CreateStepInstance, Await, Base, TypeInv, TypeOK
<1>2. PICK i \in Requests : i = call[r].instance /\ instances[i] # NULL
  BY <1>1, AdvanceInProgress
<1>3. PICK a : a = call[r].outgoing
  OBVIOUS
<1>4. /\ Ready(r) /\ Outgoing(r) /\ NewestOf(i, a) /\ a \in StepInstancesOf(i)
  BY <1>1, <1>2, <1>3, AdvanceInProgress DEF Ready, Outgoing
<1>5. /\ \A k \in Requests : r \notin StepInstancesOf(k)
      /\ StepInstancesOf(i)' = StepInstancesOf(i) \cup {r}
      /\ \A k \in Requests \ {i} : StepInstancesOf(k)' = StepInstancesOf(k)
      /\ \A b \in Requests \ {r} : stepInstances'[b] = stepInstances[b]
      /\ ~stepInstances'[r].completed_at
      /\ stepInstances'[r].created_at = clock
      /\ UNCHANGED instances
  <2>1. PICK s : s = ToStep(call[r])
    OBVIOUS
  <2>2. QED
    BY <1>0, <1>2, <2>1, InsertedUnder
<1>6. \A b \in StepInstancesOf(i) :
        /\ b \in Requests /\ b # r /\ stepInstances'[b] = stepInstances[b]
        /\ stepInstances[b].created_at < clock
  BY <1>5 DEF StepInstancesOf, SerialInv, Dated, StoredRows
<1>7. NewestOf(i, r)'
  <2>1. \A b \in StepInstancesOf(i) : stepInstances[b].completed_at
    BY <1>3, <1>4 DEF NewestOf, Outgoing
  <2>2. QED
    BY <1>5, <1>6, <2>1 DEF NewestOf
<1>8. Outgoing(r)'
  BY <1>1, <1>2, <1>3, <1>4, <1>5, <1>6 DEF Outgoing
<1>9. Ready(r)'
  <2>1. \A b \in StepInstancesOf(i)' \ {r, a} :
          stepInstances'[b].created_at < stepInstances'[a].created_at
    BY <1>4, <1>5, <1>6 DEF NewestOf
  <2>2. QED
    BY <1>1, <1>2, <1>3, <1>4, <1>5, <1>6, <1>7, <1>8, <2>1
    DEF Ready, FromStep, IsInstanceTerminal
<1>10. ASSUME NEW k \in Requests, instances'[k] # NULL, ~Busy(k)' PROVE Rests(k)'
  <2>1. k # i /\ ~Busy(k)
    BY <1>0, <1>1, <1>2, <1>10 DEF BusyFor
  <2>2. Rests(k)
    BY <1>5, <1>10, <2>1 DEF SerialInv, RestingRows
  <2>3. \A b \in StepInstancesOf(k) : stepInstances'[b] = stepInstances[b]
    BY <1>5 DEF StepInstancesOf
  <2>4. QED
    BY <1>5, <2>1, <2>2, <2>3, RestsStays
<1>11. QED
  BY <1>9, <1>10 DEF RestingRows

\* What the last write of an advance does to its instance.
LEMMA PointerAdvanced ==
  ASSUME SerialInv, NEW r \in Requests, ApplyAdvance(r), NEW i, i = call[r].instance,
         NEW s, s = ToStep(call[r])
  PROVE  /\ i \in Requests /\ s \in Steps
         /\ instances[i] \in InstanceRow /\ instances[i] # NULL
         /\ instances'[i] # NULL
         /\ instances'[i].template = instances[i].template
         /\ instances'[i].current_step_id = s
         /\ instances'[i].completed_at = (instances[i].completed_at \/ TerminalFlag[s])
         /\ instances'[i].cancelled_at = instances[i].cancelled_at
         /\ \A k \in Requests \ {i} : instances'[k] = instances[k]
         /\ pc[r] = "apply_advance" /\ pc'[r] \in {"log_action", "respond"}
         /\ UNCHANGED <<stepInstances, clock, call, initialStep>>
<1>1. TypeOK /\ pc[r] = "apply_advance"
  BY DEF SerialInv, Base, TypeInv, ApplyAdvance
<1>2. call[r] \in AdvanceCall /\ i \in Requests /\ instances[i] # NULL
  BY <1>1, AdvanceInProgress
<1>3. s \in Steps /\ instances[i] \in InstanceRow
  BY <1>1, <1>2, ConfigAssumption DEF ToStep, AdvanceCall, TypeOK
<1>4. instances' = [instances EXCEPT ![i] = Advanced(instances[i], s)]
  BY DEF ApplyAdvance
<1>5. Advanced(instances[i], s) \in InstanceRow
  BY <1>3, ConfigAssumption DEF Advanced, InstanceRow
<1>6. /\ instances'[i] = Advanced(instances[i], s)
      /\ \A k \in Requests \ {i} : instances'[k] = instances[k]
  BY <1>1, <1>2, <1>4 DEF TypeOK
<1>7. /\ instances'[i].template = instances[i].template
      /\ instances'[i].current_step_id = s
      /\ instances'[i].completed_at = (instances[i].completed_at \/ TerminalFlag[s])
      /\ instances'[i].cancelled_at = instances[i].cancelled_at
  BY <1>3, <1>6 DEF Advanced, InstanceRow
<1>8. /\ UNCHANGED <<stepInstances, clock, call, initialStep>>
      /\ pc'[r] \in {"log_action", "respond"}
  BY <1>1 DEF ApplyAdvance, Await, AfterAdvance, TypeOK
<1>9. QED
  BY <1>1, <1>2, <1>3, <1>5, <1>6, <1>7, <1>8, NullRowAssumption

LEMMA ApplyReady ==
  ASSUME SerialInv, NEW r \in Requests, ApplyAdvance(r)
  PROVE  Ready(r)' /\ RestingRows'
<1>0. /\ Base /\ Alone(r)
      /\ \A i \in Requests : Busy(i) <=> BusyFor(r, i)
      /\ \A i \in Requests : Busy(i)' <=> BusyFor(r, i)'
  BY MovesAlone DEF SerialInv, Proceed
<1>1. PICK i, s : i = call[r].instance /\ s = ToStep(call[r])
  OBVIOUS
<1>2. /\ i \in Requests
      /\ instances[i] # NULL /\ instances'[i] # NULL
      /\ instances'[i].current_step_id = s
      /\ \A k \in Requests \ {i} : instances'[k] = instances[k]
      /\ pc[r] = "apply_advance" /\ pc'[r] \in {"log_action", "respond"}
      /\ UNCHANGED <<stepInstances, call>>
  BY <1>1, PointerAdvanced
<1>3. Ready(r)'
  BY <1>2 DEF Ready
<1>4. Rests(i)'
  <2>1. NewestOf(i, r) /\ ~stepInstances[r].completed_at
    BY <1>1, <1>2, AdvanceInProgress DEF Ready
  <2>2. stepInstances[r].workflow_step_id = s
    BY <1>0, <1>1, <1>2 DEF Base, CallFits, PcAdvance
  <2>3. QED
    BY <1>2, <2>1, <2>2 DEF Rests, NewestOf, StepInstancesOf
<1>5. ASSUME NEW k \in Requests \ {i}, instances'[k] # NULL PROVE Rests(k)'
  <2>1. ~Busy(k)
    BY <1>0, <1>1, <1>2 DEF BusyFor
  <2>2. Rests(k)
    BY <1>2, <1>5, <2>1 DEF SerialInv, RestingRows
  <2>3. QED
    BY <1>2, <2>2, RestsStays DEF StepInstancesOf
<1>6. QED
  BY <1>3, <1>4, <1>5 DEF RestingRows

LEMMA ClosingReady ==
  ASSUME SerialInv, NEW r \in Requests, RefuseLog(r) \/ CreateActionLog(r) \/ Answer(r)
  PROVE  Ready(r)' /\ RestingRows'
<1>0. /\ Base /\ Alone(r)
      /\ \A i \in Requests : Busy(i) <=> BusyFor(r, i)
      /\ \A i \in Requests : Busy(i)' <=> BusyFor(r, i)'
  BY MovesAlone DEF SerialInv, Proceed
<1>1. /\ pc[r] \in {"log_action", "respond"} /\ pc'[r] \in {"respond", "done"}
      /\ UNCHANGED <<instances, stepInstances>>
  BY <1>0 DEF RefuseLog, CreateActionLog, Answer, Respond, Await, Base, TypeInv, TypeOK, tables
<1>2. Ready(r)'
  BY <1>1 DEF Ready
<1>3. ASSUME NEW i \in Requests, instances'[i] # NULL PROVE Rests(i)'
  <2>1. Rests(i)
    BY <1>0, <1>1, <1>3 DEF SerialInv, RestingRows, BusyFor
  <2>2. QED
    BY <1>1, <2>1, RestsStays DEF StepInstancesOf
<1>4. QED
  BY <1>2, <1>3 DEF RestingRows

LEMMA CancelResting ==
  ASSUME SerialInv, Quiescent, NEW i \in Requests, CancelExternally(i)
  PROVE  RestingRows' /\ Quiescent' /\ UNCHANGED <<stepInstances, pc, call>>
<1>1. TypeOK
  BY DEF SerialInv, Base, TypeInv
<1>2. /\ \A k \in Requests \ {i} : instances'[k] = instances[k]
      /\ instances[i] # NULL
      /\ instances'[i].current_step_id = instances[i].current_step_id
      /\ UNCHANGED <<stepInstances, pc, call>>
  BY <1>1 DEF CancelExternally, Cancelled, TypeOK, InstanceRow
<1>3. ASSUME NEW k \in Requests, instances'[k] # NULL PROVE Rests(k)'
  <2>1. ~Busy(k)
    BY DEF Quiescent, InFlight, Busy
  <2>2. Rests(k)
    BY <1>2, <1>3, <2>1 DEF SerialInv, RestingRows
  <2>3. QED
    BY <1>2, <2>2, RestsStays DEF StepInstancesOf
<1>4. QED
  BY <1>2, <1>3 DEF RestingRows, Quiescent, InFlight

LEMMA NextSerialInv == SerialInv /\ [SerialNext]_vars => SerialInv'
<1> SUFFICES ASSUME SerialInv, [SerialNext]_vars PROVE SerialInv'
  OBVIOUS
<1>1. Base' /\ IsFiniteSet(StoredRows') /\ Dated'
  BY SerialStepIsStep, NextBase, NextStoredRows DEF SerialInv
<1>2. ASSUME NEW r \in Requests, (Quiescent /\ Arrive(r)) \/ Proceed(r) PROVE SerialInv'
  <2>1. Ready(r)' /\ RestingRows'
    BY <1>2, ArriveReady, InitialReady, FindReady, MarkReady, CreateReady, ApplyReady,
       ClosingReady DEF Proceed
  <2>2. OneAtATime' /\ \A q \in Requests \ {r} : Ready(q)'
    BY <1>2, MovesAlone DEF SerialInv
  <2>3. QED
    BY <1>1, <2>1, <2>2 DEF SerialInv
<1>3. ASSUME Quiescent, NEW i \in Requests, CancelExternally(i) PROVE SerialInv'
  <2>1. RestingRows' /\ Quiescent'
    BY <1>3, CancelResting
  <2>2. OneAtATime' /\ \A q \in Requests : Ready(q)'
    BY <2>1 DEF Quiescent, OneAtATime, InFlight, Ready
  <2>3. QED
    BY <1>1, <2>1, <2>2 DEF SerialInv
<1>4. CASE UNCHANGED vars
  <2>1. OneAtATime' /\ (\A q \in Requests : Ready(q)') /\ RestingRows'
    BY <1>4 DEF SerialInv, vars, OneAtATime, InFlight, Ready, Outgoing, NewestOf, Rests, Busy,
                RestingRows, StepInstancesOf, FromStep, IsInstanceTerminal
  <2>2. QED
    BY <1>1, <2>1 DEF SerialInv
<1>5. QED
  BY <1>2, <1>3, <1>4 DEF SerialNext

\* Served one at a time, between requests every instance has exactly one open
\* step instance, on the step its pointer names.
THEOREM OneStepIsOpen == SerialSpec => []OneOpenStep
<1>1. SerialInv => OneOpenStep
  <2> SUFFICES ASSUME SerialInv, Quiescent, NEW i \in Requests, instances[i] # NULL
               PROVE  LET open == {a \in StepInstancesOf(i) : ~stepInstances[a].completed_at}
                      IN /\ Cardinality(open) = 1
                         /\ \A a \in open : stepInstances[a].workflow_step_id
                                              = instances[i].current_step_id
    BY DEF OneOpenStep
  <2>1. ~Busy(i)
    BY DEF Quiescent, InFlight, Busy
  <2>2. PICK a \in Requests :
          /\ NewestOf(i, a)
          /\ ~stepInstances[a].completed_at
          /\ stepInstances[a].workflow_step_id = instances[i].current_step_id
    BY <2>1 DEF SerialInv, RestingRows, Rests
  <2>3. {b \in StepInstancesOf(i) : ~stepInstances[b].completed_at} = {a}
    BY <2>2 DEF NewestOf
  <2>4. QED
    BY <2>2, <2>3, FS_Singleton
<1>2. QED
  BY <1>1, InitSerialInv, NextSerialInv, PTL DEF SerialSpec

-----------------------------------------------------------------------------
(* The trail: settled step instances, in the order of created_at.           *)

LEMMA SettledFinite ==
  ASSUME SerialInv, NEW i \in Requests
  PROVE  IsFiniteSet(Settled(i))
<1>1. Settled(i) \subseteq StoredRows
  BY DEF Settled, StepInstancesOf, StoredRows
<1>2. QED
  BY <1>1, FS_Subset DEF SerialInv

LEMMA TrailStays ==
  ASSUME NEW i \in Requests, Settled(i)' = Settled(i),
         \A a \in Settled(i) : /\ stepInstances'[a].created_at = stepInstances[a].created_at
                               /\ stepInstances'[a].result_code = stepInstances[a].result_code
  PROVE  Trail(i)' = Trail(i)
<1>1. ASSUME NEW a \in Settled(i) PROVE Place(i, a)' = Place(i, a)
  <2>1. {b \in Settled(i)' : stepInstances'[b].created_at <= stepInstances'[a].created_at}
          = {b \in Settled(i) : stepInstances[b].created_at <= stepInstances[a].created_at}
    OBVIOUS
  <2>2. QED
    BY <2>1 DEF Place
<1>2. ASSUME NEW n PROVE CodeAt(i, n)' = CodeAt(i, n)
  BY <1>1 DEF CodeAt
<1>3. QED
  BY <1>2 DEF Trail

\* The result code of the newest settled step instance ends the trail.
LEMMA TrailGrows ==
  ASSUME NEW i \in Requests, IsFiniteSet(Settled(i)), NEW a, a \notin Settled(i),
         Settled(i)' = Settled(i) \cup {a},
         \A b \in Settled(i) \cup {a} :
           /\ stepInstances[b].created_at \in Nat
           /\ stepInstances'[b].created_at = stepInstances[b].created_at
           /\ stepInstances'[b].result_code = stepInstances[b].result_code,
         \A b \in Settled(i) : stepInstances[b].created_at < stepInstances[a].created_at
  PROVE  Trail(i)' = Append(Trail(i), stepInstances[a].result_code)
<1> DEFINE S == Settled(i)
           x == stepInstances[a].result_code
<1>1. PICK m \in Nat : m = Cardinality(S) /\ m + 1 = Cardinality(S \cup {a})
  BY FS_CardinalityType, FS_AddElement
<1>2. ASSUME NEW b \in S PROVE Place(i, b)' = Place(i, b) /\ Place(i, b) \in 0..m
  <2>1. {c \in Settled(i)' : stepInstances'[c].created_at <= stepInstances'[b].created_at}
          = {c \in S : stepInstances[c].created_at <= stepInstances[b].created_at}
    OBVIOUS
  <2>2. PICK older \in SUBSET S :
          older = {c \in S : stepInstances[c].created_at <= stepInstances[b].created_at}
    OBVIOUS
  <2>3. Cardinality(older) \in Nat /\ Cardinality(older) <= m
    BY <1>1, FS_Subset, FS_CardinalityType
  <2>4. QED
    BY <1>1, <2>1, <2>2, <2>3 DEF Place
<1>3. Place(i, a)' = m + 1
  <2>1. {c \in Settled(i)' : stepInstances'[c].created_at <= stepInstances'[a].created_at}
          = S \cup {a}
    OBVIOUS
  <2>2. QED
    BY <1>1, <2>1 DEF Place
<1>4. ASSUME NEW n \in 1..m PROVE CodeAt(i, n)' = CodeAt(i, n)
  <2>1. {b \in Settled(i)' : Place(i, b)' = n} = {b \in S : Place(i, b) = n}
    BY <1>1, <1>2, <1>3
  <2>2. QED
    BY <2>1 DEF CodeAt
<1>5. CodeAt(i, m + 1)' = {x}
  <2>1. {b \in Settled(i)' : Place(i, b)' = m + 1} = {a}
    BY <1>1, <1>2, <1>3
  <2>2. QED
    BY <2>1 DEF CodeAt
<1>6. Trail(i)' = [n \in 1..m + 1 |-> IF n = m + 1 THEN x ELSE CHOOSE y \in CodeAt(i, n) : TRUE]
  <2>1. Trail(i)' = [n \in 1..m + 1 |-> CHOOSE y \in CodeAt(i, n)' : TRUE]
    BY <1>1 DEF Trail
  <2>2. (CHOOSE y \in {x} : TRUE) = x
    OBVIOUS
  <2>3. \A n \in 1..m + 1 :
          (CHOOSE y \in CodeAt(i, n)' : TRUE)
            = IF n = m + 1 THEN x ELSE CHOOSE y \in CodeAt(i, n) : TRUE
    <3>1. \A n \in 1..m + 1 : n = m + 1 \/ n \in 1..m
      BY <1>1
    <3>2. QED
      BY <1>1, <1>4, <1>5, <2>2, <3>1
  <2>4. QED
    BY <2>1, <2>3
<1>7. Append(Trail(i), x)
        = [n \in 1..m + 1 |-> IF n = m + 1 THEN x ELSE CHOOSE y \in CodeAt(i, n) : TRUE]
  <2>1. PICK f : f = [n \in 1..m |-> CHOOSE y \in CodeAt(i, n) : TRUE]
    OBVIOUS
  <2>2. PICK T : T = {f[n] : n \in 1..m} \cup {x}
    OBVIOUS
  <2>3. f \in Seq(T) /\ Len(f) = m
    BY <1>1, <2>1, <2>2
  <2>4. Append(f, x) = [n \in 1..m + 1 |-> IF n = m + 1 THEN x ELSE f[n]]
    BY <1>1, <2>2, <2>3
  <2>5. \A n \in 1..m + 1 : n # m + 1 => f[n] = CHOOSE y \in CodeAt(i, n) : TRUE
    BY <1>1, <2>1
  <2>6. [n \in 1..m + 1 |-> IF n = m + 1 THEN x ELSE f[n]]
          = [n \in 1..m + 1 |-> IF n = m + 1 THEN x ELSE CHOOSE y \in CodeAt(i, n) : TRUE]
    BY <2>5
  <2>7. Trail(i) = f
    BY <1>1, <2>1 DEF Trail
  <2>8. QED
    BY <2>4, <2>6, <2>7
<1>8. QED
  BY <1>6, <1>7

-----------------------------------------------------------------------------
(* Each serial step is a move of the token or a stutter.                    *)

Over(i) == instances[i] # NULL /\ (instances[i].completed_at \/ instances[i].cancelled_at)

\* What the token of i looks like to the abstract specification.
SameToken(i) ==
  /\ TemplateOf(i)' = TemplateOf(i)
  /\ PointerOf(i)' = PointerOf(i)
  /\ Over(i)' = Over(i)

SettledStays(i) ==
  /\ Settled(i)' = Settled(i)
  /\ \A a \in Settled(i) : /\ stepInstances'[a].created_at = stepInstances[a].created_at
                           /\ stepInstances'[a].result_code = stepInstances[a].result_code

\* a is completed, and the request that completed it has yet to move the pointer.
HeldBy(r, a) ==
  pc[r] \in {"create_step_instance", "apply_advance"} /\ call[r].outgoing = a

LEMMA SettledAlone ==
  ASSUME NEW r \in Requests, Alone(r), NEW i \in Requests
  PROVE  /\ Settled(i) = {a \in StepInstancesOf(i) : stepInstances[a].completed_at /\ ~HeldBy(r, a)}
         /\ Settled(i)' =
              {a \in StepInstancesOf(i)' : stepInstances'[a].completed_at /\ ~HeldBy(r, a)'}
  BY DEF Alone, InFlight, Settled, HeldBy

\* It is enough to compare what each step instance was and is.
LEMMA SettledPointwise ==
  ASSUME NEW r \in Requests, Alone(r), NEW i \in Requests,
         StepInstancesOf(i) \subseteq StepInstancesOf(i)',
         \A a \in StepInstancesOf(i)' :
           stepInstances'[a].completed_at /\ ~HeldBy(r, a)'
             <=> a \in StepInstancesOf(i) /\ stepInstances[a].completed_at /\ ~HeldBy(r, a),
         \A a \in Settled(i) : stepInstances'[a] = stepInstances[a]
  PROVE  SettledStays(i)
<1>1. Settled(i)' = Settled(i)
  BY SettledAlone
<1>2. QED
  BY <1>1 DEF SettledStays

\* Steps that leave the trails alone: all but the advance of the pointer.
LEMMA SettledUnlessApplied ==
  ASSUME SerialInv, [SerialNext]_vars, \A r \in Requests : ~ApplyAdvance(r), NEW i \in Requests
  PROVE  SettledStays(i)
<1>0. [Next]_vars /\ Base /\ TypeOK
  BY SerialStepIsStep DEF SerialInv, Base, TypeInv
<1>1. ASSUME NEW r \in Requests, (Quiescent /\ Arrive(r)) \/ Proceed(r),
             UNCHANGED stepInstances,
             \A a \in Requests : HeldBy(r, a)' <=> HeldBy(r, a)
      PROVE  SettledStays(i)
  <2>1. Alone(r)
    BY <1>0, <1>1, MovesAlone DEF SerialInv
  <2>2. StepInstancesOf(i)' = StepInstancesOf(i) /\ StepInstancesOf(i) \subseteq Requests
    BY <1>1 DEF StepInstancesOf
  <2>3. QED
    BY <1>1, <2>1, <2>2, SettledPointwise DEF Settled
<1>2. ASSUME NEW r \in Requests, Quiescent, Arrive(r) PROVE SettledStays(i)
  <2>1. /\ UNCHANGED stepInstances /\ pc[r] = "idle"
        /\ pc'[r] \in {"done", "create_initial_step_instance", "find_active"}
    BY <1>0, <1>2 DEF Arrive, RefuseCreate, CreateInstance, RefuseAdvance, AcceptAdvance,
                      Respond, Await, TypeOK, tables
  <2>2. QED
    BY <1>1, <1>2, <2>1 DEF HeldBy
<1>3. ASSUME NEW r \in Requests, FindActive(r) PROVE SettledStays(i)
  <2>1. UNCHANGED stepInstances /\ pc[r] = "find_active" /\ pc'[r] = "mark_completed"
    BY <1>3, FindsTheOpenOne DEF FindActive, tables
  <2>2. QED
    BY <1>1, <1>3, <2>1 DEF HeldBy, Proceed
<1>4. ASSUME NEW r \in Requests, RefuseLog(r) \/ CreateActionLog(r) \/ Answer(r)
      PROVE  SettledStays(i)
  <2>1. /\ UNCHANGED stepInstances /\ pc[r] \in {"log_action", "respond"}
        /\ pc'[r] \in {"respond", "done"}
    BY <1>0, <1>4 DEF RefuseLog, CreateActionLog, Answer, Respond, Await, TypeOK, tables
  <2>2. QED
    BY <1>1, <1>4, <2>1 DEF HeldBy, Proceed
<1>5. ASSUME NEW r \in Requests, CreateInitialStepInstance(r) \/ CreateStepInstance(r)
      PROVE  SettledStays(i)
  <2>1. Alone(r)
    BY <1>0, <1>5, MovesAlone DEF SerialInv, Proceed
  <2>2. PICK k, s :
          /\ k \in Requests
          /\ \/ CreateInitialStepInstance(r) /\ k = r /\ s = initialStep[r]
             \/ CreateStepInstance(r) /\ k = call[r].instance /\ s = ToStep(call[r])
    BY <1>0, <1>5 DEF Base, TypeInv, CallTyped, PcAdvance, AdvanceCall, CreateStepInstance
  <2>3. /\ \A j \in Requests : r \notin StepInstancesOf(j)
        /\ StepInstancesOf(k)' = StepInstancesOf(k) \cup {r}
        /\ \A j \in Requests \ {k} : StepInstancesOf(j)' = StepInstancesOf(j)
        /\ \A a \in Requests \ {r} : stepInstances'[a] = stepInstances[a]
        /\ ~stepInstances'[r].completed_at
    BY <1>0, <2>2, InsertedUnder
  <2>4. \A a : HeldBy(r, a)' <=> HeldBy(r, a)
    BY <1>0, <1>5
    DEF CreateInitialStepInstance, CreateStepInstance, Await, HeldBy, TypeOK
  <2>5. StepInstancesOf(i) \subseteq Requests \ {r}
    BY <2>3 DEF StepInstancesOf
  <2>6. StepInstancesOf(i)' \in {StepInstancesOf(i), StepInstancesOf(i) \cup {r}}
    BY <2>3
  <2>7. QED
    BY <2>1, <2>3, <2>4, <2>5, <2>6, SettledPointwise DEF Settled
<1>6. ASSUME NEW r \in Requests, MarkCompleted(r) PROVE SettledStays(i)
  <2>1. Alone(r)
    BY <1>0, <1>6, MovesAlone DEF SerialInv, Proceed
  <2>2. PICK a : a = call[r].outgoing
    OBVIOUS
  <2>3. /\ StepInstancesOf(i)' = StepInstancesOf(i)
        /\ \A b \in Requests \ {a} : stepInstances'[b] = stepInstances[b]
    BY <1>0, <1>6, <2>2, CompletedInPlace
  <2>4. /\ pc[r] = "mark_completed" /\ pc'[r] = "create_step_instance" /\ call'[r] = call[r]
        /\ ~stepInstances[a].completed_at
    BY <1>0, <1>6, <2>2 DEF MarkCompleted, Await, TypeOK, SerialInv, Ready
  <2>5. StepInstancesOf(i) \subseteq Requests
    BY DEF StepInstancesOf
  <2>6. /\ \A b : ~HeldBy(r, b)
        /\ \A b : HeldBy(r, b)' <=> b = a
    BY <2>2, <2>4 DEF HeldBy
  <2>7. QED
    BY <2>1, <2>3, <2>4, <2>5, <2>6, SettledPointwise DEF Settled
<1>7. CASE UNCHANGED <<stepInstances, pc, call>>
  BY <1>7 DEF SettledStays, Settled, StepInstancesOf
<1>8. QED
  BY <1>2, <1>3, <1>4, <1>5, <1>6, <1>7, CancelResting DEF SerialNext, Proceed, vars

\* The advance of the pointer settles the outgoing step instance, as the newest.
LEMMA AppliedSettles ==
  ASSUME SerialInv, NEW r \in Requests, ApplyAdvance(r),
         NEW i, i = call[r].instance, NEW x, x = call[r].rule
  PROVE  /\ Trail(i)' = Append(Trail(i), x)
         /\ \A k \in Requests \ {i} : Trail(k)' = Trail(k)
<1>0. Base /\ TypeOK /\ Alone(r)
  BY MovesAlone DEF SerialInv, Base, TypeInv, Proceed
<1>1. PICK s : s = ToStep(call[r])
  OBVIOUS
<1>2. /\ i \in Requests /\ pc[r] = "apply_advance" /\ pc'[r] \in {"log_action", "respond"}
      /\ UNCHANGED <<stepInstances, call>>
  BY <1>1, PointerAdvanced
<1>3. PICK a : a = call[r].outgoing
  OBVIOUS
<1>4. /\ a \in StepInstancesOf(i) /\ a # r
      /\ stepInstances[a].completed_at
      /\ stepInstances[a].result_code = x
      /\ ~stepInstances[r].completed_at
      /\ \A b \in StepInstancesOf(i) \ {r, a} :
           stepInstances[b].created_at < stepInstances[a].created_at
  BY <1>1, <1>2, <1>3, AdvanceInProgress DEF Ready, Outgoing
<1>5. \A k \in Requests :
        /\ Settled(k) = {b \in StepInstancesOf(k) : stepInstances[b].completed_at /\ b # a}
        /\ Settled(k)' = {b \in StepInstancesOf(k) : stepInstances[b].completed_at}
  <2>1. \A k \in Requests : StepInstancesOf(k)' = StepInstancesOf(k)
    BY <1>2 DEF StepInstancesOf
  <2>2. \A b : /\ HeldBy(r, b) <=> b = a
               /\ ~HeldBy(r, b)'
    BY <1>2, <1>3 DEF HeldBy
  <2>3. QED
    BY <1>0, <1>2, <2>1, <2>2, SettledAlone
<1>6. \A k \in Requests : \A b \in StepInstancesOf(k) : stepInstances[b].created_at \in Nat
  BY <1>0 DEF StepInstancesOf, TypeOK, StepInstanceRow
<1>7. Trail(i)' = Append(Trail(i), stepInstances[a].result_code)
  <2>1. a \notin Settled(i) /\ Settled(i)' = Settled(i) \cup {a}
    BY <1>2, <1>4, <1>5
  <2>2. \A b \in Settled(i) : stepInstances[b].created_at < stepInstances[a].created_at
    BY <1>2, <1>4, <1>5
  <2>3. \A b \in Settled(i) \cup {a} : stepInstances[b].created_at \in Nat
    BY <1>2, <1>4, <1>5, <1>6
  <2>4. IsFiniteSet(Settled(i))
    BY <1>2, SettledFinite
  <2>5. QED
    BY <1>2, <2>1, <2>2, <2>3, <2>4, TrailGrows
<1>8. ASSUME NEW k \in Requests, k # i PROVE Trail(k)' = Trail(k)
  <2>1. a \notin StepInstancesOf(k)
    BY <1>4, <1>8 DEF StepInstancesOf
  <2>2. Settled(k)' = Settled(k)
    BY <1>5, <2>1
  <2>3. QED
    BY <1>2, <2>2, TrailStays
<1>9. QED
  BY <1>1, <1>4, <1>7, <1>8

LEMMA TokenPointwise ==
  /\ WalkTemplate = [i \in Requests |-> TemplateOf(i)]
  /\ WalkTemplate' = [i \in Requests |-> TemplateOf(i)']
  /\ WalkPointer = [i \in Requests |-> PointerOf(i)]
  /\ WalkPointer' = [i \in Requests |-> PointerOf(i)']
  BY DEF WalkTemplate, WalkPointer, TemplateOf, PointerOf

LEMMA OverPointwise ==
  /\ TokenClosed = {i \in Requests : Over(i)}
  /\ TokenClosed' = {i \in Requests : Over(i)'}
  BY DEF TokenClosed, Over

LEMMA TokenStutters ==
  ASSUME \A i \in Requests : SameToken(i) /\ Trail(i)' = Trail(i)
  PROVE  UNCHANGED Token!token_vars
<1>1. /\ WalkTemplate' = WalkTemplate /\ WalkPointer' = WalkPointer
  BY TokenPointwise DEF SameToken
<1>2. {i \in Requests : Over(i)'} = {i \in Requests : Over(i)}
  BY DEF SameToken
<1>3. [i \in Requests |-> Trail(i)]' = [i \in Requests |-> Trail(i)]
  OBVIOUS
<1>4. QED
  BY <1>1, <1>2, <1>3, OverPointwise DEF Token!token_vars

LEMMA CreateOpensToken ==
  ASSUME SerialInv, NEW r \in Requests, CreateInstance(r),
         \A i \in Requests : Trail(i)' = Trail(i)
  PROVE  Token!Open(r)
<1>1. TypeOK /\ instances[r] = NULL
  BY DEF SerialInv, Base, TypeInv, FreshRows, PcAdvance, CreateInstance
<1>2. PICK t \in Templates, s \in Steps :
        /\ s \in FindInitialStep(t)
        /\ instances' = [instances EXCEPT ![r] = NewInstance(t, s)]
  BY DEF CreateInstance, FindInitialStep, InitialStepsOf
<1>3. NewInstance(t, s) # NULL
  <2>1. NewInstance(t, s) \in InstanceRow
    BY <1>2 DEF NewInstance, InstanceRow
  <2>2. QED
    BY <2>1, NullRowAssumption
<1>4. /\ instances'[r] = NewInstance(t, s)
      /\ \A i \in Requests \ {r} : instances'[i] = instances[i]
  BY <1>1, <1>2 DEF TypeOK
<1>5. /\ TemplateOf(r) = {} /\ TemplateOf(r)' = {t} /\ PointerOf(r)' = {s}
      /\ ~Over(r) /\ ~Over(r)'
  BY <1>1, <1>3, <1>4 DEF TemplateOf, PointerOf, Over, NewInstance
<1>6. \A i \in Requests \ {r} : SameToken(i)
  BY <1>4 DEF SameToken, TemplateOf, PointerOf, Over
<1>7. /\ WalkTemplate' = [WalkTemplate EXCEPT ![r] = {t}]
      /\ WalkPointer' = [WalkPointer EXCEPT ![r] = {s}]
      /\ WalkTemplate[r] = {}
  BY <1>5, <1>6, TokenPointwise DEF SameToken
<1>8. {i \in Requests : Over(i)'} = {i \in Requests : Over(i)}
  BY <1>5, <1>6 DEF SameToken
<1>9. [i \in Requests |-> Trail(i)]' = [i \in Requests |-> Trail(i)]
  OBVIOUS
<1>10. s \in [u \in Templates |-> FindInitialStep(u)][t]
  BY <1>2
<1>11. QED
  BY <1>2, <1>7, <1>8, <1>9, <1>10, OverPointwise DEF Token!Open

LEMMA CancelClosesToken ==
  ASSUME SerialInv, NEW k \in Requests, CancelExternally(k),
         \A i \in Requests : Trail(i)' = Trail(i)
  PROVE  Token!Cancel(k)
<1>1. /\ instances[k] # NULL /\ instances[k] \in InstanceRow
      /\ instances'[k] = Cancelled(instances[k])
      /\ ~IsInstanceTerminal(instances[k])
      /\ \A i \in Requests \ {k} : instances'[i] = instances[i]
  BY DEF SerialInv, Base, TypeInv, TypeOK, CancelExternally
<1>2. instances'[k] # NULL
  <2>1. Cancelled(instances[k]) \in InstanceRow
    BY <1>1 DEF Cancelled, InstanceRow
  <2>2. QED
    BY <1>1, <2>1, NullRowAssumption
<1>3. /\ TemplateOf(k) # {} /\ TemplateOf(k)' = TemplateOf(k) /\ PointerOf(k)' = PointerOf(k)
      /\ ~Over(k) /\ Over(k)'
  BY <1>1, <1>2 DEF Cancelled, InstanceRow, IsInstanceTerminal, TemplateOf, PointerOf, Over
<1>4. \A i \in Requests \ {k} : SameToken(i)
  BY <1>1 DEF SameToken, TemplateOf, PointerOf, Over
<1>5. WalkTemplate' = WalkTemplate /\ WalkPointer' = WalkPointer /\ WalkTemplate[k] # {}
  BY <1>3, <1>4, TokenPointwise DEF SameToken
<1>6. /\ {i \in Requests : Over(i)'} = {i \in Requests : Over(i)} \cup {k}
      /\ k \notin {i \in Requests : Over(i)}
  BY <1>3, <1>4 DEF SameToken
<1>7. [i \in Requests |-> Trail(i)]' = [i \in Requests |-> Trail(i)]
  OBVIOUS
<1>8. QED
  BY <1>5, <1>6, <1>7, OverPointwise DEF Token!Cancel

LEMMA ApplyFiresToken ==
  ASSUME SerialInv, NEW r \in Requests, ApplyAdvance(r)
  PROVE  \E i \in Requests, x \in Rules : Token!Fire(i, x)
<1>1. PICK i, x, s : i = call[r].instance /\ x = call[r].rule /\ s = ToStep(call[r])
  OBVIOUS
<1>2. /\ i \in Requests /\ s \in Steps
      /\ instances[i] \in InstanceRow /\ instances[i] # NULL /\ instances'[i] # NULL
      /\ instances'[i].template = instances[i].template
      /\ instances'[i].current_step_id = s
      /\ instances'[i].completed_at = (instances[i].completed_at \/ TerminalFlag[s])
      /\ instances'[i].cancelled_at = instances[i].cancelled_at
      /\ \A k \in Requests \ {i} : instances'[k] = instances[k]
      /\ pc[r] = "apply_advance"
  BY <1>1, PointerAdvanced
<1>3. /\ x \in ListActiveOutgoing(instances[i].template, instances[i].current_step_id)
      /\ ~IsInstanceTerminal(instances[i])
      /\ s = RuleTo[x]
  BY <1>1, <1>2, AdvanceInProgress
  DEF SerialInv, Base, CallFits, PcAdvance, Ready, FromStep, ToStep, ListActiveOutgoing
<1>4. /\ x \in Rules /\ RuleActive[x]
      /\ RuleTemplate[x] \in TemplateOf(i) /\ RuleFrom[x] \in PointerOf(i)
      /\ ~Over(i)
  BY <1>2, <1>3 DEF ListActiveOutgoing, TemplateOf, PointerOf, Over, IsInstanceTerminal
<1>5. /\ TemplateOf(i)' = TemplateOf(i) /\ PointerOf(i)' = {s}
      /\ Over(i)' <=> TerminalFlag[s]
  <2>1. ~instances[i].completed_at /\ ~instances[i].cancelled_at
    BY <1>3 DEF IsInstanceTerminal
  <2>2. QED
    BY <1>2, <2>1 DEF TemplateOf, PointerOf, Over
<1>6. \A k \in Requests \ {i} : SameToken(k)
  BY <1>2 DEF SameToken, TemplateOf, PointerOf, Over
<1>7. /\ WalkTemplate' = WalkTemplate
      /\ WalkPointer' = [WalkPointer EXCEPT ![i] = {s}]
      /\ RuleTemplate[x] \in WalkTemplate[i] /\ RuleFrom[x] \in WalkPointer[i]
  BY <1>2, <1>4, <1>5, <1>6, TokenPointwise DEF SameToken
<1>8. /\ i \notin {k \in Requests : Over(k)}
      /\ {k \in Requests : Over(k)'} =
           IF TerminalFlag[s] THEN {k \in Requests : Over(k)} \cup {i}
           ELSE {k \in Requests : Over(k)}
  BY <1>2, <1>4, <1>5, <1>6 DEF SameToken
<1>9. [k \in Requests |-> Trail(k)]' = [[k \in Requests |-> Trail(k)] EXCEPT ![i] = Append(@, x)]
  <2>1. /\ Trail(i)' = Append(Trail(i), x)
        /\ \A k \in Requests \ {i} : Trail(k)' = Trail(k)
    BY <1>1, AppliedSettles
  <2>2. QED
    BY <1>2, <2>1
<1>10. Token!Fire(i, x)
  BY <1>3, <1>4, <1>7, <1>8, <1>9, OverPointwise DEF Token!Fire
<1>11. QED
  BY <1>2, <1>4, <1>10

LEMMA InitToken == Init => Token!Init
<1> SUFFICES ASSUME Init PROVE Token!Init
  OBVIOUS
<1>1. \A i \in Requests : Trail(i) = <<>>
  <2> TAKE i \in Requests
  <2>1. Settled(i) = {}
    BY DEF Init, Settled, StepInstancesOf
  <2>2. Cardinality(Settled(i)) = 0
    BY <2>1, FS_EmptySet
  <2>3. QED
    BY <2>2 DEF Trail
<1>2. QED
  BY <1>1 DEF Init, Token!Init, WalkTemplate, WalkPointer, TokenClosed

\* Served one at a time, the engine implements WorkflowToken: the four writes of
\* an advance are one move of the token, and the result codes of the settled
\* step instances, in creation order, are the rules it took.
THEOREM ServedInTurnMovesTheToken == SerialSpec => MovesTheToken
<1>1. SerialInv /\ [SerialNext]_vars => [Token!Next]_(Token!token_vars)
  <2> SUFFICES ASSUME SerialInv, [SerialNext]_vars
               PROVE  [Token!Next]_(Token!token_vars)
    OBVIOUS
  <2>1. ASSUME NEW r \in Requests, ApplyAdvance(r) PROVE Token!Next
    BY <2>1, ApplyFiresToken DEF Token!Next
  <2>2. ASSUME \A r \in Requests : ~ApplyAdvance(r), NEW i \in Requests
        PROVE  Trail(i)' = Trail(i)
    BY <2>2, SettledUnlessApplied, TrailStays DEF SettledStays
  <2>3. ASSUME NEW r \in Requests, CreateInstance(r), \A q \in Requests : ~ApplyAdvance(q)
        PROVE  Token!Next
    BY <2>2, <2>3, CreateOpensToken DEF Token!Next
  <2>4. ASSUME NEW k \in Requests, CancelExternally(k), \A q \in Requests : ~ApplyAdvance(q)
        PROVE  Token!Next
    BY <2>2, <2>4, CancelClosesToken DEF Token!Next
  <2>5. ASSUME \A q \in Requests :
                 ~ApplyAdvance(q) /\ ~CreateInstance(q) /\ ~CancelExternally(q)
        PROVE  UNCHANGED Token!token_vars
    <3>1. \A i \in Requests : instances'[i] = instances[i]
      BY <2>5, SerialStepIsStep, InstanceWriters DEF SerialInv, Base
    <3>2. \A i \in Requests : SameToken(i)
      BY <3>1 DEF SameToken, TemplateOf, PointerOf, Over
    <3>3. QED
      BY <2>2, <2>5, <3>2, TokenStutters
  <2>6. QED
    BY <2>1, <2>3, <2>4, <2>5
<1>2. QED
  BY <1>1, InitSerialInv, InitToken, NextSerialInv, PTL DEF SerialSpec, MovesTheToken, Token!Spec

\* "Terminal instances cannot be advanced" is true of requests served one at a
\* time: nothing stored since the handler read the instance can have ended it.
THEOREM ServedInTurnCompletedIsFinal == SerialSpec => CompletedIsFinal
<1> DEFINE Final == \A i \in Requests :
             (instances[i] # NULL /\ instances[i].completed_at)
               => instances'[i].current_step_id = instances[i].current_step_id
<1>1. SerialInv /\ [SerialNext]_vars => Final
  <2> SUFFICES ASSUME SerialInv, [SerialNext]_vars, NEW i \in Requests,
                      instances[i] # NULL, instances[i].completed_at,
                      instances'[i] # instances[i]
               PROVE  instances'[i].current_step_id = instances[i].current_step_id
    OBVIOUS
  <2>1. TypeInv /\ [Next]_vars
    BY SerialStepIsStep DEF SerialInv, Base
  <2>2. CASE CreateInstance(i)
    BY <2>2 DEF SerialInv, Base, FreshRows, PcAdvance, CreateInstance
  <2>3. CASE CancelExternally(i)
    BY <2>3 DEF CancelExternally, IsInstanceTerminal
  <2>4. ASSUME NEW r \in Requests, ApplyAdvance(r), call[r].instance = i
        PROVE  FALSE
    <3>1. pc[r] = "apply_advance"
      BY <2>4 DEF ApplyAdvance
    <3>2. ~IsInstanceTerminal(instances[i])
      BY <2>4, <3>1, AdvanceInProgress DEF Ready
    <3>3. QED
      BY <3>2 DEF IsInstanceTerminal
  <2>5. QED
    BY <2>1, <2>2, <2>3, <2>4, InstanceWriters
<1>2. QED
  BY <1>1, InitSerialInv, NextSerialInv, PTL DEF SerialSpec, CompletedIsFinal

-----------------------------------------------------------------------------
(* What WorkflowToken promises of a trail, the engine then has too.         *)

\* The step that p leads to is terminal.
Arrived(p) == p # <<>> /\ TerminalFlag[RuleTo[p[Len(p)]]]

LEMMA EmptyPath == Token!IsPath({}, {}, <<>>)
  BY DEF Token!IsPath

LEMMA NoPathYet ==
  ASSUME NEW t, NEW u \in Templates, NEW s \in FindInitialStep(u), NEW p, Token!IsPath({}, t, p)
  PROVE  Token!IsPath({u}, {s}, p)
<1>1. p = <<>>
  <2>1. p \in Seq({})
    BY DEF Token!IsPath
  <2>2. QED
    BY <2>1
<1>2. QED
  BY <1>1 DEF Token!IsPath

LEMMA PathGrows ==
  ASSUME NEW t, NEW s, NEW p, Token!IsPath(t, s, p), ~Arrived(p),
         NEW x \in Rules, RuleActive[x], RuleTemplate[x] \in t, RuleFrom[x] \in s,
         t \subseteq Templates
  PROVE  /\ Token!IsPath(t, {RuleTo[x]}, Append(p, x))
         /\ Arrived(Append(p, x)) => TerminalFlag[RuleTo[x]]
<1> DEFINE R == {y \in Rules : RuleActive[y] /\ RuleTemplate[y] \in t}
           q == Append(p, x)
<1>1. p \in Seq(R) /\ x \in R /\ Len(p) \in Nat
  BY DEF Token!IsPath
<1>2. /\ q \in Seq(R)
      /\ Len(q) = Len(p) + 1
      /\ q[Len(q)] = x
      /\ \A n \in 1..Len(p) : q[n] = p[n]
      /\ q # <<>>
  BY <1>1
<1> HIDE DEF R, q
<1>3. ASSUME NEW u \in t PROVE RuleFrom[q[1]] \in [w \in Templates |-> FindInitialStep(w)][u]
  <2>1. CASE p = <<>>
    <3>1. q[1] = x
      BY <2>1, <1>2
    <3>2. s \subseteq [w \in Templates |-> FindInitialStep(w)][u]
      BY <1>3, <2>1 DEF Token!IsPath
    <3>3. QED
      BY <3>1, <3>2
  <2>2. CASE p # <<>>
    <3>1. q[1] = p[1]
      BY <2>2, <1>1, <1>2
    <3>2. QED
      BY <1>3, <2>2, <3>1 DEF Token!IsPath
  <2>3. QED
    BY <2>1, <2>2
<1>4. ASSUME NEW n \in 2..Len(q)
      PROVE  RuleFrom[q[n]] = RuleTo[q[n - 1]] /\ ~TerminalFlag[RuleTo[q[n - 1]]]
  <2>1. CASE n = Len(q)
    <3>1. p # <<>> /\ q[n - 1] = p[Len(p)]
      BY <2>1, <1>1, <1>2
    <3>2. QED
      BY <3>1, <2>1, <1>2 DEF Token!IsPath, Arrived
  <2>2. CASE n # Len(q)
    <3>1. n \in 2..Len(p) /\ q[n] = p[n] /\ q[n - 1] = p[n - 1]
      BY <2>2, <1>1, <1>2
    <3>2. QED
      BY <3>1 DEF Token!IsPath
  <2>3. QED
    BY <2>1, <2>2
<1>5. Token!IsPath(t, {RuleTo[x]}, q)
  BY <1>2, <1>3, <1>4 DEF Token!IsPath, R
<1>6. QED
  BY <1>2, <1>5 DEF Arrived, q

LEMMA TokenStepKeepsPaths ==
  ASSUME TypeOK, Token!TrailsArePaths, [Token!Next]_(Token!token_vars)
  PROVE  Token!TrailsArePaths'
<1>0. /\ WalkTemplate = [i \in Requests |-> WalkTemplate[i]]
      /\ WalkPointer = [i \in Requests |-> WalkPointer[i]]
      /\ \A i \in Requests : WalkTemplate[i] \subseteq Templates
  BY DEF WalkTemplate, WalkPointer, TypeOK, InstanceRow
<1>1. \A i \in Requests : /\ Token!IsPath(WalkTemplate[i], WalkPointer[i], Trail(i))
                          /\ i \notin TokenClosed => ~Arrived(Trail(i))
  BY DEF Token!TrailsArePaths, Arrived
<1>2. (\A i \in Requests : /\ Token!IsPath(WalkTemplate'[i], WalkPointer'[i], Trail(i)')
                           /\ i \notin TokenClosed' => ~Arrived(Trail(i)'))
        => Token!TrailsArePaths'
  BY DEF Token!TrailsArePaths, Arrived
<1>3. ASSUME NEW i \in Requests, Token!Open(i) PROVE Token!TrailsArePaths'
  <2>1. PICK u \in Templates : \E s \in FindInitialStep(u) :
          /\ WalkTemplate' = [WalkTemplate EXCEPT ![i] = {u}]
          /\ WalkPointer' = [WalkPointer EXCEPT ![i] = {s}]
    BY <1>3 DEF Token!Open
  <2>2. PICK s \in FindInitialStep(u) :
          /\ WalkTemplate' = [WalkTemplate EXCEPT ![i] = {u}]
          /\ WalkPointer' = [WalkPointer EXCEPT ![i] = {s}]
    BY <2>1
  <2>3. /\ WalkTemplate[i] = {} /\ TokenClosed' = TokenClosed
        /\ \A k \in Requests : Trail(k)' = Trail(k)
    BY <1>3 DEF Token!Open
  <2>4. Token!IsPath(WalkTemplate'[i], WalkPointer'[i], Trail(i)')
    BY <1>0, <1>1, <2>2, <2>3, NoPathYet
  <2>5. QED
    BY <1>0, <1>1, <1>2, <2>2, <2>3, <2>4
<1>4. ASSUME NEW i \in Requests, Token!Cancel(i) PROVE Token!TrailsArePaths'
  <2>1. /\ WalkTemplate' = WalkTemplate /\ WalkPointer' = WalkPointer
        /\ TokenClosed \subseteq TokenClosed'
        /\ \A k \in Requests : Trail(k)' = Trail(k)
    BY <1>4 DEF Token!Cancel
  <2>2. QED
    BY <1>1, <1>2, <2>1
<1>5. ASSUME NEW i \in Requests, NEW x \in Rules, Token!Fire(i, x)
      PROVE  Token!TrailsArePaths'
  <2>1. /\ WalkTemplate' = WalkTemplate
        /\ WalkPointer'[i] = {RuleTo[x]}
        /\ Trail(i)' = Append(Trail(i), x)
        /\ \A k \in Requests \ {i} : WalkPointer'[k] = WalkPointer[k] /\ Trail(k)' = Trail(k)
    BY <1>0, <1>5 DEF Token!Fire
  <2>2. /\ i \notin TokenClosed
        /\ TerminalFlag[RuleTo[x]] => i \in TokenClosed'
        /\ TokenClosed \subseteq TokenClosed'
    BY <1>5 DEF Token!Fire
  <2>3. /\ RuleActive[x]
        /\ RuleTemplate[x] \in WalkTemplate[i]
        /\ RuleFrom[x] \in WalkPointer[i]
    BY <1>5 DEF Token!Fire
  <2>4. /\ Token!IsPath(WalkTemplate[i], {RuleTo[x]}, Append(Trail(i), x))
        /\ Arrived(Append(Trail(i), x)) => TerminalFlag[RuleTo[x]]
    BY <1>0, <1>1, <2>2, <2>3, PathGrows
  <2>5. QED
    BY <1>1, <1>2, <2>1, <2>2, <2>4
<1>6. CASE UNCHANGED Token!token_vars
  <2>1. /\ WalkTemplate' = WalkTemplate /\ WalkPointer' = WalkPointer
        /\ TokenClosed' = TokenClosed
        /\ \A k \in Requests : Trail(k)' = Trail(k)
    BY <1>6 DEF Token!token_vars
  <2>2. QED
    BY <1>1, <1>2, <2>1
<1>7. QED
  BY <1>3, <1>4, <1>5, <1>6 DEF Token!Next

\* Served one at a time, the result codes an instance leaves behind are, in
\* creation order, a path through its template from an initial step to the step
\* the pointer names, and no rule is taken after one into a terminal step.
THEOREM TrailsArePathsOfTheGraph == SerialSpec => []Token!TrailsArePaths
<1>1. Token!Init => Token!TrailsArePaths
  BY EmptyPath DEF Token!Init, Token!TrailsArePaths
<1>2. SerialSpec => []TypeOK
  <2>1. SerialInv => TypeOK
    BY DEF SerialInv, Base, TypeInv
  <2>2. QED
    BY <2>1, InitSerialInv, NextSerialInv, PTL DEF SerialSpec
<1>3. QED
  BY <1>1, <1>2, ServedInTurnMovesTheToken, TokenStepKeepsPaths, PTL
  DEF MovesTheToken, Token!Spec

=============================================================================
