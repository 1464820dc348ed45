--------------------------- MODULE CourierIntake ---------------------------
(***************************************************************************)
(* POST and PATCH /courier/tasks/[id]/intake: one intake record per field  *)
(* task, by whichever courier is assigned to it.  Assignments are made and *)
(* withdrawn by others, also while a handler is suspended.                 *)
(***************************************************************************)
EXTENDS Tables, FiniteSets, Naturals

CONSTANTS
  Couriers, Tasks,
  Columns,        \* the columns a body may set
  CreateBodies,   \* bodies of POST: the columns sent, with their values
  PatchBodies,    \* bodies of PATCH
  Values,         \* what a column may hold, NULL included
  Omitted,        \* the value POST stores for a column that is not sent
  InitialAssignments

Bodies == CreateBodies \cup PatchBodies

ASSUME IntakeAssumption ==
  /\ IsFiniteSet(Tasks)
  /\ \A body \in Bodies : body \in [DOMAIN body -> Values] /\ DOMAIN body \subseteq Columns
  /\ Omitted \in [Columns -> Values]
  /\ InitialAssignments \subseteq Couriers \X Tasks

VARIABLES
  intakes,   \* intake_records, by id
  assigned   \* the pairs of courier and task with an active assignment

intakeVars == <<intakes, assigned>>

IntakeRow == [field_task_id : Tasks, courier_id : Couriers, data : [Columns -> Values]]

IntakeCall == [courier : Couriers, task : Tasks, body : Bodies]

ASSUME IntakeNullAssumption == NULL \notin IntakeRow \cup IntakeCall

PcIntake == {"find_to_create", "create_intake", "find_to_update", "update_intake"}

IntakesTyped ==
  /\ intakes \in [Requests -> IntakeRow \cup {NULL}]
  /\ assigned \in SUBSET (Couriers \X Tasks)

InitIntakes ==
  /\ intakes = [l \in Requests |-> NULL]
  /\ assigned = InitialAssignments

-----------------------------------------------------------------------------

IntakesOf(t) == {l \in Rows(intakes) : intakes[l].field_task_id = t}

\* assertTaskOwnedByCourier, the first call of either handler.
RefuseUnassigned(r) ==
  /\ pc[r] = "idle"
  /\ \E c \in Couriers, t \in Tasks : <<c, t>> \notin assigned
  /\ Respond(r, "NOT_FOUND")
  /\ UNCHANGED intakeVars

AcceptCreate(r) ==
  /\ \E c \in Couriers, t \in Tasks, body \in CreateBodies :
       /\ <<c, t>> \in assigned
       /\ Begin(r, "find_to_create", [courier |-> c, task |-> t, body |-> body])
  /\ UNCHANGED intakeVars

AcceptUpdate(r) ==
  /\ \E c \in Couriers, t \in Tasks, body \in PatchBodies :
       /\ <<c, t>> \in assigned
       /\ Begin(r, "find_to_update", [courier |-> c, task |-> t, body |-> body])
  /\ UNCHANGED intakeVars

\* Mutant: the existing record is not looked at.
FindByTaskId_Nothing(t) == "missing"

\* maybeSingle() fails on more than one row.
FindByTaskId(t) ==
  CASE IntakesOf(t) = {} -> "missing"
    [] Cardinality(IntakesOf(t)) = 1 -> "found"
    [] OTHER -> "error"

FindToCreate(r) ==
  LET found == FindByTaskId(call[r].task)
  IN /\ pc[r] = "find_to_create"
     /\ \/ found = "missing" /\ Await(r, "create_intake")
        \/ found = "found" /\ Respond(r, "CONFLICT")
        \/ found = "error" /\ Respond(r, "DEPENDENCY_ERROR")
     /\ UNCHANGED intakeVars

\* Mutant: a column that is not sent is left out of the row.
NewIntake_SentOnly(c) ==
  [field_task_id |-> c.task, courier_id |-> c.courier, data |-> c.body]

NewIntake(c) ==
  [field_task_id |-> c.task, courier_id |-> c.courier,
   data |-> [k \in Columns |-> IF k \in DOMAIN c.body THEN c.body[k] ELSE Omitted[k]]]

CreateIntake(r) ==
  /\ pc[r] = "create_intake"
  /\ intakes' = [intakes EXCEPT ![r] = NewIntake(call[r])]
  /\ Await(r, "respond")
  /\ UNCHANGED assigned

FindToUpdate(r) ==
  LET found == FindByTaskId(call[r].task)
  IN /\ pc[r] = "find_to_update"
     /\ \/ found = "missing" /\ Respond(r, "NOT_FOUND")
        \/ found = "found" /\ Await(r, "update_intake")
        \/ found = "error" /\ Respond(r, "DEPENDENCY_ERROR")
     /\ UNCHANGED intakeVars

\* Mutant: the update is not restricted to the courier's own record.
Matching_AnyCourier(c) == IntakesOf(c.task)

Matching(c) == {l \in IntakesOf(c.task) : intakes[l].courier_id = c.courier}

Patched(row, body) ==
  [row EXCEPT !.data = [k \in Columns |-> IF k \in DOMAIN body THEN body[k] ELSE row.data[k]]]

\* Mutant: the update changes every matching record.
UpdateByTaskId_All(c) ==
  [l \in Requests |-> IF l \in Matching(c) THEN Patched(intakes[l], c.body) ELSE intakes[l]]

\* More than one match is an error, and then nothing is stored.
UpdateByTaskId(c) ==
  [l \in Requests |->
    IF Matching(c) = {l} THEN Patched(intakes[l], c.body) ELSE intakes[l]]

UpdateIntake(r) ==
  LET matches == Cardinality(Matching(call[r]))
  IN /\ pc[r] = "update_intake"
     /\ intakes' = UpdateByTaskId(call[r])
     /\ \/ matches = 0 /\ Respond(r, "NOT_FOUND")
        \/ matches = 1 /\ Await(r, "respond")
        \/ matches \notin {0, 1} /\ Respond(r, "DEPENDENCY_ERROR")
     /\ UNCHANGED assigned

\* Others accept, reject, make and withdraw assignments.
Reassign ==
  /\ \E pair \in Couriers \X Tasks :
       assigned' = IF pair \in assigned THEN assigned \ {pair} ELSE assigned \cup {pair}
  /\ UNCHANGED <<intakes, handlers>>

NextIntake(r) ==
  \/ RefuseUnassigned(r) \/ AcceptCreate(r) \/ AcceptUpdate(r)
  \/ FindToCreate(r) \/ CreateIntake(r) \/ FindToUpdate(r) \/ UpdateIntake(r)

=============================================================================
