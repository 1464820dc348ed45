---------------------------- MODULE CourierDesk ----------------------------
(***************************************************************************)
(* What couriers report of their field tasks, beside CourierIntake: POST   *)
(* /courier/tasks/[id]/updates and /proofs, and GET /courier/dashboard,    *)
(* which adds up three parallel reads and a fourth.  All of it depends on  *)
(* assignments that others change at any time.                             *)
(***************************************************************************)
EXTENDS CourierIntake

VARIABLES
  updates,   \* field_updates, by id
  proofs,    \* field_proofs
  steady     \* history: the handlers in flight since the assignments changed last

reportVars == <<updates, proofs>>
courierVars == <<intakes, assigned, updates, proofs, steady, pc, call, answer, met>>

UpdateIds == Requests

\* A row, and what the handler has at hand when it inserts it.
UpdateRow == [field_task_id : Tasks, courier_id : Couriers]

\* created_by is the courier's user.
ProofRow ==
  [field_task_id : Tasks, field_update_id : UpdateIds \cup {NULL}, created_by : Couriers]

\* The profile is read beside them and only shown.
DashboardReads == {"count_active", "list_active"}

\* getCourierDashboard: what it still waits for and what it has got.
Dashboard ==
  [courier : Couriers, pending : SUBSET DashboardReads,
   activeAssignments : Nat, tasks : SUBSET Tasks]

Totals == [activeAssignments : Nat, openTasks : Nat]

PcDesk == {"create_update", "create_proof", "load_dashboard", "count_open"}

ASSUME DeskNullAssumption == NULL \notin UpdateRow \cup ProofRow

CourierTypeOK ==
  /\ IntakesTyped
  /\ updates \in [UpdateIds -> UpdateRow \cup {NULL}]
  /\ proofs \in [Requests -> ProofRow \cup {NULL}]
  /\ steady \in SUBSET Requests
  /\ HandlersTyped(PcIntake \cup PcDesk,
                   IntakeCall \cup UpdateRow \cup ProofRow \cup Dashboard \cup Totals)

CourierInit ==
  /\ InitIntakes
  /\ updates = [l \in UpdateIds |-> NULL]
  /\ proofs = [l \in Requests |-> NULL]
  /\ steady = {}
  /\ InitHandlers

-----------------------------------------------------------------------------
(* Updates and proofs                                                      *)

AcceptFieldUpdate(r) ==
  /\ \E c \in Couriers, t \in Tasks :
       /\ <<c, t>> \in assigned
       /\ Begin(r, "create_update", [field_task_id |-> t, courier_id |-> c])
  /\ UNCHANGED reportVars

CreateFieldUpdate(r) ==
  /\ pc[r] = "create_update"
  /\ updates' = [updates EXCEPT ![r] = call[r]]
  /\ Await(r, "respond")
  /\ UNCHANGED proofs

\* The body may name an update, of whichever task.
AcceptFieldProof(r) ==
  /\ \E c \in Couriers, t \in Tasks, update \in UpdateIds \cup {NULL} :
       /\ <<c, t>> \in assigned
       /\ Begin(r, "create_proof",
                [field_task_id |-> t, field_update_id |-> update, created_by |-> c])
  /\ UNCHANGED reportVars

\* The foreign key asks for an update that is stored, no more.
CreateFieldProof(r) ==
  LET update == call[r].field_update_id
      known == update \in {NULL} \cup Rows(updates)
  IN /\ pc[r] = "create_proof"
     /\ \/ /\ known
           /\ proofs' = [proofs EXCEPT ![r] = call[r]]
           /\ Await(r, "respond")
        \/ /\ ~known
           /\ Respond(r, "DEPENDENCY_ERROR")
           /\ UNCHANGED proofs
     /\ UNCHANGED updates

-----------------------------------------------------------------------------
(* The dashboard                                                           *)

ActiveTasks(c) == {t \in Tasks : <<c, t>> \in assigned}

\* Mutant: the tasks of withdrawn assignments are listed too.
ListActiveTaskIds_Withdrawn(c) == Tasks

\* listActiveTaskIdsForCourier names each task once.
ListActiveTaskIds(c) == ActiveTasks(c)

\* countActiveByCourierId counts rows, and two may be of one task.
CountActive(c) ==
  {Cardinality(ActiveTasks(c)) + Cardinality(twice) : twice \in SUBSET ActiveTasks(c)}

AcceptDashboard(r) ==
  /\ \E c \in Couriers :
       Begin(r, "load_dashboard",
             [courier |-> c, pending |-> DashboardReads, activeAssignments |-> 0, tasks |-> {}])
  /\ UNCHANGED reportVars

\* One of the parallel reads returns.
LoadDashboard(r) ==
  /\ pc[r] = "load_dashboard"
  /\ \E read \in call[r].pending, rows \in CountActive(call[r].courier) :
       AwaitWith(r, IF call[r].pending = {read} THEN "count_open" ELSE "load_dashboard",
         [call[r] EXCEPT
            !.pending = @ \ {read},
            !.activeAssignments = IF read = "count_active" THEN rows ELSE @,
            !.tasks = IF read = "list_active" THEN ListActiveTaskIds(call[r].courier) ELSE @])
  /\ UNCHANGED reportVars

\* No code here completes or cancels a task: any of them may be open.
CountOpen(r) ==
  /\ pc[r] = "count_open"
  /\ \E open \in SUBSET call[r].tasks :
       AwaitWith(r, "respond", [activeAssignments |-> call[r].activeAssignments,
                                openTasks |-> Cardinality(open)])
  /\ UNCHANGED reportVars

NextDesk(r) ==
  \/ AcceptFieldUpdate(r) \/ CreateFieldUpdate(r)
  \/ AcceptFieldProof(r) \/ CreateFieldProof(r)
  \/ AcceptDashboard(r) \/ LoadDashboard(r) \/ CountOpen(r)

-----------------------------------------------------------------------------

AnswerCourier(r) == pc[r] = "respond" /\ Respond(r, "OK")

ObserveAssignments ==
  steady' = {r \in Requests : /\ pc'[r] \notin {"idle", "done"}
                              /\ pc[r] = "idle" \/ r \in steady
                              /\ assigned' = assigned}

CourierNext ==
  /\ \/ \E r \in Requests :
          \/ NextIntake(r) /\ UNCHANGED reportVars
          \/ NextDesk(r) /\ UNCHANGED intakeVars
          \/ AnswerCourier(r) /\ UNCHANGED <<intakeVars, reportVars>>
          \/ FailCall(r) /\ UNCHANGED <<intakeVars, reportVars>>
     \/ Reassign /\ UNCHANGED reportVars
  /\ ObserveAssignments

CourierSpec == CourierInit /\ [][CourierNext]_courierVars

-----------------------------------------------------------------------------
(* Properties.                                                             *)

\* The check-then-insert of createIntakeForTask fails only against creates
\* that overlap.
DuplicatesOnlyByOverlap ==
  \A t \in Tasks : \A l, k \in IntakesOf(t) : l # k => Overlapped(l, k)

\* Records are never deleted.  A stored one is changed only by a PATCH of the
\* courier who created it, also when assignments change halfway, and only in
\* the columns that were sent: PATCHes of other columns are not undone.
PatchesTouchTheirOwn ==
  [][\A l \in Rows(intakes) \cap Written(intakes) :
       /\ intakes'[l] # NULL
       /\ intakes'[l].field_task_id = intakes[l].field_task_id
       /\ intakes'[l].courier_id = intakes[l].courier_id
       /\ \E r \in Requests :
            /\ pc[r] = "update_intake"
            /\ call[r].courier = intakes[l].courier_id
            /\ call[r].task = intakes[l].field_task_id
            /\ \A k \in Columns :
                 \/ k \in DOMAIN call[r].body /\ intakes'[l].data[k] = call[r].body[k]
                 \/ intakes'[l].data[k] = intakes[l].data[k]]_courierVars

\* The race on create is not benign: two records of a courier for one task
\* can never be changed again by the courier's API.
DuplicatesAreFrozen ==
  [][\A t \in Tasks : \A l, k \in IntakesOf(t) :
       l # k /\ intakes[l].courier_id = intakes[k].courier_id =>
         intakes'[l] = intakes[l]]_courierVars

\* What the create handler promises; overlapping creates break it.
OneIntakePerTask ==
  \A t \in Tasks : \A l, k \in IntakesOf(t) : l = k

\* The assignments are read in one call and relied on in later ones.  Only
\* when they changed meanwhile may a record be filed under a task that its
\* author does not hold, or a dashboard show more open tasks than assignments.
UndisturbedReportsAddUp ==
  \A r \in steady :
    /\ pc[r] = "create_update" => <<call[r].courier_id, call[r].field_task_id>> \in assigned
    /\ pc[r] = "create_proof" => <<call[r].created_by, call[r].field_task_id>> \in assigned
    /\ pc[r] \in PcIntake => <<call[r].courier, call[r].task>> \in assigned
    /\ pc[r] = "respond" /\ call[r] \in Totals =>
         call[r].openTasks <= call[r].activeAssignments

=============================================================================
