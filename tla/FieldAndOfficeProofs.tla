------------------------ MODULE FieldAndOfficeProofs ------------------------
(***************************************************************************)
(* Theorems about the two services in which what is stored depends on what *)
(* others may change while a handler waits: CourierDesk, with its          *)
(* assignments, and BackOffice, with memberships, documents and providers. *)
(* They hold for any number of couriers, callers, organizations, requests  *)
(* and rows.  The two share no table and no step; first the field work is  *)
(* proved about, then the back office.                                     *)
(***************************************************************************)
EXTENDS CourierDesk, BackOffice, RequestHandlerProofs, FiniteSetTheorems

-----------------------------------------------------------------------------
(***************************************************************************)
(* FIELD WORK.                                                             *)
(***************************************************************************)

-----------------------------------------------------------------------------
(* The inductive invariant.                                                *)

PcCourier == PcIntake \cup PcDesk

CourierCalls == IntakeCall \cup UpdateRow \cup ProofRow \cup Dashboard \cup Totals

\* What a handler keeps fits the call it is suspended at.
CallFits(next, c) ==
  /\ next \in PcIntake => c \in IntakeCall
  /\ next = "create_update" => c \in UpdateRow
  /\ next = "create_proof" => c \in ProofRow
  /\ next \in {"load_dashboard", "count_open"} => c \in Dashboard
  /\ next = "count_open" => c.pending = {}

DeskCallTyped == \A r \in Requests : CallFits(pc[r], call[r])

DeskTypeInv == CourierTypeOK /\ DeskCallTyped

\* A handler stores its record with the insert and not before.
IntakeOwned ==
  \A r \in Requests :
    pc[r] \in {"idle", "find_to_create", "create_intake"} => intakes[r] = NULL

\* One that found no record of its task has overlapped the authors of all that
\* are stored by now.
CreateFresh ==
  \A r \in Requests : pc[r] = "create_intake" =>
    \A l \in IntakesOf(call[r].task) : Overlapped(l, r)

DeskBase ==
  DeskTypeInv /\ InFlightOverlap /\ IntakeOwned /\ CreateFresh /\ DuplicatesOnlyByOverlap

\* Whoever began against the present assignments holds what they say of him.
Holds(r) ==
  /\ pc[r] = "create_update" => <<call[r].courier_id, call[r].field_task_id>> \in assigned
  /\ pc[r] = "create_proof" => <<call[r].created_by, call[r].field_task_id>> \in assigned
  /\ pc[r] \in PcIntake => <<call[r].courier, call[r].task>> \in assigned
  /\ pc[r] = "respond" /\ call[r] \in Totals =>
       call[r].openTasks <= call[r].activeAssignments

\* What a dashboard has read of assignments that have not changed since.
SteadyDashboard(r) ==
  pc[r] \in {"load_dashboard", "count_open"} =>
    /\ "list_active" \notin call[r].pending => call[r].tasks = ActiveTasks(call[r].courier)
    /\ "count_active" \notin call[r].pending =>
         Cardinality(ActiveTasks(call[r].courier)) <= call[r].activeAssignments

DeskSteady == \A r \in steady : Holds(r) /\ SteadyDashboard(r)

-----------------------------------------------------------------------------
(* Rows and calls.                                                         *)

\* A record is built of what was sent and of the defaults.
LEMMA NewIntakeTyped ==
  ASSUME NEW c \in IntakeCall
  PROVE  /\ NewIntake(c) \in IntakeRow
         /\ NewIntake(c).field_task_id = c.task
         /\ NewIntake(c).courier_id = c.courier
<1>1. c.task \in Tasks /\ c.courier \in Couriers /\ c.body \in Bodies
  BY DEF IntakeCall
<1>2. [k \in Columns |-> IF k \in DOMAIN c.body THEN c.body[k] ELSE Omitted[k]]
        \in [Columns -> Values]
  BY <1>1, IntakeAssumption
<1>3. QED
  BY <1>1, <1>2 DEF NewIntake, IntakeRow

\* A PATCH leaves task and courier alone, and the columns that were not sent.
LEMMA IntakePatched ==
  ASSUME NEW row \in IntakeRow, NEW body \in Bodies
  PROVE  /\ Patched(row, body) \in IntakeRow
         /\ Patched(row, body).field_task_id = row.field_task_id
         /\ Patched(row, body).courier_id = row.courier_id
         /\ \A k \in Columns : Patched(row, body).data[k] =
              IF k \in DOMAIN body THEN body[k] ELSE row.data[k]
<1>1. row.data \in [Columns -> Values]
  BY DEF IntakeRow
<1>2. [k \in Columns |-> IF k \in DOMAIN body THEN body[k] ELSE row.data[k]]
        \in [Columns -> Values]
  BY <1>1, IntakeAssumption
<1>3. QED
  BY <1>2 DEF Patched, IntakeRow

\* The five kinds of calls are told apart by what they hold.
LEMMA TotalsApart ==
  \A c \in IntakeCall \cup UpdateRow \cup ProofRow \cup Dashboard : c \notin Totals
<1>1. \A c \in Totals : "openTasks" \in DOMAIN c
  BY DEF Totals
<1>2. \A c \in IntakeCall \cup UpdateRow \cup ProofRow \cup Dashboard : "openTasks" \notin DOMAIN c
  BY DEF IntakeCall, UpdateRow, ProofRow, Dashboard
<1>3. QED
  BY <1>1, <1>2

\* The tasks of a courier are finitely many.
LEMMA TasksCounted ==
  ASSUME NEW c \in Couriers
  PROVE  /\ IsFiniteSet(ActiveTasks(c))
         /\ Cardinality(ActiveTasks(c)) \in Nat
         /\ \A rows \in CountActive(c) : rows \in Nat /\ Cardinality(ActiveTasks(c)) <= rows
<1>1. IsFiniteSet(ActiveTasks(c))
  BY IntakeAssumption, FS_Subset DEF ActiveTasks
<1>2. \A twice \in SUBSET ActiveTasks(c) : Cardinality(twice) \in Nat
  BY <1>1, FS_Subset, FS_CardinalityType
<1>3. Cardinality(ActiveTasks(c)) \in Nat
  BY <1>1, FS_CardinalityType
<1>4. QED
  BY <1>1, <1>2, <1>3 DEF CountActive

-----------------------------------------------------------------------------
(* Type correctness.                                                       *)

LEMMA InitDeskTyped == CourierInit => DeskTypeInv
  BY IntakeAssumption
  DEF CourierInit, InitIntakes, InitHandlers, DeskTypeInv, CourierTypeOK, IntakesTyped,
      HandlersTyped, DeskCallTyped, CallFits, PcIntake

\* The tables of records and assignments keep their types.
LEMMA IntakesStayTyped ==
  ASSUME DeskTypeInv, NEW r \in Requests, NextIntake(r)
  PROVE  IntakesTyped'
<1>1. CASE UNCHANGED intakeVars
  BY <1>1 DEF DeskTypeInv, CourierTypeOK, IntakesTyped, intakeVars
<1>2. CASE CreateIntake(r)
  <2>1. NewIntake(call[r]) \in IntakeRow
    BY <1>2, NewIntakeTyped DEF CreateIntake, DeskTypeInv, DeskCallTyped, CallFits, PcIntake
  <2>2. QED
    BY <1>2, <2>1 DEF CreateIntake, DeskTypeInv, CourierTypeOK, IntakesTyped
<1>3. CASE UpdateIntake(r)
  <2>1. call[r].body \in Bodies
    BY <1>3 DEF UpdateIntake, DeskTypeInv, DeskCallTyped, CallFits, PcIntake, IntakeCall
  <2>2. \A l \in Requests : l \in Matching(call[r]) => intakes[l] \in IntakeRow
    BY DEF Matching, IntakesOf, Rows, DeskTypeInv, CourierTypeOK, IntakesTyped
  <2>3. \A l \in Requests :
          Matching(call[r]) = {l} => Patched(intakes[l], call[r].body) \in IntakeRow
    BY <2>1, <2>2, IntakePatched
  <2>4. intakes' \in [Requests -> IntakeRow \cup {NULL}]
    BY <1>3, <2>3 DEF UpdateIntake, UpdateByTaskId, DeskTypeInv, CourierTypeOK, IntakesTyped
  <2>5. QED
    BY <1>3, <2>4 DEF UpdateIntake, DeskTypeInv, CourierTypeOK, IntakesTyped
<1>4. QED
  BY <1>1, <1>2, <1>3
  DEF NextIntake, RefuseUnassigned, AcceptCreate, AcceptUpdate, FindToCreate, FindToUpdate

\* A step of a handler, whichever it is.
DeskStep(r) ==
  \/ NextIntake(r) /\ UNCHANGED reportVars
  \/ NextDesk(r) /\ UNCHANGED intakeVars
  \/ AnswerCourier(r) /\ UNCHANGED <<intakeVars, reportVars>>
  \/ FailCall(r) /\ UNCHANGED <<intakeVars, reportVars>>

\* It begins, goes on as it is, goes on with what it has read, or ends.
Moves(r) ==
  \/ \E next \in PcCourier, c \in CourierCalls : Begin(r, next, c) /\ CallFits(next, c)
  \/ /\ InFlight(r)
     /\ \E next \in PcCourier \cup {"respond"} : Await(r, next) /\ CallFits(next, call[r])
  \/ /\ InFlight(r)
     /\ \E next \in PcCourier \cup {"respond"}, c \in CourierCalls :
          AwaitWith(r, next, c) /\ CallFits(next, c)
  \/ \E code \in Errors \cup {"OK"} : Respond(r, code)

LEMMA IntakeMoves ==
  ASSUME DeskTypeInv, NEW r \in Requests, NextIntake(r)
  PROVE  Moves(r)
<1> USE DEF PcCourier, PcIntake, Errors, CallFits
<1>1. CASE RefuseUnassigned(r)
  BY <1>1 DEF RefuseUnassigned, Moves
<1>2. CASE AcceptCreate(r)
  <2>1. \E c \in IntakeCall : Begin(r, "find_to_create", c)
    BY <1>2 DEF AcceptCreate, IntakeCall, Bodies
  <2>2. QED
    BY <2>1 DEF Moves, CourierCalls
<1>3. CASE AcceptUpdate(r)
  <2>1. \E c \in IntakeCall : Begin(r, "find_to_update", c)
    BY <1>3 DEF AcceptUpdate, IntakeCall, Bodies
  <2>2. QED
    BY <2>1 DEF Moves, CourierCalls
<1>4. CASE FindToCreate(r)
  BY <1>4 DEF FindToCreate, Moves, InFlight, DeskTypeInv, DeskCallTyped
<1>5. CASE CreateIntake(r)
  BY <1>5 DEF CreateIntake, Moves, InFlight
<1>6. CASE FindToUpdate(r)
  BY <1>6 DEF FindToUpdate, Moves, InFlight, DeskTypeInv, DeskCallTyped
<1>7. CASE UpdateIntake(r)
  BY <1>7 DEF UpdateIntake, Moves, InFlight
<1>8. QED
  BY <1>1, <1>2, <1>3, <1>4, <1>5, <1>6, <1>7 DEF NextIntake

\* One of the dashboard's reads fills in what it has read and nothing else.
LEMMA LoadDashboardReads ==
  ASSUME DeskTypeInv, NEW r \in Requests, LoadDashboard(r)
  PROVE  \E read \in call[r].pending, c \in Dashboard :
           /\ AwaitWith(r, IF call[r].pending = {read} THEN "count_open" ELSE "load_dashboard", c)
           /\ c.pending = call[r].pending \ {read}
           /\ c.courier = call[r].courier
           /\ c.tasks =
                IF read = "list_active" THEN ActiveTasks(call[r].courier) ELSE call[r].tasks
           /\ IF read = "count_active"
              THEN Cardinality(ActiveTasks(call[r].courier)) <= c.activeAssignments
              ELSE c.activeAssignments = call[r].activeAssignments
<1>1. call[r] \in Dashboard
  BY DEF LoadDashboard, DeskTypeInv, DeskCallTyped, CallFits
<1>2. PICK read \in call[r].pending, rows \in CountActive(call[r].courier) :
        AwaitWith(r, IF call[r].pending = {read} THEN "count_open" ELSE "load_dashboard",
         [call[r] EXCEPT
            !.pending = @ \ {read},
            !.activeAssignments = IF read = "count_active" THEN rows ELSE @,
            !.tasks = IF read = "list_active" THEN ListActiveTaskIds(call[r].courier) ELSE @])
  BY DEF LoadDashboard
<1> DEFINE c == [call[r] EXCEPT
            !.pending = @ \ {read},
            !.activeAssignments = IF read = "count_active" THEN rows ELSE @,
            !.tasks = IF read = "list_active" THEN ListActiveTaskIds(call[r].courier) ELSE @]
<1>3. /\ rows \in Nat
      /\ Cardinality(ActiveTasks(call[r].courier)) <= rows
  BY <1>1, TasksCounted DEF Dashboard
<1>4. c \in Dashboard
  BY <1>1, <1>3 DEF Dashboard, ListActiveTaskIds, ActiveTasks
<1>5. /\ c.pending = call[r].pending \ {read}
      /\ c.courier = call[r].courier
      /\ c.tasks = IF read = "list_active" THEN ActiveTasks(call[r].courier) ELSE call[r].tasks
      /\ c.activeAssignments =
           IF read = "count_active" THEN rows ELSE call[r].activeAssignments
  BY <1>1 DEF Dashboard, ListActiveTaskIds
<1>6. QED
  BY <1>2, <1>3, <1>4, <1>5

\* Of the tasks read no more are open than there are.
LEMMA CountOpenAdds ==
  ASSUME DeskTypeInv, NEW r \in Requests, CountOpen(r)
  PROVE  \E c \in Totals :
           /\ AwaitWith(r, "respond", c)
           /\ c.activeAssignments = call[r].activeAssignments
           /\ c.openTasks <= Cardinality(call[r].tasks)
<1>1. call[r] \in Dashboard
  BY DEF CountOpen, DeskTypeInv, DeskCallTyped, CallFits
<1>2. PICK open \in SUBSET call[r].tasks :
        AwaitWith(r, "respond", [activeAssignments |-> call[r].activeAssignments,
                                 openTasks |-> Cardinality(open)])
  BY DEF CountOpen
<1>3. IsFiniteSet(call[r].tasks)
  BY <1>1, IntakeAssumption, FS_Subset DEF Dashboard
<1>4. IsFiniteSet(open) /\ Cardinality(open) <= Cardinality(call[r].tasks)
  BY <1>3, FS_Subset
<1>5. Cardinality(open) \in Nat
  BY <1>4, FS_CardinalityType
<1>6. [activeAssignments |-> call[r].activeAssignments, openTasks |-> Cardinality(open)] \in Totals
  BY <1>1, <1>5 DEF Dashboard, Totals
<1>7. QED
  BY <1>2, <1>4, <1>6

LEMMA DeskMoves ==
  ASSUME DeskTypeInv, NEW r \in Requests, NextDesk(r)
  PROVE  Moves(r)
<1> USE DEF PcCourier, PcDesk, PcIntake, Errors, CallFits
<1>1. CASE AcceptFieldUpdate(r)
  <2>1. \E c \in UpdateRow : Begin(r, "create_update", c)
    BY <1>1 DEF AcceptFieldUpdate, UpdateRow
  <2>2. QED
    BY <2>1 DEF Moves, CourierCalls
<1>2. CASE CreateFieldUpdate(r)
  BY <1>2 DEF CreateFieldUpdate, Moves, InFlight
<1>3. CASE AcceptFieldProof(r)
  <2>1. \E c \in ProofRow : Begin(r, "create_proof", c)
    BY <1>3 DEF AcceptFieldProof, ProofRow
  <2>2. QED
    BY <2>1 DEF Moves, CourierCalls
<1>4. CASE CreateFieldProof(r)
  BY <1>4 DEF CreateFieldProof, Moves, InFlight
<1>5. CASE AcceptDashboard(r)
  <2>1. \E c \in Dashboard : Begin(r, "load_dashboard", c)
    BY <1>5 DEF AcceptDashboard, Dashboard
  <2>2. QED
    BY <2>1 DEF Moves, CourierCalls
<1>6. CASE LoadDashboard(r)
  <2>1. PICK read \in call[r].pending, c \in Dashboard :
          /\ AwaitWith(r, IF call[r].pending = {read} THEN "count_open" ELSE "load_dashboard", c)
          /\ c.pending = call[r].pending \ {read}
    BY <1>6, LoadDashboardReads
  <2>2. c \in CourierCalls /\ InFlight(r)
    BY <1>6 DEF LoadDashboard, InFlight, CourierCalls
  <2>3. CASE call[r].pending = {read}
    BY <2>1, <2>2, <2>3 DEF Moves
  <2>4. CASE call[r].pending # {read}
    BY <2>1, <2>2, <2>4 DEF Moves
  <2>5. QED
    BY <2>3, <2>4
<1>7. CASE CountOpen(r)
  <2>1. \E c \in Totals : AwaitWith(r, "respond", c)
    BY <1>7, CountOpenAdds
  <2>2. QED
    BY <1>7, <2>1 DEF CountOpen, Moves, CourierCalls, InFlight
<1>8. QED
  BY <1>1, <1>2, <1>3, <1>4, <1>5, <1>6, <1>7 DEF NextDesk

LEMMA DeskStepMoves ==
  ASSUME DeskTypeInv, NEW r \in Requests, DeskStep(r)
  PROVE  Moves(r)
  BY IntakeMoves, DeskMoves DEF DeskStep, AnswerCourier, FailCall, Moves, Errors

\* Only the handler that moves changes its call and its place.
LEMMA OthersWait ==
  ASSUME DeskTypeInv, NEW r \in Requests, Moves(r), NEW q \in Requests \ {r}
  PROVE  pc'[q] = pc[q] /\ call'[q] = call[q] /\ met'[q] = met[q]
  BY DEF Moves, Begin, Await, AwaitWith, Respond, DeskTypeInv, CourierTypeOK, HandlersTyped

LEMMA MovesTyped ==
  ASSUME DeskTypeInv, NEW r \in Requests, Moves(r)
  PROVE  HandlersTyped(PcCourier, CourierCalls)' /\ DeskCallTyped'
<1>1. HandlersTyped(PcCourier, CourierCalls)
  BY DEF DeskTypeInv, CourierTypeOK, PcCourier, CourierCalls
<1>2. CASE \E next \in PcCourier, c \in CourierCalls : Begin(r, next, c) /\ CallFits(next, c)
  <2>1. HandlersTyped(PcCourier, CourierCalls)'
    BY <1>1, <1>2, BeginTyped
  <2>2. CallFits(pc'[r], call'[r])
    BY <1>1, <1>2 DEF Begin, HandlersTyped
  <2>3. QED
    BY <2>1, <2>2, OthersWait DEF DeskTypeInv, DeskCallTyped, CallFits
<1>3. CASE \E next \in PcCourier \cup {"respond"} : Await(r, next) /\ CallFits(next, call[r])
  <2>1. HandlersTyped(PcCourier, CourierCalls)'
    BY <1>1, <1>3, AwaitTyped
  <2>2. CallFits(pc'[r], call'[r])
    BY <1>1, <1>3 DEF Await, HandlersTyped
  <2>3. QED
    BY <2>1, <2>2, OthersWait DEF DeskTypeInv, DeskCallTyped, CallFits
<1>4. CASE \E next \in PcCourier \cup {"respond"}, c \in CourierCalls :
             AwaitWith(r, next, c) /\ CallFits(next, c)
  <2>1. HandlersTyped(PcCourier, CourierCalls)'
    BY <1>1, <1>4, AwaitWithTyped
  <2>2. CallFits(pc'[r], call'[r])
    BY <1>1, <1>4 DEF AwaitWith, HandlersTyped
  <2>3. QED
    BY <2>1, <2>2, OthersWait DEF DeskTypeInv, DeskCallTyped, CallFits
<1>5. CASE \E code \in Errors \cup {"OK"} : Respond(r, code)
  <2>1. HandlersTyped(PcCourier, CourierCalls)'
    BY <1>1, <1>5, RespondTyped
  <2>2. CallFits(pc'[r], call'[r])
    BY <1>1, <1>5 DEF Respond, HandlersTyped, CallFits, PcIntake
  <2>3. QED
    BY <2>1, <2>2, OthersWait DEF DeskTypeInv, DeskCallTyped, CallFits
<1>6. QED
  BY <1>2, <1>3, <1>4, <1>5 DEF Moves

\* So do updates and proofs.
LEMMA ReportsStayTyped ==
  ASSUME DeskTypeInv, NEW r \in Requests, NextDesk(r)
  PROVE  /\ updates' \in [UpdateIds -> UpdateRow \cup {NULL}]
         /\ proofs' \in [Requests -> ProofRow \cup {NULL}]
<1> USE DEF DeskTypeInv, CourierTypeOK, UpdateIds
<1>1. CASE UNCHANGED reportVars
  BY <1>1 DEF reportVars
<1>2. CASE CreateFieldUpdate(r)
  <2>1. call[r] \in UpdateRow
    BY <1>2 DEF CreateFieldUpdate, DeskCallTyped, CallFits
  <2>2. QED
    BY <1>2, <2>1 DEF CreateFieldUpdate
<1>3. CASE CreateFieldProof(r)
  <2>1. call[r] \in ProofRow
    BY <1>3 DEF CreateFieldProof, DeskCallTyped, CallFits
  <2>2. QED
    BY <1>3, <2>1 DEF CreateFieldProof
<1>4. QED
  BY <1>1, <1>2, <1>3 DEF NextDesk, AcceptFieldUpdate, AcceptFieldProof, AcceptDashboard,
                          LoadDashboard, CountOpen

LEMMA NextDeskTyped == DeskTypeInv /\ [CourierNext]_courierVars => DeskTypeInv'
<1> SUFFICES ASSUME DeskTypeInv, [CourierNext]_courierVars PROVE DeskTypeInv'
  OBVIOUS
<1>1. CASE UNCHANGED courierVars
  BY <1>1 DEF courierVars, DeskTypeInv, CourierTypeOK, IntakesTyped, HandlersTyped,
       DeskCallTyped, CallFits
<1>2. CASE CourierNext
  <2>1. steady' \in SUBSET Requests
    BY <1>2 DEF CourierNext, ObserveAssignments
  <2>2. ASSUME NEW r \in Requests, DeskStep(r) PROVE DeskTypeInv'
    <3>1. HandlersTyped(PcCourier, CourierCalls)' /\ DeskCallTyped'
      BY <2>2, DeskStepMoves, MovesTyped
    <3>2. IntakesTyped'
      BY <2>2, IntakesStayTyped DEF DeskStep, intakeVars, IntakesTyped, DeskTypeInv, CourierTypeOK
    <3>3. /\ updates' \in [UpdateIds -> UpdateRow \cup {NULL}]
          /\ proofs' \in [Requests -> ProofRow \cup {NULL}]
      BY <2>2, ReportsStayTyped DEF DeskStep, reportVars, DeskTypeInv, CourierTypeOK
    <3>4. QED
      BY <2>1, <3>1, <3>2, <3>3 DEF DeskTypeInv, CourierTypeOK, PcCourier, CourierCalls
  <2>3. CASE Reassign /\ UNCHANGED reportVars
    BY <2>1, <2>3 DEF Reassign, reportVars, handlers, DeskTypeInv, CourierTypeOK, IntakesTyped,
                      HandlersTyped, DeskCallTyped, CallFits
  <2>4. QED
    BY <1>2, <2>2, <2>3 DEF CourierNext, DeskStep
<1>3. QED
  BY <1>1, <1>2

\* Whatever assignments change and calls fail, each handler holds what its next
\* call needs, and each table holds rows of its own.
THEOREM CourierTypeCorrectness == CourierSpec => []CourierTypeOK
<1>1. DeskTypeInv => CourierTypeOK
  BY DEF DeskTypeInv
<1>2. QED
  BY <1>1, InitDeskTyped, NextDeskTyped, PTL DEF CourierSpec

-----------------------------------------------------------------------------
(* Records of one task.                                                    *)

LEMMA MovesOverlap ==
  ASSUME DeskTypeInv, InFlightOverlap, NEW r \in Requests, Moves(r)
  PROVE  InFlightOverlap'
<1>1. HandlersTyped(PcCourier, CourierCalls)
  BY DEF DeskTypeInv, CourierTypeOK, PcCourier, CourierCalls
<1>2. CASE \E next \in PcCourier, c \in CourierCalls : Begin(r, next, c) /\ CallFits(next, c)
  BY <1>1, <1>2, BeginOverlaps
<1>3. CASE ~ \E next \in PcCourier, c \in CourierCalls : Begin(r, next, c) /\ CallFits(next, c)
  <2>1. \/ InFlight(r) /\ \E next \in PcCourier \cup {"respond"} : Await(r, next)
        \/ InFlight(r) /\ \E next \in PcCourier \cup {"respond"}, c \in CourierCalls :
                            AwaitWith(r, next, c)
        \/ \E code \in Errors \cup {"OK"} : Respond(r, code)
    BY <1>3 DEF Moves
  <2>2. QED
    BY <1>1, <2>1, GoingOnOverlaps
<1>4. QED
  BY <1>2, <1>3

\* What has overlapped stays so, but for a handler that has not begun.
LEMMA OverlapStays ==
  ASSUME DeskTypeInv, NEW r \in Requests, Moves(r),
         NEW p \in Requests, NEW q \in Requests, pc[p] # "idle", pc[q] # "idle",
         Overlapped(p, q)
  PROVE  Overlapped(p, q)'
  BY DEF Moves, Begin, Await, AwaitWith, Respond, Overlapped, DeskTypeInv, CourierTypeOK,
       HandlersTyped

\* A stored record keeps its task and its courier, whatever the step.
LEMMA RecordsStay ==
  ASSUME DeskTypeInv, IntakeOwned, NEW r \in Requests, DeskStep(r),
         NEW l \in Requests, intakes[l] # NULL
  PROVE  /\ intakes'[l] # NULL
         /\ intakes'[l].field_task_id = intakes[l].field_task_id
         /\ intakes'[l].courier_id = intakes[l].courier_id
<1>1. CASE UNCHANGED intakeVars
  BY <1>1 DEF intakeVars
<1>2. CASE CreateIntake(r)
  BY <1>2 DEF CreateIntake, IntakeOwned, DeskTypeInv, CourierTypeOK, IntakesTyped
<1>3. CASE UpdateIntake(r)
  <2>1. call[r].body \in Bodies
    BY <1>3 DEF UpdateIntake, DeskTypeInv, DeskCallTyped, CallFits, PcIntake, IntakeCall
  <2>2. intakes[l] \in IntakeRow
    BY DEF DeskTypeInv, CourierTypeOK, IntakesTyped
  <2>3. intakes'[l] \in {intakes[l], Patched(intakes[l], call[r].body)}
    BY <1>3 DEF UpdateIntake, UpdateByTaskId
  <2>4. QED
    BY <2>1, <2>2, <2>3, IntakePatched, IntakeNullAssumption
<1>4. QED
  BY <1>1, <1>2, <1>3
  DEF DeskStep, NextIntake, RefuseUnassigned, AcceptCreate, AcceptUpdate, FindToCreate,
      FindToUpdate

\* Only an insert stores a record where there was none, its own.
LEMMA RecordsAppear ==
  ASSUME DeskTypeInv, NEW r \in Requests, DeskStep(r),
         NEW l \in Requests, intakes[l] = NULL, intakes'[l] # NULL
  PROVE  l = r /\ CreateIntake(r) /\ intakes'[l].field_task_id = call[r].task
<1>1. CASE UNCHANGED intakeVars
  BY <1>1 DEF intakeVars
<1>2. CASE CreateIntake(r)
  <2>1. call[r] \in IntakeCall
    BY <1>2 DEF CreateIntake, DeskTypeInv, DeskCallTyped, CallFits, PcIntake
  <2>2. QED
    BY <1>2, <2>1, NewIntakeTyped DEF CreateIntake, DeskTypeInv, CourierTypeOK, IntakesTyped
<1>3. CASE UpdateIntake(r)
  <2>1. l \notin Matching(call[r])
    BY DEF Matching, IntakesOf, Rows
  <2>2. QED
    BY <1>3, <2>1 DEF UpdateIntake, UpdateByTaskId
<1>4. QED
  BY <1>1, <1>2, <1>3
  DEF DeskStep, NextIntake, RefuseUnassigned, AcceptCreate, AcceptUpdate, FindToCreate,
      FindToUpdate

\* A handler is at its insert, before or after the step.
LEMMA InsertMoves ==
  ASSUME DeskTypeInv, NEW r \in Requests, DeskStep(r), pc'[r] = "create_intake"
  PROVE  FindToCreate(r) /\ call'[r] = call[r] /\ IntakesOf(call[r].task) = {}
         /\ UNCHANGED intakeVars
<1>1. pc' = [pc EXCEPT ![r] = pc'[r]]
  BY DeskStepMoves DEF Moves, Begin, Await, AwaitWith, Respond, DeskTypeInv, CourierTypeOK,
       HandlersTyped
<1>2. CASE NextIntake(r)
  <2>1. FindToCreate(r)
    BY <1>2 DEF NextIntake, RefuseUnassigned, AcceptCreate, AcceptUpdate, CreateIntake,
       FindToUpdate, UpdateIntake, Begin, Await, AwaitWith, Respond, DeskTypeInv, CourierTypeOK,
       HandlersTyped
  <2>2. FindByTaskId(call[r].task) = "missing" /\ Await(r, "create_intake")
    BY <2>1 DEF FindToCreate, Await, Respond, DeskTypeInv, CourierTypeOK, HandlersTyped
  <2>3. IntakesOf(call[r].task) = {}
    BY <2>2 DEF FindByTaskId
  <2>4. QED
    BY <2>1, <2>2, <2>3 DEF FindToCreate, Await
<1>3. CASE NextDesk(r)
  BY <1>3 DEF NextDesk, AcceptFieldUpdate, CreateFieldUpdate, AcceptFieldProof, CreateFieldProof,
     AcceptDashboard, LoadDashboard, CountOpen, Begin, Await, AwaitWith, Respond, DeskTypeInv,
     CourierTypeOK, HandlersTyped
<1>4. CASE AnswerCourier(r) \/ FailCall(r)
  BY <1>4 DEF AnswerCourier, FailCall, Respond, DeskTypeInv, CourierTypeOK, HandlersTyped
<1>5. QED
  BY <1>2, <1>3, <1>4 DEF DeskStep

LEMMA NextIntakeOwned ==
  ASSUME DeskTypeInv, IntakeOwned, NEW r \in Requests, DeskStep(r)
  PROVE  IntakeOwned'
<1> SUFFICES ASSUME NEW l \in Requests, intakes'[l] # NULL,
                    pc'[l] \in {"idle", "find_to_create", "create_intake"}
             PROVE  FALSE
  BY DEF IntakeOwned
<1>1. Moves(r)
  BY DeskStepMoves
<1>2. CASE intakes[l] = NULL
  <2>1. l = r /\ CreateIntake(r)
    BY <1>2, RecordsAppear
  <2>2. QED
    BY <2>1 DEF CreateIntake, Await, DeskTypeInv, CourierTypeOK, HandlersTyped
<1>3. CASE intakes[l] # NULL
  <2>1. pc[l] \notin {"idle", "find_to_create", "create_intake"}
    BY <1>3 DEF IntakeOwned
  <2>2. l = r
    BY <1>1, <2>1, OthersWait
  <2>3. pc'[r] # "create_intake"
    BY <2>1, <2>2, InsertMoves DEF FindToCreate
  <2>4. pc'[r] \notin {"idle", "find_to_create"}
    BY <1>1, <2>1, <2>2 DEF DeskStep, NextIntake, RefuseUnassigned, AcceptCreate, AcceptUpdate,
       FindToCreate, CreateIntake, FindToUpdate, UpdateIntake, NextDesk, AcceptFieldUpdate,
       CreateFieldUpdate, AcceptFieldProof, CreateFieldProof, AcceptDashboard, LoadDashboard,
       CountOpen, AnswerCourier, FailCall, Begin, Await, AwaitWith, Respond, DeskTypeInv,
       CourierTypeOK, HandlersTyped
  <2>5. QED
    BY <2>2, <2>3, <2>4
<1>4. QED
  BY <1>2, <1>3

\* The records of a task are those there were, and one that is being inserted.
LEMMA IntakesOfGrow ==
  ASSUME DeskTypeInv, IntakeOwned, NEW r \in Requests, DeskStep(r),
         NEW t \in Tasks, NEW l \in IntakesOf(t)'
  PROVE  /\ l \in Requests
         /\ \/ l \in IntakesOf(t)
            \/ l = r /\ CreateIntake(r) /\ call[r].task = t
<1>1. l \in Requests /\ intakes'[l] # NULL /\ intakes'[l].field_task_id = t
  <2>1. IntakesTyped'
    BY IntakesStayTyped DEF DeskStep, intakeVars, IntakesTyped, DeskTypeInv, CourierTypeOK
  <2>2. QED
    BY <2>1 DEF IntakesOf, Rows, IntakesTyped
<1>2. CASE intakes[l] = NULL
  BY <1>1, <1>2, RecordsAppear
<1>3. CASE intakes[l] # NULL
  BY <1>1, <1>3, RecordsStay DEF IntakesOf, Rows, DeskTypeInv, CourierTypeOK, IntakesTyped
<1>4. QED
  BY <1>1, <1>2, <1>3

LEMMA NextCreateFresh ==
  ASSUME DeskBase, NEW r \in Requests, DeskStep(r)
  PROVE  CreateFresh'
<1> SUFFICES ASSUME NEW q \in Requests, pc'[q] = "create_intake",
                    NEW l \in IntakesOf(call[q].task)'
             PROVE  Overlapped(l, q)'
  BY DEF CreateFresh
<1>1. DeskTypeInv /\ IntakeOwned /\ InFlightOverlap /\ Moves(r)
  BY DeskStepMoves DEF DeskBase
<1>2. CASE q = r
  <2>1. call'[q] = call[q] /\ IntakesOf(call[q].task) = {} /\ UNCHANGED intakeVars
    BY <1>1, <1>2, InsertMoves
  <2>2. QED
    BY <2>1 DEF IntakesOf, Rows, intakeVars
<1>3. CASE q # r
  <2>1. pc[q] = "create_intake" /\ call'[q] = call[q]
    BY <1>1, <1>3, OthersWait
  <2>2. call[q].task \in Tasks
    BY <1>1, <2>1 DEF DeskTypeInv, DeskCallTyped, CallFits, PcIntake, IntakeCall
  <2>3. /\ l \in Requests
        /\ \/ l \in IntakesOf(call[q].task)
           \/ l = r /\ CreateIntake(r)
    BY <1>1, <2>1, <2>2, IntakesOfGrow
  <2>4. pc[l] # "idle" /\ Overlapped(l, q)
    <3>1. CASE l \in IntakesOf(call[q].task)
      BY <1>1, <2>1, <2>3, <3>1 DEF DeskBase, CreateFresh, IntakeOwned, IntakesOf, Rows
    <3>2. CASE l = r /\ CreateIntake(r)
      BY <1>1, <1>3, <2>1, <3>2 DEF InFlightOverlap, InFlight, CreateIntake
    <3>3. QED
      BY <2>3, <3>1, <3>2
  <2>5. QED
    BY <1>1, <2>1, <2>3, <2>4, OverlapStays
<1>4. QED
  BY <1>2, <1>3

LEMMA NextDuplicates ==
  ASSUME DeskBase, NEW r \in Requests, DeskStep(r)
  PROVE  DuplicatesOnlyByOverlap'
<1> SUFFICES ASSUME NEW t \in Tasks, NEW l \in IntakesOf(t)', NEW k \in IntakesOf(t)', l # k
             PROVE  Overlapped(l, k)'
  BY DEF DuplicatesOnlyByOverlap
<1>1. DeskTypeInv /\ IntakeOwned /\ Moves(r)
  BY DeskStepMoves DEF DeskBase
<1>2. /\ l \in Requests /\ k \in Requests
      /\ \/ l \in IntakesOf(t)
         \/ l = r /\ CreateIntake(r) /\ call[r].task = t
      /\ \/ k \in IntakesOf(t)
         \/ k = r /\ CreateIntake(r) /\ call[r].task = t
  BY <1>1, IntakesOfGrow
<1>3. pc[l] # "idle" /\ pc[k] # "idle"
  BY <1>1, <1>2 DEF IntakeOwned, IntakesOf, Rows, CreateIntake
<1>4. Overlapped(l, k)
  <2>1. CASE l \in IntakesOf(t) /\ k \in IntakesOf(t)
    BY <2>1 DEF DeskBase, DuplicatesOnlyByOverlap
  <2>2. CASE l = r /\ CreateIntake(r) /\ call[r].task = t /\ k \in IntakesOf(t)
    BY <1>2, <2>2 DEF DeskBase, CreateFresh, CreateIntake, Overlapped
  <2>3. CASE k = r /\ CreateIntake(r) /\ call[r].task = t /\ l \in IntakesOf(t)
    BY <1>2, <2>3 DEF DeskBase, CreateFresh, CreateIntake
  <2>4. QED
    BY <1>2, <2>1, <2>2, <2>3
<1>5. QED
  BY <1>1, <1>2, <1>3, <1>4, OverlapStays

LEMMA InitDeskBase == CourierInit => DeskBase
<1> SUFFICES ASSUME CourierInit PROVE DeskBase
  OBVIOUS
<1>1. DeskTypeInv /\ InFlightOverlap
  BY InitDeskTyped, OverlapAtFirst DEF CourierInit
<1>2. \A t \in Tasks : IntakesOf(t) = {}
  BY DEF CourierInit, InitIntakes, IntakesOf, Rows
<1>3. QED
  BY <1>1, <1>2 DEF DeskBase, CourierInit, InitIntakes, InitHandlers, IntakeOwned, CreateFresh,
                    DuplicatesOnlyByOverlap

LEMMA NextDeskBase == DeskBase /\ [CourierNext]_courierVars => DeskBase'
<1> SUFFICES ASSUME DeskBase, [CourierNext]_courierVars PROVE DeskBase'
  OBVIOUS
<1>1. DeskTypeInv /\ DeskTypeInv'
  BY NextDeskTyped DEF DeskBase
<1>2. CASE UNCHANGED <<intakes, handlers>>
  BY <1>1, <1>2 DEF handlers, DeskBase, InFlightOverlap, InFlight, Overlapped, IntakeOwned,
                    CreateFresh, DuplicatesOnlyByOverlap, IntakesOf, Rows
<1>3. ASSUME NEW r \in Requests, DeskStep(r) PROVE DeskBase'
  <2>1. InFlightOverlap'
    BY <1>1, <1>3, DeskStepMoves, MovesOverlap DEF DeskBase
  <2>2. IntakeOwned'
    BY <1>1, <1>3, NextIntakeOwned DEF DeskBase
  <2>3. QED
    BY <1>1, <1>3, <2>1, <2>2, NextCreateFresh, NextDuplicates DEF DeskBase
<1>4. QED
  BY <1>2, <1>3 DEF CourierNext, DeskStep, Reassign, courierVars, handlers

\* The check-then-insert of intakes leaves two records of one task only to
\* requests that were in flight together, for any number of couriers.
THEOREM DuplicatesNeedOverlap == CourierSpec => []DuplicatesOnlyByOverlap
<1>1. DeskBase => DuplicatesOnlyByOverlap
  BY DEF DeskBase
<1>2. QED
  BY <1>1, InitDeskBase, NextDeskBase, PTL DEF CourierSpec

-----------------------------------------------------------------------------
(* What PATCH may change.                                                  *)

\* A stored record changes only in the update that matches it alone.
LEMMA PatchedAlone ==
  ASSUME DeskBase, [CourierNext]_courierVars, NEW l \in Rows(intakes), intakes'[l] # intakes[l]
  PROVE  \E r \in Requests :
           /\ pc[r] = "update_intake"
           /\ call[r] \in IntakeCall
           /\ Matching(call[r]) = {l}
           /\ intakes'[l] = Patched(intakes[l], call[r].body)
<1>1. DeskTypeInv /\ IntakeOwned /\ l \in Requests /\ intakes[l] # NULL
  BY DEF DeskBase, Rows, DeskTypeInv, CourierTypeOK, IntakesTyped
<1>2. PICK r \in Requests : DeskStep(r)
  BY DEF CourierNext, DeskStep, Reassign, courierVars
<1>3. CreateIntake(r) \/ UpdateIntake(r)
  BY <1>2 DEF DeskStep, NextIntake, RefuseUnassigned, AcceptCreate, AcceptUpdate, FindToCreate,
              FindToUpdate, intakeVars
<1>4. ~ CreateIntake(r)
  BY <1>1 DEF CreateIntake, IntakeOwned, DeskTypeInv, CourierTypeOK, IntakesTyped
<1>5. UpdateIntake(r)
  BY <1>3, <1>4
<1>6. call[r] \in IntakeCall
  BY <1>1, <1>5 DEF UpdateIntake, DeskTypeInv, DeskCallTyped, CallFits, PcIntake
<1>7. QED
  BY <1>1, <1>5, <1>6 DEF UpdateIntake, UpdateByTaskId

\* Whatever assignments change meanwhile, a stored record is changed only by
\* its own courier, in the columns he sent.
THEOREM PatchesStayTheirOwn == CourierSpec => PatchesTouchTheirOwn
<1> DEFINE Own ==
      \A l \in Rows(intakes) \cap Written(intakes) :
        /\ intakes'[l] # NULL
        /\ intakes'[l].field_task_id = intakes[l].field_task_id
        /\ intakes'[l].courier_id = intakes[l].courier_id
        /\ \E r \in Requests :
             /\ pc[r] = "update_intake"
             /\ call[r].courier = intakes[l].courier_id
             /\ call[r].task = intakes[l].field_task_id
             /\ \A k \in Columns :
                  \/ k \in DOMAIN call[r].body /\ intakes'[l].data[k] = call[r].body[k]
                  \/ intakes'[l].data[k] = intakes[l].data[k]
<1>1. DeskBase /\ [CourierNext]_courierVars => Own
  <2> SUFFICES ASSUME DeskBase, [CourierNext]_courierVars,
                      NEW l \in Rows(intakes) \cap Written(intakes)
               PROVE  /\ intakes'[l] # NULL
                      /\ intakes'[l].field_task_id = intakes[l].field_task_id
                      /\ intakes'[l].courier_id = intakes[l].courier_id
                      /\ \E r \in Requests :
                           /\ pc[r] = "update_intake"
                           /\ call[r].courier = intakes[l].courier_id
                           /\ call[r].task = intakes[l].field_task_id
                           /\ \A k \in Columns :
                                \/ /\ k \in DOMAIN call[r].body
                                   /\ intakes'[l].data[k] = call[r].body[k]
                                \/ intakes'[l].data[k] = intakes[l].data[k]
    OBVIOUS
  <2>1. intakes'[l] # intakes[l]
    BY DEF Written
  <2>2. PICK r \in Requests :
          /\ pc[r] = "update_intake"
          /\ call[r] \in IntakeCall
          /\ Matching(call[r]) = {l}
          /\ intakes'[l] = Patched(intakes[l], call[r].body)
    BY <2>1, PatchedAlone
  <2>3. intakes[l] \in IntakeRow /\ call[r].body \in Bodies
    BY <2>2 DEF DeskBase, DeskTypeInv, CourierTypeOK, IntakesTyped, Rows, IntakeCall
  <2>4. /\ call[r].courier = intakes[l].courier_id
        /\ call[r].task = intakes[l].field_task_id
    BY <2>2 DEF Matching, IntakesOf
  <2>5. QED
    BY <2>2, <2>3, <2>4, IntakePatched, IntakeNullAssumption
<1>2. DeskBase /\ [CourierNext]_courierVars => [Own]_courierVars
  BY <1>1
<1>3. QED
  BY <1>2, InitDeskBase, NextDeskBase, PTL DEF CourierSpec, PatchesTouchTheirOwn

\* Once a courier has two records of one task, neither ever changes again.
THEOREM DuplicatesStayFrozen == CourierSpec => DuplicatesAreFrozen
<1> DEFINE Frozen ==
      \A t \in Tasks : \A l, k \in IntakesOf(t) :
        l # k /\ intakes[l].courier_id = intakes[k].courier_id => intakes'[l] = intakes[l]
<1>1. DeskBase /\ [CourierNext]_courierVars => Frozen
  <2> SUFFICES ASSUME DeskBase, [CourierNext]_courierVars, NEW t \in Tasks, NEW l \in IntakesOf(t),
                      NEW k \in IntakesOf(t), l # k,
                      intakes[l].courier_id = intakes[k].courier_id,
                      intakes'[l] # intakes[l]
               PROVE  FALSE
    OBVIOUS
  <2>1. PICK r \in Requests : Matching(call[r]) = {l}
    BY PatchedAlone DEF IntakesOf
  <2>2. call[r].task = t /\ call[r].courier = intakes[l].courier_id
    BY <2>1 DEF Matching, IntakesOf
  <2>3. k \in Matching(call[r])
    BY <2>2 DEF Matching
  <2>4. QED
    BY <2>1, <2>3
<1>2. DeskBase /\ [CourierNext]_courierVars => [Frozen]_courierVars
  BY <1>1
<1>3. QED
  BY <1>2, InitDeskBase, NextDeskBase, PTL DEF CourierSpec, DuplicatesAreFrozen

-----------------------------------------------------------------------------
(* What is relied on while assignments stand.                              *)

\* A handler that others leave alone goes on holding it.
LEMMA HoldsStays ==
  ASSUME NEW r \in Requests, Holds(r), SteadyDashboard(r),
         pc'[r] = pc[r], call'[r] = call[r], assigned' = assigned
  PROVE  Holds(r)' /\ SteadyDashboard(r)'
  BY DEF Holds, SteadyDashboard, ActiveTasks

LEMMA IntakeHolds ==
  ASSUME DeskTypeInv, NEW r \in Requests, NextIntake(r), assigned' = assigned,
         InFlight(r) => Holds(r)
  PROVE  Holds(r)' /\ SteadyDashboard(r)'
<1> USE DEF DeskTypeInv, CourierTypeOK, HandlersTyped, PcIntake
<1>1. CASE RefuseUnassigned(r)
  BY <1>1 DEF RefuseUnassigned, Respond, Holds, SteadyDashboard
<1>2. CASE AcceptCreate(r) \/ AcceptUpdate(r)
  <2>1. PICK c \in Couriers, t \in Tasks, body \in Bodies,
             next \in {"find_to_create", "find_to_update"} :
          <<c, t>> \in assigned /\ Begin(r, next, [courier |-> c, task |-> t, body |-> body])
    BY <1>2 DEF AcceptCreate, AcceptUpdate, Bodies
  <2>2. pc'[r] = next /\ call'[r].courier = c /\ call'[r].task = t
    BY <2>1 DEF Begin
  <2>3. QED
    BY <2>1, <2>2 DEF Holds, SteadyDashboard
<1>3. CASE FindToCreate(r) \/ FindToUpdate(r)
  BY <1>3 DEF FindToCreate, FindToUpdate, Await, Respond, Holds, SteadyDashboard, InFlight
<1>4. CASE CreateIntake(r) \/ UpdateIntake(r)
  <2>1. call[r] \notin Totals
    BY <1>4, TotalsApart DEF CreateIntake, UpdateIntake, DeskCallTyped, CallFits
  <2>2. QED
    BY <1>4, <2>1 DEF CreateIntake, UpdateIntake, Await, Respond, Holds, SteadyDashboard
<1>5. QED
  BY <1>1, <1>2, <1>3, <1>4 DEF NextIntake

LEMMA DeskHolds ==
  ASSUME DeskTypeInv, NEW r \in Requests, NextDesk(r), assigned' = assigned,
         InFlight(r) => Holds(r) /\ SteadyDashboard(r)
  PROVE  Holds(r)' /\ SteadyDashboard(r)'
<1> USE DEF DeskTypeInv, CourierTypeOK, HandlersTyped, PcIntake
<1>1. CASE AcceptFieldUpdate(r)
  BY <1>1 DEF AcceptFieldUpdate, Begin, Holds, SteadyDashboard
<1>2. CASE AcceptFieldProof(r)
  <2>1. PICK c \in Couriers, t \in Tasks, update \in UpdateIds \cup {NULL} :
          /\ <<c, t>> \in assigned
          /\ Begin(r, "create_proof",
                   [field_task_id |-> t, field_update_id |-> update, created_by |-> c])
    BY <1>2 DEF AcceptFieldProof
  <2>2. pc'[r] = "create_proof" /\ call'[r].created_by = c /\ call'[r].field_task_id = t
    BY <2>1 DEF Begin
  <2>3. QED
    BY <2>1, <2>2 DEF Holds, SteadyDashboard
<1>3. CASE CreateFieldUpdate(r) \/ CreateFieldProof(r)
  <2>1. call[r] \notin Totals
    BY <1>3, TotalsApart DEF CreateFieldUpdate, CreateFieldProof, DeskCallTyped, CallFits
  <2>2. QED
    BY <1>3, <2>1
    DEF CreateFieldUpdate, CreateFieldProof, Await, Respond, Holds, SteadyDashboard
<1>4. CASE AcceptDashboard(r)
  BY <1>4 DEF AcceptDashboard, Begin, DashboardReads, Holds, SteadyDashboard
<1>5. CASE LoadDashboard(r)
  <2>1. PICK read \in call[r].pending, c \in Dashboard :
           /\ AwaitWith(r, IF call[r].pending = {read} THEN "count_open" ELSE "load_dashboard", c)
           /\ c.pending = call[r].pending \ {read}
           /\ c.courier = call[r].courier
           /\ c.tasks =
                IF read = "list_active" THEN ActiveTasks(call[r].courier) ELSE call[r].tasks
           /\ IF read = "count_active"
              THEN Cardinality(ActiveTasks(call[r].courier)) <= c.activeAssignments
              ELSE c.activeAssignments = call[r].activeAssignments
    BY <1>5, LoadDashboardReads
  <2>2. /\ pc'[r] \in {"load_dashboard", "count_open"}
        /\ call'[r] = c
    BY <2>1 DEF AwaitWith
  <2>3. SteadyDashboard(r) /\ pc[r] = "load_dashboard"
    BY <1>5 DEF LoadDashboard, InFlight
  <2>4. ActiveTasks(call[r].courier)' = ActiveTasks(c.courier)
    BY <2>1, <2>2 DEF ActiveTasks
  <2>5. SteadyDashboard(r)'
    BY <2>1, <2>2, <2>3, <2>4 DEF SteadyDashboard
  <2>6. QED
    BY <2>2, <2>5 DEF Holds
<1>6. CASE CountOpen(r)
  <2>1. PICK c \in Totals :
           /\ AwaitWith(r, "respond", c)
           /\ c.activeAssignments = call[r].activeAssignments
           /\ c.openTasks <= Cardinality(call[r].tasks)
    BY <1>6, CountOpenAdds
  <2>2. pc'[r] = "respond" /\ call'[r] = c
    BY <2>1 DEF AwaitWith
  <2>3. /\ pc[r] = "count_open" /\ call[r] \in Dashboard /\ call[r].pending = {}
        /\ SteadyDashboard(r)
    BY <1>6 DEF CountOpen, InFlight, DeskCallTyped, CallFits
  <2>4. Cardinality(call[r].tasks) <= call[r].activeAssignments
    BY <2>3 DEF SteadyDashboard
  <2>5. Cardinality(call[r].tasks) \in Nat
    BY <2>3, IntakeAssumption, FS_Subset, FS_CardinalityType DEF Dashboard
  <2>6. c.openTasks <= c.activeAssignments
    BY <2>1, <2>3, <2>4, <2>5 DEF Totals, Dashboard
  <2>7. QED
    BY <2>2, <2>6 DEF Holds, SteadyDashboard
<1>7. QED
  BY <1>1, <1>2, <1>3, <1>4, <1>5, <1>6 DEF NextDesk

LEMMA NextDeskSteady == DeskTypeInv /\ DeskSteady /\ [CourierNext]_courierVars => DeskSteady'
<1> SUFFICES ASSUME DeskTypeInv, DeskSteady, [CourierNext]_courierVars, NEW q \in steady'
             PROVE  Holds(q)' /\ SteadyDashboard(q)'
  BY DEF DeskSteady
<1>1. CASE UNCHANGED courierVars
  BY <1>1, HoldsStays DEF courierVars, DeskSteady, DeskTypeInv, CourierTypeOK
<1>2. CASE CourierNext
  <2>1. /\ q \in Requests
        /\ pc'[q] \notin {"idle", "done"}
        /\ pc[q] = "idle" \/ q \in steady
        /\ assigned' = assigned
    BY <1>2 DEF CourierNext, ObserveAssignments
  <2>2. PICK r \in Requests : DeskStep(r)
    BY <1>2, <2>1 DEF CourierNext, DeskStep, Reassign, DeskTypeInv, CourierTypeOK, IntakesTyped
  <2>3. CASE q # r
    <3>1. pc'[q] = pc[q] /\ call'[q] = call[q]
      BY <2>1, <2>2, <2>3, DeskStepMoves, OthersWait
    <3>2. QED
      BY <2>1, <3>1, HoldsStays DEF DeskSteady
  <2>4. CASE q = r
    <3>1. InFlight(q) => Holds(q) /\ SteadyDashboard(q)
      BY <2>1 DEF InFlight, DeskSteady
    <3>2. CASE AnswerCourier(r) \/ FailCall(r)
      BY <2>1, <2>4, <3>2 DEF AnswerCourier, FailCall, Respond, DeskTypeInv, CourierTypeOK,
           HandlersTyped
    <3>3. QED
      BY <2>1, <2>2, <2>4, <3>1, <3>2, IntakeHolds, DeskHolds DEF DeskStep
  <2>5. QED
    BY <2>3, <2>4
<1>3. QED
  BY <1>1, <1>2

\* While assignments do not change, field records are filed under tasks their
\* authors hold, and a dashboard adds up, for any number of both.
THEOREM SteadyReportsAddUp == CourierSpec => []UndisturbedReportsAddUp
<1>1. CourierInit => DeskTypeInv /\ DeskSteady
  BY InitDeskTyped DEF CourierInit, DeskSteady
<1>2. DeskSteady => UndisturbedReportsAddUp
  BY DEF DeskSteady, Holds, UndisturbedReportsAddUp
<1>3. QED
  BY <1>1, <1>2, NextDeskTyped, NextDeskSteady, PTL DEF CourierSpec

-----------------------------------------------------------------------------
(***************************************************************************)
(* BACK OFFICE.                                                            *)
(***************************************************************************)

-----------------------------------------------------------------------------
(* The inductive invariant.                                                *)

PcOffice == UNION {PcScope, PcComms, PcLegal, PcIntegrations, PcReads, PcRecognitionReads}

\* What is shown tells whose it is, and is of these organizations.
RightlyShown(dto, orgs) ==
  /\ DOMAIN dto \cap {"organizationId", "templateId", "notificationId", "campaignId"} # {}
  /\ ShownFor(dto) \in orgs
  /\ "notificationId" \in DOMAIN dto => dto.notificationId \in Rows(notifications)
  /\ "campaignId" \in DOMAIN dto => dto.campaignId \in Rows(campaigns)
  /\ "configPayloadJson" \in DOMAIN dto =>
       \A k \in SecretKeys \cap DOMAIN dto.configPayloadJson :
         dto.configPayloadJson[k] = "[REDACTED]"

\* The template of a message and its organization agree.
MessageAgrees(row) ==
  row.template_id # NULL => TemplateOrg[row.template_id] = row.organization_id

\* So do document, donor and acceptance.
AcceptanceAgrees(row) ==
  /\ DocumentOrg[row.legal_document_id] = row.organization_id
  /\ row.donor_id # NULL => LegalDonorOrg[row.donor_id] = row.organization_id

\* A stored row that is looked up by its id is of these organizations.
StoredIn(table, l, orgs) == table[l] # NULL /\ table[l].organization_id \in orgs

\* What a handler keeps fits the call it is suspended at, and is of no other
\* organizations than these.
WriteGood(next, c, orgs) ==
  /\ next \in {"create_notification", "create_campaign"} =>
       /\ c \in [user : Callers, row : MessageRow]
       /\ c.row.organization_id \in orgs
       /\ MessageAgrees(c.row)
  /\ next = "create_recipient" =>
       /\ c \in [user : Callers, row : RecipientRow]
       /\ StoredIn(notifications, c.row.notification_id, orgs)
  /\ next = "find_document_donor" =>
       /\ c \in [user : Callers, body : AcceptanceBody, text : Texts]
       /\ DocumentOrg[c.body.legal_document_id] \in orgs
       /\ c.body.user_id = NULL
       /\ c.body.donor_id # NULL
  /\ next = "create_acceptance" =>
       /\ c \in [user : Callers, body : AcceptanceBody, row : AcceptanceRow]
       /\ c.row.organization_id \in orgs
       /\ AcceptanceAgrees(c.row)
  /\ next = "create_configuration" =>
       /\ c \in [user : Callers, row : ConfigurationRow]
       /\ c.row.organization_id \in orgs
       /\ ProviderOrg[c.row.provider_id] = c.row.organization_id
  /\ next = "apply_patch" =>
       /\ c \in [user : Callers, orgs : SUBSET Orgs, id : ConfigurationIds, body : ConfigPatches]
       /\ c.orgs \subseteq orgs
  /\ next = "create_event" => c \in [user : {NULL}, row : EventRows]

ReadGood(next, c, orgs) ==
  /\ next \in PcScope => c \in Context /\ CollectOrganizationIds(c) \subseteq orgs
  /\ next = "list_recipients" =>
       /\ c \in [user : Callers, parent : NotificationIds]
       /\ StoredIn(notifications, c.parent, orgs)
  /\ next = "list_deliveries" =>
       /\ c \in [user : Callers, parent : CampaignIds]
       /\ StoredIn(campaigns, c.parent, orgs)
  /\ next \in {"list_versions", "list_variables"} =>
       /\ c \in [user : Callers, parent : Templates]
       /\ TemplateOrg[c.parent] \in orgs
  /\ next \in PcRecognitionReads =>
       /\ c \in [user : Callers, parent : LegalDonors]
       /\ LegalDonorOrg[c.parent] \in orgs
  /\ next = "respond" /\ "shown" \in DOMAIN c =>
       c.user \in Callers /\ \A dto \in c.shown : RightlyShown(dto, orgs)

CallGood(next, c, orgs) == WriteGood(next, c, orgs) /\ ReadGood(next, c, orgs)

CallsGood == \A r \in Requests : CallGood(pc[r], call[r], seen[r])

\* A handler inserts with its last call.
OfficeOwned ==
  \A r \in Requests : pc[r] \notin {"respond", "done"} =>
    /\ notifications[r] = NULL
    /\ recipients[r] = NULL
    /\ campaigns[r] = NULL
    /\ acceptances[r] = NULL
    /\ configurations[r] = NULL
    /\ events[r] = NULL

\* Only a webhook is received for nobody.
CallersKnown == \A r \in Requests : InFlight(r) => call[r].user \in Callers \cup {NULL}

OfficeBase == TypeOK /\ CallersKnown /\ CallsGood /\ OfficeOwned /\ OrgsAgree

\* A document and a text that were in force at that time, unless a time was
\* sent; or a text was sent.
ConsentPending(r) ==
  LET body == call[r].body
      doc == documents[body.legal_document_id]
  IN /\ call[r].text = doc.content_body
     /\ body.user_id = NULL
     /\ doc.effective_from # NULL => doc.effective_from <= now

Undisturbed ==
  \A r \in Requests \ stirred :
    /\ pc[r] = "find_document_donor" => ConsentPending(r)
    /\ pc[r] = "create_acceptance" => RecordsConsent(r)
    /\ pc[r] = "create_event" =>
         LET p == call[r].row.provider_id
         IN {q \in active : ProviderCode[q] = ProviderCode[p]} = {p}

OfficeInv == OfficeBase /\ Undisturbed

-----------------------------------------------------------------------------
(* What is shown.                                                          *)

LEMMA OrEmptyTyped == \A json \in Json : OrEmpty(json) \in Object
  BY DEF Json, Object, OrEmpty

\* A DTO with an organization and without a payload is shown for that one.
LEMMA OrgShown ==
  ASSUME NEW dto, NEW orgs, "organizationId" \in DOMAIN dto, dto.organizationId \in orgs,
         DOMAIN dto \cap {"notificationId", "campaignId", "templateId", "configPayloadJson"} = {}
  PROVE  RightlyShown(dto, orgs)
  BY DEF RightlyShown, ShownFor

LEMMA TemplateTypeShown ==
  ASSUME NEW orgs, NEW l \in InOrgs(TemplateTypeRows, orgs)
  PROVE  /\ ToTemplateTypeDto(TemplateTypeRows[l]) \in TemplateTypeDto
         /\ RightlyShown(ToTemplateTypeDto(TemplateTypeRows[l]), orgs)
<1>1. TemplateTypeRows[l] \in TemplateTypeRow /\ TemplateTypeRows[l].organization_id \in orgs
  BY ReadsAssumption DEF InOrgs, Rows
<1>2. QED
  BY <1>1, OrEmptyTyped, OrgShown DEF TemplateTypeRow, TemplateTypeDto, ToTemplateTypeDto

LEMMA ExternalApiLogShown ==
  ASSUME NEW orgs, NEW l \in InOrgs(ExternalApiLogRows, orgs)
  PROVE  /\ ToExternalApiLogDto(ExternalApiLogRows[l]) \in ExternalApiLogDto
         /\ RightlyShown(ToExternalApiLogDto(ExternalApiLogRows[l]), orgs)
<1>1. ExternalApiLogRows[l] \in ExternalApiLogRow /\ ExternalApiLogRows[l].organization_id \in orgs
  BY ReadsAssumption DEF InOrgs, Rows
<1>2. QED
  BY <1>1, OrEmptyTyped, OrgShown DEF ExternalApiLogRow, ExternalApiLogDto, ToExternalApiLogDto

LEMMA ActivityLogShown ==
  ASSUME NEW orgs, NEW l \in InOrgs(ActivityLogRows, orgs)
  PROVE  /\ ToActivityLogDto(ActivityLogRows[l]) \in ActivityLogDto
         /\ RightlyShown(ToActivityLogDto(ActivityLogRows[l]), orgs)
<1>1. ActivityLogRows[l] \in ActivityLogRow /\ ActivityLogRows[l].organization_id \in orgs
  BY ReadsAssumption DEF InOrgs, Rows
<1>2. QED
  BY <1>1, OrEmptyTyped, OrgShown DEF ActivityLogRow, ActivityLogDto, ToActivityLogDto

LEMMA AuditLogShown ==
  ASSUME NEW orgs, NEW l \in InOrgs(AuditLogRows, orgs)
  PROVE  /\ ToAuditLogDto(AuditLogRows[l]) \in AuditLogDto
         /\ RightlyShown(ToAuditLogDto(AuditLogRows[l]), orgs)
<1>1. AuditLogRows[l] \in AuditLogRow /\ AuditLogRows[l].organization_id \in orgs
  BY ReadsAssumption DEF InOrgs, Rows
<1>2. QED
  BY <1>1, OrEmptyTyped, OrgShown DEF AuditLogRow, AuditLogDto, ToAuditLogDto

LEMMA PointsRuleShown ==
  ASSUME NEW orgs, NEW l \in InOrgs(PointsRuleRows, orgs)
  PROVE  /\ ToPointsRuleDto(PointsRuleRows[l]) \in RuleDto
         /\ RightlyShown(ToPointsRuleDto(PointsRuleRows[l]), orgs)
<1>1. PointsRuleRows[l] \in RuleRow /\ PointsRuleRows[l].organization_id \in orgs
  BY RecognitionReadsAssumption DEF InOrgs, Rows
<1>2. QED
  BY <1>1, OrEmptyTyped, OrgShown DEF RuleRow, RuleDto, ToPointsRuleDto

LEMMA CertificateRuleShown ==
  ASSUME NEW orgs, NEW l \in InOrgs(CertificateRuleRows, orgs)
  PROVE  /\ ToCertificateRuleDto(CertificateRuleRows[l]) \in RuleDto
         /\ RightlyShown(ToCertificateRuleDto(CertificateRuleRows[l]), orgs)
<1>1. CertificateRuleRows[l] \in RuleRow /\ CertificateRuleRows[l].organization_id \in orgs
  BY RecognitionReadsAssumption DEF InOrgs, Rows
<1>2. QED
  BY <1>1, OrEmptyTyped, OrgShown DEF RuleRow, RuleDto, ToCertificateRuleDto

LEMMA BadgeShown ==
  ASSUME NEW orgs, NEW l \in InOrgs(BadgeRows, orgs)
  PROVE  /\ ToOpsBadgeDto(BadgeRows[l]) \in OpsBadgeDto
         /\ RightlyShown(ToOpsBadgeDto(BadgeRows[l]), orgs)
<1>1. BadgeRows[l] \in BadgeRow /\ BadgeRows[l].organization_id \in orgs
  BY RecognitionReadsAssumption DEF InOrgs, Rows
<1>2. QED
  BY <1>1, OrEmptyTyped, OrgShown DEF BadgeRow, OpsBadgeDto, ToOpsBadgeDto

LEMMA CertificateTemplateShown ==
  ASSUME NEW orgs, NEW l \in InOrgs(CertificateTemplateRows, orgs)
  PROVE  /\ ToOpsCertificateTemplateDto(CertificateTemplateRows[l]) \in OpsCertificateTemplateDto
         /\ RightlyShown(ToOpsCertificateTemplateDto(CertificateTemplateRows[l]), orgs)
<1>1. /\ CertificateTemplateRows[l] \in CertificateTemplateRow
      /\ CertificateTemplateRows[l].organization_id \in orgs
  BY RecognitionReadsAssumption DEF InOrgs, Rows
<1>2. QED
  BY <1>1, OrEmptyTyped, OrgShown DEF CertificateTemplateRow, OpsCertificateTemplateDto,
       ToOpsCertificateTemplateDto

LEMMA TemplateShown ==
  ASSUME NEW orgs, NEW l \in InOrgs(templateTable, orgs)
  PROVE  /\ ToTemplateDto(templateTable[l]) \in TemplateDto
         /\ RightlyShown(ToTemplateDto(templateTable[l]), orgs)
<1>1. templateTable[l].organization_id \in Orgs /\ templateTable[l].organization_id \in orgs
  BY CommunicationsAssumption DEF InOrgs, Rows, templateTable
<1>2. QED
  BY <1>1, OrgShown DEF TemplateDto, ToTemplateDto

LEMMA NotificationShown ==
  ASSUME TypeOK, NEW orgs, NEW l \in InOrgs(notifications, orgs)
  PROVE  /\ ToOpsNotificationDto(notifications[l]) \in OpsNotificationDto
         /\ RightlyShown(ToOpsNotificationDto(notifications[l]), orgs)
<1>1. notifications[l] \in MessageRow /\ notifications[l].organization_id \in orgs
  BY DEF InOrgs, Rows, TypeOK, CommsTyped
<1>2. QED
  BY <1>1, OrgShown DEF MessageRow, OpsNotificationDto, ToOpsNotificationDto

LEMMA CampaignShown ==
  ASSUME TypeOK, NEW orgs, NEW l \in InOrgs(campaigns, orgs)
  PROVE  /\ ToCommunicationCampaignDto(campaigns[l]) \in CommunicationCampaignDto
         /\ RightlyShown(ToCommunicationCampaignDto(campaigns[l]), orgs)
<1>1. campaigns[l] \in MessageRow /\ campaigns[l].organization_id \in orgs
  BY DEF InOrgs, Rows, TypeOK, CommsTyped
<1>2. QED
  BY <1>1, OrgShown DEF MessageRow, CommunicationCampaignDto, ToCommunicationCampaignDto

LEMMA DocumentShown ==
  ASSUME TypeOK, NEW orgs, NEW l \in InOrgs(documentTable, orgs)
  PROVE  /\ ToLegalDocumentDto(documentTable[l]) \in LegalDocumentDto
         /\ RightlyShown(ToLegalDocumentDto(documentTable[l]), orgs)
<1>1. /\ documentTable[l].document \in Document
      /\ documentTable[l].organization_id \in Orgs
      /\ documentTable[l].organization_id \in orgs
  BY LegalAssumption DEF InOrgs, Rows, documentTable, TypeOK, LegalTyped
<1>2. QED
  BY <1>1, OrgShown DEF Document, LegalDocumentDto, ToLegalDocumentDto

LEMMA AcceptanceShown ==
  ASSUME TypeOK, NEW orgs, NEW l \in InOrgs(acceptances, orgs)
  PROVE  /\ ToLegalAcceptanceDto(acceptances[l]) \in LegalAcceptanceDto
         /\ RightlyShown(ToLegalAcceptanceDto(acceptances[l]), orgs)
<1>1. acceptances[l] \in AcceptanceRow /\ acceptances[l].organization_id \in orgs
  BY DEF InOrgs, Rows, TypeOK, LegalTyped
<1>2. QED
  BY <1>1, OrgShown DEF AcceptanceRow, LegalAcceptanceDto, ToLegalAcceptanceDto

LEMMA ProviderShown ==
  ASSUME NEW orgs, NEW l \in InOrgs(providerTable, orgs)
  PROVE  /\ ToIntegrationProviderDto(providerTable[l]) \in IntegrationProviderDto
         /\ RightlyShown(ToIntegrationProviderDto(providerTable[l]), orgs)
<1>1. l \in Providers /\ providerTable[l].organization_id \in orgs
  BY DEF InOrgs, Rows, providerTable
<1>2. providerTable[l] = [organization_id |-> ProviderOrg[l], is_active |-> l \in active]
  BY <1>1 DEF providerTable
<1>3. PICK on \in BOOLEAN : on = (l \in active)
  <2>1. CASE l \in active
    BY <2>1, (l \in active) = TRUE, TRUE \in BOOLEAN, Zenon
  <2>2. CASE l \notin active
    BY <2>2, (l \in active) = FALSE, FALSE \in BOOLEAN, Zenon
  <2>3. QED
    BY <2>1, <2>2
<1>4. ToIntegrationProviderDto(providerTable[l]) =
        [organizationId |-> ProviderOrg[l], isActive |-> on]
  BY <1>2, <1>3 DEF ToIntegrationProviderDto
<1>5. ProviderOrg[l] \in Orgs /\ ProviderOrg[l] \in orgs
  BY <1>1, <1>2, IntegrationsAssumption
<1>6. QED
  BY <1>4, <1>5, OrgShown DEF IntegrationProviderDto

LEMMA LedgerShown ==
  ASSUME NEW orgs, NEW l \in InOrgs(PointsLedgerRows, orgs)
  PROVE  /\ ToOpsPointsLedgerEntryDto(PointsLedgerRows[l]) \in LedgerDto
         /\ RightlyShown(ToOpsPointsLedgerEntryDto(PointsLedgerRows[l]), orgs)
<1>1. PointsLedgerRows[l] \in LedgerRow /\ PointsLedgerRows[l].organization_id \in orgs
  BY RecognitionReadsAssumption DEF InOrgs, Rows
<1>2. QED
  BY <1>1, OrgShown DEF LedgerRow, LedgerDto, ToOpsPointsLedgerEntryDto

\* A stored event is of the organization of its provider.
LEMMA EventsTyped ==
  ASSUME NEW event \in EventRows
  PROVE  /\ event.organization_id \in Orgs
         /\ event.provider_id \in Providers
         /\ ProviderOrg[event.provider_id] = event.organization_id
         /\ event.processing_status = "pending"
  BY IntegrationsAssumption DEF EventRows, EventRow

LEMMA EventShown ==
  ASSUME TypeOK, NEW orgs, NEW l \in InOrgs(events, orgs)
  PROVE  /\ ToWebhookEventDto(events[l]) \in WebhookEventDto
         /\ RightlyShown(ToWebhookEventDto(events[l]), orgs)
<1>1. events[l] \in EventRows /\ events[l].organization_id \in orgs
  BY DEF InOrgs, Rows, TypeOK, IntegrationsTyped
<1>2. QED
  BY <1>1, EventsTyped, OrgShown DEF WebhookEventDto, ToWebhookEventDto

\* Whatever of a payload is secret is not shown.
LEMMA PayloadRedacted ==
  ASSUME NEW payload \in Payload
  PROVE  /\ RedactConfigPayload(payload) \in Payload
         /\ \A k \in SecretKeys \cap DOMAIN RedactConfigPayload(payload) :
              RedactConfigPayload(payload)[k] = "[REDACTED]"
<1>1. PICK keys \in SUBSET PayloadKeys : payload \in [keys -> {"set", "[REDACTED]"}]
  BY DEF Payload, PartialFunctions
<1>2. RedactConfigPayload(payload) \in [keys -> {"set", "[REDACTED]"}]
  BY <1>1 DEF RedactConfigPayload
<1>3. RedactConfigPayload(payload) \in Payload
  BY <1>1, <1>2 DEF Payload, PartialFunctions
<1>4. QED
  BY <1>3 DEF RedactConfigPayload

LEMMA ConfigurationShown ==
  ASSUME TypeOK, NEW orgs, NEW l \in InOrgs(configurations, orgs)
  PROVE  /\ ToIntegrationConfigurationDto(configurations[l]) \in IntegrationConfigurationDto
         /\ RightlyShown(ToIntegrationConfigurationDto(configurations[l]), orgs)
<1>1. configurations[l] \in ConfigurationRow /\ configurations[l].organization_id \in orgs
  BY DEF InOrgs, Rows, TypeOK, IntegrationsTyped
<1>2. /\ configurations[l].config_payload_json \in Payload
      /\ configurations[l].organization_id \in Orgs
  BY <1>1 DEF ConfigurationRow
<1>3. QED
  BY <1>1, <1>2, PayloadRedacted
  DEF IntegrationConfigurationDto, ToIntegrationConfigurationDto, RightlyShown, ShownFor

-----------------------------------------------------------------------------
(* What is listed under a parent that was found before.                    *)

LEMMA VersionsShown ==
  ASSUME NEW orgs, NEW v \in DOMAIN TemplateVersionRows,
         TemplateOrg[TemplateVersionRows[v].template_id] \in orgs
  PROVE  /\ ToTemplateVersionDto(TemplateVersionRows[v]) \in TemplateVersionDto
         /\ RightlyShown(ToTemplateVersionDto(TemplateVersionRows[v]), orgs)
<1>1. TemplateVersionRows[v] \in TemplateVersionRow
  BY ReadsAssumption
<1>2. QED
  BY <1>1, OrEmptyTyped
  DEF TemplateVersionRow, TemplateVersionDto, ToTemplateVersionDto, RightlyShown, ShownFor

LEMMA VariablesShown ==
  ASSUME NEW orgs, NEW v \in DOMAIN TemplateVariableRows,
         TemplateOrg[TemplateVariableRows[v].template_id] \in orgs
  PROVE  /\ ToTemplateVariableDto(TemplateVariableRows[v]) \in TemplateVariableDto
         /\ RightlyShown(ToTemplateVariableDto(TemplateVariableRows[v]), orgs)
<1>1. TemplateVariableRows[v] \in TemplateVariableRow
  BY ReadsAssumption
<1>2. QED
  BY <1>1 DEF TemplateVariableRow, TemplateVariableDto, ToTemplateVariableDto, RightlyShown,
              ShownFor

LEMMA RecipientsShown ==
  ASSUME TypeOK, NEW orgs, NEW l \in Rows(recipients),
         StoredIn(notifications, recipients[l].notification_id, orgs)
  PROVE  /\ ToOpsNotificationRecipientDto(recipients[l]) \in OpsNotificationRecipientDto
         /\ RightlyShown(ToOpsNotificationRecipientDto(recipients[l]), orgs)
<1>1. recipients[l] \in RecipientRow
  BY DEF Rows, TypeOK, CommsTyped
<1>2. recipients[l].notification_id \in Rows(notifications)
  BY <1>1 DEF RecipientRow, StoredIn, Rows, TypeOK, CommsTyped
<1>3. QED
  BY <1>1, <1>2 DEF RecipientRow, OpsNotificationRecipientDto, ToOpsNotificationRecipientDto,
                    RightlyShown, ShownFor, StoredIn

LEMMA DeliveriesShown ==
  ASSUME TypeOK, NEW orgs, NEW d \in DOMAIN CampaignDeliveryRows,
         StoredIn(campaigns, CampaignDeliveryRows[d].campaign_id, orgs)
  PROVE  /\ ToCampaignDeliveryDto(CampaignDeliveryRows[d]) \in CampaignDeliveryDto
         /\ RightlyShown(ToCampaignDeliveryDto(CampaignDeliveryRows[d]), orgs)
<1>1. CampaignDeliveryRows[d] \in CampaignDeliveryRow
  BY ReadsAssumption
<1>2. CampaignDeliveryRows[d].campaign_id \in Rows(campaigns) \cap CampaignIds
  BY <1>1 DEF CampaignDeliveryRow, CampaignIds, StoredIn, Rows, TypeOK, CommsTyped
<1>3. QED
  BY <1>2 DEF CampaignDeliveryDto, ToCampaignDeliveryDto, RightlyShown, ShownFor, StoredIn

\* A donor is awarded for his own organization.
LEMMA AwardsShown ==
  ASSUME NEW orgs
  PROVE  /\ \A l \in DOMAIN PointsLedgerRows :
              LegalDonorOrg[PointsLedgerRows[l].donor_id] \in orgs =>
                /\ ToOpsPointsLedgerEntryDto(PointsLedgerRows[l]) \in LedgerDto
                /\ RightlyShown(ToOpsPointsLedgerEntryDto(PointsLedgerRows[l]), orgs)
         /\ \A l \in DOMAIN BadgeAwardRows :
              LegalDonorOrg[BadgeAwardRows[l].donor_id] \in orgs =>
                /\ ToOpsBadgeAwardDto(BadgeAwardRows[l]) \in LedgerDto
                /\ RightlyShown(ToOpsBadgeAwardDto(BadgeAwardRows[l]), orgs)
         /\ \A l \in DOMAIN IssuedCertificateRows :
              LegalDonorOrg[IssuedCertificateRows[l].donor_id] \in orgs =>
                /\ ToOpsIssuedCertificateDto(IssuedCertificateRows[l]) \in OpsIssuedCertificateDto
                /\ RightlyShown(ToOpsIssuedCertificateDto(IssuedCertificateRows[l]), orgs)
<1>1. ASSUME NEW l \in DOMAIN PointsLedgerRows, LegalDonorOrg[PointsLedgerRows[l].donor_id] \in orgs
      PROVE  /\ ToOpsPointsLedgerEntryDto(PointsLedgerRows[l]) \in LedgerDto
             /\ RightlyShown(ToOpsPointsLedgerEntryDto(PointsLedgerRows[l]), orgs)
  BY <1>1, RecognitionReadsAssumption, OrgShown
  DEF AwardedInOrg, LedgerRow, LedgerDto, ToOpsPointsLedgerEntryDto
<1>2. ASSUME NEW l \in DOMAIN BadgeAwardRows, LegalDonorOrg[BadgeAwardRows[l].donor_id] \in orgs
      PROVE  /\ ToOpsBadgeAwardDto(BadgeAwardRows[l]) \in LedgerDto
             /\ RightlyShown(ToOpsBadgeAwardDto(BadgeAwardRows[l]), orgs)
  BY <1>2, RecognitionReadsAssumption, OrgShown
  DEF AwardedInOrg, LedgerRow, LedgerDto, ToOpsBadgeAwardDto
<1>3. ASSUME NEW l \in DOMAIN IssuedCertificateRows,
             LegalDonorOrg[IssuedCertificateRows[l].donor_id] \in orgs
      PROVE  /\ ToOpsIssuedCertificateDto(IssuedCertificateRows[l]) \in OpsIssuedCertificateDto
             /\ RightlyShown(ToOpsIssuedCertificateDto(IssuedCertificateRows[l]), orgs)
  BY <1>3, RecognitionReadsAssumption, OrEmptyTyped, OrgShown
  DEF AwardedInOrg, IssuedRow, OpsIssuedCertificateDto, ToOpsIssuedCertificateDto
<1>4. QED
  BY <1>1, <1>2, <1>3

-----------------------------------------------------------------------------
(* Reads, one after the other.                                             *)

\* A handler waits for a call, and will go on or end when it returns.
Pending(r) == pc[r] \notin {"idle", "respond", "done"}

\* A read shows what is of the caller's organizations, finds a parent of them,
\* or is refused; it changes no table.
Shows(r) ==
  /\ Pending(r)
  /\ call[r].user \in Callers
  /\ \E dtos \in (SUBSET Dto) \cup SUBSET RecognitionDto :
       /\ \A dto \in dtos : RightlyShown(dto, seen[r])
       /\ Show(r, dtos)

FindsParent(r) ==
  /\ Pending(r)
  /\ \E next \in PcReads \cup PcRecognitionReads, c \in Calls :
       /\ AwaitWith(r, next, c)
       /\ c.user \in Callers /\ c.user = call[r].user
       /\ CallGood(next, c, seen[r])
  /\ UNCHANGED officeVars

Refuses(r) == (\E code \in Errors : Respond(r, code)) /\ UNCHANGED officeVars

ReadMoves(r) == Shows(r) \/ FindsParent(r) \/ Refuses(r)

LEMMA OpsCaller ==
  ASSUME CallsGood, NEW r \in Requests, RequireOps(r)
  PROVE  /\ Pending(r)
         /\ call[r] \in Context
         /\ call[r].user \in Callers
         /\ CollectOrganizationIds(call[r]) \subseteq seen[r]
<1>1. pc[r] = "authed"
  BY DEF RequireOps
<1>2. call[r] \in Context /\ CollectOrganizationIds(call[r]) \subseteq seen[r]
  BY <1>1 DEF CallsGood, CallGood, ReadGood, PcScope
<1>3. QED
  BY <1>1, <1>2 DEF Context, Pending

LEMMA MessageReads ==
  ASSUME TypeOK, CallsGood, NEW r \in Requests,
         \/ ListTemplateTypes(r)
         \/ ListTemplates(r) \/ GetTemplate(r)
         \/ ListOpsNotifications(r) \/ GetOpsNotification(r)
         \/ ListCampaigns(r) \/ GetCampaign(r)
  PROVE  ReadMoves(r)
<1>1. RequireOps(r) => /\ Pending(r) /\ call[r].user \in Callers
                       /\ CollectOrganizationIds(call[r]) \subseteq seen[r]
  BY OpsCaller
<1>2. CASE ListTemplateTypes(r)
  <2>1. RequireOps(r) => \A l \in VisibleRows(r, TemplateTypeRows) :
          /\ ToTemplateTypeDto(TemplateTypeRows[l]) \in Dto
          /\ RightlyShown(ToTemplateTypeDto(TemplateTypeRows[l]), seen[r])
    BY <1>1, TemplateTypeShown DEF VisibleRows, InOrgs, Dto
  <2>2. QED
    BY <1>1, <1>2, <2>1
    DEF ListTemplateTypes, ListInOrgs, ReadMoves, Shows,
        Refuses, Errors
<1>3. CASE ListTemplates(r) \/ GetTemplate(r)
  <2>1. RequireOps(r) => \A l \in VisibleRows(r, templateTable) :
          /\ ToTemplateDto(templateTable[l]) \in Dto
          /\ RightlyShown(ToTemplateDto(templateTable[l]), seen[r])
    BY <1>1, TemplateShown DEF VisibleRows, InOrgs, Dto
  <2>2. QED
    BY <1>1, <1>3, <2>1
    DEF ListTemplates, GetTemplate, ListInOrgs, GetInOrgs, RefuseHidden, ReadMoves, Shows,
        Refuses, Errors
<1>4. CASE ListOpsNotifications(r) \/ GetOpsNotification(r)
  <2>1. RequireOps(r) => \A l \in VisibleRows(r, notifications) :
          /\ ToOpsNotificationDto(notifications[l]) \in Dto
          /\ RightlyShown(ToOpsNotificationDto(notifications[l]), seen[r])
    BY <1>1, NotificationShown DEF VisibleRows, InOrgs, Dto
  <2>2. QED
    BY <1>1, <1>4, <2>1
    DEF ListOpsNotifications, GetOpsNotification, ListInOrgs, GetInOrgs, RefuseHidden, ReadMoves,
        Shows, Refuses, Errors
<1>5. CASE ListCampaigns(r) \/ GetCampaign(r)
  <2>1. RequireOps(r) => \A l \in VisibleRows(r, campaigns) :
          /\ ToCommunicationCampaignDto(campaigns[l]) \in Dto
          /\ RightlyShown(ToCommunicationCampaignDto(campaigns[l]), seen[r])
    BY <1>1, CampaignShown DEF VisibleRows, InOrgs, Dto
  <2>2. QED
    BY <1>1, <1>5, <2>1
    DEF ListCampaigns, GetCampaign, ListInOrgs, GetInOrgs, RefuseHidden, ReadMoves, Shows,
        Refuses, Errors
<1>6. QED
  BY <1>2, <1>3, <1>4, <1>5

LEMMA LegalReads ==
  ASSUME TypeOK, CallsGood, NEW r \in Requests,
         \/ ListLegalDocuments(r) \/ GetLegalDocument(r)
         \/ ListLegalAcceptances(r) \/ GetLegalAcceptance(r)
  PROVE  ReadMoves(r)
<1>1. RequireOps(r) => /\ Pending(r) /\ call[r].user \in Callers
                       /\ CollectOrganizationIds(call[r]) \subseteq seen[r]
  BY OpsCaller
<1>2. CASE ListLegalDocuments(r) \/ GetLegalDocument(r)
  <2>1. RequireOps(r) => \A l \in VisibleRows(r, documentTable) :
          /\ ToLegalDocumentDto(documentTable[l]) \in Dto
          /\ RightlyShown(ToLegalDocumentDto(documentTable[l]), seen[r])
    BY <1>1, DocumentShown DEF VisibleRows, InOrgs, Dto
  <2>2. QED
    BY <1>1, <1>2, <2>1
    DEF ListLegalDocuments, GetLegalDocument, ListInOrgs, GetInOrgs, RefuseHidden, ReadMoves, Shows,
        Refuses, Errors
<1>3. CASE ListLegalAcceptances(r) \/ GetLegalAcceptance(r)
  <2>1. RequireOps(r) => \A l \in VisibleRows(r, acceptances) :
          /\ ToLegalAcceptanceDto(acceptances[l]) \in Dto
          /\ RightlyShown(ToLegalAcceptanceDto(acceptances[l]), seen[r])
    BY <1>1, AcceptanceShown DEF VisibleRows, InOrgs, Dto
  <2>2. QED
    BY <1>1, <1>3, <2>1
    DEF ListLegalAcceptances, GetLegalAcceptance, ListInOrgs, GetInOrgs, RefuseHidden, ReadMoves,
        Shows, Refuses, Errors
<1>4. QED
  BY <1>2, <1>3

LEMMA IntegrationReads ==
  ASSUME TypeOK, CallsGood, NEW r \in Requests,
         \/ ListIntegrationProviders(r) \/ GetIntegrationProvider(r)
         \/ ListIntegrationConfigurations(r) \/ GetIntegrationConfiguration(r)
         \/ ListWebhookEvents(r) \/ GetWebhookEvent(r)
         \/ ListExternalApiLogs(r) \/ GetExternalApiLog(r)
  PROVE  ReadMoves(r)
<1>1. RequireOps(r) => /\ Pending(r) /\ call[r].user \in Callers
                       /\ CollectOrganizationIds(call[r]) \subseteq seen[r]
  BY OpsCaller
<1>2. CASE ListIntegrationProviders(r) \/ GetIntegrationProvider(r)
  <2>1. RequireOps(r) => \A l \in VisibleRows(r, providerTable) :
          /\ ToIntegrationProviderDto(providerTable[l]) \in Dto
          /\ RightlyShown(ToIntegrationProviderDto(providerTable[l]), seen[r])
    BY <1>1, ProviderShown DEF VisibleRows, InOrgs, Dto
  <2>2. QED
    BY <1>1, <1>2, <2>1
    DEF ListIntegrationProviders, GetIntegrationProvider, ListInOrgs, GetInOrgs, RefuseHidden,
        ReadMoves, Shows,
        Refuses, Errors
<1>3. CASE ListIntegrationConfigurations(r) \/ GetIntegrationConfiguration(r)
  <2>1. RequireOps(r) => \A l \in VisibleRows(r, configurations) :
          /\ ToIntegrationConfigurationDto(configurations[l]) \in Dto
          /\ RightlyShown(ToIntegrationConfigurationDto(configurations[l]), seen[r])
    BY <1>1, ConfigurationShown DEF VisibleRows, InOrgs, Dto
  <2>2. QED
    BY <1>1, <1>3, <2>1
    DEF ListIntegrationConfigurations, GetIntegrationConfiguration, ListInOrgs, GetInOrgs,
        RefuseHidden, ReadMoves, Shows,
        Refuses, Errors
<1>4. CASE ListWebhookEvents(r) \/ GetWebhookEvent(r)
  <2>1. RequireOps(r) => \A l \in VisibleRows(r, events) :
          /\ ToWebhookEventDto(events[l]) \in Dto
          /\ RightlyShown(ToWebhookEventDto(events[l]), seen[r])
    BY <1>1, EventShown DEF VisibleRows, InOrgs, Dto
  <2>2. QED
    BY <1>1, <1>4, <2>1
    DEF ListWebhookEvents, GetWebhookEvent, ListInOrgs, GetInOrgs, RefuseHidden, ReadMoves, Shows,
        Refuses, Errors
<1>5. CASE ListExternalApiLogs(r) \/ GetExternalApiLog(r)
  <2>1. RequireOps(r) => \A l \in VisibleRows(r, ExternalApiLogRows) :
          /\ ToExternalApiLogDto(ExternalApiLogRows[l]) \in Dto
          /\ RightlyShown(ToExternalApiLogDto(ExternalApiLogRows[l]), seen[r])
    BY <1>1, ExternalApiLogShown DEF VisibleRows, InOrgs, Dto
  <2>2. QED
    BY <1>1, <1>5, <2>1
    DEF ListExternalApiLogs, GetExternalApiLog, ListInOrgs, GetInOrgs, RefuseHidden, ReadMoves,
        Shows, Refuses, Errors
<1>6. QED
  BY <1>2, <1>3, <1>4, <1>5

LEMMA LogReads ==
  ASSUME TypeOK, CallsGood, NEW r \in Requests,
         \/ ListActivityLogs(r) \/ GetActivityLog(r)
         \/ ListAuditLogs(r) \/ GetAuditLog(r)
  PROVE  ReadMoves(r)
<1>1. RequireOps(r) => /\ Pending(r) /\ call[r].user \in Callers
                       /\ CollectOrganizationIds(call[r]) \subseteq seen[r]
  BY OpsCaller
<1>2. CASE ListActivityLogs(r) \/ GetActivityLog(r)
  <2>1. RequireOps(r) => \A l \in VisibleRows(r, ActivityLogRows) :
          /\ ToActivityLogDto(ActivityLogRows[l]) \in Dto
          /\ RightlyShown(ToActivityLogDto(ActivityLogRows[l]), seen[r])
    BY <1>1, ActivityLogShown DEF VisibleRows, InOrgs, Dto
  <2>2. QED
    BY <1>1, <1>2, <2>1
    DEF ListActivityLogs, GetActivityLog, ListInOrgs, GetInOrgs, RefuseHidden, ReadMoves, Shows,
        Refuses, Errors
<1>3. CASE ListAuditLogs(r) \/ GetAuditLog(r)
  <2>1. RequireOps(r) => \A l \in VisibleRows(r, AuditLogRows) :
          /\ ToAuditLogDto(AuditLogRows[l]) \in Dto
          /\ RightlyShown(ToAuditLogDto(AuditLogRows[l]), seen[r])
    BY <1>1, AuditLogShown DEF VisibleRows, InOrgs, Dto
  <2>2. QED
    BY <1>1, <1>3, <2>1
    DEF ListAuditLogs, GetAuditLog, ListInOrgs, GetInOrgs, RefuseHidden, ReadMoves, Shows,
        Refuses, Errors
<1>4. QED
  BY <1>2, <1>3

LEMMA RecognitionLists ==
  ASSUME TypeOK, CallsGood, NEW r \in Requests,
         \/ ListPointsRules(r) \/ GetPointsRule(r)
         \/ ListPointsLedger(r)
         \/ ListBadges(r) \/ GetBadge(r)
         \/ ListCertificateTemplates(r) \/ GetCertificateTemplate(r)
         \/ ListCertificateRules(r) \/ GetCertificateRule(r)
  PROVE  ReadMoves(r)
<1>1. RequireOps(r) => /\ Pending(r) /\ call[r].user \in Callers
                       /\ CollectOrganizationIds(call[r]) \subseteq seen[r]
  BY OpsCaller
<1>2. CASE ListPointsRules(r) \/ GetPointsRule(r)
  <2>1. RequireOps(r) => \A l \in VisibleRows(r, PointsRuleRows) :
          /\ ToPointsRuleDto(PointsRuleRows[l]) \in RecognitionDto
          /\ RightlyShown(ToPointsRuleDto(PointsRuleRows[l]), seen[r])
    BY <1>1, PointsRuleShown DEF VisibleRows, InOrgs, RecognitionDto
  <2>2. QED
    BY <1>1, <1>2, <2>1
    DEF ListPointsRules, GetPointsRule, ListInOrgs, GetInOrgs, RefuseHidden, ReadMoves, Shows,
        Refuses, Errors
<1>3. CASE ListPointsLedger(r)
  <2>1. RequireOps(r) => \A l \in VisibleRows(r, PointsLedgerRows) :
          /\ ToOpsPointsLedgerEntryDto(PointsLedgerRows[l]) \in RecognitionDto
          /\ RightlyShown(ToOpsPointsLedgerEntryDto(PointsLedgerRows[l]), seen[r])
    BY <1>1, LedgerShown DEF VisibleRows, InOrgs, RecognitionDto
  <2>2. QED
    BY <1>1, <1>3, <2>1
    DEF ListPointsLedger, ListInOrgs, ReadMoves, Shows,
        Refuses, Errors
<1>4. CASE ListBadges(r) \/ GetBadge(r)
  <2>1. RequireOps(r) => \A l \in VisibleRows(r, BadgeRows) :
          /\ ToOpsBadgeDto(BadgeRows[l]) \in RecognitionDto
          /\ RightlyShown(ToOpsBadgeDto(BadgeRows[l]), seen[r])
    BY <1>1, BadgeShown DEF VisibleRows, InOrgs, RecognitionDto
  <2>2. QED
    BY <1>1, <1>4, <2>1
    DEF ListBadges, GetBadge, ListInOrgs, GetInOrgs, RefuseHidden, ReadMoves, Shows,
        Refuses, Errors
<1>5. CASE ListCertificateTemplates(r) \/ GetCertificateTemplate(r)
  <2>1. RequireOps(r) => \A l \in VisibleRows(r, CertificateTemplateRows) :
          /\ ToOpsCertificateTemplateDto(CertificateTemplateRows[l]) \in RecognitionDto
          /\ RightlyShown(ToOpsCertificateTemplateDto(CertificateTemplateRows[l]), seen[r])
    BY <1>1, CertificateTemplateShown DEF VisibleRows, InOrgs, RecognitionDto
  <2>2. QED
    BY <1>1, <1>5, <2>1
    DEF ListCertificateTemplates, GetCertificateTemplate, ListInOrgs, GetInOrgs, RefuseHidden,
        ReadMoves, Shows,
        Refuses, Errors
<1>6. CASE ListCertificateRules(r) \/ GetCertificateRule(r)
  <2>1. RequireOps(r) => \A l \in VisibleRows(r, CertificateRuleRows) :
          /\ ToCertificateRuleDto(CertificateRuleRows[l]) \in RecognitionDto
          /\ RightlyShown(ToCertificateRuleDto(CertificateRuleRows[l]), seen[r])
    BY <1>1, CertificateRuleShown DEF VisibleRows, InOrgs, RecognitionDto
  <2>2. QED
    BY <1>1, <1>6, <2>1
    DEF ListCertificateRules, GetCertificateRule, ListInOrgs, GetInOrgs, RefuseHidden, ReadMoves,
        Shows, Refuses, Errors
<1>7. QED
  BY <1>2, <1>3, <1>4, <1>5, <1>6

\* A version is found with its template in one call.
LEMMA GetsVersion ==
  ASSUME TypeOK, CallsGood, NEW r \in Requests, GetTemplateVersion(r)
  PROVE  ReadMoves(r)
<1>1. /\ Pending(r) /\ call[r].user \in Callers
      /\ CollectOrganizationIds(call[r]) \subseteq seen[r]
  BY OpsCaller DEF GetTemplateVersion
<1>2. ASSUME NEW v \in FindVersionInOrgs(CollectOrganizationIds(call[r]))
      PROVE  /\ ToTemplateVersionDto(TemplateVersionRows[v]) \in Dto
             /\ RightlyShown(ToTemplateVersionDto(TemplateVersionRows[v]), seen[r])
  <2>1. /\ v \in DOMAIN TemplateVersionRows
        /\ TemplateOrg[TemplateVersionRows[v].template_id] \in seen[r]
    BY <1>1 DEF FindVersionInOrgs
  <2>2. QED
    BY <2>1, VersionsShown DEF Dto
<1>3. PICK v \in DOMAIN TemplateVersionRows :
        \/ /\ v \in FindVersionInOrgs(CollectOrganizationIds(call[r]))
           /\ Show(r, {ToTemplateVersionDto(TemplateVersionRows[v])})
        \/ Respond(r, "NOT_FOUND") /\ UNCHANGED officeVars
  BY DEF GetTemplateVersion
<1>4. QED
  BY <1>1, <1>2, <1>3 DEF ReadMoves, Shows, Refuses, Errors

\* A parent is found among the rows of the caller's organizations.
LEMMA FindsParents ==
  ASSUME TypeOK, CallsGood, NEW r \in Requests,
         \/ FindTemplateOfVersions(r) \/ FindTemplateOfVariables(r)
         \/ FindNotificationOfRecipients(r) \/ FindCampaignOfDeliveries(r)
         \/ FindDonorOfLedger(r) \/ FindDonorOfBadges(r) \/ FindDonorOfCertificates(r)
  PROVE  ReadMoves(r)
<1> DEFINE Finds(next, l) == AwaitWith(r, next, [user |-> call[r].user, parent |-> l])
<1>1. /\ RequireOps(r) => /\ Pending(r)
                          /\ call[r].user \in Callers
                          /\ CollectOrganizationIds(call[r]) \subseteq seen[r]
      /\ UNCHANGED officeVars
  BY OpsCaller
  DEF FindTemplateOfVersions, FindTemplateOfVariables, FindNotificationOfRecipients,
      FindCampaignOfDeliveries, FindDonorOfLedger, FindDonorOfBadges, FindDonorOfCertificates,
      FindParent, RefuseHidden
<1> USE DEF CallGood, WriteGood, ReadGood, PcReads, PcRecognitionReads, PcScope
<1>2. ASSUME NEW next \in {"list_versions", "list_variables"},
             FindParent(r, templateTable, next)
      PROVE  ReadMoves(r)
  <2>1. CASE \E l \in VisibleRows(r, templateTable) : Finds(next, l)
    <3>1. PICK l \in VisibleRows(r, templateTable) : Finds(next, l)
      BY <2>1
    <3>2. RequireOps(r)
      BY <1>2 DEF FindParent, RefuseHidden
    <3>3. l \in Templates /\ TemplateOrg[l] \in seen[r]
      BY <1>1, <3>2 DEF VisibleRows, InOrgs, Rows, templateTable
    <3>4. [user |-> call[r].user, parent |-> l] \in Calls
      BY <1>1, <3>2, <3>3 DEF Calls, ReadCall
    <3>5. QED
      BY <1>1, <3>1, <3>2, <3>3, <3>4 DEF ReadMoves, FindsParent
  <2>2. QED
    BY <1>1, <1>2, <2>1 DEF FindParent, RefuseHidden, ReadMoves, Refuses, Errors
<1>3. CASE FindNotificationOfRecipients(r)
  <2>1. CASE \E l \in VisibleRows(r, notifications) : Finds("list_recipients", l)
    <3>1. PICK l \in VisibleRows(r, notifications) : Finds("list_recipients", l)
      BY <2>1
    <3>2. RequireOps(r)
      BY <1>3 DEF FindNotificationOfRecipients, FindParent, RefuseHidden
    <3>3. l \in NotificationIds /\ StoredIn(notifications, l, seen[r])
      BY <1>1, <3>2 DEF VisibleRows, InOrgs, Rows, StoredIn, TypeOK, CommsTyped
    <3>4. [user |-> call[r].user, parent |-> l] \in Calls
      BY <1>1, <3>2, <3>3 DEF Calls, ReadCall
    <3>5. QED
      BY <1>1, <3>1, <3>2, <3>3, <3>4 DEF ReadMoves, FindsParent
  <2>2. QED
    BY <1>1, <1>3, <2>1
    DEF FindNotificationOfRecipients, FindParent, RefuseHidden, ReadMoves, Refuses, Errors
<1>4. CASE FindCampaignOfDeliveries(r)
  <2>1. CASE \E l \in VisibleRows(r, campaigns) : Finds("list_deliveries", l)
    <3>1. PICK l \in VisibleRows(r, campaigns) : Finds("list_deliveries", l)
      BY <2>1
    <3>2. RequireOps(r)
      BY <1>4 DEF FindCampaignOfDeliveries, FindParent, RefuseHidden
    <3>3. l \in CampaignIds /\ StoredIn(campaigns, l, seen[r])
      BY <1>1, <3>2 DEF VisibleRows, InOrgs, Rows, StoredIn, TypeOK, CommsTyped
    <3>4. [user |-> call[r].user, parent |-> l] \in Calls
      BY <1>1, <3>2, <3>3 DEF Calls, ReadCall
    <3>5. QED
      BY <1>1, <3>1, <3>2, <3>3, <3>4 DEF ReadMoves, FindsParent
  <2>2. QED
    BY <1>1, <1>4, <2>1
    DEF FindCampaignOfDeliveries, FindParent, RefuseHidden, ReadMoves, Refuses, Errors
<1>5. ASSUME NEW next \in PcRecognitionReads, FindParent(r, donorTable, next)
      PROVE  ReadMoves(r)
  <2>1. CASE \E l \in VisibleRows(r, donorTable) : Finds(next, l)
    <3>1. PICK l \in VisibleRows(r, donorTable) : Finds(next, l)
      BY <2>1
    <3>2. RequireOps(r)
      BY <1>5 DEF FindParent, RefuseHidden
    <3>3. l \in LegalDonors /\ LegalDonorOrg[l] \in seen[r]
      BY <1>1, <3>2 DEF VisibleRows, InOrgs, Rows, donorTable
    <3>4. [user |-> call[r].user, parent |-> l] \in Calls
      BY <1>1, <3>2, <3>3 DEF Calls, RecognitionCall
    <3>5. QED
      BY <1>1, <3>1, <3>2, <3>3, <3>4 DEF ReadMoves, FindsParent
  <2>2. QED
    BY <1>1, <1>5, <2>1 DEF FindParent, RefuseHidden, ReadMoves, Refuses, Errors
<1>6. QED
  BY <1>2, <1>3, <1>4, <1>5
  DEF FindTemplateOfVersions, FindTemplateOfVariables, FindDonorOfLedger, FindDonorOfBadges,
      FindDonorOfCertificates

\* What hangs from a parent is of its organization, whenever it is listed.
LEMMA ListsChildren ==
  ASSUME TypeOK, CallsGood, NEW r \in Requests,
         \/ ListTemplateVersions(r) \/ ListTemplateVariables(r)
         \/ ListRecipientsForNotification(r) \/ ListDeliveriesForCampaign(r)
         \/ ListDonorPointsLedger(r) \/ ListDonorBadges(r) \/ ListDonorCertificates(r)
  PROVE  ReadMoves(r)
<1>1. Pending(r)
  BY DEF Pending, ListTemplateVersions, ListTemplateVariables, ListRecipientsForNotification,
     ListDeliveriesForCampaign, ListDonorPointsLedger, ListDonorBadges, ListDonorCertificates
<1>2. CallGood(pc[r], call[r], seen[r])
  BY DEF CallsGood
<1> USE DEF CallGood, ReadGood, PcRecognitionReads
<1>3. CASE ListTemplateVersions(r)
  <2>1. call[r].user \in Callers /\ TemplateOrg[call[r].parent] \in seen[r]
    BY <1>2, <1>3 DEF ListTemplateVersions
  <2>2. ASSUME NEW l \in DOMAIN TemplateVersionRows,
               TemplateVersionRows[l].template_id = call[r].parent
        PROVE  /\ ToTemplateVersionDto(TemplateVersionRows[l]) \in Dto
               /\ RightlyShown(ToTemplateVersionDto(TemplateVersionRows[l]), seen[r])
    BY <2>1, <2>2, VersionsShown DEF Dto
  <2>3. QED
    BY <1>1, <1>3, <2>1, <2>2 DEF ListTemplateVersions, ReadMoves, Shows
<1>4. CASE ListTemplateVariables(r)
  <2>1. call[r].user \in Callers /\ TemplateOrg[call[r].parent] \in seen[r]
    BY <1>2, <1>4 DEF ListTemplateVariables
  <2>2. ASSUME NEW l \in DOMAIN TemplateVariableRows,
               TemplateVariableRows[l].template_id = call[r].parent
        PROVE  /\ ToTemplateVariableDto(TemplateVariableRows[l]) \in Dto
               /\ RightlyShown(ToTemplateVariableDto(TemplateVariableRows[l]), seen[r])
    BY <2>1, <2>2, VariablesShown DEF Dto
  <2>3. QED
    BY <1>1, <1>4, <2>1, <2>2 DEF ListTemplateVariables, ReadMoves, Shows
<1>5. CASE ListRecipientsForNotification(r)
  <2>1. call[r].user \in Callers /\ StoredIn(notifications, call[r].parent, seen[r])
    BY <1>2, <1>5 DEF ListRecipientsForNotification
  <2>2. ASSUME NEW l \in Rows(recipients), recipients[l].notification_id = call[r].parent
        PROVE  /\ ToOpsNotificationRecipientDto(recipients[l]) \in Dto
               /\ RightlyShown(ToOpsNotificationRecipientDto(recipients[l]), seen[r])
    BY <2>1, <2>2, RecipientsShown DEF Dto
  <2>3. QED
    BY <1>1, <1>5, <2>1, <2>2 DEF ListRecipientsForNotification, ReadMoves, Shows
<1>6. CASE ListDeliveriesForCampaign(r)
  <2>1. call[r].user \in Callers /\ StoredIn(campaigns, call[r].parent, seen[r])
    BY <1>2, <1>6 DEF ListDeliveriesForCampaign
  <2>2. ASSUME NEW d \in DOMAIN CampaignDeliveryRows,
               CampaignDeliveryRows[d].campaign_id = call[r].parent
        PROVE  /\ ToCampaignDeliveryDto(CampaignDeliveryRows[d]) \in Dto
               /\ RightlyShown(ToCampaignDeliveryDto(CampaignDeliveryRows[d]), seen[r])
    BY <2>1, <2>2, DeliveriesShown DEF Dto
  <2>3. QED
    BY <1>1, <1>6, <2>1, <2>2 DEF ListDeliveriesForCampaign, ReadMoves, Shows
<1>7. CASE ListDonorPointsLedger(r)
  <2>1. call[r].user \in Callers /\ LegalDonorOrg[call[r].parent] \in seen[r]
    BY <1>2, <1>7 DEF ListDonorPointsLedger
  <2>2. \A row \in OfDonor(r, PointsLedgerRows) :
          /\ ToOpsPointsLedgerEntryDto(row) \in RecognitionDto
          /\ RightlyShown(ToOpsPointsLedgerEntryDto(row), seen[r])
    BY <2>1, AwardsShown DEF OfDonor, RecognitionDto
  <2>3. QED
    BY <1>1, <1>7, <2>1, <2>2 DEF ListDonorPointsLedger, ReadMoves, Shows
<1>8. CASE ListDonorBadges(r)
  <2>1. call[r].user \in Callers /\ LegalDonorOrg[call[r].parent] \in seen[r]
    BY <1>2, <1>8 DEF ListDonorBadges
  <2>2. \A row \in OfDonor(r, BadgeAwardRows) :
          /\ ToOpsBadgeAwardDto(row) \in RecognitionDto
          /\ RightlyShown(ToOpsBadgeAwardDto(row), seen[r])
    BY <2>1, AwardsShown DEF OfDonor, RecognitionDto
  <2>3. QED
    BY <1>1, <1>8, <2>1, <2>2 DEF ListDonorBadges, ReadMoves, Shows
<1>9. CASE ListDonorCertificates(r)
  <2>1. call[r].user \in Callers /\ LegalDonorOrg[call[r].parent] \in seen[r]
    BY <1>2, <1>9 DEF ListDonorCertificates
  <2>2. \A row \in OfDonor(r, IssuedCertificateRows) :
          /\ ToOpsIssuedCertificateDto(row) \in RecognitionDto
          /\ RightlyShown(ToOpsIssuedCertificateDto(row), seen[r])
    BY <2>1, AwardsShown DEF OfDonor, RecognitionDto
  <2>3. QED
    BY <1>1, <1>9, <2>1, <2>2 DEF ListDonorCertificates, ReadMoves, Shows
<1>10. QED
  BY <1>3, <1>4, <1>5, <1>6, <1>7, <1>8, <1>9

LEMMA ReadsMove ==
  ASSUME TypeOK, CallsGood, NEW r \in Requests, NextReads(r) \/ NextRecognitionReads(r)
  PROVE  ReadMoves(r)
  BY MessageReads, LegalReads, IntegrationReads, LogReads, RecognitionLists, GetsVersion,
     FindsParents, ListsChildren
  DEF NextReads, NextRecognitionReads

-----------------------------------------------------------------------------
(* Every step of a handler.                                                *)

\* A handler begins, goes on as it is, goes on with what it has read or built,
\* or ends; and what it then keeps is good for the organizations it has seen or
\* reads now.
OfficeMoves(r) ==
  \/ \E next \in PcOffice, c \in Calls : Begin(r, next, c) /\ CallGood(next, c, {})
  \/ /\ Pending(r)
     /\ \E next \in PcOffice \cup {"respond"} :
          Await(r, next) /\ CallGood(next, call[r], seen[r])
  \/ /\ Pending(r)
     /\ \E next \in PcOffice \cup {"respond"}, c \in Calls :
          /\ AwaitWith(r, next, c)
          /\ c.user \in Callers /\ c.user = call[r].user
          /\ CallGood(next, c, seen[r] \cup MemberNow(c.user))
  \/ \E code \in Errors \cup {"OK"} : Respond(r, code)

\* More organizations do no harm.
LEMMA MoreSeen ==
  ASSUME NEW next, NEW c, NEW orgs, NEW more, CallGood(next, c, orgs), orgs \subseteq more
  PROVE  CallGood(next, c, more)
  BY DEF CallGood, WriteGood, ReadGood, StoredIn, RightlyShown

\* A handler that goes on with a call of the same caller.
LEMMA GoesOnWith ==
  ASSUME CallsGood, NEW r \in Requests, Pending(r),
         \E next \in PcOffice \cup {"respond"}, c \in Calls :
           /\ AwaitWith(r, next, c)
           /\ c.user \in Callers /\ c.user = call[r].user
           /\ CallGood(next, c, seen[r])
  PROVE  OfficeMoves(r)
<1>1. PICK next \in PcOffice \cup {"respond"}, c \in Calls :
           /\ AwaitWith(r, next, c)
           /\ c.user \in Callers /\ c.user = call[r].user
           /\ CallGood(next, c, seen[r])
  OBVIOUS
<1>2. CallGood(next, c, seen[r] \cup MemberNow(c.user))
  BY <1>1, MoreSeen
<1>3. QED
  BY <1>1, <1>2 DEF OfficeMoves

LEMMA ReadsAreMoves ==
  ASSUME TypeOK, CallsGood, NEW r \in Requests, ReadMoves(r)
  PROVE  OfficeMoves(r)
<1>1. CASE Shows(r)
  <2>1. PICK dtos \in (SUBSET Dto) \cup SUBSET RecognitionDto :
          /\ \A dto \in dtos : RightlyShown(dto, seen[r])
          /\ Show(r, dtos)
    BY <1>1 DEF Shows
  <2>2. call[r].user \in Callers /\ Pending(r)
    BY <1>1 DEF Shows
  <2> DEFINE c == [user |-> call[r].user, shown |-> dtos]
  <2>3. c \in Calls
    BY <2>2 DEF Calls, ReadCall, RecognitionCall
  <2>4. CallGood("respond", c, seen[r])
    BY <2>1, <2>2 DEF CallGood, WriteGood, ReadGood, PcScope, PcRecognitionReads
  <2>5. QED
    BY <2>1, <2>2, <2>3, <2>4, GoesOnWith DEF Show
<1>2. CASE FindsParent(r)
  BY <1>2, GoesOnWith DEF FindsParent, PcOffice
<1>3. CASE Refuses(r)
  BY <1>3 DEF Refuses, OfficeMoves
<1>4. QED
  BY <1>1, <1>2, <1>3 DEF ReadMoves

\* What hangs from a users row is of organizations its owner has at present.
LEMMA OwnedTyped ==
  ASSUME TypeOK, NEW user \in Callers
  PROVE  /\ Owned(accounts[user]).donor \in BOOLEAN
         /\ Owned(accounts[user]).courier \in BOOLEAN
         /\ Owned(accounts[user]).memberships \in SUBSET Membership
<1>1. accounts[user] \in Account \cup {NULL}
  BY AccountsAssumption DEF TypeOK
<1>2. QED
  BY <1>1 DEF Owned, Account

LEMMA LoadsContext ==
  ASSUME TypeOK, CallsGood, NEW r \in Requests, LoadContext(r)
  PROVE  OfficeMoves(r)
<1>1. call[r] \in Context /\ CollectOrganizationIds(call[r]) \subseteq seen[r]
  BY DEF LoadContext, CallsGood, CallGood, ReadGood, PcScope
<1>2. PICK read \in call[r].pending :
        AwaitWith(r, IF call[r].pending = {read} THEN "authed" ELSE "load_context",
                  Loaded(call[r], read, Owned(accounts[call[r].user])))
  BY DEF LoadContext
<1> DEFINE c == Loaded(call[r], read, Owned(accounts[call[r].user]))
<1>3. /\ c \in Context
      /\ c.user \in Callers
      /\ c.user = call[r].user
      /\ c.memberships \in {call[r].memberships, Owned(accounts[call[r].user]).memberships}
  BY <1>1, OwnedTyped DEF Context, Loaded
<1>4. CollectOrganizationIds(c) \subseteq seen[r] \cup MemberNow(c.user)
  BY <1>1, <1>3 DEF CollectOrganizationIds, MemberNow
<1> HIDE DEF c
<1>5. ASSUME NEW next \in {"authed", "load_context"}
      PROVE  CallGood(next, c, seen[r] \cup MemberNow(c.user))
  BY <1>3, <1>4 DEF CallGood, WriteGood, ReadGood, PcRecognitionReads
<1>6. c \in Calls /\ Pending(r)
  BY <1>3 DEF Calls, Pending, LoadContext
<1>7. AwaitWith(r, IF call[r].pending = {read} THEN "authed" ELSE "load_context", c)
  BY <1>2 DEF c
<1>8. QED
  BY <1>3, <1>5, <1>6, <1>7 DEF OfficeMoves, PcOffice, PcScope

\* Nothing of what is kept for the tables is shown.
LEMMA ShowsNothing ==
  ASSUME CallsGood, NEW r \in Requests,
         pc[r] \in PcScope \cup PcComms \cup PcLegal \cup PcIntegrations
  PROVE  CallGood("respond", call[r], seen[r])
<1>1. CallGood(pc[r], call[r], seen[r])
  BY DEF CallsGood
<1>2. "shown" \notin DOMAIN call[r]
  BY <1>1 DEF CallGood, WriteGood, ReadGood, PcScope, PcComms, PcLegal, PcIntegrations, Context
<1>3. QED
  BY <1>2 DEF CallGood, WriteGood, ReadGood, PcScope, PcRecognitionReads

LEMMA ScopeMoves ==
  ASSUME TypeOK, CallsGood, NEW r \in Requests, NextScope(r)
  PROVE  OfficeMoves(r)
<1> USE DEF PcOffice, PcScope, Errors
<1>1. CASE RefuseSession(r) \/ RefuseForbidden(r) \/ RefuseInvalid(r)
  BY <1>1 DEF RefuseSession, RefuseForbidden, RefuseInvalid, OfficeMoves
<1>2. CASE GetAuthUser(r)
  <2>1. PICK u \in Callers :
          Begin(r, "find_user", [user |-> u, pending |-> ContextReads, donor |-> FALSE,
                                 courier |-> FALSE, memberships |-> {}])
    BY <1>2 DEF GetAuthUser
  <2> DEFINE c == [user |-> u, pending |-> ContextReads, donor |-> FALSE,
                   courier |-> FALSE, memberships |-> {}]
  <2>2. c \in Context /\ CollectOrganizationIds(c) = {}
    BY DEF Context, CollectOrganizationIds
  <2> HIDE DEF c
  <2>3. CallGood("find_user", c, {}) /\ c \in Calls
    BY <2>2 DEF CallGood, WriteGood, ReadGood, PcRecognitionReads, Calls
  <2>4. Begin(r, "find_user", c)
    BY <2>1 DEF c
  <2>5. QED
    BY <2>3, <2>4 DEF OfficeMoves
<1>3. ASSUME NEW at \in {"find_user", "authed", "find_me"},
             NEW next \in {"load_context", "find_me", "respond"},
             pc[r] = at, Await(r, next)
      PROVE  OfficeMoves(r)
  <2>1. CallGood(pc[r], call[r], seen[r]) /\ CallGood("respond", call[r], seen[r])
    BY <1>3, ShowsNothing DEF CallsGood
  <2>2. CallGood(next, call[r], seen[r])
    BY <1>3, <2>1 DEF CallGood, WriteGood, ReadGood, PcRecognitionReads
  <2>3. Pending(r)
    BY <1>3 DEF Pending
  <2>4. QED
    BY <1>3, <2>2, <2>3 DEF OfficeMoves
<1>4. CASE FindUserByAuthId(r) \/ RequireUser(r)
  BY <1>3, <1>4 DEF FindUserByAuthId, RequireUser, FindUser, OfficeMoves
<1>5. CASE GetMe(r) \/ GetDonorProfile(r) \/ GetCourierProfile(r)
  BY <1>3, <1>5 DEF GetMe, GetDonorProfile, GetCourierProfile, RequireDonor, RequireCourier,
                    OfficeMoves
<1>6. CASE LoadContext(r)
  BY <1>6, LoadsContext
<1>7. QED
  BY <1>1, <1>2, <1>4, <1>5, <1>6 DEF NextScope

\* The one organization that is left is of the caller, and of the template.
LEMMA TargetAgrees ==
  ASSUME NEW explicit \in Orgs \cup {NULL}, NEW derived \in Orgs \cup {NULL},
         NEW orgs \in SUBSET Orgs, NEW org \in ResolveTargetOrgId(explicit, derived, orgs)
  PROVE  org \in orgs /\ (derived # NULL => derived = org)
  BY DEF ResolveTargetOrgId

LEMMA OpensMessage ==
  ASSUME CallsGood, NEW r \in Requests, RequireOps(r), NEW body \in MessageBodies,
         NEW next \in {"create_notification", "create_campaign"}, OpenMessage(r, next, body)
  PROVE  OfficeMoves(r)
<1>1. /\ Pending(r) /\ call[r].user \in Callers
      /\ CollectOrganizationIds(call[r]) \subseteq seen[r]
      /\ CollectOrganizationIds(call[r]) \subseteq Orgs
  BY OpsCaller DEF CollectOrganizationIds, Context, Membership
<1>2. /\ body.organization_id \in Orgs \cup {NULL}
      /\ body.template_id \in Templates \cup {NULL}
  BY CommunicationsAssumption DEF MessageBody
<1> DEFINE derived == IF body.template_id = NULL THEN NULL ELSE TemplateOrg[body.template_id]
           target == ResolveTargetOrgId(body.organization_id, derived,
                                        CollectOrganizationIds(call[r]))
           c(org) == [user |-> call[r].user,
                      row |-> [organization_id |-> org, template_id |-> body.template_id,
                               status |-> "draft", created_by |-> call[r].user]]
<1>3. derived \in Orgs \cup {NULL} /\ (body.template_id # NULL => derived # NULL)
  BY <1>2, CommunicationsAssumption, AccountsAssumption
<1>4. ASSUME NEW org \in target, AwaitWith(r, next, c(org))
      PROVE  OfficeMoves(r)
  <2>1. org \in CollectOrganizationIds(call[r]) /\ (derived # NULL => derived = org)
    BY <1>1, <1>2, <1>3, TargetAgrees
  <2>2. c(org) \in [user : Callers, row : MessageRow]
    BY <1>1, <1>2, <2>1 DEF MessageRow
  <2>3. MessageAgrees(c(org).row) /\ c(org).row.organization_id \in seen[r]
    BY <1>1, <1>3, <2>1 DEF MessageAgrees
  <2>4. c(org) \in Calls /\ c(org).user \in Callers /\ c(org).user = call[r].user
    BY <1>1, <2>2 DEF Calls, CommsCall
  <2>5. CallGood(next, c(org), seen[r])
    BY <2>2, <2>3 DEF CallGood, WriteGood, ReadGood, PcScope, PcRecognitionReads
  <2>6. QED
    BY <1>1, <1>4, <2>4, <2>5, GoesOnWith DEF PcOffice, PcComms
<1>5. \/ \E org \in target : AwaitWith(r, next, c(org))
      \/ Respond(r, "NOT_FOUND") \/ Respond(r, "BAD_REQUEST")
  BY DEF OpenMessage
<1>6. QED
  BY <1>4, <1>5 DEF OfficeMoves, Errors

LEMMA CommsMoves ==
  ASSUME TypeOK, CallsGood, NEW r \in Requests, NextComms(r)
  PROVE  OfficeMoves(r)
<1> USE DEF PcOffice, PcComms, Errors
<1>1. CASE CreateOpsNotification(r) \/ CreateCampaign(r)
  BY <1>1, OpensMessage DEF CreateOpsNotification, CreateCampaign
<1>2. CASE InsertNotification(r) \/ InsertCampaign(r) \/ InsertRecipient(r)
  <2>1. /\ pc[r] \in PcComms
        /\ Await(r, "respond")
    BY <1>2 DEF InsertNotification, InsertCampaign, InsertRecipient
  <2>2. CallGood("respond", call[r], seen[r]) /\ Pending(r)
    BY <2>1, ShowsNothing DEF Pending
  <2>3. QED
    BY <2>1, <2>2 DEF OfficeMoves
<1>3. CASE RefuseUnaddressed(r)
  BY <1>3 DEF RefuseUnaddressed, OfficeMoves
<1>4. CASE CreateRecipientForNotification(r)
  <2>1. /\ Pending(r) /\ call[r].user \in Callers
        /\ CollectOrganizationIds(call[r]) \subseteq seen[r]
    BY <1>4, OpsCaller DEF CreateRecipientForNotification
  <2>2. PICK l \in NotificationIds, body \in RecipientBodies :
          \/ Respond(r, "NOT_FOUND")
          \/ /\ AssertNotificationInCallerOrgs(l, CollectOrganizationIds(call[r]))
             /\ AwaitWith(r, "create_recipient",
                  [user |-> call[r].user,
                   row |-> [notification_id |-> l, sent |-> body,
                            delivery_status |-> "pending"]])
    BY <1>4 DEF CreateRecipientForNotification
  <2> DEFINE c == [user |-> call[r].user,
                   row |-> [notification_id |-> l, sent |-> body,
                            delivery_status |-> "pending"]]
  <2>3. c \in [user : Callers, row : RecipientRow]
    BY <2>1, CommunicationsAssumption DEF RecipientRow
  <2>4. c \in Calls /\ c.user \in Callers /\ c.user = call[r].user
    BY <2>1, <2>3 DEF Calls, CommsCall
  <2>5. CASE AssertNotificationInCallerOrgs(l, CollectOrganizationIds(call[r]))
    <3>1. StoredIn(notifications, c.row.notification_id, seen[r])
      BY <2>1, <2>5 DEF AssertNotificationInCallerOrgs, InOrgs, Rows, StoredIn
    <3>2. CallGood("create_recipient", c, seen[r])
      BY <2>3, <3>1 DEF CallGood, WriteGood, ReadGood, PcScope, PcRecognitionReads
    <3>3. CASE AwaitWith(r, "create_recipient", c)
      BY <2>1, <2>4, <3>2, <3>3, GoesOnWith
    <3>4. QED
      BY <2>2, <3>3 DEF OfficeMoves
  <2>6. QED
    BY <2>2, <2>5 DEF OfficeMoves
<1>5. QED
  BY <1>1, <1>2, <1>3, <1>4 DEF NextComms

-----------------------------------------------------------------------------

\* A row says what the body and the document say.
LEMMA NewAcceptanceTyped ==
  ASSUME TypeOK, NEW body \in AcceptanceBody, NEW text \in Texts
  PROVE  /\ NewAcceptance(body, text) \in AcceptanceRow
         /\ NewAcceptance(body, text).organization_id = DocumentOrg[body.legal_document_id]
         /\ NewAcceptance(body, text).legal_document_id = body.legal_document_id
         /\ NewAcceptance(body, text).user_id = body.user_id
         /\ NewAcceptance(body, text).donor_id = body.donor_id
         /\ NewAcceptance(body, text).accepted_at =
              IF body.accepted_at = NULL THEN now ELSE body.accepted_at
         /\ body.acceptance_text_snapshot = NULL =>
              NewAcceptance(body, text).acceptance_text_snapshot = text
<1>1. /\ body.legal_document_id \in Documents
      /\ body.user_id \in Callers \cup {NULL}
      /\ body.donor_id \in LegalDonors \cup {NULL}
      /\ body.accepted_at \in Times \cup {NULL}
      /\ body.acceptance_text_snapshot \in Texts \cup {NULL}
  BY DEF AcceptanceBody
<1>2. DocumentOrg[body.legal_document_id] \in Orgs /\ now \in Times
  BY <1>1, LegalAssumption DEF TypeOK, LegalTyped
<1>3. QED
  BY <1>1, <1>2 DEF NewAcceptance, AcceptanceRow

LEMMA LegalMoves ==
  ASSUME TypeOK, CallsGood, NEW r \in Requests, NextLegal(r)
  PROVE  OfficeMoves(r)
<1> USE DEF PcOffice, PcLegal, Errors
<1>1. CASE RefuseActors(r) \/ RefuseDocument(r)
  BY <1>1 DEF RefuseActors, RefuseDocument, OfficeMoves
<1>2. CASE CreateLegalAcceptance(r)
  <2>1. /\ Pending(r) /\ call[r].user \in Callers
        /\ CollectOrganizationIds(call[r]) \subseteq seen[r]
    BY <1>2, OpsCaller DEF CreateLegalAcceptance
  <2>2. PICK body \in AcceptanceBodies :
       LET text == documents[body.legal_document_id].content_body
       IN /\ OneActor(body)
          /\ Acceptable(r, body)
          /\ \/ /\ body.user_id = call[r].user
                /\ AwaitWith(r, "create_acceptance",
                             [user |-> call[r].user, body |-> body,
                              row |-> NewAcceptance(body, text)])
             \/ /\ body.user_id \notin {call[r].user, NULL}
                /\ Respond(r, "FORBIDDEN")
             \/ /\ body.donor_id # NULL
                /\ AwaitWith(r, "find_document_donor",
                             [user |-> call[r].user, body |-> body, text |-> text])
    BY <1>2 DEF CreateLegalAcceptance
  <2> DEFINE text == documents[body.legal_document_id].content_body
  <2>3. /\ body \in AcceptanceBody
        /\ body.legal_document_id \in Documents
        /\ text \in Texts
    BY LegalAssumption DEF AcceptanceBody, Document, TypeOK, LegalTyped
  <2>4. DocumentOrg[body.legal_document_id] \in seen[r]
    BY <2>1, <2>2 DEF Acceptable
  <2> HIDE DEF text
  <2>5. CASE /\ body.user_id = call[r].user
             /\ AwaitWith(r, "create_acceptance",
                          [user |-> call[r].user, body |-> body,
                           row |-> NewAcceptance(body, text)])
    <3> DEFINE c == [user |-> call[r].user, body |-> body, row |-> NewAcceptance(body, text)]
    <3>1. body.user_id # NULL /\ body.donor_id = NULL
      BY <2>1, <2>2, <2>5, AccountsAssumption DEF OneActor
    <3>2. /\ c \in [user : Callers, body : AcceptanceBody, row : AcceptanceRow]
          /\ c.row.organization_id \in seen[r]
          /\ AcceptanceAgrees(c.row)
      BY <2>1, <2>3, <2>4, <3>1, NewAcceptanceTyped DEF AcceptanceAgrees
    <3>3. c.user = call[r].user /\ c.user \in Callers /\ c \in Calls
      BY <2>1, <3>2 DEF Calls, LegalCall
    <3>4. CallGood("create_acceptance", c, seen[r])
      BY <3>2 DEF CallGood, WriteGood, ReadGood, PcScope, PcRecognitionReads
    <3>5. QED
      BY <2>1, <2>5, <3>3, <3>4, GoesOnWith
  <2>6. CASE /\ body.donor_id # NULL
             /\ AwaitWith(r, "find_document_donor",
                          [user |-> call[r].user, body |-> body, text |-> text])
    <3> DEFINE c == [user |-> call[r].user, body |-> body, text |-> text]
    <3>1. body.user_id = NULL
      BY <2>2, <2>6 DEF OneActor
    <3>2. c \in [user : Callers, body : AcceptanceBody, text : Texts]
      BY <2>1, <2>3
    <3>3. c.user = call[r].user /\ c.user \in Callers /\ c \in Calls
      BY <2>1, <3>2 DEF Calls, LegalCall
    <3>4. CallGood("find_document_donor", c, seen[r])
      BY <2>4, <2>6, <3>1, <3>2 DEF CallGood, WriteGood, ReadGood, PcScope, PcRecognitionReads
    <3>5. QED
      BY <2>1, <2>6, <3>3, <3>4, GoesOnWith
  <2>7. QED
    BY <2>2, <2>5, <2>6 DEF OfficeMoves, text
<1>3. CASE FindDocumentDonor(r)
  <2>1. /\ call[r] \in [user : Callers, body : AcceptanceBody, text : Texts]
        /\ DocumentOrg[call[r].body.legal_document_id] \in seen[r]
        /\ Pending(r)
    BY <1>3 DEF FindDocumentDonor, CallsGood, CallGood, WriteGood, Pending
  <2> DEFINE c == [user |-> call[r].user, body |-> call[r].body,
                   row |-> NewAcceptance(call[r].body, call[r].text)]
  <2>2. CASE /\ LegalDonorOrg[call[r].body.donor_id] =
                  DocumentOrg[call[r].body.legal_document_id]
             /\ AwaitWith(r, "create_acceptance", c)
    <3>1. /\ c \in [user : Callers, body : AcceptanceBody, row : AcceptanceRow]
          /\ c.row.organization_id \in seen[r]
          /\ AcceptanceAgrees(c.row)
      BY <2>1, <2>2, NewAcceptanceTyped DEF AcceptanceAgrees
    <3>2. c.user = call[r].user /\ c.user \in Callers /\ c \in Calls
      BY <2>1, <3>1 DEF Calls, LegalCall
    <3>3. CallGood("create_acceptance", c, seen[r])
      BY <3>1 DEF CallGood, WriteGood, ReadGood, PcScope, PcRecognitionReads
    <3>4. QED
      BY <2>1, <2>2, <3>2, <3>3, GoesOnWith
  <2>3. QED
    BY <1>3, <2>2 DEF FindDocumentDonor, OfficeMoves
<1>4. CASE InsertAcceptance(r)
  <2>1. CallGood("respond", call[r], seen[r]) /\ Pending(r)
    BY <1>4, ShowsNothing DEF Pending, InsertAcceptance
  <2>2. QED
    BY <1>4, <2>1 DEF OfficeMoves, InsertAcceptance
<1>5. QED
  BY <1>1, <1>2, <1>3, <1>4 DEF NextLegal

-----------------------------------------------------------------------------

\* A configuration is built of what was sent and of defaults.
LEMMA NewConfigDataTyped ==
  ASSUME NEW body \in ConfigBodies
  PROVE  NewConfigData(body) \in [ConfigColumns -> ConfigValues] /\ body.payload \in Payload
<1>1. body \in ConfigBody /\ body.payload # NULL
  BY IntegrationsAssumption
<1>2. PICK keys \in SUBSET ConfigColumns : body.data \in [keys -> ConfigValues]
  BY <1>1 DEF ConfigBody, PartialFunctions
<1>3. body.payload \in Payload
  BY <1>1 DEF ConfigBody
<1>4. QED
  BY <1>2, <1>3, IntegrationsAssumption DEF NewConfigData

LEMMA IntegrationsMoves ==
  ASSUME TypeOK, CallsGood, NEW r \in Requests, NextIntegrations(r)
  PROVE  OfficeMoves(r)
<1> USE DEF PcOffice, PcIntegrations, Errors
<1>1. CASE CreateIntegrationConfiguration(r)
  <2>1. /\ Pending(r) /\ call[r].user \in Callers
        /\ CollectOrganizationIds(call[r]) \subseteq seen[r]
    BY <1>1, OpsCaller DEF CreateIntegrationConfiguration
  <2> DEFINE c(p, body) ==
        [user |-> call[r].user,
         row |-> [organization_id |-> ProviderOrg[p], provider_id |-> p,
                  data |-> NewConfigData(body), config_payload_json |-> body.payload,
                  created_by |-> call[r].user, updated_by |-> call[r].user]]
  <2>2. ASSUME NEW p \in Providers, NEW body \in ConfigBodies,
               ProviderOrg[p] \in CollectOrganizationIds(call[r]),
               AwaitWith(r, "create_configuration", c(p, body))
        PROVE  OfficeMoves(r)
    <3>1. /\ c(p, body) \in [user : Callers, row : ConfigurationRow]
          /\ c(p, body).row.organization_id = ProviderOrg[p]
          /\ c(p, body).row.provider_id = p
      BY <2>1, NewConfigDataTyped, IntegrationsAssumption DEF ConfigurationRow
    <3>2. /\ c(p, body) \in Calls
          /\ c(p, body).user \in Callers
          /\ c(p, body).user = call[r].user
      BY <2>1, <3>1 DEF Calls, IntegrationCall
    <3>3. CallGood("create_configuration", c(p, body), seen[r])
      BY <2>1, <2>2, <3>1 DEF CallGood, WriteGood, ReadGood, PcScope, PcRecognitionReads
    <3>4. QED
      BY <2>1, <2>2, <3>2, <3>3, GoesOnWith
  <2>3. QED
    BY <1>1, <2>2 DEF CreateIntegrationConfiguration, OfficeMoves
<1>2. CASE InsertConfiguration(r) \/ InsertEvent(r)
  <2>1. pc[r] \in PcIntegrations /\ Await(r, "respond")
    BY <1>2 DEF InsertConfiguration, InsertEvent
  <2>2. CallGood("respond", call[r], seen[r]) /\ Pending(r)
    BY <2>1, ShowsNothing DEF Pending
  <2>3. QED
    BY <2>1, <2>2 DEF OfficeMoves
<1>3. CASE UpdateIntegrationConfiguration(r)
  <2>1. /\ Pending(r) /\ call[r].user \in Callers
        /\ CollectOrganizationIds(call[r]) \subseteq seen[r]
        /\ CollectOrganizationIds(call[r]) \subseteq Orgs
    BY <1>3, OpsCaller DEF UpdateIntegrationConfiguration, CollectOrganizationIds, Context,
         Membership
  <2> DEFINE c(l, body) == [user |-> call[r].user, orgs |-> CollectOrganizationIds(call[r]),
                            id |-> l, body |-> body]
  <2>2. ASSUME NEW l \in ConfigurationIds, NEW body \in ConfigPatches,
               AwaitWith(r, "apply_patch", c(l, body))
        PROVE  OfficeMoves(r)
    <3>1. c(l, body) \in [user : Callers, orgs : SUBSET Orgs, id : ConfigurationIds,
                          body : ConfigPatches]
      BY <2>1
    <3>2. /\ c(l, body) \in Calls
          /\ c(l, body).user \in Callers
          /\ c(l, body).user = call[r].user
      BY <2>1, <3>1 DEF Calls, IntegrationCall
    <3>3. CallGood("apply_patch", c(l, body), seen[r])
      BY <2>1, <3>1 DEF CallGood, WriteGood, ReadGood, PcScope, PcRecognitionReads
    <3>4. QED
      BY <2>1, <2>2, <3>2, <3>3, GoesOnWith
  <2>3. QED
    BY <1>3, <2>2 DEF UpdateIntegrationConfiguration, OfficeMoves
<1>4. CASE ApplyPatch(r)
  <2>1. CallGood("respond", call[r], seen[r]) /\ Pending(r)
    BY <1>4, ShowsNothing DEF Pending, ApplyPatch
  <2>2. QED
    BY <1>4, <2>1 DEF OfficeMoves, ApplyPatch
<1>5. CASE ReceiveWebhook(r)
  <2>1. PICK d \in Deliveries, p \in Providers :
          Begin(r, "create_event", [user |-> NULL, row |-> EventRow(p, d)])
    BY <1>5 DEF ReceiveWebhook
  <2> DEFINE c == [user |-> NULL, row |-> EventRow(p, d)]
  <2>2. c \in [user : {NULL}, row : EventRows]
    BY DEF EventRows
  <2> HIDE DEF c
  <2>3. CallGood("create_event", c, {}) /\ c \in Calls
    BY <2>2 DEF CallGood, WriteGood, ReadGood, PcScope, PcRecognitionReads, Calls, IntegrationCall
  <2>4. Begin(r, "create_event", c)
    BY <2>1 DEF c
  <2>5. QED
    BY <2>3, <2>4 DEF OfficeMoves
<1>6. CASE RefuseWebhook(r)
  BY <1>6 DEF RefuseWebhook, OfficeMoves
<1>7. QED
  BY <1>1, <1>2, <1>3, <1>4, <1>5, <1>6 DEF NextIntegrations

-----------------------------------------------------------------------------
(* What a step of a handler writes.                                        *)

\* A step of a handler, as Step lists them.
OfficeStep(r) ==
  \/ NextScope(r) /\ UNCHANGED <<commsVars, legalVars, integrationVars>>
  \/ NextComms(r) /\ UNCHANGED <<accounts, legalVars, integrationVars>>
  \/ NextLegal(r) /\ UNCHANGED <<accounts, commsVars, integrationVars>>
  \/ NextIntegrations(r) /\ UNCHANGED <<accounts, commsVars, legalVars>>
  \/ NextReads(r)
  \/ NextRecognitionReads(r)
  \/ /\ Answer(r) \/ FailCall(r)
     /\ UNCHANGED officeVars

\* A step of the world around.
WorldStep ==
  \/ EditAccounts /\ UNCHANGED <<commsVars, legalVars, integrationVars>>
  \/ EditDocuments /\ UNCHANGED <<accounts, commsVars, integrationVars>>
  \/ Tick /\ UNCHANGED <<accounts, commsVars, integrationVars>>
  \/ SwitchProviders /\ UNCHANGED <<accounts, commsVars, legalVars>>

\* The table stays, or its own insert adds the row built for it.
Inserts(table, r, at) ==
  \/ table' = table
  \/ /\ pc[r] = at
     /\ Await(r, "respond")
     /\ table' = [table EXCEPT ![r] = call[r].row]

Patches(r) ==
  /\ pc[r] = "apply_patch"
  /\ Await(r, "respond")
  /\ call[r].id \in InOrgs(configurations, call[r].orgs)
  /\ configurations' =
       [configurations EXCEPT ![call[r].id] = PatchedConfiguration(@, call[r])]

OfficeWrites(r) ==
  /\ Inserts(notifications, r, "create_notification")
  /\ Inserts(recipients, r, "create_recipient")
  /\ Inserts(campaigns, r, "create_campaign")
  /\ Inserts(acceptances, r, "create_acceptance")
  /\ Inserts(configurations, r, "create_configuration") \/ Patches(r)
  /\ Inserts(events, r, "create_event")
  /\ UNCHANGED <<accounts, documents, now, active>>

LEMMA StepMoves ==
  ASSUME TypeOK, CallsGood, NEW r \in Requests, OfficeStep(r)
  PROVE  OfficeMoves(r)
<1>1. CASE NextReads(r) \/ NextRecognitionReads(r)
  BY <1>1, ReadsMove, ReadsAreMoves
<1>2. CASE Answer(r) \/ FailCall(r)
  BY <1>2 DEF Answer, FailCall, OfficeMoves, Errors
<1>3. QED
  BY <1>1, <1>2, ScopeMoves, CommsMoves, LegalMoves, IntegrationsMoves DEF OfficeStep

LEMMA StepWrites ==
  ASSUME TypeOK, CallsGood, NEW r \in Requests, OfficeStep(r)
  PROVE  OfficeWrites(r)
<1> USE DEF OfficeWrites, Inserts, commsVars, legalVars, integrationVars
<1>1. CASE NextScope(r) /\ UNCHANGED <<commsVars, legalVars, integrationVars>>
  <2>1. UNCHANGED accounts
    BY <1>1 DEF NextScope, RefuseSession, GetAuthUser, FindUserByAuthId, LoadContext,
         RefuseForbidden, RefuseInvalid, GetMe, RequireUser, GetDonorProfile, GetCourierProfile
  <2>2. QED
    BY <1>1, <2>1
<1>2. CASE NextComms(r) /\ UNCHANGED <<accounts, legalVars, integrationVars>>
  BY <1>2 DEF NextComms, CreateOpsNotification, InsertNotification, CreateCampaign, InsertCampaign,
     RefuseUnaddressed, CreateRecipientForNotification, InsertRecipient
<1>3. CASE NextLegal(r) /\ UNCHANGED <<accounts, commsVars, integrationVars>>
  BY <1>3 DEF NextLegal, RefuseActors, RefuseDocument, CreateLegalAcceptance, FindDocumentDonor,
     InsertAcceptance
<1>4. CASE NextIntegrations(r) /\ UNCHANGED <<accounts, commsVars, legalVars>>
  BY <1>4 DEF NextIntegrations, CreateIntegrationConfiguration, InsertConfiguration,
     UpdateIntegrationConfiguration, ApplyPatch, Patches, ReceiveWebhook, RefuseWebhook, InsertEvent
<1>5. CASE NextReads(r) \/ NextRecognitionReads(r)
  <2>1. UNCHANGED officeVars
    BY <1>5, ReadsMove DEF ReadMoves, Shows, Show, FindsParent, Refuses
  <2>2. QED
    BY <2>1 DEF officeVars
<1>6. CASE UNCHANGED officeVars
  BY <1>6 DEF officeVars
<1>7. QED
  BY <1>1, <1>2, <1>3, <1>4, <1>5, <1>6 DEF OfficeStep

-----------------------------------------------------------------------------
(* Types.                                                                  *)

LEMMA MoveTyped ==
  ASSUME HandlersTyped(PcOffice, Calls), CallsGood, NEW r \in Requests, OfficeMoves(r)
  PROVE  HandlersTyped(PcOffice, Calls)'
<1> HIDE DEF PcOffice
<1>1. CASE \E next \in PcOffice, c \in Calls : Begin(r, next, c) /\ CallGood(next, c, {})
  BY <1>1, BeginTyped, Zenon
<1>2. CASE \E next \in PcOffice \cup {"respond"} :
             Await(r, next) /\ CallGood(next, call[r], seen[r])
  BY <1>2, AwaitTyped, Zenon
<1>3. CASE \E next \in PcOffice \cup {"respond"}, c \in Calls :
             /\ AwaitWith(r, next, c)
             /\ c.user \in Callers /\ c.user = call[r].user
             /\ CallGood(next, c, seen[r] \cup MemberNow(c.user))
  BY <1>3, AwaitWithTyped, Zenon
<1>4. CASE \E code \in Errors \cup {"OK"} : Respond(r, code)
  BY <1>4, RespondTyped, Zenon
<1>5. QED
  BY <1>1, <1>2, <1>3, <1>4 DEF OfficeMoves

\* The row that is inserted is one that was built for its table.
LEMMA BuiltRows ==
  ASSUME CallsGood, NEW r \in Requests
  PROVE  /\ pc[r] \in {"create_notification", "create_campaign"} =>
              call[r].row \in MessageRow /\ MessageAgrees(call[r].row)
         /\ pc[r] = "create_recipient" =>
              /\ call[r].row \in RecipientRow
              /\ StoredIn(notifications, call[r].row.notification_id, seen[r])
         /\ pc[r] = "create_acceptance" =>
              call[r].row \in AcceptanceRow /\ AcceptanceAgrees(call[r].row)
         /\ pc[r] = "create_configuration" =>
              /\ call[r].row \in ConfigurationRow
              /\ ProviderOrg[call[r].row.provider_id] = call[r].row.organization_id
         /\ pc[r] = "create_event" => call[r].row \in EventRows
  BY DEF CallsGood, CallGood, WriteGood

\* What a patch leaves is a configuration of the same provider.
LEMMA PatchedTyped ==
  ASSUME NEW row \in ConfigurationRow,
         NEW c \in [user : Callers, orgs : SUBSET Orgs, id : ConfigurationIds, body : ConfigPatches]
  PROVE  /\ PatchedConfiguration(row, c) \in ConfigurationRow
         /\ PatchedConfiguration(row, c).organization_id = row.organization_id
         /\ PatchedConfiguration(row, c).provider_id = row.provider_id
<1>1. c.body \in ConfigBody
  BY IntegrationsAssumption
<1>2. PICK keys \in SUBSET ConfigColumns : c.body.data \in [keys -> ConfigValues]
  BY <1>1 DEF ConfigBody, PartialFunctions
<1>3. c.body.payload \in Payload \cup {NULL}
  BY <1>1 DEF ConfigBody
<1> DEFINE data == [k \in ConfigColumns |->
                      IF k \in DOMAIN c.body.data THEN c.body.data[k] ELSE row.data[k]]
<1>4. data \in [ConfigColumns -> ConfigValues]
  BY <1>2 DEF ConfigurationRow
<1>5. PatchedConfiguration(row, c) =
        [row EXCEPT !.data = data,
                    !.config_payload_json =
                      IF c.body.payload = NULL THEN @ ELSE c.body.payload,
                    !.updated_by = c.user]
  BY DEF PatchedConfiguration
<1> HIDE DEF data
<1>6. QED
  BY <1>3, <1>4, <1>5 DEF ConfigurationRow

LEMMA PatchesTyped ==
  ASSUME TypeOK, CallsGood, NEW r \in Requests, Patches(r)
  PROVE  /\ call[r].id \in ConfigurationIds
         /\ configurations[call[r].id] \in ConfigurationRow
         /\ configurations[call[r].id].organization_id \in seen[r]
         /\ call[r] \in [user : Callers, orgs : SUBSET Orgs, id : ConfigurationIds,
                         body : ConfigPatches]
         /\ PatchedConfiguration(configurations[call[r].id], call[r]) \in ConfigurationRow
  BY PatchedTyped
  DEF Patches, InOrgs, Rows, CallsGood, CallGood, WriteGood, TypeOK, IntegrationsTyped

LEMMA WritesTyped ==
  ASSUME TypeOK, CallsGood, NEW r \in Requests, OfficeWrites(r)
  PROVE  /\ accounts' \in AccountStates
         /\ CommsTyped'
         /\ LegalTyped'
         /\ IntegrationsTyped'
<1> USE DEF OfficeWrites
<1>1. CommsTyped'
  BY BuiltRows DEF TypeOK, CommsTyped, Inserts
<1>2. LegalTyped'
  BY BuiltRows DEF TypeOK, LegalTyped, Inserts
<1>3. configurations' \in [ConfigurationIds -> ConfigurationRow \cup {NULL}]
  <2>1. CASE Inserts(configurations, r, "create_configuration")
    BY <2>1, BuiltRows DEF TypeOK, IntegrationsTyped, Inserts, ConfigurationIds
  <2>2. CASE Patches(r)
    BY <2>2, PatchesTyped DEF TypeOK, IntegrationsTyped, Patches
  <2>3. QED
    BY <2>1, <2>2
<1>4. IntegrationsTyped'
  BY <1>3, BuiltRows DEF TypeOK, IntegrationsTyped, Inserts
<1>5. QED
  BY <1>1, <1>2, <1>4 DEF TypeOK

LEMMA WorldTyped ==
  ASSUME TypeOK, WorldStep
  PROVE  /\ accounts' \in AccountStates
         /\ CommsTyped'
         /\ LegalTyped'
         /\ IntegrationsTyped'
         /\ HandlersTyped(PcOffice, Calls)'
<1> USE DEF TypeOK, commsVars, legalVars, integrationVars, CommsTyped, LegalTyped,
            IntegrationsTyped, HandlersTyped, handlers, PcOffice
<1>1. CASE EditAccounts /\ UNCHANGED <<commsVars, legalVars, integrationVars>>
  BY <1>1 DEF EditAccounts
<1>2. CASE EditDocuments /\ UNCHANGED <<accounts, commsVars, integrationVars>>
  BY <1>2 DEF EditDocuments
<1>3. CASE Tick /\ UNCHANGED <<accounts, commsVars, integrationVars>>
  BY <1>3, LegalAssumption DEF Tick, Times
<1>4. CASE SwitchProviders /\ UNCHANGED <<accounts, commsVars, legalVars>>
  BY <1>4 DEF SwitchProviders
<1>5. QED
  BY <1>1, <1>2, <1>3, <1>4 DEF WorldStep

-----------------------------------------------------------------------------
(* What handlers keep stays good.                                          *)

LEMMA CallUsers == \A c \in Calls : c.user \in Callers \cup {NULL}
  BY DEF Calls, Context, CommsCall, LegalCall, IntegrationCall, ReadCall, RecognitionCall

LEMMA CallersStayKnown ==
  ASSUME TypeOK, CallersKnown, NEW r \in Requests, OfficeMoves(r)
  PROVE  CallersKnown'
<1> USE DEF CallersKnown, TypeOK, HandlersTyped, InFlight
<1>1. ASSUME NEW next, NEW c \in Calls, Begin(r, next, c) \/ AwaitWith(r, next, c)
      PROVE  CallersKnown'
  <2>1. c.user \in Callers \cup {NULL}
    BY CallUsers
  <2>2. /\ pc' = [pc EXCEPT ![r] = next]
        /\ call' = [call EXCEPT ![r] = c]
    BY <1>1 DEF Begin, AwaitWith
  <2>3. QED
    BY <2>1, <2>2
<1>2. ASSUME NEW next, InFlight(r), Await(r, next)
      PROVE  CallersKnown'
  BY <1>2 DEF Await
<1>3. ASSUME NEW code, Respond(r, code)
      PROVE  CallersKnown'
  BY <1>3 DEF Respond
<1> HIDE DEF CallersKnown, TypeOK, HandlersTyped, InFlight
<1>4. Pending(r) => InFlight(r)
  BY DEF Pending, InFlight
<1>5. QED
  BY <1>1, <1>2, <1>3, <1>4 DEF OfficeMoves

\* Notifications and campaigns are stored once and for all.
RowsKept ==
  /\ \A l \in Rows(notifications) :
       l \in Rows(notifications)' /\ notifications'[l] = notifications[l]
  /\ \A l \in Rows(campaigns) : l \in Rows(campaigns)' /\ campaigns'[l] = campaigns[l]

LEMMA StepKeepsRows ==
  ASSUME OfficeBase, NEW r \in Requests, OfficeWrites(r)
  PROVE  RowsKept
<1>1. TypeOK /\ OfficeOwned
  BY DEF OfficeBase
<1>2. ASSUME NEW l \in Rows(notifications)
      PROVE  l \in Rows(notifications)' /\ notifications'[l] = notifications[l]
  BY <1>1 DEF OfficeWrites, Inserts, OfficeOwned, Rows, TypeOK, CommsTyped
<1>3. ASSUME NEW l \in Rows(campaigns)
      PROVE  l \in Rows(campaigns)' /\ campaigns'[l] = campaigns[l]
  BY <1>1 DEF OfficeWrites, Inserts, OfficeOwned, Rows, TypeOK, CommsTyped
<1>4. QED
  BY <1>2, <1>3 DEF RowsKept

LEMMA CallKept ==
  ASSUME TypeOK, RowsKept, NEW next, NEW c, NEW orgs, CallGood(next, c, orgs)
  PROVE  CallGood(next, c, orgs)'
<1>1. ASSUME NEW l \in NotificationIds, StoredIn(notifications, l, orgs)
      PROVE  StoredIn(notifications, l, orgs)'
  BY <1>1 DEF StoredIn, RowsKept, Rows, TypeOK, CommsTyped
<1>2. ASSUME NEW l \in CampaignIds, StoredIn(campaigns, l, orgs)
      PROVE  StoredIn(campaigns, l, orgs)'
  BY <1>2 DEF StoredIn, RowsKept, Rows, TypeOK, CommsTyped
<1>3. ASSUME NEW dto, RightlyShown(dto, orgs)
      PROVE  RightlyShown(dto, orgs)'
  <2>1. CASE "organizationId" \in DOMAIN dto \/ "templateId" \in DOMAIN dto
    BY <1>3, <2>1 DEF RightlyShown, ShownFor, RowsKept
  <2>2. CASE "organizationId" \notin DOMAIN dto /\ "templateId" \notin DOMAIN dto
    BY <1>3, <2>2 DEF RightlyShown, ShownFor, RowsKept
  <2>3. QED
    BY <2>1, <2>2
<1>4. WriteGood(next, c, orgs)'
  BY <1>1 DEF CallGood, WriteGood, MessageAgrees, AcceptanceAgrees, RecipientRow
<1>5. ReadGood(next, c, orgs)'
  BY <1>1, <1>2, <1>3 DEF CallGood, ReadGood, CollectOrganizationIds
<1>6. QED
  BY <1>4, <1>5 DEF CallGood

\* A webhook needs no organization.
LEMMA NobodysCall ==
  ASSUME NEW next, NEW c, NEW orgs, NEW others, CallGood(next, c, orgs), c.user = NULL
  PROVE  CallGood(next, c, others)
  BY AccountsAssumption DEF CallGood, WriteGood, ReadGood, Context

LEMMA CallsStayGood ==
  ASSUME OfficeBase, CallersKnown', RowsKept, Observe,
         NEW q \in Requests, NEW next, NEW c, NEW orgs, NEW seenNow,
         next = pc'[q], c = call'[q], seenNow = seen'[q],
         InFlight(q)' => CallGood(next, c, orgs) /\ (c.user # NULL => orgs \subseteq seenNow)
  PROVE  CallGood(next, c, seenNow)'
<1>1. CASE ~InFlight(q)'
  BY <1>1 DEF CallGood, WriteGood, ReadGood, InFlight, PcScope, PcRecognitionReads
<1>2. CASE InFlight(q)'
  <2>1. CallGood(next, c, seenNow)
    BY <1>2, MoreSeen, NobodysCall
  <2>2. QED
    BY <2>1, CallKept DEF OfficeBase
<1>3. QED
  BY <1>1, <1>2

\* What each handler keeps after a step, with the organizations it is good for.
LEMMA HeldAfter ==
  ASSUME OfficeBase, CallersKnown', NEW r \in Requests, OfficeMoves(r), OfficeWrites(r), Observe,
         NEW q \in Requests, NEW next, NEW c, NEW seenNow,
         next = pc'[q], c = call'[q], seenNow = seen'[q], InFlight(q)'
  PROVE  \E orgs : CallGood(next, c, orgs) /\ (c.user # NULL => orgs \subseteq seenNow)
<1>1. /\ TypeOK /\ CallsGood
      /\ accounts' = accounts
  BY DEF OfficeBase, OfficeWrites
<1>2. c.user # NULL => seenNow = seen[q] \cup MemberNow(c.user)
  BY <1>1 DEF Observe, MemberNow
<1>3. CASE q # r
  <2>1. pc'[q] = pc[q] /\ call'[q] = call[q]
    BY <1>1, <1>3 DEF OfficeMoves, Begin, Await, AwaitWith, Respond, TypeOK, HandlersTyped
  <2>2. CallGood(next, c, seen[q])
    BY <1>1, <2>1 DEF CallsGood
  <2>3. QED
    BY <1>2, <2>2
<1>4. CASE q = r
  <2>1. CASE \E n \in PcOffice, d \in Calls : Begin(r, n, d) /\ CallGood(n, d, {})
    <3>1. PICK n \in PcOffice, d \in Calls : Begin(r, n, d) /\ CallGood(n, d, {})
      BY <2>1
    <3>2. n = next /\ d = c
      BY <1>1, <1>4, <3>1 DEF Begin, TypeOK, HandlersTyped
    <3>3. QED
      BY <3>1, <3>2
  <2>2. CASE \E n \in PcOffice \cup {"respond"} : Await(r, n) /\ CallGood(n, call[r], seen[r])
    <3>1. PICK n \in PcOffice \cup {"respond"} : Await(r, n) /\ CallGood(n, call[r], seen[r])
      BY <2>2
    <3>2. n = next /\ call[r] = c
      BY <1>1, <1>4, <3>1 DEF Await, TypeOK, HandlersTyped
    <3>3. QED
      BY <1>2, <1>4, <3>1, <3>2
  <2>3. CASE \E n \in PcOffice \cup {"respond"}, d \in Calls :
               /\ AwaitWith(r, n, d)
               /\ d.user \in Callers /\ d.user = call[r].user
               /\ CallGood(n, d, seen[r] \cup MemberNow(d.user))
    <3>1. PICK n \in PcOffice \cup {"respond"}, d \in Calls :
               /\ AwaitWith(r, n, d)
               /\ d.user \in Callers /\ d.user = call[r].user
               /\ CallGood(n, d, seen[r] \cup MemberNow(d.user))
      BY <2>3
    <3>2. n = next /\ d = c
      BY <1>1, <1>4, <3>1 DEF AwaitWith, TypeOK, HandlersTyped
    <3>3. QED
      BY <1>2, <1>4, <3>1, <3>2
  <2>4. CASE \E code \in Errors \cup {"OK"} : Respond(r, code)
    BY <1>1, <1>4, <2>4 DEF Respond, InFlight, TypeOK, HandlersTyped
  <2>5. QED
    BY <2>1, <2>2, <2>3, <2>4 DEF OfficeMoves
<1>5. QED
  BY <1>3, <1>4

LEMMA StepCallsGood ==
  ASSUME OfficeBase, CallersKnown', NEW r \in Requests, OfficeMoves(r), OfficeWrites(r), Observe
  PROVE  CallsGood'
<1>1. ASSUME NEW q \in Requests
      PROVE  CallGood(pc[q], call[q], seen[q])'
  <2>1. PICK next, c, seenNow : next = pc'[q] /\ c = call'[q] /\ seenNow = seen'[q]
    OBVIOUS
  <2>2. PICK orgs : InFlight(q)' =>
                      CallGood(next, c, orgs) /\ (c.user # NULL => orgs \subseteq seenNow)
    BY <2>1, HeldAfter
  <2>3. CallGood(next, c, seenNow)'
    BY <2>1, <2>2, CallsStayGood, StepKeepsRows
  <2>4. QED
    BY <2>1, <2>3 DEF CallGood, WriteGood, ReadGood
<1>2. QED
  BY <1>1 DEF CallsGood

LEMMA WorldCallsGood ==
  ASSUME OfficeBase, CallersKnown', WorldStep, Observe
  PROVE  CallsGood'
<1>1. TypeOK /\ CallsGood /\ UNCHANGED <<handlers, notifications, campaigns>>
  BY DEF OfficeBase, WorldStep, EditAccounts, EditDocuments, Tick, SwitchProviders, commsVars
<1>2. RowsKept
  BY <1>1 DEF RowsKept, Rows
<1>3. ASSUME NEW q \in Requests
      PROVE  CallGood(pc[q], call[q], seen[q])'
  <2>1. PICK next, c, seenNow : next = pc'[q] /\ c = call'[q] /\ seenNow = seen'[q]
    OBVIOUS
  <2>2. CallGood(next, c, seen[q])
    BY <1>1, <2>1 DEF CallsGood, handlers
  <2>3. InFlight(q)' => (c.user # NULL => seen[q] \subseteq seenNow)
    BY <2>1 DEF Observe
  <2>4. CallGood(next, c, seenNow)'
    BY <1>2, <2>1, <2>2, <2>3, CallsStayGood
  <2>5. QED
    BY <2>1, <2>4 DEF CallGood, WriteGood, ReadGood
<1>4. QED
  BY <1>3 DEF CallsGood

-----------------------------------------------------------------------------
(* Rows.                                                                   *)

\* The others stay where they are, and a handler that has responded or ended
\* never goes on.
LEMMA OthersStay ==
  ASSUME TypeOK, NEW r \in Requests, OfficeMoves(r)
  PROVE  /\ \A q \in Requests \ {r} : pc'[q] = pc[q] /\ call'[q] = call[q]
         /\ pc[r] \in {"respond", "done"} => pc'[r] = "done"
  BY DEF OfficeMoves, Begin, Await, AwaitWith, Respond, Pending, TypeOK, HandlersTyped

\* An insert adds the row of its handler and is its last call.
LEMMA StepOwned ==
  ASSUME OfficeBase, NEW r \in Requests, OfficeMoves(r), OfficeWrites(r)
  PROVE  OfficeOwned'
<1>1. TypeOK /\ OfficeOwned
  BY DEF OfficeBase
<1>2. ASSUME NEW q \in Requests, pc'[q] \notin {"respond", "done"}
      PROVE  /\ pc[q] \notin {"respond", "done"}
             /\ q = r => ~Await(r, "respond")
  BY <1>1, <1>2, OthersStay DEF Await, TypeOK, HandlersTyped
<1>3. ASSUME NEW q \in Requests, pc'[q] \notin {"respond", "done"}
      PROVE  /\ notifications'[q] = NULL
             /\ recipients'[q] = NULL
             /\ campaigns'[q] = NULL
             /\ acceptances'[q] = NULL
             /\ events'[q] = NULL
  BY <1>1, <1>2, <1>3
  DEF OfficeWrites, Inserts, OfficeOwned, TypeOK, CommsTyped, LegalTyped, IntegrationsTyped,
      NotificationIds, CampaignIds
<1>4. ASSUME NEW q \in Requests, pc'[q] \notin {"respond", "done"}
      PROVE  configurations'[q] = NULL
  <2>1. configurations[q] = NULL
    BY <1>1, <1>2, <1>4 DEF OfficeOwned
  <2>2. CASE Inserts(configurations, r, "create_configuration")
    BY <1>1, <1>2, <1>4, <2>1, <2>2 DEF Inserts, TypeOK, IntegrationsTyped, ConfigurationIds
  <2>3. CASE Patches(r)
    BY <1>1, <2>1, <2>3 DEF Patches, InOrgs, Rows, TypeOK, IntegrationsTyped, ConfigurationIds
  <2>4. QED
    BY <2>2, <2>3 DEF OfficeWrites
<1>5. QED
  BY <1>3, <1>4 DEF OfficeOwned

\* What is stored agrees, what is inserted agreed when it was built, and a patch
\* changes neither organization nor provider.
LEMMA StepOrgsAgree ==
  ASSUME OfficeBase, NEW r \in Requests, OfficeWrites(r)
  PROVE  OrgsAgree'
<1>1. TypeOK /\ CallsGood /\ OfficeOwned /\ OrgsAgree
  BY DEF OfficeBase
<1>2. ASSUME NEW l \in Rows(notifications)'
      PROVE  MessageAgrees(notifications[l])'
  BY <1>1, BuiltRows
  DEF OfficeWrites, Inserts, Rows, OrgsAgree, MessageAgrees, TypeOK, CommsTyped
<1>3. ASSUME NEW l \in Rows(campaigns)'
      PROVE  MessageAgrees(campaigns[l])'
  BY <1>1, BuiltRows
  DEF OfficeWrites, Inserts, Rows, OrgsAgree, MessageAgrees, TypeOK, CommsTyped
<1>4. ASSUME NEW l \in Rows(recipients)'
      PROVE  notifications'[recipients'[l].notification_id] # NULL
  <2>1. notifications[recipients'[l].notification_id] # NULL
    BY <1>1, BuiltRows
    DEF OfficeWrites, Inserts, Rows, OrgsAgree, StoredIn, TypeOK, CommsTyped
  <2>2. recipients'[l].notification_id \in NotificationIds
    BY <1>1, WritesTyped DEF Rows, CommsTyped, RecipientRow
  <2>3. QED
    BY <1>1, <2>1, <2>2, StepKeepsRows DEF RowsKept, Rows, TypeOK, CommsTyped
<1>5. ASSUME NEW l \in Rows(events)'
      PROVE  ProviderOrg[events'[l].provider_id] = events'[l].organization_id
  <2>1. events'[l] \in EventRows
    BY <1>1, WritesTyped DEF IntegrationsTyped, Rows
  <2>2. QED
    BY <2>1, EventsTyped
<1>6. ASSUME NEW l \in Rows(configurations)'
      PROVE  ProviderOrg[configurations'[l].provider_id] = configurations'[l].organization_id
  <2>1. CASE Inserts(configurations, r, "create_configuration")
    BY <1>1, <2>1, BuiltRows DEF Inserts, Rows, OrgsAgree, TypeOK, IntegrationsTyped
  <2>2. CASE Patches(r)
    <3>1. /\ PatchedConfiguration(configurations[call[r].id], call[r]).organization_id =
               configurations[call[r].id].organization_id
          /\ PatchedConfiguration(configurations[call[r].id], call[r]).provider_id =
               configurations[call[r].id].provider_id
          /\ call[r].id \in Rows(configurations)
      BY <1>1, <2>2, PatchesTyped, PatchedTyped DEF Patches, InOrgs
    <3>2. QED
      BY <1>1, <2>2, <3>1 DEF Patches, Rows, OrgsAgree, TypeOK, IntegrationsTyped
  <2>3. QED
    BY <2>1, <2>2 DEF OfficeWrites
<1>7. ASSUME NEW l \in Rows(acceptances)'
      PROVE  AcceptanceAgrees(acceptances[l])'
  BY <1>1, BuiltRows
  DEF OfficeWrites, Inserts, Rows, OrgsAgree, AcceptanceAgrees, TypeOK, LegalTyped
<1>8. QED
  BY <1>2, <1>3, <1>4, <1>5, <1>6, <1>7 DEF OrgsAgree, MessageAgrees, AcceptanceAgrees

LEMMA WorldRows ==
  ASSUME OfficeBase, WorldStep
  PROVE  OfficeOwned' /\ OrgsAgree' /\ CallersKnown'
<1>1. UNCHANGED <<handlers, notifications, recipients, campaigns, acceptances, configurations,
                  events>>
  BY DEF WorldStep, EditAccounts, EditDocuments, Tick, SwitchProviders, commsVars, legalVars,
     integrationVars
<1>2. QED
  BY <1>1 DEF OfficeBase, OfficeOwned, OrgsAgree, CallersKnown, InFlight, handlers, Rows

\* The organizations noted are organizations.
LEMMA SeenTyped ==
  ASSUME TypeOK, (accounts \in AccountStates)', HandlersTyped(PcOffice, Calls)',
         CallersKnown', Observe
  PROVE  seen' \in [Requests -> SUBSET Orgs] /\ stirred' \in SUBSET Requests
<1>1. ASSUME NEW user \in Callers
      PROVE  MemberNow(user)' \subseteq Orgs
  <2>1. accounts'[user] \in Account \cup {NULL}
    BY AccountsAssumption
  <2>2. QED
    BY <2>1 DEF MemberNow, Owned, Account, Membership
<1>2. ASSUME NEW r \in Requests, InFlight(r)', call'[r].user # NULL
      PROVE  MemberNow(call[r].user)' \subseteq Orgs
  <2>1. PICK user \in Callers : user = call'[r].user
    BY <1>2 DEF CallersKnown
  <2>2. QED
    BY <1>1, <2>1 DEF MemberNow
<1>3. QED
  BY <1>2 DEF Observe, TypeOK

-----------------------------------------------------------------------------
(* What was in force while nothing was changed.                            *)

\* Only the handlers of acceptances and webhooks come to their calls.
LEMMA GoesElsewhere ==
  ASSUME TypeOK, CallsGood, NEW r \in Requests,
         \/ NextScope(r) \/ NextComms(r) \/ NextReads(r) \/ NextRecognitionReads(r)
         \/ Answer(r) \/ FailCall(r)
  PROVE  pc'[r] \notin {"find_document_donor", "create_acceptance", "create_event"}
<1> USE DEF Begin, Await, AwaitWith, Respond, TypeOK, HandlersTyped
<1>1. CASE NextScope(r)
  BY <1>1 DEF NextScope, RefuseSession, GetAuthUser, FindUserByAuthId, LoadContext, RefuseForbidden,
     RefuseInvalid, GetMe, RequireUser, GetDonorProfile, GetCourierProfile, FindUser
<1>2. CASE NextComms(r)
  BY <1>2 DEF NextComms, CreateOpsNotification, InsertNotification, CreateCampaign, InsertCampaign,
     RefuseUnaddressed, CreateRecipientForNotification, InsertRecipient, OpenMessage
<1>3. CASE NextReads(r) \/ NextRecognitionReads(r)
  <2>1. ReadMoves(r)
    BY <1>3, ReadsMove
  <2>2. QED
    BY <2>1 DEF ReadMoves, Shows, Show, FindsParent, Refuses, PcReads, PcRecognitionReads
<1>4. CASE Answer(r) \/ FailCall(r)
  BY <1>4 DEF Answer, FailCall
<1>5. QED
  BY <1>1, <1>2, <1>3, <1>4

\* An acceptance is built of a document in force, and of the caller or a donor.
LEMMA ConsentBegins ==
  ASSUME TypeOK, CallsGood, Undisturbed, NEW r \in Requests \ stirred, NextLegal(r),
         UNCHANGED documents, UNCHANGED now
  PROVE  /\ pc'[r] = "find_document_donor" => ConsentPending(r)'
         /\ pc'[r] = "create_acceptance" => RecordsConsent(r)'
         /\ pc'[r] # "create_event"
<1>1. CASE RefuseActors(r) \/ RefuseDocument(r) \/ InsertAcceptance(r)
  BY <1>1 DEF RefuseActors, RefuseDocument, InsertAcceptance, Respond, Await, TypeOK, HandlersTyped
<1>2. CASE CreateLegalAcceptance(r)
  <2>1. PICK body \in AcceptanceBodies :
       LET text == documents[body.legal_document_id].content_body
       IN /\ OneActor(body)
          /\ Acceptable(r, body)
          /\ \/ /\ body.user_id = call[r].user
                /\ AwaitWith(r, "create_acceptance",
                             [user |-> call[r].user, body |-> body,
                              row |-> NewAcceptance(body, text)])
             \/ /\ body.user_id \notin {call[r].user, NULL}
                /\ Respond(r, "FORBIDDEN")
             \/ /\ body.donor_id # NULL
                /\ AwaitWith(r, "find_document_donor",
                             [user |-> call[r].user, body |-> body, text |-> text])
    BY <1>2 DEF CreateLegalAcceptance
  <2> DEFINE text == documents[body.legal_document_id].content_body
             doc == documents[body.legal_document_id]
             row == NewAcceptance(body, text)
  <2>2. /\ body \in AcceptanceBody
        /\ text \in Texts
    BY LegalAssumption DEF AcceptanceBody, Document, TypeOK, LegalTyped
  <2>3. /\ doc.effective_from # NULL => doc.effective_from <= now
        /\ doc.effective_to # NULL => now <= doc.effective_to
    BY <2>1 DEF Acceptable, IsLegalDocumentCurrentlyEffective
  <2>4. /\ row.legal_document_id = body.legal_document_id
        /\ row.user_id = body.user_id
        /\ row.accepted_at = IF body.accepted_at = NULL THEN now ELSE body.accepted_at
        /\ body.acceptance_text_snapshot = NULL => row.acceptance_text_snapshot = text
    BY <2>2, NewAcceptanceTyped
  <2> HIDE DEF row
  <2>5. CASE /\ body.user_id = call[r].user
             /\ AwaitWith(r, "create_acceptance",
                          [user |-> call[r].user, body |-> body, row |-> row])
    <3>1. /\ pc'[r] = "create_acceptance"
          /\ call'[r] = [user |-> call[r].user, body |-> body, row |-> row]
      BY <2>5 DEF AwaitWith, TypeOK, HandlersTyped
    <3>2. QED
      BY <2>3, <2>4, <2>5, <3>1 DEF RecordsConsent
  <2>6. CASE Respond(r, "FORBIDDEN")
    BY <2>6 DEF Respond, TypeOK, HandlersTyped
  <2>7. CASE /\ body.donor_id # NULL
             /\ AwaitWith(r, "find_document_donor",
                          [user |-> call[r].user, body |-> body, text |-> text])
    <3>1. /\ pc'[r] = "find_document_donor"
          /\ call'[r] = [user |-> call[r].user, body |-> body, text |-> text]
      BY <2>7 DEF AwaitWith, TypeOK, HandlersTyped
    <3>2. body.user_id = NULL
      BY <2>1, <2>7 DEF OneActor
    <3>3. QED
      BY <2>3, <3>1, <3>2 DEF ConsentPending
  <2>8. QED
    BY <2>1, <2>5, <2>6, <2>7 DEF row
<1>3. CASE FindDocumentDonor(r)
  <2>1. /\ call[r] \in [user : Callers, body : AcceptanceBody, text : Texts]
        /\ ConsentPending(r)
    BY <1>3 DEF FindDocumentDonor, CallsGood, CallGood, WriteGood, Undisturbed
  <2> DEFINE row == NewAcceptance(call[r].body, call[r].text)
  <2>2. /\ row.legal_document_id = call[r].body.legal_document_id
        /\ row.user_id = call[r].body.user_id
        /\ row.accepted_at =
             IF call[r].body.accepted_at = NULL THEN now ELSE call[r].body.accepted_at
        /\ call[r].body.acceptance_text_snapshot = NULL =>
             row.acceptance_text_snapshot = call[r].text
    BY <2>1, NewAcceptanceTyped
  <2> HIDE DEF row
  <2>3. CASE AwaitWith(r, "create_acceptance",
                       [user |-> call[r].user, body |-> call[r].body, row |-> row])
    <3>1. /\ pc'[r] = "create_acceptance"
          /\ call'[r] = [user |-> call[r].user, body |-> call[r].body, row |-> row]
      BY <2>3 DEF AwaitWith, TypeOK, HandlersTyped
    <3>2. QED
      BY <2>1, <2>2, <3>1 DEF RecordsConsent, ConsentPending
  <2>4. CASE Respond(r, "NOT_FOUND")
    BY <2>4 DEF Respond, TypeOK, HandlersTyped
  <2>5. QED
    BY <1>3, <2>3, <2>4 DEF FindDocumentDonor, row
<1>4. QED
  BY <1>1, <1>2, <1>3 DEF NextLegal

\* A webhook is received by the only active provider with its code.
LEMMA WebhookBegins ==
  ASSUME TypeOK, NEW r \in Requests, NextIntegrations(r), UNCHANGED active
  PROVE  /\ pc'[r] \notin {"find_document_donor", "create_acceptance"}
         /\ pc'[r] = "create_event" =>
              LET p == call'[r].row.provider_id
              IN {q \in active' : ProviderCode[q] = ProviderCode[p]} = {p}
<1> USE DEF TypeOK, HandlersTyped
<1>1. CASE \/ CreateIntegrationConfiguration(r) \/ InsertConfiguration(r)
           \/ UpdateIntegrationConfiguration(r) \/ ApplyPatch(r)
           \/ RefuseWebhook(r) \/ InsertEvent(r)
  BY <1>1 DEF CreateIntegrationConfiguration, InsertConfiguration, UpdateIntegrationConfiguration,
     ApplyPatch, RefuseWebhook, InsertEvent, Await, AwaitWith, Respond
<1>2. CASE ReceiveWebhook(r)
  <2>1. PICK code \in Codes, d \in Deliveries, p \in Providers :
          /\ ListActiveByProviderCode(code) = {p}
          /\ Begin(r, "create_event", [user |-> NULL, row |-> EventRow(p, d)])
    BY <1>2 DEF ReceiveWebhook
  <2>2. /\ pc'[r] = "create_event"
        /\ call'[r].row.provider_id = p
    BY <2>1 DEF Begin, EventRow
  <2>3. {q \in active : ProviderCode[q] = ProviderCode[p]} = {p}
    BY <2>1 DEF ListActiveByProviderCode
  <2>4. QED
    BY <2>2, <2>3
<1>3. QED
  BY <1>1, <1>2 DEF NextIntegrations

LEMMA StepUndisturbed ==
  ASSUME OfficeInv, NEW r \in Requests, OfficeStep(r), OfficeMoves(r), OfficeWrites(r), Observe
  PROVE  Undisturbed'
<1>1. TypeOK /\ CallsGood /\ Undisturbed
  BY DEF OfficeInv, OfficeBase
<1>2. UNCHANGED <<documents, now, active>>
  BY DEF OfficeWrites
<1>3. SUFFICES ASSUME NEW q \in Requests, q \notin stirred', InFlight(q)'
               PROVE  /\ pc'[q] = "find_document_donor" => ConsentPending(q)'
                      /\ pc'[q] = "create_acceptance" => RecordsConsent(q)'
                      /\ pc'[q] = "create_event" =>
                           LET p == call'[q].row.provider_id
                           IN {o \in active' : ProviderCode[o] = ProviderCode[p]} = {p}
  BY DEF Undisturbed, InFlight
<1>4. q \notin stirred
  BY <1>3 DEF Observe
<1>5. CASE q # r
  <2>1. pc'[q] = pc[q] /\ call'[q] = call[q]
    BY <1>1, <1>5, OthersStay
  <2>2. QED
    BY <1>1, <1>2, <1>4, <2>1 DEF Undisturbed, ConsentPending, RecordsConsent
<1>6. CASE q = r
  BY <1>1, <1>2, <1>4, <1>6, GoesElsewhere, ConsentBegins, WebhookBegins DEF OfficeStep
<1>7. QED
  BY <1>5, <1>6

\* Whoever is in flight while documents or providers change is stirred, and time
\* that passes does no harm.
LEMMA WorldUndisturbed ==
  ASSUME OfficeInv, WorldStep, Observe
  PROVE  Undisturbed'
<1>1. TypeOK /\ Undisturbed /\ UNCHANGED handlers
  BY DEF OfficeInv, OfficeBase, WorldStep, EditAccounts, EditDocuments, Tick, SwitchProviders
<1>2. SUFFICES ASSUME NEW q \in Requests, q \notin stirred', InFlight(q)'
               PROVE  /\ pc'[q] = "find_document_donor" => ConsentPending(q)'
                      /\ pc'[q] = "create_acceptance" => RecordsConsent(q)'
                      /\ pc'[q] = "create_event" =>
                           LET p == call'[q].row.provider_id
                           IN {o \in active' : ProviderCode[o] = ProviderCode[p]} = {p}
  BY DEF Undisturbed, InFlight
<1>3. q \notin stirred /\ documents' = documents /\ active' = active
  BY <1>1, <1>2 DEF Observe, InFlight, handlers
<1>4. now' \in {now, now + 1}
  BY DEF WorldStep, EditAccounts, EditDocuments, Tick, SwitchProviders, legalVars
<1>5. now \in Nat /\ now <= now'
  BY <1>1, <1>4, LegalAssumption DEF TypeOK, LegalTyped, Times
<1>6. pc[q] = "find_document_donor" => ConsentPending(q)'
  <2>1. SUFFICES ASSUME pc[q] = "find_document_donor"
                 PROVE  ConsentPending(q)'
    OBVIOUS
  <2>2. /\ ConsentPending(q)
        /\ call[q].body.legal_document_id \in Documents
    BY <1>1, <1>3, <2>1
    DEF Undisturbed, OfficeInv, OfficeBase, CallsGood, CallGood, WriteGood, AcceptanceBody
  <2> DEFINE from == documents[call[q].body.legal_document_id].effective_from
  <2>3. from \in Nat \cup {NULL} /\ (from # NULL => from <= now)
    BY <1>1, <2>2, LegalAssumption DEF TypeOK, LegalTyped, Document, Times, ConsentPending
  <2> HIDE DEF from
  <2>4. from # NULL => from <= now'
    BY <1>4, <1>5, <2>3
  <2>5. QED
    BY <1>1, <1>3, <2>2, <2>4 DEF ConsentPending, handlers, from
<1>7. QED
  BY <1>1, <1>3, <1>6 DEF Undisturbed, RecordsConsent, handlers

-----------------------------------------------------------------------------
(* The invariant holds.                                                    *)

LEMMA StepsAre ==
  ASSUME Next
  PROVE  Observe /\ (WorldStep \/ \E r \in Requests : OfficeStep(r))
  BY DEF Next, Step, WorldStep, OfficeStep

LEMMA InitOffice ==
  ASSUME Init
  PROVE  OfficeInv
<1> USE DEF Init, InitComms, InitLegal, InitIntegrations, InitHandlers
<1>1. CommsTyped /\ LegalTyped /\ IntegrationsTyped
  <2>1. CommsTyped
    BY CommunicationsAssumption DEF CommsTyped, Stored, NotificationIds, CampaignIds
  <2>2. LegalTyped
    BY LegalAssumption DEF LegalTyped, Times
  <2>3. IntegrationsTyped
    BY IntegrationsAssumption DEF IntegrationsTyped, Stored, ConfigurationIds
  <2>4. QED
    BY <2>1, <2>2, <2>3
<1>2. TypeOK
  BY <1>1 DEF TypeOK, HandlersTyped
<1>3. CallersKnown /\ CallsGood /\ Undisturbed
  BY DEF CallersKnown, CallsGood, CallGood, WriteGood, ReadGood, Undisturbed, InFlight, PcScope,
     PcRecognitionReads
<1>4. OfficeOwned
  BY CommunicationsAssumption, IntegrationsAssumption
  DEF OfficeOwned, Stored, NotificationIds, CampaignIds, ConfigurationIds
<1>5. OrgsAgree
  <2>1. ASSUME NEW l \in Rows(notifications)
        PROVE  MessageAgrees(notifications[l])
    BY CommunicationsAssumption DEF Rows, Stored, NotificationIds, MessageAgrees
  <2>2. ASSUME NEW l \in Rows(campaigns)
        PROVE  MessageAgrees(campaigns[l])
    BY CommunicationsAssumption DEF Rows, Stored, CampaignIds, MessageAgrees
  <2>3. ASSUME NEW l \in Rows(configurations)
        PROVE  ProviderOrg[configurations[l].provider_id] = configurations[l].organization_id
    BY IntegrationsAssumption DEF Rows, Stored, ConfigurationIds
  <2>4. Rows(recipients) = {} /\ Rows(events) = {} /\ Rows(acceptances) = {}
    BY DEF Rows
  <2>5. QED
    BY <2>1, <2>2, <2>3, <2>4 DEF OrgsAgree, MessageAgrees
<1>6. QED
  BY <1>2, <1>3, <1>4, <1>5 DEF OfficeInv, OfficeBase

LEMMA StepKeepsOffice ==
  ASSUME OfficeInv, NEW r \in Requests, OfficeStep(r), Observe
  PROVE  OfficeInv'
<1>1. OfficeBase /\ TypeOK /\ CallersKnown /\ CallsGood
  BY DEF OfficeInv, OfficeBase
<1>2. OfficeMoves(r) /\ OfficeWrites(r)
  BY <1>1, StepMoves, StepWrites
<1>3. CallersKnown'
  BY <1>1, <1>2, CallersStayKnown
<1>4. HandlersTyped(PcOffice, Calls)'
  BY <1>1, <1>2, MoveTyped DEF TypeOK, PcOffice
<1>5. TypeOK'
  BY <1>1, <1>2, <1>3, <1>4, WritesTyped, SeenTyped DEF TypeOK, PcOffice
<1>6. CallsGood'
  BY <1>1, <1>2, <1>3, StepCallsGood
<1>7. OfficeOwned' /\ OrgsAgree'
  BY <1>1, <1>2, StepOwned, StepOrgsAgree
<1>8. Undisturbed'
  BY <1>2, StepUndisturbed
<1>9. QED
  BY <1>3, <1>5, <1>6, <1>7, <1>8 DEF OfficeInv, OfficeBase

LEMMA WorldKeepsOffice ==
  ASSUME OfficeInv, WorldStep, Observe
  PROVE  OfficeInv'
<1>1. OfficeBase /\ TypeOK
  BY DEF OfficeInv, OfficeBase
<1>2. OfficeOwned' /\ OrgsAgree' /\ CallersKnown'
  BY <1>1, WorldRows
<1>3. TypeOK'
  BY <1>1, <1>2, WorldTyped, SeenTyped DEF TypeOK, PcOffice
<1>4. CallsGood'
  BY <1>1, <1>2, WorldCallsGood
<1>5. Undisturbed'
  BY WorldUndisturbed
<1>6. QED
  BY <1>2, <1>3, <1>4, <1>5 DEF OfficeInv, OfficeBase

LEMMA OfficeInductive == Spec => []OfficeInv
<1>1. Init => OfficeInv
  BY InitOffice
<1>2. OfficeInv /\ [Next]_vars => OfficeInv'
  <2>1. ASSUME OfficeInv, Next
        PROVE  OfficeInv'
    BY <2>1, StepsAre, StepKeepsOffice, WorldKeepsOffice
  <2>2. ASSUME OfficeInv, UNCHANGED vars
        PROVE  OfficeInv'
    <3>1. TypeOK' /\ CallersKnown' /\ OfficeOwned' /\ OrgsAgree' /\ Undisturbed'
      BY <2>2 DEF OfficeInv, OfficeBase, vars, TypeOK, CallersKnown, OfficeOwned, OrgsAgree,
         Undisturbed, CommsTyped, LegalTyped, IntegrationsTyped, HandlersTyped, handlers,
         commsVars, legalVars, integrationVars, Rows, InFlight, ConsentPending, RecordsConsent
    <3>2. CallsGood'
      BY <2>2 DEF OfficeInv, OfficeBase, vars, CallsGood, CallGood, WriteGood, ReadGood, handlers,
         commsVars, MessageAgrees, AcceptanceAgrees, StoredIn, RightlyShown, ShownFor, Rows,
         CollectOrganizationIds
    <3>3. QED
      BY <3>1, <3>2 DEF OfficeInv, OfficeBase
  <2>3. QED
    BY <2>1, <2>2
<1>3. QED
  BY <1>1, <1>2, PTL DEF Spec

-----------------------------------------------------------------------------
(* Theorems.                                                               *)

\* Every table, clock, history and suspended handler has its type, whoever
\* calls and whatever is edited around.
THEOREM OfficeTypeCorrectness == Spec => []TypeOK
<1>1. OfficeInv => TypeOK
  BY DEF OfficeInv, OfficeBase
<1>2. QED
  BY <1>1, OfficeInductive, PTL

\* Whichever of the ids a body names, what is stored together is of one
\* organization, and recipients hang from stored notifications.
THEOREM OrganizationsAgree == Spec => []OrgsAgree
<1>1. OfficeInv => OrgsAgree
  BY DEF OfficeInv, OfficeBase
<1>2. QED
  BY <1>1, OfficeInductive, PTL

\* A handler that inserts is one whose call it is, for a free row.
LEMMA InsertsOwn ==
  ASSUME OfficeBase, NEW r \in Requests, OfficeWrites(r)
  PROVE  /\ \A l \in Written(notifications) :
              /\ l = r /\ notifications[l] = NULL
              /\ pc[r] = "create_notification" /\ Await(r, "respond")
              /\ notifications'[l] = call[r].row
         /\ \A l \in Written(recipients) :
              /\ l = r /\ recipients[l] = NULL
              /\ pc[r] = "create_recipient" /\ Await(r, "respond")
              /\ recipients'[l] = call[r].row
         /\ \A l \in Written(campaigns) :
              /\ l = r /\ campaigns[l] = NULL
              /\ pc[r] = "create_campaign" /\ Await(r, "respond")
              /\ campaigns'[l] = call[r].row
         /\ \A l \in Written(acceptances) :
              /\ l = r /\ acceptances[l] = NULL
              /\ pc[r] = "create_acceptance" /\ Await(r, "respond")
              /\ acceptances'[l] = call[r].row
         /\ \A l \in Written(events) :
              /\ l = r /\ events[l] = NULL
              /\ pc[r] = "create_event" /\ Await(r, "respond")
              /\ events'[l] = call[r].row
         /\ \A l \in Written(configurations) :
              \/ /\ l = r /\ configurations[l] = NULL
                 /\ pc[r] = "create_configuration" /\ Await(r, "respond")
                 /\ configurations'[l] = call[r].row
              \/ Patches(r) /\ l = call[r].id
<1>1. TypeOK /\ OfficeOwned
  BY DEF OfficeBase
<1>2. ASSUME NEW l \in Written(configurations)
      PROVE  \/ /\ l = r /\ configurations[l] = NULL
                /\ pc[r] = "create_configuration" /\ Await(r, "respond")
                /\ configurations'[l] = call[r].row
             \/ Patches(r) /\ l = call[r].id
  <2>1. CASE Inserts(configurations, r, "create_configuration")
    BY <1>1, <2>1
    DEF Inserts, Written, OfficeOwned, TypeOK, IntegrationsTyped, ConfigurationIds
  <2>2. CASE Patches(r)
    BY <1>1, <2>2 DEF Patches, Written, TypeOK, IntegrationsTyped
  <2>3. QED
    BY <2>1, <2>2 DEF OfficeWrites
<1>3. QED
  BY <1>1, <1>2
  DEF OfficeWrites, Inserts, Written, OfficeOwned, TypeOK, CommsTyped, LegalTyped,
      IntegrationsTyped, NotificationIds, CampaignIds

\* The world around writes no row.
LEMMA WorldWritesNothing ==
  ASSUME WorldStep \/ UNCHANGED vars
  PROVE  /\ Written(notifications) = {} /\ Written(recipients) = {} /\ Written(campaigns) = {}
         /\ Written(acceptances) = {} /\ Written(configurations) = {} /\ Written(events) = {}
         /\ UNCHANGED pc
  BY DEF WorldStep, EditAccounts, EditDocuments, Tick, SwitchProviders, commsVars, legalVars,
     integrationVars, vars, handlers, Written

\* Nobody writes for, or is shown something of, an organization he was not a
\* member of at any time since his request began; rows appear once, and what
\* is shown of a configuration holds no secrets.
THEOREM NobodyActsForOthers == Spec => RowsWithinMembership
<1> DEFINE Shown == \A r \in Requests :
                      pc[r] = "respond" /\ pc'[r] = "done" /\ "shown" \in DOMAIN call[r] =>
                        ShownRightly(r)
           Within ==
             /\ Shown
             /\ InsertsWithin(notifications)
             /\ InsertsWithin(campaigns)
             /\ InsertsWithin(acceptances)
             /\ \A l \in Written(recipients) :
                  /\ recipients[l] = NULL
                  /\ WrittenWithin(notifications[recipients'[l].notification_id].organization_id)
             /\ \A l \in Written(configurations) :
                  WrittenWithin(configurations'[l].organization_id)
<1>1. OfficeInv => Shown
  BY DEF OfficeInv, OfficeBase, CallsGood, CallGood, ReadGood, RightlyShown, ShownRightly
<1>2. OfficeInv /\ [Next]_vars => Within
  <2>1. ASSUME OfficeInv, WorldStep \/ UNCHANGED vars
        PROVE  Within
    BY <1>1, <2>1, WorldWritesNothing DEF InsertsWithin
  <2>2. ASSUME OfficeInv, NEW r \in Requests, OfficeStep(r)
        PROVE  Within
    <3>1. OfficeBase /\ TypeOK /\ CallsGood
      BY <2>2 DEF OfficeInv, OfficeBase
    <3>2. OfficeWrites(r)
      BY <2>2, <3>1, StepWrites
    <3>3. ASSUME NEW org \in seen[r], pc[r] # "respond", Await(r, "respond")
          PROVE  WrittenWithin(org)
      BY <3>1, <3>3 DEF WrittenWithin, Await, TypeOK, HandlersTyped
    <3>4. CallGood(pc[r], call[r], seen[r])
      BY <3>1 DEF CallsGood
    <3>5. InsertsWithin(notifications) /\ InsertsWithin(campaigns) /\ InsertsWithin(acceptances)
      BY <3>1, <3>2, <3>3, <3>4, InsertsOwn DEF InsertsWithin, CallGood, WriteGood
    <3>6. ASSUME NEW l \in Written(recipients)
          PROVE  /\ recipients[l] = NULL
                 /\ WrittenWithin(notifications[recipients'[l].notification_id].organization_id)
      BY <3>1, <3>2, <3>3, <3>4, InsertsOwn DEF CallGood, WriteGood, StoredIn
    <3>7. ASSUME NEW l \in Written(configurations)
          PROVE  WrittenWithin(configurations'[l].organization_id)
      <4>1. CASE /\ l = r /\ pc[r] = "create_configuration" /\ Await(r, "respond")
                 /\ configurations'[l] = call[r].row
        BY <3>3, <3>4, <4>1 DEF CallGood, WriteGood
      <4>2. CASE Patches(r) /\ l = call[r].id
        <5>1. /\ configurations'[l] = PatchedConfiguration(configurations[l], call[r])
              /\ configurations[l].organization_id \in seen[r]
              /\ PatchedConfiguration(configurations[l], call[r]).organization_id =
                   configurations[l].organization_id
          BY <3>1, <4>2, PatchesTyped, PatchedTyped DEF Patches, TypeOK, IntegrationsTyped
        <5>2. QED
          BY <3>3, <4>2, <5>1 DEF Patches
      <4>3. QED
        BY <3>1, <3>2, <4>1, <4>2, InsertsOwn
    <3>8. QED
      BY <1>1, <2>2, <3>5, <3>6, <3>7
  <2>3. QED
    BY <2>1, <2>2, StepsAre
<1>3. OfficeInv /\ [Next]_vars => [Within]_vars
  BY <1>2
<1>4. QED
  BY <1>3, OfficeInductive, PTL DEF Spec, RowsWithinMembership

\* A configuration is never deleted, and changes in the columns and the payload
\* that some PATCH in flight has sent, and in no others.
THEOREM ConfigurationsKeepTheRest == Spec => ConfigurationsChangeAsSent
<1> DEFINE AsSent == \A l \in Written(configurations) :
                       configurations[l] # NULL =>
                         PatchAccountsFor(l, configurations[l], configurations'[l])
<1>1. OfficeInv /\ [Next]_vars => AsSent
  <2>1. ASSUME WorldStep \/ UNCHANGED vars
        PROVE  AsSent
    BY <2>1, WorldWritesNothing
  <2>2. ASSUME OfficeInv, NEW r \in Requests, OfficeStep(r),
               NEW l \in Written(configurations), configurations[l] # NULL
        PROVE  PatchAccountsFor(l, configurations[l], configurations'[l])
    <3>1. OfficeBase /\ TypeOK /\ CallsGood
      BY <2>2 DEF OfficeInv, OfficeBase
    <3>2. OfficeWrites(r)
      BY <2>2, <3>1, StepWrites
    <3>3. Patches(r) /\ l = call[r].id
      BY <2>2, <3>1, <3>2, InsertsOwn
    <3>4. /\ configurations'[l] = PatchedConfiguration(configurations[l], call[r])
          /\ configurations[l] \in ConfigurationRow
      BY <3>1, <3>3, PatchesTyped DEF Patches, TypeOK, IntegrationsTyped
    <3> DEFINE old == configurations[l]
               new == PatchedConfiguration(old, call[r])
    <3>5. /\ \A k \in ConfigColumns :
               new.data[k] = IF k \in DOMAIN call[r].body.data THEN call[r].body.data[k]
                             ELSE old.data[k]
          /\ new.config_payload_json =
               IF call[r].body.payload = NULL THEN old.config_payload_json
               ELSE call[r].body.payload
          /\ [new EXCEPT !.data = old.data, !.config_payload_json = old.config_payload_json]
               = [old EXCEPT !.updated_by = call[r].user]
      BY <3>4 DEF PatchedConfiguration, ConfigurationRow
    <3> HIDE DEF old, new
    <3>6. PatchAccountsFor(l, old, new)
      BY <3>3, <3>5 DEF PatchAccountsFor, Patches
    <3>7. QED
      BY <3>4, <3>6 DEF old, new
  <2>3. QED
    BY <2>1, <2>2, StepsAre
<1>2. OfficeInv /\ [Next]_vars => [AsSent]_vars
  BY <1>1
<1>3. QED
  BY <1>2, OfficeInductive, PTL DEF Spec, ConfigurationsChangeAsSent

\* An acceptance is stored once and records the caller's or a donor's consent
\* to a text in force, unless documents were edited while it was served.
THEOREM AcceptancesRecordConsent == Spec => AcceptedTextWasInForce
<1> DEFINE InForce == \A l \in Written(acceptances) \ stirred :
                        acceptances[l] = NULL /\ RecordsConsent(l)
<1>1. OfficeInv /\ [Next]_vars => InForce
  <2>1. ASSUME WorldStep \/ UNCHANGED vars
        PROVE  InForce
    BY <2>1, WorldWritesNothing
  <2>2. ASSUME OfficeInv, NEW r \in Requests, OfficeStep(r)
        PROVE  InForce
    <3>1. OfficeBase /\ TypeOK /\ CallsGood /\ Undisturbed
      BY <2>2 DEF OfficeInv, OfficeBase
    <3>2. OfficeWrites(r)
      BY <2>2, <3>1, StepWrites
    <3>3. QED
      BY <3>1, <3>2, InsertsOwn DEF Undisturbed
  <2>3. QED
    BY <2>1, <2>2, StepsAre
<1>2. OfficeInv /\ [Next]_vars => [InForce]_vars
  BY <1>1
<1>3. QED
  BY <1>2, OfficeInductive, PTL DEF Spec, AcceptedTextWasInForce

\* An event is stored once, without credentials, and under the only active
\* provider with its code unless providers were switched while it came in.
THEOREM WebhooksFiledOnce == Spec => WebhooksFiledUnambiguously
<1> DEFINE Filed == \A l \in Written(events) :
                      LET event == events'[l]
                          code == ProviderCode[event.provider_id]
                      IN /\ events[l] = NULL
                         /\ l \notin stirred =>
                              {p \in active : ProviderCode[p] = code} = {event.provider_id}
                         /\ \A k \in SensitiveHeaderKeys \cap DOMAIN event.request_headers_json :
                              event.request_headers_json[k] = "[REDACTED]"
<1>1. OfficeInv /\ [Next]_vars => Filed
  <2>1. ASSUME WorldStep \/ UNCHANGED vars
        PROVE  Filed
    BY <2>1, WorldWritesNothing
  <2>2. ASSUME OfficeInv, NEW r \in Requests, OfficeStep(r)
        PROVE  Filed
    <3>1. OfficeBase /\ TypeOK /\ CallsGood /\ Undisturbed
      BY <2>2 DEF OfficeInv, OfficeBase
    <3>2. OfficeWrites(r)
      BY <2>2, <3>1, StepWrites
    <3>3. ASSUME NEW l \in Written(events)
          PROVE  /\ l = r /\ events[l] = NULL /\ pc[r] = "create_event"
                 /\ events'[l] = call[r].row
                 /\ events'[l] \in EventRows
      BY <3>1, <3>2, InsertsOwn, BuiltRows
    <3>4. ASSUME NEW event \in EventRows
          PROVE  \A k \in SensitiveHeaderKeys \cap DOMAIN event.request_headers_json :
                   event.request_headers_json[k] = "[REDACTED]"
      BY DEF EventRows, EventRow, SerializeRequestHeaders
    <3>5. QED
      BY <3>1, <3>3, <3>4 DEF Undisturbed
  <2>3. QED
    BY <2>1, <2>2, StepsAre
<1>2. OfficeInv /\ [Next]_vars => [Filed]_vars
  BY <1>1
<1>3. QED
  BY <1>2, OfficeInductive, PTL DEF Spec, WebhooksFiledUnambiguously

=============================================================================
