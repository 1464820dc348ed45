# Rafd backend: verification project

TLA+ models of the write paths, and of the back office's and the caller's reads, of the Rafd backend (`src/src`, routes in
`src/app/api/v1`), the TLC runs that check them, and theorems checked by TLAPS.
Paths below are relative to the repository; `PROJECT.json` maps every definition
to the lines it models.

## The system

Rafd takes in-kind donations: donors ask for a pickup, couriers collect and
record the intake, staff sort and value the goods, approve, run workflows and
recognise donors with points, badges and certificates. It is a Next.js server in
four layers: a route parses the input and calls one **service**; the service
reads and writes through **repositories**, each function of which is one
PostgREST call to Supabase; the **domain** layer is pure rules; `lib` holds
authentication, errors and the response envelope.

Three facts shape everything that can go wrong:

* **No transactions.** An operation that writes three tables makes three calls.
  A call that fails ends the handler with `DEPENDENCY_ERROR`
  (`src/src/lib/http/response.ts:61-92`) and leaves what was written.
* **Check, then act.** A handler runs to its next `await`; other handlers run
  before it goes on. Nothing is locked, and the code itself notes that the schema
  shows no unique constraint for the pairs it checks.
* **Context is read once.** The caller's identity and organizations are read at
  the start of the handler, in one call and then three parallel ones
  (`src/src/lib/auth/current-user.ts:27-47`), and relied on to its end.

There are no background jobs, queues or retries in the server. Clients retry.

## Inventory

| Component | State it writes | Operations that write | What must hold |
|---|---|---|---|
| Workflow engine (`services/workflow`) | `workflow_instances`, `workflow_step_instances`, `workflow_action_logs` | create an instance; advance it along a rule (find the open step instance, complete it, insert the next, move the pointer, log) | an instance walks its template's graph; its pointer and completion are backed by step instances; the trail is truthful; a terminal instance stays put |
| Points ledger (`services/recognition/points`) | `points_ledger`, `donors.total_points` | award points (read the balance, count, insert, store the balance) | balances chain; the counter loses nothing but what overlapped or failed; caps hold |
| Badges and certificates | `badge_awards`, `issued_certificates` | award a badge; issue a certificate | one award of a badge; rows stay within the donor's organization |
| Approvals (`services/approvals`) | `approval_requests`, `approval_decisions` | submit; decide on the pending step of the governing chain | the right people decide, in order, once |
| Courier field work | `intake_records`, `field_updates`, `field_proofs` | create or patch the intake; add an update or a proof | one intake per task; a courier touches his own records only, whoever holds the task later; reports and dashboard fit the assignments |
| Sorting (`services/ops`) | `sorting_sessions`, `sorted_items`, `estimated_values`, `sorting_decision_logs`, `sorting_review_tasks` | open or patch a session; add or patch items; add estimates and decisions; open or patch review tasks | everything hangs from one session of the caller's organization; a decision names an item of its own session |
| Donor desk (`services/donor`) | `donation_requests`, `donation_request_details`, `pickup_locations`, `donor_contact_details`, `donor_profile_update_requests` | create a request with its initial status; add details; create or patch locations; patch contacts; ask for a profile change | a donor reaches his own rows only; the status is the organization's initial one |
| Communications (`services/comms`) | `notifications`, `notification_recipients`, `communication_campaigns` | create each | the organization is the template's, the stated one and one of the caller's; lists show the caller's organizations only |
| Legal acceptances | `legal_acceptances` | record an acceptance | within the effective window; by the caller himself or a donor of the document's organization; the snapshot is what was accepted |
| Integrations | `integration_configurations`, `webhook_events` | create or patch a configuration; receive a webhook | a webhook is filed under the one provider it is for, and stores no credentials; overlapping patches keep each other's fields; secrets are not shown |
| Audit, activity and external API logs | none (read only here) | none | shown within the caller's organizations |
| Authentication and caller scope (`lib/auth`) | none | none (sign in, load the context, open the gate of a route) | whoever acts for an organization was its member while he was served |
| Permissions, HTTP, Supabase clients, pages | none | none | inputs and assumptions of the models |

How they interact: through the tables. Points read and write `donors`, which
the donor desk shows; sorting starts from an intake record the courier made;
badges, certificates, points and acceptances are scoped by the donor's row;
workflow instances and approval requests name an entity by type and id without
reading it. No service calls another component's service; the shared parts are
how a handler runs, which is `RequestHandler`, and who is calling, which is
`CallerScope`. `BackOffice` composes the latter with the services of messages,
acceptances, integrations and all their reads.

Rows some other system writes show up as actions of the environment: a workflow
instance is cancelled (`cancelled_at`), an approval chain is switched on or off,
a task is assigned to another courier, the statuses of an organization are edited;
accounts and memberships, legal documents and providers are edited and the clock runs.
The code reads these columns and writes none of them.

## Modules

| Module | What it is |
|---|---|
| `RequestHandler` | handlers between awaits: begin, go on, respond, fail at any call; `met` records which requests were in flight when one began, so properties can tell overlapping requests from consecutive ones |
| `WorkflowProgression` | the workflow engine, one action per awaited call that touches a table requests write |
| `WorkflowWalk` | abstract: an instance walks the graph of its template, whatever overlaps or fails |
| `WorkflowToken` | abstract: a token that moves along one rule at a time and stops for good on a terminal step |
| `WorkflowSerial` | the engine with requests served one at a time and no failures, and its mapping to `WorkflowToken`; the trail is read off the completed step instances by the rank of `created_at` |
| `PointsLedger` | `createPointsAward` |
| `RecognitionAwards` | `createBadgeAward` and `issueCertificate` |
| `ApprovalDecisions` | `createApprovalRequest` and `createApprovalDecision` |
| `CourierIntake` | `createIntakeForTask` and `updateIntakeForTask`, behind the assignment check |
| `CourierDesk` | the rest of the courier's API beside it: field updates, proofs, and the dashboard's four reads, while tasks are reassigned |
| `SortingFloor` | the five tables of sorting: every create and patch of `services/ops` |
| `DonorDesk` | every create and patch of `services/donor`, while statuses are edited |
| `CallerScope` | `withAuth`, `withDonor`, `withCourier`, `withOps`: the session, the caller's row, the parallel reads of his context, the gates; `GET /me` and the profiles; accounts that others edit |
| `Communications` | creating notifications, recipients and campaigns, with `resolveTargetOrgId` |
| `LegalAcceptances` | `createLegalAcceptance`, with a clock and documents that others edit |
| `Integrations` | creating and patching configurations; `receiveWebhook` with the parsing of what is delivered |
| `BackOfficeReads` | every list and get of messages, templates, documents, acceptances, integrations and logs |
| `RecognitionReads` | what the back office is shown of points, badges and certificates |
| `BackOffice` | the last five composed under `CallerScope`, and their properties |
| `Tables` | what the sorting, donor, courier and back office modules share: tables with rows stored before, and which rows a step writes |
| `MC*` | the small instances TLC checks |
| `*Proofs` | theorems. `WorkflowProgressionProofs` is about the engine and its serial use, `FieldAndOfficeProofs` about `CourierDesk` (whose definitions are called `CourierInit`, `CourierNext`, `CourierSpec`, ... for that reason) and `BackOffice`; each of the others about the module it is named after |

### How state and actions correspond to the code

* A table is a function from row ids to rows or `NULL`. A handler inserts at
  most one row in each table, so the request is the row's id; where it matters,
  rows stored before (`Old...`, any that fit together) have ids of their own.
* `pc[r]` is the awaited call handler `r` is suspended at; `call[r]` is what its
  local variables keep across awaits. An action is one call together with the
  code up to the next await. Reads of tables that nothing in the model writes
  are merged with the next call; reads of tables the requests or the environment
  write are never merged with a later write. The assignment check of a courier
  request, for instance, is one step, its lookup of the record the next, its
  write a third.
* `Refuse...` and `Accept...` are the two outcomes of the checks a handler makes
  before its first suspended call, with the code's answers in the code's order.
* The columns of a PATCH are a set of columns with values, whatever their names;
  what a body leaves out stays out of the UPDATE, as the code builds it.
* `FailPendingCall` may end any handler at any call: the call fails, the process
  dies, or (at `"respond"`) the row is stored and only the answer is lost. A
  client's retry is one more request.
* `WorkflowProgression` keeps its own copy of the handler (it needs no overlap
  history and has two kinds of locals); the other services extend
  `RequestHandler`.
* Timestamps are abstracted to whether they are set, except where the code
  compares them (the newest open step instance; the window of a points rule).
  Names, notes and payloads are left out. `result_code` holds the rule's name in
  the code (`progression.service.ts:110`) and the rule itself in the model.

### Choices a reader should know of

* Two rows of equal rank are an arbitrary choice: two initial steps with one
  `sort_order`, two governing chains, two approval steps with one `step_order`.
  The queries leave the order to the database.
* The approval chain is looked up for every decision and never stored with the
  request, so switching chains changes which step is pending. A request of one
  branch may be governed by a chain of another branch when neither a chain of
  its branch nor an organization-wide one is active
  (`approval-chains.repository.ts:53-63`). The steps of a chain, the users' roles
  and the chains' scope are constants; only `is_active` changes.
* Submissions that exist before the runs start (`Submitted`) are rows of
  `approval_requests` such as the submit handler stores.
* The lookups of the draft status and of a flagged one are two steps, since
  statuses may be edited in between. `stirred` and `met` are history: no action
  reads them.
* An UPDATE that asks for one row back (`maybeSingle()` after `update`,
  `intake-records.repository.ts:113-126`) and matches two is refused by PostgREST,
  which rolls it back: `UpdateByTaskId` changes nothing then and the handler
  answers an error. With no match the handler answers `NOT_FOUND`.

* The dashboard of a courier is four reads (`dashboard.service.ts:19-37`), three of
  them parallel, the fourth of the task ids one of them brought. `steady` and `seen`
  are history like `stirred`: the requests during which no assignment changed, and
  the organizations a caller had at any moment since his request began.
* A DTO keeps of its row what says whose it is, and each jsonb column that is shown
  as `{}` when it is null; of a configuration it keeps the payload, redacted as
  `redactConfigPayload` does it. Keys and header names are taken to be in lower case.
  The other fields are copied one to one and left out.
* A list of rows without an organization (versions, variables, recipients,
  deliveries, and what a donor was awarded) is two steps: its parent is found among
  the caller's organizations, then the rows are listed by the parent's id alone.
* A delivered body is an object, another JSON value, no JSON or nothing. What the
  four cases store, and which of the four keys names the event, is checked over
  lengths 0, 1, 200 and 201 by the assumption `EventTypeExamples` of `MCBackOffice`.

## Runs

The passing runs let three requests (four in the serial one) arrive, overlap and
fail in every way. Three is the least number at which the interesting cases
occur together: one request prepares state, two overlap on it; or one is caught
between two others. In `sorting` and `donor`, with ten and six operations, it is
two requests, and the rows a third would have prepared are stored before; in `backoffice`
also two, of two callers, with some fifty operations. `CHECK_DEADLOCK FALSE` everywhere: the set of requests is
finite and the system stops when all are answered. Where a run uses `SYMMETRY`,
the requests are interchangeable model values that no constant tells apart, and
all its properties are safety properties.

| Run | Question | What it shows |
|---|---|---|
| `workflow_concurrent` | Does an instance's history survive overlap, failures and cancellation? | The pointer and a completion always have their step instances (`PointerBacked`, `CompletionEvidenced`); result codes name rules that leave the step they complete (`AuditTrailFits`); a success answer means everything was stored (`SuccessIsStored`); nothing is deleted or un-completed (`HistoryKept`); the engine implements `WorkflowWalk` (`WalksTheGraph`); and every request is answered (`EveryRequestAnswered`). |
| `workflow_serial` | Is it the state machine its authors describe when requests do not overlap? | It implements `WorkflowToken` (`MovesTheToken`), and between requests each instance has exactly one open step instance, the one its pointer names (`OneOpenStep`). |
| `workflow_terminal` (violated) | "Terminal instances cannot be advanced" | Two overlapping advances: the slower one moves a completed instance off its terminal step. |
| `points` | What do overlapping awards break, and what do they not? | Every row continues from a recorded balance (`LedgerChains`); only awards that overlapped or failed halfway may be missing from the counter (`CounterAccountsForAwards`); a cap is exceeded by overlapping awards only (`CapHoldsWithoutOverlap`). |
| `awards` | Can a badge be awarded twice, can tenants be mixed up? | Only overlapping requests award a badge twice, lost answers and retries do not (`AwardsRepeatOnlyByOverlap`); rows and all they refer to stay in the donor's organization, also for a caller of several (`RowsStayInDonorsOrg`). |
| `approvals` | Do decisions stay rightful while others decide and chains are switched? | Each is on a required step of a chain of its request, by somebody it is open to (`DecisionsAreRightful`); after approvals of all earlier required steps (`StepsInOrder`); repeated only by overlapping requests (`FreshDecisions`). |
| `approvals_twice` (violated) | "one decision per (request, step, user)" | A double submission stores both. |
| `courier` | What do overlapping intakes and reassignments break? | Only overlapping POSTs leave two records (`DuplicatesOnlyByOverlap`); a PATCH touches its courier's record and the columns it was sent, whoever holds the task by then (`PatchesTouchTheirOwn`); a courier's duplicates can never be changed again (`DuplicatesAreFrozen`); a report under a task its author does not hold, or a dashboard with more open tasks than assignments, needs assignments that changed meanwhile (`UndisturbedReportsAddUp`). |
| `sorting` | Does the floor stay in order across organizations and overlapping patches? | Items, estimates, decisions and review tasks stay with a session that fits its request and intake (`FloorHangsTogether`); a handler writes in its caller's organizations only, although it goes by sessions read before (`WritesStayInCallersOrgs`); nothing is deleted, moved or changed but by a PATCH of that column (`HistoryIsOnlyPatched`). |
| `donor` | Do donors stay apart, and where do requests start? | A request, its location, branch and status belong together (`DeskHangsTogether`); a handler writes its own donor's rows and the columns it was sent (`WritesStayWithTheDonor`); a request starts in the draft status, else a flagged one, else none, unless statuses were edited meanwhile (`RequestsStartInitial`). |
| `backoffice` | Do tenants stay apart while people leave, documents expire and providers are switched? | Template, provider, document and donor are of the organization of the row that names them (`OrgsAgree`); rows are written and shown for organizations the caller had while he was served, also where only their parent has one, and secrets are redacted (`RowsWithinMembership`); a configuration changes by the columns some PATCH was sent (`ConfigurationsChangeAsSent`); an acceptance keeps the text that was in force, its time in the window, unless documents were edited meanwhile (`AcceptedTextWasInForce`); a webhook is filed under the only active provider with its code (`WebhooksFiledUnambiguously`). |
| `courier_twice` (violated) | "One intake per task" | Two overlapping POSTs both find nothing and both insert. |

The three violated runs are real disagreements between the code and its own docs
or comments; `findings` in `PROJECT.json` quotes the lines. They have one cause: a
check in one call, the write it guards in another. The passing runs state what
remains true nevertheless, and for requests that do not overlap.

Bounds: besides the number of requests, each `MC` module fixes a small
configuration with one row of each kind an early return is about (inactive,
foreign, missing, mismatched) and the shapes that matter: a template with a
choice, a loop and a terminal step that can be left; a rule usable once and in one
instant only; a chain with an optional step, two steps of equal order and a role, and
a fallback chain; a task that changes hands between two couriers; two columns of which either
may be patched; callers of one and of two organizations; two donors of one
organization; statuses with a draft, with one flagged, two flagged and none; in the back office a
member of two organizations whose account is closed and a member of one, a text
in force until 0 and its successor from 1 with a clock that ticks once (the ends of
both windows), two organizations' providers with one code of which one is
switched, and one stored row per organization where nothing is inserted, or only one
the second caller must not see. What the code never writes is constant while requests
run, except where the environment edits it. Names and numbers beyond these are not told apart by any
guard.

Fairness: only `workflow_concurrent` needs it. `WF_vars(Proceed(r))` says that a
handler's pending call resolves and the event loop resumes it, which the runtime
does for every handler separately (the HTTP client has timeouts, and a dead
process answers by failing). Arrivals, failures and cancellations are not assumed
to happen.

## Theorems

For every value of the constants that satisfies the modules' assumptions, that
is any number of requests (infinitely many where not said otherwise), any
configuration the column types and foreign keys allow:

| Theorem | Module | States |
|---|---|---|
| `TypeCorrect`, `HistoryIsKept`, `CompletionIsEvidenced`, `PointerIsBacked`, `AuditTrailIsTruthful`, `SuccessMeansStored` | `WorkflowProgressionProofs` | the type invariant and the safety properties of `workflow_concurrent` |
| `EngineWalksTheGraph` | `WorkflowProgressionProofs` | the engine implements `WorkflowWalk` |
| `OneStepIsOpen`, `ServedInTurnMovesTheToken` | `WorkflowProgressionProofs` | all of run `workflow_serial`: one open step instance per resting instance, and the engine implements `WorkflowToken` |
| `TrailsArePathsOfTheGraph` | `WorkflowProgressionProofs` | what `WorkflowToken` promises of a trail, and the engine has by refinement: the result codes of an instance are a path through its template, from an initial step to the pointer's step, and none but the last leads to a terminal step |
| `ServedInTurnCompletedIsFinal` | `WorkflowProgressionProofs` | what `workflow_terminal` refutes for overlapping requests holds of requests served one at a time |
| `PointsTypeCorrect`, `LedgerAlwaysChains`, `CounterAlwaysAccounts`, `CapsHoldWithoutOverlap` | `PointsLedgerProofs` | all of run `points`; finitely many requests (`FiniteAssumption`), because the cap counts rows and the counter sums them |
| `ApprovalsTypeCorrect`, `DecisionsAlwaysRightful`, `StepsAlwaysInOrder`, `DecisionsAlwaysFresh` | `ApprovalDecisionsProofs` | all of run `approvals` |
| `FloorTypeCorrect`, `FloorAlwaysHangsTogether`, `WritesAlwaysStayInCallersOrgs`, `HistoryIsAlwaysOnlyPatched` | `SortingFloorProofs` | all of run `sorting` |
| `DeskTypeCorrect`, `DeskAlwaysHangsTogether`, `WritesAlwaysStayWithTheDonor`, `RequestsAlwaysStartInitial` | `DonorDeskProofs` | all of run `donor` |
| `AwardsTypeCorrect`, `AwardsAlwaysRepeatByOverlap`, `RowsAlwaysInDonorsOrg` | `RecognitionAwardsProofs` | all of run `awards` |
| `CourierTypeCorrectness`, `DuplicatesNeedOverlap`, `PatchesStayTheirOwn`, `DuplicatesStayFrozen`, `SteadyReportsAddUp` | `FieldAndOfficeProofs` | all of run `courier`; finitely many tasks, because the dashboard counts them |
| `OfficeTypeCorrectness`, `OrganizationsAgree`, `NobodyActsForOthers`, `ConfigurationsKeepTheRest`, `AcceptancesRecordConsent`, `WebhooksFiledOnce` | `FieldAndOfficeProofs` | all of run `backoffice` |

So every property of a passing run but one is a theorem.

The arguments have one shape. A property of the tables is not inductive by
itself: it says nothing of what suspended handlers are about to write. `Base` adds
that: a handler that has not inserted its row owns none, and what it holds fits
the tables (its instance exists, its chain fits the request, its balance is
recorded). What a handler learned and may have become stale is then weakened
to what cannot: a step once reached stays reached, so an advance may leave from
it although the pointer has moved on (`FromReached`); an approval once stored
stays, so the steps ahead of a pending one remain approved (`Ready`); whoever
entered an award since the count was in flight together with the counter, so
they overlapped (`Capped`, `Fresh`). On the sorting floor and the donor desk nothing
a handler holds goes stale: sessions, items, locations and requests are never
deleted and never move, which is proved first (`SessionsStay`, `ItemsStay`,
`OwnedStays`, `AskedStays`) and carries `CallFits` over every step; only what a
handler knows of the statuses does, and `Looks` says so of those that no edit has
`stirred`. The idea about overlap rests on one lemma of
`RequestHandlerProofs`: two handlers in flight together know it of each other
(`InFlightOverlap`).

The inductive invariants that need a word of their own:

* **Courier** (`DeskBase`, `DeskSteady`). A handler about to insert an intake found
  no record of its task, so it overlapped the author of every record there is now
  (`CreateFresh`): that is `DuplicatesOnlyByOverlap` one step ahead. For the reports,
  `DeskSteady` says of the requests during which no assignment changed (`steady`)
  that what they read of assignments is still so (`Holds`), and that a dashboard's
  list and count, in whichever order the parallel reads return, are of one and the
  same set of tasks (`SteadyDashboard`).
* **Back office** (`OfficeInv`). `CallsGood` is the reason tenants stay apart: whatever
  one of some fifty operations keeps across an await, a row to insert, a parent it
  found, a list to show, names only organizations its caller had since his request
  began (`seen`). `RowsWithinMembership` then follows insert by insert and read by
  read. It needs `OfficeOwned` (no row before its insert) and that notifications and
  campaigns are never deleted or moved (`RowsKept`), since children are listed by
  their parent's id alone. `Undisturbed` is about what does go stale: of the requests
  during which no document and no provider was edited, the text about to be stored
  was in force and the provider found is still the only one.
* **One request at a time** (`SerialInv`). `Ready` says what a handler may rely on at
  each await when nobody interferes: its instance is not over and still points to the
  step it leaves, the outgoing step instance is open, then completed and the newest,
  then the newest but one. `RestingRows` is what an instance looks like when nobody
  works on it, which is `OneOpenStep` for the whole set of rows. Rows are finitely
  many, as one request is served after the other, and older than the clock
  (`Dated`), so a new row is the newest. The refinement then needs one fact of the
  trail: completing an advance adds one settled row after all others, which leaves
  every other row's rank alone and appends the rule (`TrailGrows`); every other step
  leaves the settled rows as they are (`TrailStays`).
* **The counter** (`Accounted`). The counter is the initial points and the sum of a set
  of stored awards that contains all the settled ones; the balance a suspended
  handler has read is one too, of a set that may lack only what it overlapped. When
  it stores its balance, the counter takes over its set. Sums over a set of rows are
  stated as cardinalities (an award of n points stands for n pairs), so that they can
  be reasoned about without induction; `SumOfOneMore` is the one fact needed.

`SerialInv` and `Accounted` were model-checked on the runs before they were proved.

Only model-checked: liveness (`EveryRequestAnswered`; fairness and `ENABLED` are
out of the prover's reach), and the examples of `EventTypeExamples`. The three
violated runs are counterexamples; nothing is to be proved there.

## Observations that no property states

* The scope check of `automation_action_id` comes after the advance is stored
  (`progression.service.ts:144`), so `NOT_FOUND` or `BAD_REQUEST` may mean "advanced".
  The model keeps that order (`RefuseLog` follows `ApplyAdvance`).
* The step instance of a terminal step is created open and nothing completes it;
  `OneOpenStep` includes it. `skipped_at` is never written.
* A rejection leaves its step pending and bars its user from deciding again. When
  all eligible users have rejected, the request is pending for good; aggregation
  is left to a later phase by the code's own account.
* After a reassignment the new courier can neither POST an intake (`CONFLICT`, one
  exists) nor PATCH it (`NOT_FOUND`, it is his predecessor's).
* A retry of `issueCertificate` issues a second certificate, a retry of a donor's
  request a second request under a new number.
* Nothing asks whether an intake already has a session: two may sort the same goods.
  A review task's status is free-form: a PATCH sent from an old view reopens a
  completed task.
* `is_default` of a location and `is_primary` of a contact are stored as sent and never
  cleared on the donor's other rows.
* `src/src/domain/donor/rules.ts:145-148` says of a missing initial status that it
  "surfaces a clear error if neither exists"; the service logs a warning and stores
  the request without a status, as its own comment says
  (`src/src/services/donor/requests.service.ts:94-99`).
* `docs/api.md` calls `pickup_location_id` of a donor's request optional; the schema
  requires it (`src/src/modules/donor/requests.dto.ts:102-109`).
* `src/src/domain/comms/rules.ts:25-31` says an explicit organization outside the
  caller's is answered NotFound; the rule returns null and the services answer
  `BAD_REQUEST`, as for the ambiguous cases.
* `src/src/modules/comms/notifications.dto.ts:18-20` says `scheduled_at` is not writable
  on create; the schema's own comment (`:97-98`) and the schema make it writable.
* `src/src/modules/comms/notification-recipients.dto.ts:75-76` asks for a name with the
  phone or e-mail; a phone or an e-mail alone is accepted. A name alone is not, which
  `Addressed` has.
* A configuration that is PATCHed with the payload as GET shows it stores
  `[REDACTED]` over its secrets. `MCConfigPatches` has such a body;
  `ConfigurationsChangeAsSent` allows it, since it is what was sent.
* The window of a document is compared before the donor is looked up, and
  `accepted_at` is taken afterwards, so a donor's acceptance may carry a time after the
  end; a time that is sent is never compared with the window.
* The `branch_id` of a notification and the `user_id` and `donor_id` of a recipient are
  not compared with the organization.
* `GET /me` loads the context twice, in its wrapper and in `getMe`; an account that is
  closed in between is `UNAUTHENTICATED` after all (`RequireUser`).
* Nothing compares the task of a proof's `field_update_id` with its own.
* A redelivered webhook is one more pending event: `external_event_id` is stored and
  never looked up.

## Not modelled, and the plan

Not to be modelled: routes (each calls one service and wraps the answer), clients and
pages; text formats such as request and certificate numbers; the allowlists of
`domain/donor/rules.ts` and `domain/ops/rules.ts`, which no code reads, and
`lib/permissions`, a skeleton that nobody calls; logging and the response envelope;
the lists of the donor, courier, sorting, approval and workflow services, which show
what their own modules write.

In order of importance:

1. Abstract specifications: a sequential ledger that `PointsLedger` implements when
   awards do not overlap, and a sequential approval desk for `ApprovalDecisions`.
2. The reads of donors and couriers (own rows only), as `BackOfficeReads` has them for
   the staff.
