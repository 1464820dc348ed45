---------------------------- MODULE SortingFloor ----------------------------
(***************************************************************************)
(* /ops/sorting-sessions, /ops/sorted-items and /ops/sorting-review-tasks: *)
(* a session sorts the goods of one intake; items, estimates, decisions    *)
(* and review tasks hang from it.  Only a session has an organization, so  *)
(* whatever touches the rest goes by sessions read in an earlier call.     *)
(***************************************************************************)
EXTENDS Tables

CONSTANTS
  Orgs, CallerOrgSets,
  DonationRequests, RequestOrg,
  Intakes, IntakeOrg, IntakeRequest,
  Columns, Values,   \* the columns a body may set, and what they may hold
  CreateBodies,      \* bodies of POST: the columns sent, with their values
  PatchBodies,       \* bodies of PATCH
  Omitted,           \* what POST stores for a column that is not sent
  IntakeDefaults,    \* for a session: the branch of the intake, else as above
  OldSessions,       \* rows stored before, by id
  OldItems,
  OldReviews

SessionIds == Requests \cup DOMAIN OldSessions
ItemIds == Requests \cup DOMAIN OldItems
ReviewIds == Requests \cup DOMAIN OldReviews

Data == [Columns -> Values]

SessionRow ==
  [organization_id : Orgs, donation_request_id : DonationRequests,
   intake_record_id : Intakes, data : Data]

ItemRow == [sorting_session_id : SessionIds, data : Data]

EstimateRow == [sorting_session_id : SessionIds, sorted_item_id : ItemIds]

DecisionRow ==
  [sorting_session_id : SessionIds, sorted_item_id : ItemIds \cup {NULL}]

ReviewRow == [sorting_session_id : SessionIds, data : Data]

\* What createSortingSession leaves behind.
SessionFits(s) ==
  /\ s.organization_id = RequestOrg[s.donation_request_id]
  /\ s.donation_request_id = IntakeRequest[s.intake_record_id]

ASSUME FloorAssumption ==
  /\ CallerOrgSets \subseteq SUBSET Orgs
  /\ RequestOrg \in [DonationRequests -> Orgs]
  /\ IntakeOrg \in [Intakes -> Orgs]
  /\ IntakeRequest \in [Intakes -> DonationRequests]
  /\ \A body \in CreateBodies \cup PatchBodies :
       body \in [DOMAIN body -> Values] /\ DOMAIN body \subseteq Columns
  /\ Omitted \in Data
  /\ IntakeDefaults \in [Intakes -> Data]
  /\ NULL \notin DonationRequests \cup Intakes

ASSUME OldRowsAssumption ==
  /\ OldSessions \in [DOMAIN OldSessions -> SessionRow]
  /\ \A s \in DOMAIN OldSessions : SessionFits(OldSessions[s])
  /\ OldItems \in [DOMAIN OldItems -> ItemRow]
  /\ \A i \in DOMAIN OldItems : OldItems[i].sorting_session_id \in DOMAIN OldSessions
  /\ OldReviews \in [DOMAIN OldReviews -> ReviewRow]
  /\ \A v \in DOMAIN OldReviews : OldReviews[v].sorting_session_id \in DOMAIN OldSessions
  /\ Requests \cap (DOMAIN OldSessions \cup DOMAIN OldItems \cup DOMAIN OldReviews) = {}
  /\ NULL \notin SessionIds \cup ItemIds \cup ReviewIds

VARIABLES
  sessions,    \* sorting_sessions, by id
  items,       \* sorted_items
  estimates,   \* estimated_values
  decisions,   \* sorting_decision_logs
  reviews      \* sorting_review_tasks

tables == <<sessions, items, estimates, decisions, reviews>>
vars == <<sessions, items, estimates, decisions, reviews, pc, call, answer, met>>

\* What a handler holds: its caller's organizations, and the row it is about
\* to insert, or the id and the columns to update among the sessions it read.
InsertCall(Row) == [orgs : CallerOrgSets, row : Row]
SessionPatchCall == [orgs : CallerOrgSets, id : SessionIds, body : PatchBodies]
ChildPatchCall(Ids) ==
  [orgs : CallerOrgSets, sessions : SUBSET SessionIds, id : Ids, body : PatchBodies]
EstimateCall == [orgs : CallerOrgSets, sessions : SUBSET SessionIds, id : ItemIds]

FloorCall ==
  UNION {InsertCall(SessionRow), InsertCall(ItemRow), InsertCall(EstimateRow),
         InsertCall(DecisionRow), InsertCall(ReviewRow),
         SessionPatchCall, ChildPatchCall(ItemIds), ChildPatchCall(ReviewIds),
         EstimateCall}

ASSUME FloorNullAssumption ==
  NULL \notin UNION {SessionRow, ItemRow, EstimateRow, DecisionRow, ReviewRow, FloorCall}

PcFloor ==
  {"create_session", "update_session", "create_item", "update_item",
   "find_item", "create_estimate", "find_decided_item", "create_decision",
   "create_review", "update_review"}

TypeOK ==
  /\ sessions \in [SessionIds -> SessionRow \cup {NULL}]
  /\ items \in [ItemIds -> ItemRow \cup {NULL}]
  /\ estimates \in [Requests -> EstimateRow \cup {NULL}]
  /\ decisions \in [Requests -> DecisionRow \cup {NULL}]
  /\ reviews \in [ReviewIds -> ReviewRow \cup {NULL}]
  /\ HandlersTyped(PcFloor, FloorCall)

Init ==
  /\ sessions = Stored(SessionIds, OldSessions)
  /\ items = Stored(ItemIds, OldItems)
  /\ estimates = [l \in Requests |-> NULL]
  /\ decisions = [l \in Requests |-> NULL]
  /\ reviews = Stored(ReviewIds, OldReviews)
  /\ InitHandlers

-----------------------------------------------------------------------------

\* Mutant: sessions of every organization are listed.
ListInOrgs_All(orgs) == {s \in SessionIds : sessions[s] # NULL}

ListInOrgs(orgs) ==
  {s \in SessionIds : sessions[s] # NULL /\ sessions[s].organization_id \in orgs}

\* The rows of a child table that hang from one of the sessions.
InSessions(table, ids) ==
  {l \in DOMAIN table : table[l] # NULL /\ table[l].sorting_session_id \in ids}

\* Mutant: a column that is not sent is reset.
Patched_Whole(row, body) ==
  [row EXCEPT !.data = [k \in Columns |-> IF k \in DOMAIN body THEN body[k] ELSE Omitted[k]]]

Patched(row, body) ==
  [row EXCEPT !.data = [k \in Columns |-> IF k \in DOMAIN body THEN body[k] ELSE row.data[k]]]

\* Mutant: a column that is not sent is left out.
NewData_SentOnly(body, default) == body

NewData(body, default) ==
  [k \in Columns |-> IF k \in DOMAIN body THEN body[k] ELSE default[k]]

\* assertSessionInCallerOrgs, the first call of every POST below a session.
RefuseForeignSession(r) ==
  /\ pc[r] = "idle"
  /\ \E orgs \in CallerOrgSets, s \in SessionIds : s \notin ListInOrgs(orgs)
  /\ Respond(r, "NOT_FOUND")
  /\ UNCHANGED tables

\* A PATCH ends with NOT_FOUND when its one call matches no row.
Updated(r, matches) ==
  IF matches THEN Await(r, "respond") ELSE Respond(r, "NOT_FOUND")

-----------------------------------------------------------------------------
(* createSortingSession, updateSortingSession                              *)

SessionRefusal(orgs, q, i) ==
  IF RequestOrg[q] \notin orgs \/ IntakeOrg[i] \notin orgs THEN "NOT_FOUND"
  ELSE IF IntakeRequest[i] # q THEN "BAD_REQUEST"
  ELSE "none"

RefuseSession(r) ==
  /\ pc[r] = "idle"
  /\ \E orgs \in CallerOrgSets, q \in DonationRequests, i \in Intakes :
       /\ SessionRefusal(orgs, q, i) # "none"
       /\ Respond(r, SessionRefusal(orgs, q, i))
  /\ UNCHANGED tables

AcceptSession(r) ==
  /\ \E orgs \in CallerOrgSets, q \in DonationRequests, i \in Intakes, body \in CreateBodies :
       /\ SessionRefusal(orgs, q, i) = "none"
       /\ Begin(r, "create_session",
                [orgs |-> orgs,
                 row |-> [organization_id |-> RequestOrg[q], donation_request_id |-> q,
                          intake_record_id |-> i, data |-> NewData(body, IntakeDefaults[i])]])
  /\ UNCHANGED tables

CreateSession(r) ==
  /\ pc[r] = "create_session"
  /\ sessions' = [sessions EXCEPT ![r] = call[r].row]
  /\ Await(r, "respond")
  /\ UNCHANGED <<items, estimates, decisions, reviews>>

AcceptSessionPatch(r) ==
  /\ \E orgs \in CallerOrgSets, s \in SessionIds, body \in PatchBodies :
       Begin(r, "update_session", [orgs |-> orgs, id |-> s, body |-> body])
  /\ UNCHANGED tables

UpdateSession(r) ==
  LET c == call[r]
      matches == c.id \in ListInOrgs(c.orgs)
  IN /\ pc[r] = "update_session"
     /\ sessions' =
          IF matches THEN [sessions EXCEPT ![c.id] = Patched(@, c.body)] ELSE sessions
     /\ Updated(r, matches)
     /\ UNCHANGED <<items, estimates, decisions, reviews>>

-----------------------------------------------------------------------------
(* createSortedItem, updateSortedItem, createEstimatedValueForItem         *)

AcceptItem(r) ==
  /\ \E orgs \in CallerOrgSets : \E s \in ListInOrgs(orgs), body \in CreateBodies :
       Begin(r, "create_item",
             [orgs |-> orgs,
              row |-> [sorting_session_id |-> s, data |-> NewData(body, Omitted)]])
  /\ UNCHANGED tables

CreateItem(r) ==
  /\ pc[r] = "create_item"
  /\ items' = [items EXCEPT ![r] = call[r].row]
  /\ Await(r, "respond")
  /\ UNCHANGED <<sessions, estimates, decisions, reviews>>

AcceptItemPatch(r) ==
  /\ \E orgs \in CallerOrgSets, i \in ItemIds, body \in PatchBodies :
       Begin(r, "update_item",
             [orgs |-> orgs, sessions |-> ListInOrgs(orgs), id |-> i, body |-> body])
  /\ UNCHANGED tables

UpdateItem(r) ==
  LET c == call[r]
      matches == c.id \in InSessions(items, c.sessions)
  IN /\ pc[r] = "update_item"
     /\ items' = IF matches THEN [items EXCEPT ![c.id] = Patched(@, c.body)] ELSE items
     /\ Updated(r, matches)
     /\ UNCHANGED <<sessions, estimates, decisions, reviews>>

AcceptEstimate(r) ==
  /\ \E orgs \in CallerOrgSets, i \in ItemIds :
       Begin(r, "find_item", [orgs |-> orgs, sessions |-> ListInOrgs(orgs), id |-> i])
  /\ UNCHANGED tables

\* getSortedItem; the estimate's session is the item's.
FindItem(r) ==
  LET c == call[r]
  IN /\ pc[r] = "find_item"
     /\ \/ /\ c.id \in InSessions(items, c.sessions)
           /\ AwaitWith(r, "create_estimate",
                [orgs |-> c.orgs,
                 row |-> [sorting_session_id |-> items[c.id].sorting_session_id,
                          sorted_item_id |-> c.id]])
        \/ c.id \notin InSessions(items, c.sessions) /\ Respond(r, "NOT_FOUND")
     /\ UNCHANGED tables

CreateEstimate(r) ==
  /\ pc[r] = "create_estimate"
  /\ estimates' = [estimates EXCEPT ![r] = call[r].row]
  /\ Await(r, "respond")
  /\ UNCHANGED <<sessions, items, decisions, reviews>>

-----------------------------------------------------------------------------
(* createDecisionLogForSession                                             *)

AcceptDecision(r) ==
  /\ \E orgs \in CallerOrgSets : \E s \in ListInOrgs(orgs), i \in ItemIds \cup {NULL} :
       Begin(r, IF i = NULL THEN "create_decision" ELSE "find_decided_item",
             [orgs |-> orgs, row |-> [sorting_session_id |-> s, sorted_item_id |-> i]])
  /\ UNCHANGED tables

\* Mutant: any item the caller can see will do.
InDecidedSession_Visible(c) ==
  c.row.sorted_item_id \in InSessions(items, ListInOrgs(c.orgs))

InDecidedSession(c) ==
  c.row.sorted_item_id \in InSessions(items, {c.row.sorting_session_id})

FindDecidedItem(r) ==
  /\ pc[r] = "find_decided_item"
  /\ \/ InDecidedSession(call[r]) /\ Await(r, "create_decision")
     \/ ~InDecidedSession(call[r]) /\ Respond(r, "BAD_REQUEST")
  /\ UNCHANGED tables

CreateDecision(r) ==
  /\ pc[r] = "create_decision"
  /\ decisions' = [decisions EXCEPT ![r] = call[r].row]
  /\ Await(r, "respond")
  /\ UNCHANGED <<sessions, items, estimates, reviews>>

-----------------------------------------------------------------------------
(* createReviewTask, updateReviewTask                                      *)

AcceptReview(r) ==
  /\ \E orgs \in CallerOrgSets : \E s \in ListInOrgs(orgs), body \in CreateBodies :
       Begin(r, "create_review",
             [orgs |-> orgs,
              row |-> [sorting_session_id |-> s, data |-> NewData(body, Omitted)]])
  /\ UNCHANGED tables

CreateReview(r) ==
  /\ pc[r] = "create_review"
  /\ reviews' = [reviews EXCEPT ![r] = call[r].row]
  /\ Await(r, "respond")
  /\ UNCHANGED <<sessions, items, estimates, decisions>>

AcceptReviewPatch(r) ==
  /\ \E orgs \in CallerOrgSets, v \in ReviewIds, body \in PatchBodies :
       Begin(r, "update_review",
             [orgs |-> orgs, sessions |-> ListInOrgs(orgs), id |-> v, body |-> body])
  /\ UNCHANGED tables

UpdateReview(r) ==
  LET c == call[r]
      matches == c.id \in InSessions(reviews, c.sessions)
  IN /\ pc[r] = "update_review"
     /\ reviews' = IF matches THEN [reviews EXCEPT ![c.id] = Patched(@, c.body)] ELSE reviews
     /\ Updated(r, matches)
     /\ UNCHANGED <<sessions, items, estimates, decisions>>

-----------------------------------------------------------------------------

Answer(r) ==
  /\ pc[r] = "respond"
  /\ Respond(r, "OK")
  /\ UNCHANGED tables

FailPendingCall(r) == FailCall(r) /\ UNCHANGED tables

Next ==
  \E r \in Requests :
    \/ RefuseForeignSession(r)
    \/ RefuseSession(r) \/ AcceptSession(r) \/ CreateSession(r)
    \/ AcceptSessionPatch(r) \/ UpdateSession(r)
    \/ AcceptItem(r) \/ CreateItem(r)
    \/ AcceptItemPatch(r) \/ UpdateItem(r)
    \/ AcceptEstimate(r) \/ FindItem(r) \/ CreateEstimate(r)
    \/ AcceptDecision(r) \/ FindDecidedItem(r) \/ CreateDecision(r)
    \/ AcceptReview(r) \/ CreateReview(r)
    \/ AcceptReviewPatch(r) \/ UpdateReview(r)
    \/ Answer(r) \/ FailPendingCall(r)

Spec == Init /\ [][Next]_vars

-----------------------------------------------------------------------------
(* Properties.                                                             *)

\* Everything on the floor hangs from one session whose organization is that
\* of its donation request and whose intake is that request's.  An estimate
\* is filed under its item's session, and a decision is about an item of its
\* own session, whatever else the caller can see.
FloorHangsTogether ==
  /\ \A s \in SessionIds : sessions[s] # NULL => SessionFits(sessions[s])
  /\ \A i \in ItemIds : items[i] # NULL => sessions[items[i].sorting_session_id] # NULL
  /\ \A v \in ReviewIds : reviews[v] # NULL => sessions[reviews[v].sorting_session_id] # NULL
  /\ \A e \in Requests : estimates[e] # NULL =>
       /\ items[estimates[e].sorted_item_id] # NULL
       /\ items[estimates[e].sorted_item_id].sorting_session_id
            = estimates[e].sorting_session_id
  /\ \A d \in Requests : decisions[d] # NULL =>
       /\ sessions[decisions[d].sorting_session_id] # NULL
       /\ decisions[d].sorted_item_id # NULL =>
            /\ items[decisions[d].sorted_item_id] # NULL
            /\ items[decisions[d].sorted_item_id].sorting_session_id
                 = decisions[d].sorting_session_id

\* The handler that takes the step has a caller of that organization.
WrittenFor(org) == \E r \in Requests : pc'[r] # pc[r] /\ org \in call[r].orgs

\* A handler writes in the organizations of its caller only: the ids in route
\* and body never reach further, although the sessions the caller may touch
\* were read in a call before the write.
WritesForCallers ==
  /\ \A s \in Written(sessions) : WrittenFor(sessions'[s].organization_id)
  /\ \A i \in Written(items) :
       WrittenFor(sessions[items'[i].sorting_session_id].organization_id)
  /\ \A e \in Written(estimates) :
       WrittenFor(sessions[estimates'[e].sorting_session_id].organization_id)
  /\ \A d \in Written(decisions) :
       WrittenFor(sessions[decisions'[d].sorting_session_id].organization_id)
  /\ \A v \in Written(reviews) :
       WrittenFor(sessions[reviews'[v].sorting_session_id].organization_id)

WritesStayInCallersOrgs == [][WritesForCallers]_vars

\* Some PATCH in flight of that row accounts for every column that changes.
SentByPatch(at, id, old, new) ==
  \E r \in Requests :
    /\ pc[r] = at
    /\ call[r].id = id
    /\ \A k \in Columns :
         new.data[k] = IF k \in DOMAIN call[r].body THEN call[r].body[k] ELSE old.data[k]

\* Rows are never deleted and never move to another session, request or
\* organization; estimates and decisions never change at all; a PATCH changes
\* the columns it was sent and does not undo an overlapping PATCH of others.
OnlyPatches ==
  /\ \A s \in Written(sessions) : sessions[s] # NULL =>
       /\ sessions'[s] # NULL
       /\ [sessions'[s] EXCEPT !.data = sessions[s].data] = sessions[s]
       /\ SentByPatch("update_session", s, sessions[s], sessions'[s])
  /\ \A i \in Written(items) : items[i] # NULL =>
       /\ items'[i] # NULL
       /\ items'[i].sorting_session_id = items[i].sorting_session_id
       /\ SentByPatch("update_item", i, items[i], items'[i])
  /\ \A v \in Written(reviews) : reviews[v] # NULL =>
       /\ reviews'[v] # NULL
       /\ reviews'[v].sorting_session_id = reviews[v].sorting_session_id
       /\ SentByPatch("update_review", v, reviews[v], reviews'[v])
  /\ \A l \in Written(estimates) : estimates[l] = NULL
  /\ \A l \in Written(decisions) : decisions[l] = NULL

HistoryIsOnlyPatched == [][OnlyPatches]_vars

=============================================================================
