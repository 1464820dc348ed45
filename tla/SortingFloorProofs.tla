------------------------- MODULE SortingFloorProofs -------------------------
(***************************************************************************)
(* The floor hangs together, handlers write for their callers only and     *)
(* history is only patched, for any organizations, rows, bodies, requests. *)
(*                                                                         *)
(* Base   types; a handler that has not inserted its row owns none; what a *)
(*        suspended handler holds fits the tables (CallFits).  That stays  *)
(*        so because sessions and items are never deleted and never move.  *)
(***************************************************************************)
EXTENDS SortingFloor, TLAPS

\* The session is stored, and in an organization of the caller.
Seen(s, orgs) == s \in ListInOrgs(orgs)

\* The item is stored, and in this session.
ItemIn(i, s) == i \in ItemIds /\ items[i] # NULL /\ items[i].sorting_session_id = s

\* What a handler holds that is suspended at a call.
CallFits(at, c) ==
  /\ at = "create_session" =>
       c \in InsertCall(SessionRow) /\ SessionFits(c.row) /\ c.row.organization_id \in c.orgs
  /\ at = "update_session" => c \in SessionPatchCall
  /\ at = "create_item" => c \in InsertCall(ItemRow) /\ Seen(c.row.sorting_session_id, c.orgs)
  /\ at = "update_item" =>
       c \in ChildPatchCall(ItemIds) /\ \A s \in c.sessions : Seen(s, c.orgs)
  /\ at = "find_item" => c \in EstimateCall /\ \A s \in c.sessions : Seen(s, c.orgs)
  /\ at = "create_estimate" =>
       /\ c \in InsertCall(EstimateRow)
       /\ Seen(c.row.sorting_session_id, c.orgs)
       /\ ItemIn(c.row.sorted_item_id, c.row.sorting_session_id)
  /\ at \in {"find_decided_item", "create_decision"} =>
       c \in InsertCall(DecisionRow) /\ Seen(c.row.sorting_session_id, c.orgs)
  /\ at = "create_decision" /\ c.row.sorted_item_id # NULL =>
       ItemIn(c.row.sorted_item_id, c.row.sorting_session_id)
  /\ at = "create_review" => c \in InsertCall(ReviewRow) /\ Seen(c.row.sorting_session_id, c.orgs)
  /\ at = "update_review" =>
       c \in ChildPatchCall(ReviewIds) /\ \A s \in c.sessions : Seen(s, c.orgs)

LocalsFit == \A r \in Requests : CallFits(pc[r], call[r])

RowsAreOwned ==
  \A r \in Requests : pc[r] \in PcFloor \cup {"idle"} =>
    /\ sessions[r] = NULL /\ items[r] = NULL /\ reviews[r] = NULL
    /\ estimates[r] = NULL /\ decisions[r] = NULL

Base == TypeOK /\ RowsAreOwned /\ LocalsFit

Inv == Base /\ FloorHangsTogether

-----------------------------------------------------------------------------
(* What the operators do.                                                  *)

LEMMA NewDataIsData ==
  \A body \in CreateBodies, default \in Data : NewData(body, default) \in Data
  BY FloorAssumption DEF NewData, Data

LEMMA PatchedKeepsTypes ==
  ASSUME NEW body \in PatchBodies
  PROVE  /\ \A row \in SessionRow : Patched(row, body) \in SessionRow
         /\ \A row \in ItemRow : Patched(row, body) \in ItemRow
         /\ \A row \in ReviewRow : Patched(row, body) \in ReviewRow
<1>1. ASSUME NEW d \in Data
      PROVE  [k \in Columns |-> IF k \in DOMAIN body THEN body[k] ELSE d[k]] \in Data
  BY FloorAssumption DEF Data
<1>2. ASSUME NEW row \in SessionRow PROVE Patched(row, body) \in SessionRow
  BY <1>1 DEF Patched, SessionRow
<1>3. ASSUME NEW row \in ItemRow PROVE Patched(row, body) \in ItemRow
  BY <1>1 DEF Patched, ItemRow
<1>4. ASSUME NEW row \in ReviewRow PROVE Patched(row, body) \in ReviewRow
  BY <1>1 DEF Patched, ReviewRow
<1> QED
  BY <1>2, <1>3, <1>4

\* A patched row differs in its data only, and there as the body says.
LEMMA PatchedSession ==
  ASSUME NEW row \in SessionRow, NEW body
  PROVE  /\ Patched(row, body).organization_id = row.organization_id
         /\ Patched(row, body).donation_request_id = row.donation_request_id
         /\ Patched(row, body).intake_record_id = row.intake_record_id
  BY DEF Patched, SessionRow

LEMMA PatchedSessionRestored ==
  ASSUME NEW row \in SessionRow, NEW body
  PROVE  [Patched(row, body) EXCEPT !.data = row.data] = row
  BY DEF Patched, SessionRow

LEMMA PatchedChild ==
  ASSUME NEW row \in ItemRow \cup ReviewRow, NEW body
  PROVE  Patched(row, body).sorting_session_id = row.sorting_session_id
  BY DEF Patched, ItemRow, ReviewRow

LEMMA PatchedData ==
  ASSUME NEW row \in SessionRow \cup ItemRow \cup ReviewRow, NEW body, NEW k \in Columns
  PROVE  Patched(row, body).data[k] = IF k \in DOMAIN body THEN body[k] ELSE row.data[k]
<1>1. CASE row \in SessionRow
  BY <1>1 DEF Patched, SessionRow
<1>2. CASE row \in ItemRow \cup ReviewRow
  BY <1>2 DEF Patched, ItemRow, ReviewRow
<1> QED
  BY <1>1, <1>2

LEMMA SessionRefusalsAreErrors ==
  \A orgs, q, i : SessionRefusal(orgs, q, i) \in Errors \cup {"none"}
  BY DEF SessionRefusal, Errors

-----------------------------------------------------------------------------
(* Every step is one of these.                                             *)

Begins(r) ==
  /\ \E next \in PcFloor, c \in FloorCall : Begin(r, next, c) /\ CallFits(next, c)
  /\ UNCHANGED tables
FindsItem(r) ==
  /\ pc[r] = "find_item"
  /\ \E c \in FloorCall : AwaitWith(r, "create_estimate", c) /\ CallFits("create_estimate", c)
  /\ UNCHANGED tables
Decides(r) ==
  /\ pc[r] = "find_decided_item" /\ InDecidedSession(call[r])
  /\ Await(r, "create_decision") /\ UNCHANGED tables
Ends(r) == (\E code \in Errors \cup {"OK"} : Respond(r, code)) /\ UNCHANGED tables
PatchesSession(r) ==
  /\ pc[r] = "update_session" /\ call[r].id \in ListInOrgs(call[r].orgs)
  /\ sessions' = [sessions EXCEPT ![call[r].id] = Patched(@, call[r].body)]
  /\ Await(r, "respond") /\ UNCHANGED <<items, estimates, decisions, reviews>>
PatchesItem(r) ==
  /\ pc[r] = "update_item" /\ call[r].id \in InSessions(items, call[r].sessions)
  /\ items' = [items EXCEPT ![call[r].id] = Patched(@, call[r].body)]
  /\ Await(r, "respond") /\ UNCHANGED <<sessions, estimates, decisions, reviews>>
PatchesReview(r) ==
  /\ pc[r] = "update_review" /\ call[r].id \in InSessions(reviews, call[r].sessions)
  /\ reviews' = [reviews EXCEPT ![call[r].id] = Patched(@, call[r].body)]
  /\ Await(r, "respond") /\ UNCHANGED <<sessions, items, estimates, decisions>>
Inserts(r) ==
  CreateSession(r) \/ CreateItem(r) \/ CreateEstimate(r) \/ CreateDecision(r) \/ CreateReview(r)
Patches(r) == PatchesSession(r) \/ PatchesItem(r) \/ PatchesReview(r)

LEMMA ListedAreSeen ==
  \A orgs : /\ ListInOrgs(orgs) \subseteq SessionIds
            /\ \A s \in ListInOrgs(orgs) : Seen(s, orgs)
  BY DEF ListInOrgs, Seen

LEMMA SessionBegins ==
  ASSUME NEW r \in Requests, AcceptSession(r) \/ AcceptSessionPatch(r)
  PROVE  Begins(r)
<1>1. CASE AcceptSession(r)
  <2>1. PICK orgs \in CallerOrgSets, q \in DonationRequests, i \in Intakes, body \in CreateBodies :
          /\ SessionRefusal(orgs, q, i) = "none"
          /\ Begin(r, "create_session",
               [orgs |-> orgs,
                row |-> [organization_id |-> RequestOrg[q], donation_request_id |-> q,
                         intake_record_id |-> i, data |-> NewData(body, IntakeDefaults[i])]])
    BY <1>1 DEF AcceptSession
  <2> DEFINE new == [organization_id |-> RequestOrg[q], donation_request_id |-> q,
                     intake_record_id |-> i, data |-> NewData(body, IntakeDefaults[i])]
             c == [orgs |-> orgs, row |-> new]
  <2>2. NewData(body, IntakeDefaults[i]) \in Data
    BY NewDataIsData, FloorAssumption
  <2>3. new \in SessionRow
    BY <2>2, FloorAssumption DEF SessionRow
  <2>4. RequestOrg[q] \in orgs /\ IntakeRequest[i] = q
    BY <2>1 DEF SessionRefusal
  <2>5. c \in InsertCall(SessionRow)
    BY <2>3 DEF InsertCall
  <2>6. CallFits("create_session", c)
    BY <2>4, <2>5 DEF CallFits, SessionFits
  <2>7. c \in FloorCall
    BY <2>5 DEF FloorCall
  <2> QED
    BY <1>1, <2>1, <2>6, <2>7 DEF AcceptSession, Begins, PcFloor
<1>2. CASE AcceptSessionPatch(r)
  <2>1. PICK orgs \in CallerOrgSets, s \in SessionIds, body \in PatchBodies :
          Begin(r, "update_session", [orgs |-> orgs, id |-> s, body |-> body])
    BY <1>2 DEF AcceptSessionPatch
  <2> DEFINE c == [orgs |-> orgs, id |-> s, body |-> body]
  <2>2. c \in SessionPatchCall
    BY DEF SessionPatchCall
  <2>3. c \in FloorCall /\ CallFits("update_session", c)
    BY <2>2 DEF FloorCall, CallFits
  <2> QED
    BY <1>2, <2>1, <2>3 DEF AcceptSessionPatch, Begins, PcFloor
<1> QED
  BY <1>1, <1>2

\* A session in the caller's organizations is where a new row hangs.
LEMMA ChildBegins ==
  ASSUME NEW r \in Requests, AcceptItem(r) \/ AcceptDecision(r) \/ AcceptReview(r)
  PROVE  Begins(r)
<1>1. CASE AcceptItem(r)
  <2>0. PICK orgs \in CallerOrgSets : \E s \in ListInOrgs(orgs), body \in CreateBodies :
          Begin(r, "create_item",
             [orgs |-> orgs,
              row |-> [sorting_session_id |-> s, data |-> NewData(body, Omitted)]])
    BY <1>1 DEF AcceptItem
  <2>1. PICK s \in ListInOrgs(orgs), body \in CreateBodies :
          Begin(r, "create_item",
             [orgs |-> orgs,
              row |-> [sorting_session_id |-> s, data |-> NewData(body, Omitted)]])
    BY <2>0
  <2> DEFINE new == [sorting_session_id |-> s, data |-> NewData(body, Omitted)]
             c == [orgs |-> orgs, row |-> new]
  <2>2. new \in ItemRow
    BY NewDataIsData, FloorAssumption, ListedAreSeen DEF ItemRow
  <2>3. c \in InsertCall(ItemRow) /\ Seen(s, orgs)
    BY <2>2, ListedAreSeen DEF InsertCall
  <2>4. c \in FloorCall /\ CallFits("create_item", c)
    BY <2>3 DEF FloorCall, CallFits
  <2> QED
    BY <1>1, <2>1, <2>4 DEF AcceptItem, Begins, PcFloor
<1>2. CASE AcceptReview(r)
  <2>0. PICK orgs \in CallerOrgSets : \E s \in ListInOrgs(orgs), body \in CreateBodies :
          Begin(r, "create_review",
             [orgs |-> orgs,
              row |-> [sorting_session_id |-> s, data |-> NewData(body, Omitted)]])
    BY <1>2 DEF AcceptReview
  <2>1. PICK s \in ListInOrgs(orgs), body \in CreateBodies :
          Begin(r, "create_review",
             [orgs |-> orgs,
              row |-> [sorting_session_id |-> s, data |-> NewData(body, Omitted)]])
    BY <2>0
  <2> DEFINE new == [sorting_session_id |-> s, data |-> NewData(body, Omitted)]
             c == [orgs |-> orgs, row |-> new]
  <2>2. new \in ReviewRow
    BY NewDataIsData, FloorAssumption, ListedAreSeen DEF ReviewRow
  <2>3. c \in InsertCall(ReviewRow) /\ Seen(s, orgs)
    BY <2>2, ListedAreSeen DEF InsertCall
  <2>4. c \in FloorCall /\ CallFits("create_review", c)
    BY <2>3 DEF FloorCall, CallFits
  <2> QED
    BY <1>2, <2>1, <2>4 DEF AcceptReview, Begins, PcFloor
<1>3. CASE AcceptDecision(r)
  <2>0. PICK orgs \in CallerOrgSets : \E s \in ListInOrgs(orgs), i \in ItemIds \cup {NULL} :
          Begin(r, IF i = NULL THEN "create_decision" ELSE "find_decided_item",
             [orgs |-> orgs, row |-> [sorting_session_id |-> s, sorted_item_id |-> i]])
    BY <1>3 DEF AcceptDecision
  <2>1. PICK s \in ListInOrgs(orgs), i \in ItemIds \cup {NULL} :
          Begin(r, IF i = NULL THEN "create_decision" ELSE "find_decided_item",
             [orgs |-> orgs, row |-> [sorting_session_id |-> s, sorted_item_id |-> i]])
    BY <2>0
  <2> DEFINE new == [sorting_session_id |-> s, sorted_item_id |-> i]
             c == [orgs |-> orgs, row |-> new]
             next == IF i = NULL THEN "create_decision" ELSE "find_decided_item"
  <2>2. new \in DecisionRow
    BY ListedAreSeen DEF DecisionRow
  <2>3. c \in InsertCall(DecisionRow) /\ Seen(s, orgs)
    BY <2>2, ListedAreSeen DEF InsertCall
  <2>4. c \in FloorCall /\ CallFits(next, c)
    BY <2>3 DEF FloorCall, CallFits
  <2>5. next \in PcFloor
    BY DEF PcFloor
  <2> QED
    BY <1>3, <2>1, <2>4, <2>5 DEF AcceptDecision, Begins
<1> QED
  BY <1>1, <1>2, <1>3

\* The other handlers go by the list of the caller's sessions.
LEMMA ListingBegins ==
  ASSUME NEW r \in Requests, AcceptItemPatch(r) \/ AcceptEstimate(r) \/ AcceptReviewPatch(r)
  PROVE  Begins(r)
<1>1. CASE AcceptItemPatch(r)
  <2>1. PICK orgs \in CallerOrgSets, i \in ItemIds, body \in PatchBodies :
          Begin(r, "update_item",
             [orgs |-> orgs, sessions |-> ListInOrgs(orgs), id |-> i, body |-> body])
    BY <1>1 DEF AcceptItemPatch
  <2> DEFINE c == [orgs |-> orgs, sessions |-> ListInOrgs(orgs), id |-> i, body |-> body]
  <2>2. c \in ChildPatchCall(ItemIds)
    BY ListedAreSeen DEF ChildPatchCall
  <2>3. c \in FloorCall /\ CallFits("update_item", c)
    BY <2>2, ListedAreSeen DEF FloorCall, CallFits
  <2> QED
    BY <1>1, <2>1, <2>3 DEF AcceptItemPatch, Begins, PcFloor
<1>2. CASE AcceptReviewPatch(r)
  <2>1. PICK orgs \in CallerOrgSets, v \in ReviewIds, body \in PatchBodies :
          Begin(r, "update_review",
             [orgs |-> orgs, sessions |-> ListInOrgs(orgs), id |-> v, body |-> body])
    BY <1>2 DEF AcceptReviewPatch
  <2> DEFINE c == [orgs |-> orgs, sessions |-> ListInOrgs(orgs), id |-> v, body |-> body]
  <2>2. c \in ChildPatchCall(ReviewIds)
    BY ListedAreSeen DEF ChildPatchCall
  <2>3. c \in FloorCall /\ CallFits("update_review", c)
    BY <2>2, ListedAreSeen DEF FloorCall, CallFits
  <2> QED
    BY <1>2, <2>1, <2>3 DEF AcceptReviewPatch, Begins, PcFloor
<1>3. CASE AcceptEstimate(r)
  <2>1. PICK orgs \in CallerOrgSets, i \in ItemIds :
          Begin(r, "find_item", [orgs |-> orgs, sessions |-> ListInOrgs(orgs), id |-> i])
    BY <1>3 DEF AcceptEstimate
  <2> DEFINE c == [orgs |-> orgs, sessions |-> ListInOrgs(orgs), id |-> i]
  <2>2. c \in EstimateCall
    BY ListedAreSeen DEF EstimateCall
  <2>3. c \in FloorCall /\ CallFits("find_item", c)
    BY <2>2, ListedAreSeen DEF FloorCall, CallFits
  <2> QED
    BY <1>3, <2>1, <2>3 DEF AcceptEstimate, Begins, PcFloor
<1> QED
  BY <1>1, <1>2, <1>3

LEMMA FoundItem ==
  ASSUME Base, NEW r \in Requests, FindItem(r)
  PROVE  FindsItem(r) \/ Ends(r)
<1> DEFINE old == call[r]
           new == [sorting_session_id |-> items[old.id].sorting_session_id,
                   sorted_item_id |-> old.id]
           c == [orgs |-> old.orgs, row |-> new]
<1>1. old \in EstimateCall /\ \A s \in old.sessions : Seen(s, old.orgs)
  BY DEF FindItem, Base, LocalsFit, CallFits
<1>2. CASE old.id \notin InSessions(items, old.sessions)
  BY <1>2 DEF FindItem, Ends, Errors
<1>3. CASE old.id \in InSessions(items, old.sessions)
  <2>1. /\ old.id \in ItemIds /\ old.orgs \in CallerOrgSets
        /\ items[old.id] \in ItemRow
        /\ items[old.id].sorting_session_id \in old.sessions
        /\ items[old.id] # NULL
    BY <1>1, <1>3 DEF EstimateCall, InSessions, Base, TypeOK
  <2>2. new \in EstimateRow
    BY <2>1 DEF EstimateRow, ItemRow
  <2>3. c \in InsertCall(EstimateRow)
    BY <2>1, <2>2 DEF InsertCall
  <2>4. CallFits("create_estimate", c)
    BY <1>1, <2>1, <2>3 DEF CallFits, ItemIn
  <2>5. c \in FloorCall
    BY <2>3 DEF FloorCall
  <2> QED
    BY <1>3, <2>4, <2>5 DEF FindItem, FindsItem
<1> QED
  BY <1>2, <1>3

LEMMA StepShape ==
  ASSUME Base, [Next]_vars
  PROVE  \/ UNCHANGED vars
         \/ \E r \in Requests : \/ Begins(r) \/ FindsItem(r) \/ Decides(r) \/ Ends(r)
                                \/ Inserts(r) \/ Patches(r)
<1> SUFFICES ASSUME NEW r \in Requests,
                    \/ RefuseForeignSession(r) \/ RefuseSession(r)
                    \/ AcceptSession(r) \/ CreateSession(r)
                    \/ AcceptSessionPatch(r) \/ UpdateSession(r)
                    \/ AcceptItem(r) \/ CreateItem(r) \/ AcceptItemPatch(r) \/ UpdateItem(r)
                    \/ AcceptEstimate(r) \/ FindItem(r) \/ CreateEstimate(r)
                    \/ AcceptDecision(r) \/ FindDecidedItem(r) \/ CreateDecision(r)
                    \/ AcceptReview(r) \/ CreateReview(r)
                    \/ AcceptReviewPatch(r) \/ UpdateReview(r)
                    \/ Answer(r) \/ FailPendingCall(r)
             PROVE  \/ Begins(r) \/ FindsItem(r) \/ Decides(r) \/ Ends(r)
                    \/ Inserts(r) \/ Patches(r)
  BY DEF Next
<1>1. RefuseForeignSession(r) \/ RefuseSession(r) \/ Answer(r) \/ FailPendingCall(r) => Ends(r)
  BY SessionRefusalsAreErrors
     DEF RefuseForeignSession, RefuseSession, Answer, FailPendingCall, FailCall, Ends, Errors
<1>2. UpdateSession(r) => PatchesSession(r) \/ Ends(r)
  BY DEF UpdateSession, Updated, PatchesSession, Ends, Errors, tables
<1>3. UpdateItem(r) => PatchesItem(r) \/ Ends(r)
  BY DEF UpdateItem, Updated, PatchesItem, Ends, Errors, tables
<1>4. UpdateReview(r) => PatchesReview(r) \/ Ends(r)
  BY DEF UpdateReview, Updated, PatchesReview, Ends, Errors, tables
<1>5. FindDecidedItem(r) => Decides(r) \/ Ends(r)
  BY DEF FindDecidedItem, Decides, Ends, Errors
<1> QED
  BY <1>1, <1>2, <1>3, <1>4, <1>5, SessionBegins, ChildBegins, ListingBegins, FoundItem
     DEF Inserts, Patches

-----------------------------------------------------------------------------
(* What a step does to the tables.                                         *)

\* The one handler that moves is suspended at the call the step resolves.
LEMMA WriterIsAt ==
  ASSUME Base, NEW r \in Requests
  PROVE  /\ CreateSession(r) => pc[r] = "create_session" /\ pc'[r] = "respond"
         /\ CreateItem(r) => pc[r] = "create_item" /\ pc'[r] = "respond"
         /\ CreateEstimate(r) => pc[r] = "create_estimate" /\ pc'[r] = "respond"
         /\ CreateDecision(r) => pc[r] = "create_decision" /\ pc'[r] = "respond"
         /\ CreateReview(r) => pc[r] = "create_review" /\ pc'[r] = "respond"
         /\ PatchesSession(r) => pc[r] = "update_session" /\ pc'[r] = "respond"
         /\ PatchesItem(r) => pc[r] = "update_item" /\ pc'[r] = "respond"
         /\ PatchesReview(r) => pc[r] = "update_review" /\ pc'[r] = "respond"
  BY DEF Base, TypeOK, HandlersTyped, CreateSession, CreateItem, CreateEstimate,
     CreateDecision, CreateReview, PatchesSession, PatchesItem, PatchesReview, Await

\* A session that a step changes is new, or patched by a caller who sees it.
LEMMA SessionsNext ==
  ASSUME Base, [Next]_vars, NEW s \in SessionIds, sessions'[s] # sessions[s]
  PROVE  \/ /\ s \in Requests /\ CreateSession(s)
            /\ sessions[s] = NULL /\ sessions'[s] = call[s].row
         \/ \E r \in Requests :
              /\ PatchesSession(r) /\ call[r].id = s /\ Seen(s, call[r].orgs)
              /\ sessions[s] \in SessionRow /\ call[r].body \in PatchBodies
              /\ sessions'[s] = Patched(sessions[s], call[r].body)
<1>1. PICK r \in Requests : CreateSession(r) \/ PatchesSession(r)
  BY StepShape DEF vars, tables, Begins, FindsItem, Decides, Ends, Inserts, Patches, CreateItem,
     CreateEstimate, CreateDecision, CreateReview, PatchesItem, PatchesReview
<1>2. CASE CreateSession(r)
  <2>1. sessions' = [sessions EXCEPT ![r] = call[r].row] /\ pc[r] = "create_session"
    BY <1>2 DEF CreateSession
  <2>2. s = r
    BY <2>1 DEF Base, TypeOK
  <2> QED
    BY <1>2, <2>1, <2>2 DEF Base, TypeOK, RowsAreOwned, PcFloor
<1>3. CASE PatchesSession(r)
  <2> DEFINE c == call[r]
  <2>1. /\ sessions' = [sessions EXCEPT ![c.id] = Patched(sessions[c.id], c.body)]
        /\ c.id \in ListInOrgs(c.orgs)
        /\ c \in SessionPatchCall
    BY <1>3 DEF PatchesSession, Base, LocalsFit, CallFits
  <2>2. s = c.id
    BY <2>1 DEF Base, TypeOK
  <2>3. sessions[s] \in SessionRow
    BY <2>1, <2>2 DEF ListInOrgs, Base, TypeOK
  <2> QED
    BY <1>3, <2>1, <2>2, <2>3 DEF Seen, SessionPatchCall, Base, TypeOK
<1> QED
  BY <1>1, <1>2, <1>3

LEMMA ItemsNext ==
  ASSUME Base, [Next]_vars, NEW i \in ItemIds, items'[i] # items[i]
  PROVE  \/ /\ i \in Requests /\ CreateItem(i)
            /\ items[i] = NULL /\ items'[i] = call[i].row
         \/ \E r \in Requests :
              /\ PatchesItem(r) /\ call[r].id = i
              /\ Seen(items[i].sorting_session_id, call[r].orgs)
              /\ items[i] \in ItemRow /\ call[r].body \in PatchBodies
              /\ items'[i] = Patched(items[i], call[r].body)
<1>1. PICK r \in Requests : CreateItem(r) \/ PatchesItem(r)
  BY StepShape DEF vars, tables, Begins, FindsItem, Decides, Ends, Inserts, Patches,
     CreateSession, CreateEstimate, CreateDecision, CreateReview, PatchesSession, PatchesReview
<1>2. CASE CreateItem(r)
  <2>1. items' = [items EXCEPT ![r] = call[r].row] /\ pc[r] = "create_item"
    BY <1>2 DEF CreateItem
  <2>2. i = r
    BY <2>1 DEF Base, TypeOK
  <2> QED
    BY <1>2, <2>1, <2>2 DEF Base, TypeOK, RowsAreOwned, PcFloor
<1>3. CASE PatchesItem(r)
  <2> DEFINE c == call[r]
  <2>1. /\ items' = [items EXCEPT ![c.id] = Patched(items[c.id], c.body)]
        /\ c.id \in InSessions(items, c.sessions)
        /\ c \in ChildPatchCall(ItemIds) /\ \A s \in c.sessions : Seen(s, c.orgs)
    BY <1>3 DEF PatchesItem, Base, LocalsFit, CallFits
  <2>2. i = c.id
    BY <2>1 DEF Base, TypeOK
  <2>3. items[i] \in ItemRow /\ items[i].sorting_session_id \in c.sessions
    BY <2>1, <2>2 DEF InSessions, Base, TypeOK
  <2> QED
    BY <1>3, <2>1, <2>2, <2>3 DEF ChildPatchCall, Base, TypeOK
<1> QED
  BY <1>1, <1>2, <1>3

LEMMA ReviewsNext ==
  ASSUME Base, [Next]_vars, NEW v \in ReviewIds, reviews'[v] # reviews[v]
  PROVE  \/ /\ v \in Requests /\ CreateReview(v)
            /\ reviews[v] = NULL /\ reviews'[v] = call[v].row
         \/ \E r \in Requests :
              /\ PatchesReview(r) /\ call[r].id = v
              /\ Seen(reviews[v].sorting_session_id, call[r].orgs)
              /\ reviews[v] \in ReviewRow /\ call[r].body \in PatchBodies
              /\ reviews'[v] = Patched(reviews[v], call[r].body)
<1>1. PICK r \in Requests : CreateReview(r) \/ PatchesReview(r)
  BY StepShape DEF vars, tables, Begins, FindsItem, Decides, Ends, Inserts, Patches,
     CreateSession, CreateItem, CreateEstimate, CreateDecision, PatchesSession, PatchesItem
<1>2. CASE CreateReview(r)
  <2>1. reviews' = [reviews EXCEPT ![r] = call[r].row] /\ pc[r] = "create_review"
    BY <1>2 DEF CreateReview
  <2>2. v = r
    BY <2>1 DEF Base, TypeOK
  <2> QED
    BY <1>2, <2>1, <2>2 DEF Base, TypeOK, RowsAreOwned, PcFloor
<1>3. CASE PatchesReview(r)
  <2> DEFINE c == call[r]
  <2>1. /\ reviews' = [reviews EXCEPT ![c.id] = Patched(reviews[c.id], c.body)]
        /\ c.id \in InSessions(reviews, c.sessions)
        /\ c \in ChildPatchCall(ReviewIds) /\ \A s \in c.sessions : Seen(s, c.orgs)
    BY <1>3 DEF PatchesReview, Base, LocalsFit, CallFits
  <2>2. v = c.id
    BY <2>1 DEF Base, TypeOK
  <2>3. reviews[v] \in ReviewRow /\ reviews[v].sorting_session_id \in c.sessions
    BY <2>1, <2>2 DEF InSessions, Base, TypeOK
  <2> QED
    BY <1>3, <2>1, <2>2, <2>3 DEF ChildPatchCall, Base, TypeOK
<1> QED
  BY <1>1, <1>2, <1>3

LEMMA EstimatesNext ==
  ASSUME Base, [Next]_vars, NEW e \in Requests, estimates'[e] # estimates[e]
  PROVE  CreateEstimate(e) /\ estimates[e] = NULL /\ estimates'[e] = call[e].row
<1>1. PICK r \in Requests : CreateEstimate(r)
  BY StepShape DEF vars, tables, Begins, FindsItem, Decides, Ends, Inserts, Patches,
     CreateSession, CreateItem, CreateDecision, CreateReview,
     PatchesSession, PatchesItem, PatchesReview
<1>2. estimates' = [estimates EXCEPT ![r] = call[r].row] /\ pc[r] = "create_estimate"
  BY <1>1 DEF CreateEstimate
<1>3. e = r
  BY <1>2 DEF Base, TypeOK
<1> QED
  BY <1>1, <1>2, <1>3 DEF Base, TypeOK, RowsAreOwned, PcFloor

LEMMA DecisionsNext ==
  ASSUME Base, [Next]_vars, NEW d \in Requests, decisions'[d] # decisions[d]
  PROVE  CreateDecision(d) /\ decisions[d] = NULL /\ decisions'[d] = call[d].row
<1>1. PICK r \in Requests : CreateDecision(r)
  BY StepShape DEF vars, tables, Begins, FindsItem, Decides, Ends, Inserts, Patches,
     CreateSession, CreateItem, CreateEstimate, CreateReview,
     PatchesSession, PatchesItem, PatchesReview
<1>2. decisions' = [decisions EXCEPT ![r] = call[r].row] /\ pc[r] = "create_decision"
  BY <1>1 DEF CreateDecision
<1>3. d = r
  BY <1>2 DEF Base, TypeOK
<1> QED
  BY <1>1, <1>2, <1>3 DEF Base, TypeOK, RowsAreOwned, PcFloor

\* What a handler holds that inserts a row.
LEMMA InsertedRowFits ==
  ASSUME Base, NEW r \in Requests
  PROVE  /\ CreateSession(r) =>
              /\ call[r].row \in SessionRow /\ SessionFits(call[r].row)
              /\ call[r].row.organization_id \in call[r].orgs
         /\ CreateItem(r) =>
              call[r].row \in ItemRow /\ Seen(call[r].row.sorting_session_id, call[r].orgs)
         /\ CreateReview(r) =>
              call[r].row \in ReviewRow /\ Seen(call[r].row.sorting_session_id, call[r].orgs)
         /\ CreateEstimate(r) =>
              /\ call[r].row \in EstimateRow
              /\ Seen(call[r].row.sorting_session_id, call[r].orgs)
              /\ ItemIn(call[r].row.sorted_item_id, call[r].row.sorting_session_id)
         /\ CreateDecision(r) =>
              /\ call[r].row \in DecisionRow
              /\ Seen(call[r].row.sorting_session_id, call[r].orgs)
              /\ call[r].row.sorted_item_id # NULL =>
                   ItemIn(call[r].row.sorted_item_id, call[r].row.sorting_session_id)
<1>1. CallFits(pc[r], call[r])
  BY DEF Base, LocalsFit
<1> QED
  BY <1>1, WriterIsAt DEF CallFits, InsertCall

-----------------------------------------------------------------------------
(* Sessions and items are never deleted and never move.                    *)

LEMMA SessionsStay ==
  ASSUME Base, [Next]_vars, NEW s \in SessionIds, sessions[s] # NULL
  PROVE  /\ sessions'[s] # NULL
         /\ sessions'[s].organization_id = sessions[s].organization_id
         /\ SessionFits(sessions[s]) => SessionFits(sessions'[s])
<1>1. CASE sessions'[s] = sessions[s]
  BY <1>1
<1>2. CASE sessions'[s] # sessions[s]
  <2>1. PICK body \in PatchBodies :
          sessions[s] \in SessionRow /\ sessions'[s] = Patched(sessions[s], body)
    BY <1>2, SessionsNext
  <2>2. Patched(sessions[s], body) # NULL
    BY <2>1, PatchedKeepsTypes, FloorNullAssumption
  <2> DEFINE new == Patched(sessions[s], body)
  <2>3. /\ new.organization_id = sessions[s].organization_id
        /\ new.donation_request_id = sessions[s].donation_request_id
        /\ new.intake_record_id = sessions[s].intake_record_id
    BY <2>1, PatchedSession
  <2>4. SessionFits(sessions[s]) => SessionFits(new)
    BY <2>3 DEF SessionFits
  <2> QED
    BY <2>1, <2>2, <2>3, <2>4
<1> QED
  BY <1>1, <1>2

LEMMA ItemsStay ==
  ASSUME Base, [Next]_vars, NEW i, NEW s, ItemIn(i, s)
  PROVE  ItemIn(i, s)'
<1>1. i \in ItemIds /\ items[i] # NULL /\ items[i].sorting_session_id = s
  BY DEF ItemIn
<1>2. CASE items'[i] = items[i]
  BY <1>1, <1>2 DEF ItemIn
<1>3. CASE items'[i] # items[i]
  <2>1. PICK body \in PatchBodies :
          items[i] \in ItemRow /\ items'[i] = Patched(items[i], body)
    BY <1>1, <1>3, ItemsNext
  <2>2. Patched(items[i], body) # NULL
    BY <2>1, PatchedKeepsTypes, FloorNullAssumption
  <2>3. Patched(items[i], body).sorting_session_id = items[i].sorting_session_id
    BY <2>1, PatchedChild
  <2> QED
    BY <1>1, <2>1, <2>2, <2>3 DEF ItemIn
<1> QED
  BY <1>2, <1>3

LEMMA SeenStays ==
  ASSUME Base, [Next]_vars, NEW s, NEW orgs, Seen(s, orgs)
  PROVE  Seen(s, orgs)'
  BY SessionsStay DEF Seen, ListInOrgs

LEMMA CallStillFits ==
  ASSUME Base, [Next]_vars, NEW at, NEW c, CallFits(at, c)
  PROVE  CallFits(at, c)'
<1>1. \A s, orgs : Seen(s, orgs) => Seen(s, orgs)'
  BY SeenStays
<1>2. \A i, s : ItemIn(i, s) => ItemIn(i, s)'
  BY ItemsStay
<1> QED
  BY <1>1, <1>2 DEF CallFits, SessionFits

-----------------------------------------------------------------------------
(* Base.                                                                   *)

LEMMA BaseAtFirst == Init => Base
<1> SUFFICES ASSUME Init PROVE Base
  OBVIOUS
<1>1. TypeOK
  <2>1. sessions \in [SessionIds -> SessionRow \cup {NULL}]
    BY OldRowsAssumption DEF Init, Stored
  <2>2. items \in [ItemIds -> ItemRow \cup {NULL}]
    BY OldRowsAssumption DEF Init, Stored
  <2>3. reviews \in [ReviewIds -> ReviewRow \cup {NULL}]
    BY OldRowsAssumption DEF Init, Stored
  <2> QED
    BY <2>1, <2>2, <2>3 DEF Init, TypeOK, InitHandlers, HandlersTyped, Errors
<1>2. RowsAreOwned
  BY OldRowsAssumption DEF Init, RowsAreOwned, Stored, SessionIds, ItemIds, ReviewIds
<1>3. LocalsFit
  BY DEF Init, InitHandlers, LocalsFit, CallFits
<1> QED
  BY <1>1, <1>2, <1>3 DEF Base

\* A handler that writes goes on to its answer with what it held.
LEMMA WritersGoOn ==
  ASSUME NEW r \in Requests, Inserts(r) \/ Patches(r)
  PROVE  Await(r, "respond")
  BY DEF Inserts, Patches, CreateSession, CreateItem, CreateEstimate, CreateDecision,
     CreateReview, PatchesSession, PatchesItem, PatchesReview

LEMMA HandlersStayTyped ==
  ASSUME Base, [Next]_vars
  PROVE  HandlersTyped(PcFloor, FloorCall)'
<1> USE DEF Base, TypeOK
<1>1. CASE UNCHANGED vars
  BY <1>1 DEF vars, HandlersTyped
<1>2. ASSUME NEW r \in Requests, Begins(r) PROVE HandlersTyped(PcFloor, FloorCall)'
  BY <1>2 DEF Begins, Begin, HandlersTyped
<1>3. ASSUME NEW r \in Requests, FindsItem(r) PROVE HandlersTyped(PcFloor, FloorCall)'
  BY <1>3 DEF FindsItem, AwaitWith, HandlersTyped, PcFloor
<1>4. ASSUME NEW r \in Requests, Decides(r) PROVE HandlersTyped(PcFloor, FloorCall)'
  BY <1>4 DEF Decides, Await, HandlersTyped, PcFloor
<1>5. ASSUME NEW r \in Requests, Ends(r) PROVE HandlersTyped(PcFloor, FloorCall)'
  BY <1>5 DEF Ends, Respond, HandlersTyped
<1>6. ASSUME NEW r \in Requests, Inserts(r) \/ Patches(r)
      PROVE  HandlersTyped(PcFloor, FloorCall)'
  BY <1>6, WritersGoOn DEF Await, HandlersTyped
<1> QED
  BY <1>1, <1>2, <1>3, <1>4, <1>5, <1>6, StepShape

\* A step writes rows of the types, and changes the domain of no table.
LEMMA TablesStayFunctions ==
  ASSUME Base, [Next]_vars
  PROVE  /\ DOMAIN sessions' = SessionIds /\ sessions' = [l \in SessionIds |-> sessions'[l]]
         /\ DOMAIN items' = ItemIds /\ items' = [l \in ItemIds |-> items'[l]]
         /\ DOMAIN estimates' = Requests /\ estimates' = [l \in Requests |-> estimates'[l]]
         /\ DOMAIN decisions' = Requests /\ decisions' = [l \in Requests |-> decisions'[l]]
         /\ DOMAIN reviews' = ReviewIds /\ reviews' = [l \in ReviewIds |-> reviews'[l]]
<1> USE DEF Base, TypeOK
<1>1. CASE UNCHANGED tables
  BY <1>1 DEF tables
<1>2. ASSUME NEW r \in Requests, Inserts(r)
      PROVE  /\ sessions' \in {sessions, [sessions EXCEPT ![r] = call[r].row]}
             /\ items' \in {items, [items EXCEPT ![r] = call[r].row]}
             /\ estimates' \in {estimates, [estimates EXCEPT ![r] = call[r].row]}
             /\ decisions' \in {decisions, [decisions EXCEPT ![r] = call[r].row]}
             /\ reviews' \in {reviews, [reviews EXCEPT ![r] = call[r].row]}
  BY <1>2 DEF Inserts, CreateSession, CreateItem, CreateEstimate, CreateDecision, CreateReview
<1>3. ASSUME NEW r \in Requests, Patches(r)
      PROVE  LET id == call[r].id
                 body == call[r].body
             IN /\ sessions' \in {sessions, [sessions EXCEPT ![id] = Patched(@, body)]}
                /\ items' \in {items, [items EXCEPT ![id] = Patched(@, body)]}
                /\ reviews' \in {reviews, [reviews EXCEPT ![id] = Patched(@, body)]}
                /\ estimates' = estimates /\ decisions' = decisions
  BY <1>3 DEF Patches, PatchesSession, PatchesItem, PatchesReview
<1>4. CASE UNCHANGED vars
  BY <1>1, <1>4 DEF vars, tables
<1>5. ASSUME NEW r \in Requests, Begins(r) \/ FindsItem(r) \/ Decides(r) \/ Ends(r)
      PROVE  UNCHANGED tables
  BY <1>5 DEF Begins, FindsItem, Decides, Ends
<1> QED
  BY <1>1, <1>2, <1>3, <1>4, <1>5, StepShape

LEMMA TypeOKIsKept ==
  ASSUME Base, [Next]_vars
  PROVE  TypeOK'
<1>1. ASSUME NEW s \in SessionIds PROVE sessions'[s] \in SessionRow \cup {NULL}
  BY <1>1, SessionsNext, InsertedRowFits, PatchedKeepsTypes DEF Base, TypeOK
<1>2. ASSUME NEW i \in ItemIds PROVE items'[i] \in ItemRow \cup {NULL}
  BY <1>2, ItemsNext, InsertedRowFits, PatchedKeepsTypes DEF Base, TypeOK
<1>3. ASSUME NEW v \in ReviewIds PROVE reviews'[v] \in ReviewRow \cup {NULL}
  BY <1>3, ReviewsNext, InsertedRowFits, PatchedKeepsTypes DEF Base, TypeOK
<1>4. ASSUME NEW e \in Requests PROVE estimates'[e] \in EstimateRow \cup {NULL}
  BY <1>4, EstimatesNext, InsertedRowFits DEF Base, TypeOK
<1>5. ASSUME NEW d \in Requests PROVE decisions'[d] \in DecisionRow \cup {NULL}
  BY <1>5, DecisionsNext, InsertedRowFits DEF Base, TypeOK
<1> QED
  BY <1>1, <1>2, <1>3, <1>4, <1>5, TablesStayFunctions, HandlersStayTyped DEF TypeOK

LEMMA RowsAreOwnedIsKept ==
  ASSUME Base, [Next]_vars
  PROVE  RowsAreOwned'
<1> SUFFICES ASSUME NEW r \in Requests, pc'[r] \in PcFloor \cup {"idle"}
             PROVE  /\ sessions'[r] = NULL /\ items'[r] = NULL /\ reviews'[r] = NULL
                    /\ estimates'[r] = NULL /\ decisions'[r] = NULL
  BY DEF RowsAreOwned
<1>1. pc[r] \in PcFloor \cup {"idle"}
  BY StepShape, WritersGoOn DEF Base, TypeOK, HandlersTyped, PcFloor, vars,
     Begins, FindsItem, Decides, Ends, Begin, Await, AwaitWith, Respond
<1>2. /\ sessions[r] = NULL /\ items[r] = NULL /\ reviews[r] = NULL
      /\ estimates[r] = NULL /\ decisions[r] = NULL
  BY <1>1 DEF Base, RowsAreOwned
<1>3. r \in SessionIds /\ r \in ItemIds /\ r \in ReviewIds
  BY DEF SessionIds, ItemIds, ReviewIds
<1>4. /\ ~CreateSession(r) /\ ~CreateItem(r) /\ ~CreateReview(r)
      /\ ~CreateEstimate(r) /\ ~CreateDecision(r)
  BY WriterIsAt DEF PcFloor
<1>5. NULL \notin SessionRow \cup ItemRow \cup ReviewRow
  BY FloorNullAssumption
<1>6. sessions'[r] = NULL
  BY <1>2, <1>3, <1>4, <1>5, SessionsNext
<1>7. items'[r] = NULL
  BY <1>2, <1>3, <1>4, <1>5, ItemsNext
<1>8. reviews'[r] = NULL
  BY <1>2, <1>3, <1>4, <1>5, ReviewsNext
<1>9. estimates'[r] = NULL /\ decisions'[r] = NULL
  BY <1>2, <1>4, EstimatesNext, DecisionsNext
<1> QED
  BY <1>6, <1>7, <1>8, <1>9

LEMMA LocalsFitIsKept ==
  ASSUME Base, [Next]_vars
  PROVE  LocalsFit'
<1> SUFFICES ASSUME NEW r \in Requests
             PROVE  CallFits(pc[r], call[r])'
  BY DEF LocalsFit
<1>1. CallFits(pc[r], call[r])
  BY DEF Base, LocalsFit
<1>2. CASE pc'[r] \in {"respond", "done"}
  BY <1>2 DEF CallFits
<1>3. CASE \E at, c : at = pc'[r] /\ c = call'[r] /\ CallFits(at, c)
  <2>1. PICK at, c : at = pc'[r] /\ c = call'[r] /\ CallFits(at, c)
    BY <1>3
  <2>2. CallFits(at, c)'
    BY <2>1, CallStillFits
  <2> QED
    BY <2>1, <2>2 DEF CallFits
<1>4. CASE pc'[r] = pc[r] /\ call'[r] = call[r]
  BY <1>1, <1>3, <1>4
<1>5. CASE Begins(r) \/ FindsItem(r)
  <2>1. \E at, c : at = pc'[r] /\ c = call'[r] /\ CallFits(at, c)
    BY <1>5 DEF Begins, FindsItem, Begin, AwaitWith, Base, TypeOK, HandlersTyped
  <2> QED
    BY <1>3, <2>1
<1>6. CASE Decides(r)
  <2>1. /\ pc[r] = "find_decided_item" /\ pc'[r] = "create_decision" /\ call'[r] = call[r]
        /\ call[r].row.sorted_item_id \in InSessions(items, {call[r].row.sorting_session_id})
    BY <1>6 DEF Decides, InDecidedSession, Await, Base, TypeOK, HandlersTyped
  <2>2. ItemIn(call[r].row.sorted_item_id, call[r].row.sorting_session_id)
    BY <2>1 DEF InSessions, ItemIn, Base, TypeOK
  <2>3. CallFits("create_decision", call[r])
    BY <1>1, <2>1, <2>2 DEF CallFits
  <2> QED
    BY <1>3, <2>1, <2>3
<1> QED
  BY <1>2, <1>4, <1>5, <1>6, StepShape, WritersGoOn
     DEF Base, TypeOK, HandlersTyped, vars, Begins, FindsItem, Decides, Ends,
         Begin, Await, AwaitWith, Respond

LEMMA BaseIsKept ==
  ASSUME Base, [Next]_vars
  PROVE  Base'
  BY TypeOKIsKept, RowsAreOwnedIsKept, LocalsFitIsKept DEF Base

-----------------------------------------------------------------------------
(* The floor hangs together.                                               *)

LEMMA HangsTogetherAtFirst == Init => FloorHangsTogether
<1> SUFFICES ASSUME Init PROVE FloorHangsTogether
  OBVIOUS
<1>1. \A s \in SessionIds : sessions[s] # NULL => SessionFits(sessions[s])
  BY OldRowsAssumption DEF Init, Stored
<1>2. \A s \in DOMAIN OldSessions : s \in SessionIds /\ sessions[s] # NULL
  BY OldRowsAssumption, FloorNullAssumption DEF Init, Stored, SessionIds
<1>3. \A i \in ItemIds : items[i] # NULL => sessions[items[i].sorting_session_id] # NULL
  BY <1>2, OldRowsAssumption DEF Init, Stored
<1>4. \A v \in ReviewIds : reviews[v] # NULL => sessions[reviews[v].sorting_session_id] # NULL
  BY <1>2, OldRowsAssumption DEF Init, Stored
<1> QED
  BY <1>1, <1>3, <1>4 DEF Init, FloorHangsTogether

LEMMA SeenIsStored == \A s, orgs : Seen(s, orgs) => s \in SessionIds /\ sessions[s] # NULL
  BY DEF Seen, ListInOrgs

\* A row whose session is unchanged or seen by the caller hangs from one.
LEMMA ChildrenStayHung ==
  ASSUME Base, FloorHangsTogether, [Next]_vars
  PROVE  /\ \A i \in ItemIds : items'[i] # NULL => sessions'[items'[i].sorting_session_id] # NULL
         /\ \A v \in ReviewIds :
              reviews'[v] # NULL => sessions'[reviews'[v].sorting_session_id] # NULL
<1>1. ASSUME NEW s \in SessionIds, sessions[s] # NULL PROVE sessions'[s] # NULL
  BY <1>1, SessionsStay
<1>2. ASSUME NEW i \in ItemIds, items'[i] # NULL
      PROVE  sessions'[items'[i].sorting_session_id] # NULL
  <2>1. CASE items'[i] = items[i]
    <3>1. items[i].sorting_session_id \in SessionIds
      BY <1>2, <2>1 DEF Base, TypeOK, ItemRow
    <3> QED
      BY <1>1, <1>2, <2>1, <3>1 DEF FloorHangsTogether
  <2>2. CASE i \in Requests /\ CreateItem(i) /\ items'[i] = call[i].row
    BY <1>1, <2>2, InsertedRowFits, SeenIsStored
  <2>3. CASE \E r \in Requests : \E body :
               /\ Seen(items[i].sorting_session_id, call[r].orgs)
               /\ items[i] \in ItemRow /\ items'[i] = Patched(items[i], body)
    BY <1>1, <2>3, PatchedChild, SeenIsStored
  <2> QED
    BY <1>2, <2>1, <2>2, <2>3, ItemsNext
<1>3. ASSUME NEW v \in ReviewIds, reviews'[v] # NULL
      PROVE  sessions'[reviews'[v].sorting_session_id] # NULL
  <2>1. CASE reviews'[v] = reviews[v]
    <3>1. reviews[v].sorting_session_id \in SessionIds
      BY <1>3, <2>1 DEF Base, TypeOK, ReviewRow
    <3> QED
      BY <1>1, <1>3, <2>1, <3>1 DEF FloorHangsTogether
  <2>2. CASE v \in Requests /\ CreateReview(v) /\ reviews'[v] = call[v].row
    BY <1>1, <2>2, InsertedRowFits, SeenIsStored
  <2>3. CASE \E r \in Requests : \E body :
               /\ Seen(reviews[v].sorting_session_id, call[r].orgs)
               /\ reviews[v] \in ReviewRow /\ reviews'[v] = Patched(reviews[v], body)
    BY <1>1, <2>3, PatchedChild, SeenIsStored
  <2> QED
    BY <1>3, <2>1, <2>2, <2>3, ReviewsNext
<1> QED
  BY <1>2, <1>3

LEMMA HangsTogetherIsKept ==
  ASSUME Base, FloorHangsTogether, [Next]_vars
  PROVE  FloorHangsTogether'
<1>1. ASSUME NEW s \in SessionIds, sessions'[s] # NULL PROVE SessionFits(sessions'[s])
  <2>1. CASE sessions[s] # NULL
    BY <1>1, <2>1, SessionsStay DEF FloorHangsTogether
  <2>2. CASE sessions[s] = NULL
    <3>1. s \in Requests /\ CreateSession(s) /\ sessions'[s] = call[s].row
      BY <1>1, <2>2, SessionsNext, FloorNullAssumption
    <3> QED
      BY <3>1, InsertedRowFits
  <2> QED
    BY <2>1, <2>2
<1>2. ASSUME NEW e \in Requests, estimates'[e] # NULL
      PROVE  \E i, s : /\ i = estimates'[e].sorted_item_id
                       /\ s = estimates'[e].sorting_session_id
                       /\ ItemIn(i, s)'
  <2>1. \E i, s : /\ i = estimates'[e].sorted_item_id
                  /\ s = estimates'[e].sorting_session_id
                  /\ ItemIn(i, s)
    <3>1. CASE estimates'[e] = estimates[e]
      BY <1>2, <3>1 DEF ItemIn, FloorHangsTogether, Base, TypeOK, EstimateRow
    <3>2. CASE estimates'[e] # estimates[e]
      BY <3>2, EstimatesNext, InsertedRowFits
    <3> QED
      BY <3>1, <3>2
  <2> QED
    BY <2>1, ItemsStay
<1>3. ASSUME NEW d \in Requests, decisions'[d] # NULL
      PROVE  sessions'[decisions'[d].sorting_session_id] # NULL
  <2>1. /\ decisions'[d].sorting_session_id \in SessionIds
        /\ sessions[decisions'[d].sorting_session_id] # NULL
    <3>1. CASE decisions'[d] = decisions[d]
      BY <1>3, <3>1 DEF FloorHangsTogether, Base, TypeOK, DecisionRow
    <3>2. CASE decisions'[d] # decisions[d]
      BY <3>2, DecisionsNext, InsertedRowFits, SeenIsStored
    <3> QED
      BY <3>1, <3>2
  <2> QED
    BY <2>1, SessionsStay
<1>4. ASSUME NEW d \in Requests, decisions'[d] # NULL, decisions'[d].sorted_item_id # NULL
      PROVE  \E i, s : /\ i = decisions'[d].sorted_item_id
                       /\ s = decisions'[d].sorting_session_id
                       /\ ItemIn(i, s)'
  <2>1. \E i, s : /\ i = decisions'[d].sorted_item_id
                  /\ s = decisions'[d].sorting_session_id
                  /\ ItemIn(i, s)
    <3>1. CASE decisions'[d] = decisions[d]
      BY <1>4, <3>1 DEF ItemIn, FloorHangsTogether, Base, TypeOK, DecisionRow
    <3>2. CASE decisions'[d] # decisions[d]
      BY <1>4, <3>2, DecisionsNext, InsertedRowFits
    <3> QED
      BY <3>1, <3>2
  <2> QED
    BY <2>1, ItemsStay
<1> QED
  BY <1>1, <1>2, <1>3, <1>4, ChildrenStayHung DEF FloorHangsTogether, ItemIn

-----------------------------------------------------------------------------
(* What steps may do.                                                      *)

\* The handler that writes a row is the one that moves.
LEMMA WritesAreForCallers ==
  ASSUME Inv, [Next]_vars
  PROVE  WritesForCallers
<1> USE DEF Inv
<1>0. /\ DOMAIN sessions = SessionIds /\ DOMAIN items = ItemIds /\ DOMAIN reviews = ReviewIds
      /\ DOMAIN estimates = Requests /\ DOMAIN decisions = Requests
  BY DEF Base, TypeOK
<1>1. ASSUME NEW s \in SessionIds, sessions'[s] # sessions[s]
      PROVE  WrittenFor(sessions'[s].organization_id)
  <2>1. CASE s \in Requests /\ CreateSession(s) /\ sessions'[s] = call[s].row
    BY <2>1, WriterIsAt, InsertedRowFits DEF WrittenFor
  <2>2. CASE \E r \in Requests : PatchesSession(r) /\ Seen(s, call[r].orgs)
    <3>1. PICK r \in Requests : PatchesSession(r) /\ Seen(s, call[r].orgs)
      BY <2>2
    <3>2. sessions[s] # NULL /\ sessions[s].organization_id \in call[r].orgs
      BY <3>1 DEF Seen, ListInOrgs
    <3>3. sessions'[s].organization_id = sessions[s].organization_id
      BY <3>2, SessionsStay
    <3> QED
      BY <3>1, <3>2, <3>3, WriterIsAt DEF WrittenFor
  <2> QED
    BY <1>1, <2>1, <2>2, SessionsNext
<1>2. ASSUME NEW s, NEW r \in Requests, Inserts(r) \/ Patches(r), Seen(s, call[r].orgs)
      PROVE  WrittenFor(sessions[s].organization_id)
  <2>1. pc'[r] # pc[r]
    BY <1>2, WriterIsAt DEF Inserts, Patches
  <2> QED
    BY <1>2, <2>1 DEF WrittenFor, Seen, ListInOrgs
<1>3. ASSUME NEW i \in ItemIds, items'[i] # items[i]
      PROVE  WrittenFor(sessions[items'[i].sorting_session_id].organization_id)
  <2>1. CASE i \in Requests /\ CreateItem(i) /\ items'[i] = call[i].row
    BY <1>2, <2>1, InsertedRowFits DEF Inserts
  <2>2. CASE \E r \in Requests : \E body :
               /\ PatchesItem(r) /\ Seen(items[i].sorting_session_id, call[r].orgs)
               /\ items[i] \in ItemRow /\ items'[i] = Patched(items[i], body)
    <3>1. items'[i].sorting_session_id = items[i].sorting_session_id
      BY <2>2, PatchedChild
    <3>2. WrittenFor(sessions[items[i].sorting_session_id].organization_id)
      BY <1>2, <2>2 DEF Patches
    <3> QED
      BY <3>1, <3>2
  <2> QED
    BY <1>3, <2>1, <2>2, ItemsNext
<1>4. ASSUME NEW v \in ReviewIds, reviews'[v] # reviews[v]
      PROVE  WrittenFor(sessions[reviews'[v].sorting_session_id].organization_id)
  <2>1. CASE v \in Requests /\ CreateReview(v) /\ reviews'[v] = call[v].row
    BY <1>2, <2>1, InsertedRowFits DEF Inserts
  <2>2. CASE \E r \in Requests : \E body :
               /\ PatchesReview(r) /\ Seen(reviews[v].sorting_session_id, call[r].orgs)
               /\ reviews[v] \in ReviewRow /\ reviews'[v] = Patched(reviews[v], body)
    <3>1. reviews'[v].sorting_session_id = reviews[v].sorting_session_id
      BY <2>2, PatchedChild
    <3>2. WrittenFor(sessions[reviews[v].sorting_session_id].organization_id)
      BY <1>2, <2>2 DEF Patches
    <3> QED
      BY <3>1, <3>2
  <2> QED
    BY <1>4, <2>1, <2>2, ReviewsNext
<1>5. ASSUME NEW e \in Requests, estimates'[e] # estimates[e]
      PROVE  WrittenFor(sessions[estimates'[e].sorting_session_id].organization_id)
  BY <1>2, <1>5, EstimatesNext, InsertedRowFits DEF Inserts
<1>6. ASSUME NEW d \in Requests, decisions'[d] # decisions[d]
      PROVE  WrittenFor(sessions[decisions'[d].sorting_session_id].organization_id)
  BY <1>2, <1>6, DecisionsNext, InsertedRowFits DEF Inserts
<1> QED
  BY <1>0, <1>1, <1>3, <1>4, <1>5, <1>6 DEF Written, WritesForCallers

LEMMA HistoryIsPatched ==
  ASSUME Inv, [Next]_vars
  PROVE  OnlyPatches
<1> USE DEF Inv
<1>0. /\ DOMAIN sessions = SessionIds /\ DOMAIN items = ItemIds /\ DOMAIN reviews = ReviewIds
      /\ DOMAIN estimates = Requests /\ DOMAIN decisions = Requests
  BY DEF Base, TypeOK
<1>1. ASSUME NEW s \in SessionIds, sessions'[s] # sessions[s], sessions[s] # NULL
      PROVE  /\ sessions'[s] # NULL
             /\ [sessions'[s] EXCEPT !.data = sessions[s].data] = sessions[s]
             /\ SentByPatch("update_session", s, sessions[s], sessions'[s])
  <2>1. PICK r \in Requests :
          /\ PatchesSession(r) /\ call[r].id = s /\ sessions[s] \in SessionRow
          /\ sessions'[s] = Patched(sessions[s], call[r].body)
    BY <1>1, SessionsNext
  <2>2. sessions'[s] # NULL
    BY <1>1, SessionsStay
  <2>3. [sessions'[s] EXCEPT !.data = sessions[s].data] = sessions[s]
    BY <2>1, PatchedSessionRestored
  <2>4. SentByPatch("update_session", s, sessions[s], sessions'[s])
    BY <2>1, WriterIsAt, PatchedData DEF SentByPatch
  <2> QED
    BY <2>2, <2>3, <2>4
<1>2. ASSUME NEW i \in ItemIds, items'[i] # items[i], items[i] # NULL
      PROVE  /\ items'[i] # NULL
             /\ items'[i].sorting_session_id = items[i].sorting_session_id
             /\ SentByPatch("update_item", i, items[i], items'[i])
  <2>1. PICK r \in Requests :
          /\ PatchesItem(r) /\ call[r].id = i /\ items[i] \in ItemRow
          /\ call[r].body \in PatchBodies
          /\ items'[i] = Patched(items[i], call[r].body)
    BY <1>2, ItemsNext
  <2>2. items'[i] # NULL
    BY <2>1, PatchedKeepsTypes, FloorNullAssumption
  <2>3. items'[i].sorting_session_id = items[i].sorting_session_id
    BY <2>1, PatchedChild
  <2>4. SentByPatch("update_item", i, items[i], items'[i])
    BY <2>1, WriterIsAt, PatchedData DEF SentByPatch
  <2> QED
    BY <2>2, <2>3, <2>4
<1>3. ASSUME NEW v \in ReviewIds, reviews'[v] # reviews[v], reviews[v] # NULL
      PROVE  /\ reviews'[v] # NULL
             /\ reviews'[v].sorting_session_id = reviews[v].sorting_session_id
             /\ SentByPatch("update_review", v, reviews[v], reviews'[v])
  <2>1. PICK r \in Requests :
          /\ PatchesReview(r) /\ call[r].id = v /\ reviews[v] \in ReviewRow
          /\ call[r].body \in PatchBodies
          /\ reviews'[v] = Patched(reviews[v], call[r].body)
    BY <1>3, ReviewsNext
  <2>2. reviews'[v] # NULL
    BY <2>1, PatchedKeepsTypes, FloorNullAssumption
  <2>3. reviews'[v].sorting_session_id = reviews[v].sorting_session_id
    BY <2>1, PatchedChild
  <2>4. SentByPatch("update_review", v, reviews[v], reviews'[v])
    BY <2>1, WriterIsAt, PatchedData DEF SentByPatch
  <2> QED
    BY <2>2, <2>3, <2>4
<1> QED
  BY <1>0, <1>1, <1>2, <1>3, EstimatesNext, DecisionsNext DEF Written, OnlyPatches

-----------------------------------------------------------------------------

LEMMA InvHolds == Spec => []Inv
<1>1. Init => Inv
  BY BaseAtFirst, HangsTogetherAtFirst DEF Inv
<1>2. Inv /\ [Next]_vars => Inv'
  BY BaseIsKept, HangsTogetherIsKept DEF Inv
<1> QED
  BY <1>1, <1>2, PTL DEF Spec

\* The five tables and the locals of their handlers keep their types.
THEOREM FloorTypeCorrect == Spec => []TypeOK
  BY InvHolds, PTL DEF Inv, Base

\* Whatever overlaps, everything hangs from the session it is filed under.
THEOREM FloorAlwaysHangsTogether == Spec => []FloorHangsTogether
  BY InvHolds, PTL DEF Inv

\* No handler writes outside its caller's organizations.
THEOREM WritesAlwaysStayInCallersOrgs == Spec => WritesStayInCallersOrgs
<1>1. Inv /\ [Next]_vars => [WritesForCallers]_vars
  BY WritesAreForCallers
<1> QED
  BY <1>1, InvHolds, PTL DEF Spec, WritesStayInCallersOrgs

\* Nothing stored is deleted, moved or changed but by the PATCH of its columns.
THEOREM HistoryIsAlwaysOnlyPatched == Spec => HistoryIsOnlyPatched
<1>1. Inv /\ [Next]_vars => [OnlyPatches]_vars
  BY HistoryIsPatched
<1> QED
  BY <1>1, InvHolds, PTL DEF Spec, HistoryIsOnlyPatched

=============================================================================
