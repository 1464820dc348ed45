------------------------------ MODULE DonorDesk -----------------------------
(***************************************************************************)
(* /donor/requests, /donor/requests/[id]/details, /donor/pickup-locations, *)
(* /donor/contact-details and /donor/profile-update-requests: a donor asks *)
(* for a pickup and keeps his own records.  Meanwhile somebody else edits  *)
(* the statuses of his organization, one of which a new request starts in. *)
(***************************************************************************)
EXTENDS Tables

CONSTANTS
  Orgs, Branches,
  Donors, Donor,         \* the donors and their rows
  Statuses, StatusOrg,   \* request_statuses
  StatusSettings,        \* which statuses have the code "draft", which the flag
  Columns, Values,       \* the columns a body may set, and what they may hold
  CreateBodies,          \* bodies of POST: the columns sent, with their values
  PatchBodies,           \* bodies of PATCH
  Omitted,               \* what POST stores for a column that is not sent
  OldDonations,          \* rows stored before, by id
  OldLocations,
  Contacts               \* donor_contact_details; nothing here inserts any

DonationIds == Requests \cup DOMAIN OldDonations
LocationIds == Requests \cup DOMAIN OldLocations
ContactIds == DOMAIN Contacts

Data == [Columns -> Values]

DonorRow == [organization_id : Orgs, branch_id : Branches \cup {NULL}]

DonationRow ==
  [donor_id : Donors, organization_id : Orgs, branch_id : Branches \cup {NULL},
   pickup_location_id : LocationIds, current_status_id : Statuses \cup {NULL}]

DetailRow == [donation_request_id : DonationIds]
LocationRow == [donor_id : Donors, organization_id : Orgs, data : Data]
ContactRow == [donor_id : Donors, data : Data]
ProfileRow == [donor_id : Donors]

\* A donor's rows are in his own organization and branch.
DonationFits(q) ==
  /\ q.organization_id = Donor[q.donor_id].organization_id
  /\ q.branch_id = Donor[q.donor_id].branch_id
  /\ q.current_status_id # NULL => StatusOrg[q.current_status_id] = q.organization_id

LocationFits(l) == l.organization_id = Donor[l.donor_id].organization_id

\* UNIQUE (organization_id, code)
OneDraftPerOrg(drafts) ==
  \A s, t \in drafts : StatusOrg[s] = StatusOrg[t] => s = t

ASSUME DonorAssumption ==
  /\ Donor \in [Donors -> DonorRow]
  /\ StatusOrg \in [Statuses -> Orgs]
  /\ StatusSettings \subseteq [drafts : SUBSET Statuses, initials : SUBSET Statuses]
  /\ \A t \in StatusSettings : OneDraftPerOrg(t.drafts)
  /\ \A body \in CreateBodies \cup PatchBodies :
       body \in [DOMAIN body -> Values] /\ DOMAIN body \subseteq Columns
  /\ Omitted \in Data
  /\ NULL \notin Statuses

ASSUME OldRowsAssumption ==
  /\ OldLocations \in [DOMAIN OldLocations -> LocationRow]
  /\ \A l \in DOMAIN OldLocations : LocationFits(OldLocations[l])
  /\ OldDonations \in [DOMAIN OldDonations -> DonationRow]
  /\ \A q \in DOMAIN OldDonations :
       /\ DonationFits(OldDonations[q])
       /\ OldDonations[q].pickup_location_id \in DOMAIN OldLocations
       /\ OldLocations[OldDonations[q].pickup_location_id].donor_id
            = OldDonations[q].donor_id
  /\ Contacts \in [ContactIds -> ContactRow]
  /\ Requests \cap (DOMAIN OldDonations \cup DOMAIN OldLocations) = {}

VARIABLES
  donations,    \* donation_requests, by id
  details,      \* donation_request_details
  locations,    \* pickup_locations
  contacts,     \* donor_contact_details
  profiles,     \* donor_profile_update_requests
  statuses,     \* request_statuses: code and is_initial
  stirred       \* history: requests in flight when statuses were edited

tables == <<donations, details, locations, contacts, profiles>>
settings == <<statuses, stirred>>
vars == <<donations, details, locations, contacts, profiles, statuses, stirred,
          pc, call, answer, met>>

\* What a handler holds: its donor, and the row it is about to insert, or the
\* id and the columns to update.
InsertCall(Row) == [donor : Donors, row : Row]
PatchCall(Ids) == [donor : Donors, id : Ids, body : PatchBodies]

DeskCall ==
  UNION {InsertCall(DonationRow), InsertCall(DetailRow), InsertCall(LocationRow),
         InsertCall(ProfileRow), PatchCall(LocationIds), PatchCall(ContactIds)}

ASSUME DeskNullAssumption ==
  NULL \notin UNION {DonationRow, DetailRow, LocationRow, ContactRow, ProfileRow, DeskCall}

PcDesk ==
  {"find_draft", "find_initial", "create_request", "create_detail", "create_location",
   "update_location", "update_contact", "create_profile_request"}

TypeOK ==
  /\ donations \in [DonationIds -> DonationRow \cup {NULL}]
  /\ details \in [Requests -> DetailRow \cup {NULL}]
  /\ locations \in [LocationIds -> LocationRow \cup {NULL}]
  /\ contacts \in [ContactIds -> ContactRow]
  /\ profiles \in [Requests -> ProfileRow \cup {NULL}]
  /\ statuses \in StatusSettings
  /\ stirred \in SUBSET Requests
  /\ HandlersTyped(PcDesk, DeskCall)

Init ==
  /\ donations = Stored(DonationIds, OldDonations)
  /\ details = [l \in Requests |-> NULL]
  /\ locations = Stored(LocationIds, OldLocations)
  /\ contacts = Contacts
  /\ profiles = [l \in Requests |-> NULL]
  /\ statuses \in StatusSettings
  /\ stirred = {}
  /\ InitHandlers

-----------------------------------------------------------------------------

\* Mutant: any row that exists will do.
OwnedBy_Any(table, d) == Rows(table)

OwnedBy(table, d) == {l \in Rows(table) : table[l].donor_id = d}

\* Mutant: a column that is not sent is reset.
Patched_Whole(row, body) ==
  [row EXCEPT !.data = [k \in Columns |-> IF k \in DOMAIN body THEN body[k] ELSE Omitted[k]]]

Patched(row, body) ==
  [row EXCEPT !.data = [k \in Columns |-> IF k \in DOMAIN body THEN body[k] ELSE row.data[k]]]

\* Mutant: a column that is not sent is left out.
NewData_SentOnly(body) == body

NewData(body) == [k \in Columns |-> IF k \in DOMAIN body THEN body[k] ELSE Omitted[k]]

OfOrg(ss, org) == {s \in ss : StatusOrg[s] = org}

\* assertRequestOwnedByDonor, or the check of a request's pickup location.
RefuseForeignRow(r) ==
  /\ pc[r] = "idle"
  /\ \E d \in Donors, table \in {donations, locations} : DOMAIN table # OwnedBy(table, d)
  /\ Respond(r, "NOT_FOUND")
  /\ UNCHANGED <<tables, settings>>

\* A PATCH ends with NOT_FOUND when its one call matches no row.
Updated(r, matches) ==
  IF matches THEN Await(r, "respond") ELSE Respond(r, "NOT_FOUND")

-----------------------------------------------------------------------------
(* createDonorRequest                                                      *)

AcceptRequest(r) ==
  /\ \E d \in Donors : \E l \in OwnedBy(locations, d) :
       Begin(r, "find_draft",
             [donor |-> d,
              row |-> [donor_id |-> d, organization_id |-> Donor[d].organization_id,
                       branch_id |-> Donor[d].branch_id, pickup_location_id |-> l,
                       current_status_id |-> NULL]])
  /\ UNCHANGED <<tables, settings>>

\* The request will start in that status.
StartIn(r, s) ==
  AwaitWith(r, "create_request", [call[r] EXCEPT !.row.current_status_id = s])

\* Mutant: the code is looked up in every organization.
DraftsFor_Global(org) == statuses.drafts

DraftsFor(org) == OfOrg(statuses.drafts, org)

FindDraft(r) ==
  LET found == DraftsFor(call[r].row.organization_id)
  IN /\ pc[r] = "find_draft"
     /\ \/ \E s \in found : StartIn(r, s)
        \/ found = {} /\ Await(r, "find_initial")
     /\ UNCHANGED <<tables, settings>>

\* The first of several is whichever the database returns.
FindInitial(r) ==
  LET found == OfOrg(statuses.initials, call[r].row.organization_id)
  IN /\ pc[r] = "find_initial"
     /\ \/ \E s \in found : StartIn(r, s)
        \/ found = {} /\ Await(r, "create_request")
     /\ UNCHANGED <<tables, settings>>

CreateRequest(r) ==
  /\ pc[r] = "create_request"
  /\ donations' = [donations EXCEPT ![r] = call[r].row]
  /\ Await(r, "respond")
  /\ UNCHANGED <<details, locations, contacts, profiles, settings>>

-----------------------------------------------------------------------------
(* createDonorRequestDetail                                                *)

AcceptDetail(r) ==
  /\ \E d \in Donors : \E q \in OwnedBy(donations, d) :
       Begin(r, "create_detail", [donor |-> d, row |-> [donation_request_id |-> q]])
  /\ UNCHANGED <<tables, settings>>

CreateDetail(r) ==
  /\ pc[r] = "create_detail"
  /\ details' = [details EXCEPT ![r] = call[r].row]
  /\ Await(r, "respond")
  /\ UNCHANGED <<donations, locations, contacts, profiles, settings>>

-----------------------------------------------------------------------------
(* createDonorPickupLocation, updateDonorPickupLocation,                   *)
(* updateDonorContactDetail, createDonorProfileUpdateRequest               *)

AcceptLocation(r) ==
  /\ \E d \in Donors, body \in CreateBodies :
       Begin(r, "create_location",
             [donor |-> d,
              row |-> [donor_id |-> d, organization_id |-> Donor[d].organization_id,
                       data |-> NewData(body)]])
  /\ UNCHANGED <<tables, settings>>

CreateLocation(r) ==
  /\ pc[r] = "create_location"
  /\ locations' = [locations EXCEPT ![r] = call[r].row]
  /\ Await(r, "respond")
  /\ UNCHANGED <<donations, details, contacts, profiles, settings>>

AcceptLocationPatch(r) ==
  /\ \E d \in Donors, l \in LocationIds, body \in PatchBodies :
       Begin(r, "update_location", [donor |-> d, id |-> l, body |-> body])
  /\ UNCHANGED <<tables, settings>>

UpdateLocation(r) ==
  LET c == call[r]
      matches == c.id \in OwnedBy(locations, c.donor)
  IN /\ pc[r] = "update_location"
     /\ locations' =
          IF matches THEN [locations EXCEPT ![c.id] = Patched(@, c.body)] ELSE locations
     /\ Updated(r, matches)
     /\ UNCHANGED <<donations, details, contacts, profiles, settings>>

AcceptContactPatch(r) ==
  /\ \E d \in Donors, l \in ContactIds, body \in PatchBodies :
       Begin(r, "update_contact", [donor |-> d, id |-> l, body |-> body])
  /\ UNCHANGED <<tables, settings>>

UpdateContact(r) ==
  LET c == call[r]
      matches == c.id \in OwnedBy(contacts, c.donor)
  IN /\ pc[r] = "update_contact"
     /\ contacts' =
          IF matches THEN [contacts EXCEPT ![c.id] = Patched(@, c.body)] ELSE contacts
     /\ Updated(r, matches)
     /\ UNCHANGED <<donations, details, locations, profiles, settings>>

AcceptProfileRequest(r) ==
  /\ \E d \in Donors :
       Begin(r, "create_profile_request", [donor |-> d, row |-> [donor_id |-> d]])
  /\ UNCHANGED <<tables, settings>>

CreateProfileRequest(r) ==
  /\ pc[r] = "create_profile_request"
  /\ profiles' = [profiles EXCEPT ![r] = call[r].row]
  /\ Await(r, "respond")
  /\ UNCHANGED <<donations, details, locations, contacts, settings>>

-----------------------------------------------------------------------------

Answer(r) ==
  /\ pc[r] = "respond"
  /\ Respond(r, "OK")
  /\ UNCHANGED <<tables, settings>>

FailPendingCall(r) == FailCall(r) /\ UNCHANGED <<tables, settings>>

\* Somebody renames statuses or moves the flag; no code here does.
EditStatuses ==
  /\ statuses' \in StatusSettings
  /\ stirred' = stirred \cup {r \in Requests : InFlight(r)}
  /\ UNCHANGED <<tables, handlers>>

Next ==
  \/ \E r \in Requests :
       \/ RefuseForeignRow(r)
       \/ AcceptRequest(r) \/ FindDraft(r) \/ FindInitial(r) \/ CreateRequest(r)
       \/ AcceptDetail(r) \/ CreateDetail(r)
       \/ AcceptLocation(r) \/ CreateLocation(r)
       \/ AcceptLocationPatch(r) \/ UpdateLocation(r)
       \/ AcceptContactPatch(r) \/ UpdateContact(r)
       \/ AcceptProfileRequest(r) \/ CreateProfileRequest(r)
       \/ Answer(r) \/ FailPendingCall(r)
  \/ EditStatuses

Spec == Init /\ [][Next]_vars

-----------------------------------------------------------------------------
(* Properties.                                                             *)

\* A donor's rows make one family: a request is picked up at a location of
\* the donor who asked for it, in his own organization and branch, its status
\* is one of that organization; its details hang from a stored request.
DeskHangsTogether ==
  /\ \A q \in Rows(donations) :
       /\ DonationFits(donations[q])
       /\ locations[donations[q].pickup_location_id] # NULL
       /\ locations[donations[q].pickup_location_id].donor_id = donations[q].donor_id
  /\ \A l \in Rows(locations) : LocationFits(locations[l])
  /\ \A l \in Rows(details) : donations[details[l].donation_request_id] # NULL

\* The handler that takes the step is that donor's.
WrittenFor(d) == \E r \in Requests : pc'[r] # pc[r] /\ call[r].donor = d

\* Some PATCH of the row by its donor accounts for every column that changes.
SentByDonor(at, id, old, new) ==
  \E r \in Requests :
    /\ pc[r] = at /\ call[r].id = id /\ call[r].donor = old.donor_id
    /\ \A k \in Columns :
         new.data[k] = IF k \in DOMAIN call[r].body THEN call[r].body[k] ELSE old.data[k]
    /\ [new EXCEPT !.data = old.data] = old

\* A handler writes rows of its own donor only, the details of his requests
\* included, whatever ids route and body name; a PATCH changes the columns it
\* was sent and does not undo an overlapping one.  No row is deleted or changes
\* hands, and requests, details and profile requests never change.
WritesForDonors ==
  /\ \A q \in Written(donations) : donations[q] = NULL /\ WrittenFor(donations'[q].donor_id)
  /\ \A l \in Written(details) :
       details[l] = NULL /\ WrittenFor(donations[details'[l].donation_request_id].donor_id)
  /\ \A l \in Written(profiles) : profiles[l] = NULL /\ WrittenFor(profiles'[l].donor_id)
  /\ \A l \in Written(locations) :
       IF locations[l] = NULL THEN WrittenFor(locations'[l].donor_id)
       ELSE SentByDonor("update_location", l, locations[l], locations'[l])
  /\ \A l \in Written(contacts) : SentByDonor("update_contact", l, contacts[l], contacts'[l])

WritesStayWithTheDonor == [][WritesForDonors]_vars

\* Where a request of the organization should start: in its draft status, if
\* it has one, else in one that is flagged initial, else in none.
InitialStatuses(org) ==
  IF OfOrg(statuses.drafts, org) # {} THEN OfOrg(statuses.drafts, org)
  ELSE IF OfOrg(statuses.initials, org) # {} THEN OfOrg(statuses.initials, org)
  ELSE {NULL}

\* A request starts there unless the statuses were edited while its handler
\* ran: draft and flag are looked up in two calls, the insert is a third.
StartsInitial ==
  \A q \in Written(donations) \ stirred :
    donations'[q].current_status_id \in InitialStatuses(donations'[q].organization_id)

RequestsStartInitial == [][StartsInitial]_vars

=============================================================================
