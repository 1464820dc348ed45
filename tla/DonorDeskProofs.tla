-------------------------- MODULE DonorDeskProofs ---------------------------
(***************************************************************************)
(* The donor desk keeps a donor's rows together and apart from others',    *)
(* for any donors, rows, bodies, statuses and requests.                    *)
(*                                                                         *)
(* Base   types; a handler that has not inserted its row owns none; what a *)
(*        suspended handler holds fits the tables (CallFits), which stays  *)
(*        so because rows are never deleted and never change hands.        *)
(* Looks  a handler that statuses were not edited on knows what they are.  *)
(***************************************************************************)
EXTENDS DonorDesk, TLAPS

\* The location is stored, and the donor's.
Owned(l, d) == l \in LocationIds /\ locations[l] # NULL /\ locations[l].donor_id = d

\* The request is stored, and the donor's.
Asked(q, d) == q \in DonationIds /\ donations[q] # NULL /\ donations[q].donor_id = d

\* What a handler holds that is suspended at a call.
CallFits(at, c) ==
  /\ at \in {"find_draft", "find_initial", "create_request"} =>
       /\ c \in InsertCall(DonationRow) /\ c.row.donor_id = c.donor
       /\ DonationFits(c.row) /\ Owned(c.row.pickup_location_id, c.donor)
  /\ at \in {"find_draft", "find_initial"} => c.row.current_status_id = NULL
  /\ at = "create_detail" =>
       c \in InsertCall(DetailRow) /\ Asked(c.row.donation_request_id, c.donor)
  /\ at = "create_location" =>
       c \in InsertCall(LocationRow) /\ c.row.donor_id = c.donor /\ LocationFits(c.row)
  /\ at = "create_profile_request" => c \in InsertCall(ProfileRow) /\ c.row.donor_id = c.donor
  /\ at = "update_location" => c \in PatchCall(LocationIds)
  /\ at = "update_contact" => c \in PatchCall(ContactIds)

LocalsFit == \A r \in Requests : CallFits(pc[r], call[r])

RowsAreOwned ==
  \A r \in Requests : pc[r] \in PcDesk \cup {"idle"} =>
    donations[r] = NULL /\ details[r] = NULL /\ locations[r] = NULL /\ profiles[r] = NULL

Base == TypeOK /\ RowsAreOwned /\ LocalsFit

Inv == Base /\ DeskHangsTogether

\* What a handler has learned of the statuses, if nobody edited them since.
Looks ==
  \A r \in Requests \ stirred :
    /\ pc[r] = "find_initial" => DraftsFor(call[r].row.organization_id) = {}
    /\ pc[r] = "create_request" =>
         call[r].row.current_status_id \in InitialStatuses(call[r].row.organization_id)

-----------------------------------------------------------------------------
(* What the operators do.                                                  *)

LEMMA NewDataIsData == \A body \in CreateBodies : NewData(body) \in Data
  BY DonorAssumption DEF NewData, Data

LEMMA PatchedKeepsTypes ==
  ASSUME NEW body \in PatchBodies
  PROVE  /\ \A row \in LocationRow : Patched(row, body) \in LocationRow
         /\ \A row \in ContactRow : Patched(row, body) \in ContactRow
<1>1. ASSUME NEW d \in Data
      PROVE  [k \in Columns |-> IF k \in DOMAIN body THEN body[k] ELSE d[k]] \in Data
  BY DonorAssumption DEF Data
<1>2. ASSUME NEW row \in LocationRow PROVE Patched(row, body) \in LocationRow
  BY <1>1 DEF Patched, LocationRow
<1>3. ASSUME NEW row \in ContactRow PROVE Patched(row, body) \in ContactRow
  BY <1>1 DEF Patched, ContactRow
<1> QED
  BY <1>2, <1>3

\* A patched row differs in its data only, and there as the body says.
LEMMA PatchedLocation ==
  ASSUME NEW row \in LocationRow, NEW body
  PROVE  /\ Patched(row, body).donor_id = row.donor_id
         /\ Patched(row, body).organization_id = row.organization_id
         /\ [Patched(row, body) EXCEPT !.data = row.data] = row
         /\ \A k \in Columns : Patched(row, body).data[k] =
              IF k \in DOMAIN body THEN body[k] ELSE row.data[k]
  BY DEF Patched, LocationRow

LEMMA PatchedContact ==
  ASSUME NEW row \in ContactRow, NEW body
  PROVE  /\ [Patched(row, body) EXCEPT !.data = row.data] = row
         /\ \A k \in Columns : Patched(row, body).data[k] =
              IF k \in DOMAIN body THEN body[k] ELSE row.data[k]
  BY DEF Patched, ContactRow

-----------------------------------------------------------------------------
(* Every step is one of these.                                             *)

Begins(r) ==
  /\ \E next \in PcDesk \ {"find_initial", "create_request"}, c \in DeskCall :
       Begin(r, next, c) /\ CallFits(next, c)
  /\ UNCHANGED <<tables, settings>>
FindsDraft(r) ==
  /\ pc[r] = "find_draft"
  /\ \E s \in DraftsFor(call[r].row.organization_id) : StartIn(r, s)
  /\ UNCHANGED <<tables, settings>>
FindsNoDraft(r) ==
  /\ pc[r] = "find_draft" /\ DraftsFor(call[r].row.organization_id) = {}
  /\ Await(r, "find_initial") /\ UNCHANGED <<tables, settings>>
FindsFlagged(r) ==
  /\ pc[r] = "find_initial"
  /\ \E s \in OfOrg(statuses.initials, call[r].row.organization_id) : StartIn(r, s)
  /\ UNCHANGED <<tables, settings>>
FindsNone(r) ==
  /\ pc[r] = "find_initial"
  /\ OfOrg(statuses.initials, call[r].row.organization_id) = {}
  /\ Await(r, "create_request") /\ UNCHANGED <<tables, settings>>
Ends(r) == (\E code \in Errors \cup {"OK"} : Respond(r, code)) /\ UNCHANGED <<tables, settings>>
PatchesLocation(r) ==
  /\ pc[r] = "update_location" /\ call[r].id \in OwnedBy(locations, call[r].donor)
  /\ locations' = [locations EXCEPT ![call[r].id] = Patched(@, call[r].body)]
  /\ Await(r, "respond") /\ UNCHANGED <<donations, details, contacts, profiles, settings>>
PatchesContact(r) ==
  /\ pc[r] = "update_contact" /\ call[r].id \in OwnedBy(contacts, call[r].donor)
  /\ contacts' = [contacts EXCEPT ![call[r].id] = Patched(@, call[r].body)]
  /\ Await(r, "respond") /\ UNCHANGED <<donations, details, locations, profiles, settings>>

Starts(r) == FindsDraft(r) \/ FindsFlagged(r)
Looking(r) == Starts(r) \/ FindsNoDraft(r) \/ FindsNone(r)
Inserts(r) ==
  CreateRequest(r) \/ CreateDetail(r) \/ CreateLocation(r) \/ CreateProfileRequest(r)
Patches(r) == PatchesLocation(r) \/ PatchesContact(r)
Moves(r) == Begins(r) \/ Looking(r) \/ Ends(r) \/ Inserts(r) \/ Patches(r)

LEMMA OwnedByIsOwned ==
  ASSUME Base
  PROVE  /\ \A d, l : l \in OwnedBy(locations, d) => Owned(l, d)
         /\ \A d, q : q \in OwnedBy(donations, d) => Asked(q, d)
         /\ \A d, l : l \in OwnedBy(contacts, d) => l \in ContactIds /\ contacts[l].donor_id = d
  BY DEF OwnedBy, Rows, Owned, Asked, Base, TypeOK

LEMMA RequestBegins ==
  ASSUME Base, NEW r \in Requests, AcceptRequest(r)
  PROVE  Begins(r)
<1>1. PICK d \in Donors : \E l \in OwnedBy(locations, d) :
       Begin(r, "find_draft",
             [donor |-> d,
              row |-> [donor_id |-> d, organization_id |-> Donor[d].organization_id,
                       branch_id |-> Donor[d].branch_id, pickup_location_id |-> l,
                       current_status_id |-> NULL]])
  BY DEF AcceptRequest
<1>2. PICK l \in OwnedBy(locations, d) :
       Begin(r, "find_draft",
             [donor |-> d,
              row |-> [donor_id |-> d, organization_id |-> Donor[d].organization_id,
                       branch_id |-> Donor[d].branch_id, pickup_location_id |-> l,
                       current_status_id |-> NULL]])
  BY <1>1
<1> DEFINE new == [donor_id |-> d, organization_id |-> Donor[d].organization_id,
                   branch_id |-> Donor[d].branch_id, pickup_location_id |-> l,
                   current_status_id |-> NULL]
           c == [donor |-> d, row |-> new]
<1>3. Owned(l, d) /\ l \in LocationIds
  BY OwnedByIsOwned DEF Owned
<1>4. new \in DonationRow /\ DonationFits(new)
  BY <1>3, DonorAssumption DEF DonationRow, DonorRow, DonationFits
<1>5. c \in InsertCall(DonationRow)
  BY <1>4 DEF InsertCall
<1>6. c \in DeskCall /\ CallFits("find_draft", c)
  BY <1>3, <1>4, <1>5 DEF DeskCall, CallFits
<1> QED
  BY <1>2, <1>6 DEF AcceptRequest, Begins, PcDesk

LEMMA InsertBegins ==
  ASSUME Base, NEW r \in Requests,
         AcceptDetail(r) \/ AcceptLocation(r) \/ AcceptProfileRequest(r)
  PROVE  Begins(r)
<1>1. CASE AcceptDetail(r)
  <2>0. PICK d \in Donors : \E q \in OwnedBy(donations, d) :
          Begin(r, "create_detail", [donor |-> d, row |-> [donation_request_id |-> q]])
    BY <1>1 DEF AcceptDetail
  <2>1. PICK q \in OwnedBy(donations, d) :
          Begin(r, "create_detail", [donor |-> d, row |-> [donation_request_id |-> q]])
    BY <2>0
  <2> DEFINE c == [donor |-> d, row |-> [donation_request_id |-> q]]
  <2>2. Asked(q, d) /\ q \in DonationIds
    BY OwnedByIsOwned DEF Asked
  <2>3. c \in InsertCall(DetailRow)
    BY <2>2 DEF InsertCall, DetailRow
  <2>4. c \in DeskCall /\ CallFits("create_detail", c)
    BY <2>2, <2>3 DEF DeskCall, CallFits
  <2> QED
    BY <1>1, <2>1, <2>4 DEF AcceptDetail, Begins, PcDesk
<1>2. CASE AcceptLocation(r)
  <2>1. PICK d \in Donors, body \in CreateBodies :
          Begin(r, "create_location",
             [donor |-> d,
              row |-> [donor_id |-> d, organization_id |-> Donor[d].organization_id,
                       data |-> NewData(body)]])
    BY <1>2 DEF AcceptLocation
  <2> DEFINE new == [donor_id |-> d, organization_id |-> Donor[d].organization_id,
                     data |-> NewData(body)]
             c == [donor |-> d, row |-> new]
  <2>2. new \in LocationRow /\ LocationFits(new)
    BY NewDataIsData, DonorAssumption DEF LocationRow, DonorRow, LocationFits
  <2>3. c \in InsertCall(LocationRow)
    BY <2>2 DEF InsertCall
  <2>4. c \in DeskCall /\ CallFits("create_location", c)
    BY <2>2, <2>3 DEF DeskCall, CallFits
  <2> QED
    BY <1>2, <2>1, <2>4 DEF AcceptLocation, Begins, PcDesk
<1>3. CASE AcceptProfileRequest(r)
  <2>1. PICK d \in Donors :
          Begin(r, "create_profile_request", [donor |-> d, row |-> [donor_id |-> d]])
    BY <1>3 DEF AcceptProfileRequest
  <2> DEFINE c == [donor |-> d, row |-> [donor_id |-> d]]
  <2>2. c \in InsertCall(ProfileRow)
    BY DEF InsertCall, ProfileRow
  <2>3. c \in DeskCall /\ CallFits("create_profile_request", c)
    BY <2>2 DEF DeskCall, CallFits
  <2> QED
    BY <1>3, <2>1, <2>3 DEF AcceptProfileRequest, Begins, PcDesk
<1> QED
  BY <1>1, <1>2, <1>3

LEMMA PatchBegins ==
  ASSUME NEW r \in Requests, AcceptLocationPatch(r) \/ AcceptContactPatch(r)
  PROVE  Begins(r)
<1>1. CASE AcceptLocationPatch(r)
  <2>1. PICK d \in Donors, l \in LocationIds, body \in PatchBodies :
          Begin(r, "update_location", [donor |-> d, id |-> l, body |-> body])
    BY <1>1 DEF AcceptLocationPatch
  <2> DEFINE c == [donor |-> d, id |-> l, body |-> body]
  <2>2. c \in PatchCall(LocationIds)
    BY DEF PatchCall
  <2>3. c \in DeskCall /\ CallFits("update_location", c)
    BY <2>2 DEF DeskCall, CallFits
  <2> QED
    BY <1>1, <2>1, <2>3 DEF AcceptLocationPatch, Begins, PcDesk
<1>2. CASE AcceptContactPatch(r)
  <2>1. PICK d \in Donors, l \in ContactIds, body \in PatchBodies :
          Begin(r, "update_contact", [donor |-> d, id |-> l, body |-> body])
    BY <1>2 DEF AcceptContactPatch
  <2> DEFINE c == [donor |-> d, id |-> l, body |-> body]
  <2>2. c \in PatchCall(ContactIds)
    BY DEF PatchCall
  <2>3. c \in DeskCall /\ CallFits("update_contact", c)
    BY <2>2 DEF DeskCall, CallFits
  <2> QED
    BY <1>2, <2>1, <2>3 DEF AcceptContactPatch, Begins, PcDesk
<1> QED
  BY <1>1, <1>2

LEMMA StepShape ==
  ASSUME Base, [Next]_vars
  PROVE  UNCHANGED vars \/ EditStatuses \/ \E r \in Requests : Moves(r)
<1> SUFFICES ASSUME NEW r \in Requests,
                    \/ RefuseForeignRow(r)
                    \/ AcceptRequest(r) \/ FindDraft(r) \/ FindInitial(r) \/ CreateRequest(r)
                    \/ AcceptDetail(r) \/ CreateDetail(r)
                    \/ AcceptLocation(r) \/ CreateLocation(r)
                    \/ AcceptLocationPatch(r) \/ UpdateLocation(r)
                    \/ AcceptContactPatch(r) \/ UpdateContact(r)
                    \/ AcceptProfileRequest(r) \/ CreateProfileRequest(r)
                    \/ Answer(r) \/ FailPendingCall(r)
             PROVE  Moves(r)
  BY DEF Next
<1>1. RefuseForeignRow(r) \/ Answer(r) \/ FailPendingCall(r) => Ends(r)
  BY DEF RefuseForeignRow, Answer, FailPendingCall, FailCall, Ends, Errors
<1>2. FindDraft(r) => FindsDraft(r) \/ FindsNoDraft(r)
  BY DEF FindDraft, FindsDraft, FindsNoDraft
<1>3. FindInitial(r) => FindsFlagged(r) \/ FindsNone(r)
  BY DEF FindInitial, FindsFlagged, FindsNone
<1>4. UpdateLocation(r) => PatchesLocation(r) \/ Ends(r)
  BY DEF UpdateLocation, Updated, PatchesLocation, Ends, Errors, tables
<1>5. UpdateContact(r) => PatchesContact(r) \/ Ends(r)
  BY DEF UpdateContact, Updated, PatchesContact, Ends, Errors, tables
<1> QED
  BY <1>1, <1>2, <1>3, <1>4, <1>5, RequestBegins, InsertBegins, PatchBegins
     DEF Moves, Looking, Starts, Inserts, Patches

-----------------------------------------------------------------------------
(* What a step does to the tables.                                         *)

\* A handler that writes goes on to its answer with what it held.
LEMMA WritersGoOn ==
  ASSUME NEW r \in Requests, Inserts(r) \/ Patches(r)
  PROVE  Await(r, "respond")
  BY DEF Inserts, Patches, CreateRequest, CreateDetail, CreateLocation,
     CreateProfileRequest, PatchesLocation, PatchesContact

\* The one handler that moves is suspended at the call the step resolves.
LEMMA WriterIsAt ==
  ASSUME Base, NEW r \in Requests
  PROVE  /\ CreateRequest(r) => pc[r] = "create_request" /\ pc'[r] = "respond"
         /\ CreateDetail(r) => pc[r] = "create_detail" /\ pc'[r] = "respond"
         /\ CreateLocation(r) => pc[r] = "create_location" /\ pc'[r] = "respond"
         /\ CreateProfileRequest(r) => pc[r] = "create_profile_request" /\ pc'[r] = "respond"
         /\ PatchesLocation(r) => pc[r] = "update_location" /\ pc'[r] = "respond"
         /\ PatchesContact(r) => pc[r] = "update_contact" /\ pc'[r] = "respond"
  BY DEF Base, TypeOK, HandlersTyped, CreateRequest, CreateDetail, CreateLocation,
     CreateProfileRequest, PatchesLocation, PatchesContact, Await

\* What a handler holds that inserts a row.
LEMMA InsertedRowFits ==
  ASSUME Base, NEW r \in Requests
  PROVE  /\ CreateRequest(r) =>
              /\ call[r].row \in DonationRow /\ call[r].row.donor_id = call[r].donor
              /\ DonationFits(call[r].row) /\ Owned(call[r].row.pickup_location_id, call[r].donor)
         /\ CreateDetail(r) =>
              call[r].row \in DetailRow /\ Asked(call[r].row.donation_request_id, call[r].donor)
         /\ CreateLocation(r) =>
              /\ call[r].row \in LocationRow /\ call[r].row.donor_id = call[r].donor
              /\ LocationFits(call[r].row)
         /\ CreateProfileRequest(r) =>
              call[r].row \in ProfileRow /\ call[r].row.donor_id = call[r].donor
<1>1. CallFits(pc[r], call[r])
  BY DEF Base, LocalsFit
<1> QED
  BY <1>1, WriterIsAt DEF CallFits, InsertCall

LEMMA DonationsNext ==
  ASSUME Base, [Next]_vars, NEW q \in DonationIds, donations'[q] # donations[q]
  PROVE  q \in Requests /\ CreateRequest(q) /\ donations[q] = NULL /\ donations'[q] = call[q].row
<1>1. PICK r \in Requests : CreateRequest(r)
  BY StepShape DEF vars, tables, EditStatuses, Moves, Begins, Looking, Starts, FindsDraft,
     FindsNoDraft, FindsFlagged, FindsNone, Ends, Inserts, Patches, CreateDetail,
     CreateLocation, CreateProfileRequest, PatchesLocation, PatchesContact
<1>2. donations' = [donations EXCEPT ![r] = call[r].row] /\ pc[r] = "create_request"
  BY <1>1 DEF CreateRequest
<1>3. q = r
  BY <1>2 DEF Base, TypeOK
<1> QED
  BY <1>1, <1>2, <1>3 DEF Base, TypeOK, RowsAreOwned, PcDesk

LEMMA DetailsNext ==
  ASSUME Base, [Next]_vars, NEW l \in Requests, details'[l] # details[l]
  PROVE  CreateDetail(l) /\ details[l] = NULL /\ details'[l] = call[l].row
<1>1. PICK r \in Requests : CreateDetail(r)
  BY StepShape DEF vars, tables, EditStatuses, Moves, Begins, Looking, Starts, FindsDraft,
     FindsNoDraft, FindsFlagged, FindsNone, Ends, Inserts, Patches, CreateRequest,
     CreateLocation, CreateProfileRequest, PatchesLocation, PatchesContact
<1>2. details' = [details EXCEPT ![r] = call[r].row] /\ pc[r] = "create_detail"
  BY <1>1 DEF CreateDetail
<1>3. l = r
  BY <1>2 DEF Base, TypeOK
<1> QED
  BY <1>1, <1>2, <1>3 DEF Base, TypeOK, RowsAreOwned, PcDesk

LEMMA ProfilesNext ==
  ASSUME Base, [Next]_vars, NEW l \in Requests, profiles'[l] # profiles[l]
  PROVE  CreateProfileRequest(l) /\ profiles[l] = NULL /\ profiles'[l] = call[l].row
<1>1. PICK r \in Requests : CreateProfileRequest(r)
  BY StepShape DEF vars, tables, EditStatuses, Moves, Begins, Looking, Starts, FindsDraft,
     FindsNoDraft, FindsFlagged, FindsNone, Ends, Inserts, Patches, CreateRequest,
     CreateLocation, CreateDetail, PatchesLocation, PatchesContact
<1>2. profiles' = [profiles EXCEPT ![r] = call[r].row] /\ pc[r] = "create_profile_request"
  BY <1>1 DEF CreateProfileRequest
<1>3. l = r
  BY <1>2 DEF Base, TypeOK
<1> QED
  BY <1>1, <1>2, <1>3 DEF Base, TypeOK, RowsAreOwned, PcDesk

\* A location that a step changes is new, or patched by its donor.
LEMMA LocationsNext ==
  ASSUME Base, [Next]_vars, NEW l \in LocationIds, locations'[l] # locations[l]
  PROVE  \/ /\ l \in Requests /\ CreateLocation(l)
            /\ locations[l] = NULL /\ locations'[l] = call[l].row
         \/ \E r \in Requests :
              /\ PatchesLocation(r) /\ call[r].id = l /\ call[r].body \in PatchBodies
              /\ locations[l] \in LocationRow /\ call[r].donor = locations[l].donor_id
              /\ locations'[l] = Patched(locations[l], call[r].body)
<1>1. PICK r \in Requests : CreateLocation(r) \/ PatchesLocation(r)
  BY StepShape DEF vars, tables, EditStatuses, Moves, Begins, Looking, Starts, FindsDraft,
     FindsNoDraft, FindsFlagged, FindsNone, Ends, Inserts, Patches, CreateRequest,
     CreateDetail, CreateProfileRequest, PatchesContact
<1>2. CASE CreateLocation(r)
  <2>1. locations' = [locations EXCEPT ![r] = call[r].row] /\ pc[r] = "create_location"
    BY <1>2 DEF CreateLocation
  <2>2. l = r
    BY <2>1 DEF Base, TypeOK
  <2> QED
    BY <1>2, <2>1, <2>2 DEF Base, TypeOK, RowsAreOwned, PcDesk
<1>3. CASE PatchesLocation(r)
  <2> DEFINE c == call[r]
  <2>1. /\ locations' = [locations EXCEPT ![c.id] = Patched(locations[c.id], c.body)]
        /\ Owned(c.id, c.donor) /\ c \in PatchCall(LocationIds)
    BY <1>3, OwnedByIsOwned DEF PatchesLocation, Base, LocalsFit, CallFits
  <2>2. l = c.id
    BY <2>1 DEF Base, TypeOK
  <2>3. locations[l] \in LocationRow
    BY <2>1, <2>2 DEF Owned, Base, TypeOK
  <2> QED
    BY <1>3, <2>1, <2>2, <2>3 DEF Owned, PatchCall, Base, TypeOK
<1> QED
  BY <1>1, <1>2, <1>3

LEMMA ContactsNext ==
  ASSUME Base, [Next]_vars, NEW l \in ContactIds, contacts'[l] # contacts[l]
  PROVE  \E r \in Requests :
           /\ PatchesContact(r) /\ call[r].id = l /\ call[r].body \in PatchBodies
           /\ contacts[l] \in ContactRow /\ call[r].donor = contacts[l].donor_id
           /\ contacts'[l] = Patched(contacts[l], call[r].body)
<1>1. PICK r \in Requests : PatchesContact(r)
  BY StepShape DEF vars, tables, EditStatuses, Moves, Begins, Looking, Starts, FindsDraft,
     FindsNoDraft, FindsFlagged, FindsNone, Ends, Inserts, Patches, CreateRequest,
     CreateDetail, CreateLocation, CreateProfileRequest, PatchesLocation
<1> DEFINE c == call[r]
<1>2. /\ contacts' = [contacts EXCEPT ![c.id] = Patched(contacts[c.id], c.body)]
      /\ contacts[c.id].donor_id = c.donor /\ c \in PatchCall(ContactIds)
  BY <1>1, OwnedByIsOwned DEF PatchesContact, Base, LocalsFit, CallFits
<1>3. l = c.id
  BY <1>2 DEF Base, TypeOK
<1> QED
  BY <1>1, <1>2, <1>3 DEF PatchCall, Base, TypeOK

-----------------------------------------------------------------------------
(* Locations and requests are never deleted and never change hands.        *)

LEMMA OwnedStays ==
  ASSUME Base, [Next]_vars, NEW l, NEW d, Owned(l, d)
  PROVE  Owned(l, d)'
<1>1. l \in LocationIds /\ locations[l] # NULL /\ locations[l].donor_id = d
  BY DEF Owned
<1>2. CASE locations'[l] = locations[l]
  BY <1>1, <1>2 DEF Owned
<1>3. CASE locations'[l] # locations[l]
  <2>1. PICK body \in PatchBodies :
          locations[l] \in LocationRow /\ locations'[l] = Patched(locations[l], body)
    BY <1>1, <1>3, LocationsNext
  <2>2. Patched(locations[l], body) # NULL
    BY <2>1, PatchedKeepsTypes, DeskNullAssumption
  <2> QED
    BY <1>1, <2>1, <2>2, PatchedLocation DEF Owned
<1> QED
  BY <1>2, <1>3

LEMMA AskedStays ==
  ASSUME Base, [Next]_vars, NEW q, NEW d, Asked(q, d)
  PROVE  Asked(q, d)'
  BY DonationsNext DEF Asked

LEMMA CallStillFits ==
  ASSUME Base, [Next]_vars, NEW at, NEW c, CallFits(at, c)
  PROVE  CallFits(at, c)'
<1>1. \A l, d : Owned(l, d) => Owned(l, d)'
  BY OwnedStays
<1>2. \A q, d : Asked(q, d) => Asked(q, d)'
  BY AskedStays
<1> QED
  BY <1>1, <1>2 DEF CallFits, DonationFits, LocationFits

-----------------------------------------------------------------------------
(* Base.                                                                   *)

LEMMA BaseAtFirst == Init => Base
<1> SUFFICES ASSUME Init PROVE Base
  OBVIOUS
<1>1. TypeOK
  <2>1. donations \in [DonationIds -> DonationRow \cup {NULL}]
    BY OldRowsAssumption DEF Init, Stored
  <2>2. locations \in [LocationIds -> LocationRow \cup {NULL}]
    BY OldRowsAssumption DEF Init, Stored
  <2>3. contacts \in [ContactIds -> ContactRow]
    BY OldRowsAssumption DEF Init
  <2> QED
    BY <2>1, <2>2, <2>3 DEF Init, TypeOK, InitHandlers, HandlersTyped, Errors
<1>2. RowsAreOwned
  BY OldRowsAssumption DEF Init, RowsAreOwned, Stored, DonationIds, LocationIds
<1>3. LocalsFit
  BY DEF Init, InitHandlers, LocalsFit, CallFits
<1> QED
  BY <1>1, <1>2, <1>3 DEF Base

\* A handler that has found its status holds the same row with that status.
LEMMA StartedFits ==
  ASSUME Base, NEW r \in Requests, NEW s, StartIn(r, s),
         pc[r] \in {"find_draft", "find_initial"},
         \/ s \in DraftsFor(call[r].row.organization_id)
         \/ s \in OfOrg(statuses.initials, call[r].row.organization_id)
  PROVE  /\ call'[r] \in DeskCall /\ CallFits("create_request", call'[r])
         /\ call'[r].row.organization_id = call[r].row.organization_id
         /\ call'[r].row.current_status_id = s /\ s # NULL
<1> DEFINE c == call[r]
           new == [c.row EXCEPT !.current_status_id = s]
<1>1. /\ c \in InsertCall(DonationRow) /\ c.row.donor_id = c.donor
      /\ DonationFits(c.row) /\ Owned(c.row.pickup_location_id, c.donor)
  BY DEF Base, LocalsFit, CallFits
<1>2. s \in Statuses /\ StatusOrg[s] = c.row.organization_id
  BY DonorAssumption DEF DraftsFor, OfOrg, Base, TypeOK
<1>3. /\ new \in DonationRow /\ new.donor_id = c.row.donor_id
      /\ new.organization_id = c.row.organization_id
      /\ new.pickup_location_id = c.row.pickup_location_id
      /\ new.branch_id = c.row.branch_id
      /\ new.current_status_id = s
  BY <1>1, <1>2 DEF InsertCall, DonationRow
<1>4. call'[r] = [c EXCEPT !.row = new]
  BY DEF StartIn, AwaitWith, Base, TypeOK, HandlersTyped
<1>5. /\ call'[r] \in InsertCall(DonationRow)
      /\ call'[r].donor = c.donor /\ call'[r].row = new
  BY <1>1, <1>3, <1>4 DEF InsertCall
<1>6. DonationFits(new)
  BY <1>1, <1>2, <1>3 DEF DonationFits
<1>7. call'[r] \in DeskCall /\ CallFits("create_request", call'[r])
  BY <1>1, <1>3, <1>5, <1>6 DEF DeskCall, CallFits
<1>8. s # NULL
  BY <1>2, DonorAssumption
<1> QED
  BY <1>3, <1>5, <1>7, <1>8

LEMMA HandlersStayTyped ==
  ASSUME Base, [Next]_vars
  PROVE  HandlersTyped(PcDesk, DeskCall)'
<1> USE DEF Base, TypeOK
<1>1. CASE UNCHANGED vars \/ EditStatuses
  BY <1>1 DEF vars, handlers, EditStatuses, HandlersTyped
<1>2. ASSUME NEW r \in Requests, Begins(r) PROVE HandlersTyped(PcDesk, DeskCall)'
  BY <1>2 DEF Begins, Begin, HandlersTyped
<1>3. ASSUME NEW r \in Requests, Starts(r) PROVE HandlersTyped(PcDesk, DeskCall)'
  <2>1. PICK s : /\ StartIn(r, s) /\ pc[r] \in {"find_draft", "find_initial"}
                 /\ \/ s \in DraftsFor(call[r].row.organization_id)
                    \/ s \in OfOrg(statuses.initials, call[r].row.organization_id)
    BY <1>3 DEF Starts, FindsDraft, FindsFlagged
  <2>2. call'[r] \in DeskCall
    BY <2>1, StartedFits
  <2>3. AwaitWith(r, "create_request", call'[r])
    BY <2>1 DEF StartIn, AwaitWith, HandlersTyped
  <2> QED
    BY <2>2, <2>3 DEF AwaitWith, HandlersTyped, PcDesk
<1>4. ASSUME NEW r \in Requests, FindsNoDraft(r) \/ FindsNone(r)
      PROVE  HandlersTyped(PcDesk, DeskCall)'
  BY <1>4 DEF FindsNoDraft, FindsNone, Await, HandlersTyped, PcDesk
<1>5. ASSUME NEW r \in Requests, Ends(r) PROVE HandlersTyped(PcDesk, DeskCall)'
  BY <1>5 DEF Ends, Respond, HandlersTyped
<1>6. ASSUME NEW r \in Requests, Inserts(r) \/ Patches(r)
      PROVE  HandlersTyped(PcDesk, DeskCall)'
  BY <1>6, WritersGoOn DEF Await, HandlersTyped
<1> QED
  BY <1>1, <1>2, <1>3, <1>4, <1>5, <1>6, StepShape DEF Moves, Looking

\* A step changes the domain of no table.
LEMMA TablesStayFunctions ==
  ASSUME Base, [Next]_vars
  PROVE  /\ DOMAIN donations' = DonationIds /\ donations' = [l \in DonationIds |-> donations'[l]]
         /\ DOMAIN details' = Requests /\ details' = [l \in Requests |-> details'[l]]
         /\ DOMAIN locations' = LocationIds /\ locations' = [l \in LocationIds |-> locations'[l]]
         /\ DOMAIN contacts' = ContactIds /\ contacts' = [l \in ContactIds |-> contacts'[l]]
         /\ DOMAIN profiles' = Requests /\ profiles' = [l \in Requests |-> profiles'[l]]
<1> USE DEF Base, TypeOK
<1>1. CASE UNCHANGED tables
  BY <1>1 DEF tables
<1>2. ASSUME NEW r \in Requests, Inserts(r)
      PROVE  /\ donations' \in {donations, [donations EXCEPT ![r] = call[r].row]}
             /\ details' \in {details, [details EXCEPT ![r] = call[r].row]}
             /\ locations' \in {locations, [locations EXCEPT ![r] = call[r].row]}
             /\ profiles' \in {profiles, [profiles EXCEPT ![r] = call[r].row]}
             /\ contacts' = contacts
  BY <1>2 DEF Inserts, CreateRequest, CreateDetail, CreateLocation, CreateProfileRequest
<1>3. ASSUME NEW r \in Requests, Patches(r)
      PROVE  LET id == call[r].id
                 body == call[r].body
             IN /\ locations' \in {locations, [locations EXCEPT ![id] = Patched(@, body)]}
                /\ contacts' \in {contacts, [contacts EXCEPT ![id] = Patched(@, body)]}
                /\ UNCHANGED <<donations, details, profiles>>
  BY <1>3 DEF Patches, PatchesLocation, PatchesContact
<1>4. CASE UNCHANGED vars \/ EditStatuses
  BY <1>1, <1>4 DEF vars, tables, EditStatuses
<1>5. ASSUME NEW r \in Requests, Begins(r) \/ Looking(r) \/ Ends(r)
      PROVE  UNCHANGED tables
  BY <1>5 DEF Begins, Looking, Starts, FindsDraft, FindsNoDraft, FindsFlagged, FindsNone, Ends
<1> QED
  BY <1>1, <1>2, <1>3, <1>4, <1>5, StepShape DEF Moves

LEMMA TypeOKIsKept ==
  ASSUME Base, [Next]_vars
  PROVE  TypeOK'
<1>1. ASSUME NEW q \in DonationIds PROVE donations'[q] \in DonationRow \cup {NULL}
  BY <1>1, DonationsNext, InsertedRowFits DEF Base, TypeOK
<1>2. ASSUME NEW l \in Requests PROVE details'[l] \in DetailRow \cup {NULL}
  BY <1>2, DetailsNext, InsertedRowFits DEF Base, TypeOK
<1>3. ASSUME NEW l \in LocationIds PROVE locations'[l] \in LocationRow \cup {NULL}
  BY <1>3, LocationsNext, InsertedRowFits, PatchedKeepsTypes DEF Base, TypeOK
<1>4. ASSUME NEW l \in ContactIds PROVE contacts'[l] \in ContactRow
  BY <1>4, ContactsNext, PatchedKeepsTypes DEF Base, TypeOK
<1>5. ASSUME NEW l \in Requests PROVE profiles'[l] \in ProfileRow \cup {NULL}
  BY <1>5, ProfilesNext, InsertedRowFits DEF Base, TypeOK
<1>6. statuses' \in StatusSettings /\ stirred' \in SUBSET Requests
  BY StepShape DEF vars, settings, EditStatuses, Moves, Begins, Looking, Starts, FindsDraft,
     FindsNoDraft, FindsFlagged, FindsNone, Ends, Inserts, Patches, CreateRequest, CreateDetail,
     CreateLocation, CreateProfileRequest, PatchesLocation, PatchesContact, Base, TypeOK
<1> QED
  BY <1>1, <1>2, <1>3, <1>4, <1>5, <1>6, TablesStayFunctions, HandlersStayTyped DEF TypeOK

LEMMA RowsAreOwnedIsKept ==
  ASSUME Base, [Next]_vars
  PROVE  RowsAreOwned'
<1> SUFFICES ASSUME NEW r \in Requests, pc'[r] \in PcDesk \cup {"idle"}
             PROVE  /\ donations'[r] = NULL /\ details'[r] = NULL
                    /\ locations'[r] = NULL /\ profiles'[r] = NULL
  BY DEF RowsAreOwned
<1>1. pc[r] \in PcDesk \cup {"idle"}
  BY StepShape, WritersGoOn DEF Base, TypeOK, HandlersTyped, PcDesk, vars, handlers, EditStatuses,
     Moves, Begins, Looking, Starts, FindsDraft, FindsNoDraft, FindsFlagged, FindsNone, Ends,
     StartIn, Begin, Await, AwaitWith, Respond
<1>2. donations[r] = NULL /\ details[r] = NULL /\ locations[r] = NULL /\ profiles[r] = NULL
  BY <1>1 DEF Base, RowsAreOwned
<1>3. r \in DonationIds /\ r \in LocationIds
  BY DEF DonationIds, LocationIds
<1>4. ~CreateRequest(r) /\ ~CreateDetail(r) /\ ~CreateLocation(r) /\ ~CreateProfileRequest(r)
  BY WriterIsAt DEF PcDesk
<1>5. donations'[r] = NULL /\ details'[r] = NULL /\ profiles'[r] = NULL
  BY <1>2, <1>3, <1>4, DonationsNext, DetailsNext, ProfilesNext
<1>6. locations'[r] = NULL
  BY <1>2, <1>3, <1>4, LocationsNext, DeskNullAssumption
<1> QED
  BY <1>5, <1>6

LEMMA LocalsFitIsKept ==
  ASSUME Base, [Next]_vars
  PROVE  LocalsFit'
<1> SUFFICES ASSUME NEW r \in Requests
             PROVE  CallFits(pc[r], call[r])'
  BY DEF LocalsFit
<1>1. CallFits(pc[r], call[r])
  BY DEF Base, LocalsFit
<1>2. CASE pc'[r] \in {"respond", "done"}
  BY <1>2 DEF CallFits
<1>3. CASE \E at, c : at = pc'[r] /\ c = call'[r] /\ CallFits(at, c)
  <2>1. PICK at, c : at = pc'[r] /\ c = call'[r] /\ CallFits(at, c)
    BY <1>3
  <2>2. CallFits(at, c)'
    BY <2>1, CallStillFits
  <2> QED
    BY <2>1, <2>2 DEF CallFits
<1>4. CASE pc'[r] = pc[r] /\ call'[r] = call[r]
  BY <1>1, <1>3, <1>4
<1>5. CASE Begins(r)
  <2>1. \E at, c : at = pc'[r] /\ c = call'[r] /\ CallFits(at, c)
    BY <1>5 DEF Begins, Begin, Base, TypeOK, HandlersTyped
  <2> QED
    BY <1>3, <2>1
<1>6. CASE Starts(r)
  <2>1. PICK s : /\ StartIn(r, s) /\ pc[r] \in {"find_draft", "find_initial"}
                 /\ \/ s \in DraftsFor(call[r].row.organization_id)
                    \/ s \in OfOrg(statuses.initials, call[r].row.organization_id)
    BY <1>6 DEF Starts, FindsDraft, FindsFlagged
  <2>2. CallFits("create_request", call'[r]) /\ pc'[r] = "create_request"
    BY <2>1, StartedFits DEF StartIn, AwaitWith, Base, TypeOK, HandlersTyped
  <2> QED
    BY <1>3, <2>2
<1>7. CASE FindsNoDraft(r) \/ FindsNone(r)
  <2>1. /\ pc[r] \in {"find_draft", "find_initial"}
        /\ pc'[r] \in {"find_initial", "create_request"} /\ call'[r] = call[r]
    BY <1>7 DEF FindsNoDraft, FindsNone, Await, Base, TypeOK, HandlersTyped
  <2>2. CallFits(pc'[r], call[r])
    BY <1>1, <2>1 DEF CallFits
  <2> QED
    BY <1>3, <2>1, <2>2
<1> QED
  BY <1>2, <1>4, <1>5, <1>6, <1>7, StepShape, WritersGoOn
     DEF Base, TypeOK, HandlersTyped, vars, handlers, EditStatuses, Moves, Begins, Looking,
         Starts, FindsDraft, FindsNoDraft, FindsFlagged, FindsNone, Ends,
         StartIn, Begin, Await, AwaitWith, Respond

LEMMA BaseIsKept ==
  ASSUME Base, [Next]_vars
  PROVE  Base'
  BY TypeOKIsKept, RowsAreOwnedIsKept, LocalsFitIsKept DEF Base

-----------------------------------------------------------------------------
(* A donor's rows make one family.                                         *)

LEMMA HangsTogetherAtFirst == Init => DeskHangsTogether
<1> SUFFICES ASSUME Init PROVE DeskHangsTogether
  OBVIOUS
<1>1. \A l \in DOMAIN OldLocations :
        l \in LocationIds /\ locations[l] = OldLocations[l] /\ locations[l] # NULL
  BY OldRowsAssumption, DeskNullAssumption DEF Init, Stored, LocationIds
<1>2. ASSUME NEW q \in Rows(donations)
      PROVE  q \in DOMAIN OldDonations /\ donations[q] = OldDonations[q]
  BY <1>2 DEF Rows, Init, Stored
<1>3. \A l \in Rows(locations) : LocationFits(locations[l])
  BY OldRowsAssumption DEF Rows, Init, Stored
<1>4. Rows(details) = {}
  BY DEF Rows, Init
<1> QED
  BY <1>1, <1>2, <1>3, <1>4, OldRowsAssumption DEF DeskHangsTogether

LEMMA HangsTogetherIsKept ==
  ASSUME Base, DeskHangsTogether, [Next]_vars
  PROVE  DeskHangsTogether'
<1>0. /\ DOMAIN donations = DonationIds /\ DOMAIN locations = LocationIds
      /\ DOMAIN details = Requests
      /\ DOMAIN donations' = DonationIds /\ DOMAIN locations' = LocationIds
      /\ DOMAIN details' = Requests
  BY TablesStayFunctions DEF Base, TypeOK
<1>1. ASSUME NEW q \in DonationIds, donations'[q] # NULL
      PROVE  /\ DonationFits(donations'[q])
             /\ \E l, d : /\ l = donations'[q].pickup_location_id
                          /\ d = donations'[q].donor_id
                          /\ Owned(l, d)'
  <2>1. /\ DonationFits(donations'[q])
        /\ \E l, d : /\ l = donations'[q].pickup_location_id
                     /\ d = donations'[q].donor_id
                     /\ Owned(l, d)
    <3>1. CASE donations'[q] = donations[q]
      BY <1>0, <1>1, <3>1 DEF DeskHangsTogether, Rows, Owned, Base, TypeOK, DonationRow
    <3>2. CASE donations'[q] # donations[q]
      BY <3>2, DonationsNext, InsertedRowFits
    <3> QED
      BY <3>1, <3>2
  <2> QED
    BY <2>1, OwnedStays
<1>2. ASSUME NEW l \in LocationIds, locations'[l] # NULL
      PROVE  LocationFits(locations'[l])
  <2>1. CASE locations'[l] = locations[l]
    BY <1>0, <1>2, <2>1 DEF DeskHangsTogether, Rows
  <2>2. CASE l \in Requests /\ CreateLocation(l) /\ locations'[l] = call[l].row
    BY <2>2, InsertedRowFits
  <2>3. CASE \E body \in PatchBodies :
               locations[l] \in LocationRow /\ locations'[l] = Patched(locations[l], body)
    <3>1. LocationFits(locations[l])
      BY <1>0, <2>3, DeskNullAssumption DEF DeskHangsTogether, Rows
    <3> QED
      BY <2>3, <3>1, PatchedLocation DEF LocationFits
  <2> QED
    BY <2>1, <2>2, <2>3, LocationsNext
<1>3. ASSUME NEW l \in Requests, details'[l] # NULL
      PROVE  donations'[details'[l].donation_request_id] # NULL
  <2>1. \E q, d : q = details'[l].donation_request_id /\ Asked(q, d)
    <3>1. CASE details'[l] = details[l]
      BY <1>0, <1>3, <3>1 DEF DeskHangsTogether, Rows, Asked, Base, TypeOK, DetailRow
    <3>2. CASE details'[l] # details[l]
      BY <3>2, DetailsNext, InsertedRowFits
    <3> QED
      BY <3>1, <3>2
  <2>2. \E q, d : q = details'[l].donation_request_id /\ Asked(q, d)'
    BY <2>1, AskedStays
  <2> QED
    BY <2>2 DEF Asked
<1> QED
  BY <1>0, <1>1, <1>2, <1>3 DEF DeskHangsTogether, Rows, Owned

-----------------------------------------------------------------------------
(* What steps may do.                                                      *)

\* The handler that writes a row is the one that moves, and its donor's.
LEMMA WritesAreForDonors ==
  ASSUME Base, [Next]_vars
  PROVE  WritesForDonors
<1>0. /\ DOMAIN donations = DonationIds /\ DOMAIN locations = LocationIds
      /\ DOMAIN contacts = ContactIds /\ DOMAIN details = Requests /\ DOMAIN profiles = Requests
  BY DEF Base, TypeOK
<1>1. ASSUME NEW q \in DonationIds, donations'[q] # donations[q]
      PROVE  donations[q] = NULL /\ WrittenFor(donations'[q].donor_id)
  BY <1>1, DonationsNext, InsertedRowFits, WriterIsAt DEF WrittenFor
<1>2. ASSUME NEW l \in Requests, details'[l] # details[l]
      PROVE  details[l] = NULL /\ WrittenFor(donations[details'[l].donation_request_id].donor_id)
  BY <1>2, DetailsNext, InsertedRowFits, WriterIsAt DEF WrittenFor, Asked
<1>3. ASSUME NEW l \in Requests, profiles'[l] # profiles[l]
      PROVE  profiles[l] = NULL /\ WrittenFor(profiles'[l].donor_id)
  BY <1>3, ProfilesNext, InsertedRowFits, WriterIsAt DEF WrittenFor
<1>4. ASSUME NEW l \in LocationIds, locations'[l] # locations[l]
      PROVE  IF locations[l] = NULL THEN WrittenFor(locations'[l].donor_id)
             ELSE SentByDonor("update_location", l, locations[l], locations'[l])
  <2>1. CASE l \in Requests /\ CreateLocation(l) /\ locations[l] = NULL
               /\ locations'[l] = call[l].row
    BY <2>1, InsertedRowFits, WriterIsAt DEF WrittenFor
  <2>2. CASE \E r \in Requests :
               /\ PatchesLocation(r) /\ call[r].id = l
               /\ locations[l] \in LocationRow /\ call[r].donor = locations[l].donor_id
               /\ locations'[l] = Patched(locations[l], call[r].body)
    <3>1. PICK r \in Requests :
               /\ PatchesLocation(r) /\ call[r].id = l
               /\ locations[l] \in LocationRow /\ call[r].donor = locations[l].donor_id
               /\ locations'[l] = Patched(locations[l], call[r].body)
      BY <2>2
    <3>2. pc[r] = "update_location" /\ locations[l] # NULL
      BY <3>1, WriterIsAt, DeskNullAssumption
    <3>3. /\ [locations'[l] EXCEPT !.data = locations[l].data] = locations[l]
          /\ \A k \in Columns : locations'[l].data[k] =
               IF k \in DOMAIN call[r].body THEN call[r].body[k] ELSE locations[l].data[k]
      BY <3>1, PatchedLocation
    <3> QED
      BY <3>1, <3>2, <3>3 DEF SentByDonor
  <2> QED
    BY <1>4, <2>1, <2>2, LocationsNext
<1>5. ASSUME NEW l \in ContactIds, contacts'[l] # contacts[l]
      PROVE  SentByDonor("update_contact", l, contacts[l], contacts'[l])
  <2>1. PICK r \in Requests :
          /\ PatchesContact(r) /\ call[r].id = l
          /\ contacts[l] \in ContactRow /\ call[r].donor = contacts[l].donor_id
          /\ contacts'[l] = Patched(contacts[l], call[r].body)
    BY <1>5, ContactsNext
  <2>2. pc[r] = "update_contact"
    BY <2>1, WriterIsAt
  <2>3. /\ [contacts'[l] EXCEPT !.data = contacts[l].data] = contacts[l]
        /\ \A k \in Columns : contacts'[l].data[k] =
             IF k \in DOMAIN call[r].body THEN call[r].body[k] ELSE contacts[l].data[k]
    BY <2>1, PatchedContact
  <2> QED
    BY <2>1, <2>2, <2>3 DEF SentByDonor
<1> QED
  BY <1>0, <1>1, <1>2, <1>3, <1>4, <1>5 DEF Written, WritesForDonors

-----------------------------------------------------------------------------
(* The status a request starts in.                                         *)

\* Who edits statuses marks all handlers that may have looked at them.
LEMMA LooksIsKept ==
  ASSUME Base, Looks, [Next]_vars
  PROVE  Looks'
<1>1. CASE EditStatuses
  BY <1>1 DEF EditStatuses, handlers, Looks, InFlight
<1>2. CASE UNCHANGED vars
  BY <1>2 DEF vars, Looks, InitialStatuses, DraftsFor
<1>3. ASSUME NEW r \in Requests, Moves(r) PROVE Looks'
  <2>1. UNCHANGED settings
    BY <1>3 DEF Moves, Begins, Looking, Starts, FindsDraft, FindsNoDraft, FindsFlagged,
       FindsNone, Ends, Inserts, Patches, CreateRequest, CreateDetail, CreateLocation,
       CreateProfileRequest, PatchesLocation, PatchesContact
  <2>2. \A org : /\ DraftsFor(org)' = DraftsFor(org)
                 /\ InitialStatuses(org)' = InitialStatuses(org)
    BY <2>1 DEF settings, DraftsFor, InitialStatuses, OfOrg
  <2>3. \A p \in Requests \ {r} : pc'[p] = pc[p] /\ call'[p] = call[p]
    BY <1>3, WritersGoOn DEF Moves, Begins, Looking, Starts, FindsDraft, FindsNoDraft,
       FindsFlagged, FindsNone, Ends, StartIn, Begin, Await, AwaitWith, Respond,
       Base, TypeOK, HandlersTyped
  <2> DEFINE org == call[r].row.organization_id
             org1 == call'[r].row.organization_id
             status1 == call'[r].row.current_status_id
  <2>4. CASE pc'[r] \notin {"find_initial", "create_request"}
    BY <2>1, <2>2, <2>3, <2>4 DEF Looks, settings
  <2>5. CASE FindsDraft(r)
    <3>1. PICK s \in DraftsFor(org) : StartIn(r, s) /\ pc[r] = "find_draft"
      BY <2>5 DEF FindsDraft
    <3>2. org1 = org /\ status1 = s /\ pc'[r] = "create_request"
      BY <3>1, StartedFits DEF StartIn, AwaitWith, Base, TypeOK, HandlersTyped
    <3>3. s \in InitialStatuses(org)
      BY <3>1 DEF DraftsFor, InitialStatuses
    <3> QED
      BY <2>1, <2>2, <2>3, <3>2, <3>3 DEF Looks, settings
  <2>6. CASE FindsNoDraft(r)
    <3>1. call'[r] = call[r] /\ pc'[r] = "find_initial" /\ DraftsFor(org) = {}
      BY <2>6 DEF FindsNoDraft, Await, Base, TypeOK, HandlersTyped
    <3> QED
      BY <2>1, <2>2, <2>3, <3>1 DEF Looks, settings
  <2>7. CASE FindsFlagged(r)
    <3>1. PICK s \in OfOrg(statuses.initials, org) : StartIn(r, s) /\ pc[r] = "find_initial"
      BY <2>7 DEF FindsFlagged
    <3>2. org1 = org /\ status1 = s /\ pc'[r] = "create_request"
      BY <3>1, StartedFits DEF StartIn, AwaitWith, Base, TypeOK, HandlersTyped
    <3>3. r \notin stirred => s \in InitialStatuses(org)
      BY <3>1 DEF Looks, DraftsFor, InitialStatuses
    <3> QED
      BY <2>1, <2>2, <2>3, <3>2, <3>3 DEF Looks, settings
  <2>8. CASE FindsNone(r)
    <3>1. /\ call'[r] = call[r] /\ pc[r] = "find_initial" /\ pc'[r] = "create_request"
          /\ OfOrg(statuses.initials, org) = {}
      BY <2>8 DEF FindsNone, Await, Base, TypeOK, HandlersTyped
    <3>2. call[r].row.current_status_id = NULL
      BY <3>1 DEF Base, LocalsFit, CallFits
    <3>3. r \notin stirred => InitialStatuses(org) = {NULL}
      BY <3>1 DEF Looks, DraftsFor, InitialStatuses
    <3> QED
      BY <2>1, <2>2, <2>3, <3>1, <3>2, <3>3 DEF Looks, settings
  <2> QED
    BY <1>3, <2>4, <2>5, <2>6, <2>7, <2>8, WritersGoOn DEF Moves, Begins, Looking, Starts,
       Ends, Begin, Await, Respond, PcDesk, Base, TypeOK, HandlersTyped
<1> QED
  BY <1>1, <1>2, <1>3, StepShape

LEMMA StartsAreInitial ==
  ASSUME Base, Looks, [Next]_vars
  PROVE  StartsInitial
<1> SUFFICES ASSUME NEW q \in DonationIds, donations'[q] # donations[q], q \notin stirred
             PROVE  donations'[q].current_status_id
                      \in InitialStatuses(donations'[q].organization_id)
  BY DEF StartsInitial, Written, Base, TypeOK
<1> QED
  BY DonationsNext, WriterIsAt DEF Looks

-----------------------------------------------------------------------------

LEMMA InvHolds == Spec => []Inv
<1>1. Init => Inv
  BY BaseAtFirst, HangsTogetherAtFirst DEF Inv
<1>2. Inv /\ [Next]_vars => Inv'
  BY BaseIsKept, HangsTogetherIsKept DEF Inv
<1> QED
  BY <1>1, <1>2, PTL DEF Spec

\* The five tables and the locals of their handlers keep their types.
THEOREM DeskTypeCorrect == Spec => []TypeOK
  BY InvHolds, PTL DEF Inv, Base

\* Requests, their locations, branches, statuses and details belong together.
THEOREM DeskAlwaysHangsTogether == Spec => []DeskHangsTogether
  BY InvHolds, PTL DEF Inv

\* No handler writes another donor's row, or a column it was not sent.
THEOREM WritesAlwaysStayWithTheDonor == Spec => WritesStayWithTheDonor
<1>1. Inv /\ [Next]_vars => [WritesForDonors]_vars
  BY WritesAreForDonors DEF Inv
<1> QED
  BY <1>1, InvHolds, PTL DEF Spec, WritesStayWithTheDonor

\* A request starts in an initial status unless statuses were edited while
\* its handler ran.
THEOREM RequestsAlwaysStartInitial == Spec => RequestsStartInitial
<1>1. Init => Looks
  BY DEF Init, InitHandlers, Looks
<1>2. Inv /\ Looks /\ [Next]_vars => Looks'
  BY LooksIsKept DEF Inv
<1>3. Inv /\ Looks /\ [Next]_vars => [StartsInitial]_vars
  BY StartsAreInitial DEF Inv
<1> QED
  BY <1>1, <1>2, <1>3, InvHolds, PTL DEF Spec, RequestsStartInitial

=============================================================================
