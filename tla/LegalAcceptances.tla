-------------------------- MODULE LegalAcceptances --------------------------
(***************************************************************************)
(* POST /ops/legal-acceptances: an append-only row that says who agreed to *)
(* which text and when.  The documents are edited by others, and the clock *)
(* runs while a handler waits.                                             *)
(***************************************************************************)
EXTENDS CallerScope, Naturals

CONSTANTS
  Documents, DocumentOrg,
  Texts,
  MaxNow,              \* bound: the clock stops there
  DocumentStates,      \* the states legal_documents may be edited into
  LegalDonors, LegalDonorOrg,
  AcceptanceBodies     \* bodies of POST

Times == 0..MaxNow

\* NULL is no bound on that side.
Document ==
  [content_body : Texts, effective_from : Times \cup {NULL}, effective_to : Times \cup {NULL}]

AcceptanceBody ==
  [legal_document_id : Documents, user_id : Callers \cup {NULL},
   donor_id : LegalDonors \cup {NULL}, accepted_at : Times \cup {NULL},
   acceptance_text_snapshot : Texts \cup {NULL}]

AcceptanceRow ==
  [organization_id : Orgs, legal_document_id : Documents, user_id : Callers \cup {NULL},
   donor_id : LegalDonors \cup {NULL}, accepted_at : Times,
   acceptance_text_snapshot : Texts]

ASSUME LegalAssumption ==
  /\ MaxNow \in Nat
  /\ DocumentOrg \in [Documents -> Orgs]
  /\ DocumentStates \subseteq [Documents -> Document]
  /\ LegalDonorOrg \in [LegalDonors -> Orgs]
  /\ AcceptanceBodies \subseteq AcceptanceBody
  /\ NULL \notin Texts
  /\ NULL \notin LegalDonors
  /\ NULL \notin Times

VARIABLES
  acceptances,   \* legal_acceptances
  documents,     \* legal_documents
  now            \* the clock

legalVars == <<acceptances, documents, now>>

\* What a handler holds: the body, with the document's text or the row to insert.
LegalCall ==
  [user : Callers, body : AcceptanceBody, row : AcceptanceRow] \cup
  [user : Callers, body : AcceptanceBody, text : Texts]

PcLegal == {"find_document_donor", "create_acceptance"}

LegalTyped ==
  /\ acceptances \in [Requests -> AcceptanceRow \cup {NULL}]
  /\ documents \in DocumentStates
  /\ now \in Times

InitLegal ==
  /\ acceptances = [l \in Requests |-> NULL]
  /\ documents \in DocumentStates
  /\ now = 0

-----------------------------------------------------------------------------

\* Mutant: a document counts until it is replaced.
IsLegalDocumentCurrentlyEffective_NoEnd(doc, time) ==
  doc.effective_from # NULL => doc.effective_from <= time

IsLegalDocumentCurrentlyEffective(doc, time) ==
  /\ doc.effective_from # NULL => doc.effective_from <= time
  /\ doc.effective_to # NULL => time <= doc.effective_to

\* The row as it is built: a time that is not sent is the present one.
NewAcceptance(body, text) ==
  [organization_id |-> DocumentOrg[body.legal_document_id],
   legal_document_id |-> body.legal_document_id,
   user_id |-> body.user_id, donor_id |-> body.donor_id,
   accepted_at |-> IF body.accepted_at = NULL THEN now ELSE body.accepted_at,
   acceptance_text_snapshot |->
     IF body.acceptance_text_snapshot = NULL THEN text ELSE body.acceptance_text_snapshot]

\* Exactly one of user and donor.
OneActor(body) == (body.user_id # NULL) # (body.donor_id # NULL)

RefuseActors(r) ==
  /\ RequireOps(r)
  /\ \E body \in AcceptanceBodies : ~OneActor(body)
  /\ Respond(r, "VALIDATION_ERROR")
  /\ UNCHANGED legalVars

\* The document is found in the caller's organizations and in force.
Acceptable(r, body) ==
  /\ DocumentOrg[body.legal_document_id] \in CollectOrganizationIds(call[r])
  /\ IsLegalDocumentCurrentlyEffective(documents[body.legal_document_id], now)

CreateLegalAcceptance(r) ==
  /\ RequireOps(r)
  /\ \E body \in AcceptanceBodies :
       LET text == documents[body.legal_document_id].content_body
       IN /\ OneActor(body)
          /\ Acceptable(r, body)
          /\ \/ /\ body.user_id = call[r].user
                /\ AwaitWith(r, "create_acceptance",
                             [user |-> call[r].user, body |-> body,
                              row |-> NewAcceptance(body, text)])
             \/ /\ body.user_id \notin {call[r].user, NULL}
                /\ Respond(r, "FORBIDDEN")
             \/ /\ body.donor_id # NULL
                /\ AwaitWith(r, "find_document_donor",
                             [user |-> call[r].user, body |-> body, text |-> text])
  /\ UNCHANGED legalVars

RefuseDocument(r) ==
  /\ RequireOps(r)
  /\ \E body \in AcceptanceBodies :
       LET visible == DocumentOrg[body.legal_document_id] \in CollectOrganizationIds(call[r])
       IN /\ OneActor(body)
          /\ ~Acceptable(r, body)
          /\ Respond(r, IF visible THEN "BAD_REQUEST" ELSE "NOT_FOUND")
  /\ UNCHANGED legalVars

FindDocumentDonor(r) ==
  LET body == call[r].body
      fits == LegalDonorOrg[body.donor_id] = DocumentOrg[body.legal_document_id]
  IN /\ pc[r] = "find_document_donor"
     /\ \/ ~fits /\ Respond(r, "NOT_FOUND")
        \/ fits /\ AwaitWith(r, "create_acceptance",
                             [user |-> call[r].user, body |-> body,
                              row |-> NewAcceptance(body, call[r].text)])
     /\ UNCHANGED legalVars

InsertAcceptance(r) ==
  /\ pc[r] = "create_acceptance"
  /\ acceptances' = [acceptances EXCEPT ![r] = call[r].row]
  /\ Await(r, "respond")
  /\ UNCHANGED <<documents, now>>

\* No code here writes legal_documents.
EditDocuments ==
  /\ documents' \in DocumentStates \ {documents}
  /\ UNCHANGED <<acceptances, now, handlers>>

Tick ==
  /\ now < MaxNow
  /\ now' = now + 1
  /\ UNCHANGED <<acceptances, documents, handlers>>

NextLegal(r) ==
  \/ RefuseActors(r) \/ RefuseDocument(r)
  \/ CreateLegalAcceptance(r) \/ FindDocumentDonor(r) \/ InsertAcceptance(r)

=============================================================================
