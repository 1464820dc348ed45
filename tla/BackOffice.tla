----------------------------- MODULE BackOffice -----------------------------
(***************************************************************************)
(* The back office as a whole: whoever calls signs in, his organizations   *)
(* are read once, and then he writes messages, acceptances and             *)
(* configurations, or reads these, logs and what donors were awarded,      *)
(* while webhooks come in and others edit accounts, documents and          *)
(* providers.                                                              *)
(***************************************************************************)
EXTENDS RecognitionReads

VARIABLES
  seen,      \* history: the organizations the caller had since his request began
  stirred    \* history: requests in flight when documents or providers changed

vars == <<accounts, commsVars, legalVars, integrationVars, seen, stirred, handlers>>

Calls ==
  Context \cup CommsCall \cup LegalCall \cup IntegrationCall \cup ReadCall \cup RecognitionCall

TypeOK ==
  /\ accounts \in AccountStates
  /\ CommsTyped
  /\ LegalTyped
  /\ IntegrationsTyped
  /\ seen \in [Requests -> SUBSET Orgs]
  /\ stirred \in SUBSET Requests
  /\ HandlersTyped(UNION {PcScope, PcComms, PcLegal, PcIntegrations, PcReads,
                          PcRecognitionReads}, Calls)

Init ==
  /\ accounts \in AccountStates
  /\ InitComms
  /\ InitLegal
  /\ InitIntegrations
  /\ seen = [r \in Requests |-> {}]
  /\ stirred = {}
  /\ InitHandlers

\* The organizations a caller is a member of at present.
MemberNow(user) == {m.organizationId : m \in Owned(accounts[user]).memberships}

Answer(r) == pc[r] = "respond" /\ Respond(r, "OK")

\* The histories, of requests in flight only.
Observe ==
  /\ seen' = [r \in Requests |->
               IF ~InFlight(r)' \/ call'[r].user = NULL THEN {}
               ELSE seen[r] \cup MemberNow(call[r].user)']
  /\ stirred' = {r \in Requests :
                  /\ InFlight(r)'
                  /\ \/ r \in stirred
                     \/ InFlight(r) /\ <<documents, active>>' # <<documents, active>>}

Step ==
  \/ \E r \in Requests :
       \/ NextScope(r) /\ UNCHANGED <<commsVars, legalVars, integrationVars>>
       \/ NextComms(r) /\ UNCHANGED <<accounts, legalVars, integrationVars>>
       \/ NextLegal(r) /\ UNCHANGED <<accounts, commsVars, integrationVars>>
       \/ NextIntegrations(r) /\ UNCHANGED <<accounts, commsVars, legalVars>>
       \/ NextReads(r)
       \/ NextRecognitionReads(r)
       \/ /\ Answer(r) \/ FailCall(r)
          /\ UNCHANGED officeVars
  \/ EditAccounts /\ UNCHANGED <<commsVars, legalVars, integrationVars>>
  \/ EditDocuments /\ UNCHANGED <<accounts, commsVars, integrationVars>>
  \/ Tick /\ UNCHANGED <<accounts, commsVars, integrationVars>>
  \/ SwitchProviders /\ UNCHANGED <<accounts, commsVars, legalVars>>

Next == Step /\ Observe

Spec == Init /\ [][Next]_vars

-----------------------------------------------------------------------------
(* Properties.                                                             *)

\* Template and message, provider and configuration or event, document, donor
\* and acceptance are of one organization, whichever of the ids a body names,
\* and recipients hang from stored notifications.
OrgsAgree ==
  /\ \A table \in {notifications, campaigns} : \A l \in Rows(table) :
       table[l].template_id # NULL =>
         TemplateOrg[table[l].template_id] = table[l].organization_id
  /\ \A l \in Rows(recipients) : notifications[recipients[l].notification_id] # NULL
  /\ \A table \in {configurations, events} : \A l \in Rows(table) :
       ProviderOrg[table[l].provider_id] = table[l].organization_id
  /\ \A l \in Rows(acceptances) :
       LET row == acceptances[l]
       IN /\ DocumentOrg[row.legal_document_id] = row.organization_id
          /\ row.donor_id # NULL => LegalDonorOrg[row.donor_id] = row.organization_id

\* Whoever takes the step was a member of the organization at some time since
\* his request began.
WrittenWithin(org) ==
  \E r \in Requests : pc'[r] # pc[r] /\ org \in seen[r]

\* A row of that table is new and written for an organization of the caller.
InsertsWithin(table) ==
  \A l \in Written(table) : table[l] = NULL /\ WrittenWithin(table'[l].organization_id)

\* The organization a DTO is shown for, by itself or through its parent.
ShownFor(dto) ==
  CASE "organizationId" \in DOMAIN dto -> dto.organizationId
    [] "templateId" \in DOMAIN dto -> TemplateOrg[dto.templateId]
    [] "notificationId" \in DOMAIN dto -> notifications[dto.notificationId].organization_id
    [] "campaignId" \in DOMAIN dto -> campaigns[dto.campaignId].organization_id

\* What is read out is of the caller's organizations and shows no secrets.
ShownRightly(r) ==
  \A dto \in call[r].shown :
    /\ ShownFor(dto) \in seen[r]
    /\ "configPayloadJson" \in DOMAIN dto =>
         \A k \in SecretKeys \cap DOMAIN dto.configPayloadJson :
           dto.configPayloadJson[k] = "[REDACTED]"

\* The organizations of a caller are read once.  He may write and read for one
\* he has lost since, never for one he did not have at any time while he was
\* served, also where the organization is only that of a parent looked up in
\* an earlier call.
RowsWithinMembership ==
  [][/\ \A r \in Requests :
          pc[r] = "respond" /\ pc'[r] = "done" /\ "shown" \in DOMAIN call[r] => ShownRightly(r)
     /\ InsertsWithin(notifications)
     /\ InsertsWithin(campaigns)
     /\ InsertsWithin(acceptances)
     /\ \A l \in Written(recipients) :
          /\ recipients[l] = NULL
          /\ WrittenWithin(notifications[recipients'[l].notification_id].organization_id)
     /\ \A l \in Written(configurations) :
          WrittenWithin(configurations'[l].organization_id)]_vars

\* Some PATCH of the row accounts for all that changes: overlapping ones of
\* other columns are not undone, and no configuration changes its provider.
PatchAccountsFor(l, old, new) ==
  \E r \in Requests :
    /\ pc[r] = "apply_patch" /\ call[r].id = l
    /\ \A k \in ConfigColumns :
         new.data[k] = IF k \in DOMAIN call[r].body.data THEN call[r].body.data[k] ELSE old.data[k]
    /\ new.config_payload_json =
         IF call[r].body.payload = NULL THEN old.config_payload_json ELSE call[r].body.payload
    /\ [new EXCEPT !.data = old.data, !.config_payload_json = old.config_payload_json]
         = [old EXCEPT !.updated_by = call[r].user]

\* Configurations are changed as sent and never deleted.
ConfigurationsChangeAsSent ==
  [][\A l \in Written(configurations) :
       configurations[l] # NULL => PatchAccountsFor(l, configurations[l], configurations'[l])]_vars

\* The row is what was agreed to: the caller's own acceptance or a donor's,
\* with the text of the document, which had begun to be in force at the time
\* stored.  A user's acceptance also falls before the end; the lookup of a
\* donor takes time, so his may be stored with a later time than the one the
\* window was checked at.
RecordsConsent(r) ==
  LET row == call[r].row
      doc == documents[row.legal_document_id]
      fresh == call[r].body.accepted_at = NULL
  IN /\ row.user_id \in {call[r].user, NULL}
     /\ call[r].body.acceptance_text_snapshot = NULL =>
          row.acceptance_text_snapshot = doc.content_body
     /\ fresh /\ doc.effective_from # NULL => doc.effective_from <= row.accepted_at
     /\ fresh /\ doc.effective_to # NULL /\ row.user_id # NULL =>
          row.accepted_at <= doc.effective_to

\* An acceptance records what was in force, unless the documents were edited
\* while its handler ran; then, or when the body brings them, text and time
\* are not compared with the document.
AcceptedTextWasInForce ==
  [][\A l \in Written(acceptances) \ stirred : acceptances[l] = NULL /\ RecordsConsent(l)]_vars

\* An event is filed under the only active provider with its code, unless
\* providers were switched while it was received, and stores no credentials.
WebhooksFiledUnambiguously ==
  [][\A l \in Written(events) :
       LET event == events'[l]
           code == ProviderCode[event.provider_id]
       IN /\ events[l] = NULL
          /\ l \notin stirred => {p \in active : ProviderCode[p] = code} = {event.provider_id}
          /\ \A k \in SensitiveHeaderKeys \cap DOMAIN event.request_headers_json :
               event.request_headers_json[k] = "[REDACTED]"]_vars

=============================================================================
