---------------------------- MODULE MCBackOffice ----------------------------
(***************************************************************************)
(* Two organizations.  Amal works for both and then has no account any     *)
(* more; he is a courier and no donor.  Badr works for one of them and is  *)
(* a donor and no courier.  Providers of both have the same code.          *)
(***************************************************************************)
EXTENDS BackOffice, TLC

CONSTANTS r1, r2

MCAccount(courier, orgs) ==
  [donor |-> ~courier, courier |-> courier,
   memberships |-> {[organizationId |-> o, branchId |-> NULL] : o \in orgs}]

MCAccountStates ==
  {"amal" :> amal @@ "badr" :> MCAccount(FALSE, {"north"}) :
     amal \in {MCAccount(TRUE, {"north", "south"}), NULL}}

\* Each organization has one of everything.
MCOrgOf(north, south) == north :> "north" @@ south :> "south"

MCTemplateOrg == MCOrgOf("tNorth", "tSouth")
MCDocumentOrg == MCOrgOf("dNorth", "dSouth")
MCDonorOrg == MCOrgOf("dora", "sami")
MCProviderOrg == MCOrgOf("pNorth", "pSouth") @@ "pOld" :> "north"
MCProviderCode == "pNorth" :> "sms" @@ "pSouth" :> "sms" @@ "pOld" :> "fax"

MCMessageBodies ==
  {[organization_id |-> NULL, template_id |-> NULL],
   [organization_id |-> "south", template_id |-> NULL],
   [organization_id |-> "north", template_id |-> "tSouth"]}

MCOldNotifications ==
  "nSouth" :> [organization_id |-> "south", template_id |-> "tSouth", status |-> "draft",
               created_by |-> "amal"]

MCOldCampaigns == "kSouth" :> MCOldNotifications["nSouth"]

MCRecipientBodies == {{"recipient_name"}, {"donor_id"}}

\* Tables that are only read hold one row of either organization, or one that
\* Badr must not see.
MCJson == "north" :> NULL @@ "south" :> {"key"}
MCByTemplate(Row(_)) == "vNorth" :> Row("tNorth") @@ "vSouth" :> Row("tSouth")
MCOfSouth(Row(_)) == "lSouth" :> Row("south")

MCTemplateTypeRow(o) == [organization_id |-> o, supported_channels_json |-> MCJson[o]]
MCTemplateTypeRows == MCOfSouth(MCTemplateTypeRow)
MCVersionRow(t) == [template_id |-> t, variables_json |-> MCJson[MCTemplateOrg[t]]]
MCTemplateVersionRows == MCByTemplate(MCVersionRow)
MCVariableRow(t) == [template_id |-> t]
MCTemplateVariableRows == MCByTemplate(MCVariableRow)
MCCampaignDeliveryRows == "delivered" :> [campaign_id |-> "kSouth"]
MCActivityLogRow(o) == [organization_id |-> o, metadata_json |-> MCJson[o]]
MCActivityLogRows == MCOfSouth(MCActivityLogRow)

MCAuditLogRow(o) ==
  [organization_id |-> o, old_values_json |-> NULL, new_values_json |-> {"key"},
   diff_json |-> MCJson[o], metadata_json |-> {}]
MCAuditLogRows == MCOfSouth(MCAuditLogRow)

MCExternalApiLogRow(o) ==
  [organization_id |-> o, request_payload_json |-> {"key"}, response_payload_json |-> MCJson[o]]
MCExternalApiLogRows == MCOfSouth(MCExternalApiLogRow)

MCRuleRow(o) == [organization_id |-> o, condition_payload_json |-> MCJson[o]]
MCRuleRows == MCOfSouth(MCRuleRow)
MCBadgeRow(o) == [organization_id |-> o, criteria_payload_json |-> MCJson[o]]
MCBadgeRows == MCOfSouth(MCBadgeRow)

MCCertificateTemplateRow(o) ==
  [organization_id |-> o, template_content_json |-> {"key"}, font_config_json |-> MCJson[o]]
MCCertificateTemplateRows == MCOfSouth(MCCertificateTemplateRow)

MCDonorOf == "north" :> "dora" @@ "south" :> "sami"
MCLedgerRow(o) == [organization_id |-> o, donor_id |-> MCDonorOf[o]]
MCLedgerRows == MCOfSouth(MCLedgerRow)

MCIssuedRow(o) ==
  [organization_id |-> o, donor_id |-> MCDonorOf[o], metadata_json |-> MCJson[o]]
MCIssuedRows == MCOfSouth(MCIssuedRow)

\* A text that is in force until 0, replaced by one that is from 1.
MCDocument(text, from, to) ==
  [content_body |-> text, effective_from |-> from, effective_to |-> to]

MCDocumentStates ==
  {"dNorth" :> doc @@ "dSouth" :> MCDocument("other", NULL, NULL) :
     doc \in {MCDocument("first", NULL, 0), MCDocument("second", 1, NULL)}}

MCBody(doc, user, donor, time, text) ==
  [legal_document_id |-> doc, user_id |-> user, donor_id |-> donor, accepted_at |-> time,
   acceptance_text_snapshot |-> text]

MCAcceptanceBodies ==
  {MCBody("dNorth", "amal", NULL, NULL, NULL), MCBody("dNorth", NULL, "dora", NULL, NULL),
   MCBody("dNorth", NULL, "sami", NULL, NULL), MCBody("dNorth", "amal", "dora", NULL, NULL),
   MCBody("dSouth", "amal", NULL, 0, "quoted")}

MCProviderStates == {{"pNorth"}, {"pNorth", "pSouth"}}

MCConfigColumns == {"config_name", "is_default"}
MCConfigValues == {"old", "new", "yes", "no"}
MCPayload(key) == "api_key" :> key @@ "sender" :> "set"
MCConfigBodies == {[data |-> "config_name" :> "old", payload |-> MCPayload("set")]}

\* The second sends back the payload as GET shows it.
MCConfigPatches ==
  {[data |-> "config_name" :> "new", payload |-> NULL],
   [data |-> "is_default" :> "yes", payload |-> MCPayload("[REDACTED]")]}
MCConfigDefaults == [k \in MCConfigColumns |-> "no"]
MCOldConfigurations ==
  "cSouth" :> [organization_id |-> "south", provider_id |-> "pSouth",
               data |-> "config_name" :> "old" @@ "is_default" :> "no",
               config_payload_json |-> MCPayload("set"),
               created_by |-> "amal", updated_by |-> "amal"]

\* The first key is too long, the last will do.
MCString(length) == [type |-> "string", length |-> length]
MCMembers == "event" :> MCString(201) @@ "event_type" :> Whole @@ "type" :> MCString(200)

MCDelivery(json, members) ==
  [json |-> json, members |-> members,
   headers |-> "authorization" :> "sent" @@ "user-agent" :> "sent"]

MCDeliveries == {MCDelivery("object", MCMembers)}

\* Whatever is delivered, an object is stored, and the event has the type it
\* names under one of four keys, tried in that order, or is of unknown type.
ASSUME EventTypeExamples ==
  LET type(d) == EventRow("pNorth", d).event_type
      lengths == {0, 1, 200, 201}
  IN /\ \A json \in {"value", "broken"} : type(MCDelivery(json, MCMembers)) = "unknown"
     /\ \A n, k \in lengths :
          LET d == MCDelivery("object", "type" :> MCString(n) @@ "event" :> MCString(k))
          IN type(d) = CASE k \in 1..200 -> MCString(k)
                         [] k \notin 1..200 /\ n \in 1..200 -> MCString(n)
                         [] OTHER -> "unknown"

\* The requests are interchangeable, and the properties checked are safety.
AnyOrder == Permutations({r1, r2})

=============================================================================
