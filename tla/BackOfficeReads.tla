-------------------------- MODULE BackOfficeReads --------------------------
(***************************************************************************)
(* What the back office shows of messages, documents, integrations and     *)
(* logs.  A row with an organization is found among those of the caller's  *)
(* organizations; one without is listed under a parent that was found so   *)
(* before, in a call of its own.  A DTO keeps of its row what tells whose  *)
(* it is, and what is not shown as stored.                                 *)
(***************************************************************************)
EXTENDS Communications, LegalAcceptances, Integrations

CONSTANTS
  \* Tables that no code here writes, by id.
  TemplateTypeRows, TemplateVersionRows, TemplateVariableRows, CampaignDeliveryRows,
  ActivityLogRows, AuditLogRows, ExternalApiLogRows

officeVars == <<accounts, commsVars, legalVars, integrationVars>>

\* A jsonb column, of which only the keys count.  NULL is shown as {}.
Json == {NULL} \cup SUBSET {"key"}
OrEmpty(json) == IF json = NULL THEN {} ELSE json
Object == SUBSET {"key"}

TemplateTypeRow == [organization_id : Orgs, supported_channels_json : Json]
TemplateVersionRow == [template_id : Templates, variables_json : Json]
TemplateVariableRow == [template_id : Templates]
CampaignDeliveryRow == [campaign_id : DOMAIN OldCampaigns]
ActivityLogRow == [organization_id : Orgs, metadata_json : Json]

AuditLogRow ==
  [organization_id : Orgs, old_values_json : Json, new_values_json : Json, diff_json : Json,
   metadata_json : Json]

ExternalApiLogRow ==
  [organization_id : Orgs, request_payload_json : Json, response_payload_json : Json]

ASSUME ReadsAssumption ==
  /\ TemplateTypeRows \in [DOMAIN TemplateTypeRows -> TemplateTypeRow]
  /\ TemplateVersionRows \in [DOMAIN TemplateVersionRows -> TemplateVersionRow]
  /\ TemplateVariableRows \in [DOMAIN TemplateVariableRows -> TemplateVariableRow]
  /\ CampaignDeliveryRows \in [DOMAIN CampaignDeliveryRows -> CampaignDeliveryRow]
  /\ ActivityLogRows \in [DOMAIN ActivityLogRows -> ActivityLogRow]
  /\ AuditLogRows \in [DOMAIN AuditLogRows -> AuditLogRow]
  /\ ExternalApiLogRows \in [DOMAIN ExternalApiLogRows -> ExternalApiLogRow]

PcReads == {"list_recipients", "list_deliveries", "list_versions", "list_variables"}

-----------------------------------------------------------------------------
(* The four ways to read.                                                  *)

Show(r, dtos) ==
  /\ AwaitWith(r, "respond", [user |-> call[r].user, shown |-> dtos])
  /\ UNCHANGED officeVars

VisibleRows(r, table) == InOrgs(table, CollectOrganizationIds(call[r]))

ListInOrgs(r, table, ToDto(_)) ==
  /\ RequireOps(r)
  /\ Show(r, {ToDto(table[l]) : l \in VisibleRows(r, table)})

\* An id of another organization is not found, as one that does not exist.
RefuseHidden(r, table) ==
  /\ RequireOps(r)
  /\ \E l \in DOMAIN table : l \notin VisibleRows(r, table)
  /\ Respond(r, "NOT_FOUND")
  /\ UNCHANGED officeVars

GetInOrgs(r, table, ToDto(_)) ==
  \/ RefuseHidden(r, table)
  \/ /\ RequireOps(r)
     /\ \E l \in VisibleRows(r, table) : Show(r, {ToDto(table[l])})

\* The parent is found; its rows are listed in the next call.
FindParent(r, table, next) ==
  \/ RefuseHidden(r, table)
  \/ /\ RequireOps(r)
     /\ \E l \in VisibleRows(r, table) :
          AwaitWith(r, next, [user |-> call[r].user, parent |-> l])
     /\ UNCHANGED officeVars

-----------------------------------------------------------------------------
(* Templates                                                               *)

TemplateTypeDto == [organizationId : Orgs, supportedChannelsJson : Object]

ToTemplateTypeDto(row) ==
  [organizationId |-> row.organization_id,
   supportedChannelsJson |-> OrEmpty(row.supported_channels_json)]

ListTemplateTypes(r) == ListInOrgs(r, TemplateTypeRows, ToTemplateTypeDto)

TemplateDto == [organizationId : Orgs]
templateTable == [t \in Templates |-> [organization_id |-> TemplateOrg[t]]]
ToTemplateDto(row) == [organizationId |-> row.organization_id]

ListTemplates(r) == ListInOrgs(r, templateTable, ToTemplateDto)
GetTemplate(r) == GetInOrgs(r, templateTable, ToTemplateDto)

TemplateVersionDto == [templateId : Templates, variablesJson : Object]

ToTemplateVersionDto(row) ==
  [templateId |-> row.template_id, variablesJson |-> OrEmpty(row.variables_json)]

FindTemplateOfVersions(r) == FindParent(r, templateTable, "list_versions")

ListTemplateVersions(r) ==
  /\ pc[r] = "list_versions"
  /\ Show(r, {ToTemplateVersionDto(TemplateVersionRows[l]) :
               l \in {v \in DOMAIN TemplateVersionRows :
                        TemplateVersionRows[v].template_id = call[r].parent}})

\* The version with its template, in one call.
FindVersionInOrgs(orgs) ==
  {v \in DOMAIN TemplateVersionRows : TemplateOrg[TemplateVersionRows[v].template_id] \in orgs}

GetTemplateVersion(r) ==
  LET visible == FindVersionInOrgs(CollectOrganizationIds(call[r]))
  IN /\ RequireOps(r)
     /\ \E v \in DOMAIN TemplateVersionRows :
          \/ v \in visible /\ Show(r, {ToTemplateVersionDto(TemplateVersionRows[v])})
          \/ v \notin visible /\ Respond(r, "NOT_FOUND") /\ UNCHANGED officeVars

TemplateVariableDto == [templateId : Templates]
ToTemplateVariableDto(row) == [templateId |-> row.template_id]

FindTemplateOfVariables(r) == FindParent(r, templateTable, "list_variables")

ListTemplateVariables(r) ==
  /\ pc[r] = "list_variables"
  /\ Show(r, {ToTemplateVariableDto(TemplateVariableRows[l]) :
               l \in {v \in DOMAIN TemplateVariableRows :
                        TemplateVariableRows[v].template_id = call[r].parent}})

-----------------------------------------------------------------------------
(* Messages                                                                *)

OpsNotificationDto == [organizationId : Orgs, status : {"draft"}]

ToOpsNotificationDto(row) == [organizationId |-> row.organization_id, status |-> row.status]

ListOpsNotifications(r) == ListInOrgs(r, notifications, ToOpsNotificationDto)
GetOpsNotification(r) == GetInOrgs(r, notifications, ToOpsNotificationDto)

OpsNotificationRecipientDto ==
  [notificationId : NotificationIds, sent : SUBSET RecipientFields]

ToOpsNotificationRecipientDto(row) ==
  [notificationId |-> row.notification_id, sent |-> row.sent]

FindNotificationOfRecipients(r) == FindParent(r, notifications, "list_recipients")

ListRecipientsForNotification(r) ==
  /\ pc[r] = "list_recipients"
  /\ Show(r, {ToOpsNotificationRecipientDto(recipients[l]) :
               l \in {k \in Rows(recipients) : recipients[k].notification_id = call[r].parent}})

CommunicationCampaignDto == [organizationId : Orgs, campaignStatus : {"draft"}]

ToCommunicationCampaignDto(row) ==
  [organizationId |-> row.organization_id, campaignStatus |-> row.status]

ListCampaigns(r) == ListInOrgs(r, campaigns, ToCommunicationCampaignDto)
GetCampaign(r) == GetInOrgs(r, campaigns, ToCommunicationCampaignDto)

CampaignDeliveryDto == [campaignId : CampaignIds]
ToCampaignDeliveryDto(row) == [campaignId |-> row.campaign_id]

FindCampaignOfDeliveries(r) == FindParent(r, campaigns, "list_deliveries")

ListDeliveriesForCampaign(r) ==
  /\ pc[r] = "list_deliveries"
  /\ Show(r, {ToCampaignDeliveryDto(CampaignDeliveryRows[l]) :
               l \in {d \in DOMAIN CampaignDeliveryRows :
                        CampaignDeliveryRows[d].campaign_id = call[r].parent}})

-----------------------------------------------------------------------------
(* Legal documents and acceptances                                         *)

LegalDocumentDto ==
  [organizationId : Orgs, contentBody : Texts,
   effectiveFrom : Times \cup {NULL}, effectiveTo : Times \cup {NULL}]

documentTable ==
  [d \in Documents |-> [organization_id |-> DocumentOrg[d], document |-> documents[d]]]

ToLegalDocumentDto(row) ==
  [organizationId |-> row.organization_id, contentBody |-> row.document.content_body,
   effectiveFrom |-> row.document.effective_from, effectiveTo |-> row.document.effective_to]

ListLegalDocuments(r) == ListInOrgs(r, documentTable, ToLegalDocumentDto)
GetLegalDocument(r) == GetInOrgs(r, documentTable, ToLegalDocumentDto)

LegalAcceptanceDto ==
  [organizationId : Orgs, legalDocumentId : Documents, acceptanceTextSnapshot : Texts]

ToLegalAcceptanceDto(row) ==
  [organizationId |-> row.organization_id, legalDocumentId |-> row.legal_document_id,
   acceptanceTextSnapshot |-> row.acceptance_text_snapshot]

ListLegalAcceptances(r) == ListInOrgs(r, acceptances, ToLegalAcceptanceDto)
GetLegalAcceptance(r) == GetInOrgs(r, acceptances, ToLegalAcceptanceDto)

-----------------------------------------------------------------------------
(* Integrations                                                            *)

IntegrationProviderDto == [organizationId : Orgs, isActive : BOOLEAN]

providerTable ==
  [p \in Providers |-> [organization_id |-> ProviderOrg[p], is_active |-> p \in active]]

ToIntegrationProviderDto(row) ==
  [organizationId |-> row.organization_id, isActive |-> row.is_active]

ListIntegrationProviders(r) == ListInOrgs(r, providerTable, ToIntegrationProviderDto)
GetIntegrationProvider(r) == GetInOrgs(r, providerTable, ToIntegrationProviderDto)

\* The keys of a payload are taken to be in lower case.
SecretKeys ==
  {"secret", "api_key", "apikey", "token", "password", "private_key", "client_secret",
   "access_token", "refresh_token", "webhook_secret", "auth_token"}

RedactConfigPayload(payload) ==
  [k \in DOMAIN payload |-> IF k \in SecretKeys THEN "[REDACTED]" ELSE payload[k]]

IntegrationConfigurationDto == [organizationId : Orgs, configPayloadJson : Payload]

ToIntegrationConfigurationDto(row) ==
  [organizationId |-> row.organization_id,
   configPayloadJson |-> RedactConfigPayload(row.config_payload_json)]

ListIntegrationConfigurations(r) ==
  ListInOrgs(r, configurations, ToIntegrationConfigurationDto)

GetIntegrationConfiguration(r) == GetInOrgs(r, configurations, ToIntegrationConfigurationDto)

WebhookEventDto == [organizationId : Orgs, processingStatus : {"pending"}]

ToWebhookEventDto(row) ==
  [organizationId |-> row.organization_id, processingStatus |-> row.processing_status]

ListWebhookEvents(r) == ListInOrgs(r, events, ToWebhookEventDto)
GetWebhookEvent(r) == GetInOrgs(r, events, ToWebhookEventDto)

ExternalApiLogDto ==
  [organizationId : Orgs, requestPayloadJson : Object, responsePayloadJson : Object]

ToExternalApiLogDto(row) ==
  [organizationId |-> row.organization_id,
   requestPayloadJson |-> OrEmpty(row.request_payload_json),
   responsePayloadJson |-> OrEmpty(row.response_payload_json)]

ListExternalApiLogs(r) == ListInOrgs(r, ExternalApiLogRows, ToExternalApiLogDto)
GetExternalApiLog(r) == GetInOrgs(r, ExternalApiLogRows, ToExternalApiLogDto)

-----------------------------------------------------------------------------
(* Logs                                                                    *)

ActivityLogDto == [organizationId : Orgs, metadataJson : Object]

ToActivityLogDto(row) ==
  [organizationId |-> row.organization_id, metadataJson |-> OrEmpty(row.metadata_json)]

ListActivityLogs(r) == ListInOrgs(r, ActivityLogRows, ToActivityLogDto)
GetActivityLog(r) == GetInOrgs(r, ActivityLogRows, ToActivityLogDto)

AuditLogDto ==
  [organizationId : Orgs, oldValuesJson : Object, newValuesJson : Object, diffJson : Object,
   metadataJson : Object]

ToAuditLogDto(row) ==
  [organizationId |-> row.organization_id, oldValuesJson |-> OrEmpty(row.old_values_json),
   newValuesJson |-> OrEmpty(row.new_values_json), diffJson |-> OrEmpty(row.diff_json),
   metadataJson |-> OrEmpty(row.metadata_json)]

ListAuditLogs(r) == ListInOrgs(r, AuditLogRows, ToAuditLogDto)
GetAuditLog(r) == GetInOrgs(r, AuditLogRows, ToAuditLogDto)

-----------------------------------------------------------------------------

Dto ==
  TemplateTypeDto \cup TemplateDto \cup TemplateVersionDto \cup TemplateVariableDto
  \cup OpsNotificationDto \cup OpsNotificationRecipientDto \cup CommunicationCampaignDto
  \cup CampaignDeliveryDto \cup LegalDocumentDto \cup LegalAcceptanceDto
  \cup IntegrationProviderDto \cup IntegrationConfigurationDto \cup WebhookEventDto
  \cup ExternalApiLogDto \cup ActivityLogDto \cup AuditLogDto

ReadCall ==
  [user : Callers, shown : SUBSET Dto] \cup
  [user : Callers, parent : Templates \cup NotificationIds \cup CampaignIds]

NextReads(r) ==
  \/ ListTemplateTypes(r) \/ ListTemplates(r) \/ GetTemplate(r)
  \/ FindTemplateOfVersions(r) \/ ListTemplateVersions(r) \/ GetTemplateVersion(r)
  \/ FindTemplateOfVariables(r) \/ ListTemplateVariables(r)
  \/ ListOpsNotifications(r) \/ GetOpsNotification(r)
  \/ FindNotificationOfRecipients(r) \/ ListRecipientsForNotification(r)
  \/ ListCampaigns(r) \/ GetCampaign(r)
  \/ FindCampaignOfDeliveries(r) \/ ListDeliveriesForCampaign(r)
  \/ ListLegalDocuments(r) \/ GetLegalDocument(r)
  \/ ListLegalAcceptances(r) \/ GetLegalAcceptance(r)
  \/ ListIntegrationProviders(r) \/ GetIntegrationProvider(r)
  \/ ListIntegrationConfigurations(r) \/ GetIntegrationConfiguration(r)
  \/ ListWebhookEvents(r) \/ GetWebhookEvent(r)
  \/ ListExternalApiLogs(r) \/ GetExternalApiLog(r)
  \/ ListActivityLogs(r) \/ GetActivityLog(r) \/ ListAuditLogs(r) \/ GetAuditLog(r)

=============================================================================
