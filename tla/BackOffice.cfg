\* Two requests of any kind to the back office, or webhooks, while accounts,
\* documents and providers are edited and the clock runs.
CONSTANTS
  r1 = r1
  r2 = r2
  Requests = {r1, r2}
  NULL = NULL
  Callers = {"amal", "badr"}
  Orgs = {"north", "south"}
  Branches = {"main"}
  AccountStates <- MCAccountStates
  Templates = {"tNorth", "tSouth"}
  TemplateOrg <- MCTemplateOrg
  MessageBodies <- MCMessageBodies
  OldNotifications <- MCOldNotifications
  RecipientBodies <- MCRecipientBodies
  OldCampaigns <- MCOldCampaigns
  TemplateTypeRows <- MCTemplateTypeRows
  TemplateVersionRows <- MCTemplateVersionRows
  TemplateVariableRows <- MCTemplateVariableRows
  CampaignDeliveryRows <- MCCampaignDeliveryRows
  ActivityLogRows <- MCActivityLogRows
  AuditLogRows <- MCAuditLogRows
  ExternalApiLogRows <- MCExternalApiLogRows
  PointsRuleRows <- MCRuleRows
  BadgeRows <- MCBadgeRows
  CertificateTemplateRows <- MCCertificateTemplateRows
  CertificateRuleRows <- MCRuleRows
  PointsLedgerRows <- MCLedgerRows
  BadgeAwardRows <- MCLedgerRows
  IssuedCertificateRows <- MCIssuedRows
  Documents = {"dNorth", "dSouth"}
  DocumentOrg <- MCDocumentOrg
  Texts = {"first", "second", "other", "quoted"}
  MaxNow = 1
  DocumentStates <- MCDocumentStates
  LegalDonors = {"dora", "sami"}
  LegalDonorOrg <- MCDonorOrg
  AcceptanceBodies <- MCAcceptanceBodies
  Providers = {"pNorth", "pSouth", "pOld"}
  ProviderOrg <- MCProviderOrg
  ProviderCode <- MCProviderCode
  ProviderStates <- MCProviderStates
  ConfigColumns <- MCConfigColumns
  ConfigValues <- MCConfigValues
  ConfigBodies <- MCConfigBodies
  ConfigPatches <- MCConfigPatches
  ConfigDefaults <- MCConfigDefaults
  OldConfigurations <- MCOldConfigurations
  Deliveries <- MCDeliveries

SPECIFICATION Spec
CHECK_DEADLOCK FALSE
SYMMETRY AnyOrder

INVARIANTS
  TypeOK
  OrgsAgree
PROPERTIES
  RowsWithinMembership
  ConfigurationsChangeAsSent
  AcceptedTextWasInForce
  WebhooksFiledUnambiguously
