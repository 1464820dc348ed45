\* Three awards or certificates for two donors of two organizations.
CONSTANTS
  r1 = r1
  r2 = r2
  r3 = r3
  Requests = {r1, r2, r3}
  NULL = NULL
  Orgs <- MCOrgs
  CallerOrgSets <- MCCallerOrgSets
  Donors <- MCDonors
  DonorOrg <- MCDonorOrg
  Badges <- MCBadges
  BadgeOrg <- MCBadgeOrg
  BadgeActive <- MCBadgeActive
  Templates <- MCTemplates
  TemplateOrg <- MCTemplateOrg
  TemplateActive <- MCTemplateActive
  Rules <- MCRules
  RuleOrg <- MCRuleOrg
  RuleActive <- MCRuleActive
  RuleTemplate <- MCRuleTemplate
  Attachments <- MCAttachments
  AttachmentOrg <- MCAttachmentOrg

SPECIFICATION Spec
CHECK_DEADLOCK FALSE
SYMMETRY AnyOrder

INVARIANTS
  TypeOK
  AwardsRepeatOnlyByOverlap
  RowsStayInDonorsOrg
