-------------------------- MODULE RecognitionReads --------------------------
(***************************************************************************)
(* What the back office shows of points, badges and certificates: rules,   *)
(* badges and templates of the caller's organizations, and what a donor    *)
(* has got, once the donor was found to be of one of them.                 *)
(***************************************************************************)
EXTENDS BackOfficeReads

CONSTANTS
  \* Tables by id; what the services of points, badges and certificates
  \* insert into the last three is a subject of its own.
  PointsRuleRows, BadgeRows, CertificateTemplateRows, CertificateRuleRows,
  PointsLedgerRows, BadgeAwardRows, IssuedCertificateRows

RuleRow == [organization_id : Orgs, condition_payload_json : Json]
BadgeRow == [organization_id : Orgs, criteria_payload_json : Json]

CertificateTemplateRow ==
  [organization_id : Orgs, template_content_json : Json, font_config_json : Json]

LedgerRow == [organization_id : Orgs, donor_id : LegalDonors]
IssuedRow == [organization_id : Orgs, donor_id : LegalDonors, metadata_json : Json]

\* A donor is awarded for his own organization.
AwardedInOrg(rows) ==
  \A l \in DOMAIN rows : rows[l].organization_id = LegalDonorOrg[rows[l].donor_id]

ASSUME RecognitionReadsAssumption ==
  /\ PointsRuleRows \in [DOMAIN PointsRuleRows -> RuleRow]
  /\ BadgeRows \in [DOMAIN BadgeRows -> BadgeRow]
  /\ CertificateTemplateRows \in [DOMAIN CertificateTemplateRows -> CertificateTemplateRow]
  /\ CertificateRuleRows \in [DOMAIN CertificateRuleRows -> RuleRow]
  /\ PointsLedgerRows \in [DOMAIN PointsLedgerRows -> LedgerRow]
  /\ BadgeAwardRows \in [DOMAIN BadgeAwardRows -> LedgerRow]
  /\ IssuedCertificateRows \in [DOMAIN IssuedCertificateRows -> IssuedRow]
  /\ AwardedInOrg(PointsLedgerRows)
  /\ AwardedInOrg(BadgeAwardRows)
  /\ AwardedInOrg(IssuedCertificateRows)

PcRecognitionReads == {"list_ledger", "list_awards", "list_issued"}

donorTable == [d \in LegalDonors |-> [organization_id |-> LegalDonorOrg[d]]]

\* The donor was found in the call before.
OfDonor(r, rows) == {rows[l] : l \in {k \in DOMAIN rows : rows[k].donor_id = call[r].parent}}

-----------------------------------------------------------------------------
(* Points                                                                  *)

RuleDto == [organizationId : Orgs, conditionPayloadJson : Object]

ToPointsRuleDto(row) ==
  [organizationId |-> row.organization_id,
   conditionPayloadJson |-> OrEmpty(row.condition_payload_json)]

ListPointsRules(r) == ListInOrgs(r, PointsRuleRows, ToPointsRuleDto)
GetPointsRule(r) == GetInOrgs(r, PointsRuleRows, ToPointsRuleDto)

LedgerDto == [organizationId : Orgs, donorId : LegalDonors]

ToOpsPointsLedgerEntryDto(row) ==
  [organizationId |-> row.organization_id, donorId |-> row.donor_id]

ListPointsLedger(r) == ListInOrgs(r, PointsLedgerRows, ToOpsPointsLedgerEntryDto)

FindDonorOfLedger(r) == FindParent(r, donorTable, "list_ledger")

ListDonorPointsLedger(r) ==
  /\ pc[r] = "list_ledger"
  /\ Show(r, {ToOpsPointsLedgerEntryDto(row) : row \in OfDonor(r, PointsLedgerRows)})

-----------------------------------------------------------------------------
(* Badges                                                                  *)

OpsBadgeDto == [organizationId : Orgs, criteriaPayloadJson : Object]

ToOpsBadgeDto(row) ==
  [organizationId |-> row.organization_id,
   criteriaPayloadJson |-> OrEmpty(row.criteria_payload_json)]

ListBadges(r) == ListInOrgs(r, BadgeRows, ToOpsBadgeDto)
GetBadge(r) == GetInOrgs(r, BadgeRows, ToOpsBadgeDto)

ToOpsBadgeAwardDto(row) == [organizationId |-> row.organization_id, donorId |-> row.donor_id]

FindDonorOfBadges(r) == FindParent(r, donorTable, "list_awards")

ListDonorBadges(r) ==
  /\ pc[r] = "list_awards"
  /\ Show(r, {ToOpsBadgeAwardDto(row) : row \in OfDonor(r, BadgeAwardRows)})

-----------------------------------------------------------------------------
(* Certificates                                                            *)

OpsCertificateTemplateDto ==
  [organizationId : Orgs, templateContentJson : Object, fontConfigJson : Object]

ToOpsCertificateTemplateDto(row) ==
  [organizationId |-> row.organization_id,
   templateContentJson |-> OrEmpty(row.template_content_json),
   fontConfigJson |-> OrEmpty(row.font_config_json)]

ListCertificateTemplates(r) ==
  ListInOrgs(r, CertificateTemplateRows, ToOpsCertificateTemplateDto)

GetCertificateTemplate(r) == GetInOrgs(r, CertificateTemplateRows, ToOpsCertificateTemplateDto)

ToCertificateRuleDto(row) ==
  [organizationId |-> row.organization_id,
   conditionPayloadJson |-> OrEmpty(row.condition_payload_json)]

ListCertificateRules(r) == ListInOrgs(r, CertificateRuleRows, ToCertificateRuleDto)
GetCertificateRule(r) == GetInOrgs(r, CertificateRuleRows, ToCertificateRuleDto)

OpsIssuedCertificateDto == [organizationId : Orgs, donorId : LegalDonors, metadataJson : Object]

ToOpsIssuedCertificateDto(row) ==
  [organizationId |-> row.organization_id, donorId |-> row.donor_id,
   metadataJson |-> OrEmpty(row.metadata_json)]

FindDonorOfCertificates(r) == FindParent(r, donorTable, "list_issued")

ListDonorCertificates(r) ==
  /\ pc[r] = "list_issued"
  /\ Show(r, {ToOpsIssuedCertificateDto(row) : row \in OfDonor(r, IssuedCertificateRows)})

-----------------------------------------------------------------------------

RecognitionDto ==
  RuleDto \cup LedgerDto \cup OpsBadgeDto \cup OpsCertificateTemplateDto
  \cup OpsIssuedCertificateDto

RecognitionCall ==
  [user : Callers, shown : SUBSET RecognitionDto] \cup [user : Callers, parent : LegalDonors]

NextRecognitionReads(r) ==
  \/ ListPointsRules(r) \/ GetPointsRule(r)
  \/ ListPointsLedger(r) \/ FindDonorOfLedger(r) \/ ListDonorPointsLedger(r)
  \/ ListBadges(r) \/ GetBadge(r) \/ FindDonorOfBadges(r) \/ ListDonorBadges(r)
  \/ ListCertificateTemplates(r) \/ GetCertificateTemplate(r)
  \/ ListCertificateRules(r) \/ GetCertificateRule(r)
  \/ FindDonorOfCertificates(r) \/ ListDonorCertificates(r)

=============================================================================
