------------------------- MODULE RecognitionAwards -------------------------
(***************************************************************************)
(* POST /ops/donors/[donorId]/badge-awards and .../certificates: a row     *)
(* that ties a donor to a badge, or to a template with an optional rule    *)
(* and PDF, all of the donor's organization.                               *)
(***************************************************************************)
EXTENDS RequestHandler

CONSTANTS
  Orgs, CallerOrgSets,
  Donors, DonorOrg,
  Badges, BadgeOrg, BadgeActive,
  Templates, TemplateOrg, TemplateActive,
  Rules, RuleOrg, RuleActive, RuleTemplate,
  Attachments, AttachmentOrg

ASSUME AwardsAssumption ==
  /\ CallerOrgSets \subseteq SUBSET Orgs
  /\ DonorOrg \in [Donors -> Orgs]
  /\ BadgeOrg \in [Badges -> Orgs]
  /\ BadgeActive \in [Badges -> BOOLEAN]
  /\ TemplateOrg \in [Templates -> Orgs]
  /\ TemplateActive \in [Templates -> BOOLEAN]
  /\ RuleOrg \in [Rules -> Orgs]
  /\ RuleActive \in [Rules -> BOOLEAN]
  /\ RuleTemplate \in [Rules -> Templates]
  /\ AttachmentOrg \in [Attachments -> Orgs]
  /\ NULL \notin Rules \cup Attachments

VARIABLES
  badgeAwards,   \* badge_awards, by id
  certificates   \* issued_certificates, by id

tables == <<badgeAwards, certificates>>
vars == <<badgeAwards, certificates, pc, call, answer, met>>

BadgeAwardRow == [organization_id : Orgs, badge_id : Badges, donor_id : Donors]

CertificateRow ==
  [organization_id : Orgs, donor_id : Donors, certificate_template_id : Templates,
   certificate_rule_id : Rules \cup {NULL}, pdf_attachment_id : Attachments \cup {NULL},
   issue_status : {"issued", "pending"}]

ASSUME AwardsNullAssumption == NULL \notin BadgeAwardRow \cup CertificateRow

PcRecognition == {"find_award", "create_award", "create_issued"}

TypeOK ==
  /\ badgeAwards \in [Requests -> BadgeAwardRow \cup {NULL}]
  /\ certificates \in [Requests -> CertificateRow \cup {NULL}]
  /\ HandlersTyped(PcRecognition, BadgeAwardRow \cup CertificateRow)

Init ==
  /\ badgeAwards = [l \in Requests |-> NULL]
  /\ certificates = [l \in Requests |-> NULL]
  /\ InitHandlers

-----------------------------------------------------------------------------
(* createBadgeAward                                                        *)

FindBadgeByIdInOrgs(b, orgs) == {badge \in Badges : badge = b /\ BadgeOrg[badge] \in orgs}

BadgeRefusal(orgs, d, b) ==
  IF DonorOrg[d] \notin orgs THEN "NOT_FOUND"
  ELSE IF FindBadgeByIdInOrgs(b, {DonorOrg[d]}) = {} THEN "NOT_FOUND"
  ELSE IF ~BadgeActive[b] THEN "BAD_REQUEST"
  ELSE "none"

RefuseBadge(r) ==
  /\ pc[r] = "idle"
  /\ \E orgs \in CallerOrgSets, d \in Donors, b \in Badges :
       /\ BadgeRefusal(orgs, d, b) # "none"
       /\ Respond(r, BadgeRefusal(orgs, d, b))
  /\ UNCHANGED tables

AcceptBadge(r) ==
  /\ \E orgs \in CallerOrgSets, d \in Donors, b \in Badges :
       /\ BadgeRefusal(orgs, d, b) = "none"
       /\ Begin(r, "find_award",
                [organization_id |-> DonorOrg[d], badge_id |-> b, donor_id |-> d])
  /\ UNCHANGED tables

AwardsFor(b, d) ==
  {l \in Requests : /\ badgeAwards[l] # NULL
                    /\ badgeAwards[l].badge_id = b
                    /\ badgeAwards[l].donor_id = d}

\* Mutant: the answer of the lookup is not looked at.
AlreadyHeld_Never(b, d) == FALSE

AlreadyHeld(b, d) == AwardsFor(b, d) # {}

FindAward(r) ==
  LET held == AlreadyHeld(call[r].badge_id, call[r].donor_id)
  IN /\ pc[r] = "find_award"
     /\ \/ held /\ Respond(r, "CONFLICT")
        \/ ~held /\ Await(r, "create_award")
     /\ UNCHANGED tables

CreateAward(r) ==
  /\ pc[r] = "create_award"
  /\ badgeAwards' = [badgeAwards EXCEPT ![r] = call[r]]
  /\ Await(r, "respond")
  /\ UNCHANGED certificates

-----------------------------------------------------------------------------
(* issueCertificate                                                        *)

\* The rule, if any, after the template; the first failing check answers.
\* Mutant: the rule may point at another template.
RuleRefusal_AnyTemplate(org, t, x) ==
  IF x = NULL THEN "none"
  ELSE IF RuleOrg[x] # org THEN "NOT_FOUND"
  ELSE IF ~RuleActive[x] THEN "BAD_REQUEST"
  ELSE "none"

RuleRefusal(org, t, x) ==
  IF x = NULL THEN "none"
  ELSE IF RuleOrg[x] # org THEN "NOT_FOUND"
  ELSE IF ~RuleActive[x] \/ RuleTemplate[x] # t THEN "BAD_REQUEST"
  ELSE "none"

CertificateRefusal(orgs, d, t, x, pdf) ==
  LET org == DonorOrg[d]
  IN IF org \notin orgs \/ TemplateOrg[t] # org THEN "NOT_FOUND"
     ELSE IF ~TemplateActive[t] THEN "BAD_REQUEST"
     ELSE IF RuleRefusal(org, t, x) # "none" THEN RuleRefusal(org, t, x)
     ELSE IF pdf # NULL /\ AttachmentOrg[pdf] # org THEN "NOT_FOUND"
     ELSE "none"

RefuseCertificate(r) ==
  /\ pc[r] = "idle"
  /\ \E orgs \in CallerOrgSets, d \in Donors, t \in Templates,
        x \in Rules \cup {NULL}, pdf \in Attachments \cup {NULL} :
       /\ CertificateRefusal(orgs, d, t, x, pdf) # "none"
       /\ Respond(r, CertificateRefusal(orgs, d, t, x, pdf))
  /\ UNCHANGED tables

DefaultIssueStatus(pdf) == IF pdf # NULL THEN "issued" ELSE "pending"

\* Mutant: the status is left for the provider's phase.
NewCertificate_NoStatus(orgs, d, t, x, pdf) ==
  [organization_id |-> DonorOrg[d], donor_id |-> d,
   certificate_template_id |-> t, certificate_rule_id |-> x,
   pdf_attachment_id |-> pdf, issue_status |-> NULL]

\* Mutant: the row is filed under the organization of the caller.
NewCertificate_CallerOrg(orgs, d, t, x, pdf) ==
  [organization_id |-> CHOOSE o \in orgs : TRUE, donor_id |-> d,
   certificate_template_id |-> t, certificate_rule_id |-> x,
   pdf_attachment_id |-> pdf, issue_status |-> DefaultIssueStatus(pdf)]

NewCertificate(orgs, d, t, x, pdf) ==
  [organization_id |-> DonorOrg[d], donor_id |-> d,
   certificate_template_id |-> t, certificate_rule_id |-> x,
   pdf_attachment_id |-> pdf, issue_status |-> DefaultIssueStatus(pdf)]

AcceptCertificate(r) ==
  /\ \E orgs \in CallerOrgSets, d \in Donors, t \in Templates,
        x \in Rules \cup {NULL}, pdf \in Attachments \cup {NULL} :
       /\ CertificateRefusal(orgs, d, t, x, pdf) = "none"
       /\ Begin(r, "create_issued", NewCertificate(orgs, d, t, x, pdf))
  /\ UNCHANGED tables

CreateIssued(r) ==
  /\ pc[r] = "create_issued"
  /\ certificates' = [certificates EXCEPT ![r] = call[r]]
  /\ Await(r, "respond")
  /\ UNCHANGED badgeAwards

-----------------------------------------------------------------------------

Answer(r) ==
  /\ pc[r] = "respond"
  /\ Respond(r, "OK")
  /\ UNCHANGED tables

FailPendingCall(r) == FailCall(r) /\ UNCHANGED tables

Next ==
  \E r \in Requests :
    \/ RefuseBadge(r)
    \/ AcceptBadge(r)
    \/ FindAward(r)
    \/ CreateAward(r)
    \/ RefuseCertificate(r)
    \/ AcceptCertificate(r)
    \/ CreateIssued(r)
    \/ Answer(r)
    \/ FailPendingCall(r)

Spec == Init /\ [][Next]_vars

-----------------------------------------------------------------------------
(* Properties.                                                             *)

\* The check-then-insert of createBadgeAward holds a donor to one award of a
\* badge, also when the acknowledgement of an award was lost and the request
\* is sent again; only awards made by overlapping requests repeat each other.
AwardsRepeatOnlyByOverlap ==
  \A b \in Badges, d \in Donors :
    \A l, k \in AwardsFor(b, d) : l # k => Overlapped(l, k)

AwardFits(a) ==
  a.organization_id = DonorOrg[a.donor_id] /\ a.organization_id = BadgeOrg[a.badge_id]

CertificateFits(c) ==
  /\ c.organization_id = DonorOrg[c.donor_id]
  /\ c.organization_id = TemplateOrg[c.certificate_template_id]
  /\ c.certificate_rule_id # NULL =>
       /\ c.organization_id = RuleOrg[c.certificate_rule_id]
       /\ c.certificate_template_id = RuleTemplate[c.certificate_rule_id]
  /\ c.pdf_attachment_id # NULL => c.organization_id = AttachmentOrg[c.pdf_attachment_id]

\* Whoever the caller is and however many organizations he serves, everything
\* a stored row refers to is of the donor's organization and so is the row,
\* and a rule is quoted only for the template it is a rule of.
RowsStayInDonorsOrg ==
  \A l \in Requests :
    /\ badgeAwards[l] # NULL => AwardFits(badgeAwards[l])
    /\ certificates[l] # NULL => CertificateFits(certificates[l])

=============================================================================
