---------------------- MODULE RecognitionAwardsProofs ----------------------
(***************************************************************************)
(* Awards repeat only by overlap, and rows stay in the donor's             *)
(* organization, for any donors, badges, templates, callers and requests.  *)
(*                                                                         *)
(* Base   types; a handler that has not inserted its row owns no row; the  *)
(*        row a handler is about to insert fits the donor.                 *)
(* Fresh  a handler about to insert an award overlapped whoever has given  *)
(*        the donor this badge.                                            *)
(***************************************************************************)
EXTENDS RecognitionAwards, RequestHandlerProofs

Rows == BadgeAwardRow \cup CertificateRow

RowsAreOwned ==
  \A r \in Requests :
    pc[r] \in PcRecognition \cup {"idle"} => badgeAwards[r] = NULL /\ certificates[r] = NULL

LocalsFit ==
  \A r \in Requests :
    /\ pc[r] \in {"find_award", "create_award"} =>
         call[r] \in BadgeAwardRow /\ AwardFits(call[r])
    /\ pc[r] = "create_issued" =>
         call[r] \in CertificateRow /\ CertificateFits(call[r])

Base == TypeOK /\ RowsAreOwned /\ LocalsFit

Fresh ==
  \A r \in Requests : pc[r] = "create_award" =>
    \A l \in AwardsFor(call[r].badge_id, call[r].donor_id) : Overlapped(r, l)

Inv == Base /\ Fresh /\ InFlightOverlap /\ AwardsRepeatOnlyByOverlap /\ RowsStayInDonorsOrg

USE DEF PcRecognition

-----------------------------------------------------------------------------
(* What the operators and the actions do.                                  *)

LEMMA RefusalsAreErrors ==
  /\ \A orgs, d, b : BadgeRefusal(orgs, d, b) \in Errors \cup {"none"}
  /\ \A orgs, d, t, x, pdf : CertificateRefusal(orgs, d, t, x, pdf) \in Errors \cup {"none"}
<1>1. \A org, t, x : RuleRefusal(org, t, x) \in Errors \cup {"none"}
  BY DEF RuleRefusal, Errors
<1>2. \A orgs, d, b : BadgeRefusal(orgs, d, b) \in Errors \cup {"none"}
  BY DEF BadgeRefusal, Errors
<1>3. \A orgs, d, t, x, pdf : CertificateRefusal(orgs, d, t, x, pdf) \in Errors \cup {"none"}
  BY <1>1 DEF CertificateRefusal, Errors
<1> QED
  BY <1>2, <1>3

LEMMA AcceptedAward ==
  ASSUME NEW r \in Requests, AcceptBadge(r)
  PROVE  \E a \in BadgeAwardRow : AwardFits(a) /\ Begin(r, "find_award", a)
<1>1. PICK orgs \in CallerOrgSets, d \in Donors, b \in Badges :
        /\ BadgeRefusal(orgs, d, b) = "none"
        /\ Begin(r, "find_award", [organization_id |-> DonorOrg[d], badge_id |-> b, donor_id |-> d])
  BY DEF AcceptBadge
<1> DEFINE a == [organization_id |-> DonorOrg[d], badge_id |-> b, donor_id |-> d]
<1>2. a \in BadgeAwardRow
  BY <1>1, AwardsAssumption DEF BadgeAwardRow
<1>3. AwardFits(a)
  BY <1>1 DEF BadgeRefusal, FindBadgeByIdInOrgs, AwardFits
<1> QED
  BY <1>1, <1>2, <1>3

LEMMA AcceptedCertificate ==
  ASSUME NEW r \in Requests, AcceptCertificate(r)
  PROVE  \E c \in CertificateRow : CertificateFits(c) /\ Begin(r, "create_issued", c)
<1>1. PICK orgs \in CallerOrgSets, d \in Donors, t \in Templates,
           x \in Rules \cup {NULL}, pdf \in Attachments \cup {NULL} :
        /\ CertificateRefusal(orgs, d, t, x, pdf) = "none"
        /\ Begin(r, "create_issued", NewCertificate(orgs, d, t, x, pdf))
  BY DEF AcceptCertificate
<1> DEFINE c == NewCertificate(orgs, d, t, x, pdf)
<1>2. c \in CertificateRow
  BY <1>1, AwardsAssumption DEF NewCertificate, CertificateRow, DefaultIssueStatus
<1>3. /\ TemplateOrg[t] = DonorOrg[d]
      /\ RuleRefusal(DonorOrg[d], t, x) = "none"
      /\ pdf # NULL => AttachmentOrg[pdf] = DonorOrg[d]
  BY <1>1 DEF CertificateRefusal
<1>4. x # NULL => RuleOrg[x] = DonorOrg[d] /\ RuleTemplate[x] = t
  BY <1>3 DEF RuleRefusal
<1>5. CertificateFits(c)
  BY <1>3, <1>4 DEF CertificateFits, NewCertificate
<1> QED
  BY <1>1, <1>2, <1>5

\* Every step is one of these; the two creates alone write a table, each a
\* row of its own.
StartsAward(r) ==
  /\ \E a \in BadgeAwardRow : AwardFits(a) /\ Begin(r, "find_award", a)
  /\ UNCHANGED tables
StartsCertificate(r) ==
  /\ \E c \in CertificateRow : CertificateFits(c) /\ Begin(r, "create_issued", c)
  /\ UNCHANGED tables
FindsNone(r) ==
  /\ pc[r] = "find_award" /\ ~AlreadyHeld(call[r].badge_id, call[r].donor_id)
  /\ Await(r, "create_award") /\ UNCHANGED tables
Ends(r) == (\E code \in Errors \cup {"OK"} : Respond(r, code)) /\ UNCHANGED tables

LEMMA StepShape ==
  ASSUME [Next]_vars
  PROVE  \/ UNCHANGED vars
         \/ \E r \in Requests : \/ StartsAward(r) \/ StartsCertificate(r) \/ FindsNone(r)
                                \/ Ends(r) \/ CreateAward(r) \/ CreateIssued(r)
<1>1. SUFFICES ASSUME NEW r \in Requests,
                      \/ RefuseBadge(r) \/ AcceptBadge(r) \/ FindAward(r)
                      \/ CreateAward(r) \/ RefuseCertificate(r) \/ AcceptCertificate(r)
                      \/ CreateIssued(r) \/ Answer(r) \/ FailPendingCall(r)
               PROVE  \/ StartsAward(r) \/ StartsCertificate(r) \/ FindsNone(r)
                      \/ Ends(r) \/ CreateAward(r) \/ CreateIssued(r)
  BY DEF Next
<1>2. RefuseBadge(r) => Ends(r)
  BY RefusalsAreErrors DEF RefuseBadge, Ends
<1>3. RefuseCertificate(r) => Ends(r)
  BY RefusalsAreErrors DEF RefuseCertificate, Ends
<1>4. AcceptBadge(r) => StartsAward(r)
  BY AcceptedAward DEF AcceptBadge, StartsAward
<1>5. AcceptCertificate(r) => StartsCertificate(r)
  BY AcceptedCertificate DEF AcceptCertificate, StartsCertificate
<1>6. FindAward(r) => FindsNone(r) \/ Ends(r)
  BY DEF FindAward, FindsNone, Ends, Errors
<1>7. Answer(r) \/ FailPendingCall(r) => Ends(r)
  BY DEF Answer, FailPendingCall, FailCall, Ends, Errors
<1> QED
  BY <1>1, <1>2, <1>3, <1>4, <1>5, <1>6, <1>7

-----------------------------------------------------------------------------
(* Base.                                                                   *)

LEMMA BaseAtFirst == Init => Base
<1> SUFFICES ASSUME Init PROVE Base
  OBVIOUS
<1>1. TypeOK
  BY DEF Init, TypeOK, InitHandlers, HandlersTyped, Errors
<1> QED
  BY <1>1 DEF Init, Base, InitHandlers, RowsAreOwned, LocalsFit

LEMMA TypeOKIsKept ==
  ASSUME Base, [Next]_vars
  PROVE  TypeOK'
<1> USE DEF Base
<1>1. CASE UNCHANGED vars
  BY <1>1 DEF vars, TypeOK, HandlersTyped
<1>2. ASSUME NEW r \in Requests, StartsAward(r) PROVE TypeOK'
  <2>1. HandlersTyped(PcRecognition, Rows)'
    BY <1>2, BeginTyped DEF StartsAward, TypeOK, Rows
  <2> QED
    BY <1>2, <2>1 DEF StartsAward, TypeOK, Rows, tables
<1>3. ASSUME NEW r \in Requests, StartsCertificate(r) PROVE TypeOK'
  <2>1. HandlersTyped(PcRecognition, Rows)'
    BY <1>3, BeginTyped DEF StartsCertificate, TypeOK, Rows
  <2> QED
    BY <1>3, <2>1 DEF StartsCertificate, TypeOK, Rows, tables
<1>4. ASSUME NEW r \in Requests, FindsNone(r) PROVE TypeOK'
  <2>1. HandlersTyped(PcRecognition, Rows)'
    BY <1>4, AwaitTyped DEF FindsNone, TypeOK, Rows
  <2> QED
    BY <1>4, <2>1 DEF FindsNone, TypeOK, Rows, tables
<1>5. ASSUME NEW r \in Requests, Ends(r) PROVE TypeOK'
  <2>1. HandlersTyped(PcRecognition, Rows)'
    BY <1>5, RespondTyped DEF Ends, TypeOK, Rows
  <2> QED
    BY <1>5, <2>1 DEF Ends, TypeOK, Rows, tables
<1>6. ASSUME NEW r \in Requests, CreateAward(r) PROVE TypeOK'
  <2>1. HandlersTyped(PcRecognition, Rows)'
    BY <1>6, AwaitTyped DEF CreateAward, TypeOK, Rows
  <2>2. call[r] \in BadgeAwardRow
    BY <1>6 DEF CreateAward, LocalsFit
  <2> QED
    BY <1>6, <2>1, <2>2 DEF CreateAward, TypeOK, Rows
<1>7. ASSUME NEW r \in Requests, CreateIssued(r) PROVE TypeOK'
  <2>1. HandlersTyped(PcRecognition, Rows)'
    BY <1>7, AwaitTyped DEF CreateIssued, TypeOK, Rows
  <2>2. call[r] \in CertificateRow
    BY <1>7 DEF CreateIssued, LocalsFit
  <2> QED
    BY <1>7, <2>1, <2>2 DEF CreateIssued, TypeOK, Rows
<1> QED
  BY <1>1, <1>2, <1>3, <1>4, <1>5, <1>6, <1>7, StepShape

USE DEF StartsAward, StartsCertificate, FindsNone, Ends, CreateAward, CreateIssued

LEMMA BaseIsKept ==
  ASSUME Base, [Next]_vars
  PROVE  Base'
<1> USE DEF Base
<1>1. TypeOK'
  BY TypeOKIsKept
<1>2. RowsAreOwned'
  BY StepShape DEF RowsAreOwned, TypeOK, HandlersTyped, tables, vars,
     Begin, Await, Respond
<1>3. LocalsFit'
  <2>1. CASE UNCHANGED vars
    BY <2>1 DEF LocalsFit, AwardFits, CertificateFits, vars
  <2>2. ASSUME NEW r \in Requests,
               StartsAward(r) \/ StartsCertificate(r) \/ FindsNone(r)
               \/ Ends(r) \/ CreateAward(r) \/ CreateIssued(r)
        PROVE  LocalsFit'
    BY <2>2 DEF LocalsFit, AwardFits, CertificateFits, TypeOK, HandlersTyped,
       Begin, Await, Respond
  <2> QED
    BY <2>1, <2>2, StepShape
<1> QED
  BY <1>1, <1>2, <1>3

-----------------------------------------------------------------------------
(* The invariant.                                                          *)

\* Two handlers that have begun have overlapped or not, once and for all.
LEMMA OverlapIsKept ==
  ASSUME Base, [Next]_vars, NEW p \in Requests, NEW q \in Requests,
         pc[p] # "idle", pc[q] # "idle", Overlapped(p, q)
  PROVE  Overlapped(p, q)'
<1>1. met'[p] = met[p] /\ met'[q] = met[q]
  BY StepShape DEF Base, TypeOK, HandlersTyped, Begin, Await, Respond, vars
<1> QED
  BY <1>1 DEF Overlapped

\* An award is new or was there before.
LEMMA AwardsForNext ==
  ASSUME Base, [Next]_vars, NEW b, NEW d, NEW l \in AwardsFor(b, d)'
  PROVE  /\ l \in Requests
         /\ \/ l \in AwardsFor(b, d) /\ badgeAwards'[l] = badgeAwards[l]
            \/ CreateAward(l) /\ call[l].badge_id = b /\ call[l].donor_id = d
<1>1. l \in Requests /\ badgeAwards'[l] # NULL
      /\ badgeAwards'[l].badge_id = b /\ badgeAwards'[l].donor_id = d
  BY DEF AwardsFor
<1>2. badgeAwards'[l] = badgeAwards[l] \/ (CreateAward(l) /\ badgeAwards'[l] = call[l])
  BY <1>1, StepShape DEF Base, TypeOK, vars, tables
<1> QED
  BY <1>1, <1>2 DEF AwardsFor

\* Who owns a row has begun.
LEMMA OwnersHaveBegun ==
  ASSUME Base, NEW b, NEW d, NEW l \in AwardsFor(b, d)
  PROVE  l \in Requests /\ pc[l] # "idle"
  BY DEF Base, RowsAreOwned, AwardsFor

LEMMA FreshIsKept ==
  ASSUME Base, Fresh, InFlightOverlap, [Next]_vars
  PROVE  Fresh'
<1> SUFFICES ASSUME NEW r \in Requests, pc'[r] = "create_award",
                    NEW l \in AwardsFor(call[r].badge_id, call[r].donor_id)'
             PROVE  Overlapped(r, l)'
  BY DEF Fresh
<1> DEFINE b == call'[r].badge_id
           d == call'[r].donor_id
<1>1. /\ call'[r] = call[r] /\ pc[r] # "idle"
      /\ \/ pc[r] = "create_award"
         \/ FindsNone(r)
  BY StepShape DEF Base, TypeOK, HandlersTyped, Begin, Await, Respond, vars
<1>2. l \in Requests
      /\ \/ l \in AwardsFor(b, d)
         \/ CreateAward(l) /\ call[l].badge_id = b /\ call[l].donor_id = d
  BY AwardsForNext
<1>3. CASE l \in AwardsFor(b, d)
  <2>1. ~FindsNone(r)
    BY <1>1, <1>3 DEF AlreadyHeld
  <2>2. Overlapped(r, l)
    BY <1>1, <1>3, <2>1 DEF Fresh
  <2> QED
    BY <1>1, <1>2, <1>3, <2>2, OwnersHaveBegun, OverlapIsKept
<1>4. CASE CreateAward(l)
  <2>1. l # r
    BY <1>4 DEF Base, TypeOK, HandlersTyped, Await
  <2>2. Overlapped(r, l)
    BY <1>1, <1>2, <1>4, <2>1 DEF InFlightOverlap, InFlight
  <2> QED
    BY <1>1, <1>2, <1>4, <2>2, OverlapIsKept
<1> QED
  BY <1>2, <1>3, <1>4

LEMMA RepeatsAreKept ==
  ASSUME Base, Fresh, AwardsRepeatOnlyByOverlap, [Next]_vars
  PROVE  AwardsRepeatOnlyByOverlap'
<1> SUFFICES ASSUME NEW b \in Badges, NEW d \in Donors,
                    NEW l \in AwardsFor(b, d)', NEW k \in AwardsFor(b, d)', l # k
             PROVE  Overlapped(l, k)'
  BY DEF AwardsRepeatOnlyByOverlap
<1>1. l \in Requests /\ k \in Requests
  BY AwardsForNext
<1>2. CASE l \in AwardsFor(b, d) /\ k \in AwardsFor(b, d)
  BY <1>1, <1>2, OwnersHaveBegun, OverlapIsKept DEF AwardsRepeatOnlyByOverlap
<1>3. CASE CreateAward(l) /\ call[l].badge_id = b /\ call[l].donor_id = d
           /\ k \in AwardsFor(b, d)
  <2>1. Overlapped(l, k)
    BY <1>1, <1>3 DEF Fresh
  <2> QED
    BY <1>1, <1>3, <2>1, OwnersHaveBegun, OverlapIsKept
<1>4. CASE CreateAward(k) /\ call[k].badge_id = b /\ call[k].donor_id = d
           /\ l \in AwardsFor(b, d)
  <2>1. Overlapped(l, k)
    BY <1>1, <1>4 DEF Fresh, Overlapped
  <2> QED
    BY <1>1, <1>4, <2>1, OwnersHaveBegun, OverlapIsKept
<1>5. ~(CreateAward(l) /\ CreateAward(k))
  BY <1>1 DEF Base, TypeOK, HandlersTyped, Await
<1> QED
  BY <1>2, <1>3, <1>4, <1>5, AwardsForNext

LEMMA FittingIsKept ==
  ASSUME Base, RowsStayInDonorsOrg, [Next]_vars
  PROVE  RowsStayInDonorsOrg'
<1>1. ASSUME NEW l \in Requests
      PROVE  /\ \/ badgeAwards'[l] = badgeAwards[l]
                \/ badgeAwards'[l] = call[l] /\ AwardFits(call[l])
             /\ \/ certificates'[l] = certificates[l]
                \/ certificates'[l] = call[l] /\ CertificateFits(call[l])
  BY StepShape DEF Base, TypeOK, LocalsFit, vars, tables
<1> SUFFICES ASSUME NEW l \in Requests
             PROVE  /\ badgeAwards'[l] # NULL => AwardFits(badgeAwards'[l])
                    /\ certificates'[l] # NULL => CertificateFits(certificates'[l])
  BY DEF RowsStayInDonorsOrg, AwardFits, CertificateFits
<1> QED
  BY <1>1 DEF RowsStayInDonorsOrg

LEMMA OverlapIsTracked ==
  ASSUME Base, InFlightOverlap, [Next]_vars
  PROVE  InFlightOverlap'
<1> USE DEF Base, TypeOK
<1>1. CASE UNCHANGED vars
  BY <1>1 DEF vars, InFlightOverlap, InFlight, Overlapped
<1>2. ASSUME NEW r \in Requests, StartsAward(r) \/ StartsCertificate(r)
      PROVE  InFlightOverlap'
  BY <1>2, BeginOverlaps DEF Rows
<1>3. ASSUME NEW r \in Requests,
             FindsNone(r) \/ Ends(r) \/ CreateAward(r) \/ CreateIssued(r)
      PROVE  InFlightOverlap'
  BY <1>3, GoingOnOverlaps DEF Rows, InFlight
<1> QED
  BY <1>1, <1>2, <1>3, StepShape

-----------------------------------------------------------------------------

LEMMA InvHolds == Spec => []Inv
<1>1. Init => Inv
  BY BaseAtFirst, OverlapAtFirst
     DEF Inv, Init, InitHandlers, Fresh, AwardsRepeatOnlyByOverlap, RowsStayInDonorsOrg, AwardsFor
<1>2. Inv /\ [Next]_vars => Inv'
  BY BaseIsKept, FreshIsKept, OverlapIsTracked, RepeatsAreKept, FittingIsKept DEF Inv
<1> QED
  BY <1>1, <1>2, PTL DEF Spec

\* Awards, certificates and handlers' locals keep their types.
THEOREM AwardsTypeCorrect == Spec => []TypeOK
  BY InvHolds, PTL DEF Inv, Base

\* Two awards of one badge to one donor come from overlapping requests.
THEOREM AwardsAlwaysRepeatByOverlap == Spec => []AwardsRepeatOnlyByOverlap
  BY InvHolds, PTL DEF Inv

\* No row ties together what belongs to different organizations.
THEOREM RowsAlwaysInDonorsOrg == Spec => []RowsStayInDonorsOrg
  BY InvHolds, PTL DEF Inv

=============================================================================
