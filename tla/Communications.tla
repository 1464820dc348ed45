--------------------------- MODULE Communications ---------------------------
(***************************************************************************)
(* POST /ops/notifications, /ops/notifications/[id]/recipients and         *)
(* /ops/communication-campaigns.  Rows are written for one organization,   *)
(* which body, template or caller must determine; nothing is delivered.    *)
(***************************************************************************)
EXTENDS CallerScope

CONSTANTS
  Templates, TemplateOrg,
  MessageBodies,      \* bodies of POST: the organization and template named
  OldNotifications,   \* rows stored before, by id
  OldCampaigns,
  RecipientBodies     \* bodies of POST: the fields sent

NotificationIds == Requests \cup DOMAIN OldNotifications
CampaignIds == Requests \cup DOMAIN OldCampaigns

MessageBody == [organization_id : Orgs \cup {NULL}, template_id : Templates \cup {NULL}]

\* A row of notifications or of communication_campaigns.
MessageRow ==
  [organization_id : Orgs, template_id : Templates \cup {NULL},
   status : {"draft"}, created_by : Callers]

RecipientFields ==
  {"user_id", "donor_id", "recipient_name", "recipient_phone", "recipient_email"}

RecipientRow ==
  [notification_id : NotificationIds, sent : SUBSET RecipientFields,
   delivery_status : {"pending"}]

ASSUME CommunicationsAssumption ==
  /\ TemplateOrg \in [Templates -> Orgs]
  /\ MessageBodies \subseteq MessageBody
  /\ RecipientBodies \subseteq SUBSET RecipientFields
  /\ \A old \in {OldNotifications, OldCampaigns} :
       /\ old \in [DOMAIN old -> MessageRow]
       /\ \A l \in DOMAIN old :
            old[l].template_id # NULL => TemplateOrg[old[l].template_id] = old[l].organization_id
       /\ Requests \cap DOMAIN old = {}
  /\ NULL \notin Templates

VARIABLES
  notifications,   \* by id
  recipients,      \* notification_recipients
  campaigns        \* communication_campaigns

commsVars == <<notifications, recipients, campaigns>>

CommsCall == [user : Callers, row : MessageRow \cup RecipientRow]

PcComms == {"create_notification", "create_recipient", "create_campaign"}

CommsTyped ==
  /\ notifications \in [NotificationIds -> MessageRow \cup {NULL}]
  /\ recipients \in [Requests -> RecipientRow \cup {NULL}]
  /\ campaigns \in [CampaignIds -> MessageRow \cup {NULL}]

InitComms ==
  /\ notifications = Stored(NotificationIds, OldNotifications)
  /\ recipients = [l \in Requests |-> NULL]
  /\ campaigns = Stored(CampaignIds, OldCampaigns)

-----------------------------------------------------------------------------

\* Mutant: the organization of the template does not count.
ResolveTargetOrgId_ExplicitWins(explicit, derived, orgs) ==
  LET chosen == IF explicit # NULL THEN explicit ELSE derived
      candidates == IF chosen = NULL THEN orgs ELSE {chosen} \cap orgs
  IN {o \in candidates : candidates = {o}}

\* The one organization that the hints, or without hints the caller, leave,
\* or none.
ResolveTargetOrgId(explicit, derived, orgs) ==
  LET hints == {explicit, derived} \ {NULL}
      candidates == IF hints = {} THEN orgs ELSE {o \in hints \cap orgs : hints = {o}}
  IN {o \in candidates : candidates = {o}}

\* Up to the insert, the handlers of notifications and campaigns do the same.
OpenMessage(r, next, body) ==
  LET orgs == CollectOrganizationIds(call[r])
      derived == IF body.template_id = NULL THEN NULL ELSE TemplateOrg[body.template_id]
      visible == derived \in orgs \cup {NULL}
      target == ResolveTargetOrgId(body.organization_id, derived, orgs)
  IN \/ ~visible /\ Respond(r, "NOT_FOUND")
     \/ visible /\ target = {} /\ Respond(r, "BAD_REQUEST")
     \/ /\ visible
        /\ \E org \in target :
             AwaitWith(r, next,
                       [user |-> call[r].user,
                        row |-> [organization_id |-> org, template_id |-> body.template_id,
                                 status |-> "draft", created_by |-> call[r].user]])

CreateOpsNotification(r) ==
  /\ RequireOps(r)
  /\ \E body \in MessageBodies : OpenMessage(r, "create_notification", body)
  /\ UNCHANGED commsVars

InsertNotification(r) ==
  /\ pc[r] = "create_notification"
  /\ notifications' = [notifications EXCEPT ![r] = call[r].row]
  /\ Await(r, "respond")
  /\ UNCHANGED <<recipients, campaigns>>

CreateCampaign(r) ==
  /\ RequireOps(r)
  /\ \E body \in MessageBodies : OpenMessage(r, "create_campaign", body)
  /\ UNCHANGED commsVars

InsertCampaign(r) ==
  /\ pc[r] = "create_campaign"
  /\ campaigns' = [campaigns EXCEPT ![r] = call[r].row]
  /\ Await(r, "respond")
  /\ UNCHANGED <<notifications, recipients>>

-----------------------------------------------------------------------------

\* A name alone addresses nobody.
Addressed(body) == body \cap (RecipientFields \ {"recipient_name"}) # {}

RefuseUnaddressed(r) ==
  /\ RequireOps(r)
  /\ \E body \in RecipientBodies : ~Addressed(body)
  /\ Respond(r, "VALIDATION_ERROR")
  /\ UNCHANGED commsVars

AssertNotificationInCallerOrgs(l, orgs) == l \in InOrgs(notifications, orgs)

CreateRecipientForNotification(r) ==
  /\ RequireOps(r)
  /\ \E l \in NotificationIds, body \in RecipientBodies :
       LET visible == AssertNotificationInCallerOrgs(l, CollectOrganizationIds(call[r]))
       IN /\ Addressed(body)
          /\ \/ ~visible /\ Respond(r, "NOT_FOUND")
             \/ visible /\ AwaitWith(r, "create_recipient",
                  [user |-> call[r].user,
                   row |-> [notification_id |-> l, sent |-> body,
                            delivery_status |-> "pending"]])
  /\ UNCHANGED commsVars

InsertRecipient(r) ==
  /\ pc[r] = "create_recipient"
  /\ recipients' = [recipients EXCEPT ![r] = call[r].row]
  /\ Await(r, "respond")
  /\ UNCHANGED <<notifications, campaigns>>

NextComms(r) ==
  \/ CreateOpsNotification(r) \/ InsertNotification(r)
  \/ CreateCampaign(r) \/ InsertCampaign(r)
  \/ RefuseUnaddressed(r) \/ CreateRecipientForNotification(r) \/ InsertRecipient(r)

=============================================================================
