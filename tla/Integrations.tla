---------------------------- MODULE Integrations ----------------------------
(***************************************************************************)
(* POST and PATCH /ops/integration-configurations, and the public webhook  *)
(* receiver, which files an event under the one active provider that has   *)
(* the code in the path.  Providers are switched on and off by others.     *)
(***************************************************************************)
EXTENDS CallerScope, Integers, Sequences, FiniteSetsExt

CONSTANTS
  Providers, ProviderOrg, ProviderCode,
  ProviderStates,      \* the sets of providers that may be active
  ConfigColumns, ConfigValues,
  ConfigBodies,        \* bodies of POST
  ConfigPatches,       \* bodies of PATCH
  ConfigDefaults,      \* what POST stores for a column that is not sent
  OldConfigurations,   \* rows stored before, by id
  Deliveries           \* what is sent to the webhook receiver

ConfigurationIds == Requests \cup DOMAIN OldConfigurations

Codes == {ProviderCode[p] : p \in Providers}

BodyKeys ==
  {"event", "event_type", "eventType", "type", "id", "event_id", "eventId", "external_id",
   "_value", "_raw"}

\* A member of a body: whether it is a string, and how long.
Member == [type : {"string", "other"}, length : Nat]
Whole == [type |-> "other", length |-> 0]

\* Bodies and headers are functions from the keys that are there.
PartialFunctions(S, T) == UNION {[keys -> T] : keys \in SUBSET S}

\* config_payload_json, of which one key is in SECRET_KEYS.
PayloadKeys == {"api_key", "sender"}
Payload == PartialFunctions(PayloadKeys, {"set", "[REDACTED]"})

ConfigurationRow ==
  [organization_id : Orgs, provider_id : Providers, data : [ConfigColumns -> ConfigValues],
   config_payload_json : Payload, created_by : Callers, updated_by : Callers]

\* The columns sent, with their values, and the payload if it is sent.
ConfigBody ==
  [data : PartialFunctions(ConfigColumns, ConfigValues), payload : Payload \cup {NULL}]

HeaderKeys ==
  {"authorization", "cookie", "x-api-key", "x-auth-token", "x-webhook-secret", "user-agent"}
HeaderValues == {"sent", "[REDACTED]"}

Delivery ==
  [json : {"empty", "object", "value", "broken"}, members : PartialFunctions(BodyKeys, Member),
   headers : PartialFunctions(HeaderKeys, HeaderValues)]

ASSUME IntegrationsAssumption ==
  /\ ProviderOrg \in [Providers -> Orgs]
  /\ ProviderStates \subseteq SUBSET Providers
  /\ ConfigBodies \cup ConfigPatches \subseteq ConfigBody
  /\ \A body \in ConfigBodies : body.payload # NULL
  /\ ConfigDefaults \in [ConfigColumns -> ConfigValues]
  /\ OldConfigurations \in [DOMAIN OldConfigurations -> ConfigurationRow]
  /\ \A l \in DOMAIN OldConfigurations :
       ProviderOrg[OldConfigurations[l].provider_id] = OldConfigurations[l].organization_id
  /\ Requests \cap DOMAIN OldConfigurations = {}
  /\ \A d \in Deliveries : d.json = "empty" => d.members = [k \in {} |-> Whole]

VARIABLES
  configurations,   \* integration_configurations, by id
  events,           \* webhook_events
  active            \* integration_providers: is_active

integrationVars == <<configurations, events, active>>

PcIntegrations == {"create_configuration", "apply_patch", "create_event"}

InitIntegrations ==
  /\ configurations = Stored(ConfigurationIds, OldConfigurations)
  /\ events = [l \in Requests |-> NULL]
  /\ active \in ProviderStates

-----------------------------------------------------------------------------
(* createIntegrationConfiguration, updateIntegrationConfiguration          *)

\* Mutant: a column that is not sent is left out.
NewConfigData_SentOnly(body) == body.data

NewConfigData(body) ==
  [k \in ConfigColumns |->
    IF k \in DOMAIN body.data THEN body.data[k] ELSE ConfigDefaults[k]]

CreateIntegrationConfiguration(r) ==
  /\ RequireOps(r)
  /\ \E p \in Providers, body \in ConfigBodies :
       LET visible == ProviderOrg[p] \in CollectOrganizationIds(call[r])
       IN \/ ~visible /\ Respond(r, "NOT_FOUND")
          \/ visible /\ p \notin active /\ Respond(r, "BAD_REQUEST")
          \/ /\ visible /\ p \in active
             /\ AwaitWith(r, "create_configuration",
                  [user |-> call[r].user,
                   row |-> [organization_id |-> ProviderOrg[p], provider_id |-> p,
                            data |-> NewConfigData(body), config_payload_json |-> body.payload,
                            created_by |-> call[r].user, updated_by |-> call[r].user]])
  /\ UNCHANGED integrationVars

InsertConfiguration(r) ==
  /\ pc[r] = "create_configuration"
  /\ configurations' = [configurations EXCEPT ![r] = call[r].row]
  /\ Await(r, "respond")
  /\ UNCHANGED <<events, active>>

UpdateIntegrationConfiguration(r) ==
  LET orgs == CollectOrganizationIds(call[r])
  IN /\ RequireOps(r)
     /\ \E l \in ConfigurationIds, body \in ConfigPatches :
          LET visible == l \in InOrgs(configurations, orgs)
          IN \/ ~visible /\ Respond(r, "NOT_FOUND")
             \/ visible /\ AwaitWith(r, "apply_patch",
                  [user |-> call[r].user, orgs |-> orgs, id |-> l, body |-> body])
     /\ UNCHANGED integrationVars

\* Mutant: a column that is not sent is reset.
PatchedConfiguration_Whole(row, c) ==
  [row EXCEPT !.data = NewConfigData(c.body), !.updated_by = c.user]

PatchedConfiguration(row, c) ==
  [row EXCEPT
     !.data = [k \in ConfigColumns |-> IF k \in DOMAIN c.body.data THEN c.body.data[k] ELSE @[k]],
     !.config_payload_json = IF c.body.payload = NULL THEN @ ELSE c.body.payload,
     !.updated_by = c.user]

ApplyPatch(r) ==
  LET c == call[r]
      matches == c.id \in InOrgs(configurations, c.orgs)
  IN /\ pc[r] = "apply_patch"
     /\ IF matches
        THEN /\ configurations' = [configurations EXCEPT ![c.id] = PatchedConfiguration(@, c)]
             /\ Await(r, "respond")
        ELSE Respond(r, "NOT_FOUND") /\ UNCHANGED configurations
     /\ UNCHANGED <<events, active>>

-----------------------------------------------------------------------------
(* receiveWebhook                                                          *)

\* What is stored of a body: an object, whatever was sent.
ParseRequestBody(d) ==
  CASE d.json \in {"empty", "object"} -> d.members
    [] d.json = "value" -> [k \in {"_value"} |-> Whole]
    [] d.json = "broken" -> [k \in {"_raw"} |-> Whole]

\* The first of the keys with a string that is not empty and not too long.
FirstString(body, keys, limit, fallback) ==
  LET hits == {i \in DOMAIN keys :
                 /\ keys[i] \in DOMAIN body
                 /\ body[keys[i]].type = "string" /\ body[keys[i]].length \in 1..limit}
  IN IF hits = {} THEN fallback ELSE body[keys[Min(hits)]]

ResolveEventType(body) ==
  FirstString(body, <<"event", "event_type", "eventType", "type">>, 200, "unknown")

ResolveExternalEventId(body) ==
  FirstString(body, <<"id", "event_id", "eventId", "external_id">>, 500, NULL)

SensitiveHeaderKeys ==
  {"authorization", "cookie", "x-api-key", "x-auth-token", "x-webhook-secret"}

\* The platform has brought the names to lower case.
SerializeRequestHeaders(headers) ==
  [k \in DOMAIN headers |-> IF k \in SensitiveHeaderKeys THEN "[REDACTED]" ELSE headers[k]]

EventRow(p, d) ==
  LET body == ParseRequestBody(d)
  IN [organization_id |-> ProviderOrg[p], provider_id |-> p,
      event_type |-> ResolveEventType(body),
      external_event_id |-> ResolveExternalEventId(body),
      request_headers_json |-> SerializeRequestHeaders(d.headers),
      request_body_json |-> body, processing_status |-> "pending"]

\* Mutant: providers that are switched off still count.
ListActiveByProviderCode_Inactive(code) == {p \in Providers : ProviderCode[p] = code}

ListActiveByProviderCode(code) == {p \in active : ProviderCode[p] = code}

ReceiveWebhook(r) ==
  /\ pc[r] = "idle"
  /\ \E code \in Codes, d \in Deliveries, p \in Providers :
       /\ ListActiveByProviderCode(code) = {p}
       /\ Begin(r, "create_event", [user |-> NULL, row |-> EventRow(p, d)])
  /\ UNCHANGED integrationVars

RefuseWebhook(r) ==
  /\ pc[r] = "idle"
  /\ \E code \in Codes :
       LET candidates == ListActiveByProviderCode(code)
       IN \/ candidates = {} /\ Respond(r, "NOT_FOUND")
          \/ /\ \E p, q \in candidates : p # q
             /\ Respond(r, "CONFLICT")
  /\ UNCHANGED integrationVars

InsertEvent(r) ==
  /\ pc[r] = "create_event"
  /\ events' = [events EXCEPT ![r] = call[r].row]
  /\ Await(r, "respond")
  /\ UNCHANGED <<configurations, active>>

\* No code here writes integration_providers.
SwitchProviders ==
  /\ active' \in ProviderStates \ {active}
  /\ UNCHANGED <<configurations, events, handlers>>

NextIntegrations(r) ==
  \/ CreateIntegrationConfiguration(r) \/ InsertConfiguration(r)
  \/ UpdateIntegrationConfiguration(r) \/ ApplyPatch(r)
  \/ ReceiveWebhook(r) \/ RefuseWebhook(r) \/ InsertEvent(r)

-----------------------------------------------------------------------------

EventRows == {EventRow(p, d) : p \in Providers, d \in Deliveries}

IntegrationCall ==
  [user : Callers, row : ConfigurationRow] \cup
  [user : Callers, orgs : SUBSET Orgs, id : ConfigurationIds, body : ConfigPatches] \cup
  [user : {NULL}, row : EventRows]

IntegrationsTyped ==
  /\ configurations \in [ConfigurationIds -> ConfigurationRow \cup {NULL}]
  /\ events \in [Requests -> EventRows \cup {NULL}]
  /\ active \in ProviderStates

=============================================================================
