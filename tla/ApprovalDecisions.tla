------------------------- MODULE ApprovalDecisions -------------------------
(***************************************************************************)
(* POST /ops/approval-requests and POST /ops/approval-requests/[id]/       *)
(* decisions.  A request names no chain: each decision looks up the chain  *)
(* that governs it now, and the step of that chain that is pending.        *)
(***************************************************************************)
EXTENDS RequestHandler, Naturals

CONSTANTS
  Users, UserOrgs, UserRoles,   \* active memberships, and roles by user and organization
  Orgs, Branches,
  Types, TypeOrg, TypeActive, TypeEntity,
  EntityTypes,
  Chains, ChainOrg, ChainType, ChainEntity, ChainBranch, ChainDefault,
  InitiallyActive, Switchable,  \* chains active at first; those an administrator may switch
  Steps, StepChain, StepOrder, StepRequired, StepUser, StepRole,
  SuppliedSteps,                \* approval_chain_step_id in the body, or NULL
  Submitted                     \* approval requests from before, by id

Ids == Requests \cup DOMAIN Submitted

ApprovalRow ==
  [organization_id : Orgs, branch_id : Branches \cup {NULL},
   approval_type_id : Types, entity_type : EntityTypes]

ASSUME ApprovalsAssumption ==
  /\ Submitted \in [DOMAIN Submitted -> ApprovalRow]
  /\ UserOrgs \in [Users -> SUBSET Orgs \ {{}}]
  /\ TypeOrg \in [Types -> Orgs]
  /\ TypeActive \in [Types -> BOOLEAN]
  /\ TypeEntity \in [Types -> EntityTypes]
  /\ InitiallyActive \subseteq Chains
  /\ Switchable \subseteq Chains
  /\ StepChain \in [Steps -> Chains]
  /\ StepOrder \in [Steps -> Nat]
  /\ SuppliedSteps \subseteq Steps \cup {NULL}
  /\ DOMAIN Submitted \cap Requests = {}
  /\ NULL \notin Users \cup Steps \cup Branches

VARIABLES
  approvals,    \* approval_requests, by id
  decisions,    \* approval_decisions, by id
  chainActive   \* the chains whose is_active is true

tables == <<approvals, decisions, chainActive>>
vars == <<approvals, decisions, chainActive, pc, call, answer, met>>

Statuses == {"approved", "rejected"}

DecisionRow ==
  [approval_request_id : Ids, approval_chain_step_id : Steps,
   decision_by_user_id : Users, decision_status : Statuses]

\* createApprovalDecision: the chain it has loaded, the caller and the body;
\* once it has listed the decisions, "step" is the pending step.
DecisionCall ==
  [approval : Ids, chain : Chains, user : Users,
   step : Steps \cup {NULL}, status : Statuses]

ASSUME ApprovalsNullAssumption == NULL \notin ApprovalRow \cup DecisionRow \cup DecisionCall

PcApproval == {"create_request", "list_decisions", "create_decision"}

TypeOK ==
  /\ approvals \in [Ids -> ApprovalRow \cup {NULL}]
  /\ decisions \in [Requests -> DecisionRow \cup {NULL}]
  /\ chainActive \in SUBSET Chains
  /\ HandlersTyped(PcApproval, ApprovalRow \cup DecisionCall)

Init ==
  /\ approvals = [a \in Ids |-> IF a \in DOMAIN Submitted THEN Submitted[a] ELSE NULL]
  /\ decisions = [l \in Requests |-> NULL]
  /\ chainActive = InitiallyActive
  /\ InitHandlers

-----------------------------------------------------------------------------
(* createApprovalRequest                                                   *)

SubmitRefusal(u, t, e) ==
  CASE TypeOrg[t] \notin UserOrgs[u] -> "NOT_FOUND"
    [] TypeOrg[t] \in UserOrgs[u] /\ (~TypeActive[t] \/ TypeEntity[t] # e) -> "BAD_REQUEST"
    [] OTHER -> "none"

RefuseSubmit(r) ==
  /\ pc[r] = "idle"
  /\ \E u \in Users, t \in Types, e \in EntityTypes :
       /\ SubmitRefusal(u, t, e) # "none"
       /\ Respond(r, SubmitRefusal(u, t, e))
  /\ UNCHANGED tables

AcceptSubmit(r) ==
  /\ \E u \in Users, t \in Types, e \in EntityTypes, b \in Branches \cup {NULL} :
       /\ SubmitRefusal(u, t, e) = "none"
       /\ Begin(r, "create_request",
                [organization_id |-> TypeOrg[t], branch_id |-> b,
                 approval_type_id |-> t, entity_type |-> e])
  /\ UNCHANGED tables

CreateRequest(r) ==
  /\ pc[r] = "create_request"
  /\ approvals' = [approvals EXCEPT ![r] = call[r]]
  /\ Await(r, "respond")
  /\ UNCHANGED <<decisions, chainActive>>

-----------------------------------------------------------------------------
(* createApprovalDecision                                                  *)

Visible(a, u) == approvals[a] # NULL /\ approvals[a].organization_id \in UserOrgs[u]

ActiveChainsFor(row) ==
  {c \in chainActive : /\ ChainOrg[c] = row.organization_id
                       /\ ChainType[c] = row.approval_type_id
                       /\ ChainEntity[c] = row.entity_type}

\* Those of the request's branch, else those of the whole organization, else all.
Pool(row) ==
  LET rows    == ActiveChainsFor(row)
      scoped  == {c \in rows : row.branch_id # NULL /\ ChainBranch[c] = row.branch_id}
      orgWide == {c \in rows : ChainBranch[c] = NULL}
  IN IF scoped # {} THEN scoped ELSE IF orgWide # {} THEN orgWide ELSE rows

\* The rows come unordered: any default of the pool, or any of the pool, may be first.
FindGoverningChain(row) ==
  LET defaults == {c \in Pool(row) : ChainDefault[c]}
  IN IF defaults # {} THEN defaults ELSE Pool(row)

RefuseDecision(r) ==
  /\ pc[r] = "idle"
  /\ \E u \in Users, a \in Ids :
       \/ ~Visible(a, u) /\ Respond(r, "NOT_FOUND")
       \/ /\ Visible(a, u)
          /\ FindGoverningChain(approvals[a]) = {}
          /\ Respond(r, "DEPENDENCY_ERROR")
  /\ UNCHANGED tables

LoadChain(r) ==
  /\ \E u \in Users, a \in Ids, s \in SuppliedSteps, status \in Statuses :
       /\ Visible(a, u)
       /\ \E c \in FindGoverningChain(approvals[a]) :
            Begin(r, "list_decisions",
                  [approval |-> a, chain |-> c, user |-> u, step |-> s, status |-> status])
  /\ UNCHANGED tables

DecisionsOn(a, s) ==
  {l \in Requests : /\ decisions[l] # NULL
                    /\ decisions[l].approval_request_id = a
                    /\ decisions[l].approval_chain_step_id = s}

ApprovedStep(a, s) == \E l \in DecisionsOn(a, s) : decisions[l].decision_status = "approved"

Unapproved(a, chain) ==
  {s \in Steps : StepChain[s] = chain /\ StepRequired[s] /\ ~ApprovedStep(a, s)}

\* Mutant: the steps are not sorted.
PickNextPendingStep_AnyOrder(a, chain) == Unapproved(a, chain)

\* Steps of equal step_order come in any order.
PickNextPendingStep(a, chain) ==
  {s \in Unapproved(a, chain) : \A t \in Unapproved(a, chain) : StepOrder[s] <= StepOrder[t]}

\* Mutant: a step with a role is open to every member.
IsCallerEligibleForStep_AnyMember(s, u, org) ==
  IF StepUser[s] # NULL THEN StepUser[s] = u ELSE org \in UserOrgs[u]

IsCallerEligibleForStep(s, u, org) ==
  IF StepUser[s] # NULL THEN StepUser[s] = u
  ELSE IF StepRole[s] # NULL THEN StepRole[s] \in UserRoles[u][org]
  ELSE org \in UserOrgs[u]

\* Mutant: the idempotency check is left out.
HasCallerAlreadyDecided_Never(a, s, u) == FALSE

HasCallerAlreadyDecided(a, s, u) ==
  \E l \in DecisionsOn(a, s) : decisions[l].decision_by_user_id = u

DecisionRefusal(c, s) ==
  LET org == approvals[c.approval].organization_id
  IN IF c.step \notin {NULL, s} THEN "CONFLICT"
     ELSE IF ~IsCallerEligibleForStep(s, c.user, org) THEN "FORBIDDEN"
     ELSE IF HasCallerAlreadyDecided(c.approval, s, c.user) THEN "CONFLICT"
     ELSE "none"

ListDecisions(r) ==
  LET c == call[r]
      pending == PickNextPendingStep(c.approval, c.chain)
  IN /\ pc[r] = "list_decisions"
     /\ \/ pending = {} /\ Respond(r, "CONFLICT")
        \/ \E s \in pending :
             \/ DecisionRefusal(c, s) # "none" /\ Respond(r, DecisionRefusal(c, s))
             \/ /\ DecisionRefusal(c, s) = "none"
                /\ AwaitWith(r, "create_decision", [c EXCEPT !.step = s])
     /\ UNCHANGED tables

\* Mutant: the step of the body is stored, not the resolved one.
NewDecision_NoStep(c) ==
  [approval_request_id |-> c.approval, approval_chain_step_id |-> NULL,
   decision_by_user_id |-> c.user, decision_status |-> c.status]

NewDecision(c) ==
  [approval_request_id |-> c.approval, approval_chain_step_id |-> c.step,
   decision_by_user_id |-> c.user, decision_status |-> c.status]

CreateDecision(r) ==
  /\ pc[r] = "create_decision"
  /\ decisions' = [decisions EXCEPT ![r] = NewDecision(call[r])]
  /\ Await(r, "respond")
  /\ UNCHANGED <<approvals, chainActive>>

-----------------------------------------------------------------------------

Answer(r) ==
  /\ pc[r] = "respond"
  /\ Respond(r, "OK")
  /\ UNCHANGED tables

FailPendingCall(r) == FailCall(r) /\ UNCHANGED tables

\* Chains are configured outside this code, at any time.
SwitchChain ==
  /\ \E c \in Switchable :
       chainActive' = IF c \in chainActive THEN chainActive \ {c} ELSE chainActive \cup {c}
  /\ UNCHANGED <<approvals, decisions, pc, call, answer, met>>

Next ==
  \/ \E r \in Requests :
       \/ RefuseSubmit(r)
       \/ AcceptSubmit(r)
       \/ CreateRequest(r)
       \/ RefuseDecision(r)
       \/ LoadChain(r)
       \/ ListDecisions(r)
       \/ CreateDecision(r)
       \/ Answer(r)
       \/ FailPendingCall(r)
  \/ SwitchChain

Spec == Init /\ [][Next]_vars

-----------------------------------------------------------------------------
(* Properties.                                                             *)

\* Who may decide: members of the organization, less those a step leaves out.
OpenTo(s, u, org) ==
  /\ org \in UserOrgs[u]
  /\ StepUser[s] \in {NULL, u}
  /\ StepUser[s] = NULL /\ StepRole[s] # NULL => StepRole[s] \in UserRoles[u][org]

\* Whatever chains are switched while handlers are suspended, a decision is
\* on a required step of a chain for its request's organization, type and
\* entity type, by somebody that step is open to.
DecisionsAreRightful ==
  \A l \in Requests : decisions[l] # NULL =>
    LET row   == approvals[decisions[l].approval_request_id]
        s     == decisions[l].approval_chain_step_id
        chain == StepChain[s]
    IN /\ row # NULL
       /\ StepRequired[s]
       /\ ChainOrg[chain] = row.organization_id
       /\ ChainType[chain] = row.approval_type_id
       /\ ChainEntity[chain] = row.entity_type
       /\ OpenTo(s, decisions[l].decision_by_user_id, row.organization_id)

\* No step is decided before the required steps ahead of it in its chain are
\* approved, also when the chain was switched away from and back.
StepsInOrder ==
  \A l \in Requests : decisions[l] # NULL =>
    LET s == decisions[l].approval_chain_step_id
    IN \A t \in Steps :
         /\ StepChain[t] = StepChain[s]
         /\ StepRequired[t]
         /\ StepOrder[t] < StepOrder[s]
         => ApprovedStep(decisions[l].approval_request_id, t)

\* Decisions are only appended.  One on a step that is already approved, or
\* that its user has already decided, can only come from a request that
\* overlapped the earlier one.
FreshDecisions ==
  [][\A l \in Requests : decisions'[l] # decisions[l] =>
       LET d == decisions'[l]
       IN /\ decisions[l] = NULL
          /\ \A e \in DecisionsOn(d.approval_request_id, d.approval_chain_step_id) :
               \/ decisions[e].decision_status = "approved"
               \/ decisions[e].decision_by_user_id = d.decision_by_user_id
               => Overlapped(l, e)]_vars

\* What hasCallerAlreadyDecided is there for: one decision per request, step
\* and user.  Overlapping submissions of one user break it.
OneDecisionPerUser ==
  \A l, k \in Requests :
    /\ decisions[l] # NULL
    /\ k \in DecisionsOn(decisions[l].approval_request_id, decisions[l].approval_chain_step_id)
    /\ decisions[k].decision_by_user_id = decisions[l].decision_by_user_id
    => k = l

=============================================================================
