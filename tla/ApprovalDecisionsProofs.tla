---------------------- MODULE ApprovalDecisionsProofs ----------------------
(***************************************************************************)
(* Decisions are rightful, in order and fresh, for any chains and steps,   *)
(* any users and any number of requests.                                   *)
(*                                                                         *)
(* Base   types; a handler that has not inserted its row owns no row; a    *)
(*        handler that has loaded a chain holds one that fits its request. *)
(* Ready  a handler about to insert its decision holds a step it may       *)
(*        decide, nothing ahead of which lacks an approval, and whose      *)
(*        approvals and own decisions came from handlers it overlapped.    *)
(***************************************************************************)
EXTENDS ApprovalDecisions, RequestHandlerProofs

RowsAreOwned ==
  \A r \in Requests :
    pc[r] \in PcApproval \cup {"idle"} => approvals[r] = NULL /\ decisions[r] = NULL

Fits(chain, a) ==
  /\ approvals[a] # NULL
  /\ ChainOrg[chain] = approvals[a].organization_id
  /\ ChainType[chain] = approvals[a].approval_type_id
  /\ ChainEntity[chain] = approvals[a].entity_type

LocalsFit ==
  \A r \in Requests :
    /\ pc[r] = "create_request" => call[r] \in ApprovalRow
    /\ pc[r] \in {"list_decisions", "create_decision"} =>
         /\ call[r] \in DecisionCall
         /\ Fits(call[r].chain, call[r].approval)
         /\ approvals[call[r].approval].organization_id \in UserOrgs[call[r].user]

Base == TypeOK /\ RowsAreOwned /\ LocalsFit

\* What DecisionsAreRightful says of one decision.
Rightful(a, s, u) ==
  /\ Fits(StepChain[s], a)
  /\ StepRequired[s]
  /\ OpenTo(s, u, approvals[a].organization_id)

AheadApproved(a, s) ==
  \A t \in Steps :
    StepChain[t] = StepChain[s] /\ StepRequired[t] /\ StepOrder[t] < StepOrder[s]
    => ApprovedStep(a, t)

FreshFor(r, a, s, u) ==
  \A e \in DecisionsOn(a, s) :
    decisions[e].decision_status = "approved" \/ decisions[e].decision_by_user_id = u
    => Overlapped(r, e)

Ready ==
  \A r \in Requests : pc[r] = "create_decision" =>
    LET c == call[r]
    IN /\ c.step \in Steps
       /\ Rightful(c.approval, c.step, c.user)
       /\ AheadApproved(c.approval, c.step)
       /\ FreshFor(r, c.approval, c.step, c.user)

Inv == Base /\ Ready /\ InFlightOverlap /\ DecisionsAreRightful /\ StepsInOrder

USE DEF PcApproval

-----------------------------------------------------------------------------
(* What the operators and the actions do.                                  *)

LEMMA GoverningChainFits ==
  ASSUME TypeOK, NEW a \in Ids, approvals[a] # NULL,
         NEW chain \in FindGoverningChain(approvals[a])
  PROVE  chain \in Chains /\ Fits(chain, a)
<1>1. chain \in Pool(approvals[a])
  BY DEF FindGoverningChain
<1>2. chain \in ActiveChainsFor(approvals[a])
  BY <1>1 DEF Pool
<1> QED
  BY <1>2 DEF ActiveChainsFor, Fits, TypeOK

LEMMA PendingStepIsNext ==
  ASSUME NEW a, NEW chain, NEW s \in PickNextPendingStep(a, chain)
  PROVE  /\ s \in Steps /\ StepChain[s] = chain /\ StepRequired[s]
         /\ ~ApprovedStep(a, s)
         /\ AheadApproved(a, s)
<1>1. s \in Unapproved(a, chain)
  BY DEF PickNextPendingStep
<1>2. s \in Steps /\ StepChain[s] = chain /\ StepRequired[s] /\ ~ApprovedStep(a, s)
  BY <1>1 DEF Unapproved
<1>3. ASSUME NEW t \in Steps, StepChain[t] = chain, StepRequired[t], StepOrder[t] < StepOrder[s]
      PROVE  ApprovedStep(a, t)
  <2>1. StepOrder[s] \in Nat /\ StepOrder[t] \in Nat
    BY <1>2, ApprovalsAssumption
  <2>2. ~(StepOrder[s] <= StepOrder[t])
    BY <1>3, <2>1
  <2>3. t \notin Unapproved(a, chain)
    BY <2>2 DEF PickNextPendingStep
  <2> QED
    BY <1>3, <2>3 DEF Unapproved
<1> QED
  BY <1>2, <1>3 DEF AheadApproved

LEMMA LoadedCall ==
  ASSUME TypeOK, NEW r \in Requests, LoadChain(r)
  PROVE  \E c \in DecisionCall :
           /\ Begin(r, "list_decisions", c)
           /\ Fits(c.chain, c.approval)
           /\ approvals[c.approval].organization_id \in UserOrgs[c.user]
<1>1. PICK u \in Users, a \in Ids, s \in SuppliedSteps, status \in Statuses :
        /\ Visible(a, u)
        /\ \E chain \in FindGoverningChain(approvals[a]) :
             Begin(r, "list_decisions",
                   [approval |-> a, chain |-> chain, user |-> u, step |-> s, status |-> status])
  BY DEF LoadChain
<1>2. PICK chain \in FindGoverningChain(approvals[a]) :
        Begin(r, "list_decisions",
              [approval |-> a, chain |-> chain, user |-> u, step |-> s, status |-> status])
  BY <1>1
<1> DEFINE c == [approval |-> a, chain |-> chain, user |-> u, step |-> s, status |-> status]
<1>3. chain \in Chains /\ Fits(chain, a)
  BY <1>1, GoverningChainFits DEF Visible
<1>4. c \in DecisionCall
  BY <1>3, ApprovalsAssumption DEF DecisionCall
<1> QED
  BY <1>1, <1>2, <1>3, <1>4 DEF Visible

LEMMA RefusalsAreErrors ==
  /\ \A u, t, e : SubmitRefusal(u, t, e) \in Errors \cup {"none"}
  /\ \A c, s : DecisionRefusal(c, s) \in Errors \cup {"none"}
  BY DEF SubmitRefusal, DecisionRefusal, Errors

\* A handler that goes on from the decisions it has listed.
LEMMA ListedCall ==
  ASSUME Base, NEW r \in Requests, pc[r] = "list_decisions",
         NEW s \in PickNextPendingStep(call[r].approval, call[r].chain),
         DecisionRefusal(call[r], s) = "none"
  PROVE  LET c == [call[r] EXCEPT !.step = s]
         IN /\ c \in DecisionCall /\ c.step \in Steps
            /\ Fits(c.chain, c.approval)
            /\ approvals[c.approval].organization_id \in UserOrgs[c.user]
            /\ Rightful(c.approval, c.step, c.user)
            /\ AheadApproved(c.approval, c.step)
            /\ FreshFor(r, c.approval, c.step, c.user)
<1> DEFINE c == [call[r] EXCEPT !.step = s]
<1>1. /\ call[r] \in DecisionCall
      /\ Fits(call[r].chain, call[r].approval)
      /\ approvals[call[r].approval].organization_id \in UserOrgs[call[r].user]
  BY DEF Base, LocalsFit
<1>2. /\ s \in Steps /\ StepChain[s] = call[r].chain /\ StepRequired[s]
      /\ ~ApprovedStep(call[r].approval, s)
      /\ AheadApproved(call[r].approval, s)
  BY PendingStepIsNext
<1>3. /\ c \in DecisionCall /\ c.step = s
      /\ c.approval = call[r].approval /\ c.user = call[r].user /\ c.chain = call[r].chain
  BY <1>1, <1>2 DEF DecisionCall
<1>4. /\ IsCallerEligibleForStep(s, call[r].user, approvals[call[r].approval].organization_id)
      /\ ~HasCallerAlreadyDecided(call[r].approval, s, call[r].user)
  BY DEF DecisionRefusal
<1>5. OpenTo(s, call[r].user, approvals[call[r].approval].organization_id)
  BY <1>1, <1>4 DEF OpenTo, IsCallerEligibleForStep
<1>6. FreshFor(r, call[r].approval, s, call[r].user)
  BY <1>2, <1>4 DEF FreshFor, HasCallerAlreadyDecided, ApprovedStep
<1> QED
  BY <1>1, <1>2, <1>3, <1>5, <1>6 DEF Rightful

\* A handler ends and writes nothing.
Ends(r) == UNCHANGED tables /\ \E code \in Errors \cup {"OK"} : Respond(r, code)

\* A handler begins with the row it will insert.
Submits(r) == UNCHANGED tables /\ \E row \in ApprovalRow : Begin(r, "create_request", row)

\* A handler goes on with a step that is pending for its caller.
Picks(r) ==
  /\ pc[r] = "list_decisions"
  /\ UNCHANGED tables
  /\ \E s \in PickNextPendingStep(call[r].approval, call[r].chain) :
       /\ DecisionRefusal(call[r], s) = "none"
       /\ AwaitWith(r, "create_decision", [call[r] EXCEPT !.step = s])

LEMMA StepShape ==
  ASSUME TypeOK, [Next]_vars
  PROVE  \/ UNCHANGED vars
         \/ SwitchChain
         \/ \E r \in Requests : \/ Ends(r)
                                \/ Submits(r)
                                \/ CreateRequest(r)
                                \/ LoadChain(r)
                                \/ Picks(r)
                                \/ CreateDecision(r)
<1>1. ASSUME NEW r \in Requests,
             \/ RefuseSubmit(r) \/ RefuseDecision(r) \/ Answer(r) \/ FailPendingCall(r)
      PROVE  Ends(r)
  BY <1>1, RefusalsAreErrors
  DEF Ends, RefuseSubmit, RefuseDecision, Answer, FailPendingCall, FailCall, Errors
<1>2. ASSUME NEW r \in Requests, AcceptSubmit(r)
      PROVE  Submits(r)
  <2>1. PICK u \in Users, t \in Types, e \in EntityTypes, b \in Branches \cup {NULL} :
          /\ SubmitRefusal(u, t, e) = "none"
          /\ Begin(r, "create_request",
                   [organization_id |-> TypeOrg[t], branch_id |-> b,
                    approval_type_id |-> t, entity_type |-> e])
    BY <1>2 DEF AcceptSubmit
  <2>2. [organization_id |-> TypeOrg[t], branch_id |-> b,
         approval_type_id |-> t, entity_type |-> e] \in ApprovalRow
    BY ApprovalsAssumption DEF ApprovalRow
  <2> QED
    BY <1>2, <2>1, <2>2 DEF Submits, AcceptSubmit
<1>3. ASSUME NEW r \in Requests, ListDecisions(r)
      PROVE  Ends(r) \/ Picks(r)
  <2> DEFINE pending == PickNextPendingStep(call[r].approval, call[r].chain)
  <2>1. CASE Respond(r, "CONFLICT")
    BY <1>3, <2>1 DEF ListDecisions, Ends, Errors
  <2>2. ASSUME NEW s \in pending, DecisionRefusal(call[r], s) # "none",
               Respond(r, DecisionRefusal(call[r], s))
        PROVE  Ends(r)
    BY <1>3, <2>2, RefusalsAreErrors DEF ListDecisions, Ends
  <2>3. ASSUME NEW s \in pending, DecisionRefusal(call[r], s) = "none",
               AwaitWith(r, "create_decision", [call[r] EXCEPT !.step = s])
        PROVE  Picks(r)
    BY <1>3, <2>3 DEF ListDecisions, Picks
  <2> QED
    BY <1>3, <2>1, <2>2, <2>3 DEF ListDecisions
<1> QED
  BY <1>1, <1>2, <1>3 DEF Next

\* Rows are only added.
LEMMA RowsAreKept ==
  ASSUME Base, [Next]_vars
  PROVE  /\ \A a \in Ids : approvals[a] # NULL => approvals'[a] = approvals[a]
         /\ \A l \in Requests : decisions[l] # NULL => decisions'[l] = decisions[l]
<1>1. ASSUME NEW r \in Requests, CreateRequest(r)
      PROVE  \A a \in Ids : approvals[a] # NULL => approvals'[a] = approvals[a]
  BY <1>1 DEF CreateRequest, Base, TypeOK, RowsAreOwned
<1>2. ASSUME NEW r \in Requests, CreateDecision(r)
      PROVE  \A l \in Requests : decisions[l] # NULL => decisions'[l] = decisions[l]
  BY <1>2 DEF CreateDecision, Base, TypeOK, RowsAreOwned
<1> QED
  BY <1>1, <1>2, StepShape
  DEF Base, vars, tables, SwitchChain, Ends, Submits, Picks, LoadChain, CreateRequest,
      CreateDecision

\* So what is said of rows stays true.
LEMMA FactsAreKept ==
  ASSUME Base, [Next]_vars, NEW a \in Ids
  PROVE  /\ \A chain : Fits(chain, a) => Fits(chain, a)'
         /\ \A s, u : Rightful(a, s, u) => Rightful(a, s, u)'
         /\ \A s : ApprovedStep(a, s) => ApprovedStep(a, s)'
         /\ \A s : AheadApproved(a, s) => AheadApproved(a, s)'
<1>1. approvals[a] # NULL => approvals'[a] = approvals[a]
  BY RowsAreKept
<1>2. \A s : \A l \in DecisionsOn(a, s) : l \in DecisionsOn(a, s)' /\ decisions'[l] = decisions[l]
  BY RowsAreKept DEF DecisionsOn
<1>3. \A s : ApprovedStep(a, s) => ApprovedStep(a, s)'
  BY <1>2 DEF ApprovedStep
<1>4. \A chain : Fits(chain, a) => Fits(chain, a)'
  BY <1>1 DEF Fits
<1>5. \A s, u : Rightful(a, s, u) => Rightful(a, s, u)'
  BY <1>1 DEF Rightful, Fits, OpenTo
<1>6. \A s : AheadApproved(a, s) => AheadApproved(a, s)'
  BY <1>3 DEF AheadApproved
<1> QED
  BY <1>3, <1>4, <1>5, <1>6

-----------------------------------------------------------------------------
(* The invariant holds at first.                                           *)

LEMMA InvAtFirst == Init => Inv
<1> SUFFICES ASSUME Init PROVE Inv
  OBVIOUS
<1>1. \A a \in DOMAIN Submitted : Submitted[a] \in ApprovalRow
  BY ApprovalsAssumption
<1>2. TypeOK
  BY <1>1, ApprovalsAssumption DEF Init, TypeOK, InitHandlers, HandlersTyped, Errors
<1>3. RowsAreOwned /\ LocalsFit /\ Ready
  BY ApprovalsAssumption DEF Init, InitHandlers, RowsAreOwned, LocalsFit, Ready, Ids
<1>4. DecisionsAreRightful /\ StepsInOrder
  BY DEF Init, DecisionsAreRightful, StepsInOrder
<1> QED
  BY <1>2, <1>3, <1>4, OverlapAtFirst DEF Init, Inv, Base

-----------------------------------------------------------------------------
(* Each part of it is kept.                                                *)

LEMMA ReadyCallIsRow ==
  ASSUME Base, Ready, NEW r \in Requests, pc[r] = "create_decision"
  PROVE  /\ call[r] \in DecisionCall /\ call[r].step \in Steps
         /\ NewDecision(call[r]) \in DecisionRow
  BY DEF Base, LocalsFit, Ready, DecisionCall, DecisionRow, NewDecision

LEMMA TypeOKIsKept ==
  ASSUME Inv, [Next]_vars
  PROVE  TypeOK'
<1> USE DEF Inv, Base
<1> DEFINE Calls == ApprovalRow \cup DecisionCall
<1>1. CASE UNCHANGED vars
  BY <1>1 DEF vars, TypeOK, HandlersTyped
<1>2. CASE SwitchChain
  <2>1. PICK c \in Switchable :
          chainActive' = IF c \in chainActive THEN chainActive \ {c} ELSE chainActive \cup {c}
    BY <1>2 DEF SwitchChain
  <2>2. chainActive' \in SUBSET Chains
    BY <2>1, ApprovalsAssumption DEF TypeOK
  <2> QED
    BY <1>2, <2>2 DEF SwitchChain, TypeOK, HandlersTyped
<1>3. ASSUME NEW r \in Requests, Ends(r) PROVE TypeOK'
  <2>1. HandlersTyped(PcApproval, Calls)'
    BY <1>3, RespondTyped DEF Ends, TypeOK
  <2> QED
    BY <1>3, <2>1 DEF Ends, TypeOK, tables
<1>4. ASSUME NEW r \in Requests, Submits(r) PROVE TypeOK'
  <2>1. HandlersTyped(PcApproval, Calls)'
    BY <1>4, BeginTyped DEF Submits, TypeOK
  <2> QED
    BY <1>4, <2>1 DEF Submits, TypeOK, tables
<1>5. ASSUME NEW r \in Requests, CreateRequest(r) PROVE TypeOK'
  <2>1. HandlersTyped(PcApproval, Calls)'
    BY <1>5, AwaitTyped DEF CreateRequest, TypeOK
  <2>2. call[r] \in ApprovalRow
    BY <1>5 DEF CreateRequest, LocalsFit
  <2> QED
    BY <1>5, <2>1, <2>2 DEF CreateRequest, TypeOK
<1>6. ASSUME NEW r \in Requests, LoadChain(r) PROVE TypeOK'
  <2>1. \E c \in Calls : Begin(r, "list_decisions", c)
    BY <1>6, LoadedCall
  <2>2. HandlersTyped(PcApproval, Calls)'
    BY <2>1, BeginTyped DEF TypeOK
  <2> QED
    BY <1>6, <2>2 DEF LoadChain, TypeOK, tables
<1>7. ASSUME NEW r \in Requests, Picks(r) PROVE TypeOK'
  <2>1. \E c \in Calls : AwaitWith(r, "create_decision", c)
    BY <1>7, ListedCall DEF Picks
  <2>2. HandlersTyped(PcApproval, Calls)'
    BY <2>1, AwaitWithTyped DEF TypeOK
  <2> QED
    BY <1>7, <2>2 DEF Picks, TypeOK, tables
<1>8. ASSUME NEW r \in Requests, CreateDecision(r) PROVE TypeOK'
  <2>1. HandlersTyped(PcApproval, Calls)'
    BY <1>8, AwaitTyped DEF CreateDecision, TypeOK
  <2>2. NewDecision(call[r]) \in DecisionRow
    BY <1>8, ReadyCallIsRow DEF CreateDecision
  <2> QED
    BY <1>8, <2>1, <2>2 DEF CreateDecision, TypeOK
<1> QED
  BY <1>1, <1>2, <1>3, <1>4, <1>5, <1>6, <1>7, <1>8, StepShape

\* What one handler's step leaves alone.
LEMMA OthersAreKept ==
  ASSUME TypeOK, NEW r \in Requests,
         \/ Ends(r) \/ Submits(r) \/ CreateRequest(r)
         \/ LoadChain(r) \/ Picks(r) \/ CreateDecision(r)
  PROVE  \A q \in Requests \ {r} :
           /\ pc'[q] = pc[q] /\ call'[q] = call[q] /\ met'[q] = met[q]
           /\ decisions'[q] = decisions[q] /\ approvals'[q] = approvals[q]
<1>1. UNCHANGED tables => \A q \in Requests \ {r} :
        decisions'[q] = decisions[q] /\ approvals'[q] = approvals[q]
  BY DEF tables
<1>2. Ends(r) \/ Submits(r) \/ LoadChain(r) \/ Picks(r) => UNCHANGED tables
  BY DEF Ends, Submits, LoadChain, Picks
<1>3. Ends(r) \/ Submits(r) \/ LoadChain(r) \/ Picks(r) =>
        \A q \in Requests \ {r} :
          pc'[q] = pc[q] /\ call'[q] = call[q] /\ met'[q] = met[q]
  BY LoadedCall
  DEF Ends, Submits, Picks, Respond, Begin, AwaitWith, TypeOK, HandlersTyped
<1>4. CreateRequest(r) \/ CreateDecision(r) =>
        \A q \in Requests \ {r} :
          /\ pc'[q] = pc[q] /\ call'[q] = call[q] /\ met'[q] = met[q]
          /\ decisions'[q] = decisions[q] /\ approvals'[q] = approvals[q]
  BY DEF CreateRequest, CreateDecision, Await, TypeOK, HandlersTyped, Ids
<1> QED
  BY <1>1, <1>2, <1>3, <1>4

LEMMA RowsAreOwnedIsKept ==
  ASSUME Base, [Next]_vars
  PROVE  RowsAreOwned'
<1> USE DEF Base
<1>1. CASE UNCHANGED vars \/ SwitchChain
  BY <1>1 DEF vars, SwitchChain, RowsAreOwned
<1>2. ASSUME NEW r \in Requests, Ends(r) \/ CreateRequest(r) \/ CreateDecision(r)
      PROVE  RowsAreOwned'
  <2>1. pc'[r] \notin PcApproval \cup {"idle"}
    BY <1>2 DEF Ends, Respond, CreateRequest, CreateDecision, Await, TypeOK, HandlersTyped
  <2> QED
    BY <1>2, <2>1, OthersAreKept DEF RowsAreOwned
<1>3. ASSUME NEW r \in Requests, Submits(r) \/ LoadChain(r) \/ Picks(r)
      PROVE  RowsAreOwned'
  <2>1. pc[r] \in PcApproval \cup {"idle"} /\ UNCHANGED tables
    BY <1>3 DEF Submits, LoadChain, Picks, Begin
  <2> QED
    BY <1>3, <2>1, OthersAreKept DEF RowsAreOwned, tables
<1> QED
  BY <1>1, <1>2, <1>3, StepShape

LEMMA LocalsFitIsKept ==
  ASSUME Base, [Next]_vars
  PROVE  LocalsFit'
<1> USE DEF Base
<1> DEFINE Fit(q) == /\ pc[q] = "create_request" => call[q] \in ApprovalRow
                     /\ pc[q] \in {"list_decisions", "create_decision"} =>
                          /\ call[q] \in DecisionCall
                          /\ Fits(call[q].chain, call[q].approval)
                          /\ approvals[call[q].approval].organization_id
                               \in UserOrgs[call[q].user]
<1>1. ASSUME NEW q \in Requests, pc'[q] = pc[q], call'[q] = call[q]
      PROVE  Fit(q)'
  <2>1. Fit(q)
    BY DEF LocalsFit
  <2>2. CASE pc[q] \in {"list_decisions", "create_decision"}
    <3>1. call[q].approval \in Ids /\ approvals[call[q].approval] # NULL
      BY <2>1, <2>2 DEF DecisionCall, Fits
    <3>2. approvals'[call[q].approval] = approvals[call[q].approval]
      BY <3>1, RowsAreKept
    <3>3. Fits(call[q].chain, call[q].approval)'
      BY <1>1, <2>1, <2>2, <3>2 DEF Fits
    <3> QED
      BY <1>1, <2>1, <2>2, <3>2, <3>3
  <2> QED
    BY <1>1, <2>1, <2>2
<1>2. CASE UNCHANGED vars \/ SwitchChain
  BY <1>1, <1>2 DEF vars, SwitchChain, LocalsFit
<1>3. ASSUME NEW r \in Requests, Ends(r) \/ CreateRequest(r) \/ CreateDecision(r)
      PROVE  Fit(r)'
  BY <1>3 DEF Ends, Respond, CreateRequest, CreateDecision, Await, TypeOK, HandlersTyped
<1>4. ASSUME NEW r \in Requests, Submits(r)
      PROVE  Fit(r)'
  BY <1>4 DEF Submits, Begin, TypeOK, HandlersTyped
<1>5. ASSUME NEW r \in Requests, LoadChain(r)
      PROVE  Fit(r)'
  <2>1. PICK c \in DecisionCall :
          /\ Begin(r, "list_decisions", c)
          /\ Fits(c.chain, c.approval)
          /\ approvals[c.approval].organization_id \in UserOrgs[c.user]
    BY <1>5, LoadedCall
  <2>2. pc'[r] = "list_decisions" /\ call'[r] = c /\ approvals' = approvals
    BY <1>5, <2>1 DEF LoadChain, tables, Begin, TypeOK, HandlersTyped
  <2> QED
    BY <2>1, <2>2 DEF Fits
<1>6. ASSUME NEW r \in Requests, Picks(r)
      PROVE  Fit(r)'
  <2>1. PICK s \in PickNextPendingStep(call[r].approval, call[r].chain) :
          /\ DecisionRefusal(call[r], s) = "none"
          /\ AwaitWith(r, "create_decision", [call[r] EXCEPT !.step = s])
    BY <1>6 DEF Picks
  <2>2. /\ pc'[r] = "create_decision" /\ call'[r] = [call[r] EXCEPT !.step = s]
        /\ approvals' = approvals
    BY <1>6, <2>1 DEF Picks, tables, AwaitWith, TypeOK, HandlersTyped
  <2>3. LET c == [call[r] EXCEPT !.step = s]
        IN /\ c \in DecisionCall
           /\ Fits(c.chain, c.approval)
           /\ approvals[c.approval].organization_id \in UserOrgs[c.user]
    BY <1>6, <2>1, ListedCall DEF Picks
  <2> QED
    BY <2>2, <2>3 DEF Fits
<1> QED
  BY <1>1, <1>2, <1>3, <1>4, <1>5, <1>6, StepShape, OthersAreKept DEF LocalsFit

LEMMA OverlapIsKept ==
  ASSUME Base, InFlightOverlap, [Next]_vars
  PROVE  InFlightOverlap'
<1> USE DEF Base
<1> DEFINE Calls == ApprovalRow \cup DecisionCall
<1>1. CASE UNCHANGED vars \/ SwitchChain
  BY <1>1 DEF vars, SwitchChain, InFlightOverlap, InFlight, Overlapped
<1>2. ASSUME NEW r \in Requests, Ends(r) PROVE InFlightOverlap'
  BY <1>2, GoingOnOverlaps DEF Ends, TypeOK
<1>3. ASSUME NEW r \in Requests, CreateRequest(r) \/ CreateDecision(r) PROVE InFlightOverlap'
  BY <1>3, GoingOnOverlaps DEF CreateRequest, CreateDecision, TypeOK, InFlight
<1>4. ASSUME NEW r \in Requests, Picks(r) PROVE InFlightOverlap'
  <2>1. InFlight(r) /\ \E c \in Calls : AwaitWith(r, "create_decision", c)
    BY <1>4, ListedCall DEF Picks, InFlight
  <2> QED
    BY <2>1, GoingOnOverlaps DEF TypeOK
<1>5. ASSUME NEW r \in Requests, Submits(r) \/ LoadChain(r) PROVE InFlightOverlap'
  <2>1. \E next \in PcApproval : \E c \in Calls : Begin(r, next, c)
    BY <1>5, LoadedCall DEF Submits
  <2> QED
    BY <2>1, BeginOverlaps DEF TypeOK
<1> QED
  BY <1>1, <1>2, <1>3, <1>4, <1>5, StepShape

\* Who changes a history, and who adds a decision.
LEMMA Writers ==
  ASSUME Base, [Next]_vars
  PROVE  /\ \A q \in Requests : pc[q] # "idle" => met'[q] = met[q]
         /\ \A l \in Requests : decisions'[l] # decisions[l] =>
              /\ pc[l] = "create_decision" /\ decisions[l] = NULL
              /\ decisions'[l] = NewDecision(call[l])
              /\ pc'[l] = "respond"
<1> USE DEF Base
<1>1. ASSUME NEW r \in Requests, Submits(r) \/ LoadChain(r)
      PROVE  pc[r] = "idle"
  BY <1>1, LoadedCall DEF Submits, Begin
<1>2. ASSUME NEW r \in Requests,
             Ends(r) \/ CreateRequest(r) \/ Picks(r) \/ CreateDecision(r)
      PROVE  met' = met
  BY <1>2 DEF Ends, Respond, CreateRequest, CreateDecision, Picks, Await, AwaitWith
<1>3. ASSUME NEW r \in Requests,
             Ends(r) \/ Submits(r) \/ CreateRequest(r) \/ LoadChain(r) \/ Picks(r)
      PROVE  decisions' = decisions
  BY <1>3 DEF Ends, Submits, CreateRequest, LoadChain, Picks, tables
<1>4. ASSUME NEW r \in Requests, CreateDecision(r)
      PROVE  /\ pc[r] = "create_decision" /\ decisions[r] = NULL
             /\ decisions'[r] = NewDecision(call[r])
             /\ pc'[r] = "respond"
             /\ \A l \in Requests \ {r} : decisions'[l] = decisions[l]
  BY <1>4 DEF CreateDecision, Await, RowsAreOwned, TypeOK, HandlersTyped
<1>5. UNCHANGED vars \/ SwitchChain => met' = met /\ decisions' = decisions
  BY DEF vars, SwitchChain
<1>6. \A q \in Requests : pc[q] # "idle" => met'[q] = met[q]
  BY <1>1, <1>2, <1>5, OthersAreKept, StepShape
<1>7. \A l \in Requests : decisions'[l] # decisions[l] =>
        /\ pc[l] = "create_decision" /\ decisions[l] = NULL
        /\ decisions'[l] = NewDecision(call[l])
        /\ pc'[l] = "respond"
  BY <1>3, <1>4, <1>5, StepShape
<1> QED
  BY <1>6, <1>7

\* What a handler has found stays fresh until it inserts: those who decide
\* meanwhile are in flight with it.
LEMMA FreshnessIsKept ==
  ASSUME Base, InFlightOverlap, [Next]_vars,
         NEW q \in Requests, pc[q] = "create_decision", pc'[q] = "create_decision",
         NEW a \in Ids, NEW s \in Steps, NEW u \in Users,
         FreshFor(q, a, s, u)
  PROVE  FreshFor(q, a, s, u)'
<1>1. SUFFICES ASSUME NEW e \in DecisionsOn(a, s)',
                      \/ decisions'[e].decision_status = "approved"
                      \/ decisions'[e].decision_by_user_id = u
               PROVE  Overlapped(q, e)'
  BY DEF FreshFor
<1>2. e \in Requests /\ decisions'[e] # NULL
  BY DEF DecisionsOn
<1>3. met'[q] = met[q]
  BY Writers
<1>4. CASE decisions'[e] = decisions[e]
  <2>1. e \in DecisionsOn(a, s)
    BY <1>4 DEF DecisionsOn
  <2>2. Overlapped(q, e)
    BY <1>1, <1>4, <2>1 DEF FreshFor
  <2>3. pc[e] # "idle"
    BY <1>2, <1>4 DEF Base, RowsAreOwned
  <2>4. met'[e] = met[e]
    BY <1>2, <2>3, Writers
  <2> QED
    BY <1>3, <2>2, <2>4 DEF Overlapped
<1>5. CASE decisions'[e] # decisions[e]
  <2>1. pc[e] = "create_decision" /\ e # q /\ met'[e] = met[e]
    BY <1>2, <1>5, Writers
  <2>2. Overlapped(q, e)
    BY <1>2, <2>1 DEF InFlightOverlap, InFlight
  <2> QED
    BY <1>3, <2>1, <2>2 DEF Overlapped
<1> QED
  BY <1>4, <1>5

LEMMA ReadyIsKept ==
  ASSUME Base, Ready, InFlightOverlap, [Next]_vars
  PROVE  Ready'
<1> USE DEF Base
<1> DEFINE Good(q) == /\ call[q].step \in Steps
                      /\ Rightful(call[q].approval, call[q].step, call[q].user)
                      /\ AheadApproved(call[q].approval, call[q].step)
                      /\ FreshFor(q, call[q].approval, call[q].step, call[q].user)
<1>1. SUFFICES ASSUME NEW q \in Requests, pc'[q] = "create_decision"
               PROVE  Good(q)'
  BY DEF Ready
<1>2. CASE pc[q] = "create_decision" /\ call'[q] = call[q]
  <2>1. Good(q) /\ call[q] \in DecisionCall
    BY <1>2 DEF Ready, LocalsFit
  <2>2. call[q].approval \in Ids /\ call[q].user \in Users /\ call[q].step \in Steps
    BY <2>1 DEF DecisionCall
  <2>3. PICK a \in Ids, s \in Steps, u \in Users :
          a = call[q].approval /\ s = call[q].step /\ u = call[q].user
    BY <2>2
  <2>4. FreshFor(q, a, s, u)'
    BY <1>1, <1>2, <2>1, <2>3, FreshnessIsKept
  <2>5. Rightful(a, s, u)' /\ AheadApproved(a, s)'
    BY <2>1, <2>3, FactsAreKept
  <2> QED
    BY <1>2, <2>3, <2>4, <2>5
<1>3. CASE Picks(q)
  <2>1. PICK t \in PickNextPendingStep(call[q].approval, call[q].chain) :
          /\ DecisionRefusal(call[q], t) = "none"
          /\ AwaitWith(q, "create_decision", [call[q] EXCEPT !.step = t])
    BY <1>3 DEF Picks
  <2>2. PICK c \in DecisionCall : c = [call[q] EXCEPT !.step = t]
    BY <1>3, <2>1, ListedCall DEF Picks
  <2>3. call'[q] = c /\ UNCHANGED tables /\ met' = met
    BY <1>3, <2>1, <2>2 DEF Picks, AwaitWith, TypeOK, HandlersTyped
  <2>4. /\ c.step \in Steps
        /\ Rightful(c.approval, c.step, c.user)
        /\ AheadApproved(c.approval, c.step)
        /\ FreshFor(q, c.approval, c.step, c.user)
    BY <1>3, <2>1, <2>2, ListedCall DEF Picks
  <2>5. Rightful(c.approval, c.step, c.user)' /\ AheadApproved(c.approval, c.step)'
    BY <2>4, FactsAreKept DEF DecisionCall
  <2>6. FreshFor(q, c.approval, c.step, c.user)'
    BY <2>3, <2>4 DEF FreshFor, DecisionsOn, Overlapped, tables
  <2> QED
    BY <2>3, <2>4, <2>5, <2>6
<1>4. CASE UNCHANGED vars \/ SwitchChain
  BY <1>1, <1>2, <1>4 DEF vars, SwitchChain
<1>5. ASSUME NEW r \in Requests,
             \/ Ends(r) \/ Submits(r) \/ CreateRequest(r) \/ LoadChain(r) \/ CreateDecision(r)
      PROVE  pc'[r] # "create_decision"
  BY <1>5, LoadedCall
  DEF Ends, Respond, Submits, Begin, CreateRequest, CreateDecision, Await, TypeOK, HandlersTyped
<1> QED
  BY <1>1, <1>2, <1>3, <1>4, <1>5, StepShape, OthersAreKept

LEMMA DecisionsStayRightful ==
  ASSUME Inv, [Next]_vars
  PROVE  DecisionsAreRightful' /\ StepsInOrder'
<1> USE DEF Inv, Base
<1>1. ASSUME NEW l \in Requests, decisions'[l] # NULL
      PROVE  \E a \in Ids, s \in Steps, u \in Users :
               /\ a = decisions'[l].approval_request_id
               /\ s = decisions'[l].approval_chain_step_id
               /\ u = decisions'[l].decision_by_user_id
               /\ Rightful(a, s, u) /\ AheadApproved(a, s)
  <2>1. CASE decisions'[l] = decisions[l]
    <3>1. decisions[l] \in DecisionRow
      BY <1>1, <2>1 DEF TypeOK
    <3>2. PICK a \in Ids, s \in Steps, u \in Users :
            /\ a = decisions[l].approval_request_id
            /\ s = decisions[l].approval_chain_step_id
            /\ u = decisions[l].decision_by_user_id
      BY <3>1 DEF DecisionRow
    <3>3. Rightful(a, s, u)
      BY <1>1, <2>1, <3>2 DEF DecisionsAreRightful, Rightful, Fits
    <3>4. AheadApproved(a, s)
      BY <1>1, <2>1, <3>2 DEF StepsInOrder, AheadApproved
    <3> QED
      BY <2>1, <3>2, <3>3, <3>4
  <2>2. CASE decisions'[l] # decisions[l]
    <3>1. pc[l] = "create_decision" /\ decisions'[l] = NewDecision(call[l])
      BY <2>2, Writers
    <3>2. /\ call[l] \in DecisionCall /\ call[l].step \in Steps
          /\ Rightful(call[l].approval, call[l].step, call[l].user)
          /\ AheadApproved(call[l].approval, call[l].step)
      BY <3>1, ReadyCallIsRow DEF Ready
    <3> QED
      BY <3>1, <3>2 DEF NewDecision, DecisionCall
  <2> QED
    BY <2>1, <2>2
<1>2. ASSUME NEW l \in Requests, decisions'[l] # NULL
      PROVE  \E a \in Ids, s \in Steps, u \in Users :
               /\ a = decisions'[l].approval_request_id
               /\ s = decisions'[l].approval_chain_step_id
               /\ u = decisions'[l].decision_by_user_id
               /\ Rightful(a, s, u)' /\ AheadApproved(a, s)'
  BY <1>1, <1>2, FactsAreKept
<1>3. DecisionsAreRightful'
  BY <1>2 DEF DecisionsAreRightful, Rightful, Fits
<1>4. StepsInOrder'
  BY <1>2 DEF StepsInOrder, AheadApproved
<1> QED
  BY <1>3, <1>4

LEMMA InvIsKept == Inv /\ [Next]_vars => Inv'
  BY TypeOKIsKept, RowsAreOwnedIsKept, LocalsFitIsKept, OverlapIsKept, ReadyIsKept,
     DecisionsStayRightful
  DEF Inv, Base

LEMMA InvAlways == Spec => []Inv
  BY InvAtFirst, InvIsKept, PTL DEF Spec

-----------------------------------------------------------------------------
(* Theorems.                                                               *)

\* approval_requests, approval_decisions and what createApprovalRequest and
\* createApprovalDecision keep across their awaits never lose their types.
THEOREM ApprovalsTypeCorrect == Spec => []TypeOK
<1>1. Inv => TypeOK
  BY DEF Inv, Base
<1> QED
  BY <1>1, InvAlways, PTL

\* Every stored decision is on a required step of a chain for its request, by
\* somebody the step is open to (approval-decisions.service.ts:63-131).
THEOREM DecisionsAlwaysRightful == Spec => []DecisionsAreRightful
<1>1. Inv => DecisionsAreRightful
  BY DEF Inv
<1> QED
  BY <1>1, InvAlways, PTL

\* pickNextPendingStep (domain/approvals/rules.ts:41-58), though its answer is
\* old when the decision is inserted, lets no decision past an unapproved step.
THEOREM StepsAlwaysInOrder == Spec => []StepsInOrder
<1>1. Inv => StepsInOrder
  BY DEF Inv
<1> QED
  BY <1>1, InvAlways, PTL

\* Only overlapping requests get past hasCallerAlreadyDecided and past an
\* approval; decisions are never changed or taken back.
THEOREM DecisionsAlwaysFresh == Spec => FreshDecisions
<1> DEFINE Fresh ==
      \A l \in Requests : decisions'[l] # decisions[l] =>
        LET d == decisions'[l]
        IN /\ decisions[l] = NULL
           /\ \A e \in DecisionsOn(d.approval_request_id, d.approval_chain_step_id) :
                \/ decisions[e].decision_status = "approved"
                \/ decisions[e].decision_by_user_id = d.decision_by_user_id
                => Overlapped(l, e)
<1>1. Inv /\ [Next]_vars => Fresh
  <2> SUFFICES ASSUME Inv, [Next]_vars, NEW l \in Requests, decisions'[l] # decisions[l]
               PROVE  LET d == decisions'[l]
                      IN /\ decisions[l] = NULL
                         /\ FreshFor(l, d.approval_request_id, d.approval_chain_step_id,
                                     d.decision_by_user_id)
    BY DEF FreshFor
  <2>1. /\ pc[l] = "create_decision" /\ decisions[l] = NULL
        /\ decisions'[l] = NewDecision(call[l])
    BY Writers DEF Inv
  <2>2. FreshFor(l, call[l].approval, call[l].step, call[l].user)
    BY <2>1 DEF Inv, Ready
  <2> QED
    BY <2>1, <2>2 DEF NewDecision
<1>2. Inv /\ [Next]_vars => [Fresh]_vars
  BY <1>1
<1> QED
  BY <1>2, InvAlways, PTL DEF Spec, FreshDecisions

=============================================================================
