---------------------------- MODULE PointsLedger ----------------------------
(***************************************************************************)
(* POST /ops/donors/[donorId]/points-awards: append a ledger row, then set *)
(* donors.total_points to its balance_after.  The balance is computed from *)
(* the counter read when the request began.                                *)
(***************************************************************************)
EXTENDS RequestHandler, Integers, FiniteSets

CONSTANTS
  Orgs, CallerOrgSets,
  Donors, DonorOrg,
  InitialPoints,       \* total_points of each donor before the first request
  Rules, RuleOrg, RuleActive,
  RuleStart, RuleEnd,  \* start_at and end_at, or NULL
  RuleCap,             \* max_repeat_count, or NULL
  Times,               \* the instants a request may arrive at
  Deltas               \* points_delta of the request body

ASSUME FiniteAssumption == IsFiniteSet(Requests)

ASSUME PointsAssumption ==
  /\ CallerOrgSets \subseteq SUBSET Orgs
  /\ DonorOrg \in [Donors -> Orgs]
  /\ InitialPoints \in [Donors -> Int]
  /\ RuleOrg \in [Rules -> Orgs]
  /\ RuleActive \in [Rules -> BOOLEAN]
  /\ Times \subseteq Nat
  /\ RuleStart \in [Rules -> Times \cup {NULL}]
  /\ RuleEnd \in [Rules -> Times \cup {NULL}]
  /\ RuleCap \in [Rules -> Nat \cup {NULL}]
  /\ Deltas \subseteq Int \ {0}
  /\ NULL \notin Int \cup Rules

VARIABLES
  ledger,       \* points_ledger, by id
  totalPoints   \* donors.total_points

tables == <<ledger, totalPoints>>
vars == <<ledger, totalPoints, pc, call, answer, met>>

LedgerRow ==
  [donor : Donors, rule : Rules \cup {NULL}, points_delta : Int, balance_after : Int]

\* createPointsAward: the donor row as it was read, and the body.
Award ==
  [donor : Donors, total_points : Int, rule : Rules \cup {NULL}, points_delta : Deltas]

ASSUME PointsNullAssumption == NULL \notin LedgerRow \cup Award

PcAward == {"count_awards", "create_entry", "set_total_points"}

TypeOK ==
  /\ ledger \in [Requests -> LedgerRow \cup {NULL}]
  /\ totalPoints \in [Donors -> Int]
  /\ HandlersTyped(PcAward, Award)

Init ==
  /\ ledger = [l \in Requests |-> NULL]
  /\ totalPoints = InitialPoints
  /\ InitHandlers

-----------------------------------------------------------------------------

Entries(d) == {l \in Requests : ledger[l] # NULL /\ ledger[l].donor = d}

AwardsForDonorAndRule(d, x) == {l \in Entries(d) : ledger[l].rule = x}

FindByIdInOrgs(x, orgs) == {rule \in Rules : rule = x /\ RuleOrg[rule] \in orgs}

InEffect(x, now) ==
  /\ RuleStart[x] # NULL => RuleStart[x] <= now
  /\ RuleEnd[x] # NULL => RuleEnd[x] >= now

RuleRefusal(d, x, now) ==
  IF FindByIdInOrgs(x, {DonorOrg[d]}) = {} THEN "NOT_FOUND"
  ELSE IF ~RuleActive[x] \/ ~InEffect(x, now) THEN "BAD_REQUEST"
  ELSE "none"

AwardRefusal(orgs, d, x, now) ==
  IF DonorOrg[d] \notin orgs THEN "NOT_FOUND"
  ELSE IF x = NULL THEN "none" ELSE RuleRefusal(d, x, now)

RefuseAward(r) ==
  /\ pc[r] = "idle"
  /\ \E orgs \in CallerOrgSets, d \in Donors, x \in Rules \cup {NULL}, now \in Times :
       /\ AwardRefusal(orgs, d, x, now) # "none"
       /\ Respond(r, AwardRefusal(orgs, d, x, now))
  /\ UNCHANGED tables

\* Mutant: every rule is taken for one without a cap.
AfterRule_NoCount(x) == "create_entry"

AfterRule(x) ==
  IF x # NULL /\ RuleCap[x] # NULL THEN "count_awards" ELSE "create_entry"

AcceptAward(r) ==
  /\ \E orgs \in CallerOrgSets, d \in Donors, x \in Rules \cup {NULL},
        now \in Times, delta \in Deltas :
       /\ AwardRefusal(orgs, d, x, now) = "none"
       /\ Begin(r, AfterRule(x),
                [donor |-> d, total_points |-> totalPoints[d],
                 rule |-> x, points_delta |-> delta])
  /\ UNCHANGED tables

CountAwards(r) ==
  LET prior == Cardinality(AwardsForDonorAndRule(call[r].donor, call[r].rule))
  IN /\ pc[r] = "count_awards"
     /\ \/ prior >= RuleCap[call[r].rule] /\ Respond(r, "CONFLICT")
        \/ prior < RuleCap[call[r].rule] /\ Await(r, "create_entry")
     /\ UNCHANGED tables

BalanceAfter(c) == c.total_points + c.points_delta

\* Mutant: the row is inserted without its balance_after.
NewEntry_NoBalance(c) ==
  [donor |-> c.donor, rule |-> c.rule, points_delta |-> c.points_delta, balance_after |-> NULL]

\* Mutant: balance_after holds the award instead of the balance it leads to.
NewEntry_DeltaOnly(c) ==
  [donor |-> c.donor, rule |-> c.rule,
   points_delta |-> c.points_delta, balance_after |-> c.points_delta]

NewEntry(c) ==
  [donor |-> c.donor, rule |-> c.rule,
   points_delta |-> c.points_delta, balance_after |-> BalanceAfter(c)]

CreateEntry(r) ==
  /\ pc[r] = "create_entry"
  /\ ledger' = [ledger EXCEPT ![r] = NewEntry(call[r])]
  /\ Await(r, "set_total_points")
  /\ UNCHANGED totalPoints

\* Mutant: the counter is incremented by the balance instead of replaced by it.
NewTotal_Added(c) == totalPoints[c.donor] + BalanceAfter(c)

\* An absolute value, whatever the counter is by now.
NewTotal(c) == BalanceAfter(c)

SetTotalPoints(r) ==
  /\ pc[r] = "set_total_points"
  /\ totalPoints' = [totalPoints EXCEPT ![call[r].donor] = NewTotal(call[r])]
  /\ Await(r, "respond")
  /\ UNCHANGED ledger

Answer(r) ==
  /\ pc[r] = "respond"
  /\ Respond(r, "OK")
  /\ UNCHANGED tables

FailPendingCall(r) == FailCall(r) /\ UNCHANGED tables

Next ==
  \E r \in Requests :
    \/ RefuseAward(r)
    \/ AcceptAward(r)
    \/ CountAwards(r)
    \/ CreateEntry(r)
    \/ SetTotalPoints(r)
    \/ Answer(r)
    \/ FailPendingCall(r)

Spec == Init /\ [][Next]_vars

-----------------------------------------------------------------------------
(* Properties.                                                             *)

\* Balances a donor has had: the one it began with and one per ledger row.
Recorded(d) == {InitialPoints[d]} \cup {ledger[l].balance_after : l \in Entries(d)}

\* The ledger is made of chains, also when awards overlap or fail: each row
\* continues from the initial balance or from the balance of another row of
\* the same donor, and the counter shows such a balance.
LedgerChains ==
  \A d \in Donors :
    /\ totalPoints[d] \in Recorded(d)
    /\ \A l \in Entries(d) : ledger[l].balance_after - ledger[l].points_delta \in Recorded(d)

\* The points that the awards of S give, and those they take, one by one.
PointsGiven(S) == UNION {{l} \X (1..ledger[l].points_delta) : l \in S}
PointsTaken(S) == UNION {{l} \X (1..-ledger[l].points_delta) : l \in S}

\* A sum over a set, put so that it can be reasoned about without induction.
SumOfDeltas(S) == Cardinality(PointsGiven(S)) - Cardinality(PointsTaken(S))

\* An award that was answered with success and overlapped no other award that
\* was entered for the same donor.
Undisturbed(l) ==
  /\ answer[l] = "OK"
  /\ \A q \in Entries(ledger[l].donor) : ~Overlapped(l, q)

\* The counter may lose awards that overlapped another one or failed halfway,
\* but no others; it counts no award twice and invents none.
CounterAccountsForAwards ==
  \A d \in Donors :
    \E S \in SUBSET Entries(d) :
      /\ {l \in Entries(d) : Undisturbed(l)} \subseteq S
      /\ totalPoints[d] = InitialPoints[d] + SumOfDeltas(S)

\* max_repeat_count is exceeded only by requests that overlap: among awards
\* that did not, a capped rule is never used more often than it may.
CapHoldsWithoutOverlap ==
  \A d \in Donors, x \in Rules : RuleCap[x] # NULL =>
    \A S \in SUBSET AwardsForDonorAndRule(d, x) :
      (\A p, q \in S : ~Overlapped(p, q)) => Cardinality(S) <= RuleCap[x]

=============================================================================
