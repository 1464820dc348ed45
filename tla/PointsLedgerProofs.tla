------------------------- MODULE PointsLedgerProofs -------------------------
(***************************************************************************)
(* The ledger chains, the counter accounts for the awards and the caps     *)
(* hold, for any donors, rules and requests.                               *)
(*                                                                         *)
(* Base   types; a handler that has not inserted its row owns no row; a    *)
(*        handler works on a recorded balance, and once it has inserted    *)
(*        its row, that row records the balance it is about to store.      *)
(* Capped an award about to be entered leaves room under its cap for       *)
(*        itself among those it did not overlap.                           *)
(* Accounted  the counter and the balance each handler works on are sums   *)
(*        of awards that miss none they should have seen.                  *)
(***************************************************************************)
EXTENDS PointsLedger, RequestHandlerProofs, FiniteSetTheorems

RowsAreOwned ==
  \A r \in Requests :
    pc[r] \in {"idle", "count_awards", "create_entry"} => ledger[r] = NULL

LocalsAreRecorded ==
  \A r \in Requests :
    /\ pc[r] \in PcAward =>
         call[r] \in Award /\ call[r].total_points \in Recorded(call[r].donor)
    /\ pc[r] = "set_total_points" => ledger[r] = NewEntry(call[r])

Base == TypeOK /\ RowsAreOwned /\ LocalsAreRecorded

Room(r) ==
  LET d == call[r].donor  x == call[r].rule
  IN x # NULL /\ RuleCap[x] # NULL =>
       \A S \in SUBSET AwardsForDonorAndRule(d, x) :
         (\A p \in S, q \in S \cup {r} : ~Overlapped(p, q)) => Cardinality(S) < RuleCap[x]

Capped == \A r \in Requests : pc[r] = "create_entry" => Room(r)

-----------------------------------------------------------------------------
(* What each action writes.                                                *)

USE DEF PcAward

LEMMA BeginsWithAward ==
  ASSUME TypeOK, NEW r \in Requests, AcceptAward(r)
  PROVE  \E c \in Award :
           /\ Begin(r, AfterRule(c.rule), c)
           /\ c.total_points = totalPoints[c.donor]
<1>1. PICK orgs \in CallerOrgSets, d \in Donors, x \in Rules \cup {NULL},
           now \in Times, delta \in Deltas :
        Begin(r, AfterRule(x), [donor |-> d, total_points |-> totalPoints[d],
                                rule |-> x, points_delta |-> delta])
  BY DEF AcceptAward
<1> DEFINE c == [donor |-> d, total_points |-> totalPoints[d],
                 rule |-> x, points_delta |-> delta]
<1>2. c \in Award /\ c.total_points = totalPoints[c.donor] /\ c.rule = x
  BY <1>1 DEF Award, TypeOK
<1> QED
  BY <1>1, <1>2

LEMMA NewEntryIsRow ==
  ASSUME NEW c \in Award
  PROVE  /\ NewEntry(c) \in LedgerRow
         /\ BalanceAfter(c) \in Int
         /\ NewEntry(c).balance_after = BalanceAfter(c)
         /\ NewEntry(c).donor = c.donor
         /\ NewEntry(c).rule = c.rule
         /\ NewEntry(c).balance_after - NewEntry(c).points_delta = c.total_points
<1>1. /\ c.total_points \in Int /\ c.points_delta \in Int
      /\ c.donor \in Donors /\ c.rule \in Rules \cup {NULL}
  BY PointsAssumption DEF Award
<1>2. /\ BalanceAfter(c) \in Int
      /\ BalanceAfter(c) - c.points_delta = c.total_points
  BY <1>1 DEF BalanceAfter
<1> QED
  BY <1>1, <1>2 DEF NewEntry, LedgerRow

\* A refusal is an error.
LEMMA RefusalIsError ==
  \A orgs, d, x, now : AwardRefusal(orgs, d, x, now) \in Errors \cup {"none"}
<1>1. \A d, x, now : RuleRefusal(d, x, now) \in Errors \cup {"none"}
  BY DEF RuleRefusal, Errors
<1> QED
  BY <1>1 DEF AwardRefusal, Errors

\* Every step begins one handler, lets one go on, ends one, or stutters; only
\* two actions write the tables.
LEMMA StepShape ==
  ASSUME TypeOK, LocalsAreRecorded, NEW r \in Requests
  PROVE  /\ RefuseAward(r) =>
              UNCHANGED tables /\ \E code \in Errors \cup {"OK"} : Respond(r, code)
         /\ CountAwards(r) =>
              /\ UNCHANGED tables
              /\ \/ \E code \in Errors \cup {"OK"} : Respond(r, code)
                 \/ Await(r, "create_entry")
         /\ Answer(r) =>
              UNCHANGED tables /\ \E code \in Errors \cup {"OK"} : Respond(r, code)
         /\ FailPendingCall(r) =>
              UNCHANGED tables /\ \E code \in Errors \cup {"OK"} : Respond(r, code)
<1>1. RefuseAward(r) =>
        UNCHANGED tables /\ \E code \in Errors \cup {"OK"} : Respond(r, code)
  BY RefusalIsError DEF RefuseAward
<1>2. CountAwards(r) =>
        /\ UNCHANGED tables
        /\ \/ \E code \in Errors \cup {"OK"} : Respond(r, code)
           \/ Await(r, "create_entry")
  BY DEF CountAwards, Errors
<1>3. Answer(r) =>
        UNCHANGED tables /\ \E code \in Errors \cup {"OK"} : Respond(r, code)
  BY DEF Answer
<1>4. FailPendingCall(r) =>
        UNCHANGED tables /\ \E code \in Errors \cup {"OK"} : Respond(r, code)
  BY DEF FailPendingCall, FailCall, Errors
<1> QED
  BY <1>1, <1>2, <1>3, <1>4

-----------------------------------------------------------------------------
(* Base.                                                                   *)

LEMMA BaseAtFirst == Init => Base
<1> SUFFICES ASSUME Init PROVE Base
  OBVIOUS
<1>1. TypeOK
  BY PointsAssumption DEF Init, TypeOK, InitHandlers, HandlersTyped, Errors
<1> QED
  BY <1>1 DEF Init, Base, InitHandlers, RowsAreOwned, LocalsAreRecorded

LEMMA TypeOKIsKept ==
  ASSUME Base, [Next]_vars
  PROVE  TypeOK'
<1> USE DEF Base
<1>1. CASE UNCHANGED vars
  BY <1>1 DEF vars, TypeOK, HandlersTyped
<1>2. ASSUME NEW r \in Requests, AcceptAward(r) PROVE TypeOK'
  <2>1. PICK c \in Award : Begin(r, AfterRule(c.rule), c)
    BY <1>2, BeginsWithAward
  <2>2. AfterRule(c.rule) \in PcAward
    BY DEF AfterRule
  <2>3. HandlersTyped(PcAward, Award)'
    BY <2>1, <2>2, BeginTyped DEF TypeOK
  <2> QED
    BY <1>2, <2>3 DEF AcceptAward, TypeOK, tables
<1>3. ASSUME NEW r \in Requests, CreateEntry(r) PROVE TypeOK'
  <2>1. HandlersTyped(PcAward, Award)'
    BY <1>3, AwaitTyped DEF CreateEntry, TypeOK
  <2>2. NewEntry(call[r]) \in LedgerRow
    BY <1>3, NewEntryIsRow DEF CreateEntry, LocalsAreRecorded
  <2> QED
    BY <1>3, <2>1, <2>2 DEF CreateEntry, TypeOK
<1>4. ASSUME NEW r \in Requests, SetTotalPoints(r) PROVE TypeOK'
  <2>1. HandlersTyped(PcAward, Award)'
    BY <1>4, AwaitTyped DEF SetTotalPoints, TypeOK
  <2>2. BalanceAfter(call[r]) \in Int
    BY <1>4, NewEntryIsRow DEF SetTotalPoints, LocalsAreRecorded
  <2> QED
    BY <1>4, <2>1, <2>2 DEF SetTotalPoints, TypeOK, NewTotal
<1>5. ASSUME NEW r \in Requests, UNCHANGED tables,
             \/ \E code \in Errors \cup {"OK"} : Respond(r, code)
             \/ Await(r, "create_entry")
      PROVE  TypeOK'
  <2>1. HandlersTyped(PcAward, Award)'
    BY <1>5, RespondTyped, AwaitTyped DEF TypeOK
  <2> QED
    BY <1>5, <2>1 DEF TypeOK, tables
<1> QED
  BY <1>1, <1>2, <1>3, <1>4, <1>5, StepShape DEF Next

\* A balance once recorded stays recorded.
LEMMA RecordedGrows ==
  ASSUME Base, [Next]_vars, NEW d
  PROVE  Recorded(d) \subseteq Recorded(d)'
<1>1. \A l \in Requests : ledger[l] # NULL => ledger'[l] = ledger[l]
  <2>1. CASE ledger' = ledger
    BY <2>1
  <2>2. ASSUME NEW r \in Requests, CreateEntry(r)
        PROVE  \A l \in Requests : ledger[l] # NULL => ledger'[l] = ledger[l]
    BY <2>2 DEF Base, TypeOK, RowsAreOwned, CreateEntry
  <2> QED
    BY <2>1, <2>2, StepShape
    DEF Base, Next, vars, tables, AcceptAward, SetTotalPoints
<1> QED
  BY <1>1 DEF Recorded, Entries

LEMMA RowsAreOwnedIsKept ==
  ASSUME Base, [Next]_vars
  PROVE  RowsAreOwned'
<1> USE DEF Base
<1>1. CASE UNCHANGED vars
  BY <1>1 DEF vars, RowsAreOwned
<1>2. ASSUME NEW r \in Requests, AcceptAward(r) PROVE RowsAreOwned'
  BY <1>2, BeginsWithAward DEF AcceptAward, Begin, RowsAreOwned, tables, TypeOK, HandlersTyped
<1>3. ASSUME NEW r \in Requests, CreateEntry(r) PROVE RowsAreOwned'
  BY <1>3 DEF CreateEntry, Await, RowsAreOwned, TypeOK, HandlersTyped
<1>4. ASSUME NEW r \in Requests, SetTotalPoints(r) PROVE RowsAreOwned'
  BY <1>4 DEF SetTotalPoints, Await, RowsAreOwned, TypeOK, HandlersTyped
<1>5. ASSUME NEW r \in Requests, UNCHANGED tables,
             \E code \in Errors \cup {"OK"} : Respond(r, code)
      PROVE  RowsAreOwned'
  BY <1>5 DEF Respond, RowsAreOwned, tables, TypeOK, HandlersTyped
<1>6. ASSUME NEW r \in Requests, CountAwards(r), UNCHANGED tables, Await(r, "create_entry")
      PROVE  RowsAreOwned'
  BY <1>6 DEF CountAwards, Await, RowsAreOwned, tables, TypeOK, HandlersTyped
<1> QED
  BY <1>1, <1>2, <1>3, <1>4, <1>5, <1>6, StepShape DEF Next

LEMMA LocalsAreRecordedIsKept ==
  ASSUME Base, LedgerChains, [Next]_vars
  PROVE  LocalsAreRecorded'
<1> USE DEF Base
<1>1. \A d : Recorded(d) \subseteq Recorded(d)'
  BY RecordedGrows
<1>2. CASE UNCHANGED vars
  BY <1>1, <1>2 DEF vars, LocalsAreRecorded, NewEntry, BalanceAfter
<1>3. ASSUME NEW r \in Requests, AcceptAward(r) PROVE LocalsAreRecorded'
  <2>1. PICK c \in Award : Begin(r, AfterRule(c.rule), c) /\ c.total_points = totalPoints[c.donor]
    BY <1>3, BeginsWithAward
  <2>2. c.total_points \in Recorded(c.donor)
    BY <2>1 DEF LedgerChains, Award
  <2>3. /\ call'[r] = c /\ pc'[r] \in PcAward \ {"set_total_points"}
        /\ \A q \in Requests \ {r} : call'[q] = call[q] /\ pc'[q] = pc[q]
        /\ ledger' = ledger
    BY <1>3, <2>1 DEF AcceptAward, Begin, tables, AfterRule, TypeOK, HandlersTyped
  <2> QED
    BY <1>1, <2>2, <2>3 DEF LocalsAreRecorded, NewEntry, BalanceAfter
<1>4. ASSUME NEW r \in Requests, CreateEntry(r) PROVE LocalsAreRecorded'
  <2>1. /\ call' = call
        /\ pc[r] \in PcAward /\ pc'[r] = "set_total_points"
        /\ ledger'[r] = NewEntry(call[r])
        /\ \A q \in Requests \ {r} : ledger'[q] = ledger[q] /\ pc'[q] = pc[q]
    BY <1>4 DEF CreateEntry, Await, TypeOK, HandlersTyped
  <2> QED
    BY <1>1, <2>1 DEF LocalsAreRecorded, NewEntry, BalanceAfter
<1>5. ASSUME NEW r \in Requests, SetTotalPoints(r) PROVE LocalsAreRecorded'
  <2>1. /\ call' = call /\ pc'[r] = "respond" /\ ledger' = ledger
        /\ \A q \in Requests \ {r} : pc'[q] = pc[q]
    BY <1>5 DEF SetTotalPoints, Await, TypeOK, HandlersTyped
  <2> QED
    BY <1>1, <2>1 DEF LocalsAreRecorded, NewEntry, BalanceAfter
<1>6. ASSUME NEW r \in Requests, UNCHANGED tables,
             \E code \in Errors \cup {"OK"} : Respond(r, code)
      PROVE  LocalsAreRecorded'
  <2>1. /\ pc'[r] = "done" /\ ledger' = ledger
        /\ \A q \in Requests \ {r} : call'[q] = call[q] /\ pc'[q] = pc[q]
    BY <1>6 DEF Respond, tables, TypeOK, HandlersTyped
  <2> QED
    BY <1>1, <2>1 DEF LocalsAreRecorded, NewEntry, BalanceAfter
<1>7. ASSUME NEW r \in Requests, CountAwards(r), UNCHANGED tables, Await(r, "create_entry")
      PROVE  LocalsAreRecorded'
  <2>1. /\ call' = call /\ pc[r] \in PcAward /\ pc'[r] = "create_entry" /\ ledger' = ledger
        /\ \A q \in Requests \ {r} : pc'[q] = pc[q]
    BY <1>7 DEF CountAwards, Await, tables, TypeOK, HandlersTyped
  <2> QED
    BY <1>1, <2>1 DEF LocalsAreRecorded, NewEntry, BalanceAfter
<1> QED
  BY <1>2, <1>3, <1>4, <1>5, <1>6, <1>7, StepShape DEF Next

-----------------------------------------------------------------------------
(* The ledger.                                                             *)

LEMMA LedgerChainsAtFirst == Init => LedgerChains
  BY DEF Init, LedgerChains, Recorded, Entries

LEMMA LedgerChainsIsKept ==
  ASSUME Base, LedgerChains, [Next]_vars
  PROVE  LedgerChains'
<1> USE DEF Base
<1>1. \A d : Recorded(d) \subseteq Recorded(d)'
  BY RecordedGrows
<1>2. CASE ledger' = ledger /\ totalPoints' = totalPoints
  BY <1>1, <1>2 DEF LedgerChains, Entries
<1>3. ASSUME NEW r \in Requests, CreateEntry(r) PROVE LedgerChains'
  <2>1. /\ ledger'[r] = NewEntry(call[r]) /\ totalPoints' = totalPoints
        /\ \A q \in Requests \ {r} : ledger'[q] = ledger[q]
        /\ call[r] \in Award /\ call[r].total_points \in Recorded(call[r].donor)
    BY <1>3 DEF CreateEntry, TypeOK, LocalsAreRecorded
  <2>2. /\ NewEntry(call[r]).donor = call[r].donor
        /\ NewEntry(call[r]).balance_after - NewEntry(call[r]).points_delta
             = call[r].total_points
    BY <2>1, NewEntryIsRow
  <2>3. SUFFICES ASSUME NEW d \in Donors
                 PROVE  /\ totalPoints'[d] \in Recorded(d)'
                        /\ \A l \in Entries(d)' :
                             ledger'[l].balance_after - ledger'[l].points_delta \in Recorded(d)'
    BY DEF LedgerChains
  <2>4. \A l \in Entries(d)' : l = r \/ l \in Entries(d)
    BY <2>1 DEF Entries
  <2>5. r \in Entries(d)' => d = call[r].donor
    BY <2>1, <2>2 DEF Entries
  <2> QED
    BY <1>1, <2>1, <2>2, <2>4, <2>5 DEF LedgerChains, Entries
<1>4. ASSUME NEW r \in Requests, SetTotalPoints(r) PROVE LedgerChains'
  <2>1. /\ ledger[r] = NewEntry(call[r]) /\ ledger' = ledger
        /\ call[r] \in Award
        /\ totalPoints' = [totalPoints EXCEPT ![call[r].donor] = BalanceAfter(call[r])]
    BY <1>4 DEF SetTotalPoints, NewTotal, LocalsAreRecorded
  <2>2. /\ NewEntry(call[r]).donor = call[r].donor
        /\ NewEntry(call[r]).balance_after = BalanceAfter(call[r])
        /\ NewEntry(call[r]) # NULL
    BY <2>1, NewEntryIsRow, PointsNullAssumption
  <2>3. BalanceAfter(call[r]) \in Recorded(call[r].donor)
    BY <2>1, <2>2 DEF Recorded, Entries
  <2>4. \A d \in Donors : totalPoints'[d] \in Recorded(d)
    BY <2>1, <2>3 DEF LedgerChains, TypeOK
  <2> QED
    BY <1>1, <2>1, <2>4 DEF LedgerChains, Entries
<1> QED
  BY <1>2, <1>3, <1>4, StepShape DEF Next, vars, tables, AcceptAward

LEMMA BaseIsKept == Base /\ LedgerChains /\ [Next]_vars => (Base /\ LedgerChains)'
  BY TypeOKIsKept, RowsAreOwnedIsKept, LocalsAreRecordedIsKept, LedgerChainsIsKept DEF Base

LEMMA BaseAlways == Spec => [](Base /\ LedgerChains)
<1>1. Init => Base /\ LedgerChains
  BY BaseAtFirst, LedgerChainsAtFirst
<1> QED
  BY <1>1, BaseIsKept, PTL DEF Spec

\* Ledger rows, the counter and what the handlers keep across their awaits
\* (points.service.ts:65-118) never lose their types.
THEOREM PointsTypeCorrect == Spec => []TypeOK
<1>1. Base => TypeOK
  BY DEF Base
<1> QED
  BY <1>1, BaseAlways, PTL

\* However the awaits of createPointsAward overlap or fail, each balance
\* continues from a recorded one and the counter shows a recorded one.
THEOREM LedgerAlwaysChains == Spec => []LedgerChains
  BY BaseAlways, PTL

-----------------------------------------------------------------------------
(* The caps.                                                               *)

Capping == Capped /\ InFlightOverlap /\ CapHoldsWithoutOverlap

LEMMA AwardsAreFinite ==
  ASSUME NEW d, NEW x, NEW S \in SUBSET AwardsForDonorAndRule(d, x)
  PROVE  /\ IsFiniteSet(S)
         /\ Cardinality(S) \in Nat
         /\ IsFiniteSet(AwardsForDonorAndRule(d, x))
         /\ Cardinality(AwardsForDonorAndRule(d, x)) \in Nat
         /\ Cardinality(S) <= Cardinality(AwardsForDonorAndRule(d, x))
<1>1. AwardsForDonorAndRule(d, x) \subseteq Requests
  BY DEF AwardsForDonorAndRule, Entries
<1>2. IsFiniteSet(AwardsForDonorAndRule(d, x))
  BY <1>1, FiniteAssumption, FS_Subset
<1> QED
  BY <1>2, FS_Subset, FS_CardinalityType

LEMMA CapIsNat ==
  ASSUME NEW x \in Rules, RuleCap[x] # NULL
  PROVE  RuleCap[x] \in Nat
  BY PointsAssumption

LEMMA CappingAtFirst == Init => Capping
<1> SUFFICES ASSUME Init PROVE Capping
  OBVIOUS
<1>1. InFlightOverlap
  BY OverlapAtFirst DEF Init
<1>2. Capped
  BY DEF Init, InitHandlers, Capped
<1>3. ASSUME NEW d \in Donors, NEW x \in Rules, RuleCap[x] # NULL,
             NEW S \in SUBSET AwardsForDonorAndRule(d, x)
      PROVE  Cardinality(S) <= RuleCap[x]
  <2>1. S = {}
    BY DEF Init, AwardsForDonorAndRule, Entries
  <2>2. Cardinality(S) = 0
    BY <2>1, FS_EmptySet
  <2> QED
    BY <2>2, CapIsNat, <1>3
<1> QED
  BY <1>1, <1>2, <1>3 DEF Capping, CapHoldsWithoutOverlap

\* Nothing changes for the others while the ledger stays and at most one
\* handler, without a row, gets a new history.
LEMMA CapsKeptByOthers ==
  ASSUME Capping, NEW r \in Requests, ledger' = ledger,
         \A q \in Requests \ {r} : met'[q] = met[q],
         ledger[r] = NULL \/ met'[r] = met[r]
  PROVE  /\ CapHoldsWithoutOverlap'
         /\ \A q \in Requests :
              /\ q # r \/ met'[r] = met[r]
              /\ call'[q] = call[q] /\ pc[q] = "create_entry"
              => Room(q)'
<1>1. \A d, x : /\ AwardsForDonorAndRule(d, x)' = AwardsForDonorAndRule(d, x)
                /\ \A p \in AwardsForDonorAndRule(d, x) : p \in Requests /\ met'[p] = met[p]
  BY DEF AwardsForDonorAndRule, Entries
<1>2. CapHoldsWithoutOverlap'
  <2>1. SUFFICES ASSUME NEW d \in Donors, NEW x \in Rules, RuleCap[x] # NULL,
                        NEW S \in SUBSET AwardsForDonorAndRule(d, x),
                        \A p, q \in S : ~Overlapped(p, q)'
                 PROVE  Cardinality(S) <= RuleCap[x]
    BY <1>1 DEF CapHoldsWithoutOverlap
  <2>2. \A p, q \in S : ~Overlapped(p, q)
    BY <1>1, <2>1 DEF Overlapped
  <2> QED
    BY <2>1, <2>2 DEF Capping, CapHoldsWithoutOverlap
<1>3. ASSUME NEW q \in Requests, q # r \/ met'[r] = met[r],
             call'[q] = call[q], pc[q] = "create_entry"
      PROVE  Room(q)'
  <2>1. Room(q) /\ met'[q] = met[q]
    BY <1>3 DEF Capping, Capped
  <2>2. ASSUME NEW d, NEW x, NEW S \in SUBSET AwardsForDonorAndRule(d, x),
               \A p \in S, o \in S \cup {q} : ~Overlapped(p, o)'
        PROVE  \A p \in S, o \in S \cup {q} : ~Overlapped(p, o)
    BY <1>1, <2>1, <2>2 DEF Overlapped
  <2> QED
    BY <1>1, <1>3, <2>1, <2>2 DEF Room
<1> QED
  BY <1>2, <1>3

LEMMA CapsKeptByCreate ==
  ASSUME Base, Capping, NEW r \in Requests, CreateEntry(r)
  PROVE  CapHoldsWithoutOverlap' /\ Capped'
<1> DEFINE e == NewEntry(call[r])
<1>1. /\ pc[r] = "create_entry" /\ pc'[r] = "set_total_points"
      /\ call' = call /\ met' = met
      /\ call[r] \in Award
      /\ ledger'[r] = e
      /\ \A q \in Requests \ {r} : ledger'[q] = ledger[q] /\ pc'[q] = pc[q]
      /\ Room(r)
  BY DEF CreateEntry, Await, Base, TypeOK, HandlersTyped, LocalsAreRecorded, Capping, Capped
<1>2. e.donor = call[r].donor /\ e.rule = call[r].rule
  BY <1>1, NewEntryIsRow
<1>3. \A d, x : \A l \in AwardsForDonorAndRule(d, x)' :
        \/ l \in AwardsForDonorAndRule(d, x)
        \/ l = r /\ d = call[r].donor /\ x = call[r].rule
  <2> SUFFICES ASSUME NEW d, NEW x, NEW l \in AwardsForDonorAndRule(d, x)'
               PROVE  \/ l \in AwardsForDonorAndRule(d, x)
                      \/ l = r /\ d = call[r].donor /\ x = call[r].rule
    OBVIOUS
  <2> HIDE DEF e
  <2>1. l \in Requests /\ ledger'[l] # NULL /\ ledger'[l].donor = d /\ ledger'[l].rule = x
    BY DEF AwardsForDonorAndRule, Entries
  <2> QED
    BY <1>1, <1>2, <2>1 DEF AwardsForDonorAndRule, Entries
<1>4. \A p, q : Overlapped(p, q)' <=> Overlapped(p, q)
  BY <1>1 DEF Overlapped
<1>5. CapHoldsWithoutOverlap'
  <2>1. SUFFICES ASSUME NEW d \in Donors, NEW x \in Rules, RuleCap[x] # NULL,
                        NEW S \in SUBSET AwardsForDonorAndRule(d, x)',
                        \A p, q \in S : ~Overlapped(p, q)
                 PROVE  Cardinality(S) <= RuleCap[x]
    BY <1>4 DEF CapHoldsWithoutOverlap
  <2>2. CASE r \notin S
    BY <1>3, <2>1, <2>2 DEF Capping, CapHoldsWithoutOverlap
  <2>3. CASE S \subseteq AwardsForDonorAndRule(d, x)
    BY <2>1, <2>3 DEF Capping, CapHoldsWithoutOverlap
  <2>4. CASE r \in S /\ d = call[r].donor /\ x = call[r].rule
    <3>1. S \ {r} \in SUBSET AwardsForDonorAndRule(d, x)
      BY <1>3
    <3>2. \A p \in S \ {r}, q \in (S \ {r}) \cup {r} : ~Overlapped(p, q)
      BY <2>1, <2>4
    <3>3. x # NULL
      BY PointsAssumption
    <3>4. Cardinality(S \ {r}) < RuleCap[x]
      BY <1>1, <2>1, <2>4, <3>1, <3>2, <3>3 DEF Room
    <3>5. IsFiniteSet(S \ {r}) /\ Cardinality(S \ {r}) \in Nat
      BY <3>1, AwardsAreFinite
    <3>6. S = (S \ {r}) \cup {r}
      BY <2>4
    <3>7. Cardinality(S) = Cardinality(S \ {r}) + 1
      BY <3>5, <3>6, FS_AddElement
    <3> QED
      BY <2>1, <3>4, <3>5, <3>7, CapIsNat
  <2> QED
    BY <1>3, <2>2, <2>3, <2>4
<1>6. Capped'
  <2>1. SUFFICES ASSUME NEW q \in Requests, pc'[q] = "create_entry" PROVE Room(q)'
    BY DEF Capped
  <2>2. q # r /\ pc[q] = "create_entry" /\ Room(q) /\ Overlapped(r, q)
    BY <1>1, <2>1 DEF Capping, Capped, InFlightOverlap, InFlight
  <2>3. ASSUME NEW d, NEW x, NEW S \in SUBSET AwardsForDonorAndRule(d, x)',
               \A p \in S, o \in S \cup {q} : ~Overlapped(p, o)
        PROVE  S \in SUBSET AwardsForDonorAndRule(d, x)
    BY <1>3, <2>2, <2>3
  <2> QED
    BY <1>1, <1>4, <2>2, <2>3 DEF Room
<1> QED
  BY <1>5, <1>6

LEMMA CapsKeptByAccept ==
  ASSUME Base, Capping, NEW r \in Requests, AcceptAward(r)
  PROVE  CapHoldsWithoutOverlap' /\ Capped'
<1>1. PICK c \in Award : Begin(r, AfterRule(c.rule), c)
  BY BeginsWithAward DEF Base
<1>2. /\ ledger' = ledger /\ ledger[r] = NULL
      /\ pc'[r] = AfterRule(c.rule) /\ call'[r] = c
      /\ \A q \in Requests \ {r} : pc'[q] = pc[q] /\ call'[q] = call[q] /\ met'[q] = met[q]
  BY <1>1 DEF AcceptAward, tables, Begin, Base, TypeOK, HandlersTyped, RowsAreOwned
<1>3. /\ CapHoldsWithoutOverlap'
      /\ \A q \in Requests \ {r} : pc[q] = "create_entry" => Room(q)'
  BY <1>2, CapsKeptByOthers
<1>4. pc'[r] = "create_entry" => Room(r)'
  BY <1>2 DEF AfterRule, Room
<1> QED
  BY <1>2, <1>3, <1>4 DEF Capped

LEMMA CapsKeptByCount ==
  ASSUME Base, Capping, NEW r \in Requests, CountAwards(r), Await(r, "create_entry")
  PROVE  CapHoldsWithoutOverlap' /\ Capped'
<1>1. /\ ledger' = ledger /\ call' = call /\ met' = met
      /\ \A q \in Requests \ {r} : pc'[q] = pc[q]
      /\ pc'[r] # pc[r]
      /\ call[r] \in Award
      /\ pc[r] = "count_awards"
  BY DEF CountAwards, tables, Await, Base, TypeOK, HandlersTyped, LocalsAreRecorded
<1>2. /\ CapHoldsWithoutOverlap'
      /\ \A q \in Requests : pc[q] = "create_entry" => Room(q)'
  BY <1>1, CapsKeptByOthers
<1>3. Cardinality(AwardsForDonorAndRule(call[r].donor, call[r].rule)) < RuleCap[call[r].rule]
  BY <1>1 DEF CountAwards, Await, Respond, Base, TypeOK, HandlersTyped
<1>4. Room(r)'
  <2>1. \A d, x : AwardsForDonorAndRule(d, x)' = AwardsForDonorAndRule(d, x)
    BY <1>1 DEF AwardsForDonorAndRule, Entries
  <2>2. SUFFICES ASSUME call[r].rule # NULL, RuleCap[call[r].rule] # NULL,
                        NEW S \in SUBSET AwardsForDonorAndRule(call[r].donor, call[r].rule)
                 PROVE  Cardinality(S) < RuleCap[call[r].rule]
    BY <1>1, <2>1 DEF Room
  <2>3. RuleCap[call[r].rule] \in Nat
    BY <1>1, <2>2, CapIsNat DEF Award
  <2> QED
    BY <1>3, <2>3, AwardsAreFinite
<1> QED
  BY <1>1, <1>2, <1>4 DEF Capped

LEMMA CapsKeptElsewhere ==
  ASSUME Base, Capping, NEW r \in Requests, ledger' = ledger,
         \/ \E code \in Errors \cup {"OK"} : Respond(r, code)
         \/ Await(r, "respond")
  PROVE  CapHoldsWithoutOverlap' /\ Capped'
<1>1. /\ met' = met
      /\ pc'[r] # "create_entry"
      /\ \A q \in Requests \ {r} : pc'[q] = pc[q] /\ call'[q] = call[q]
  BY DEF Respond, Await, Base, TypeOK, HandlersTyped
<1> QED
  BY <1>1, CapsKeptByOthers DEF Capped

LEMMA CappingIsKept ==
  ASSUME Base, Capping, [Next]_vars
  PROVE  Capping'
<1> USE DEF Base
<1>1. CASE UNCHANGED vars
  BY <1>1 DEF vars, Capping, Capped, Room, InFlightOverlap, InFlight, Overlapped,
              CapHoldsWithoutOverlap, AwardsForDonorAndRule, Entries
<1>2. ASSUME NEW r \in Requests, AcceptAward(r) PROVE Capping'
  <2>1. InFlightOverlap'
    BY <1>2, BeginsWithAward, BeginOverlaps DEF TypeOK, Capping
  <2> QED
    BY <1>2, <2>1, CapsKeptByAccept DEF Capping
<1>3. ASSUME NEW r \in Requests, CreateEntry(r) PROVE Capping'
  <2>1. InFlight(r) /\ Await(r, "set_total_points")
    BY <1>3 DEF CreateEntry, InFlight
  <2>2. InFlightOverlap'
    BY <2>1, GoingOnOverlaps DEF TypeOK, Capping
  <2> QED
    BY <1>3, <2>2, CapsKeptByCreate DEF Capping
<1>4. ASSUME NEW r \in Requests, SetTotalPoints(r) PROVE Capping'
  <2>1. InFlight(r) /\ Await(r, "respond") /\ ledger' = ledger
    BY <1>4 DEF SetTotalPoints, InFlight
  <2>2. InFlightOverlap'
    BY <2>1, GoingOnOverlaps DEF TypeOK, Capping
  <2> QED
    BY <2>1, <2>2, CapsKeptElsewhere DEF Capping
<1>5. ASSUME NEW r \in Requests, UNCHANGED tables,
             \E code \in Errors \cup {"OK"} : Respond(r, code)
      PROVE  Capping'
  <2>1. InFlightOverlap'
    BY <1>5, GoingOnOverlaps DEF TypeOK, Capping
  <2> QED
    BY <1>5, <2>1, CapsKeptElsewhere DEF Capping, tables
<1>6. ASSUME NEW r \in Requests, CountAwards(r), Await(r, "create_entry") PROVE Capping'
  <2>1. InFlight(r)
    BY <1>6 DEF CountAwards, InFlight
  <2>2. InFlightOverlap'
    BY <1>6, <2>1, GoingOnOverlaps DEF TypeOK, Capping
  <2> QED
    BY <1>6, <2>2, CapsKeptByCount DEF Capping
<1> QED
  BY <1>1, <1>2, <1>3, <1>4, <1>5, <1>6, StepShape DEF Next

\* Only overlapping requests get past max_repeat_count
\* (points.service.ts:87-94): the check reads what every earlier award wrote.
THEOREM CapsHoldWithoutOverlap == Spec => []CapHoldsWithoutOverlap
<1>1. Init => Base /\ LedgerChains /\ Capping
  BY BaseAtFirst, LedgerChainsAtFirst, CappingAtFirst
<1>2. Base /\ LedgerChains /\ Capping /\ [Next]_vars => (Base /\ LedgerChains /\ Capping)'
  BY BaseIsKept, CappingIsKept
<1>3. Capping => CapHoldsWithoutOverlap
  BY DEF Capping
<1> QED
  BY <1>1, <1>2, <1>3, PTL DEF Spec

-----------------------------------------------------------------------------
(* Sums of deltas.                                                         *)

LEMMA UnionOfBlocks ==
  ASSUME NEW S, IsFiniteSet(S), NEW f, \A l \in S : IsFiniteSet(f[l])
  PROVE  IsFiniteSet(UNION {f[l] : l \in S})
<1> DEFINE T == {f[l] : l \in S}
           g == [l \in S |-> f[l]]
<1>1. g \in Surjection(S, T)
  BY DEF Surjection
<1>2. IsFiniteSet(T)
  BY <1>1, FS_Surjection
<1> QED
  BY <1>2, FS_UNION

LEMMA BlockSize ==
  ASSUME NEW l, NEW n \in Int
  PROVE  /\ IsFiniteSet({l} \X (1..n))
         /\ Cardinality({l} \X (1..n)) = IF n > 0 THEN n ELSE 0
<1>1. IsFiniteSet(1..n) /\ Cardinality(1..n) = IF 1 > n THEN 0 ELSE n - 1 + 1
  BY FS_Interval
<1>2. IsFiniteSet({l}) /\ Cardinality({l}) = 1
  BY FS_Singleton
<1>3. IsFiniteSet({l} \X (1..n)) /\ Cardinality({l} \X (1..n)) = 1 * Cardinality(1..n)
  BY <1>1, <1>2, FS_Product
<1> QED
  BY <1>1, <1>3

Blocks(S, delta) == UNION {{l} \X (1..delta[l]) : l \in S}

\* One more award of n points (n may be negative: then it has no points here).
LEMMA OneMoreBlock ==
  ASSUME NEW S, IsFiniteSet(S), NEW delta, \A l \in S : delta[l] \in Int,
         NEW r, r \notin S, NEW n \in Int, n = delta[r]
  PROVE  /\ Cardinality(Blocks(S, delta)) \in Nat
         /\ Cardinality(Blocks(S \cup {r}, delta))
              = Cardinality(Blocks(S, delta)) + (IF n > 0 THEN n ELSE 0)
<1> DEFINE P == Blocks(S, delta)
           Q == {r} \X (1..n)
<1>1. IsFiniteSet(P)
  <2>1. PICK f : f = [l \in S |-> {l} \X (1..delta[l])]
    OBVIOUS
  <2>2. \A l \in S : IsFiniteSet(f[l])
    BY <2>1, BlockSize
  <2>3. P = UNION {f[l] : l \in S}
    BY <2>1 DEF Blocks
  <2> QED
    BY <2>2, <2>3, UnionOfBlocks
<1>2. IsFiniteSet(Q) /\ Cardinality(Q) = IF n > 0 THEN n ELSE 0
  BY BlockSize
<1>3. Blocks(S \cup {r}, delta) = P \cup Q
  BY DEF Blocks
<1>4. P \cap Q = {}
  <2>1. \A p \in P : p[1] \in S
    BY DEF Blocks
  <2>2. \A p \in Q : p[1] = r
    OBVIOUS
  <2> QED
    BY <2>1, <2>2
<1> HIDE DEF P, Q
<1>5. Cardinality(P \cup Q) = Cardinality(P) + Cardinality(Q) - Cardinality(P \cap Q)
  BY <1>1, <1>2, FS_Union
<1>6. Cardinality(P \cap Q) = 0
  BY <1>4, FS_EmptySet
<1>7. Cardinality(P) \in Nat
  BY <1>1, FS_CardinalityType
<1>8. Cardinality(P \cup Q) = Cardinality(P) + (IF n > 0 THEN n ELSE 0)
  BY <1>2, <1>5, <1>6, <1>7
<1> QED
  BY <1>3, <1>7, <1>8 DEF P

LEMMA SumOfNone == SumOfDeltas({}) = 0
<1>1. PointsGiven({}) = {} /\ PointsTaken({}) = {}
  BY DEF PointsGiven, PointsTaken
<1> QED
  BY <1>1, FS_EmptySet DEF SumOfDeltas

LEMMA SumOfOneMore ==
  ASSUME TypeOK, NEW S \in SUBSET Requests, \A l \in S : ledger[l] # NULL,
         NEW r \in Requests, r \notin S, ledger[r] # NULL
  PROVE  /\ SumOfDeltas(S) \in Int
         /\ SumOfDeltas(S \cup {r}) = SumOfDeltas(S) + ledger[r].points_delta
<1>1. IsFiniteSet(S)
  BY FiniteAssumption, FS_Subset
<1>2. \A l \in S \cup {r} : ledger[l].points_delta \in Int
  BY DEF TypeOK, LedgerRow
<1>3. PICK up : up = [l \in S \cup {r} |-> ledger[l].points_delta]
  OBVIOUS
<1>4. PICK down : down = [l \in S \cup {r} |-> -ledger[l].points_delta]
  OBVIOUS
<1>5. PICK n \in Int : n = ledger[r].points_delta
  BY <1>2
<1>6. /\ PointsGiven(S) = Blocks(S, up) /\ PointsGiven(S \cup {r}) = Blocks(S \cup {r}, up)
      /\ PointsTaken(S) = Blocks(S, down) /\ PointsTaken(S \cup {r}) = Blocks(S \cup {r}, down)
  BY <1>3, <1>4 DEF PointsGiven, PointsTaken, Blocks
<1>7. /\ Cardinality(PointsGiven(S)) \in Nat
      /\ Cardinality(PointsGiven(S \cup {r}))
           = Cardinality(PointsGiven(S)) + (IF n > 0 THEN n ELSE 0)
  <2>1. (\A l \in S : up[l] \in Int) /\ n = up[r]
    BY <1>2, <1>3, <1>5
  <2> QED
    BY <1>1, <1>6, <2>1, OneMoreBlock
<1>8. /\ Cardinality(PointsTaken(S)) \in Nat
      /\ Cardinality(PointsTaken(S \cup {r}))
           = Cardinality(PointsTaken(S)) + (IF -n > 0 THEN -n ELSE 0)
  <2>1. (\A l \in S : down[l] \in Int) /\ -n = down[r] /\ -n \in Int
    BY <1>2, <1>4, <1>5
  <2> QED
    BY <1>1, <1>6, <2>1, OneMoreBlock
<1> QED
  BY <1>5, <1>7, <1>8 DEF SumOfDeltas

LEMMA SumStays ==
  ASSUME NEW S, \A l \in S : ledger'[l] = ledger[l]
  PROVE  SumOfDeltas(S)' = SumOfDeltas(S)
<1>1. PointsGiven(S)' = PointsGiven(S) /\ PointsTaken(S)' = PointsTaken(S)
  BY DEF PointsGiven, PointsTaken
<1> QED
  BY <1>1 DEF SumOfDeltas

-----------------------------------------------------------------------------
(* The counter.                                                            *)

\* The counter has been set, and nothing entered for the donor overlapped it.
Settled(l) ==
  /\ pc[l] = "respond" \/ answer[l] = "OK"
  /\ \A q \in Entries(ledger[l].donor) : ~Overlapped(l, q)

\* The counter of d is the sum of some awards, all settled ones among them.
CounterSum(d) ==
  \E S \in SUBSET Entries(d) :
    /\ {l \in Entries(d) : Settled(l)} \subseteq S
    /\ totalPoints[d] = InitialPoints[d] + SumOfDeltas(S)

\* So is the balance a handler works on; it may miss settled awards that it
\* overlapped.
ReadSum(r) ==
  LET d == call[r].donor
  IN \E S \in SUBSET (Entries(d) \ {r}) :
       /\ {l \in Entries(d) : Settled(l) /\ ~Overlapped(l, r)} \subseteq S
       /\ call[r].total_points = InitialPoints[d] + SumOfDeltas(S)

Accounted ==
  /\ \A d \in Donors : CounterSum(d)
  /\ \A r \in Requests : pc[r] \in PcAward => ReadSum(r)
  /\ \A r \in Requests : answer[r] = "OK" => pc[r] = "done"

LEMMA AccountedAtFirst == Init => Accounted
<1> SUFFICES ASSUME Init PROVE Accounted
  OBVIOUS
<1>1. \A d \in Donors : CounterSum(d)
  <2> TAKE d \in Donors
  <2>1. totalPoints[d] = InitialPoints[d] + SumOfDeltas({})
    BY SumOfNone, PointsAssumption DEF Init
  <2>2. Entries(d) = {}
    BY DEF Init, Entries
  <2> QED
    BY <2>1, <2>2 DEF CounterSum
<1> QED
  BY <1>1 DEF Init, InitHandlers, Accounted

\* A step that stores rows only for handlers, and settles none, leaves a
\* counter it does not write accounted for.
LEMMA CounterSumStays ==
  ASSUME NEW d \in Donors, CounterSum(d), totalPoints'[d] = totalPoints[d],
         \A l \in Entries(d) : l \in Entries(d)' /\ ledger'[l] = ledger[l],
         \A l \in Entries(d)' : Settled(l)' => l \in Entries(d) /\ Settled(l)
  PROVE  CounterSum(d)'
<1>1. PICK S \in SUBSET Entries(d) :
        /\ {l \in Entries(d) : Settled(l)} \subseteq S
        /\ totalPoints[d] = InitialPoints[d] + SumOfDeltas(S)
  BY DEF CounterSum
<1>2. SumOfDeltas(S)' = SumOfDeltas(S)
  BY <1>1, SumStays
<1>3. S \in SUBSET Entries(d)' /\ {l \in Entries(d)' : Settled(l)'} \subseteq S
  BY <1>1
<1> QED
  BY <1>1, <1>2, <1>3 DEF CounterSum

LEMMA ReadSumStays ==
  ASSUME NEW r \in Requests, ReadSum(r), call'[r] = call[r], NEW d, d = call[r].donor,
         \A l \in Entries(d) : l \in Entries(d)' /\ ledger'[l] = ledger[l],
         \A l \in Entries(d)' :
           Settled(l)' /\ ~Overlapped(l, r)' => l \in Entries(d) /\ Settled(l) /\ ~Overlapped(l, r)
  PROVE  ReadSum(r)'
<1>1. PICK S \in SUBSET (Entries(d) \ {r}) :
        /\ {l \in Entries(d) : Settled(l) /\ ~Overlapped(l, r)} \subseteq S
        /\ call[r].total_points = InitialPoints[d] + SumOfDeltas(S)
  BY DEF ReadSum
<1>2. SumOfDeltas(S)' = SumOfDeltas(S)
  BY <1>1, SumStays
<1>3. /\ S \in SUBSET (Entries(d)' \ {r})
      /\ {l \in Entries(d)' : Settled(l)' /\ ~Overlapped(l, r)'} \subseteq S
  BY <1>1
<1> QED
  BY <1>1, <1>2, <1>3 DEF ReadSum

\* The steps that write neither table and begin nothing.
LEMMA AccountedQuietly ==
  ASSUME Base, Accounted, NEW r \in Requests, UNCHANGED <<tables, met>>,
         \A q \in Requests \ {r} :
           pc'[q] = pc[q] /\ call'[q] = call[q] /\ answer'[q] = answer[q],
         pc'[r] \in PcAward => pc[r] \in PcAward /\ call'[r] = call[r],
         answer'[r] = "OK" => pc'[r] = "done",
         ledger[r] # NULL /\ (pc'[r] = "respond" \/ answer'[r] = "OK")
           => pc[r] = "respond" \/ answer[r] = "OK"
  PROVE  Accounted'
<1>1. /\ \A d : Entries(d)' = Entries(d)
      /\ \A l \in Requests : ledger'[l] = ledger[l]
      /\ \A d \in Donors : totalPoints'[d] = totalPoints[d]
      /\ \A p, q : Overlapped(p, q)' <=> Overlapped(p, q)
  BY DEF tables, Entries, Overlapped
<1>2. \A l \in Requests : ledger[l] # NULL /\ Settled(l)' => Settled(l)
  BY <1>1 DEF Settled
<1>3. \A d : \A l \in Entries(d) : l \in Requests /\ ledger[l] # NULL
  BY DEF Entries
<1>4. \A d \in Donors : CounterSum(d)'
  BY <1>1, <1>2, <1>3, CounterSumStays DEF Accounted
<1>5. ASSUME NEW q \in Requests, pc'[q] \in PcAward PROVE ReadSum(q)'
  <2>1. call'[q] = call[q] /\ ReadSum(q)
    BY <1>5 DEF Accounted
  <2>2. PICK d : d = call[q].donor
    OBVIOUS
  <2> QED
    BY <1>1, <1>2, <1>3, <2>1, <2>2, ReadSumStays
<1> QED
  BY <1>4, <1>5 DEF Accounted

LEMMA AccountedByAccept ==
  ASSUME Base, Accounted, NEW r \in Requests, AcceptAward(r)
  PROVE  Accounted'
<1>1. PICK c \in Award : Begin(r, AfterRule(c.rule), c) /\ c.total_points = totalPoints[c.donor]
  BY BeginsWithAward DEF Base
<1>2. /\ UNCHANGED <<ledger, totalPoints, answer>> /\ ledger[r] = NULL
      /\ pc[r] = "idle" /\ pc'[r] = AfterRule(c.rule) /\ call'[r] = c
      /\ \A q \in Requests \ {r} : pc'[q] = pc[q] /\ call'[q] = call[q] /\ met'[q] = met[q]
      /\ pc'[r] \in PcAward
  BY <1>1 DEF AcceptAward, tables, Begin, Base, TypeOK, HandlersTyped, RowsAreOwned, AfterRule
<1>3. /\ \A d : Entries(d)' = Entries(d)
      /\ \A d : \A l \in Entries(d) : l \in Requests \ {r}
      /\ \A p, q \in Requests \ {r} : Overlapped(p, q)' <=> Overlapped(p, q)
  BY <1>2 DEF Entries, Overlapped
<1>4. \A d : \A l \in Entries(d) : Settled(l)' => Settled(l)
  <2> SUFFICES ASSUME NEW d, NEW l \in Entries(d), Settled(l)' PROVE Settled(l)
    OBVIOUS
  <2>1. l \in Requests \ {r} /\ ledger'[l] = ledger[l]
    BY <1>2, <1>3
  <2>2. \A q \in Entries(ledger[l].donor) : ~Overlapped(l, q)
    BY <1>3, <2>1 DEF Settled
  <2> QED
    BY <1>2, <2>1, <2>2 DEF Settled
<1>5. \A d \in Donors : CounterSum(d)'
  BY <1>2, <1>3, <1>4, CounterSumStays DEF Accounted
<1>6. ReadSum(r)'
  <2>1. PICK d \in Donors : d = c.donor
    BY DEF Award
  <2>2. PICK S \in SUBSET Entries(d) :
          /\ {l \in Entries(d) : Settled(l)} \subseteq S
          /\ totalPoints[d] = InitialPoints[d] + SumOfDeltas(S)
    BY DEF Accounted, CounterSum
  <2>3. SumOfDeltas(S)' = SumOfDeltas(S)
    BY <1>2, SumStays
  <2>4. /\ S \in SUBSET (Entries(d)' \ {r})
        /\ {l \in Entries(d)' : Settled(l)' /\ ~Overlapped(l, r)'} \subseteq S
        /\ call'[r].donor = d
        /\ call'[r].total_points = InitialPoints[d] + SumOfDeltas(S)'
    BY <1>1, <1>2, <1>3, <1>4, <2>1, <2>2, <2>3
  <2> QED
    BY <2>4 DEF ReadSum
<1>7. ASSUME NEW q \in Requests \ {r}, pc'[q] \in PcAward PROVE ReadSum(q)'
  <2>1. call'[q] = call[q] /\ ReadSum(q)
    BY <1>2, <1>7 DEF Accounted
  <2>2. PICK d : d = call[q].donor
    OBVIOUS
  <2> QED
    BY <1>2, <1>3, <1>4, <2>1, <2>2, ReadSumStays
<1> QED
  BY <1>2, <1>5, <1>6, <1>7 DEF Accounted

LEMMA AccountedByCreate ==
  ASSUME Base, Accounted, NEW r \in Requests, CreateEntry(r)
  PROVE  Accounted'
<1>1. /\ pc[r] = "create_entry" /\ pc'[r] = "set_total_points"
      /\ UNCHANGED <<call, met, answer, totalPoints>>
      /\ ledger[r] = NULL /\ answer[r] # "OK"
      /\ \A q \in Requests \ {r} : ledger'[q] = ledger[q] /\ pc'[q] = pc[q]
  BY DEF CreateEntry, Await, Base, TypeOK, HandlersTyped, RowsAreOwned, Accounted
<1>2. /\ \A d : \A l \in Entries(d) :
           /\ l \in Requests \ {r}
           /\ l \in Entries(d)' /\ ledger'[l] = ledger[l]
      /\ \A d : \A l \in Entries(d)' : l = r \/ l \in Entries(d)
      /\ \A p, q : Overlapped(p, q)' <=> Overlapped(p, q)
  BY <1>1 DEF Entries, Overlapped
<1>3. ~Settled(r)'
  BY <1>1 DEF Settled
<1>4. \A d : \A l \in Entries(d)' : Settled(l)' => l \in Entries(d) /\ Settled(l)
  <2> SUFFICES ASSUME NEW d, NEW l \in Entries(d)', Settled(l)'
               PROVE  l \in Entries(d) /\ Settled(l)
    OBVIOUS
  <2>1. l \in Requests \ {r} /\ l \in Entries(d) /\ ledger'[l] = ledger[l]
    BY <1>2, <1>3
  <2>2. \A q \in Entries(ledger[l].donor) : ~Overlapped(l, q)
    BY <1>2, <2>1 DEF Settled
  <2> QED
    BY <1>1, <2>1, <2>2 DEF Settled
<1>5. \A d \in Donors : CounterSum(d)'
  BY <1>1, <1>2, <1>4, CounterSumStays DEF Accounted
<1>6. ASSUME NEW q \in Requests, pc'[q] \in PcAward PROVE ReadSum(q)'
  <2>1. call'[q] = call[q] /\ ReadSum(q)
    BY <1>1, <1>6 DEF Accounted
  <2>2. PICK d : d = call[q].donor
    OBVIOUS
  <2> QED
    BY <1>2, <1>4, <2>1, <2>2, ReadSumStays
<1> QED
  BY <1>1, <1>5, <1>6 DEF Accounted

LEMMA AccountedBySet ==
  ASSUME Base, InFlightOverlap, Accounted, NEW r \in Requests, SetTotalPoints(r)
  PROVE  Accounted'
<1>1. /\ pc[r] = "set_total_points" /\ pc'[r] = "respond"
      /\ UNCHANGED <<ledger, call, met, answer>>
      /\ call[r] \in Award /\ ledger[r] = NewEntry(call[r])
      /\ answer[r] # "OK"
      /\ totalPoints' = [totalPoints EXCEPT ![call[r].donor] = BalanceAfter(call[r])]
      /\ \A q \in Requests \ {r} : pc'[q] = pc[q]
  BY DEF SetTotalPoints, NewTotal, Await, Base, TypeOK, HandlersTyped, LocalsAreRecorded,
         Accounted
<1>2. PICK d \in Donors : d = call[r].donor
  BY <1>1 DEF Award
<1>3. /\ ledger[r] # NULL /\ ledger[r].donor = d
      /\ ledger[r].points_delta = call[r].points_delta
  BY <1>1, <1>2, NewEntryIsRow, PointsNullAssumption DEF NewEntry
<1>4. /\ \A e : Entries(e)' = Entries(e)
      /\ \A e : \A l \in Entries(e) : l \in Requests /\ ledger'[l] = ledger[l]
      /\ r \in Entries(d)
      /\ \A e : e # d => r \notin Entries(e)
      /\ \A p, q : Overlapped(p, q)' <=> Overlapped(p, q)
  BY <1>1, <1>3 DEF Entries, Overlapped
<1>5. \A l \in Requests \ {r} : Settled(l)' => Settled(l)
  BY <1>1, <1>4 DEF Settled
<1>6. CounterSum(d)'
  <2>1. PICK S \in SUBSET (Entries(d) \ {r}) :
          /\ {l \in Entries(d) : Settled(l) /\ ~Overlapped(l, r)} \subseteq S
          /\ call[r].total_points = InitialPoints[d] + SumOfDeltas(S)
    BY <1>1, <1>2 DEF Accounted, ReadSum
  <2>2. /\ SumOfDeltas(S) \in Int
        /\ SumOfDeltas(S \cup {r}) = SumOfDeltas(S) + ledger[r].points_delta
    <3>1. S \in SUBSET Requests /\ r \notin S /\ \A l \in S : ledger[l] # NULL
      BY <2>1 DEF Entries
    <3> QED
      BY <1>3, <3>1, SumOfOneMore DEF Base
  <2>3. totalPoints'[d] = InitialPoints[d] + SumOfDeltas(S \cup {r})
    <3>1. call[r].points_delta \in Int /\ InitialPoints[d] \in Int
      BY <1>1, PointsAssumption DEF Award
    <3>2. totalPoints'[d] = call[r].total_points + call[r].points_delta
      BY <1>1, <1>2 DEF BalanceAfter, Base, TypeOK
    <3> QED
      BY <1>3, <2>1, <2>2, <3>1, <3>2
  <2>4. SumOfDeltas(S \cup {r})' = SumOfDeltas(S \cup {r})
    BY <1>1, SumStays
  <2>5. \A l \in Entries(d)' : Settled(l)' => l \in S \cup {r}
    <3> SUFFICES ASSUME NEW l \in Entries(d), Settled(l)', l # r PROVE l \in S
      BY <1>4
    <3>1. Settled(l) /\ ledger[l].donor = d
      BY <1>4, <1>5 DEF Entries
    <3>2. ~Overlapped(l, r)
      BY <1>4, <3>1 DEF Settled
    <3> QED
      BY <2>1, <3>1, <3>2
  <2>6. S \cup {r} \in SUBSET Entries(d)'
    BY <1>4, <2>1
  <2> QED
    BY <2>3, <2>4, <2>5, <2>6 DEF CounterSum
<1>7. ASSUME NEW e \in Donors, e # d PROVE CounterSum(e)'
  <2>1. totalPoints'[e] = totalPoints[e]
    BY <1>1, <1>2, <1>7 DEF Base, TypeOK
  <2>2. \A l \in Entries(e) : Settled(l)' => Settled(l)
    BY <1>4, <1>5, <1>7
  <2> QED
    BY <1>4, <2>1, <2>2, CounterSumStays DEF Accounted
<1>8. ASSUME NEW q \in Requests, pc'[q] \in PcAward PROVE ReadSum(q)'
  <2>1. q # r /\ call'[q] = call[q] /\ ReadSum(q) /\ pc[q] \in PcAward
    BY <1>1, <1>8 DEF Accounted
  <2>2. Overlapped(r, q)
    BY <1>1, <2>1 DEF InFlightOverlap, InFlight
  <2>3. PICK e : e = call[q].donor
    OBVIOUS
  <2>4. \A l \in Entries(e) : Settled(l)' /\ ~Overlapped(l, q)' => Settled(l) /\ ~Overlapped(l, q)
    BY <1>4, <1>5, <2>2
  <2> QED
    BY <1>4, <2>1, <2>3, <2>4, ReadSumStays
<1> QED
  BY <1>1, <1>6, <1>7, <1>8 DEF Accounted

LEMMA AccountedIsKept ==
  ASSUME Base, InFlightOverlap, Accounted, [Next]_vars
  PROVE  Accounted'
<1>0. TypeOK /\ LocalsAreRecorded /\ RowsAreOwned
  BY DEF Base
<1>1. CASE UNCHANGED vars
  <2>1. \A d : Entries(d)' = Entries(d)
    BY <1>1 DEF vars, Entries
  <2>2. \A l : Settled(l)' <=> Settled(l)
    BY <1>1, <2>1 DEF vars, Settled, Overlapped
  <2>3. \A d \in Donors : CounterSum(d)'
    BY <1>1, <2>1, <2>2, CounterSumStays DEF Accounted, vars
  <2>4. ASSUME NEW q \in Requests, pc'[q] \in PcAward PROVE ReadSum(q)'
    <3>1. ReadSum(q) /\ call'[q] = call[q]
      BY <1>1, <2>4 DEF Accounted, vars
    <3>2. PICK d : d = call[q].donor
      OBVIOUS
    <3>3. \A l : Overlapped(l, q)' <=> Overlapped(l, q)
      BY <1>1 DEF vars, Overlapped
    <3> QED
      BY <1>1, <2>1, <2>2, <3>1, <3>2, <3>3, ReadSumStays DEF vars
  <2> QED
    BY <1>1, <2>3, <2>4 DEF Accounted, vars
<1>2. ASSUME NEW r \in Requests, UNCHANGED tables,
             \E code \in Errors \cup {"OK"} : Respond(r, code),
             ledger[r] = NULL \/ pc[r] = "respond" \/ Respond(r, "DEPENDENCY_ERROR")
      PROVE  Accounted'
  <2>1. /\ pc'[r] = "done" /\ UNCHANGED met
        /\ \A q \in Requests \ {r} :
             pc'[q] = pc[q] /\ call'[q] = call[q] /\ answer'[q] = answer[q]
        /\ Respond(r, "DEPENDENCY_ERROR") => answer'[r] # "OK"
    BY <1>0, <1>2 DEF Respond, TypeOK, HandlersTyped
  <2> QED
    BY <1>2, <2>1, AccountedQuietly
<1>3. ASSUME NEW r \in Requests, RefuseAward(r) \/ CountAwards(r), ~Await(r, "create_entry")
      PROVE  Accounted'
  <2>1. ledger[r] = NULL
    BY <1>0, <1>3 DEF RefuseAward, CountAwards, RowsAreOwned
  <2> QED
    BY <1>0, <1>2, <1>3, <2>1, StepShape
<1>4. ASSUME NEW r \in Requests, CountAwards(r), Await(r, "create_entry") PROVE Accounted'
  <2>1. /\ UNCHANGED <<tables, met, call, answer>>
        /\ pc[r] = "count_awards" /\ pc'[r] = "create_entry"
        /\ \A q \in Requests \ {r} : pc'[q] = pc[q]
    BY <1>0, <1>4 DEF CountAwards, Await, TypeOK, HandlersTyped
  <2> QED
    BY <2>1, AccountedQuietly DEF Accounted
<1>5. ASSUME NEW r \in Requests, Answer(r) PROVE Accounted'
  BY <1>0, <1>2, <1>5, StepShape DEF Answer
<1>6. ASSUME NEW r \in Requests, FailPendingCall(r) PROVE Accounted'
  BY <1>0, <1>2, <1>6, StepShape DEF FailPendingCall, FailCall
<1>7. ASSUME NEW r \in Requests, RefuseAward(r) PROVE ~Await(r, "create_entry")
  BY <1>0, <1>7 DEF RefuseAward, Respond, Await, TypeOK, HandlersTyped
<1> QED
  BY <1>1, <1>3, <1>4, <1>5, <1>6, <1>7, AccountedByAccept, AccountedByCreate, AccountedBySet
  DEF Next

\* The counter may lose awards that overlapped another one or failed halfway
\* (points.service.ts:97-115), but no others; it counts no award twice and
\* invents none.
THEOREM CounterAlwaysAccounts == Spec => []CounterAccountsForAwards
<1>1. Init => Base /\ LedgerChains /\ Capping /\ Accounted
  BY BaseAtFirst, LedgerChainsAtFirst, CappingAtFirst, AccountedAtFirst
<1>2. Base /\ LedgerChains /\ Capping /\ Accounted /\ [Next]_vars
        => (Base /\ LedgerChains /\ Capping /\ Accounted)'
  BY BaseIsKept, CappingIsKept, AccountedIsKept DEF Capping
<1>3. Accounted => CounterAccountsForAwards
  BY DEF Accounted, CounterSum, CounterAccountsForAwards, Settled, Undisturbed
<1> QED
  BY <1>1, <1>2, <1>3, PTL DEF Spec

=============================================================================
