--------------------------- MODULE WorkflowSerial ---------------------------
(***************************************************************************)
(* The workflow engine when requests do not overlap and no call fails: the *)
(* setting its services are written for.  There it implements              *)
(* WorkflowToken.                                                          *)
(***************************************************************************)
EXTENDS WorkflowProgression, FiniteSets

Quiescent == \A r \in Requests : ~InFlight(r)

SerialNext ==
  \/ Quiescent /\ \E r \in Requests : Arrive(r) \/ CancelExternally(r)
  \/ \E r \in Requests : Proceed(r)

SerialSpec == Init /\ [][SerialNext]_vars

\* Completed step instances whose advance has moved the pointer, oldest first.
Settled(i) ==
  {a \in StepInstancesOf(i) :
     /\ stepInstances[a].completed_at
     /\ ~ \E r \in Requests : /\ pc[r] \in {"create_step_instance", "apply_advance"}
                              /\ call[r].outgoing = a}

\* 1 for the oldest settled step instance, 2 for the next one, ...
Place(i, a) ==
  Cardinality({b \in Settled(i) : stepInstances[b].created_at <= stepInstances[a].created_at})

CodeAt(i, n) == {stepInstances[a].result_code : a \in {b \in Settled(i) : Place(i, b) = n}}

\* The result codes of the settled step instances, in the order of created_at.
Trail(i) == [n \in 1..Cardinality(Settled(i)) |-> CHOOSE x \in CodeAt(i, n) : TRUE]

TokenClosed ==
  {i \in Requests : /\ instances[i] # NULL
                    /\ instances[i].completed_at \/ instances[i].cancelled_at}

Token == INSTANCE WorkflowToken WITH
  Instances <- Requests,
  Initial <- [t \in Templates |-> FindInitialStep(t)],
  template <- WalkTemplate,
  token <- WalkPointer,
  trail <- [i \in Requests |-> Trail(i)],
  closed <- TokenClosed

\* Served one at a time, the four writes of an advance are one move of the
\* token, and the result codes of the completed step instances, read in
\* creation order, are exactly the rules the token took.
MovesTheToken == Token!Spec

\* Between requests every instance has exactly one open step instance, and it
\* is the one the pointer names.  This includes finished instances: the step
\* instance of a terminal step is created open and nothing ever completes it.
OneOpenStep ==
  Quiescent => \A i \in Requests : instances[i] # NULL =>
    LET open == {a \in StepInstancesOf(i) : ~stepInstances[a].completed_at}
    IN /\ Cardinality(open) = 1
       /\ \A a \in open : stepInstances[a].workflow_step_id = instances[i].current_step_id

=============================================================================
