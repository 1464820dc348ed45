---------------------------- MODULE WorkflowWalk ----------------------------
(***************************************************************************)
(* What the workflow engine promises whatever requests overlap or fail:    *)
(* each instance walks the graph of its template.  A step is reached only  *)
(* through an active rule from a step reached before, the pointer only     *)
(* rests on reached steps, and reaching a terminal step closes the         *)
(* instance for good.                                                      *)
(***************************************************************************)
CONSTANTS
  Instances, Templates,
  Rules, RuleTemplate, RuleFrom, RuleTo, RuleActive,
  Initial,           \* for each template, the steps an instance may start at
  TerminalFlag       \* for each step, whether it ends the workflow

VARIABLES
  template,   \* set of at most one template per instance
  reached,    \* steps reached by each instance
  pointer,    \* set of at most one current step per instance
  closed      \* instances that were completed

walk == <<template, reached, pointer, closed>>

Init ==
  /\ template = [i \in Instances |-> {}]
  /\ reached = [i \in Instances |-> {}]
  /\ pointer = [i \in Instances |-> {}]
  /\ closed = {}

Open(i) ==
  /\ template[i] = {}
  /\ \E t \in Templates : \E s \in Initial[t] :
       /\ template' = [template EXCEPT ![i] = {t}]
       /\ reached' = [reached EXCEPT ![i] = {s}]
       /\ pointer' = [pointer EXCEPT ![i] = {s}]
  /\ UNCHANGED closed

Reach(i) ==
  /\ \E x \in Rules :
       /\ RuleActive[x]
       /\ RuleTemplate[x] \in template[i]
       /\ RuleFrom[x] \in reached[i]
       /\ reached' = [reached EXCEPT ![i] = @ \cup {RuleTo[x]}]
  /\ UNCHANGED <<template, pointer, closed>>

Rest(i) ==
  /\ \E s \in reached[i] :
       /\ pointer' = [pointer EXCEPT ![i] = {s}]
       /\ closed' = IF TerminalFlag[s] THEN closed \cup {i} ELSE closed
  /\ UNCHANGED <<template, reached>>

Next == \E i \in Instances : Open(i) \/ Reach(i) \/ Rest(i)

Spec == Init /\ [][Next]_walk

=============================================================================
