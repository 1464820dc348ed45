--------------------------- MODULE WorkflowToken ---------------------------
(***************************************************************************)
(* What a caller of the workflow engine has in mind: an instance is a      *)
(* token on one step, an advance moves it along one active rule and writes *)
(* that rule at the end of the instance's trail, and a token on a terminal *)
(* step, or one cancelled by somebody else, never moves again.             *)
(***************************************************************************)
EXTENDS Integers, Sequences

CONSTANTS
  Instances, Templates,
  Rules, RuleTemplate, RuleFrom, RuleTo, RuleActive,
  Initial,           \* for each template, the steps a token may start on
  TerminalFlag

VARIABLES
  template,   \* set of at most one template per instance
  token,      \* set of at most one step per instance
  trail,      \* the rules fired so far, oldest first
  closed      \* the instances that are over

token_vars == <<template, token, trail, closed>>

Init ==
  /\ template = [i \in Instances |-> {}]
  /\ token = [i \in Instances |-> {}]
  /\ trail = [i \in Instances |-> <<>>]
  /\ closed = {}

Open(i) ==
  /\ template[i] = {}
  /\ \E t \in Templates : \E s \in Initial[t] :
       /\ template' = [template EXCEPT ![i] = {t}]
       /\ token' = [token EXCEPT ![i] = {s}]
  /\ UNCHANGED <<trail, closed>>

Fire(i, x) ==
  /\ i \notin closed
  /\ RuleActive[x] /\ RuleTemplate[x] \in template[i] /\ RuleFrom[x] \in token[i]
  /\ token' = [token EXCEPT ![i] = {RuleTo[x]}]
  /\ trail' = [trail EXCEPT ![i] = Append(@, x)]
  /\ closed' = IF TerminalFlag[RuleTo[x]] THEN closed \cup {i} ELSE closed
  /\ UNCHANGED template

Cancel(i) ==
  /\ template[i] # {} /\ i \notin closed
  /\ closed' = closed \cup {i}
  /\ UNCHANGED <<template, token, trail>>

Next ==
  \/ \E i \in Instances : Open(i) \/ Cancel(i)
  \/ \E i \in Instances, x \in Rules : Fire(i, x)

Spec == Init /\ [][Next]_token_vars

\* The rules of path are active rules of template t.  The first leaves an initial
\* step, each leaves the step its predecessor leads to, the last leads to the
\* token's step s, and none but the last leads to a terminal step.
IsPath(t, s, path) ==
  /\ path \in Seq({x \in Rules : RuleActive[x] /\ RuleTemplate[x] \in t})
  /\ path = <<>> => \A u \in t : s \subseteq Initial[u]
  /\ path # <<>> => /\ \A u \in t : RuleFrom[path[1]] \in Initial[u]
                    /\ s = {RuleTo[path[Len(path)]]}
  /\ \A n \in 2..Len(path) : /\ RuleFrom[path[n]] = RuleTo[path[n - 1]]
                             /\ ~TerminalFlag[RuleTo[path[n - 1]]]

\* A trail is a path through the graph of its token's template, from an initial
\* step to where the token is, and a token that came to a terminal step is over.
TrailsArePaths ==
  \A i \in Instances :
    /\ IsPath(template[i], token[i], trail[i])
    /\ i \notin closed /\ trail[i] # <<>> => ~TerminalFlag[RuleTo[trail[i][Len(trail[i])]]]

=============================================================================
