--------------------------- MODULE RequestHandler ---------------------------
(***************************************************************************)
(* What the route handlers of every service share.  A handler runs between *)
(* awaited repository calls; other handlers run while it is suspended.     *)
(* There are no transactions: a call that fails ends the handler with an   *)
(* error and leaves what it wrote before.                                  *)
(*                                                                         *)
(* A service keeps its tables in variables of its own and gives each table *)
(* one possible row per request, since a handler inserts at most one.      *)
(***************************************************************************)
CONSTANTS
  Requests,   \* the HTTP requests that may arrive
  NULL        \* SQL null, a missing row, an omitted body field

ASSUME RequestsAssumption == NULL \notin Requests

VARIABLES
  pc,       \* the awaited call each handler is suspended at
  call,     \* what each handler keeps across its awaits
  answer,   \* the response each request got
  met       \* history: the requests in flight when each request began

handlers == <<pc, call, answer, met>>

Errors ==
  {"UNAUTHENTICATED", "FORBIDDEN", "NOT_FOUND", "VALIDATION_ERROR", "BAD_REQUEST",
   "CONFLICT", "DEPENDENCY_ERROR"}

InitHandlers ==
  /\ pc = [r \in Requests |-> "idle"]
  /\ call = [r \in Requests |-> NULL]
  /\ answer = [r \in Requests |-> "none"]
  /\ met = [r \in Requests |-> {}]

HandlersTyped(Pcs, Calls) ==
  /\ pc \in [Requests -> Pcs \cup {"idle", "respond", "done"}]
  /\ call \in [Requests -> Calls \cup {NULL}]
  /\ answer \in [Requests -> Errors \cup {"none", "OK"}]
  /\ met \in [Requests -> SUBSET Requests]

InFlight(r) == pc[r] \notin {"idle", "done"}

Overlapped(q, r) == q \in met[r] \/ r \in met[q]

\* The handler has its first answers from the database and goes on.
Begin(r, next, c) ==
  /\ pc[r] = "idle"
  /\ pc' = [pc EXCEPT ![r] = next]
  /\ call' = [call EXCEPT ![r] = c]
  /\ met' = [met EXCEPT ![r] = {q \in Requests : InFlight(q)}]
  /\ UNCHANGED answer

Await(r, next) ==
  /\ pc' = [pc EXCEPT ![r] = next]
  /\ UNCHANGED <<call, answer, met>>

\* It goes on with what it has read or computed.
AwaitWith(r, next, c) ==
  /\ pc' = [pc EXCEPT ![r] = next]
  /\ call' = [call EXCEPT ![r] = c]
  /\ UNCHANGED <<answer, met>>

\* The handler ends: its locals are gone.
Respond(r, code) ==
  /\ pc' = [pc EXCEPT ![r] = "done"]
  /\ answer' = [answer EXCEPT ![r] = code]
  /\ call' = [call EXCEPT ![r] = NULL]
  /\ UNCHANGED met

\* The pending call fails or the process dies.  At "idle" it is a read before
\* the first write; at "respond" the last write was committed and only its
\* acknowledgement is lost.
FailCall(r) == pc[r] # "done" /\ Respond(r, "DEPENDENCY_ERROR")

=============================================================================
