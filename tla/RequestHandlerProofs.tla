------------------------ MODULE RequestHandlerProofs ------------------------
(***************************************************************************)
(* Facts about handlers that hold for every service: their types are kept, *)
(* and two handlers that are in flight together have overlapped.           *)
(***************************************************************************)
EXTENDS RequestHandler, TLAPS

\* Whatever two handlers hold at the same time, they know it of each other.
InFlightOverlap ==
  \A q, r \in Requests : q # r /\ InFlight(q) /\ InFlight(r) => Overlapped(q, r)

-----------------------------------------------------------------------------

\* A handler that begins at one of its own calls keeps the types of all.
LEMMA BeginTyped ==
  ASSUME NEW CONSTANT Pcs, NEW CONSTANT Calls, HandlersTyped(Pcs, Calls),
         NEW r \in Requests, NEW next \in Pcs,
         \E c \in Calls : Begin(r, next, c)
  PROVE  HandlersTyped(Pcs, Calls)'
  BY DEF HandlersTyped, Begin

\* So does one that goes on to another call or to its response.
LEMMA AwaitTyped ==
  ASSUME NEW CONSTANT Pcs, NEW CONSTANT Calls, HandlersTyped(Pcs, Calls),
         NEW r \in Requests, NEW next \in Pcs \cup {"respond"}, Await(r, next)
  PROVE  HandlersTyped(Pcs, Calls)'
  BY DEF HandlersTyped, Await

LEMMA AwaitWithTyped ==
  ASSUME NEW CONSTANT Pcs, NEW CONSTANT Calls, HandlersTyped(Pcs, Calls),
         NEW r \in Requests, NEW next \in Pcs \cup {"respond"},
         \E c \in Calls : AwaitWith(r, next, c)
  PROVE  HandlersTyped(Pcs, Calls)'
  BY DEF HandlersTyped, AwaitWith

\* So does one that responds.
LEMMA RespondTyped ==
  ASSUME NEW CONSTANT Pcs, NEW CONSTANT Calls, HandlersTyped(Pcs, Calls),
         NEW r \in Requests, NEW code \in Errors \cup {"OK"}, Respond(r, code)
  PROVE  HandlersTyped(Pcs, Calls)'
  BY DEF HandlersTyped, Respond

-----------------------------------------------------------------------------

\* No handler is in flight at first.
LEMMA OverlapAtFirst == InitHandlers => InFlightOverlap
  BY DEF InitHandlers, InFlightOverlap, InFlight

\* One that begins notes all those in flight.
LEMMA BeginOverlaps ==
  ASSUME NEW CONSTANT Pcs, NEW CONSTANT Calls, HandlersTyped(Pcs, Calls), InFlightOverlap,
         NEW r \in Requests, NEW next, \E c \in Calls : Begin(r, next, c)
  PROVE  InFlightOverlap'
<1>1. /\ met' = [met EXCEPT ![r] = {q \in Requests : InFlight(q)}]
      /\ \A q \in Requests \ {r} : InFlight(q)' <=> InFlight(q)
      /\ pc[r] = "idle"
  BY DEF Begin, InFlight, HandlersTyped
<1>2. SUFFICES ASSUME NEW p \in Requests, NEW q \in Requests, p # q, InFlight(p)', InFlight(q)'
               PROVE  Overlapped(p, q)'
  BY DEF InFlightOverlap
<1>3. CASE p = r
  BY <1>1, <1>2, <1>3 DEF Overlapped, HandlersTyped
<1>4. CASE q = r
  BY <1>1, <1>2, <1>4 DEF Overlapped, HandlersTyped
<1>5. CASE p # r /\ q # r
  <2>1. Overlapped(p, q)
    BY <1>1, <1>2, <1>5 DEF InFlightOverlap
  <2> QED
    BY <1>1, <1>5, <2>1 DEF Overlapped, HandlersTyped
<1> QED
  BY <1>3, <1>4, <1>5

\* One that goes on or ends brings nobody into flight.
LEMMA GoingOnOverlaps ==
  ASSUME NEW CONSTANT Pcs, NEW CONSTANT Calls, HandlersTyped(Pcs, Calls), InFlightOverlap,
         NEW r \in Requests,
         \/ InFlight(r) /\ \E next \in Pcs \cup {"respond"} : Await(r, next)
         \/ InFlight(r) /\ \E next \in Pcs \cup {"respond"}, c \in Calls : AwaitWith(r, next, c)
         \/ \E code \in Errors \cup {"OK"} : Respond(r, code)
  PROVE  InFlightOverlap'
<1>1. /\ met' = met
      /\ \A q \in Requests : InFlight(q)' => InFlight(q)
  BY DEF Await, AwaitWith, Respond, InFlight, HandlersTyped
<1> QED
  BY <1>1 DEF InFlightOverlap, Overlapped

=============================================================================
