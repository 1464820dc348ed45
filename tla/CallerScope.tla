----------------------------- MODULE CallerScope ----------------------------
(***************************************************************************)
(* Who is calling, and for whom he may act.  A handler of a protected      *)
(* route reads the session, the caller's users row, and then in parallel   *)
(* his donor row, his courier row and his memberships.  From then on it    *)
(* acts on what it has read, while somebody else hires, moves and removes  *)
(* people.                                                                 *)
(***************************************************************************)
EXTENDS Tables

CONSTANTS
  Callers,         \* the auth users, each with at most one users row
  Orgs, Branches,
  AccountStates    \* what users, donors, couriers and memberships may hold

Membership == [organizationId : Orgs, branchId : Branches \cup {NULL}]

\* A users row with what hangs from it.
Account == [donor : BOOLEAN, courier : BOOLEAN, memberships : SUBSET Membership]

ASSUME AccountsAssumption ==
  /\ AccountStates \subseteq [Callers -> Account \cup {NULL}]
  /\ NULL \notin Account
  /\ NULL \notin Orgs
  /\ NULL \notin Callers

VARIABLE accounts   \* users, donors, couriers and memberships, by auth user

ContextReads == {"donor", "courier", "memberships"}

\* getCurrentContext: what it still waits for and what it has got.
Context ==
  [user : Callers, pending : SUBSET ContextReads,
   donor : BOOLEAN, courier : BOOLEAN, memberships : SUBSET Membership]

PcScope == {"find_user", "load_context", "authed", "find_me"}

-----------------------------------------------------------------------------
(* getAuthUser, getCurrentContext                                          *)

RefuseSession(r) ==
  /\ pc[r] = "idle"
  /\ Respond(r, "UNAUTHENTICATED")
  /\ UNCHANGED accounts

GetAuthUser(r) ==
  /\ \E u \in Callers :
       Begin(r, "find_user",
             [user |-> u, pending |-> ContextReads,
              donor |-> FALSE, courier |-> FALSE, memberships |-> {}])
  /\ UNCHANGED accounts

\* A session without a users row is no session.
FindUser(r, next) ==
  \/ accounts[call[r].user] = NULL /\ Respond(r, "UNAUTHENTICATED")
  \/ accounts[call[r].user] # NULL /\ Await(r, next)

FindUserByAuthId(r) ==
  /\ pc[r] = "find_user"
  /\ FindUser(r, "load_context")
  /\ UNCHANGED accounts

\* What hangs from a users row, nothing once the row is gone.
Owned(account) ==
  IF account = NULL THEN [donor |-> FALSE, courier |-> FALSE, memberships |-> {}] ELSE account

\* One of the parallel reads returns.
Loaded(c, read, account) ==
  [c EXCEPT !.pending = @ \ {read},
            !.donor = IF read = "donor" THEN account.donor ELSE @,
            !.courier = IF read = "courier" THEN account.courier ELSE @,
            !.memberships = IF read = "memberships" THEN account.memberships ELSE @]

LoadContext(r) ==
  /\ pc[r] = "load_context"
  /\ \E read \in call[r].pending :
       AwaitWith(r, IF call[r].pending = {read} THEN "authed" ELSE "load_context",
                 Loaded(call[r], read, Owned(accounts[call[r].user])))
  /\ UNCHANGED accounts

-----------------------------------------------------------------------------
(* withAuth, withDonor, withCourier, withOps                               *)

\* Mutant: the caller acts for every organization he can name.
CollectOrganizationIds_Any(c) == Orgs

CollectOrganizationIds(c) == {m.organizationId : m \in c.memberships}

RequireDonor(r) == pc[r] = "authed" /\ call[r].donor
RequireCourier(r) == pc[r] = "authed" /\ call[r].courier
RequireOps(r) == pc[r] = "authed" /\ CollectOrganizationIds(call[r]) # {}

\* The gate of whichever route was called stays shut.
RefuseForbidden(r) ==
  /\ pc[r] = "authed"
  /\ ~ (RequireDonor(r) /\ RequireCourier(r) /\ RequireOps(r))
  /\ Respond(r, "FORBIDDEN")
  /\ UNCHANGED accounts

\* parseJsonBody, behind whichever gate.
RefuseInvalid(r) ==
  /\ RequireDonor(r) \/ RequireCourier(r) \/ RequireOps(r)
  /\ Respond(r, "VALIDATION_ERROR")
  /\ UNCHANGED accounts

-----------------------------------------------------------------------------
(* GET /me, /donor/profile, /courier/profile                               *)

\* The wrapper's context is dropped and read anew.
GetMe(r) ==
  /\ pc[r] = "authed"
  /\ Await(r, "find_me")
  /\ UNCHANGED accounts

\* The reads that follow only fill the answer.
RequireUser(r) ==
  /\ pc[r] = "find_me"
  /\ FindUser(r, "respond")
  /\ UNCHANGED accounts

\* Missing profile or contact rows are shown as null.
GetDonorProfile(r) ==
  /\ RequireDonor(r)
  /\ Await(r, "respond")
  /\ UNCHANGED accounts

\* The courier row is read again, and may be gone by now.
GetCourierProfile(r) ==
  LET account == Owned(accounts[call[r].user])
  IN /\ RequireCourier(r)
     /\ \/ account.courier /\ Await(r, "respond")
        \/ ~account.courier /\ Respond(r, "DEPENDENCY_ERROR")
     /\ UNCHANGED accounts

-----------------------------------------------------------------------------

\* No code here writes users, donors, couriers or memberships.
EditAccounts ==
  /\ accounts' \in AccountStates \ {accounts}
  /\ UNCHANGED handlers

NextScope(r) ==
  \/ RefuseSession(r) \/ GetAuthUser(r) \/ FindUserByAuthId(r) \/ LoadContext(r)
  \/ RefuseForbidden(r) \/ RefuseInvalid(r)
  \/ GetMe(r) \/ RequireUser(r) \/ GetDonorProfile(r) \/ GetCourierProfile(r)

-----------------------------------------------------------------------------
(* What a service does with the organizations of its caller.               *)

\* findByIdInOrgs, of every table with an organization.
InOrgs(table, orgs) == {l \in Rows(table) : table[l].organization_id \in orgs}

=============================================================================
