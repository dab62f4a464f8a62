----------------------------- MODULE AccountRoles -----------------------------
(***************************************************************************)
(* The roles of a user account and the principals that carry them.         *)
(*                                                                         *)
(* A session has a security context that holds a Principal, one object for *)
(* all the requests of the session.  The object knows the account's roles  *)
(* as they were when it was loaded, one id per class, and the active role, *)
(* which every request overwrites on its way in.  Services then ask it for *)
(* the id of the active role.  A request that gives the account a new role *)
(* loads a new principal when it has committed, and replaces the one of    *)
(* the session: two steps, which the refreshes of other requests of the    *)
(* session may come between.                                               *)
(*                                                                         *)
(* Guarded classes (worker, employer, sponsor) are created after looking   *)
(* for a role of that class; Unguarded ones (consumer, provider) are not.  *)
(* An auditor is created by an administrator who accepts a request to      *)
(* become one; the administrators' own sessions are not modelled.          *)
(***************************************************************************)
EXTENDS Naturals, FiniteSets

CONSTANTS
  Accounts, Sessions,
  Threads,             \* what serves the requests
  Guarded, Unguarded,  \* classes of roles that a user may give to itself
  RoleIds,             \* identifiers of roles, besides those of "Authenticated"
  Asks,                \* identifiers of auditors' requests
  Principals,          \* the objects
  None

Classes == {"Authenticated", "Auditor"} \union Guarded \union Unguarded

ASSUME ClassesAssumption ==
  /\ {"Authenticated", "Auditor"} \cap (Guarded \union Unguarded) = {}
  /\ Guarded \cap Unguarded = {}

\* Every account has its role as authenticated user, with the account's identity.
Ids == Accounts \union RoleIds
Roles == [account : Accounts, class : Classes]
AskRows == [account : Accounts, accepted : BOOLEAN]

ASSUME DisjointAssumption == Accounts \cap RoleIds = {}
ASSUME NoneAssumption ==
  None \notin Roles \union AskRows \union Ids \union Classes \union Sessions \union Principals

VARIABLES
  role,      \* the rows of the roles
  ask,       \* the rows of the auditors' requests
  owner,     \* the account that is signed in to each session
  context,   \* the principal of each session
  roleMap,   \* roleMap[p][k]: the id of the role of class k that principal p knows
  active,    \* the active role of each principal
  stage,     \* where the request of each thread is
  session,   \* the session that it belongs to
  acting,    \* the class of the role that its controller is for
  gives,     \* the class of the role that it creates, or "Auditor" to ask for it
  held,      \* its principal
  used,      \* the id of the active role that its service was told
  fresh,     \* the principal that it has loaded to replace its session's
  beside     \* history: the sessions with requests in flight at the same time as it

db == <<role, ask>>
heap == <<owner, context, roleMap, active>>
request == <<session, acting, gives, held, used, fresh, beside>>
vars == <<role, ask, owner, context, roleMap, active,
          stage, session, acting, gives, held, used, fresh, beside>>

Stages == {"idle", "arrived", "authorised", "committed", "loaded"}
RoleMaps == [Classes -> Ids \union {None}]

TypeOK ==
  /\ role \in [Ids -> Roles \union {None}]
  /\ ask \in [Asks -> AskRows \union {None}]
  /\ owner \in [Sessions -> Accounts \union {None}]
  /\ context \in [Sessions -> Principals \union {None}]
  /\ roleMap \in [Principals -> RoleMaps]
  /\ active \in [Principals -> Classes]
  /\ stage \in [Threads -> Stages]
  /\ session \in [Threads -> Sessions \union {None}]
  /\ acting \in [Threads -> Classes \union {None}]
  /\ gives \in [Threads -> Classes \union {None}]
  /\ held \in [Threads -> Principals \union {None}]
  /\ used \in [Threads -> Ids \union {None}]
  /\ fresh \in [Threads -> Principals \union {None}]
  /\ beside \in [Threads -> SUBSET Sessions]

-----------------------------------------------------------------------------
\* A mutant of RolesOf: the account is left out of the query.
RolesOfAnyone(a) == {r \in Ids : role[r] # None}

RolesOf(a) == {r \in Ids : role[r] # None /\ role[r].account = a}
RolesOfClass(a, k) == {r \in RolesOf(a) : role[r].class = k}
AsksOf(a) == {q \in Asks : ask[q] # None /\ ask[q].account = a}

\* Which of several roles of one class it ends up with, the query decides.
Loads(a) ==
  {m \in [Classes -> RolesOf(a) \union {None}] : \A k \in Classes :
     IF RolesOfClass(a, k) = {} THEN m[k] = None ELSE m[k] \in RolesOfClass(a, k)}

InUse(p) ==
  \/ \E s \in Sessions : context[s] = p
  \/ \E t \in Threads : p \in {held[t], fresh[t]}

(***************************************************************************)
(* loadUserByUsername: a new object, with no role active but               *)
(* "Authenticated".                                                        *)
(***************************************************************************)
LoadPrincipal(p, a) ==
  /\ ~InUse(p)
  /\ \E m \in Loads(a) : roleMap' = [roleMap EXCEPT ![p] = m]
  /\ active' = [active EXCEPT ![p] = "Authenticated"]

SignIn(s, a, p) ==
  /\ owner[s] = None
  /\ LoadPrincipal(p, a)
  /\ owner' = [owner EXCEPT ![s] = a]
  /\ context' = [context EXCEPT ![s] = p]
  /\ UNCHANGED <<role, ask, stage, request>>

Busy == {u \in Threads : stage[u] # "idle"}

\* The requests in flight meet one of session s, and it meets them.
Meet(t, s) ==
  beside' = [u \in Threads |-> IF u = t THEN {session[x] : x \in Busy}
                              ELSE IF u \in Busy THEN beside[u] \union {s} ELSE beside[u]]

(***************************************************************************)
(* handleRequest, up to setActiveRole: acting class k needs the principal  *)
(* of the session to have it.  Only authenticated users give roles.        *)
(***************************************************************************)
Arrive(t, s, k, g) ==
  LET p == context[s] IN
  /\ stage[t] = "idle" /\ owner[s] # None
  /\ roleMap[p][k] # None
  /\ g # None => k = "Authenticated"
  /\ g # "Authenticated"
  /\ active' = [active EXCEPT ![p] = k]
  /\ stage' = [stage EXCEPT ![t] = "arrived"]
  /\ session' = [session EXCEPT ![t] = s]
  /\ acting' = [acting EXCEPT ![t] = k]
  /\ gives' = [gives EXCEPT ![t] = g]
  /\ held' = [held EXCEPT ![t] = p]
  /\ Meet(t, s)
  /\ UNCHANGED <<role, ask, owner, context, roleMap, used, fresh>>

End(t) ==
  /\ stage' = [stage EXCEPT ![t] = "idle"]
  /\ session' = [session EXCEPT ![t] = None]
  /\ acting' = [acting EXCEPT ![t] = None]
  /\ gives' = [gives EXCEPT ![t] = None]
  /\ held' = [held EXCEPT ![t] = None]
  /\ used' = [used EXCEPT ![t] = None]
  /\ fresh' = [fresh EXCEPT ![t] = None]
  /\ beside' = [beside EXCEPT ![t] = {}]

\* Not authorised, errors or a panic, even in onSuccess: nothing (more) is done.
Fail(t) == stage[t] \notin {"idle", "loaded"} /\ End(t) /\ UNCHANGED <<db, heap>>

Account(t) == owner[session[t]]

\* A mutant of Grants: the roles that the account has are not looked at.
GrantsAnything(t) == TRUE

(***************************************************************************)
(* authorise of the services that create roles: no role of a guarded class *)
(* yet, and no other request to be an auditor.                             *)
(***************************************************************************)
Grants(t) ==
  /\ gives[t] \in Guarded => RolesOfClass(Account(t), gives[t]) = {}
  /\ gives[t] = "Auditor" => AsksOf(Account(t)) = {}

\* A mutant of ActiveRoleId: the id of any role of the principal.
AnyRoleId(p) == CHOOSE r \in Ids : \E k \in Classes : roleMap[p][k] = r

ActiveRoleId(p) == roleMap[p][active[p]]

\* The services that give roles go by the account; the others ask for the role.
Authorise(t) ==
  /\ stage[t] = "arrived"
  /\ Grants(t)
  /\ used' = [used EXCEPT ![t] = IF gives[t] = None THEN ActiveRoleId(held[t]) ELSE None]
  /\ stage' = [stage EXCEPT ![t] = "authorised"]
  /\ UNCHANGED <<db, heap, session, acting, gives, held, fresh, beside>>

\* A request that neither gives a role nor refreshes the session.
Serve(t) ==
  stage[t] = "authorised" /\ gives[t] = None /\ End(t) /\ UNCHANGED <<db, heap>>

\* One sequence gives the identifiers of roles and asks.
Given == {r \in RoleIds : role[r] # None} \union {q \in Asks : ask[q] # None}

CommitRole(t, r) ==
  /\ stage[t] = "authorised" /\ gives[t] \in Guarded \union Unguarded
  /\ r \in RoleIds \ Given
  /\ role' = [role EXCEPT ![r] = [account |-> Account(t), class |-> gives[t]]]
  /\ stage' = [stage EXCEPT ![t] = "committed"]
  /\ UNCHANGED <<ask, heap, request>>

CommitAsk(t, q) ==
  /\ stage[t] = "authorised" /\ gives[t] = "Auditor"
  /\ q \in Asks \ Given
  /\ ask' = [ask EXCEPT ![q] = [account |-> Account(t), accepted |-> FALSE]]
  /\ stage' = [stage EXCEPT ![t] = "committed"]
  /\ UNCHANGED <<role, heap, request>>

(***************************************************************************)
(* Services that give no role refresh the session too: edits of accounts,  *)
(* roles, cards and audit records, an application, who leaves a thread.    *)
(* What they commit is in the modules of the features.                     *)
(***************************************************************************)
Edits(t) == stage[t] = "authorised" /\ gives[t] = None

(***************************************************************************)
(* onSuccess: handleUpdate loads the account's roles as they are now, then *)
(* replaces the authentication of the session's context.                   *)
(***************************************************************************)
HandleUpdate(t, p) ==
  /\ stage[t] = "committed" \/ Edits(t)
  /\ LoadPrincipal(p, Account(t))
  /\ fresh' = [fresh EXCEPT ![t] = p]
  /\ stage' = [stage EXCEPT ![t] = "loaded"]
  /\ UNCHANGED <<db, owner, context, session, acting, gives, held, used, beside>>

\* A mutant of SetAuthentication: the session keeps its principal.
KeepAuthentication(t) == UNCHANGED context

SetAuthentication(t) == context' = [context EXCEPT ![session[t]] = fresh[t]]

Refresh(t) ==
  /\ stage[t] = "loaded"
  /\ SetAuthentication(t)
  /\ End(t)
  /\ UNCHANGED <<db, owner, roleMap, active>>

(***************************************************************************)
(* AdministratorAuditorUpdateService.update: whatever the state of the     *)
(* request, the account gets another role.                                 *)
(***************************************************************************)
Accept(q, r) ==
  /\ ask[q] # None
  /\ r \in RoleIds \ Given
  /\ ask' = [ask EXCEPT ![q] = [account |-> ask[q].account, accepted |-> TRUE]]
  /\ role' = [role EXCEPT ![r] = [account |-> ask[q].account, class |-> "Auditor"]]
  /\ UNCHANGED <<heap, stage, request>>

Init ==
  /\ role = [r \in Ids |-> IF r \in Accounts
                           THEN [account |-> r, class |-> "Authenticated"] ELSE None]
  /\ ask = [q \in Asks |-> None]
  /\ owner = [s \in Sessions |-> None]
  /\ context = [s \in Sessions |-> None]
  /\ roleMap = [p \in Principals |-> [k \in Classes |-> None]]
  /\ active = [p \in Principals |-> "Authenticated"]
  /\ stage = [t \in Threads |-> "idle"]
  /\ session = [t \in Threads |-> None]
  /\ acting = [t \in Threads |-> None]
  /\ gives = [t \in Threads |-> None]
  /\ held = [t \in Threads |-> None]
  /\ used = [t \in Threads |-> None]
  /\ fresh = [t \in Threads |-> None]
  /\ beside = [t \in Threads |-> {}]

Next ==
  \/ \E s \in Sessions, a \in Accounts, p \in Principals : SignIn(s, a, p)
  \/ \E t \in Threads, s \in Sessions, k \in Classes, g \in Classes \union {None} :
       Arrive(t, s, k, g)
  \/ \E t \in Threads : Fail(t) \/ Authorise(t) \/ Serve(t) \/ Refresh(t)
  \/ \E t \in Threads, r \in RoleIds : CommitRole(t, r)
  \/ \E t \in Threads, q \in Asks : CommitAsk(t, q)
  \/ \E t \in Threads, p \in Principals : HandleUpdate(t, p)
  \/ \E q \in Asks, r \in RoleIds : Accept(q, r)

Spec == Init /\ [][Next]_vars

-----------------------------------------------------------------------------
\* Principal p knows nothing but roles of account a, and one of them is active.
Represents(p, a) ==
  /\ p # None /\ a # None
  /\ \A k \in Classes : roleMap[p][k] # None =>
       role[roleMap[p][k]] = [account |-> a, class |-> k]
  /\ roleMap[p][active[p]] # None

(***************************************************************************)
(* The inductive invariant: whoever signs in, switches roles and refreshes *)
(* at the same time, the principals of a session and of its requests       *)
(* represent its account, an active role is always one they have           *)
(* (Principal.getActiveRoleId asserts it), and the ids that services are   *)
(* told are roles of that account.                                         *)
(***************************************************************************)
IInv ==
  /\ TypeOK
  /\ \A a \in Accounts : role[a] = [account |-> a, class |-> "Authenticated"]
  /\ \A s \in Sessions : IF owner[s] = None THEN context[s] = None
                                            ELSE Represents(context[s], owner[s])
  /\ \A t \in Threads :
       \/ /\ stage[t] = "idle"
          /\ session[t] = None /\ held[t] = None /\ fresh[t] = None /\ used[t] = None
       \/ /\ stage[t] # "idle" /\ session[t] # None
          /\ Represents(held[t], Account(t))
          /\ used[t] # None => role[used[t]] # None /\ role[used[t]].account = Account(t)
          /\ IF stage[t] = "loaded" THEN Represents(fresh[t], Account(t)) ELSE fresh[t] = None

(***************************************************************************)
(* Overlap is never excluded.  The requests that the properties speak of   *)
(* have met no other of their session, or none of their account.           *)
(***************************************************************************)
AloneInSession(t) == session[t] \notin beside[t]
AloneInAccount(t) == \A s \in beside[t] : owner[s] # Account(t)

(***************************************************************************)
(* A service is told the id of a role of its controller's class, not of    *)
(* the class that an earlier request of the session, or one of another     *)
(* session of the account, has made active: only a request of the session  *)
(* that was in flight at the same time can switch the role.                *)
(***************************************************************************)
ActsInRole ==
  \A t \in Threads : used[t] # None /\ AloneInSession(t) => role[used[t]].class = acting[t]

(***************************************************************************)
(* A guarded role is the account's first of its class, and its ask to be   *)
(* an auditor the first, unless the request that creates it was in flight  *)
(* together with another of the account: what authorise had found lasts    *)
(* until the commit, whatever had overlapped before.                       *)
(***************************************************************************)
GivesTheFirst ==
  \A t \in Threads : stage[t] = "authorised" /\ stage'[t] = "committed" /\ AloneInAccount(t) =>
    /\ gives[t] \in Guarded => Cardinality(RolesOfClass(Account(t), gives[t])') = 1
    /\ gives[t] = "Auditor" => Cardinality(AsksOf(Account(t))') = 1
GivenOnce == [][GivesTheFirst]_vars

(***************************************************************************)
(* A refresh leaves its session with a principal that knows every role     *)
(* that the user has created, from this session or another, if no request  *)
(* of the account overlapped it; and with one that has forgotten none of   *)
(* the session's roles if no request of the session did.                   *)
(***************************************************************************)
KnowsOwnRoles ==
  \A t \in Threads : stage[t] = "loaded" /\ stage'[t] = "idle" =>
    LET after == roleMap[context'[session[t]]] IN
    /\ AloneInAccount(t) => \A k \in Guarded \union Unguarded :
         RolesOfClass(Account(t), k) # {} => after[k] # None
    /\ AloneInSession(t) => \A k \in Classes :
         roleMap[context[session[t]]][k] # None => after[k] # None
RefreshedSessionsKnow == [][KnowsOwnRoles]_vars

=============================================================================
