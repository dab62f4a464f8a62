-------------------------- MODULE AccountRolesProofs --------------------------
(***************************************************************************)
(* Proofs about AccountRoles, for any accounts, sessions, threads and      *)
(* classes: the invariant, however requests overlap, and what holds for    *)
(* the requests that met no other of their session, or of their account.   *)
(***************************************************************************)
EXTENDS AccountRoles, FiniteSetTheorems, TLAPS

-----------------------------------------------------------------------------
(***************************************************************************)
(* Types.                                                                  *)
(***************************************************************************)
LEMMA NoneIsNone ==
  /\ None \notin Roles /\ None \notin AskRows /\ None \notin Ids
  /\ None \notin Classes /\ None \notin Sessions /\ None \notin Principals
BY NoneAssumption

LEMMA NoneIsNoAccount == None \notin Accounts
BY NoneAssumption DEF Ids

LEMMA RoleRow ==
  ASSUME NEW a \in Accounts, NEW k \in Classes
  PROVE  [account |-> a, class |-> k] \in Roles
BY DEF Roles

\* What an account loads is its own.
LEMMA LoadedMaps ==
  ASSUME TypeOK, NEW a \in Accounts, NEW m \in Loads(a)
  PROVE  /\ m \in RoleMaps
         /\ \A k \in Classes : m[k] # None => role[m[k]] = [account |-> a, class |-> k]
<1>1. m \in [Classes -> RolesOf(a) \union {None}]
  BY DEF Loads
<1>2. RolesOf(a) \subseteq Ids
  BY DEF RolesOf
<1>3. m \in RoleMaps
  BY <1>1, <1>2 DEF RoleMaps
<1>4. ASSUME NEW k \in Classes, m[k] # None
      PROVE  role[m[k]] = [account |-> a, class |-> k]
  <2>1. m[k] \in RolesOfClass(a, k)
    BY <1>4 DEF Loads
  <2>2. m[k] \in Ids /\ role[m[k]] # None /\ role[m[k]].account = a /\ role[m[k]].class = k
    BY <2>1 DEF RolesOfClass, RolesOf
  <2>3. role[m[k]] \in Roles
    BY <2>2 DEF TypeOK
  <2> QED BY <2>2, <2>3 DEF Roles
<1> QED BY <1>3, <1>4

-----------------------------------------------------------------------------
(***************************************************************************)
(* The invariant, in the parts that the steps preserve one by one.         *)
(***************************************************************************)
SessionOK(s) ==
  IF owner[s] = None THEN context[s] = None ELSE Represents(context[s], owner[s])

ThreadOK(t) ==
  \/ /\ stage[t] = "idle"
     /\ session[t] = None /\ held[t] = None /\ fresh[t] = None /\ used[t] = None
  \/ /\ stage[t] # "idle" /\ session[t] # None
     /\ Represents(held[t], Account(t))
     /\ used[t] # None => role[used[t]] # None /\ role[used[t]].account = Account(t)
     /\ IF stage[t] = "loaded" THEN Represents(fresh[t], Account(t)) ELSE fresh[t] = None

BaseRole(a) == role[a] = [account |-> a, class |-> "Authenticated"]

LEMMA Parts ==
  IInv <=> /\ TypeOK
           /\ \A a \in Accounts : BaseRole(a)
           /\ \A s \in Sessions : SessionOK(s)
           /\ \A t \in Threads : ThreadOK(t)
BY DEF IInv, BaseRole, SessionOK, ThreadOK

LEMMA PartsNext ==
  IInv' <=> /\ TypeOK'
            /\ \A a \in Accounts : BaseRole(a)'
            /\ \A s \in Sessions : SessionOK(s)'
            /\ \A t \in Threads : ThreadOK(t)'
BY DEF IInv, BaseRole, SessionOK, ThreadOK

\* Represents, after a step.
RepresentsNext(p, a) ==
  /\ p # None /\ a # None
  /\ \A k \in Classes : roleMap'[p][k] # None =>
       role'[roleMap'[p][k]] = [account |-> a, class |-> k]
  /\ roleMap'[p][active'[p]] # None

\* The rows of roles are never changed or removed.
KeepsRoles == \A r \in Ids : role[r] # None => role'[r] = role[r]

LEMMA StillRepresents ==
  ASSUME TypeOK, KeepsRoles, NEW p \in Principals, NEW a \in Accounts, Represents(p, a),
         roleMap'[p] = roleMap[p],
         active'[p] = active[p] \/ roleMap[p][active'[p]] # None
  PROVE  RepresentsNext(p, a)
<1>1. \A k \in Classes : roleMap[p][k] # None => roleMap[p][k] \in Ids
  BY DEF TypeOK, RoleMaps
<1>2. \A k \in Classes : roleMap[p][k] # None => role[roleMap[p][k]] # None
  <2> SUFFICES ASSUME NEW k \in Classes, roleMap[p][k] # None
               PROVE  role[roleMap[p][k]] # None
    OBVIOUS
  <2>1. role[roleMap[p][k]] = [account |-> a, class |-> k]
    BY DEF Represents
  <2>2. [account |-> a, class |-> k] \in Roles
    BY RoleRow
  <2> QED BY <2>1, <2>2, NoneIsNone
<1> QED BY <1>1, <1>2 DEF Represents, RepresentsNext, KeepsRoles

\* What a step leaves to a principal that is in use.
KeepsPrincipal(p) ==
  /\ roleMap'[p] = roleMap[p]
  /\ active'[p] = active[p] \/ roleMap[p][active'[p]] # None

KeepsInUse == \A p \in Principals : InUse(p) => KeepsPrincipal(p)

LEMMA SessionKept ==
  ASSUME IInv, KeepsRoles, KeepsInUse,
         NEW s \in Sessions, owner'[s] = owner[s], context'[s] = context[s]
  PROVE  SessionOK(s)'
<1> TypeOK /\ SessionOK(s)
  BY Parts
<1>1. CASE owner[s] = None
  BY <1>1 DEF SessionOK
<1>2. CASE owner[s] # None
  <2>1. Represents(context[s], owner[s])
    BY <1>2 DEF SessionOK
  <2>2. context[s] \in Principals /\ owner[s] \in Accounts
    BY <2>1 DEF Represents, TypeOK
  <2>3. KeepsPrincipal(context[s])
    BY <2>2 DEF KeepsInUse, InUse
  <2>4. RepresentsNext(context[s], owner[s])
    BY <2>1, <2>2, <2>3, StillRepresents DEF KeepsPrincipal
  <2> QED BY <1>2, <2>4 DEF SessionOK, Represents, RepresentsNext
<1> QED BY <1>1, <1>2

LEMMA InFlight ==
  ASSUME TypeOK, NEW t \in Threads, ThreadOK(t), stage[t] # "idle"
  PROVE  /\ session[t] \in Sessions /\ Account(t) \in Accounts /\ held[t] \in Principals
         /\ Represents(held[t], Account(t))
         /\ stage[t] = "loaded" => fresh[t] \in Principals /\ Represents(fresh[t], Account(t))
BY DEF TypeOK, ThreadOK, Represents, Account

LEMMA UsedKept ==
  ASSUME TypeOK, KeepsRoles, NEW t \in Threads, used'[t] = used[t], NEW a,
         used[t] # None => role[used[t]] # None /\ role[used[t]].account = a
  PROVE  used'[t] # None => role'[used'[t]] # None /\ role'[used'[t]].account = a
<1>1. used[t] # None => used[t] \in Ids
  BY DEF TypeOK
<1> QED BY <1>1 DEF KeepsRoles

LEMMA ThreadKept ==
  ASSUME IInv, KeepsRoles, KeepsInUse, NEW t \in Threads,
         stage'[t] = stage[t], session'[t] = session[t], held'[t] = held[t],
         fresh'[t] = fresh[t], used'[t] = used[t],
         \A s \in Sessions : owner[s] # None => owner'[s] = owner[s]
  PROVE  ThreadOK(t)'
<1> TypeOK /\ ThreadOK(t)
  BY Parts
<1>1. CASE stage[t] = "idle"
  BY <1>1 DEF ThreadOK
<1>2. CASE stage[t] # "idle"
  <2>1. /\ session[t] \in Sessions /\ Account(t) \in Accounts /\ held[t] \in Principals
        /\ Represents(held[t], Account(t))
        /\ stage[t] = "loaded" => fresh[t] \in Principals /\ Represents(fresh[t], Account(t))
    BY <1>2, InFlight
  <2>2. owner'[session'[t]] = Account(t)
    BY <2>1, NoneIsNoAccount DEF Account
  <2>3. RepresentsNext(held[t], Account(t))
    <3>1. KeepsPrincipal(held[t])
      BY <2>1 DEF KeepsInUse, InUse
    <3> QED BY <2>1, <3>1, StillRepresents DEF KeepsPrincipal
  <2>4. stage[t] = "loaded" => RepresentsNext(fresh[t], Account(t))
    <3> SUFFICES ASSUME stage[t] = "loaded" PROVE RepresentsNext(fresh[t], Account(t))
      OBVIOUS
    <3>1. KeepsPrincipal(fresh[t])
      BY <2>1 DEF KeepsInUse, InUse
    <3> QED BY <2>1, <3>1, StillRepresents DEF KeepsPrincipal
  <2>5. used'[t] # None => role'[used'[t]] # None /\ role'[used'[t]].account = Account(t)
    <3>1. used[t] # None => role[used[t]] # None /\ role[used[t]].account = Account(t)
      BY <1>2 DEF ThreadOK
    <3> QED BY <3>1, UsedKept
  <2>6. session'[t] # None
    BY <2>1, NoneIsNone
  <2>7. stage[t] # "loaded" => fresh[t] = None
    BY <1>2 DEF ThreadOK
  <2> QED BY <1>2, <2>2, <2>3, <2>4, <2>5, <2>6, <2>7
       DEF ThreadOK, Represents, RepresentsNext, Account
<1> QED BY <1>1, <1>2

LEMMA BaseRoleKept ==
  ASSUME IInv, KeepsRoles, NEW a \in Accounts
  PROVE  BaseRole(a)'
<1>1. BaseRole(a)
  BY Parts
<1>2. [account |-> a, class |-> "Authenticated"] # None
  BY RoleRow, NoneIsNone DEF Classes
<1> QED BY <1>1, <1>2 DEF BaseRole, KeepsRoles, Ids

\* A thread whose request is over.
LEMMA ThreadEnds ==
  ASSUME TypeOK, NEW t \in Threads, End(t)
  PROVE  /\ ThreadOK(t)'
         /\ \A u \in Threads \ {t} :
              /\ stage'[u] = stage[u] /\ session'[u] = session[u] /\ held'[u] = held[u]
              /\ fresh'[u] = fresh[u] /\ used'[u] = used[u]
BY DEF TypeOK, End, ThreadOK

\* A new principal represents its account and is nobody's yet.
LEMMA Loaded ==
  ASSUME IInv, NEW p \in Principals, NEW a \in Accounts, LoadPrincipal(p, a), UNCHANGED role
  PROVE  KeepsInUse /\ RepresentsNext(p, a) /\ roleMap' \in [Principals -> RoleMaps]
         /\ active' \in [Principals -> Classes]
<1> TypeOK
  BY Parts
<1>1. PICK m \in Loads(a) : roleMap' = [roleMap EXCEPT ![p] = m]
  BY DEF LoadPrincipal
<1>2. /\ m \in RoleMaps
      /\ \A k \in Classes : m[k] # None => role[m[k]] = [account |-> a, class |-> k]
  BY LoadedMaps
<1>3. active' = [active EXCEPT ![p] = "Authenticated"] /\ ~InUse(p)
  BY DEF LoadPrincipal
<1>4. "Authenticated" \in Classes
  BY DEF Classes
<1>5. roleMap' \in [Principals -> RoleMaps] /\ active' \in [Principals -> Classes]
  BY <1>1, <1>2, <1>3, <1>4 DEF TypeOK
<1>6. roleMap'[p] = m /\ active'[p] = "Authenticated"
  BY <1>1, <1>3 DEF TypeOK
<1>7. KeepsInUse
  BY <1>1, <1>3 DEF TypeOK, KeepsInUse, KeepsPrincipal
<1>8. m["Authenticated"] # None
  <2>1. BaseRole(a) /\ a \in Ids
    BY Parts DEF Ids
  <2>2. a \in RolesOfClass(a, "Authenticated")
    BY <2>1, RoleRow, NoneIsNone, <1>4 DEF BaseRole, RolesOfClass, RolesOf
  <2>3. m["Authenticated"] \in RolesOfClass(a, "Authenticated")
    BY <1>4, <2>2 DEF Loads
  <2> QED BY <2>3, NoneIsNone DEF RolesOfClass, RolesOf
<1>9. RepresentsNext(p, a)
  BY <1>2, <1>6, <1>8, NoneIsNone, NoneIsNoAccount DEF RepresentsNext
<1> QED BY <1>5, <1>7, <1>9

\* A step that adds at most one role.
LEMMA RoleAdded ==
  ASSUME TypeOK, NEW r \in Ids, role[r] = None, NEW row, role' = [role EXCEPT ![r] = row]
  PROVE  KeepsRoles
BY DEF TypeOK, KeepsRoles

-----------------------------------------------------------------------------
(***************************************************************************)
(* The actions, one by one.                                                *)
(***************************************************************************)
LEMMA SignInStep ==
  ASSUME IInv, NEW s \in Sessions, NEW a \in Accounts, NEW p \in Principals, SignIn(s, a, p)
  PROVE  IInv'
<1> TypeOK
  BY Parts
<1>1. /\ owner[s] = None /\ LoadPrincipal(p, a) /\ owner' = [owner EXCEPT ![s] = a]
      /\ context' = [context EXCEPT ![s] = p]
      /\ UNCHANGED <<role, ask, stage, session, acting, gives, held, used, fresh, beside>>
  BY DEF SignIn, request
<1>2. /\ KeepsInUse /\ RepresentsNext(p, a) /\ roleMap' \in [Principals -> RoleMaps]
      /\ active' \in [Principals -> Classes]
  BY <1>1, Loaded
<1>3. TypeOK'
  BY <1>1, <1>2 DEF TypeOK
<1>4. KeepsRoles
  BY <1>1 DEF KeepsRoles
<1>5. \A x \in Sessions : SessionOK(x)'
  <2>1. SessionOK(s)'
    BY <1>1, <1>2 DEF TypeOK, SessionOK, Represents, RepresentsNext
  <2>2. ASSUME NEW x \in Sessions, x # s PROVE SessionOK(x)'
    <3>1. owner'[x] = owner[x] /\ context'[x] = context[x]
      BY <1>1, <2>2 DEF TypeOK
    <3> QED BY <1>2, <1>4, <3>1, SessionKept
  <2> QED BY <2>1, <2>2
<1>6. \A x \in Sessions : owner[x] # None => owner'[x] = owner[x]
  BY <1>1 DEF TypeOK
<1>7. \A t \in Threads : ThreadOK(t)'
  BY <1>1, <1>2, <1>4, <1>6, ThreadKept
<1> QED BY <1>3, <1>4, <1>5, <1>7, BaseRoleKept, PartsNext

\* Steps of one thread that load no principal and leave the sessions alone.
LEMMA OneThreadStep ==
  ASSUME IInv, NEW t \in Threads, TypeOK', KeepsRoles, KeepsInUse,
         UNCHANGED <<owner, context>>, ThreadOK(t)',
         \A u \in Threads \ {t} :
           /\ stage'[u] = stage[u] /\ session'[u] = session[u] /\ held'[u] = held[u]
           /\ fresh'[u] = fresh[u] /\ used'[u] = used[u]
  PROVE  IInv'
<1>1. \A s \in Sessions : SessionOK(s)'
  BY SessionKept
<1>2. \A u \in Threads \ {t} : ThreadOK(u)'
  BY ThreadKept
<1> QED BY <1>1, <1>2, BaseRoleKept, PartsNext

LEMMA EndStep ==
  ASSUME IInv, NEW t \in Threads, End(t), UNCHANGED <<db, heap>>
  PROVE  IInv'
<1> TypeOK
  BY Parts
<1>1. TypeOK'
  BY DEF TypeOK, End, db, heap, Stages
<1>2. KeepsRoles /\ KeepsInUse /\ UNCHANGED <<owner, context>>
  BY DEF KeepsRoles, KeepsInUse, KeepsPrincipal, db, heap
<1> QED BY <1>1, <1>2, ThreadEnds, OneThreadStep

LEMMA ArriveStep ==
  ASSUME IInv, NEW t \in Threads, NEW s \in Sessions, NEW k \in Classes,
         NEW g \in Classes \union {None}, Arrive(t, s, k, g)
  PROVE  IInv'
<1> TypeOK /\ SessionOK(s) /\ ThreadOK(t)
  BY Parts
<1> DEFINE p == context[s]
<1>1. /\ stage[t] = "idle" /\ owner[s] # None /\ roleMap[p][k] # None
      /\ active' = [active EXCEPT ![p] = k]
      /\ stage' = [stage EXCEPT ![t] = "arrived"]
      /\ session' = [session EXCEPT ![t] = s]
      /\ acting' = [acting EXCEPT ![t] = k]
      /\ gives' = [gives EXCEPT ![t] = g]
      /\ held' = [held EXCEPT ![t] = p]
      /\ Meet(t, s)
      /\ UNCHANGED <<role, ask, owner, context, roleMap, used, fresh>>
  BY DEF Arrive
<1>2. Represents(p, owner[s]) /\ p \in Principals /\ owner[s] \in Accounts
  BY <1>1 DEF SessionOK, TypeOK, Represents
<1> HIDE DEF p
<1>3. TypeOK'
  <2>1. \A x \in Busy : session[x] \in Sessions
    BY InFlight, Parts DEF Busy
  <2>2. beside' \in [Threads -> SUBSET Sessions]
    BY <1>1, <2>1 DEF TypeOK, Meet
  <2> QED BY <1>1, <1>2, <2>2 DEF TypeOK, Stages
<1>4. KeepsRoles /\ UNCHANGED <<owner, context>>
  BY <1>1 DEF KeepsRoles
<1>5. KeepsInUse
  <2> SUFFICES ASSUME NEW q \in Principals PROVE KeepsPrincipal(q)
    BY DEF KeepsInUse
  <2>1. roleMap'[q] = roleMap[q]
    BY <1>1
  <2>2. CASE q = p
    BY <1>1, <1>2, <2>1, <2>2 DEF TypeOK, KeepsPrincipal
  <2>3. CASE q # p
    BY <1>1, <2>1, <2>3 DEF TypeOK, KeepsPrincipal
  <2> QED BY <2>2, <2>3
<1>6. RepresentsNext(p, owner[s])
  BY <1>1, <1>2, <1>4, StillRepresents DEF TypeOK
<1>7. ThreadOK(t)'
  <2>1. stage'[t] = "arrived" /\ session'[t] = s /\ held'[t] = p /\ used'[t] = None /\ fresh'[t] = None
    BY <1>1 DEF TypeOK, ThreadOK
  <2>2. owner'[session'[t]] = owner[s]
    BY <1>1, <2>1
  <2> QED BY <2>1, <2>2, <1>6, NoneIsNone DEF ThreadOK, Account, Represents, RepresentsNext
<1>8. \A u \in Threads \ {t} :
        /\ stage'[u] = stage[u] /\ session'[u] = session[u] /\ held'[u] = held[u]
        /\ fresh'[u] = fresh[u] /\ used'[u] = used[u]
  BY <1>1 DEF TypeOK
<1> QED BY <1>3, <1>4, <1>5, <1>7, <1>8, OneThreadStep

\* Steps of an authorised request that change its stage, rows it adds, and what it was told.
LEMMA StageStep ==
  ASSUME IInv, NEW t \in Threads, NEW st \in Stages \ {"idle", "loaded"},
         stage[t] \notin {"idle", "loaded"}, stage' = [stage EXCEPT ![t] = st],
         TypeOK', KeepsRoles, UNCHANGED <<heap, session, held, fresh>>,
         \A u \in Threads \ {t} : used'[u] = used[u],
         used'[t] # None => role'[used'[t]] # None /\ role'[used'[t]].account = Account(t)
  PROVE  IInv'
<1> TypeOK /\ ThreadOK(t)
  BY Parts
<1>1. /\ session[t] \in Sessions /\ Account(t) \in Accounts /\ held[t] \in Principals
      /\ Represents(held[t], Account(t))
  BY InFlight
<1>2. UNCHANGED <<owner, context, roleMap, active>>
  BY DEF heap
<1>3. KeepsInUse
  BY <1>2 DEF KeepsInUse, KeepsPrincipal
<1>4. RepresentsNext(held[t], Account(t))
  BY <1>1, <1>2, StillRepresents
<1>5. stage'[t] = st /\ \A u \in Threads \ {t} : stage'[u] = stage[u]
  BY DEF TypeOK
<1>6. owner'[session'[t]] = Account(t) /\ session'[t] # None /\ fresh'[t] = None /\ held'[t] = held[t]
  BY <1>1, <1>2, NoneIsNone DEF Account, ThreadOK
<1>7. ThreadOK(t)'
  BY <1>4, <1>5, <1>6 DEF ThreadOK, Represents, RepresentsNext, Account
<1> QED BY <1>2, <1>3, <1>5, <1>7, OneThreadStep

LEMMA AuthoriseStep ==
  ASSUME IInv, NEW t \in Threads, Authorise(t)
  PROVE  IInv'
<1> TypeOK /\ ThreadOK(t)
  BY Parts
<1>1. /\ stage[t] = "arrived"
      /\ used' = [used EXCEPT ![t] = IF gives[t] = None THEN ActiveRoleId(held[t]) ELSE None]
      /\ stage' = [stage EXCEPT ![t] = "authorised"]
      /\ UNCHANGED <<role, ask, heap, session, acting, gives, held, fresh, beside>>
  BY DEF Authorise, db
<1>2. /\ Account(t) \in Accounts /\ held[t] \in Principals
      /\ Represents(held[t], Account(t))
  BY <1>1, InFlight
<1> DEFINE id == ActiveRoleId(held[t])
<1>3. /\ id \in Ids /\ id # None
      /\ \E k \in Classes : role[id] = [account |-> Account(t), class |-> k]
  <2>1. active[held[t]] \in Classes
    BY <1>2 DEF TypeOK
  <2>2. id # None /\ role[id] = [account |-> Account(t), class |-> active[held[t]]]
    BY <1>2, <2>1 DEF Represents, ActiveRoleId
  <2>3. id \in Ids \union {None}
    BY <1>2, <2>1 DEF TypeOK, RoleMaps, ActiveRoleId
  <2> QED BY <2>1, <2>2, <2>3
<1> HIDE DEF id
<1>4. used'[t] \in {id, None} /\ \A u \in Threads \ {t} : used'[u] = used[u]
  BY <1>1 DEF TypeOK, id
<1>5. used' \in [Threads -> Ids \union {None}]
  BY <1>1, <1>3 DEF TypeOK, id
<1>6. TypeOK'
  BY <1>1, <1>5 DEF TypeOK, heap, Stages
<1>7. used'[t] # None => role'[used'[t]] # None /\ role'[used'[t]].account = Account(t)
  <2>1. role[id] # None /\ role[id].account = Account(t)
    BY <1>2, <1>3, RoleRow, NoneIsNone
  <2> QED BY <1>1, <1>4, <2>1
<1>8. KeepsRoles /\ "authorised" \in Stages \ {"idle", "loaded"}
  BY <1>1 DEF KeepsRoles, Stages
<1> QED BY <1>1, <1>4, <1>6, <1>7, <1>8, StageStep

LEMMA CommitRoleStep ==
  ASSUME IInv, NEW t \in Threads, NEW r \in RoleIds, CommitRole(t, r)
  PROVE  IInv'
<1> TypeOK /\ ThreadOK(t)
  BY Parts
<1> DEFINE row == [account |-> Account(t), class |-> gives[t]]
<1>1. /\ stage[t] = "authorised" /\ gives[t] \in Guarded \union Unguarded /\ role[r] = None
      /\ role' = [role EXCEPT ![r] = row]
      /\ stage' = [stage EXCEPT ![t] = "committed"]
      /\ UNCHANGED <<ask, heap, session, acting, gives, held, used, fresh, beside>>
  BY DEF CommitRole, Given, request
<1>2. Account(t) \in Accounts /\ gives[t] \in Classes /\ r \in Ids
  BY <1>1, InFlight DEF Classes, Ids
<1>3. row \in Roles
  BY <1>2, RoleRow
<1> HIDE DEF row
<1>4. KeepsRoles /\ "committed" \in Stages \ {"idle", "loaded"}
  BY <1>1, <1>2, RoleAdded DEF Stages
<1>5. TypeOK'
  BY <1>1, <1>2, <1>3 DEF TypeOK, heap, Stages
<1>6. used[t] # None => role[used[t]] # None /\ role[used[t]].account = Account(t)
  BY <1>1 DEF ThreadOK
<1>7. used'[t] # None => role'[used'[t]] # None /\ role'[used'[t]].account = Account(t)
  BY <1>1, <1>4, <1>6, UsedKept
<1> QED BY <1>1, <1>4, <1>5, <1>7, StageStep

LEMMA CommitAskStep ==
  ASSUME IInv, NEW t \in Threads, NEW q \in Asks, CommitAsk(t, q)
  PROVE  IInv'
<1> TypeOK /\ ThreadOK(t)
  BY Parts
<1> DEFINE row == [account |-> Account(t), accepted |-> FALSE]
<1>1. /\ stage[t] = "authorised" /\ ask' = [ask EXCEPT ![q] = row]
      /\ stage' = [stage EXCEPT ![t] = "committed"]
      /\ UNCHANGED <<role, heap, session, acting, gives, held, used, fresh, beside>>
  BY DEF CommitAsk, Given, request
<1>2. Account(t) \in Accounts
  BY <1>1, InFlight
<1>3. row \in AskRows
  BY <1>2 DEF AskRows
<1> HIDE DEF row
<1>4. KeepsRoles /\ "committed" \in Stages \ {"idle", "loaded"}
  BY <1>1 DEF KeepsRoles, Stages
<1>5. TypeOK'
  BY <1>1, <1>3 DEF TypeOK, heap, Stages
<1>6. used'[t] # None => role'[used'[t]] # None /\ role'[used'[t]].account = Account(t)
  BY <1>1 DEF ThreadOK
<1> QED BY <1>1, <1>4, <1>5, <1>6, StageStep

LEMMA HandleUpdateStep ==
  ASSUME IInv, NEW t \in Threads, NEW p \in Principals, HandleUpdate(t, p)
  PROVE  IInv'
<1> TypeOK /\ ThreadOK(t)
  BY Parts
<1>1. /\ stage[t] \in {"authorised", "committed"} /\ LoadPrincipal(p, Account(t))
      /\ fresh' = [fresh EXCEPT ![t] = p]
      /\ stage' = [stage EXCEPT ![t] = "loaded"]
      /\ UNCHANGED <<role, ask, owner, context, session, acting, gives, held, used, beside>>
  BY DEF HandleUpdate, Edits, db
<1>2. /\ session[t] \in Sessions /\ Account(t) \in Accounts /\ held[t] \in Principals
      /\ Represents(held[t], Account(t))
  BY <1>1, InFlight
<1>3. /\ KeepsInUse /\ RepresentsNext(p, Account(t)) /\ roleMap' \in [Principals -> RoleMaps]
      /\ active' \in [Principals -> Classes]
  BY <1>1, <1>2, Loaded
<1>4. TypeOK'
  BY <1>1, <1>3 DEF TypeOK, Stages
<1>5. KeepsRoles
  BY <1>1 DEF KeepsRoles
<1>6. RepresentsNext(held[t], Account(t))
  <2>1. KeepsPrincipal(held[t])
    BY <1>2, <1>3 DEF KeepsInUse, InUse
  <2> QED BY <1>2, <1>5, <2>1, StillRepresents DEF KeepsPrincipal
<1>7. used'[t] # None => role'[used'[t]] # None /\ role'[used'[t]].account = Account(t)
  BY <1>1 DEF ThreadOK
<1>8. stage'[t] = "loaded" /\ fresh'[t] = p /\ session'[t] # None /\ held'[t] = held[t]
  BY <1>1, <1>2, NoneIsNone DEF TypeOK
<1>9. owner'[session'[t]] = Account(t)
  BY <1>1 DEF Account
<1>10. ThreadOK(t)'
  BY <1>3, <1>6, <1>7, <1>8, <1>9 DEF ThreadOK, Represents, RepresentsNext, Account
<1>11. \A u \in Threads \ {t} :
         /\ stage'[u] = stage[u] /\ session'[u] = session[u] /\ held'[u] = held[u]
         /\ fresh'[u] = fresh[u] /\ used'[u] = used[u]
  BY <1>1 DEF TypeOK
<1> QED BY <1>1, <1>3, <1>4, <1>5, <1>10, <1>11, OneThreadStep

LEMMA RefreshStep ==
  ASSUME IInv, NEW t \in Threads, Refresh(t)
  PROVE  IInv'
<1> TypeOK /\ ThreadOK(t)
  BY Parts
<1>a. stage[t] = "loaded"
  BY DEF Refresh
<1>b. PICK s \in Sessions, p \in Principals : s = session[t] /\ p = fresh[t]
  BY <1>a, InFlight
<1>1. /\ stage[t] = "loaded" /\ context' = [context EXCEPT ![s] = p] /\ End(t)
      /\ UNCHANGED <<role, ask, owner, roleMap, active>>
  BY <1>b DEF Refresh, SetAuthentication, db
<1>2. owner[s] \in Accounts /\ Represents(p, owner[s])
  BY <1>1, <1>b, InFlight DEF Account
<1>3. TypeOK'
  BY <1>1, <1>2 DEF TypeOK, End, Stages
<1>4. KeepsRoles
  BY <1>1 DEF KeepsRoles
<1>5. KeepsInUse
  BY <1>1 DEF KeepsInUse, KeepsPrincipal
<1>6. RepresentsNext(p, owner[s])
  BY <1>1, <1>2, <1>4, StillRepresents
<1>7. SessionOK(s)'
  BY <1>1, <1>2, <1>6 DEF TypeOK, SessionOK, Represents, RepresentsNext
<1>8. \A x \in Sessions \ {s} : SessionOK(x)'
  <2> SUFFICES ASSUME NEW x \in Sessions \ {s} PROVE SessionOK(x)'
    OBVIOUS
  <2>1. context'[x] = context[x] /\ owner'[x] = owner[x]
    BY <1>1 DEF TypeOK
  <2> QED BY <1>4, <1>5, <2>1, SessionKept
<1>9. \A x \in Sessions : owner[x] # None => owner'[x] = owner[x]
  BY <1>1
<1>10. \A u \in Threads : ThreadOK(u)'
  BY <1>1, <1>4, <1>5, <1>9, ThreadEnds, ThreadKept
<1> QED BY <1>3, <1>4, <1>7, <1>8, <1>10, BaseRoleKept, PartsNext

LEMMA AcceptStep ==
  ASSUME IInv, NEW q \in Asks, NEW r \in RoleIds, Accept(q, r)
  PROVE  IInv'
<1> TypeOK
  BY Parts
<1> DEFINE askRow == [account |-> ask[q].account, accepted |-> TRUE]
           row == [account |-> ask[q].account, class |-> "Auditor"]
<1>1. /\ ask[q] # None /\ role[r] = None
      /\ ask' = [ask EXCEPT ![q] = askRow] /\ role' = [role EXCEPT ![r] = row]
      /\ UNCHANGED <<owner, context, roleMap, active, stage,
                     session, acting, gives, held, used, fresh, beside>>
  BY DEF Accept, Given, heap, request
<1>2. ask[q] \in AskRows
  BY <1>1 DEF TypeOK
<1>3. askRow \in AskRows /\ row \in Roles /\ r \in Ids
  BY <1>2, RoleRow DEF AskRows, Classes, Ids
<1> HIDE DEF askRow, row
<1>4. TypeOK'
  BY <1>1, <1>3 DEF TypeOK
<1>5. KeepsRoles
  BY <1>1, <1>3, RoleAdded
<1>6. KeepsInUse
  BY <1>1 DEF KeepsInUse, KeepsPrincipal
<1>7. \A s \in Sessions : SessionOK(s)'
  BY <1>1, <1>5, <1>6, SessionKept
<1>8. \A t \in Threads : ThreadOK(t)'
  BY <1>1, <1>5, <1>6, ThreadKept
<1> QED BY <1>4, <1>5, <1>7, <1>8, BaseRoleKept, PartsNext

-----------------------------------------------------------------------------
LEMMA InitStep == Init => IInv
<1> SUFFICES ASSUME Init PROVE IInv
  OBVIOUS
<1>1. "Authenticated" \in Classes /\ "idle" \in Stages
  BY DEF Classes, Stages
<1>2. role \in [Ids -> Roles \union {None}]
  BY <1>1, RoleRow DEF Init
<1>3. TypeOK
  BY <1>1, <1>2 DEF Init, TypeOK, RoleMaps
<1>4. \A a \in Accounts : BaseRole(a)
  BY DEF Init, BaseRole, Ids
<1>5. \A s \in Sessions : SessionOK(s)
  BY DEF Init, SessionOK
<1>6. \A t \in Threads : ThreadOK(t)
  BY DEF Init, ThreadOK
<1> QED BY <1>3, <1>4, <1>5, <1>6, Parts

LEMMA NextStep == IInv /\ [Next]_vars => IInv'
<1> SUFFICES ASSUME IInv, [Next]_vars PROVE IInv'
  OBVIOUS
<1>1. CASE UNCHANGED vars
  BY <1>1 DEF vars, IInv, TypeOK, Represents, Account
<1>2. ASSUME NEW s \in Sessions, NEW a \in Accounts, NEW p \in Principals, SignIn(s, a, p)
      PROVE  IInv'
  BY <1>2, SignInStep
<1>3. ASSUME NEW t \in Threads, NEW s \in Sessions, NEW k \in Classes,
             NEW g \in Classes \union {None}, Arrive(t, s, k, g)
      PROVE  IInv'
  BY <1>3, ArriveStep
<1>4. ASSUME NEW t \in Threads, Fail(t) \/ Authorise(t) \/ Serve(t) \/ Refresh(t)
      PROVE  IInv'
  <2>1. CASE Fail(t)
    BY <2>1, EndStep DEF Fail
  <2>2. CASE Authorise(t)
    BY <2>2, AuthoriseStep
  <2>3. CASE Serve(t)
    BY <2>3, EndStep DEF Serve
  <2>4. CASE Refresh(t)
    BY <2>4, RefreshStep
  <2> QED BY <1>4, <2>1, <2>2, <2>3, <2>4
<1>5. ASSUME NEW t \in Threads, NEW r \in RoleIds, CommitRole(t, r) PROVE IInv'
  BY <1>5, CommitRoleStep
<1>6. ASSUME NEW t \in Threads, NEW q \in Asks, CommitAsk(t, q) PROVE IInv'
  BY <1>6, CommitAskStep
<1>7. ASSUME NEW t \in Threads, NEW p \in Principals, HandleUpdate(t, p) PROVE IInv'
  BY <1>7, HandleUpdateStep
<1>8. ASSUME NEW q \in Asks, NEW r \in RoleIds, Accept(q, r) PROVE IInv'
  BY <1>8, AcceptStep
<1> QED BY <1>1, <1>2, <1>3, <1>4, <1>5, <1>6, <1>7, <1>8 DEF Next

(***************************************************************************)
(* Principals that stay in use while others replace them in a session,     *)
(* whatever overlaps, represent the account that the session is signed in  *)
(* to, with an active role that it has: the ids that getActiveRoleId tells *)
(* the services are always roles of the account that sent the request.     *)
(***************************************************************************)
THEOREM Invariance == Spec => []IInv
BY InitStep, NextStep, PTL DEF Spec

-----------------------------------------------------------------------------
(***************************************************************************)
(* Requests that met no other.  Two requests in flight know of each other  *)
(* (Meets), and no principal is in use in two sessions (OneSession).  So   *)
(* what a request has found, the role that it made active and the          *)
(* principal that it has loaded are changed by requests that it met only.  *)
(***************************************************************************)
Own == Guarded \union Unguarded

Meets ==
  \A t, u \in Threads : t # u /\ stage[t] # "idle" /\ stage[u] # "idle" => session[u] \in beside[t]

Holds(p, s) ==
  context[s] = p \/ \E t \in Threads : session[t] = s /\ (held[t] = p \/ fresh[t] = p)

OneSession ==
  \A p \in Principals, s1, s2 \in Sessions : Holds(p, s1) /\ Holds(p, s2) => s1 = s2

InSession(t) ==
  /\ stage[t] = "arrived" => active[held[t]] = acting[t]
  /\ used[t] # None => role[used[t]].class = acting[t]
  /\ stage[t] = "loaded" => \A k \in Classes :
       roleMap[context[session[t]]][k] # None => roleMap[fresh[t]][k] # None

InAccount(t) ==
  /\ stage[t] = "authorised" =>
       /\ gives[t] \in Guarded => RolesOfClass(Account(t), gives[t]) = {}
       /\ gives[t] = "Auditor" => AsksOf(Account(t)) = {}
  /\ stage[t] = "loaded" =>
       \A k \in Own : RolesOfClass(Account(t), k) # {} => roleMap[fresh[t]][k] # None

AloneOK(t) ==
  stage[t] # "idle" => (AloneInSession(t) => InSession(t)) /\ (AloneInAccount(t) => InAccount(t))

RoleInv == IInv /\ Meets /\ OneSession /\ \A t \in Threads : AloneOK(t)

\* Holds, AsksOf and RolesOfClass, after a step.
HoldsNext(p, s) ==
  context'[s] = p \/ \E t \in Threads : session'[t] = s /\ (held'[t] = p \/ fresh'[t] = p)
AsksNext(a) == {q \in Asks : ask'[q] # None /\ ask'[q].account = a}
RolesNext(a, k) == {r \in Ids : role'[r] # None /\ role'[r].account = a /\ role'[r].class = k}

\* The account has the rows that it had, but for roles of auditors.
SameRows(a) == AsksNext(a) = AsksOf(a) /\ \A k \in Own : RolesNext(a, k) = RolesOfClass(a, k)

SameThread(u) ==
  /\ stage'[u] = stage[u] /\ session'[u] = session[u] /\ acting'[u] = acting[u]
  /\ gives'[u] = gives[u] /\ held'[u] = held[u] /\ used'[u] = used[u] /\ fresh'[u] = fresh[u]

KeepsOwners == \A s \in Sessions : owner[s] # None => owner'[s] = owner[s]

\* No request arrives, and none moves to another session.
NoNewcomer ==
  \A x \in Threads : stage'[x] # "idle" =>
    stage[x] # "idle" /\ session'[x] = session[x] /\ beside'[x] = beside[x]

LEMMA MeetsKept ==
  ASSUME Meets, NoNewcomer
  PROVE  Meets'
BY DEF Meets, NoNewcomer

\* At most one principal gets into use, in one session.
LEMMA OneSessionKept ==
  ASSUME OneSession, NEW p \in Principals, NEW s \in Sessions,
         \A q \in Principals, x \in Sessions :
           HoldsNext(q, x) => Holds(q, x) \/ (q = p /\ x = s /\ ~InUse(p))
  PROVE  OneSession'
<1>1. \A x \in Sessions : Holds(p, x) => InUse(p)
  BY DEF Holds, InUse
<1>2. \A q \in Principals, s1, s2 \in Sessions : HoldsNext(q, s1) /\ HoldsNext(q, s2) => s1 = s2
  BY <1>1 DEF OneSession
<1> QED BY <1>2 DEF OneSession, Holds, HoldsNext

LEMMA SessionsKept ==
  ASSUME OneSession,
         \A q \in Principals, x \in Sessions : HoldsNext(q, x) => Holds(q, x)
  PROVE  OneSession'
<1>1. \A q \in Principals, s1, s2 \in Sessions : HoldsNext(q, s1) /\ HoldsNext(q, s2) => s1 = s2
  BY DEF OneSession
<1> QED BY <1>1 DEF OneSession, Holds, HoldsNext

LEMMA AccountKept ==
  ASSUME IInv, KeepsOwners, NEW t \in Threads, stage[t] # "idle", session'[t] = session[t]
  PROVE  owner'[session'[t]] = Account(t) /\ Account(t) \in Accounts /\ session[t] \in Sessions
<1>1. TypeOK /\ ThreadOK(t)
  BY Parts
<1>2. session[t] \in Sessions /\ Account(t) \in Accounts
  BY <1>1, InFlight
<1> QED BY <1>2, NoneIsNoAccount DEF KeepsOwners, Account

\* Who is alone after a step was alone before.
LEMMA WasAlone ==
  ASSUME IInv, KeepsOwners, NEW t \in Threads, stage[t] # "idle", session'[t] = session[t],
         beside[t] \subseteq beside'[t]
  PROVE  (AloneInSession(t)' => AloneInSession(t)) /\ (AloneInAccount(t)' => AloneInAccount(t))
<1>1. owner'[session'[t]] = Account(t) /\ Account(t) \in Accounts
  BY AccountKept
<1>2. TypeOK
  BY Parts
<1>3. AloneInSession(t)' => AloneInSession(t)
  BY DEF AloneInSession
<1>4. ASSUME AloneInAccount(t)', NEW s \in beside[t], owner[s] = Account(t) PROVE FALSE
  <2>1. s \in Sessions /\ s \in beside'[t]
    BY <1>2, <1>4 DEF TypeOK
  <2>2. owner'[s] = Account(t)
    BY <1>1, <1>4, <2>1, NoneIsNoAccount DEF KeepsOwners
  <2>3. owner'[s] # owner'[session'[t]]
    BY <1>4, <2>1 DEF AloneInAccount, Account
  <2> QED BY <1>1, <2>2, <2>3
<1> QED BY <1>3, <1>4 DEF AloneInAccount

\* What the steps of others leave to a request.
LEMMA InSessionKept ==
  ASSUME IInv, KeepsRoles, KeepsInUse, NEW t \in Threads, stage[t] # "idle", SameThread(t),
         active'[held[t]] = active[held[t]], context'[session[t]] = context[session[t]],
         InSession(t)
  PROVE  InSession(t)'
<1>1. TypeOK /\ ThreadOK(t)
  BY Parts
<1>2. (stage[t] = "arrived" => active[held[t]] = acting[t])'
  BY DEF SameThread, InSession
<1>3. (used[t] # None => role[used[t]].class = acting[t])'
  <2>1. used[t] # None => used[t] \in Ids /\ role[used[t]] # None
    BY <1>1 DEF TypeOK, ThreadOK
  <2> QED BY <2>1 DEF SameThread, InSession, KeepsRoles
<1>4. ASSUME stage[t] = "loaded", NEW k \in Classes, roleMap'[context'[session'[t]]][k] # None
      PROVE  roleMap'[fresh'[t]][k] # None
  <2> DEFINE c == context[session[t]]
  <2>1. fresh[t] \in Principals /\ session[t] \in Sessions /\ owner[session[t]] \in Accounts
    BY <1>1, <1>4, InFlight DEF Account
  <2>2. c \in Principals
    <3>1. SessionOK(session[t])
      BY <2>1, Parts
    <3> QED BY <1>1, <2>1, <3>1, NoneIsNoAccount DEF SessionOK, Represents, TypeOK
  <2>3. roleMap'[fresh[t]] = roleMap[fresh[t]] /\ roleMap'[c] = roleMap[c]
    BY <2>1, <2>2 DEF KeepsInUse, KeepsPrincipal, InUse
  <2> QED BY <1>4, <2>3 DEF SameThread, InSession
<1> QED BY <1>2, <1>3, <1>4 DEF InSession, SameThread

LEMMA InAccountKept ==
  ASSUME IInv, KeepsInUse, KeepsOwners, NEW t \in Threads, stage[t] # "idle", SameThread(t),
         SameRows(Account(t)), InAccount(t)
  PROVE  InAccount(t)'
<1>1. TypeOK /\ ThreadOK(t)
  BY Parts
<1>2. Account(t)' = Account(t)
  BY AccountKept DEF SameThread, Account
<1>3. \A k \in Own : RolesOfClass(Account(t), k)' = RolesOfClass(Account(t), k)
  BY <1>2 DEF SameRows, RolesNext, RolesOfClass, RolesOf
<1>4. AsksOf(Account(t))' = AsksOf(Account(t))
  BY <1>2 DEF SameRows, AsksNext, AsksOf
<1>5. (stage[t] = "authorised" =>
         /\ gives[t] \in Guarded => RolesOfClass(Account(t), gives[t]) = {}
         /\ gives[t] = "Auditor" => AsksOf(Account(t)) = {})'
  <2>1. gives[t] \in Guarded =>
          RolesOfClass(Account(t), gives[t])' = RolesOfClass(Account(t), gives[t])
    BY <1>2 DEF SameRows, SameThread, RolesNext, RolesOfClass, RolesOf, Own
  <2> QED BY <1>4, <2>1 DEF SameThread, InAccount
<1>6. (stage[t] = "loaded" =>
         \A k \in Own : RolesOfClass(Account(t), k) # {} => roleMap[fresh[t]][k] # None)'
  <2> SUFFICES ASSUME stage[t] = "loaded", NEW k \in Own, RolesOfClass(Account(t), k) # {}
               PROVE  roleMap'[fresh[t]][k] # None
    BY <1>3 DEF SameThread, Own
  <2>1. fresh[t] \in Principals
    BY <1>1, InFlight
  <2>2. roleMap'[fresh[t]] = roleMap[fresh[t]]
    BY <2>1 DEF KeepsInUse, KeepsPrincipal, InUse
  <2> QED BY <2>2 DEF InAccount
<1> QED BY <1>5, <1>6 DEF InAccount

LEMMA OtherKept ==
  ASSUME IInv, KeepsRoles, KeepsInUse, KeepsOwners, NEW t \in Threads, AloneOK(t), SameThread(t),
         stage[t] # "idle" => beside[t] \subseteq beside'[t],
         stage[t] # "idle" /\ AloneInSession(t)' =>
           active'[held[t]] = active[held[t]] /\ context'[session[t]] = context[session[t]],
         stage[t] # "idle" /\ AloneInAccount(t)' => SameRows(Account(t))
  PROVE  AloneOK(t)'
<1> SUFFICES ASSUME stage'[t] # "idle"
             PROVE  (AloneInSession(t)' => InSession(t)') /\ (AloneInAccount(t)' => InAccount(t)')
  BY DEF AloneOK
<1>1. stage[t] # "idle" /\ session'[t] = session[t]
  BY DEF SameThread
<1>2. (AloneInSession(t)' => AloneInSession(t)) /\ (AloneInAccount(t)' => AloneInAccount(t))
  BY <1>1, WasAlone
<1> QED BY <1>1, <1>2, InSessionKept, InAccountKept DEF AloneOK

-----------------------------------------------------------------------------
(***************************************************************************)
(* What the steps do to rows.                                              *)
(***************************************************************************)
LEMMA RolesAfter ==
  ASSUME NEW r \in Ids, role[r] = None, NEW row \in Roles, role'[r] = row,
         \A x \in Ids \ {r} : role'[x] = role[x]
  PROVE  \A a, k : RolesNext(a, k) =
           IF a = row.account /\ k = row.class THEN RolesOfClass(a, k) \union {r}
                                              ELSE RolesOfClass(a, k)
BY NoneIsNone DEF RolesNext, RolesOfClass, RolesOf

LEMMA AskAfter ==
  ASSUME TypeOK, NEW q \in Asks, ask[q] = None, NEW b \in Accounts,
         ask' = [ask EXCEPT ![q] = [account |-> b, accepted |-> FALSE]]
  PROVE  \A a : AsksNext(a) = IF a = b THEN AsksOf(a) \union {q} ELSE AsksOf(a)
<1>1. [account |-> b, accepted |-> FALSE] # None
  <2>1. [account |-> b, accepted |-> FALSE] \in AskRows
    BY DEF AskRows
  <2> QED BY <2>1, NoneIsNone
<1>2. ask'[q] = [account |-> b, accepted |-> FALSE] /\ \A x \in Asks \ {q} : ask'[x] = ask[x]
  BY DEF TypeOK
<1> QED BY <1>1, <1>2 DEF AsksNext, AsksOf

LEMMA UnchangedRows ==
  ASSUME UNCHANGED <<role, ask>>
  PROVE  KeepsRoles /\ \A a : SameRows(a)
BY DEF KeepsRoles, SameRows, RolesNext, RolesOfClass, RolesOf, AsksNext, AsksOf

\* What CommitRole and CommitAsk add, and where.
LEMMA RoleCommitted ==
  ASSUME IInv, NEW t \in Threads, NEW r \in RoleIds, CommitRole(t, r)
  PROVE  /\ KeepsRoles
         /\ \A b, c : RolesNext(b, c) =
              IF b = Account(t) /\ c = gives[t] THEN RolesOfClass(b, c) \union {r}
                                               ELSE RolesOfClass(b, c)
         /\ \A b : b # Account(t) => SameRows(b)
<1> TypeOK /\ ThreadOK(t)
  BY Parts
<1> DEFINE a == Account(t)
           k == gives[t]
           row == [account |-> a, class |-> k]
<1>1. stage[t] = "authorised" /\ k \in Own /\ role[r] = None /\ role' = [role EXCEPT ![r] = row]
      /\ UNCHANGED ask
  BY DEF CommitRole, Given, Own
<1>2. a \in Accounts /\ k \in Classes /\ r \in Ids
  BY <1>1, InFlight DEF Classes, Ids, Own
<1>3. row \in Roles /\ row.account = a /\ row.class = k
  BY <1>2, RoleRow
<1> HIDE DEF a, k, row
<1>4. role'[r] = row /\ \A x \in Ids \ {r} : role'[x] = role[x]
  BY <1>1, <1>2 DEF TypeOK
<1>5. \A b, c : RolesNext(b, c) =
        IF b = a /\ c = k THEN RolesOfClass(b, c) \union {r} ELSE RolesOfClass(b, c)
  BY <1>1, <1>2, <1>3, <1>4, RolesAfter
<1>6. \A b : AsksNext(b) = AsksOf(b)
  BY <1>1 DEF AsksNext, AsksOf
<1>7. KeepsRoles
  BY <1>1, <1>2, RoleAdded
<1> QED BY <1>5, <1>6, <1>7 DEF SameRows, a, k

LEMMA AskCommitted ==
  ASSUME IInv, NEW t \in Threads, NEW q \in Asks, CommitAsk(t, q)
  PROVE  /\ KeepsRoles
         /\ AsksNext(Account(t)) = AsksOf(Account(t)) \union {q}
         /\ \A b : b # Account(t) => SameRows(b)
<1> TypeOK /\ ThreadOK(t)
  BY Parts
<1>1. /\ stage[t] = "authorised" /\ ask[q] = None /\ UNCHANGED role
      /\ ask' = [ask EXCEPT ![q] = [account |-> Account(t), accepted |-> FALSE]]
  BY DEF CommitAsk, Given
<1>2. Account(t) \in Accounts
  BY <1>1, InFlight
<1>3. \A b : AsksNext(b) = IF b = Account(t) THEN AsksOf(b) \union {q} ELSE AsksOf(b)
  BY <1>1, <1>2, AskAfter
<1>4. KeepsRoles /\ \A b, c : RolesNext(b, c) = RolesOfClass(b, c)
  BY <1>1 DEF KeepsRoles, RolesNext, RolesOfClass, RolesOf
<1> QED BY <1>3, <1>4 DEF SameRows

\* A principal that is loaded is in nobody's use.
LEMMA LoadLeavesActive ==
  ASSUME IInv, NEW p \in Principals, NEW a, LoadPrincipal(p, a),
         NEW t \in Threads, stage[t] # "idle"
  PROVE  active'[held[t]] = active[held[t]]
<1>1. TypeOK /\ ThreadOK(t)
  BY Parts
<1>2. held[t] \in Principals
  BY <1>1, InFlight
<1>3. held[t] # p
  BY <1>2 DEF LoadPrincipal, InUse
<1> QED BY <1>1, <1>2, <1>3 DEF LoadPrincipal, TypeOK

\* Steps of one request: those that it has not met see nothing of them.
LEMMA OneAloneStep ==
  ASSUME RoleInv, IInv', NEW t \in Threads, stage[t] # "idle", KeepsRoles, KeepsInUse, NoNewcomer,
         UNCHANGED owner, AloneOK(t)', OneSession',
         \A u \in Threads \ {t} : SameThread(u) /\ beside'[u] = beside[u],
         \A a : a # Account(t) => SameRows(a),
         \A s \in Sessions : s # session[t] => context'[s] = context[s],
         \A u \in Threads \ {t} : stage[u] # "idle" => active'[held[u]] = active[held[u]]
  PROVE  RoleInv'
<1> IInv /\ Meets /\ KeepsOwners
  BY DEF RoleInv, KeepsOwners
<1>1. Meets'
  BY MeetsKept
<1>2. ASSUME NEW u \in Threads, u # t PROVE AloneOK(u)'
  <2>1. AloneOK(u) /\ SameThread(u) /\ beside'[u] = beside[u]
    BY <1>2 DEF RoleInv
  <2>2. ASSUME stage[u] # "idle"
        PROVE  /\ AloneInSession(u)' => context'[session[u]] = context[session[u]]
               /\ AloneInAccount(u)' => SameRows(Account(u))
    <3>1. session[t] \in beside[u]
      BY <1>2, <2>2 DEF Meets
    <3>2. AloneInSession(u)' => AloneInSession(u)
      BY <2>1, <2>2, WasAlone DEF SameThread
    <3>3. AloneInAccount(u)' => AloneInAccount(u)
      BY <2>1, <2>2, WasAlone DEF SameThread
    <3>4. session[u] \in Sessions
      BY <2>1, <2>2, AccountKept DEF SameThread
    <3> QED BY <3>1, <3>2, <3>3, <3>4 DEF AloneInSession, AloneInAccount, Account
  <2> QED BY <1>2, <2>1, <2>2, OtherKept
<1> QED BY <1>1, <1>2 DEF RoleInv

-----------------------------------------------------------------------------
(***************************************************************************)
(* The actions again.                                                      *)
(***************************************************************************)
LEMMA SignInAlone ==
  ASSUME RoleInv, NEW s \in Sessions, NEW a \in Accounts, NEW p \in Principals, SignIn(s, a, p)
  PROVE  RoleInv'
<1> IInv /\ TypeOK /\ Meets /\ OneSession
  BY Parts DEF RoleInv
<1>1. /\ owner[s] = None /\ LoadPrincipal(p, a) /\ owner' = [owner EXCEPT ![s] = a]
      /\ context' = [context EXCEPT ![s] = p]
      /\ UNCHANGED <<role, ask, stage, session, acting, gives, held, used, fresh, beside>>
  BY DEF SignIn, request
<1>2. KeepsRoles /\ \A b : SameRows(b)
  BY <1>1, UnchangedRows
<1>3. KeepsInUse
  BY <1>1, Loaded
<1>4. KeepsOwners /\ NoNewcomer
  BY <1>1 DEF TypeOK, KeepsOwners, NoNewcomer
<1>5. ASSUME NEW t \in Threads PROVE AloneOK(t)'
  <2>1. AloneOK(t) /\ SameThread(t) /\ beside'[t] = beside[t]
    BY <1>1 DEF RoleInv, SameThread
  <2>2. ASSUME stage[t] # "idle" PROVE context'[session[t]] = context[session[t]]
    <3>1. session[t] \in Sessions /\ owner[session[t]] \in Accounts
      BY <1>4, <2>1, <2>2, AccountKept DEF SameThread, Account
    <3>2. session[t] # s
      BY <1>1, <3>1, NoneIsNoAccount
    <3> QED BY <1>1, <3>1, <3>2 DEF TypeOK
  <2>3. stage[t] # "idle" => active'[held[t]] = active[held[t]]
    BY <1>1, LoadLeavesActive
  <2> QED BY <1>2, <1>3, <1>4, <2>1, <2>2, <2>3, OtherKept
<1>6. OneSession'
  <2>1. ~InUse(p)
    BY <1>1 DEF LoadPrincipal
  <2>2. \A q \in Principals, x \in Sessions :
          HoldsNext(q, x) => Holds(q, x) \/ (q = p /\ x = s /\ ~InUse(p))
    BY <1>1, <2>1 DEF TypeOK, HoldsNext, Holds
  <2> QED BY <2>2, OneSessionKept
<1>7. IInv' /\ Meets'
  BY <1>4, SignInStep, MeetsKept
<1> QED BY <1>5, <1>6, <1>7 DEF RoleInv

LEMMA EndAlone ==
  ASSUME RoleInv, NEW t \in Threads, stage[t] # "idle", End(t), IInv',
         UNCHANGED <<role, ask, owner, roleMap, active>>,
         context' = context \/ (stage[t] = "loaded" /\ SetAuthentication(t))
  PROVE  RoleInv'
<1> IInv /\ TypeOK /\ ThreadOK(t) /\ OneSession
  BY Parts DEF RoleInv
<1>1. KeepsRoles /\ \A b : SameRows(b)
  BY UnchangedRows
<1>2. KeepsInUse /\ NoNewcomer
  BY DEF End, TypeOK, KeepsInUse, KeepsPrincipal, NoNewcomer
<1>3. AloneOK(t)' /\ \A u \in Threads \ {t} : SameThread(u) /\ beside'[u] = beside[u]
  BY DEF End, TypeOK, AloneOK, SameThread
<1>4. session[t] \in Sessions
  BY InFlight
<1>5. \A s \in Sessions : s # session[t] => context'[s] = context[s]
  BY <1>4 DEF SetAuthentication, TypeOK
<1>6. OneSession'
  <2>1. context'[session[t]] \in {context[session[t]], fresh[t]}
    BY <1>4 DEF SetAuthentication, TypeOK
  <2>2. /\ session'[t] = None
        /\ \A u \in Threads \ {t} : session'[u] = session[u] /\ held'[u] = held[u] /\ fresh'[u] = fresh[u]
    BY <1>3 DEF End, TypeOK, SameThread
  <2>3. \A q \in Principals, x \in Sessions : HoldsNext(q, x) => Holds(q, x)
    BY <1>4, <1>5, <2>1, <2>2, NoneIsNone DEF HoldsNext, Holds
  <2> QED BY <2>3, SessionsKept
<1> QED BY <1>1, <1>2, <1>3, <1>5, <1>6, OneAloneStep

LEMMA ArriveAlone ==
  ASSUME RoleInv, NEW t \in Threads, NEW s \in Sessions, NEW k \in Classes,
         NEW g \in Classes \union {None}, Arrive(t, s, k, g)
  PROVE  RoleInv'
<1> IInv /\ TypeOK /\ SessionOK(s) /\ ThreadOK(t) /\ Meets /\ OneSession
  BY Parts DEF RoleInv
<1> DEFINE p == context[s]
<1>1. /\ stage[t] = "idle" /\ owner[s] # None
      /\ active' = [active EXCEPT ![p] = k]
      /\ stage' = [stage EXCEPT ![t] = "arrived"]
      /\ session' = [session EXCEPT ![t] = s]
      /\ acting' = [acting EXCEPT ![t] = k]
      /\ gives' = [gives EXCEPT ![t] = g]
      /\ held' = [held EXCEPT ![t] = p]
      /\ roleMap[p][k] # None
      /\ Meet(t, s)
      /\ UNCHANGED <<role, ask, owner, context, roleMap, used, fresh>>
  BY DEF Arrive
<1>2. p \in Principals /\ Holds(p, s)
  BY <1>1 DEF SessionOK, TypeOK, Represents, Holds
<1> HIDE DEF p
<1>3. KeepsRoles /\ (\A b : SameRows(b)) /\ KeepsOwners
  BY <1>1, UnchangedRows DEF KeepsOwners
<1>4. KeepsInUse
  <2> SUFFICES ASSUME NEW q \in Principals PROVE KeepsPrincipal(q)
    BY DEF KeepsInUse
  <2>1. roleMap'[q] = roleMap[q] /\ active'[q] = IF q = p THEN k ELSE active[q]
    BY <1>1 DEF TypeOK
  <2> QED BY <1>1, <2>1 DEF KeepsPrincipal
<1>5. /\ stage'[t] = "arrived" /\ session'[t] = s /\ acting'[t] = k /\ held'[t] = p
      /\ used'[t] = None /\ fresh'[t] = None
      /\ \A u \in Threads \ {t} : SameThread(u)
  BY <1>1 DEF TypeOK, ThreadOK, SameThread
<1>6. /\ beside'[t] = {session[x] : x \in Busy}
      /\ \A u \in Threads \ {t} : stage[u] # "idle" => beside'[u] = beside[u] \union {s}
  BY <1>1 DEF Meet, Busy
<1>7. Meets'
  <2> SUFFICES ASSUME NEW x \in Threads, NEW u \in Threads, x # u,
                      stage'[x] # "idle", stage'[u] # "idle"
               PROVE  session'[u] \in beside'[x]
    BY DEF Meets
  <2>1. CASE x = t
    BY <1>5, <1>6, <2>1 DEF SameThread, Busy
  <2>2. CASE x # t /\ u = t
    BY <1>5, <1>6, <2>2 DEF SameThread
  <2>3. CASE x # t /\ u # t
    BY <1>5, <1>6, <2>3 DEF SameThread, Meets
  <2> QED BY <2>1, <2>2, <2>3
<1>8. AloneOK(t)'
  <2>1. active'[held'[t]] = acting'[t]
    BY <1>1, <1>2, <1>5 DEF TypeOK
  <2>2. InSession(t)' /\ InAccount(t)'
    BY <1>5, <2>1 DEF InSession, InAccount
  <2> QED BY <2>2 DEF AloneOK
<1>9. ASSUME NEW u \in Threads, u # t PROVE AloneOK(u)'
  <2>1. AloneOK(u) /\ SameThread(u)
    BY <1>5, <1>9 DEF RoleInv
  <2>2. ASSUME stage[u] # "idle", AloneInSession(u)' PROVE active'[held[u]] = active[held[u]]
    <3>1. session[u] # s
      BY <1>6, <1>9, <2>1, <2>2 DEF AloneInSession, SameThread
    <3>2. held[u] \in Principals /\ session[u] \in Sessions
      BY <2>2, InFlight, Parts
    <3>3. Holds(held[u], session[u])
      BY DEF Holds
    <3>4. held[u] # p
      BY <1>2, <3>1, <3>2, <3>3 DEF OneSession
    <3> QED BY <1>1, <3>2, <3>4 DEF TypeOK
  <2>3. stage[u] # "idle" => beside[u] \subseteq beside'[u]
    BY <1>6, <1>9
  <2>4. context'[session[u]] = context[session[u]]
    BY <1>1
  <2> QED BY <1>3, <1>4, <2>1, <2>2, <2>3, <2>4, OtherKept
<1>10. OneSession'
  <2>1. \A u \in Threads \ {t} : session'[u] = session[u] /\ held'[u] = held[u] /\ fresh'[u] = fresh[u]
    BY <1>5 DEF SameThread
  <2>2. \A q \in Principals, x \in Sessions : HoldsNext(q, x) => Holds(q, x)
    BY <1>1, <1>2, <1>5, <2>1, NoneIsNone DEF HoldsNext, Holds, p
  <2> QED BY <2>2, SessionsKept
<1>11. IInv'
  BY ArriveStep
<1> QED BY <1>7, <1>8, <1>9, <1>10, <1>11 DEF RoleInv

LEMMA AuthoriseAlone ==
  ASSUME RoleInv, NEW t \in Threads, Authorise(t)
  PROVE  RoleInv'
<1> IInv /\ TypeOK /\ ThreadOK(t) /\ OneSession /\ AloneOK(t)
  BY Parts DEF RoleInv
<1>1. /\ stage[t] = "arrived" /\ Grants(t)
      /\ used' = [used EXCEPT ![t] = IF gives[t] = None THEN ActiveRoleId(held[t]) ELSE None]
      /\ stage' = [stage EXCEPT ![t] = "authorised"]
      /\ UNCHANGED <<role, ask, owner, context, roleMap, active,
                     session, acting, gives, held, fresh, beside>>
  BY DEF Authorise, db, heap
<1>2. KeepsRoles /\ \A b : SameRows(b)
  BY <1>1, UnchangedRows
<1>3. KeepsInUse /\ NoNewcomer
  BY <1>1 DEF TypeOK, KeepsInUse, KeepsPrincipal, NoNewcomer
<1>4. /\ stage'[t] = "authorised" /\ used'[t] \in {ActiveRoleId(held[t]), None}
      /\ \A u \in Threads \ {t} : SameThread(u)
  BY <1>1 DEF TypeOK, SameThread
<1>5. AloneInSession(t)' => InSession(t)'
  <2> SUFFICES ASSUME AloneInSession(t) PROVE InSession(t)'
    BY <1>1 DEF AloneInSession
  <2>1. Represents(held[t], Account(t)) /\ held[t] \in Principals
    BY <1>1, InFlight
  <2>2. active[held[t]] = acting[t] /\ active[held[t]] \in Classes
    BY <1>1, <2>1 DEF AloneOK, InSession, TypeOK
  <2>3. role[ActiveRoleId(held[t])] = [account |-> Account(t), class |-> active[held[t]]]
    BY <2>1, <2>2 DEF Represents, ActiveRoleId
  <2>4. (used[t] # None => role[used[t]].class = acting[t])'
    BY <1>1, <1>4, <2>2, <2>3
  <2> QED BY <1>4, <2>4 DEF InSession
<1>6. InAccount(t)'
  BY <1>1, <1>4 DEF InAccount, Grants, Account, RolesOfClass, RolesOf, AsksOf
<1>7. AloneOK(t)'
  BY <1>5, <1>6 DEF AloneOK
<1>8. OneSession'
  BY <1>1 DEF OneSession, Holds
<1>9. IInv'
  BY AuthoriseStep
<1> QED BY <1>1, <1>2, <1>3, <1>4, <1>7, <1>8, <1>9, OneAloneStep

\* Commits: the request goes on from "authorised" with a row that its account gets.
LEMMA CommitAlone ==
  ASSUME RoleInv, IInv', NEW t \in Threads, stage[t] = "authorised", KeepsRoles,
         stage' = [stage EXCEPT ![t] = "committed"],
         UNCHANGED <<heap, request>>, \A a : a # Account(t) => SameRows(a)
  PROVE  RoleInv'
<1> IInv /\ TypeOK /\ ThreadOK(t) /\ OneSession /\ AloneOK(t)
  BY Parts DEF RoleInv
<1>1. UNCHANGED <<owner, context, roleMap, active,
                  session, acting, gives, held, used, fresh, beside>>
  BY DEF heap, request
<1>2. KeepsInUse /\ NoNewcomer
  BY <1>1 DEF TypeOK, KeepsInUse, KeepsPrincipal, NoNewcomer
<1>3. stage'[t] = "committed" /\ \A u \in Threads \ {t} : SameThread(u)
  BY <1>1 DEF TypeOK, SameThread
<1>4. used[t] # None => used[t] \in Ids /\ role[used[t]] # None
  BY DEF TypeOK, ThreadOK
<1>5. AloneInSession(t)' => InSession(t)'
  BY <1>1, <1>3, <1>4 DEF AloneInSession, AloneOK, InSession, KeepsRoles
<1>6. AloneOK(t)'
  BY <1>3, <1>5 DEF AloneOK, InAccount
<1>7. OneSession'
  BY <1>1 DEF OneSession, Holds
<1> QED BY <1>1, <1>2, <1>3, <1>6, <1>7, OneAloneStep

LEMMA HandleUpdateAlone ==
  ASSUME RoleInv, NEW t \in Threads, NEW p \in Principals, HandleUpdate(t, p)
  PROVE  RoleInv'
<1> IInv /\ TypeOK /\ ThreadOK(t) /\ OneSession /\ AloneOK(t)
  BY Parts DEF RoleInv
<1>1. /\ stage[t] \in {"authorised", "committed"} /\ LoadPrincipal(p, Account(t))
      /\ fresh' = [fresh EXCEPT ![t] = p]
      /\ stage' = [stage EXCEPT ![t] = "loaded"]
      /\ UNCHANGED <<role, ask, owner, context, session, acting, gives, held, used, beside>>
  BY DEF HandleUpdate, Edits, db
<1>2. KeepsRoles /\ \A b : SameRows(b)
  BY <1>1, UnchangedRows
<1>3. Account(t) \in Accounts /\ session[t] \in Sessions /\ Account(t)' = Account(t)
  BY <1>1, InFlight DEF Account
<1>4. KeepsInUse /\ NoNewcomer
  BY <1>1, <1>3, Loaded DEF TypeOK, NoNewcomer
<1>5. /\ stage'[t] = "loaded" /\ fresh'[t] = p
      /\ \A u \in Threads \ {t} : SameThread(u)
  BY <1>1 DEF TypeOK, SameThread
<1>6. \A u \in Threads : stage[u] # "idle" => active'[held[u]] = active[held[u]]
  BY <1>1, LoadLeavesActive
<1>7. PICK m \in Loads(Account(t)) : roleMap' = [roleMap EXCEPT ![p] = m]
  BY <1>1 DEF LoadPrincipal
<1>8. ASSUME NEW k \in Classes, RolesOfClass(Account(t), k) # {} PROVE roleMap'[p][k] # None
  <2>1. m[k] \in RolesOfClass(Account(t), k)
    BY <1>7, <1>8 DEF Loads
  <2>2. roleMap'[p] = m
    BY <1>7 DEF TypeOK
  <2> QED BY <2>1, <2>2, NoneIsNone DEF RolesOfClass, RolesOf
<1>9. InAccount(t)'
  <2>1. ASSUME NEW k \in Own, RolesOfClass(Account(t), k)' # {} PROVE roleMap'[fresh'[t]][k] # None
    <3>1. RolesOfClass(Account(t), k) # {} /\ k \in Classes
      BY <1>1, <1>3, <2>1 DEF RolesOfClass, RolesOf, Own, Classes
    <3> QED BY <1>5, <1>8, <3>1
  <2> QED BY <1>5, <2>1 DEF InAccount
<1>10. AloneInSession(t)' => InSession(t)'
  <2> SUFFICES ASSUME AloneInSession(t) PROVE InSession(t)'
    BY <1>1 DEF AloneInSession
  <2>1. (used[t] # None => role[used[t]].class = acting[t])'
    BY <1>1 DEF AloneOK, InSession
  <2>2. ASSUME NEW k \in Classes, roleMap'[context'[session'[t]]][k] # None
        PROVE  roleMap'[fresh'[t]][k] # None
    <3> DEFINE c == context[session[t]]
    <3>1. SessionOK(session[t])
      BY <1>3, Parts
    <3>2. c \in Principals /\ Represents(c, Account(t))
      BY <1>3, <3>1, NoneIsNoAccount DEF SessionOK, Represents, TypeOK, Account
    <3>3. roleMap[c][k] # None
      BY <1>1, <1>3, <1>4, <2>2, <3>2 DEF KeepsInUse, KeepsPrincipal, InUse
    <3>4. roleMap[c][k] \in Ids /\ role[roleMap[c][k]] = [account |-> Account(t), class |-> k]
      BY <3>2, <3>3 DEF TypeOK, RoleMaps, Represents
    <3>5. roleMap[c][k] \in RolesOfClass(Account(t), k)
      BY <1>3, <3>4, RoleRow, NoneIsNone DEF RolesOfClass, RolesOf
    <3> QED BY <1>5, <1>8, <3>5
  <2> QED BY <1>5, <2>1, <2>2 DEF InSession
<1>11. AloneOK(t)'
  BY <1>9, <1>10 DEF AloneOK
<1>12. OneSession'
  <2>1. ~InUse(p) /\ session[t] = session'[t]
    BY <1>1 DEF LoadPrincipal
  <2>2. \A q \in Principals, x \in Sessions :
          HoldsNext(q, x) => Holds(q, x) \/ (q = p /\ x = session[t] /\ ~InUse(p))
    BY <1>1, <2>1 DEF TypeOK, HoldsNext, Holds
  <2> QED BY <1>3, <2>2, OneSessionKept
<1>13. IInv'
  BY HandleUpdateStep
<1> QED BY <1>1, <1>2, <1>4, <1>5, <1>6, <1>11, <1>12, <1>13, OneAloneStep

LEMMA AcceptAlone ==
  ASSUME RoleInv, NEW q \in Asks, NEW r \in RoleIds, Accept(q, r)
  PROVE  RoleInv'
<1> IInv /\ TypeOK /\ Meets /\ OneSession
  BY Parts DEF RoleInv
<1> DEFINE b == ask[q].account
<1>1. /\ ask[q] # None /\ role[r] = None
      /\ ask' = [ask EXCEPT ![q] = [account |-> b, accepted |-> TRUE]]
      /\ role' = [role EXCEPT ![r] = [account |-> b, class |-> "Auditor"]]
      /\ UNCHANGED <<owner, context, roleMap, active, stage,
                     session, acting, gives, held, used, fresh, beside>>
  BY DEF Accept, Given, heap, request
<1>2. b \in Accounts /\ r \in Ids /\ "Auditor" \in Classes /\ "Auditor" \notin Own
  BY <1>1, ClassesAssumption DEF TypeOK, AskRows, Ids, Classes, Own
<1>3. [account |-> b, accepted |-> TRUE] # None
  <2>1. [account |-> b, accepted |-> TRUE] \in AskRows
    BY <1>2 DEF AskRows
  <2> QED BY <2>1, NoneIsNone
<1>4. \A a : AsksNext(a) = AsksOf(a)
  <2>1. ask'[q] = [account |-> b, accepted |-> TRUE] /\ \A x \in Asks \ {q} : ask'[x] = ask[x]
    BY <1>1 DEF TypeOK
  <2>2. ask'[q].account = ask[q].account
    BY <2>1
  <2> QED BY <1>1, <1>3, <2>1, <2>2 DEF AsksNext, AsksOf
<1> HIDE DEF b
<1>5. KeepsRoles
  BY <1>1, <1>2, RoleAdded
<1>6. \A a : \A k \in Own : RolesNext(a, k) = RolesOfClass(a, k)
  <2> DEFINE row == [account |-> b, class |-> "Auditor"]
  <2>1. role'[r] = row /\ \A x \in Ids \ {r} : role'[x] = role[x]
    BY <1>1, <1>2 DEF TypeOK
  <2>2. row \in Roles /\ row.class = "Auditor"
    BY <1>2, RoleRow
  <2> HIDE DEF row
  <2>3. \A a, k : k # row.class => RolesNext(a, k) = RolesOfClass(a, k)
    BY <1>1, <1>2, <2>1, <2>2, RolesAfter
  <2> QED BY <1>2, <2>2, <2>3
<1>7. \A a : SameRows(a)
  BY <1>4, <1>6 DEF SameRows
<1>8. KeepsInUse /\ KeepsOwners /\ NoNewcomer
  BY <1>1 DEF KeepsInUse, KeepsPrincipal, KeepsOwners, NoNewcomer
<1>9. ASSUME NEW t \in Threads PROVE AloneOK(t)'
  <2>1. AloneOK(t) /\ SameThread(t)
    BY <1>1 DEF RoleInv, SameThread
  <2> QED BY <1>1, <1>5, <1>7, <1>8, <2>1, OtherKept
<1>10. IInv' /\ Meets' /\ OneSession'
  BY <1>1, <1>8, AcceptStep, MeetsKept DEF OneSession, Holds
<1> QED BY <1>9, <1>10 DEF RoleInv

LEMMA RoleInit == Init => RoleInv
BY InitStep, NoneIsNone DEF Init, RoleInv, Meets, OneSession, Holds, AloneOK

LEMMA RoleNext == RoleInv /\ [Next]_vars => RoleInv'
<1> SUFFICES ASSUME RoleInv, [Next]_vars PROVE RoleInv'
  OBVIOUS
<1> IInv
  BY DEF RoleInv
<1>1. CASE UNCHANGED vars
  <2>1. IInv'
    BY NextStep
  <2>2. \A t \in Threads : AloneOK(t)'
    BY <1>1 DEF vars, RoleInv, AloneOK, AloneInSession, AloneInAccount, InSession, InAccount,
                Account, RolesOfClass, RolesOf, AsksOf
  <2>3. Meets' /\ OneSession'
    BY <1>1 DEF vars, RoleInv, Meets, OneSession, Holds
  <2> QED BY <2>1, <2>2, <2>3 DEF RoleInv
<1>2. ASSUME NEW s \in Sessions, NEW a \in Accounts, NEW p \in Principals, SignIn(s, a, p)
      PROVE  RoleInv'
  BY <1>2, SignInAlone
<1>3. ASSUME NEW t \in Threads, NEW s \in Sessions, NEW k \in Classes,
             NEW g \in Classes \union {None}, Arrive(t, s, k, g)
      PROVE  RoleInv'
  BY <1>3, ArriveAlone
<1>4. ASSUME NEW t \in Threads, Fail(t) \/ Authorise(t) \/ Serve(t) \/ Refresh(t)
      PROVE  RoleInv'
  <2>1. CASE Fail(t)
    BY <2>1, EndStep, EndAlone DEF Fail, db, heap
  <2>2. CASE Authorise(t)
    BY <2>2, AuthoriseAlone
  <2>3. CASE Serve(t)
    BY <2>3, EndStep, EndAlone DEF Serve, db, heap
  <2>4. CASE Refresh(t)
    BY <2>4, RefreshStep, EndAlone DEF Refresh, db
  <2> QED BY <1>4, <2>1, <2>2, <2>3, <2>4
<1>5. ASSUME NEW t \in Threads, NEW r \in RoleIds, CommitRole(t, r) PROVE RoleInv'
  BY <1>5, RoleCommitted, CommitRoleStep, CommitAlone DEF CommitRole
<1>6. ASSUME NEW t \in Threads, NEW q \in Asks, CommitAsk(t, q) PROVE RoleInv'
  BY <1>6, AskCommitted, CommitAskStep, CommitAlone DEF CommitAsk
<1>7. ASSUME NEW t \in Threads, NEW p \in Principals, HandleUpdate(t, p) PROVE RoleInv'
  BY <1>7, HandleUpdateAlone
<1>8. ASSUME NEW q \in Asks, NEW r \in RoleIds, Accept(q, r) PROVE RoleInv'
  BY <1>8, AcceptAlone
<1> QED BY <1>1, <1>2, <1>3, <1>4, <1>5, <1>6, <1>7, <1>8 DEF Next

LEMMA RoleAlways == Spec => []RoleInv
BY RoleInit, RoleNext, PTL DEF Spec

-----------------------------------------------------------------------------
(***************************************************************************)
(* The invariant holds what the properties ask for.                        *)
(***************************************************************************)
LEMMA AloneActs == RoleInv => ActsInRole
<1> SUFFICES ASSUME RoleInv, NEW t \in Threads, used[t] # None, AloneInSession(t)
             PROVE  role[used[t]].class = acting[t]
  BY DEF ActsInRole
<1>1. ThreadOK(t) /\ AloneOK(t)
  BY Parts DEF RoleInv
<1> QED BY <1>1 DEF ThreadOK, AloneOK, InSession

\* Which action takes a request from one stage to another.
LEMMA Commits ==
  ASSUME IInv, Next, NEW t \in Threads, stage[t] = "authorised", stage'[t] = "committed"
  PROVE  (\E r \in RoleIds : CommitRole(t, r)) \/ (\E q \in Asks : CommitAsk(t, q))
<1> TypeOK
  BY Parts
<1>1. ASSUME NEW u \in Threads, NEW st \in Stages \ {"committed"}, stage' = [stage EXCEPT ![u] = st]
      PROVE  FALSE
  BY <1>1 DEF TypeOK
<1>2. \A u \in Threads : ~Fail(u) /\ ~Authorise(u) /\ ~Serve(u) /\ ~Refresh(u)
  BY <1>1 DEF Fail, Authorise, Serve, Refresh, End, Stages
<1>3. \A u \in Threads :
        /\ \A s \in Sessions, k \in Classes, g \in Classes \union {None} : ~Arrive(u, s, k, g)
        /\ \A p \in Principals : ~HandleUpdate(u, p)
  BY <1>1 DEF Arrive, HandleUpdate, Stages
<1>4. /\ \A s \in Sessions, a \in Accounts, p \in Principals : ~SignIn(s, a, p)
      /\ \A q \in Asks, r \in RoleIds : ~Accept(q, r)
  BY DEF SignIn, Accept
<1>5. \A u \in Threads \ {t} :
        (\A r \in RoleIds : ~CommitRole(u, r)) /\ (\A q \in Asks : ~CommitAsk(u, q))
  BY DEF CommitRole, CommitAsk, TypeOK
<1> QED BY <1>2, <1>3, <1>4, <1>5 DEF Next

LEMMA Refreshes ==
  ASSUME IInv, Next, NEW t \in Threads, stage[t] = "loaded", stage'[t] = "idle"
  PROVE  Refresh(t)
<1> TypeOK
  BY Parts
<1>1. ASSUME NEW u \in Threads, NEW st \in Stages \ {"idle"}, stage' = [stage EXCEPT ![u] = st]
      PROVE  FALSE
  BY <1>1 DEF TypeOK
<1>2. \A u \in Threads :
        /\ ~Authorise(u)
        /\ \A s \in Sessions, k \in Classes, g \in Classes \union {None} : ~Arrive(u, s, k, g)
        /\ \A r \in RoleIds : ~CommitRole(u, r)
        /\ \A q \in Asks : ~CommitAsk(u, q)
        /\ \A p \in Principals : ~HandleUpdate(u, p)
  BY <1>1 DEF Authorise, Arrive, CommitRole, CommitAsk, HandleUpdate, Stages
<1>3. /\ \A s \in Sessions, a \in Accounts, p \in Principals : ~SignIn(s, a, p)
      /\ \A q \in Asks, r \in RoleIds : ~Accept(q, r)
  BY DEF SignIn, Accept
<1>4. \A u \in Threads : Fail(u) \/ Serve(u) \/ Refresh(u) => u = t
  BY DEF Fail, Serve, Refresh, End, TypeOK
<1>5. ~Fail(t) /\ ~Serve(t)
  BY DEF Fail, Serve
<1> QED BY <1>2, <1>3, <1>4, <1>5 DEF Next

LEMMA AloneGives == RoleInv /\ [Next]_vars => [GivesTheFirst]_vars
<1> SUFFICES ASSUME RoleInv, [Next]_vars, NEW t \in Threads, stage[t] = "authorised",
                    stage'[t] = "committed", AloneInAccount(t)
             PROVE  /\ gives[t] \in Guarded => Cardinality(RolesOfClass(Account(t), gives[t])') = 1
                    /\ gives[t] = "Auditor" => Cardinality(AsksOf(Account(t))') = 1
  BY DEF GivesTheFirst
<1>1. IInv /\ TypeOK /\ AloneOK(t) /\ Next
  BY Parts DEF RoleInv, vars
<1>2. /\ gives[t] \in Guarded => RolesOfClass(Account(t), gives[t]) = {}
      /\ gives[t] = "Auditor" => AsksOf(Account(t)) = {}
  BY <1>1 DEF AloneOK, InAccount
<1>3. "Auditor" \notin Own
  BY ClassesAssumption DEF Own
<1>4. ASSUME NEW r \in RoleIds, CommitRole(t, r), gives[t] \in Guarded
      PROVE  Cardinality(RolesOfClass(Account(t), gives[t])') = 1
  <2>1. RolesNext(Account(t), gives[t]) = {r}
    BY <1>1, <1>2, <1>4, RoleCommitted
  <2>2. RolesOfClass(Account(t), gives[t])' = RolesNext(Account(t), gives[t])
    BY <1>4 DEF CommitRole, heap, request, Account, RolesOfClass, RolesOf, RolesNext
  <2> QED BY <2>1, <2>2, FS_Singleton
<1>5. ASSUME NEW q \in Asks, CommitAsk(t, q)
      PROVE  Cardinality(AsksOf(Account(t))') = 1
  <2>1. AsksNext(Account(t)) = {q}
    BY <1>1, <1>2, <1>5, AskCommitted DEF CommitAsk
  <2>2. AsksOf(Account(t))' = AsksNext(Account(t))
    BY <1>5 DEF CommitAsk, heap, request, Account, AsksOf, AsksNext
  <2> QED BY <2>1, <2>2, FS_Singleton
<1>6. ASSUME NEW r \in RoleIds, CommitRole(t, r) PROVE gives[t] # "Auditor"
  BY <1>3, <1>6 DEF CommitRole, Own
<1>7. ASSUME NEW q \in Asks, CommitAsk(t, q) PROVE gives[t] \notin Guarded
  BY <1>3, <1>7 DEF CommitAsk, Own
<1> QED BY <1>1, <1>4, <1>5, <1>6, <1>7, Commits

LEMMA AloneRefreshes == RoleInv /\ [Next]_vars => [KnowsOwnRoles]_vars
<1> SUFFICES ASSUME RoleInv, [Next]_vars, NEW t \in Threads, stage[t] = "loaded", stage'[t] = "idle"
             PROVE  LET after == roleMap[context'[session[t]]] IN
                    /\ AloneInAccount(t) => \A k \in Guarded \union Unguarded :
                         RolesOfClass(Account(t), k) # {} => after[k] # None
                    /\ AloneInSession(t) => \A k \in Classes :
                         roleMap[context[session[t]]][k] # None => after[k] # None
  BY DEF KnowsOwnRoles
<1>1. IInv /\ TypeOK /\ ThreadOK(t) /\ AloneOK(t) /\ Next
  BY Parts DEF RoleInv, vars
<1>2. Refresh(t)
  BY <1>1, Refreshes
<1>3. context'[session[t]] = fresh[t]
  <2>1. session[t] \in Sessions
    BY <1>1, InFlight
  <2> QED BY <1>1, <1>2, <2>1 DEF Refresh, SetAuthentication, TypeOK
<1> QED BY <1>1, <1>3 DEF AloneOK, InSession, InAccount, Own

(***************************************************************************)
(* A request is told the id of a role of its controller's class unless a   *)
(* request of its own session was in flight at the same time, although     *)
(* other sessions, of its account too, switch roles meanwhile.             *)
(***************************************************************************)
THEOREM ServicesGetTheirRole == Spec => []ActsInRole
BY RoleAlways, AloneActs, PTL

(***************************************************************************)
(* A guarded role is the account's first of its class, and an ask to be an *)
(* auditor its first, unless another request of the account, from whatever *)
(* session, was in flight together with the one that commits it.           *)
(***************************************************************************)
THEOREM RolesOnce == Spec => GivenOnce
<1>1. RoleInv /\ [Next]_vars => [GivesTheFirst]_vars
  BY AloneGives
<1> QED BY <1>1, RoleAlways, PTL DEF Spec, GivenOnce

(***************************************************************************)
(* A refresh replaces the principal of its session by one that knows every *)
(* role that the account has created, unless a request of the account      *)
(* overlapped; and by one that knows all that the session knew, unless one *)
(* of the session did.                                                     *)
(***************************************************************************)
THEOREM RefreshesKnow == Spec => RefreshedSessionsKnow
<1>1. RoleInv /\ [Next]_vars => [KnowsOwnRoles]_vars
  BY AloneRefreshes
<1> QED BY <1>1, RoleAlways, PTL DEF Spec, RefreshedSessionsKnow

=============================================================================
