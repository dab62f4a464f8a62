------------------------ MODULE UniqueReferencesProofs ------------------------
(***************************************************************************)
(* Proofs about UniqueReferences, for any users, references, jobs, forms   *)
(* and requests in flight.                                                 *)
(***************************************************************************)
EXTENDS UniqueReferences, TLAPS

-----------------------------------------------------------------------------
(***************************************************************************)
(* The invariant, in parts: the rows, and each request.                    *)
(***************************************************************************)
UniqueColumns ==
  \A i, j \in DOMAIN rows : Agree(rows[i], rows[j], Service[rows[i].kind].unique) => i = j

\* What a request has looked at holds nothing that its form repeats.
LookedOK(r) ==
  stage[r] \in {"authorised", "created"} => \A i \in Looked(r) :
    /\ ~Agree(rows[i], form[r], Service[form[r].kind].excludes)
    /\ stage[r] = "created" => ~Agree(rows[i], form[r], Service[form[r].kind].looksUp)

\* What its client was told is true.
ToldOK(r) ==
  /\ stage[r] = "committed" \/ answer[r] = "kept" => \E i \in DOMAIN rows : rows[i] = form[r]
  /\ answer[r] \in {"kept", "refused"} => form[r] # None
  /\ answer[r] = "refused" => \E i \in DOMAIN rows :
       Agree(rows[i], form[r], Service[form[r].kind].looksUp)

StageOK(r) ==
  /\ stage[r] # "idle" => form[r] # None /\ answer[r] = "none"
  /\ stage[r] \in {"idle", "arrived"} => seen[r] = None
  /\ stage[r] = "created" => seen[r] # None
  /\ stage[r] = "authorised" /\ seen[r] = None => Service[form[r].kind].excludes = {}
  /\ seen[r] # None => seen[r] <= Len(rows)

RequestOK(r) == StageOK(r) /\ LookedOK(r) /\ ToldOK(r)

\* IInv in parts: types, unique columns, and what is said of each request.
LEMMA Parts == IInv <=> TypeOK /\ UniqueColumns /\ \A r \in Requests : RequestOK(r)
BY DEF IInv, UniqueColumns, RequestOK, StageOK, LookedOK, ToldOK

\* Agreeing is symmetric, and is about rows of one kind.
LEMMA AgreeSymmetric ==
  ASSUME NEW f, NEW g, NEW fields, Agree(f, g, fields)
  PROVE  Agree(g, f, fields) /\ f.kind = g.kind
BY DEF Agree

\* The rows are a sequence of forms.
LEMMA RowsFacts ==
  ASSUME TypeOK
  PROVE  /\ DOMAIN rows = 1 .. Len(rows) /\ Len(rows) \in Nat
         /\ \A i \in DOMAIN rows : rows[i] \in Forms
BY DEF TypeOK

\* None is neither a form nor a number.
LEMMA NoneFacts == None \notin Forms /\ None \notin Nat
BY NoneAssumption

-----------------------------------------------------------------------------
(***************************************************************************)
(* Steps that leave the rows alone.                                        *)
(***************************************************************************)

\* A request is not disturbed when nothing of it changes.
LEMMA RequestKept ==
  ASSUME NEW r \in Requests, RequestOK(r), UNCHANGED rows,
         stage'[r] = stage[r], form'[r] = form[r], seen'[r] = seen[r], answer'[r] = answer[r]
  PROVE  RequestOK(r)'
BY DEF RequestOK, StageOK, LookedOK, ToldOK, Looked

\* A step of one request, rows untouched, has to care for that one only.
LEMMA OneRequestStep ==
  ASSUME IInv, NEW r \in Requests, UNCHANGED rows,
         NEW s \in Stages, NEW f \in Forms \union {None},
         NEW n \in (0 .. MaxRows) \union {None}, NEW a \in Answers,
         stage' = [stage EXCEPT ![r] = s], form' = [form EXCEPT ![r] = f],
         seen' = [seen EXCEPT ![r] = n], answer' = [answer EXCEPT ![r] = a],
         RequestOK(r)'
  PROVE  IInv'
<1>1. TypeOK'
  BY DEF IInv, TypeOK
<1>2. UniqueColumns'
  BY Parts DEF UniqueColumns
<1>3. ASSUME NEW q \in Requests PROVE RequestOK(q)'
  <2>1. CASE q = r
    BY <2>1
  <2>2. CASE q # r
    <3>1. stage'[q] = stage[q] /\ form'[q] = form[q] /\ seen'[q] = seen[q] /\ answer'[q] = answer[q]
      BY <2>2 DEF IInv, TypeOK
    <3> QED BY <3>1, Parts, RequestKept
  <2> QED BY <2>1, <2>2
<1> QED BY <1>1, <1>2, <1>3 DEF IInv, UniqueColumns, RequestOK, StageOK, LookedOK, ToldOK

\* A function is the same when updated with the value it has.
LEMMA Same ==
  ASSUME TypeOK, NEW r \in Requests
  PROVE  /\ stage = [stage EXCEPT ![r] = stage[r]] /\ stage[r] \in Stages
         /\ form = [form EXCEPT ![r] = form[r]] /\ form[r] \in Forms \union {None}
         /\ seen = [seen EXCEPT ![r] = seen[r]] /\ seen[r] \in (0 .. MaxRows) \union {None}
         /\ answer = [answer EXCEPT ![r] = answer[r]] /\ answer[r] \in Answers
BY DEF TypeOK

\* A new request keeps the invariant.
LEMMA SubmitStep ==
  ASSUME IInv, NEW r \in Requests, NEW f \in Forms, Submit(r, f)
  PROVE  IInv'
<1>0. TypeOK
  BY DEF IInv
<1>1. /\ stage[r] = "idle" /\ UNCHANGED rows
      /\ stage' = [stage EXCEPT ![r] = "arrived"] /\ form' = [form EXCEPT ![r] = f]
      /\ seen' = [seen EXCEPT ![r] = seen[r]] /\ answer' = [answer EXCEPT ![r] = "none"]
  BY Same DEF Submit, IInv
<1>2. stage'[r] = "arrived" /\ form'[r] = f /\ seen'[r] = seen[r] /\ answer'[r] = "none"
  BY <1>0, <1>1 DEF TypeOK
<1>3. seen[r] = None /\ f # None
  BY <1>1, Parts, NoneFacts DEF RequestOK, StageOK
<1>4. RequestOK(r)'
  BY <1>2, <1>3 DEF RequestOK, StageOK, LookedOK, ToldOK
<1>5. seen[r] \in (0 .. MaxRows) \union {None} /\ "arrived" \in Stages /\ "none" \in Answers
  BY Same DEF IInv, Stages, Answers
<1> QED BY <1>1, <1>4, <1>5, OneRequestStep

\* A request that ends with an answer that is true.
LEMMA AnswerStep ==
  ASSUME IInv, NEW r \in Requests, stage[r] # "idle", NEW what \in Answers, Answer(r, what),
         what = "kept" => \E i \in DOMAIN rows : rows[i] = form[r],
         what = "refused" => \E i \in DOMAIN rows :
           Agree(rows[i], form[r], Service[form[r].kind].looksUp)
  PROVE  IInv'
<1>0. TypeOK
  BY DEF IInv
<1>1. /\ UNCHANGED rows
      /\ stage' = [stage EXCEPT ![r] = "idle"] /\ form' = [form EXCEPT ![r] = form[r]]
      /\ seen' = [seen EXCEPT ![r] = None] /\ answer' = [answer EXCEPT ![r] = what]
  BY Same DEF Answer, IInv
<1>2. stage'[r] = "idle" /\ form'[r] = form[r] /\ seen'[r] = None /\ answer'[r] = what
  BY <1>0, <1>1 DEF TypeOK
<1>3. form[r] # None
  BY Parts DEF RequestOK, StageOK
<1>4. RequestOK(r)'
  BY <1>1, <1>2, <1>3 DEF RequestOK, StageOK, LookedOK, ToldOK
<1>5. form[r] \in Forms \union {None} /\ "idle" \in Stages
  BY Same DEF IInv, Stages
<1> QED BY <1>1, <1>4, <1>5, OneRequestStep

\* The authorised one has looked for what its service excludes.
LEMMA AuthoriseStep ==
  ASSUME IInv, NEW r \in Requests, Authorise(r)
  PROVE  IInv'
<1>0. TypeOK
  BY DEF IInv
<1> DEFINE n == IF Service[form[r].kind].excludes = {} THEN None ELSE Len(rows)
<1>1. /\ stage[r] = "arrived" /\ ~Excluded(r) /\ UNCHANGED rows
      /\ stage' = [stage EXCEPT ![r] = "authorised"] /\ form' = [form EXCEPT ![r] = form[r]]
      /\ seen' = [seen EXCEPT ![r] = n] /\ answer' = [answer EXCEPT ![r] = answer[r]]
  BY Same DEF Authorise, IInv
<1> HIDE DEF n
<1>2. stage'[r] = "authorised" /\ form'[r] = form[r] /\ seen'[r] = n /\ answer'[r] = answer[r]
  BY <1>0, <1>1 DEF TypeOK
<1>3. form[r] # None /\ answer[r] = "none"
  BY <1>1, Parts DEF RequestOK, StageOK
<1>4. n = None \/ n = Len(rows)
  BY DEF n
<1>5. \A i \in DOMAIN rows : ~Agree(rows[i], form[r], Service[form[r].kind].excludes)
  BY <1>1, RowsFacts DEF Excluded, Among, IInv
<1>6. LookedOK(r)'
  BY <1>1, <1>2, <1>5 DEF LookedOK, Looked
<1>7. n = None => Service[form[r].kind].excludes = {}
  BY <1>0, RowsFacts, NoneFacts DEF n
<1>8. StageOK(r)' /\ ToldOK(r)'
  BY <1>0, <1>1, <1>2, <1>3, <1>4, <1>7, RowsFacts DEF StageOK, ToldOK
<1>9. /\ form[r] \in Forms \union {None} /\ answer[r] \in Answers /\ "authorised" \in Stages
      /\ n \in (0 .. MaxRows) \union {None}
  BY <1>4, Same, RowsFacts, MaxRowsAssumption DEF IInv, TypeOK, Stages
<1> QED BY <1>1, <1>6, <1>8, <1>9, OneRequestStep DEF RequestOK

\* The validated one has looked for the column that is to be unique.
LEMMA CreateStep ==
  ASSUME IInv, NEW r \in Requests, Create(r)
  PROVE  IInv'
<1>0. TypeOK
  BY DEF IInv
<1> DEFINE n == Snapshot(r)
<1>1. /\ stage[r] = "authorised" /\ ~InUse(r) /\ UNCHANGED rows
      /\ stage' = [stage EXCEPT ![r] = "created"] /\ form' = [form EXCEPT ![r] = form[r]]
      /\ seen' = [seen EXCEPT ![r] = n] /\ answer' = [answer EXCEPT ![r] = answer[r]]
  BY Same DEF Create, IInv
<1>2. n \in 0 .. Len(rows) /\ Len(rows) <= MaxRows
  BY Parts, RowsFacts DEF Snapshot, RequestOK, StageOK, IInv, TypeOK
<1> HIDE DEF n
<1>3. stage'[r] = "created" /\ form'[r] = form[r] /\ seen'[r] = n /\ answer'[r] = answer[r]
  BY <1>0, <1>1 DEF TypeOK
<1>4. form[r] # None /\ answer[r] = "none"
  BY <1>1, Parts DEF RequestOK, StageOK
<1>5. \A i \in 1 .. n : ~Agree(rows[i], form[r], Service[form[r].kind].looksUp)
  BY <1>1 DEF InUse, Among, n
<1>6. ASSUME NEW i \in 1 .. n PROVE ~Agree(rows[i], form[r], Service[form[r].kind].excludes)
  <2>1. CASE seen[r] = None
    BY <1>1, <2>1, Parts DEF RequestOK, StageOK, Agree
  <2>2. CASE seen[r] # None
    <3>1. i \in Looked(r)
      BY <1>2, <2>2, RowsFacts DEF Looked, n, Snapshot, IInv
    <3> QED BY <1>1, <3>1, Parts DEF RequestOK, LookedOK
  <2> QED BY <2>1, <2>2
<1>7. LookedOK(r)'
  BY <1>1, <1>2, <1>3, <1>5, <1>6 DEF LookedOK, Looked
<1>8. StageOK(r)' /\ ToldOK(r)'
  BY <1>1, <1>2, <1>3, <1>4, NoneFacts DEF StageOK, ToldOK
<1>9. /\ form[r] \in Forms \union {None} /\ answer[r] \in Answers /\ "created" \in Stages
      /\ n \in (0 .. MaxRows) \union {None}
  BY <1>0, <1>2, Same, RowsFacts, MaxRowsAssumption DEF Stages
<1> QED BY <1>1, <1>7, <1>8, <1>9, OneRequestStep DEF RequestOK

\* onSuccess is next, or the end: the steps that only answer.
LEMMA EndsStep ==
  ASSUME IInv, NEW r \in Requests,
         Deny(r) \/ Refuse(r) \/ Reject(r) \/ Panic(r) \/ Succeed(r) \/ Fail(r)
  PROVE  IInv'
<1>1. {"denied", "refused", "invalid", "panicked", "kept"} \subseteq Answers
  BY DEF Answers
<1>2. ASSUME stage[r] # "idle", NEW what \in {"denied", "invalid", "panicked"}, Answer(r, what)
      PROVE  IInv'
  BY <1>1, <1>2, AnswerStep
<1>3. CASE Deny(r) \/ Reject(r) \/ Panic(r) \/ Fail(r)
  BY <1>2, <1>3 DEF Deny, Reject, Panic, Fail
<1>4. CASE Refuse(r)
  <2>1. stage[r] = "authorised" /\ InUse(r) /\ Answer(r, "refused")
    BY <1>4 DEF Refuse
  <2>2. Snapshot(r) \in 0 .. Len(rows)
    BY Parts, RowsFacts DEF Snapshot, RequestOK, StageOK, IInv, TypeOK
  <2>3. \E i \in DOMAIN rows : Agree(rows[i], form[r], Service[form[r].kind].looksUp)
    BY <2>1, <2>2, RowsFacts DEF InUse, Among, IInv
  <2> QED BY <1>1, <2>1, <2>3, AnswerStep
<1>5. CASE Succeed(r)
  <2>1. stage[r] = "committed" /\ \E what \in {"kept", "panicked"} : Answer(r, what)
    BY <1>5 DEF Succeed
  <2>2. \E i \in DOMAIN rows : rows[i] = form[r]
    BY <2>1, Parts DEF RequestOK, ToldOK
  <2>3. CASE Answer(r, "kept")
    BY <1>1, <2>1, <2>2, <2>3, AnswerStep
  <2>4. CASE Answer(r, "panicked")
    BY <1>2, <2>1, <2>4
  <2> QED BY <2>1, <2>3, <2>4
<1> QED BY <1>3, <1>4, <1>5

\* A restart drops the requests in flight; their rows stay.
LEMMA RestartStep ==
  ASSUME IInv, Restart
  PROVE  IInv'
<1>1. /\ UNCHANGED <<rows, form>>
      /\ stage' = [r \in Requests |-> "idle"]
      /\ answer' = [r \in Requests |-> IF stage[r] = "idle" THEN answer[r] ELSE "panicked"]
      /\ seen' = [r \in Requests |-> None]
  BY DEF Restart
<1>2. TypeOK'
  BY <1>1 DEF IInv, TypeOK, Stages, Answers
<1>3. UniqueColumns'
  BY <1>1, Parts DEF UniqueColumns
<1>4. ASSUME NEW r \in Requests PROVE RequestOK(r)'
  <2>1. stage'[r] = "idle" /\ seen'[r] = None /\ answer'[r] \in {answer[r], "panicked"}
    BY <1>1
  <2>2. StageOK(r)' /\ LookedOK(r)'
    BY <2>1 DEF StageOK, LookedOK
  <2>3. ToldOK(r)'
    BY <1>1, <2>1, Parts DEF RequestOK, ToldOK
  <2> QED BY <2>2, <2>3 DEF RequestOK
<1> QED BY <1>2, <1>3, <1>4 DEF IInv, UniqueColumns, RequestOK, StageOK, LookedOK, ToldOK

-----------------------------------------------------------------------------
(***************************************************************************)
(* The step that inserts a row.                                            *)
(***************************************************************************)
\* The rows after an insertion: the same, and one more.
LEMMA Appended ==
  ASSUME TypeOK, NEW f \in Forms, rows' = Append(rows, f)
  PROVE  /\ Len(rows') = Len(rows) + 1 /\ DOMAIN rows' = 1 .. Len(rows) + 1
         /\ rows' \in Seq(Forms)
         /\ rows'[Len(rows) + 1] = f
         /\ \A i \in DOMAIN rows : i \in DOMAIN rows' /\ rows'[i] = rows[i]
         /\ \A i \in DOMAIN rows' : i \in DOMAIN rows \/ i = Len(rows) + 1
BY DEF TypeOK

\* The constraint that the commit checks keeps the columns unique.
LEMMA StillUnique ==
  ASSUME IInv, NEW f \in Forms, rows' = Append(rows, f),
         \A i \in DOMAIN rows : ~Agree(rows[i], f, Service[f.kind].unique)
  PROVE  UniqueColumns'
<1> DEFINE n == Len(rows) + 1
<1>0. TypeOK /\ UniqueColumns
  BY Parts
<1>1. /\ rows'[n] = f
      /\ \A i \in DOMAIN rows : rows'[i] = rows[i]
      /\ \A i \in DOMAIN rows' : i \in DOMAIN rows \/ i = n
  BY <1>0, Appended
<1> HIDE DEF n
<1> SUFFICES ASSUME NEW i \in DOMAIN rows', NEW j \in DOMAIN rows',
                    Agree(rows'[i], rows'[j], Service[rows'[i].kind].unique)
             PROVE  i = j
  BY DEF UniqueColumns
<1>2. CASE i \in DOMAIN rows /\ j \in DOMAIN rows
  BY <1>0, <1>1, <1>2 DEF UniqueColumns
<1>3. CASE i \in DOMAIN rows /\ j = n
  <2>1. Agree(rows[i], f, Service[rows[i].kind].unique)
    BY <1>1, <1>3
  <2>2. rows[i].kind = f.kind
    BY <2>1, AgreeSymmetric
  <2> QED BY <1>3, <2>1, <2>2
<1>4. CASE i = n /\ j \in DOMAIN rows
  <2>1. Agree(f, rows[j], Service[f.kind].unique)
    BY <1>1, <1>4
  <2>2. Agree(rows[j], f, Service[f.kind].unique)
    BY <2>1, AgreeSymmetric
  <2> QED BY <1>4, <2>2
<1> QED BY <1>1, <1>2, <1>3, <1>4

\* What a request had looked at is what it has looked at.
LEMMA LookedKept ==
  ASSUME IInv, NEW f \in Forms, rows' = Append(rows, f), NEW r \in Requests, seen'[r] = seen[r]
  PROVE  Looked(r)' = Looked(r) /\ \A i \in Looked(r) : rows'[i] = rows[i]
<1>0. TypeOK /\ RequestOK(r)
  BY Parts
<1>1. seen[r] # None => seen[r] \in Nat /\ seen[r] <= Len(rows)
  BY <1>0 DEF RequestOK, StageOK, TypeOK
<1>2. /\ DOMAIN rows = 1 .. Len(rows) /\ Len(rows) \in Nat
      /\ DOMAIN rows' = 1 .. Len(rows) + 1
      /\ \A i \in DOMAIN rows : rows'[i] = rows[i]
  BY <1>0, Appended, RowsFacts
<1>3. ASSUME NEW i PROVE i \in Looked(r)' <=> i \in Looked(r)
  BY <1>1, <1>2 DEF Looked
<1> QED BY <1>2, <1>3 DEF Looked

\* A commit keeps the invariant.
LEMMA CommitStep ==
  ASSUME IInv, NEW r \in Requests, Commit(r)
  PROVE  IInv'
<1>0. TypeOK
  BY DEF IInv
<1>1. /\ stage[r] = "created" /\ ~Collides(r) /\ Len(rows) < MaxRows
      /\ rows' = Append(rows, form[r]) /\ stage' = [stage EXCEPT ![r] = "committed"]
      /\ UNCHANGED <<form, seen, answer>>
  BY DEF Commit
<1>2. form[r] \in Forms /\ answer[r] = "none" /\ seen[r] # None
  BY <1>0, <1>1, Parts DEF RequestOK, StageOK, TypeOK
<1>3. /\ Len(rows') = Len(rows) + 1 /\ rows' \in Seq(Forms) /\ rows'[Len(rows) + 1] = form[r]
      /\ Len(rows) + 1 \in DOMAIN rows'
      /\ \A i \in DOMAIN rows : i \in DOMAIN rows' /\ rows'[i] = rows[i]
  BY <1>0, <1>1, <1>2, Appended, RowsFacts
<1>4. TypeOK'
  BY <1>0, <1>1, <1>3, RowsFacts, MaxRowsAssumption DEF TypeOK, Stages
<1>5. UniqueColumns'
  <2>1. \A i \in DOMAIN rows : ~Agree(rows[i], form[r], Service[form[r].kind].unique)
    BY <1>0, <1>1, RowsFacts DEF Collides, Among
  <2> QED BY <1>1, <1>2, <2>1, StillUnique
<1>6. ASSUME NEW q \in Requests PROVE RequestOK(q)'
  <2>1. RequestOK(q)
    BY Parts
  <2>2. /\ Looked(q)' = Looked(q) /\ \A i \in Looked(q) : rows'[i] = rows[i]
    BY <1>1, <1>2, LookedKept
  <2>3. stage'[q] = IF q = r THEN "committed" ELSE stage[q]
    BY <1>0, <1>1 DEF TypeOK
  <2>4. seen[q] # None => seen[q] <= Len(rows')
    BY <1>0, <1>3, <2>1, RowsFacts DEF RequestOK, StageOK, TypeOK
  <2>5. StageOK(q)'
    BY <1>1, <1>2, <2>1, <2>3, <2>4 DEF RequestOK, StageOK
  <2>6. LookedOK(q)'
    BY <1>1, <2>1, <2>2, <2>3 DEF RequestOK, LookedOK
  <2>7. ToldOK(q)'
    BY <1>1, <1>2, <1>3, <2>1, <2>3 DEF RequestOK, ToldOK
  <2> QED BY <2>5, <2>6, <2>7 DEF RequestOK
<1> QED BY <1>4, <1>5, <1>6 DEF IInv, UniqueColumns, RequestOK, StageOK, LookedOK, ToldOK

-----------------------------------------------------------------------------
\* The invariant holds when the program starts.
LEMMA InitStep == Init => IInv
<1> SUFFICES ASSUME Init PROVE IInv
  OBVIOUS
<1>1. TypeOK
  BY MaxRowsAssumption DEF Init, TypeOK, Stages, Answers
<1>2. UniqueColumns
  BY DEF Init, UniqueColumns
<1>3. ASSUME NEW r \in Requests PROVE RequestOK(r)
  BY DEF Init, RequestOK, StageOK, LookedOK, ToldOK
<1> QED BY <1>1, <1>2, <1>3, Parts

\* The invariant is inductive.
LEMMA NextStep == IInv /\ [Next]_vars => IInv'
<1> SUFFICES ASSUME IInv, [Next]_vars PROVE IInv'
  OBVIOUS
<1>1. CASE UNCHANGED vars
  BY <1>1 DEF vars, IInv, TypeOK, Looked
<1>2. ASSUME NEW r \in Requests, NEW f \in Forms, Submit(r, f) PROVE IInv'
  BY <1>2, SubmitStep
<1>3. ASSUME NEW r \in Requests, Authorise(r) PROVE IInv'
  BY <1>3, AuthoriseStep
<1>4. ASSUME NEW r \in Requests, Create(r) PROVE IInv'
  BY <1>4, CreateStep
<1>5. ASSUME NEW r \in Requests, Commit(r) PROVE IInv'
  BY <1>5, CommitStep
<1>6. ASSUME NEW r \in Requests,
             Deny(r) \/ Refuse(r) \/ Reject(r) \/ Panic(r) \/ Succeed(r) \/ Fail(r)
      PROVE  IInv'
  BY <1>6, EndsStep
<1>7. CASE Restart
  BY <1>7, RestartStep
<1> QED BY <1>1, <1>2, <1>3, <1>4, <1>5, <1>6, <1>7 DEF Next

(***************************************************************************)
(* Tickers, references, usernames and the sponsors of cards are unique; a  *)
(* request goes on only while what it saw has nothing that it repeats; and *)
(* whoever is told that the row was kept is told the truth, over restarts. *)
(***************************************************************************)
THEOREM Invariance == Spec => []IInv
<1>1. Init => IInv
  BY InitStep
<1>2. IInv /\ [Next]_vars => IInv'
  BY NextStep
<1> QED BY <1>1, <1>2, PTL DEF Spec

\* Every unique column is one that the service had looked for.
LEMMA UniqueIsLookedFor ==
  ASSUME NEW k \in Kinds
  PROVE  Service[k].unique \in {{}, Service[k].looksUp, Service[k].excludes}
BY DEF Kinds, Service, ConsumerOfferCreate, ProviderRequestCreate, AnonymousUserAccountCreate,
       WorkerApplicationCreate, SponsorCreditCardCreate, AuditorAuditRecordCreate

(***************************************************************************)
(* The panic page of a violated constraint is for overlapping requests:    *)
(* what was there when the request looked was told in the form.            *)
(***************************************************************************)
THEOREM OnlyOverlapsCollide == Spec => []CollisionsOverlap
<1>1. IInv => CollisionsOverlap
  <2> SUFFICES ASSUME IInv, NEW r \in Requests, stage[r] = "created", NEW i \in Looked(r)
               PROVE  ~Agree(rows[i], form[r], Service[form[r].kind].unique)
    BY DEF CollisionsOverlap
  <2>1. /\ ~Agree(rows[i], form[r], Service[form[r].kind].excludes)
        /\ ~Agree(rows[i], form[r], Service[form[r].kind].looksUp)
        /\ form[r] # None
    BY Parts DEF RequestOK, StageOK, LookedOK
  <2>2. form[r].kind \in Kinds
    BY <2>1, FormsAssumption DEF IInv, TypeOK, AllForms
  <2> QED BY <2>1, <2>2, UniqueIsLookedFor DEF Agree
<1> QED BY <1>1, Invariance, PTL

(***************************************************************************)
(* Whatever is created twice was created by requests that overlapped: the  *)
(* first row was not there when the transaction of the second looked.      *)
(***************************************************************************)
THEOREM RepeatsOverlap == Spec => OnlyOverlapsRepeat
<1>1. IInv /\ [Next]_vars => [RepeatsOnlyUnseen]_vars
  <2> SUFFICES ASSUME IInv, NEW r \in Requests, stage[r] = "created", NEW i \in DOMAIN rows,
                      \/ Agree(rows[i], form[r], Service[form[r].kind].excludes)
                      \/ Agree(rows[i], form[r], Service[form[r].kind].looksUp)
               PROVE  i > seen[r]
    BY DEF RepeatsOnlyUnseen
  <2>1. i \notin Looked(r) /\ seen[r] # None
    BY Parts DEF RequestOK, StageOK, LookedOK
  <2>2. seen[r] \in Nat /\ i \in Nat
    BY <2>1, RowsFacts DEF IInv, TypeOK
  <2> QED BY <2>1, <2>2 DEF Looked
<1> QED BY <1>1, Invariance, PTL DEF Spec, OnlyOverlapsRepeat

-----------------------------------------------------------------------------
(***************************************************************************)
(* The refinement of KeyRegistry: the keys.                                *)
(***************************************************************************)
\* Rows with the same key agree in their unique columns.
LEMMA SameKey ==
  ASSUME NEW f, NEW g, Keyed(f), Keyed(g), Key(f) = Key(g)
  PROVE  Agree(f, g, Service[f.kind].unique)
<1> DEFINE F == {"kind"} \union Service[f.kind].unique
           G == {"kind"} \union Service[g.kind].unique
<1>1. DOMAIN Key(f) = F /\ DOMAIN Key(g) = G
  BY DEF Key
<1>2. \A x \in F : Key(f)[x] = f[x] /\ Key(g)[x] = g[x]
  BY <1>1 DEF Key
<1>3. \A x \in F : f[x] = g[x]
  BY <1>2
<1>4. f.kind = g.kind
  BY <1>3
<1> QED BY <1>3, <1>4 DEF Agree, Keyed

\* Rows that agree in their unique columns have the same key.
LEMMA AgreeingKeys ==
  ASSUME NEW f, NEW g, Agree(f, g, Service[f.kind].unique)
  PROVE  Keyed(f) /\ Keyed(g) /\ Key(f) = Key(g)
<1> DEFINE F == {"kind"} \union Service[f.kind].unique
<1>1. f.kind = g.kind /\ \A x \in F : f[x] = g[x]
  BY DEF Agree
<1>2. Key(g) = [x \in F |-> g[x]] /\ Key(f) = [x \in F |-> f[x]]
  BY <1>1 DEF Key
<1> QED BY <1>1, <1>2 DEF Agree, Keyed

\* A row holds its key alone.
LEMMA HolderOf ==
  ASSUME TypeOK, UniqueColumns, NEW i \in DOMAIN rows, Keyed(rows[i])
  PROVE  Key(rows[i]) \in Keys /\ Holder[Key(rows[i])] = rows[i].user
<1> DEFINE k == Key(rows[i])
<1>1. k \in Keys
  BY RowsFacts DEF Keys
<1>2. i \in RowsOf(k)
  BY DEF RowsOf
<1>3. ASSUME NEW j \in RowsOf(k) PROVE j = i
  <2>1. j \in DOMAIN rows /\ Keyed(rows[j]) /\ Key(rows[j]) = k
    BY DEF RowsOf
  <2>2. Agree(rows[i], rows[j], Service[rows[i].kind].unique)
    BY <2>1, SameKey
  <2> QED BY <2>1, <2>2 DEF UniqueColumns
<1>4. RowsOf(k) # {} /\ (CHOOSE j \in RowsOf(k) : TRUE) = i
  BY <1>2, <1>3
<1> HIDE DEF k
<1>5. Holder[k] = rows[i].user
  BY <1>1, <1>4 DEF Holder
<1> QED BY <1>1, <1>5 DEF k

\* A key that no row has is held by nobody.
LEMMA HolderNone ==
  ASSUME NEW k \in Keys, RowsOf(k) = {}
  PROVE  Holder[k] = None
BY DEF Holder

\* The user of a form is a user.
LEMMA UserFacts ==
  ASSUME NEW f \in Forms
  PROVE  f.user \in Users /\ f.user # None /\ f.kind \in Kinds
BY FormsAssumption, NoneAssumption DEF AllForms

\* What request r wants, by its form.
LEMMA WantsOf ==
  ASSUME TypeOK, NEW r \in Requests, form[r] # None
  PROVE  /\ form[r] \in Forms
         /\ Keyed(form[r]) => /\ Wants[r] = [key |-> Key(form[r]), user |-> form[r].user]
                              /\ Wants[r] # None /\ Key(form[r]) \in Keys
         /\ ~Keyed(form[r]) => Wants[r] = None
<1>1. form[r] \in Forms
  BY DEF TypeOK
<1>2. Key(form[r]) \in Keys \/ ~Keyed(form[r])
  BY <1>1 DEF Keys
<1>3. form[r].user \in Users
  BY <1>1, UserFacts
<1> QED BY <1>1, <1>2, <1>3, NoWishAssumption DEF Wants

-----------------------------------------------------------------------------
(***************************************************************************)
(* The refinement of KeyRegistry: the steps.                               *)
(***************************************************************************)
\* Holders change with the rows only.
LEMMA SameHolders == UNCHANGED rows => Holder' = Holder
BY DEF Holder, RowsOf

\* Wishes change with the forms only.
LEMMA SameWants == UNCHANGED form => Wants' = Wants
BY DEF Wants

\* What is told of a request, by its answer.
LEMMA ToldOf ==
  ASSUME NEW r \in Requests
  PROVE  /\ answer[r] \notin {"kept", "refused"} \/ Wants[r] = None => Told[r] = None
         /\ answer[r] \in {"kept", "refused"} /\ Wants[r] # None => Told[r] = answer[r]
BY DEF Told

\* The same in the next state.
LEMMA ToldOfNext ==
  ASSUME NEW r \in Requests
  PROVE  /\ answer'[r] \notin {"kept", "refused"} \/ Wants'[r] = None => Told'[r] = None
         /\ answer'[r] \in {"kept", "refused"} /\ Wants'[r] # None => Told'[r] = answer'[r]
BY DEF Told

\* A new request asks for its key, or for none.
LEMMA RefSubmit ==
  ASSUME IInv, NEW r \in Requests, NEW f \in Forms, Submit(r, f)
  PROVE  \E w \in Registry!Wishes : Registry!Ask(r, w)
<1>0. TypeOK /\ TypeOK'
  BY SubmitStep DEF IInv
<1>1. form' = [form EXCEPT ![r] = f] /\ answer' = [answer EXCEPT ![r] = "none"] /\ UNCHANGED rows
  BY DEF Submit
<1>2. f # None /\ form'[r] = f /\ answer'[r] = "none"
  BY <1>0, <1>1, NoneFacts DEF TypeOK
<1> DEFINE w == IF Keyed(f) THEN [key |-> Key(f), user |-> f.user] ELSE None
<1>3. w \in Registry!Wishes
  BY UserFacts DEF Registry!Wishes, Keys
<1>4. Wants' = [Wants EXCEPT ![r] = w]
  <2>1. \A q \in Requests : q # r => form'[q] = form[q]
    BY <1>0, <1>1 DEF TypeOK
  <2>2. Wants'[r] = w /\ \A q \in Requests : q # r => Wants'[q] = Wants[q]
    BY <1>2, <2>1 DEF Wants
  <2> HIDE DEF w
  <2>3. Wants' \in [Requests -> {Wants'[q] : q \in Requests}]
        /\ Wants \in [Requests -> {Wants[q] : q \in Requests}]
    BY DEF Wants
  <2> QED BY <2>2, <2>3
<1>5. Told' = [Told EXCEPT ![r] = None]
  <2>1. Told'[r] = None
    BY <1>2, ToldOfNext
  <2>2. \A q \in Requests : q # r => answer'[q] = answer[q] /\ form'[q] = form[q]
    BY <1>0, <1>1 DEF TypeOK
  <2>3. \A q \in Requests : q # r => Told'[q] = Told[q]
    BY <2>2 DEF Told, Wants
  <2>4. Told' \in [Requests -> {Told'[q] : q \in Requests}]
        /\ Told \in [Requests -> {Told[q] : q \in Requests}]
    BY DEF Told
  <2> QED BY <2>1, <2>3, <2>4
<1>6. Holder' = Holder
  BY <1>1, SameHolders
<1> HIDE DEF w
<1> QED BY <1>3, <1>4, <1>5, <1>6 DEF Registry!Ask

\* An answer changes what is told of its request only.
LEMMA ToldChange ==
  ASSUME IInv, NEW r \in Requests, NEW what, answer' = [answer EXCEPT ![r] = what],
         UNCHANGED <<rows, form>>
  PROVE  /\ Holder' = Holder /\ Wants' = Wants
         /\ Told' = [Told EXCEPT ![r] = Told'[r]] /\ answer'[r] = what
<1>1. answer'[r] = what /\ \A q \in Requests : q # r => answer'[q] = answer[q]
  BY DEF IInv, TypeOK
<1>2. Wants' = Wants
  BY SameWants
<1>3. \A q \in Requests : q # r => Told'[q] = Told[q]
  BY <1>1, <1>2 DEF Told
<1>4. Told' \in [Requests -> {Told'[q] : q \in Requests}]
      /\ Told \in [Requests -> {Told[q] : q \in Requests}]
  BY DEF Told
<1> QED BY <1>1, <1>2, <1>3, <1>4, SameHolders

\* A service that looks something up does so by its unique column.
LEMMA LookedForIsUnique ==
  ASSUME NEW k \in Kinds, Service[k].looksUp # {}
  PROVE  Service[k].looksUp = Service[k].unique
BY DEF Kinds, Service, ConsumerOfferCreate, ProviderRequestCreate, AnonymousUserAccountCreate,
       WorkerApplicationCreate, SponsorCreditCardCreate, AuditorAuditRecordCreate

\* An answer tells of a key that is held by its user, or by somebody.
LEMMA RefAnswer ==
  ASSUME IInv, NEW r \in Requests, stage[r] # "idle", NEW what, Answer(r, what),
         what = "kept" => \E i \in DOMAIN rows : rows[i] = form[r],
         what = "refused" => InUse(r) /\ stage[r] = "authorised"
  PROVE  Registry!Tell(r) \/ Registry!Refuse(r) \/ UNCHANGED Registry!vars
<1>0. TypeOK /\ UniqueColumns /\ form[r] # None /\ answer[r] = "none"
  BY Parts DEF RequestOK, StageOK
<1>1. answer' = [answer EXCEPT ![r] = what] /\ UNCHANGED <<rows, form>>
  BY DEF Answer
<1>2. /\ Holder' = Holder /\ Wants' = Wants
      /\ Told' = [Told EXCEPT ![r] = Told'[r]] /\ answer'[r] = what
  BY <1>1, ToldChange
<1>3. Told[r] = None
  BY <1>0, ToldOf
<1>4. CASE what \notin {"kept", "refused"} \/ ~Keyed(form[r])
  <2>1. Told'[r] = None
    BY <1>0, <1>2, <1>4, ToldOfNext, WantsOf
  <2>2. Told' = Told
    BY <1>2, <1>3, <2>1 DEF Told
  <2> QED BY <1>2, <2>2 DEF Registry!vars
<1>5. ASSUME what \in {"kept", "refused"}, Keyed(form[r])
      PROVE  Told' = [Told EXCEPT ![r] = what] /\ Wants[r] # None
             /\ Wants[r].key = Key(form[r]) /\ Wants[r].user = form[r].user
  <2>1. Wants[r] # None /\ Wants[r] = [key |-> Key(form[r]), user |-> form[r].user]
    BY <1>0, <1>5, WantsOf
  <2>2. Told'[r] = what
    BY <1>2, <1>5, <2>1, ToldOfNext
  <2> QED BY <1>2, <2>1, <2>2
<1>6. CASE what = "kept" /\ Keyed(form[r])
  <2>1. PICK i \in DOMAIN rows : rows[i] = form[r]
    BY <1>6
  <2>2. Holder[Wants[r].key] = Wants[r].user
    BY <1>0, <1>5, <1>6, <2>1, HolderOf
  <2> QED BY <1>2, <1>3, <1>5, <1>6, <2>2 DEF Registry!Tell
<1>7. CASE what = "refused" /\ Keyed(form[r])
  <2>1. PICK i \in DOMAIN rows : Agree(rows[i], form[r], Service[form[r].kind].looksUp)
    <3>1. Snapshot(r) \in 0 .. Len(rows)
      BY <1>0, Parts, RowsFacts DEF Snapshot, RequestOK, StageOK, TypeOK
    <3> QED BY <1>0, <1>7, <3>1, RowsFacts DEF InUse, Among
  <2>2. Agree(form[r], rows[i], Service[form[r].kind].unique)
    <3>1. Service[form[r].kind].looksUp # {} /\ form[r] \in Forms
      BY <1>0, <2>1 DEF Agree, TypeOK
    <3>2. Service[form[r].kind].looksUp = Service[form[r].kind].unique
      BY <3>1, UserFacts, LookedForIsUnique
    <3> QED BY <2>1, <3>2, AgreeSymmetric
  <2>3. Keyed(rows[i]) /\ Key(rows[i]) = Key(form[r])
    BY <2>2, AgreeingKeys
  <2>4. Holder[Wants[r].key] = rows[i].user
    BY <1>0, <1>5, <1>7, <2>3, HolderOf
  <2>5. rows[i].user # None
    BY <1>0, RowsFacts, UserFacts
  <2> QED BY <1>2, <1>3, <1>5, <1>7, <2>4, <2>5 DEF Registry!Refuse
<1> QED BY <1>4, <1>6, <1>7

\* Without a change of answers and forms nothing new is told.
LEMMA NothingTold ==
  UNCHANGED <<form, answer>> => Wants' = Wants /\ Told' = Told
BY DEF Wants, Told

\* A commit gives the key of its row, which nobody had, or is about none.
LEMMA RefCommit ==
  ASSUME IInv, NEW r \in Requests, Commit(r)
  PROVE  Registry!Give(r) \/ UNCHANGED Registry!vars
<1>0. TypeOK /\ UniqueColumns /\ UniqueColumns' /\ TypeOK'
  BY CommitStep, Parts DEF IInv, UniqueColumns
<1>1. /\ stage[r] = "created" /\ ~Collides(r)
      /\ rows' = Append(rows, form[r]) /\ UNCHANGED <<form, answer>>
  BY DEF Commit
<1>2. form[r] # None /\ form[r] \in Forms /\ answer[r] = "none"
  BY <1>0, <1>1, Parts DEF RequestOK, StageOK, TypeOK
<1>3. Wants' = Wants /\ Told' = Told /\ Told[r] = None
  BY <1>1, <1>2, NothingTold, ToldOf
<1> DEFINE n == Len(rows) + 1
<1>4. /\ rows'[n] = form[r] /\ n \in DOMAIN rows' /\ n \notin DOMAIN rows
      /\ \A i \in DOMAIN rows : i \in DOMAIN rows' /\ rows'[i] = rows[i]
      /\ \A i \in DOMAIN rows' : i \in DOMAIN rows \/ i = n
  BY <1>0, <1>1, <1>2, Appended, RowsFacts
<1> HIDE DEF n
\* The rows of the other keys are the same, and so are their holders.
<1>5. ASSUME NEW k \in Keys, ~(Keyed(form[r]) /\ k = Key(form[r]))
      PROVE  Holder'[k] = Holder[k]
  <2>1. RowsOf(k)' = RowsOf(k)
    BY <1>4, <1>5 DEF RowsOf
  <2>2. \A i \in RowsOf(k) : rows'[i] = rows[i]
    BY <1>4 DEF RowsOf
  <2>3. RowsOf(k) # {} => (CHOOSE i \in RowsOf(k) : TRUE) \in RowsOf(k)
    OBVIOUS
  <2> QED BY <2>1, <2>2, <2>3 DEF Holder
<1>6. Holder \in [Keys -> {Holder[k] : k \in Keys}] /\ Holder' \in [Keys -> {Holder'[k] : k \in Keys}]
  BY DEF Holder
<1>7. CASE ~Keyed(form[r])
  <2>1. Holder' = Holder
    BY <1>5, <1>6, <1>7
  <2> QED BY <1>3, <2>1 DEF Registry!vars
<1>8. ASSUME NEW k \in Keys, Keyed(form[r]), k = Key(form[r])
      PROVE  Registry!Give(r)
  <2>1. k \in Keys /\ Wants[r] # None /\ Wants[r] = [key |-> k, user |-> form[r].user]
    BY <1>0, <1>2, <1>8, WantsOf
  <2>2. Holder[k] = None
    <3>1. ASSUME NEW i \in RowsOf(k) PROVE FALSE
      <4>1. i \in DOMAIN rows /\ Keyed(rows[i]) /\ Key(rows[i]) = k
        BY DEF RowsOf
      <4>2. Agree(form[r], rows[i], Service[form[r].kind].unique)
        BY <1>8, <4>1, SameKey
      <4>3. Agree(rows[i], form[r], Service[form[r].kind].unique)
        BY <4>2, AgreeSymmetric
      <4> QED BY <1>0, <1>1, <4>1, <4>3, RowsFacts DEF Collides, Among
    <3> QED BY <2>1, <3>1, HolderNone
  <2>3. Holder'[k] = form[r].user
    <3>1. /\ RowsOf(k)' # {}
          /\ \A i \in RowsOf(k)' : rows'[i] = form[r]
      <4>1. n \in RowsOf(k)'
        BY <1>4, <1>8 DEF RowsOf
      <4>2. ASSUME NEW i \in RowsOf(k)' PROVE i = n
        <5>1. i \in DOMAIN rows' /\ Keyed(rows'[i]) /\ Key(rows'[i]) = k
          BY DEF RowsOf
        <5>2. Agree(rows'[i], rows'[n], Service[rows'[i].kind].unique)
          BY <1>4, <1>8, <5>1, SameKey
        <5> QED BY <1>0, <1>4, <5>1, <5>2 DEF UniqueColumns
      <4> QED BY <1>4, <4>1, <4>2
    <3>2. (CHOOSE i \in RowsOf(k)' : TRUE) \in RowsOf(k)'
      BY <3>1
    <3> QED BY <2>1, <3>1, <3>2 DEF Holder
  <2>4. Holder' = [Holder EXCEPT ![k] = form[r].user]
    BY <1>5, <1>6, <1>8, <2>1, <2>3
  <2> QED BY <1>3, <2>1, <2>2, <2>4 DEF Registry!Give
<1>9. Keyed(form[r]) => Key(form[r]) \in Keys
  BY <1>0, <1>2, WantsOf
<1> QED BY <1>7, <1>8, <1>9

\* A restart changes nothing of what was given or told.
LEMMA RefRestart ==
  ASSUME IInv, Restart
  PROVE  UNCHANGED Registry!vars
<1>1. /\ UNCHANGED <<rows, form>>
      /\ answer' = [r \in Requests |-> IF stage[r] = "idle" THEN answer[r] ELSE "panicked"]
  BY DEF Restart
<1>2. Holder' = Holder /\ Wants' = Wants
  BY <1>1, SameHolders, SameWants
<1>3. ASSUME NEW r \in Requests PROVE Told'[r] = Told[r]
  <2>1. CASE stage[r] = "idle"
    <3>1. answer'[r] = answer[r]
      BY <1>1, <2>1
    <3> QED BY <1>2, <3>1 DEF Told
  <2>2. CASE stage[r] # "idle"
    <3>1. answer[r] = "none" /\ answer'[r] = "panicked"
      BY <1>1, <2>2, Parts DEF RequestOK, StageOK
    <3> QED BY <3>1, ToldOf, ToldOfNext
  <2> QED BY <2>1, <2>2
<1>4. Told' = Told
  BY <1>3 DEF Told
<1> QED BY <1>2, <1>4 DEF Registry!vars

\* The initial states map to the initial state of the registry.
LEMMA RefInit == Init => Registry!Init
<1> SUFFICES ASSUME Init PROVE Registry!Init
  OBVIOUS
<1>1. Holder = [k \in Keys |-> None]
  BY DEF Init, Holder, RowsOf
<1>2. Wants = [r \in Requests |-> None]
  BY DEF Init, Wants
<1>3. Told = [r \in Requests |-> None]
  BY DEF Init, Told
<1> QED BY <1>1, <1>2, <1>3 DEF Registry!Init

\* Every step maps to one of the registry or to a stutter.
LEMMA RefNext == IInv /\ [Next]_vars => [Registry!Next]_(Registry!vars)
<1> SUFFICES ASSUME IInv, [Next]_vars PROVE Registry!Next \/ UNCHANGED Registry!vars
  OBVIOUS
<1>1. CASE UNCHANGED vars
  BY <1>1, SameHolders, NothingTold DEF vars, Registry!vars
<1>2. ASSUME NEW r \in Requests, NEW f \in Forms, Submit(r, f)
      PROVE  Registry!Next \/ UNCHANGED Registry!vars
  BY <1>2, RefSubmit DEF Registry!Next
<1>3. ASSUME NEW r \in Requests, Authorise(r) \/ Create(r)
      PROVE  Registry!Next \/ UNCHANGED Registry!vars
  <2>1. UNCHANGED <<rows, form, answer>>
    BY <1>3 DEF Authorise, Create
  <2> QED BY <2>1, SameHolders, NothingTold DEF Registry!vars
<1>4. ASSUME NEW r \in Requests, Commit(r)
      PROVE  Registry!Next \/ UNCHANGED Registry!vars
  BY <1>4, RefCommit DEF Registry!Next
<1>5. ASSUME NEW r \in Requests,
             Deny(r) \/ Refuse(r) \/ Reject(r) \/ Panic(r) \/ Succeed(r) \/ Fail(r)
      PROVE  Registry!Next \/ UNCHANGED Registry!vars
  <2>1. PICK what : /\ stage[r] # "idle" /\ Answer(r, what)
                    /\ what = "kept" => stage[r] = "committed"
                    /\ what = "refused" => InUse(r) /\ stage[r] = "authorised"
    BY <1>5 DEF Deny, Refuse, Reject, Panic, Succeed, Fail
  <2>2. what = "kept" => \E i \in DOMAIN rows : rows[i] = form[r]
    BY <2>1, Parts DEF RequestOK, ToldOK
  <2> QED BY <2>1, <2>2, RefAnswer DEF Registry!Next
<1>6. CASE Restart
  BY <1>6, RefRestart
<1> QED BY <1>1, <1>2, <1>3, <1>4, <1>5, <1>6 DEF Next

(***************************************************************************)
(* The create services keep the promises of a registry of keys: a ticker,  *)
(* reference or username and a sponsor's card are given once and for good, *)
(* and what clients are told of them is true.                              *)
(***************************************************************************)
THEOREM Refinement == Spec => ImplementsRegistry
<1>1. Init => Registry!Init
  BY RefInit
<1>2. IInv /\ [Next]_vars => [Registry!Next]_(Registry!vars)
  BY RefNext
<1> QED BY <1>1, <1>2, Invariance, PTL DEF Spec, ImplementsRegistry, Registry!Spec

=============================================================================
