--------------------------- MODULE UniqueReferences ---------------------------
(***************************************************************************)
(* The features that create something once: an offer or a request under a  *)
(* ticker, an application under a reference and one for each worker and    *)
(* job, an account under a username, a credit card for each sponsor, and   *)
(* an audit record for each auditor and job.                               *)
(*                                                                         *)
(* They look first and insert later, in one transaction, which reads the   *)
(* rows as they were when it first looked; what keeps two overlapping      *)
(* requests apart is a unique column, where there is one.  Rows of these   *)
(* tables are never deleted, nor are the fields below ever changed, so     *)
(* that a snapshot is a prefix of the rows in the order of their commits.  *)
(***************************************************************************)
EXTENDS Naturals, Sequences

CONSTANTS
  Users, References, Jobs,
  Forms,      \* the forms that may be submitted
  Requests,   \* what may be in flight at a time
  MaxRows,    \* the bound of the rows
  None

(***************************************************************************)
(* The services: the fields by which authorise finds that the thing is     *)
(* there already, those by which validate does, and the unique column.     *)
(***************************************************************************)
ConsumerOfferCreate == [excludes |-> {}, looksUp |-> {"reference"}, unique |-> {"reference"}]
ProviderRequestCreate == [excludes |-> {}, looksUp |-> {"reference"}, unique |-> {"reference"}]
AnonymousUserAccountCreate ==
  [excludes |-> {}, looksUp |-> {"reference"}, unique |-> {"reference"}]
WorkerApplicationCreate ==
  [excludes |-> {"user", "job"}, looksUp |-> {"reference"}, unique |-> {"reference"}]
SponsorCreditCardCreate == [excludes |-> {"user"}, looksUp |-> {}, unique |-> {"user"}]
AuditorAuditRecordCreate == [excludes |-> {"user", "job"}, looksUp |-> {}, unique |-> {}]

Service ==
  [offer |-> ConsumerOfferCreate, request |-> ProviderRequestCreate,
   userAccount |-> AnonymousUserAccountCreate, application |-> WorkerApplicationCreate,
   creditCard |-> SponsorCreditCardCreate, auditRecord |-> AuditorAuditRecordCreate]

Kinds == DOMAIN Service
AllForms == [kind : Kinds, user : Users, reference : References \union {None},
             job : Jobs \union {None}]

ASSUME FormsAssumption == Forms \subseteq AllForms
ASSUME MaxRowsAssumption == MaxRows \in Nat
ASSUME NoneAssumption ==
  None \notin Forms \union Users \union Nat \union {"kept", "refused"}

VARIABLES
  rows,      \* what has been created, in the order of the commits
  stage,     \* where each request is
  form,      \* its form
  seen,      \* how many rows there were when its transaction first looked
  answer     \* what its client was told

vars == <<rows, stage, form, seen, answer>>

Stages == {"idle", "arrived", "authorised", "created", "committed"}
Answers == {"none", "denied", "refused", "invalid", "panicked", "kept"}

TypeOK ==
  /\ rows \in Seq(Forms) /\ Len(rows) <= MaxRows
  /\ stage \in [Requests -> Stages]
  /\ form \in [Requests -> Forms \union {None}]
  /\ seen \in [Requests -> (0 .. MaxRows) \union {None}]
  /\ answer \in [Requests -> Answers]

-----------------------------------------------------------------------------
\* Two things of one kind with the same values in some fields.
Agree(f, g, fields) ==
  fields # {} /\ f.kind = g.kind /\ \A x \in fields : f[x] = g[x]

\* A mutant of Among: the last of the rows is left out.
AmongButLast(f, fields, n) == \E i \in 1 .. n - 1 : Agree(rows[i], f, fields)

Among(f, fields, n) == \E i \in 1 .. n : Agree(rows[i], f, fields)

\* The first query of a transaction fixes what it sees.
Snapshot(r) == IF seen[r] = None THEN Len(rows) ELSE seen[r]

Submit(r, f) ==
  /\ stage[r] = "idle"
  /\ stage' = [stage EXCEPT ![r] = "arrived"]
  /\ form' = [form EXCEPT ![r] = f]
  /\ answer' = [answer EXCEPT ![r] = "none"]
  /\ UNCHANGED <<rows, seen>>

Answer(r, what) ==
  /\ stage' = [stage EXCEPT ![r] = "idle"]
  /\ seen' = [seen EXCEPT ![r] = None]
  /\ answer' = [answer EXCEPT ![r] = what]
  /\ UNCHANGED <<rows, form>>

\* A mutant of Excluded: authorise always agrees.
NeverExcluded(r) == FALSE

Excluded(r) == Among(form[r], Service[form[r].kind].excludes, Len(rows))

Authorise(r) ==
  /\ stage[r] = "arrived" /\ ~Excluded(r)
  /\ seen' = [seen EXCEPT ![r] = IF Service[form[r].kind].excludes = {} THEN None ELSE Len(rows)]
  /\ stage' = [stage EXCEPT ![r] = "authorised"]
  /\ UNCHANGED <<rows, form, answer>>

\* Not authorised: the transaction is rolled back.
Deny(r) == stage[r] = "arrived" /\ Excluded(r) /\ Answer(r, "denied")

\* A mutant of InUse: validate looks at nothing.
NeverInUse(r) == FALSE

InUse(r) == Among(form[r], Service[form[r].kind].looksUp, Snapshot(r))

\* validate finds no error, and create saves the entity.
Create(r) ==
  /\ stage[r] = "authorised" /\ ~InUse(r)
  /\ seen' = [seen EXCEPT ![r] = Snapshot(r)]
  /\ stage' = [stage EXCEPT ![r] = "created"]
  /\ UNCHANGED <<rows, form, answer>>

\* validate finds that the reference is in use, perhaps among other errors.
Refuse(r) == stage[r] = "authorised" /\ InUse(r) /\ Answer(r, "refused")

\* Other errors: a deadline in the past, terms not accepted, an expired card...
Reject(r) == stage[r] = "authorised" /\ ~InUse(r) /\ Answer(r, "invalid")

\* A mutant of Collides: the column is not unique.
NeverCollides(r) == FALSE

\* The unique column against all the rows, the ones not seen included.
Collides(r) == Among(form[r], Service[form[r].kind].unique, Len(rows))

Commit(r) ==
  /\ stage[r] = "created" /\ ~Collides(r)
  /\ Len(rows) < MaxRows
  /\ rows' = Append(rows, form[r])
  /\ stage' = [stage EXCEPT ![r] = "committed"]
  /\ UNCHANGED <<form, seen, answer>>

\* The commit violates the column's constraint: rolled back, with a panic page.
Panic(r) == stage[r] = "created" /\ Collides(r) /\ Answer(r, "panicked")

\* onSuccess, in its own transaction; when it fails, what was created stays.
Succeed(r) ==
  stage[r] = "committed" /\ \E what \in {"kept", "panicked"} : Answer(r, what)

\* Anything else that throws before the commit.
Fail(r) == stage[r] \in {"arrived", "authorised", "created"} /\ Answer(r, "panicked")

\* The server restarts: requests are lost, at whatever stage they are.
Restart ==
  /\ \E r \in Requests : stage[r] # "idle"
  /\ stage' = [r \in Requests |-> "idle"]
  /\ answer' = [r \in Requests |-> IF stage[r] = "idle" THEN answer[r] ELSE "panicked"]
  /\ seen' = [r \in Requests |-> None]
  /\ UNCHANGED <<rows, form>>

Init ==
  /\ rows = <<>>
  /\ stage = [r \in Requests |-> "idle"]
  /\ form = [r \in Requests |-> None]
  /\ seen = [r \in Requests |-> None]
  /\ answer = [r \in Requests |-> "none"]

Next ==
  \/ \E r \in Requests, f \in Forms : Submit(r, f)
  \/ \E r \in Requests :
       \/ Authorise(r) \/ Deny(r) \/ Create(r) \/ Refuse(r) \/ Reject(r)
       \/ Commit(r) \/ Panic(r) \/ Succeed(r) \/ Fail(r)
  \/ Restart

Spec == Init /\ [][Next]_vars

-----------------------------------------------------------------------------
\* The rows that a request had looked at.
Looked(r) == {i \in DOMAIN rows : seen[r] # None /\ i <= seen[r]}

(***************************************************************************)
(* The inductive invariant: the unique columns are, a transaction that has *)
(* looked goes on because what it saw had nothing that its form repeats,   *)
(* and clients are told the truth about what was kept.                     *)
(***************************************************************************)
IInv ==
  /\ TypeOK
  /\ \A i, j \in DOMAIN rows : Agree(rows[i], rows[j], Service[rows[i].kind].unique) => i = j
  /\ \A r \in Requests :
       /\ stage[r] # "idle" => form[r] # None /\ answer[r] = "none"
       /\ stage[r] \in {"idle", "arrived"} => seen[r] = None
       /\ stage[r] = "created" => seen[r] # None
       /\ stage[r] = "authorised" /\ seen[r] = None => Service[form[r].kind].excludes = {}
       /\ seen[r] # None => seen[r] <= Len(rows)
       /\ stage[r] \in {"authorised", "created"} => \A i \in Looked(r) :
            /\ ~Agree(rows[i], form[r], Service[form[r].kind].excludes)
            /\ stage[r] = "created" => ~Agree(rows[i], form[r], Service[form[r].kind].looksUp)
       /\ stage[r] = "committed" \/ answer[r] = "kept" => \E i \in DOMAIN rows : rows[i] = form[r]
       /\ answer[r] \in {"kept", "refused"} => form[r] # None
       /\ answer[r] = "refused" => \E i \in DOMAIN rows :
            Agree(rows[i], form[r], Service[form[r].kind].looksUp)

(***************************************************************************)
(* A constraint of the database stops only what overlapped: whoever comes  *)
(* after the row was there is told so in the form, and gets no panic page. *)
(***************************************************************************)
CollisionsOverlap ==
  \A r \in Requests : stage[r] = "created" =>
    \A i \in Looked(r) : ~Agree(rows[i], form[r], Service[form[r].kind].unique)

(***************************************************************************)
(* Nothing is created twice, by a user who sends a form again after it got *)
(* no good answer for instance, but by requests that overlap: a repeated   *)
(* row was not there when the transaction that repeats it looked.          *)
(***************************************************************************)
RepeatsOnlyUnseen ==
  \A r \in Requests : stage[r] = "created" /\ stage'[r] = "committed" =>
    \A i \in DOMAIN rows :
      \/ Agree(rows[i], form[r], Service[form[r].kind].excludes)
      \/ Agree(rows[i], form[r], Service[form[r].kind].looksUp)
      => i > seen[r]
OnlyOverlapsRepeat == [][RepeatsOnlyUnseen]_vars

(***************************************************************************)
(* What the unique columns make of it: KeyRegistry, the keys being the     *)
(* tickers, references, usernames and the sponsors of credit cards.        *)
(***************************************************************************)
Keyed(f) == Service[f.kind].unique # {}
Key(f) == [x \in {"kind"} \union Service[f.kind].unique |-> f[x]]
Keys == {Key(f) : f \in {g \in Forms : Keyed(g)}}
\* A request that wants no key is no request for one.
ASSUME NoWishAssumption == None \notin [key : Keys, user : Users]

RowsOf(k) == {i \in DOMAIN rows : Keyed(rows[i]) /\ Key(rows[i]) = k}

Holder ==
  [k \in Keys |-> IF RowsOf(k) = {} THEN None ELSE rows[CHOOSE i \in RowsOf(k) : TRUE].user]
Wants ==
  [r \in Requests |-> IF form[r] = None THEN None
                       ELSE IF Keyed(form[r]) THEN [key |-> Key(form[r]), user |-> form[r].user]
                       ELSE None]
Told ==
  [r \in Requests |->
    IF answer[r] \in {"kept", "refused"} /\ Wants[r] # None THEN answer[r] ELSE None]

Registry == INSTANCE KeyRegistry WITH holder <- Holder, wants <- Wants, told <- Told
ImplementsRegistry == Registry!Spec

=============================================================================
