----------------------- MODULE OptimisticLockingProofs -----------------------
(***************************************************************************)
(* Proofs about OptimisticLocking, for any entities, values and clients.   *)
(***************************************************************************)
EXTENDS OptimisticLocking, TLAPS

-----------------------------------------------------------------------------
(***************************************************************************)
(* Types.                                                                  *)
(***************************************************************************)
LEMMA RowFacts ==
  ASSUME NEW x \in Rows
  PROVE  x # NoRow /\ x.version \in Nat /\ x.value \in Values
BY NoRowAssumption DEF Rows

LEMMA FormFacts ==
  ASSUME NEW f \in Forms
  PROVE  /\ f # NoForm /\ f.id \in Ids /\ f.version \in Nat
         /\ f.shown \in Values /\ f.value \in Values
BY NoFormAssumption DEF Forms

LEMMA FilledForm ==
  ASSUME NEW f \in Forms, NEW v \in Values
  PROVE  /\ Filled(f, v) \in Forms
         /\ Filled(f, v).id = f.id
         /\ Filled(f, v).version = f.version
         /\ Filled(f, v).shown = f.shown
         /\ Filled(f, v).value = v
BY DEF Filled, Forms

LEMMA InitType == Init => TypeOK
BY DEF Init, TypeOK, Commands, Replies

LEMMA NextType == TypeOK /\ [Next]_vars => TypeOK'
<1> SUFFICES ASSUME TypeOK, [Next]_vars PROVE TypeOK'
  OBVIOUS
<1>1. ASSUME NEW e \in Ids, NEW v \in Values, Create(e, v) PROVE TypeOK'
  <2>1. [version |-> 0, value |-> v] \in Rows
    BY DEF Rows
  <2> QED BY <1>1, <2>1 DEF TypeOK, Commands, Replies, Create
<1>2. ASSUME NEW c \in Clients, NEW e \in Ids, Show(c, e) PROVE TypeOK'
  <2>1. row[e] \in Rows
    BY <1>2 DEF TypeOK, Commands, Replies, Show
  <2>2. [id |-> e, version |-> row[e].version,
         shown |-> row[e].value, value |-> row[e].value] \in Forms
    BY <2>1 DEF Rows, Forms
  <2> QED BY <1>2, <2>2 DEF TypeOK, Commands, Replies, Show
<1>3. ASSUME NEW c \in Clients, NEW command \in {"update", "delete"}, NEW v \in Values,
             Submit(c, command, v)
      PROVE TypeOK'
  <2>1. form[c] \in Forms
    BY <1>3 DEF TypeOK, Commands, Replies, Submit
  <2>2. Filled(form[c], v) \in Forms /\ form[c].id \in Ids
    BY <2>1, FilledForm, FormFacts
  <2>3. form' \in [Clients -> Forms \union {NoForm}]
    BY <1>3, <2>2 DEF TypeOK, Submit
  <2>4. \A d \in Clients : request'[d] # "none" => form'[d] # NoForm
    BY <1>3, <2>2, NoFormAssumption DEF TypeOK, Submit
  <2> QED BY <1>3, <2>2, <2>3, <2>4 DEF TypeOK, Commands, Replies, Submit
<1>4. ASSUME NEW c \in Clients, NEW d \in Clients, Resend(c, d) PROVE TypeOK'
  <2>1. form[c] \in Forms
    BY <1>4 DEF TypeOK, Commands, Replies, Resend
  <2>2. form[c].id \in Ids
    BY <2>1, FormFacts
  <2> QED BY <1>4, <2>1, <2>2 DEF TypeOK, Commands, Replies, Resend
<1>5. ASSUME NEW c \in Clients, Invalid(c) PROVE TypeOK'
  BY <1>5 DEF TypeOK, Commands, Replies, Invalid, Return
<1>6. ASSUME NEW c \in Clients, Panic(c) PROVE TypeOK'
  BY <1>6 DEF TypeOK, Commands, Replies, Panic, Return
<1>7. ASSUME NEW c \in Clients, Update(c) PROVE TypeOK'
  <2>1. form[c] \in Forms /\ snapshot[c] \in Rows
    BY <1>7 DEF TypeOK, Commands, Replies, Update, MergeAccepts
  <2>2. [version |-> NextVersion(c), value |-> form[c].value] \in Rows
    BY <2>1, FormFacts, RowFacts DEF NextVersion, Rows
  <2>3. row' \in [Ids -> Rows \union {NoRow}]
    BY <1>7, <2>1, <2>2 DEF TypeOK, Commands, Replies, Update
  <2> QED BY <1>7, <2>3 DEF TypeOK, Commands, Replies, Update, Return
<1>8. ASSUME NEW c \in Clients, Delete(c) PROVE TypeOK'
  BY <1>8 DEF TypeOK, Commands, Replies, Delete, Return
<1>9. ASSUME UNCHANGED vars PROVE TypeOK'
  BY <1>9 DEF TypeOK, Commands, Replies, vars
<1> QED BY <1>1, <1>2, <1>3, <1>4, <1>5, <1>6, <1>7, <1>8, <1>9 DEF Next

(***************************************************************************)
(* Whatever happens, rows, forms, requests and snapshots keep their types. *)
(***************************************************************************)
THEOREM TypeCorrect == Spec => []TypeOK
BY InitType, NextType, PTL DEF Spec

-----------------------------------------------------------------------------
(***************************************************************************)
(* The inductive invariant.                                                *)
(***************************************************************************)
Agreement ==
  FormsAgree /\ ReadsAgree /\ FormsAgreeWithReads /\ FormsBehind /\ ReadsBehind
  /\ IdsUsedOnce

\* Steps that leave rows and forms alone, and forget what was read.
LEMMA Forgetting ==
  ASSUME Agreement, row' = row, form' = form, unused' = unused,
         \A d \in Clients : request'[d] # "none" =>
            request[d] # "none" /\ snapshot'[d] = snapshot[d]
  PROVE  Agreement'
BY DEF Agreement, FormsAgree, ReadsAgree, FormsAgreeWithReads, FormsBehind,
       ReadsBehind, IdsUsedOnce, FormOf, ReadOf

LEMMA ReturnForgets ==
  ASSUME TypeOK, NEW c \in Clients, NEW a, Return(c, a)
  PROVE  /\ unused' = unused
         /\ \A d \in Clients : request'[d] # "none" =>
              d # c /\ request[d] # "none" /\ snapshot'[d] = snapshot[d]
BY DEF TypeOK, Return

LEMMA CreateAgrees ==
  ASSUME TypeOK, Agreement, NEW e \in Ids, NEW v \in Values, Create(e, v)
  PROVE  Agreement'
<1>1. \A c \in Clients : ~FormOf(c, e)
  BY DEF Agreement, IdsUsedOnce, Create
<1>2. /\ form' = form /\ request' = request /\ snapshot' = snapshot
      /\ \A x \in Ids : x # e => row'[x] = row[x]
      /\ unused' = unused \ {e}
  BY DEF TypeOK, Create
<1>3. \A c \in Clients, x \in Ids :
        (FormOf(c, x)' <=> FormOf(c, x)) /\ (ReadOf(c, x)' <=> ReadOf(c, x))
  BY <1>2 DEF FormOf, ReadOf
<1>4. \A c \in Clients, x \in Ids : FormOf(c, x) => x # e
  BY <1>1
<1>5. \A c \in Clients, x \in Ids : ReadOf(c, x) => FormOf(c, x)
  BY DEF ReadOf
<1>6. FormsAgree' /\ ReadsAgree' /\ FormsAgreeWithReads'
  BY <1>2, <1>3 DEF Agreement, FormsAgree, ReadsAgree, FormsAgreeWithReads
<1>7. FormsBehind'
  BY <1>2, <1>3, <1>4 DEF Agreement, FormsBehind
<1>8. ReadsBehind'
  BY <1>2, <1>3, <1>4, <1>5 DEF Agreement, ReadsBehind
<1>9. IdsUsedOnce'
  BY <1>2, <1>3 DEF Agreement, IdsUsedOnce, TypeOK
<1> QED BY <1>6, <1>7, <1>8, <1>9 DEF Agreement

\* The state in terms of c alone: c has opened, or sent, a form of entity e at
\* the row's version, and everybody else is as before.
LEMMA ShowAgrees ==
  ASSUME TypeOK, Agreement, NEW c \in Clients, NEW e \in Ids, Show(c, e)
  PROVE  Agreement'
<1>1. /\ row' = row /\ unused' = unused /\ request' = request /\ snapshot' = snapshot
      /\ row[e] # NoRow /\ request[c] = "none"
      /\ form'[c] = [id |-> e, version |-> row[e].version,
                     shown |-> row[e].value, value |-> row[e].value]
      /\ \A d \in Clients : d # c => form'[d] = form[d]
  BY DEF TypeOK, Show
<1>2. row[e] \in Rows
  BY <1>1 DEF TypeOK
<1>3. /\ form'[c].id = e /\ form'[c].version = row[e].version
      /\ form'[c].shown = row[e].value /\ form'[c] # NoForm
  <2>1. form'[c] \in Forms
    BY <1>1, <1>2 DEF Rows, Forms
  <2> QED BY <1>1, <2>1, FormFacts
<1>4. \A d \in Clients, x \in Ids :
        /\ d # c => (FormOf(d, x)' <=> FormOf(d, x))
        /\ FormOf(c, x)' <=> x = e
        /\ ReadOf(d, x)' <=> d # c /\ ReadOf(d, x)
  BY <1>1, <1>3 DEF FormOf, ReadOf
<1>5. FormsAgree'
  BY <1>1, <1>3, <1>4 DEF Agreement, FormsAgree, FormsBehind
<1>6. ReadsAgree'
  BY <1>1, <1>4 DEF Agreement, ReadsAgree
<1>7. FormsAgreeWithReads'
  BY <1>1, <1>3, <1>4 DEF Agreement, FormsAgreeWithReads, ReadsBehind
<1>8. FormsBehind'
  BY <1>1, <1>2, <1>3, <1>4, RowFacts DEF Agreement, FormsBehind
<1>9. ReadsBehind'
  BY <1>1, <1>4 DEF Agreement, ReadsBehind
<1>10. IdsUsedOnce'
  BY <1>1, <1>4 DEF Agreement, IdsUsedOnce, TypeOK
<1> QED BY <1>5, <1>6, <1>7, <1>8, <1>9, <1>10 DEF Agreement

\* Submit and Resend: tab d comes to serve a request with a form that is, but
\* for the user's data, the form of c, and reads the row.
LEMMA ReadingAgrees ==
  ASSUME TypeOK, Agreement, TypeOK', NEW c \in Clients, NEW d \in Clients, NEW e \in Ids,
         FormOf(c, e), row' = row, unused' = unused, request[d] = "none",
         \A x \in Ids : FormOf(d, x)' <=> x = e,
         form'[d].version = form[c].version, form'[d].shown = form[c].shown,
         snapshot'[d] = row[e],
         \A q \in Clients : q # d =>
           form'[q] = form[q] /\ request'[q] = request[q] /\ snapshot'[q] = snapshot[q]
  PROVE  Agreement'
<1>1. \A q \in Clients, x \in Ids :
        /\ q # d => (FormOf(q, x)' <=> FormOf(q, x))
        /\ q # d => (ReadOf(q, x)' <=> ReadOf(q, x))
        /\ ReadOf(d, x)' => x = e /\ row[e] # NoRow
  BY DEF FormOf, ReadOf
<1>2. FormsAgree'
  BY <1>1 DEF Agreement, FormsAgree
<1>3. ReadsAgree'
  BY <1>1 DEF Agreement, ReadsAgree, ReadsBehind
<1>4. FormsAgreeWithReads'
  BY <1>1 DEF Agreement, FormsAgreeWithReads, FormsBehind
<1>5. FormsBehind'
  BY <1>1 DEF Agreement, FormsBehind
<1>6. ReadsBehind'
  BY <1>1, RowFacts DEF Agreement, ReadsBehind, TypeOK
<1>7. IdsUsedOnce'
  BY <1>1 DEF Agreement, IdsUsedOnce, TypeOK
<1> QED BY <1>2, <1>3, <1>4, <1>5, <1>6, <1>7 DEF Agreement

LEMMA SubmitAgrees ==
  ASSUME TypeOK, TypeOK', Agreement, NEW c \in Clients, NEW command \in {"update", "delete"},
         NEW v \in Values, Submit(c, command, v)
  PROVE  Agreement'
<1> DEFINE e == form[c].id
<1>1. form[c] \in Forms /\ e \in Ids /\ FormOf(c, e)
  BY FormFacts DEF TypeOK, Submit, FormOf
<1>2. form'[c] = Filled(form[c], v)
  BY DEF TypeOK, Submit
<1>3. /\ form'[c] # NoForm /\ form'[c].id = e
      /\ form'[c].version = form[c].version /\ form'[c].shown = form[c].shown
  BY <1>1, <1>2, FilledForm, NoFormAssumption
<1>4. \A x \in Ids : FormOf(c, x)' <=> x = e
  BY <1>3 DEF FormOf
<1>5. /\ row' = row /\ unused' = unused /\ request[c] = "none" /\ snapshot'[c] = row[e]
      /\ \A q \in Clients : q # c =>
           form'[q] = form[q] /\ request'[q] = request[q] /\ snapshot'[q] = snapshot[q]
  BY DEF TypeOK, Submit
<1> HIDE DEF e
<1> QED BY <1>1, <1>3, <1>4, <1>5, ReadingAgrees

LEMMA ResendAgrees ==
  ASSUME TypeOK, TypeOK', Agreement, NEW c \in Clients, NEW d \in Clients, Resend(c, d)
  PROVE  Agreement'
<1> DEFINE e == form[c].id
<1>1. form[c] \in Forms /\ e \in Ids /\ FormOf(c, e)
  BY FormFacts DEF TypeOK, Resend, FormOf
<1>2. /\ row' = row /\ unused' = unused /\ request[d] = "none" /\ snapshot'[d] = row[e]
      /\ form'[d] = form[c]
      /\ \A q \in Clients : q # d =>
           form'[q] = form[q] /\ request'[q] = request[q] /\ snapshot'[q] = snapshot[q]
  BY DEF TypeOK, Resend
<1>3. \A x \in Ids : FormOf(d, x)' <=> x = e
  BY <1>1, <1>2 DEF FormOf
<1> HIDE DEF e
<1> QED BY <1>1, <1>2, <1>3, ReadingAgrees

\* The row of entity e goes away, or on to the next version.
LEMMA WritingAgrees ==
  ASSUME TypeOK, Agreement, NEW c \in Clients, NEW e \in Ids, FormOf(c, e), row[e] # NoRow,
         row'[e] = NoRow \/ row'[e].version = row[e].version + 1,
         \A x \in Ids : x # e => row'[x] = row[x],
         form' = form, unused' = unused,
         \A d \in Clients : request'[d] # "none" =>
           request[d] # "none" /\ snapshot'[d] = snapshot[d]
  PROVE  Agreement'
<1>1. \A d \in Clients, x \in Ids :
        (FormOf(d, x)' <=> FormOf(d, x)) /\ (ReadOf(d, x)' => ReadOf(d, x))
  BY DEF FormOf, ReadOf
<1>2. \A d \in Clients, x \in Ids : ReadOf(d, x)' => snapshot'[d] = snapshot[d]
  BY DEF ReadOf
<1>3. row[e].version \in Nat
  BY RowFacts DEF TypeOK
<1>4. \A d \in Clients, x \in Ids :
        /\ FormOf(d, x) => form[d].version \in Nat
        /\ ReadOf(d, x) => snapshot[d].version \in Nat
  BY RowFacts, FormFacts DEF TypeOK, FormOf, ReadOf
<1>5. FormsAgree' /\ ReadsAgree' /\ FormsAgreeWithReads'
  BY <1>1, <1>2 DEF Agreement, FormsAgree, ReadsAgree, FormsAgreeWithReads
<1>6. FormsBehind'
  BY <1>1, <1>3, <1>4 DEF Agreement, FormsBehind
<1>7. ReadsBehind'
  BY <1>1, <1>2, <1>3, <1>4 DEF Agreement, ReadsBehind
<1>8. IdsUsedOnce'
  BY <1>1 DEF Agreement, IdsUsedOnce, TypeOK
<1> QED BY <1>5, <1>6, <1>7, <1>8 DEF Agreement

\* What a successful update and a deletion do to the row.
LEMMA UpdateShape ==
  ASSUME TypeOK, NEW c \in Clients, Update(c)
  PROVE  \E e \in Ids :
           /\ FormOf(c, e) /\ form' = form
           /\ request[c] = "update" /\ snapshot[c] # NoRow
           /\ form[c].version = snapshot[c].version
           /\ \/ row' = row /\ form[c].value = snapshot[c].value
              \/ /\ row[e] # NoRow /\ row[e].version = snapshot[c].version
                 /\ row' = [row EXCEPT ![e] =
                      [version |-> row[e].version + 1, value |-> form[c].value]]
<1>1. form[c] \in Forms /\ form[c].id \in Ids /\ FormOf(c, form[c].id)
  BY FormFacts DEF TypeOK, Update, FormOf
<1> QED BY <1>1 DEF Update, MergeAccepts, FlushFinds, NextVersion

LEMMA UpdateAgrees ==
  ASSUME TypeOK, Agreement, NEW c \in Clients, Update(c)
  PROVE  Agreement'
<1>1. /\ unused' = unused
      /\ \A d \in Clients : request'[d] # "none" =>
           request[d] # "none" /\ snapshot'[d] = snapshot[d]
  BY ReturnForgets DEF Update
<1>2. PICK e \in Ids :
        /\ FormOf(c, e) /\ form' = form
        /\ \/ row' = row
           \/ /\ row[e] # NoRow
              /\ row' = [row EXCEPT ![e] =
                   [version |-> row[e].version + 1, value |-> form[c].value]]
  BY UpdateShape
<1>3. CASE row' = row
  BY <1>1, <1>2, <1>3, Forgetting
<1>4. CASE row[e] # NoRow /\ row' = [row EXCEPT ![e] =
             [version |-> row[e].version + 1, value |-> form[c].value]]
  <2>1. row'[e].version = row[e].version + 1 /\ \A x \in Ids : x # e => row'[x] = row[x]
    BY <1>4 DEF TypeOK
  <2> QED BY <1>1, <1>2, <1>4, <2>1, WritingAgrees
<1> QED BY <1>2, <1>3, <1>4

LEMMA DeleteAgrees ==
  ASSUME TypeOK, Agreement, NEW c \in Clients, Delete(c)
  PROVE  Agreement'
<1>1. /\ unused' = unused
      /\ \A d \in Clients : request'[d] # "none" =>
           request[d] # "none" /\ snapshot'[d] = snapshot[d]
  BY ReturnForgets DEF Delete
<1> DEFINE e == form[c].id
<1>2. e \in Ids /\ FormOf(c, e)
  BY FormFacts DEF TypeOK, Delete, FormOf
<1>3. /\ form' = form /\ row[e] # NoRow /\ row' = [row EXCEPT ![e] = NoRow]
  BY DEF Delete, FlushFinds
<1> HIDE DEF e
<1>4. row'[e] = NoRow /\ \A x \in Ids : x # e => row'[x] = row[x]
  BY <1>2, <1>3 DEF TypeOK
<1> QED BY <1>1, <1>2, <1>3, <1>4, WritingAgrees

LEMMA NextAgrees == TypeOK /\ Agreement /\ [Next]_vars => Agreement'
<1> SUFFICES ASSUME TypeOK, Agreement, [Next]_vars PROVE Agreement'
  OBVIOUS
<1>0. TypeOK'
  BY NextType
<1>1. ASSUME NEW c \in Clients, Invalid(c) \/ Panic(c) PROVE Agreement'
  BY <1>1, ReturnForgets, Forgetting DEF Invalid, Panic
<1>2. ASSUME UNCHANGED vars PROVE Agreement'
  BY <1>2, Forgetting DEF vars
<1> QED BY <1>0, <1>1, <1>2, CreateAgrees, ShowAgrees, SubmitAgrees, ResendAgrees,
           UpdateAgrees, DeleteAgrees DEF Next

(***************************************************************************)
(* Versions tell values apart: two copies of one entity with one version   *)
(* are equal, and none is ahead of the table.                              *)
(***************************************************************************)
THEOREM Invariance == Spec => []IInv
<1>1. Init => TypeOK /\ Agreement
  BY InitType DEF Init, Agreement, FormsAgree, ReadsAgree, FormsAgreeWithReads,
     FormsBehind, ReadsBehind, IdsUsedOnce, FormOf, ReadOf
<1>2. TypeOK /\ Agreement /\ [Next]_vars => (TypeOK /\ Agreement)'
  BY NextType, NextAgrees
<1>3. TypeOK /\ Agreement => IInv
  BY DEF IInv, Agreement
<1> QED BY <1>1, <1>2, <1>3, PTL DEF Spec

-----------------------------------------------------------------------------
(***************************************************************************)
(* What a step may do to a row.                                            *)
(***************************************************************************)
LEMMA RowSteps ==
  ASSUME [Next]_vars
  PROVE  \/ row' = row
         \/ \E e \in Ids, v \in Values : Create(e, v)
         \/ \E c \in Clients : Update(c) \/ Delete(c)
BY DEF Next, vars, Show, Submit, Resend, Invalid, Panic

LEMMA DeleteShape ==
  ASSUME TypeOK, NEW c \in Clients, Delete(c)
  PROVE  \E e \in Ids :
           /\ FormOf(c, e) /\ ReadOf(c, e) /\ form' = form
           /\ request[c] = "delete" /\ row[e] # NoRow
           /\ snapshot[c].version = row[e].version
           /\ row' = [row EXCEPT ![e] = NoRow]
<1>1. form[c] \in Forms /\ form[c].id \in Ids /\ FormOf(c, form[c].id)
  BY FormFacts DEF TypeOK, Delete, FormOf
<1> QED BY <1>1 DEF Delete, FlushFinds, ReadOf

(***************************************************************************)
(* No update is lost.                                                      *)
(***************************************************************************)
LEMMA StepReplacesWhatWasShown == IInv /\ [Next]_vars => ReplacesWhatWasShown
<1> SUFFICES ASSUME IInv, [Next]_vars, NEW e \in Ids, Overwrites(e)
             PROVE  \E c \in Clients :
                      /\ form[c] # NoForm /\ form[c].id = e
                      /\ form[c].shown = row[e].value /\ form[c].value = row'[e].value
  BY DEF ReplacesWhatWasShown
<1>0. TypeOK
  BY DEF IInv
<1>1. ASSUME NEW x \in Ids, NEW v \in Values, Create(x, v) PROVE FALSE
  <2>1. row[x] = NoRow /\ \A y \in Ids : y # x => row'[y] = row[y]
    BY <1>0, <1>1 DEF Create, IInv, IdsUsedOnce, TypeOK
  <2> QED BY <2>1 DEF Overwrites
<1>2. ASSUME NEW c \in Clients, Delete(c) PROVE FALSE
  <2>1. PICK x \in Ids : row' = [row EXCEPT ![x] = NoRow]
    BY <1>0, <1>2, DeleteShape
  <2> QED BY <1>0, <2>1 DEF Overwrites, TypeOK
<1>3. PICK c \in Clients : Update(c)
  BY <1>1, <1>2, RowSteps DEF Overwrites
<1>4. PICK x \in Ids :
        /\ FormOf(c, x) /\ form' = form /\ form[c].version = snapshot[c].version
        /\ \/ row' = row
           \/ /\ row[x] # NoRow /\ row[x].version = snapshot[c].version
              /\ row' = [row EXCEPT ![x] =
                   [version |-> row[x].version + 1, value |-> form[c].value]]
  BY <1>0, <1>3, UpdateShape
<1>5. /\ x = e /\ row[e] # NoRow /\ form[c].version = row[e].version
      /\ row'[e].value = form[c].value
  BY <1>0, <1>4 DEF Overwrites, TypeOK
<1>6. form[c].shown = row[e].value
  BY <1>4, <1>5 DEF IInv, FormsBehind
<1> QED BY <1>4, <1>5, <1>6 DEF FormOf

THEOREM NothingIsLost == Spec => NoLostUpdate
<1>1. IInv /\ [Next]_vars => [ReplacesWhatWasShown]_vars
  BY StepReplacesWhatWasShown
<1> QED BY <1>1, Invariance, PTL DEF Spec, NoLostUpdate

(***************************************************************************)
(* A deletion removes the very row that its validation looked at.          *)
(***************************************************************************)
LEMMA StepRemovesWhatWasFound == IInv /\ [Next]_vars => RemovesWhatWasFound
<1> SUFFICES ASSUME IInv, [Next]_vars, NEW e \in Ids, row[e] # NoRow, row'[e] = NoRow
             PROVE  \E c \in Clients :
                      request[c] = "delete" /\ form[c].id = e /\ snapshot[c] = row[e]
  BY DEF RemovesWhatWasFound
<1>0. TypeOK
  BY DEF IInv
<1>1. ASSUME NEW x \in Ids, NEW v \in Values, Create(x, v) PROVE FALSE
  <2>1. [version |-> 0, value |-> v] # NoRow
    BY NoRowAssumption DEF Rows
  <2> QED BY <1>0, <1>1, <2>1 DEF Create, TypeOK
<1>2. ASSUME NEW c \in Clients, Update(c) PROVE FALSE
  <2>1. PICK x \in Ids :
          \/ row' = row
          \/ row[x] # NoRow /\ row' = [row EXCEPT ![x] =
                   [version |-> row[x].version + 1, value |-> form[c].value]]
    BY <1>0, <1>2, UpdateShape
  <2>2. row' \in [Ids -> Rows \union {NoRow}] /\ form[c] \in Forms
    BY <1>0, <1>2, NextType DEF TypeOK, Update
  <2>3. row[x] # NoRow =>
          [version |-> row[x].version + 1, value |-> form[c].value] \in Rows
    BY <1>0, <2>2, RowFacts, FormFacts DEF Rows, TypeOK
  <2> QED BY <1>0, <2>1, <2>3, RowFacts DEF TypeOK
<1>3. PICK c \in Clients : Delete(c)
  BY <1>1, <1>2, RowSteps
<1>4. PICK x \in Ids :
        /\ FormOf(c, x) /\ ReadOf(c, x) /\ request[c] = "delete"
        /\ snapshot[c].version = row[x].version
        /\ row' = [row EXCEPT ![x] = NoRow]
  BY <1>0, <1>3, DeleteShape
<1>5. x = e
  BY <1>0, <1>4 DEF TypeOK
<1> QED BY <1>4, <1>5 DEF IInv, ReadsBehind, FormOf

THEOREM DeletionsAreValidated == Spec => DeletesWhatItValidated
<1>1. IInv /\ [Next]_vars => [RemovesWhatWasFound]_vars
  BY StepRemovesWhatWasFound
<1> QED BY <1>1, Invariance, PTL DEF Spec, DeletesWhatItValidated

-----------------------------------------------------------------------------
(***************************************************************************)
(* The refinement of LinkedRecords.  First, what the mapping preserves.    *)
(***************************************************************************)
LEMMA FormBarAt ==
  ASSUME TypeOK, NEW c \in Clients
  PROVE  /\ FormBar[c] = NoForm <=> form[c] = NoForm
         /\ form[c] # NoForm =>
              /\ form[c].id \in Ids
              /\ FormBar[c] = [id |-> form[c].id, shown |-> form[c].shown,
                               value |-> form[c].value]
              /\ FormBar[c].id = form[c].id /\ FormBar[c].shown = form[c].shown
              /\ FormBar[c].value = form[c].value
<1>1. CASE form[c] = NoForm
  BY <1>1 DEF FormBar
<1>2. CASE form[c] # NoForm
  <2>1. form[c] \in Forms
    BY <1>2 DEF TypeOK
  <2>2. [id |-> form[c].id, shown |-> form[c].shown, value |-> form[c].value]
          \in [id : Ids, shown : Values, value : Values]
    BY <2>1 DEF Forms
  <2> QED BY <1>2, <2>1, <2>2, FormFacts, NoFormAssumption DEF FormBar
<1> QED BY <1>1, <1>2

LEMMA RecordBarAt ==
  ASSUME TypeOK, NEW e \in Ids
  PROVE  /\ RecordBar[e] = NoRow <=> row[e] = NoRow
         /\ row[e] # NoRow => RecordBar[e] = row[e].value
BY RowFacts, NoRowAssumption DEF TypeOK, RecordBar

LEMMA FormBarSame == form' = form => FormBar' = FormBar
BY DEF FormBar

LEMMA FormBarChange ==
  ASSUME NEW c \in Clients, NEW f,
         \A d \in Clients : d # c => form'[d] = form[d],
         FormBar'[c] = f
  PROVE  FormBar' = [FormBar EXCEPT ![c] = f]
BY DEF FormBar

LEMMA RecordBarSame == row' = row => RecordBar' = RecordBar
BY DEF RecordBar

LEMMA RecordBarChange ==
  ASSUME NEW e \in Ids, NEW x,
         \A y \in Ids : y # e => row'[y] = row[y],
         RecordBar'[e] = x
  PROVE  RecordBar' = [RecordBar EXCEPT ![e] = x]
BY DEF RecordBar

LEMMA LinkedBarSame == form' = form /\ row' = row => LinkedBar' = LinkedBar
BY DEF LinkedBar, Linked

\* A row that moves on, or goes away, loses the forms that were linked to it.
LEMMA LinksBreak ==
  ASSUME IInv, NEW e \in Ids, row[e] # NoRow,
         row'[e] = NoRow \/ row'[e].version = row[e].version + 1,
         \A x \in Ids : x # e => row'[x] = row[x], form' = form
  PROVE  LinkedBar' = LinkedBar \ Records!LinkedTo(e)
<1>0. TypeOK
  BY DEF IInv
<1>1. row[e].version \in Nat
  BY <1>0, RowFacts DEF TypeOK
<1>2. \A c \in Clients : FormOf(c, e) =>
        form[c].version \in Nat /\ form[c].version <= row[e].version
  BY <1>0, FormFacts DEF IInv, FormsBehind, FormOf, TypeOK
<1>3. \A c \in Clients : FormOf(c, e) => ~Linked(c)'
  BY <1>1, <1>2 DEF Linked, FormOf
<1>4. \A c \in Clients : form[c] # NoForm /\ form[c].id # e => (Linked(c)' <=> Linked(c))
  BY <1>0, FormBarAt DEF Linked
<1>5. \A c \in Clients : Linked(c)' => form[c] # NoForm
  BY DEF Linked
<1>6. \A c \in Clients : Linked(c) => form[c] # NoForm
  BY DEF Linked
<1>7. \A c \in LinkedBar : FormBar[c].id = form[c].id
  BY <1>0, <1>6, FormBarAt DEF LinkedBar
<1> QED BY <1>3, <1>4, <1>5, <1>6, <1>7 DEF LinkedBar, Records!LinkedTo, FormOf

-----------------------------------------------------------------------------
LEMMA RefCreate ==
  ASSUME IInv, TypeOK', NEW e \in Ids, NEW v \in Values, Create(e, v)
  PROVE  Records!Add(e, v)
<1>0. TypeOK
  BY DEF IInv
<1>1. /\ e \in unused /\ unused' = unused \ {e} /\ form' = form /\ reply' = reply
      /\ row'[e] = [version |-> 0, value |-> v]
      /\ \A x \in Ids : x # e => row'[x] = row[x]
  BY <1>0 DEF Create, TypeOK
<1>2. row'[e] # NoRow /\ row'[e].value = v
  BY <1>1, NoRowAssumption DEF Rows
<1>3. RecordBar' = [RecordBar EXCEPT ![e] = v]
  <2>1. RecordBar'[e] = v
    BY <1>2 DEF RecordBar
  <2> QED BY <1>1, <2>1, RecordBarChange
<1>4. \A c \in Clients : ~FormOf(c, e)
  BY <1>1 DEF IInv, IdsUsedOnce
<1>5. \A c \in Clients : Linked(c)' <=> Linked(c)
  BY <1>0, <1>1, <1>4, FormBarAt DEF Linked, FormOf
<1>6. LinkedBar' = LinkedBar
  BY <1>5 DEF LinkedBar
<1> QED BY <1>1, <1>3, <1>6, FormBarSame DEF Records!Add

LEMMA RefShow ==
  ASSUME IInv, TypeOK', NEW c \in Clients, NEW e \in Ids, Show(c, e)
  PROVE  Records!Load(c, e)
<1>0. TypeOK
  BY DEF IInv
<1>1. /\ row' = row /\ unused' = unused /\ row[e] # NoRow
      /\ reply' = [reply EXCEPT ![c] = "none"]
      /\ form'[c] = [id |-> e, version |-> row[e].version,
                     shown |-> row[e].value, value |-> row[e].value]
      /\ \A d \in Clients : d # c => form'[d] = form[d]
  BY <1>0 DEF TypeOK, Show
<1>2. RecordBar[e] # NoRow /\ RecordBar[e] = row[e].value
  BY <1>0, <1>1, RecordBarAt
<1>3. form'[c] # NoForm
  <2>1. row[e] \in Rows
    BY <1>0, <1>1 DEF TypeOK
  <2>2. form'[c] \in Forms
    BY <1>1, <2>1 DEF Rows, Forms
  <2> QED BY <2>2, FormFacts
<1>4. FormBar'[c] = [id |-> e, shown |-> RecordBar[e], value |-> RecordBar[e]]
  BY <1>1, <1>2, <1>3 DEF FormBar
<1>5. FormBar' = [FormBar EXCEPT
                    ![c] = [id |-> e, shown |-> RecordBar[e], value |-> RecordBar[e]]]
  BY <1>1, <1>4, FormBarChange
<1>6. Linked(c)' /\ \A d \in Clients : d # c => (Linked(d)' <=> Linked(d))
  BY <1>1, <1>3 DEF Linked
<1>7. LinkedBar' = LinkedBar \union {c}
  BY <1>6 DEF LinkedBar
<1> QED BY <1>1, <1>2, <1>5, <1>7, RecordBarSame DEF Records!Load, Records!Tell

LEMMA RefSubmit ==
  ASSUME IInv, TypeOK', NEW c \in Clients, NEW command \in {"update", "delete"},
         NEW v \in Values, Submit(c, command, v)
  PROVE  Records!Fill(c, v)
<1>0. TypeOK
  BY DEF IInv
<1>1. /\ row' = row /\ unused' = unused /\ form[c] # NoForm
      /\ reply' = [reply EXCEPT ![c] = "none"]
      /\ form'[c] = Filled(form[c], v)
      /\ \A d \in Clients : d # c => form'[d] = form[d]
  BY <1>0 DEF TypeOK, Submit
<1>2. form[c] \in Forms
  BY <1>0, <1>1 DEF TypeOK
<1>3. /\ form'[c] # NoForm /\ form'[c].id = form[c].id /\ form'[c].version = form[c].version
      /\ form'[c].shown = form[c].shown /\ form'[c].value = v
  BY <1>1, <1>2, FilledForm, NoFormAssumption
<1>4. FormBar[c] = [id |-> form[c].id, shown |-> form[c].shown, value |-> form[c].value]
      /\ FormBar[c] # NoForm
  BY <1>0, <1>1, FormBarAt
<1>5. FormBar'[c] = [FormBar[c] EXCEPT !.value = v]
  <2>1. FormBar'[c] = [id |-> form[c].id, shown |-> form[c].shown, value |-> v]
    BY <1>3 DEF FormBar
  <2> QED BY <1>4, <2>1
<1>6. FormBar' = [FormBar EXCEPT ![c] = [FormBar[c] EXCEPT !.value = v]]
  BY <1>1, <1>5, FormBarChange
<1>7. \A d \in Clients : Linked(d)' <=> Linked(d)
  BY <1>1, <1>3 DEF Linked
<1>8. LinkedBar' = LinkedBar
  BY <1>7 DEF LinkedBar
<1> QED BY <1>1, <1>4, <1>6, <1>8, RecordBarSame DEF Records!Fill, Records!Tell

LEMMA RefResend ==
  ASSUME IInv, TypeOK', NEW c \in Clients, NEW d \in Clients, Resend(c, d)
  PROVE  Records!Copy(c, d)
<1>0. TypeOK
  BY DEF IInv
<1>1. /\ row' = row /\ unused' = unused /\ form[c] # NoForm
      /\ reply' = [reply EXCEPT ![d] = "none"]
      /\ form'[d] = form[c]
      /\ \A q \in Clients : q # d => form'[q] = form[q]
  BY <1>0 DEF TypeOK, Resend
<1>2. FormBar'[d] = FormBar[c] /\ FormBar[c] # NoForm
  BY <1>0, <1>1, FormBarAt DEF FormBar
<1>3. FormBar' = [FormBar EXCEPT ![d] = FormBar[c]]
  BY <1>1, <1>2, FormBarChange
<1>4. (Linked(d)' <=> Linked(c)) /\ \A q \in Clients : q # d => (Linked(q)' <=> Linked(q))
  BY <1>1 DEF Linked
<1>5. LinkedBar' = IF c \in LinkedBar THEN LinkedBar \union {d} ELSE LinkedBar \ {d}
  BY <1>4 DEF LinkedBar
<1> QED BY <1>1, <1>2, <1>3, <1>5, RecordBarSame DEF Records!Copy, Records!Tell

LEMMA RefRefuse ==
  ASSUME NEW c \in Clients, Invalid(c) \/ Panic(c)
  PROVE  Records!Refuse(c)
BY RecordBarSame, FormBarSame, LinkedBarSame
   DEF Invalid, Panic, Return, Records!Refuse, Records!Tell

LEMMA RefUpdate ==
  ASSUME IInv, TypeOK', NEW c \in Clients, Update(c)
  PROVE  Records!StoreConditional(c) \/ Records!StoreNothing(c)
<1>0. TypeOK
  BY DEF IInv
<1>1. unused' = unused /\ reply' = [reply EXCEPT ![c] = "view"] /\ form' = form
  BY DEF Update, Return
<1>2. PICK e \in Ids :
        /\ FormOf(c, e) /\ request[c] = "update" /\ snapshot[c] # NoRow
        /\ form[c].version = snapshot[c].version
        /\ \/ row' = row /\ form[c].value = snapshot[c].value
           \/ /\ row[e] # NoRow /\ row[e].version = snapshot[c].version
              /\ row' = [row EXCEPT ![e] =
                   [version |-> row[e].version + 1, value |-> form[c].value]]
  BY <1>0, UpdateShape
<1>3. /\ form[c] # NoForm /\ form[c].id = e /\ FormBar[c] # NoForm /\ FormBar[c].id = e
      /\ FormBar[c].shown = form[c].shown /\ FormBar[c].value = form[c].value
  BY <1>0, <1>2, FormBarAt DEF FormOf
<1>4. CASE row' = row /\ form[c].value = snapshot[c].value
  <2>1. form[c].shown = snapshot[c].value
    BY <1>2 DEF IInv, FormsAgreeWithReads, ReadOf
  <2> QED BY <1>1, <1>3, <1>4, <2>1, RecordBarSame, FormBarSame, LinkedBarSame
          DEF Records!StoreNothing, Records!Tell
<1>5. CASE /\ row[e] # NoRow /\ row[e].version = snapshot[c].version
           /\ row' = [row EXCEPT ![e] =
                [version |-> row[e].version + 1, value |-> form[c].value]]
  <2>1. /\ row'[e] = [version |-> row[e].version + 1, value |-> form[c].value]
        /\ \A x \in Ids : x # e => row'[x] = row[x]
    BY <1>0, <1>5 DEF TypeOK
  <2>2. c \in LinkedBar
    BY <1>2, <1>3, <1>5 DEF LinkedBar, Linked
  <2>3. row'[e] # NoRow
    <3>1. row[e].version \in Nat /\ form[c].value \in Values
      BY <1>0, <1>3, <1>5, RowFacts, FormFacts DEF TypeOK
    <3>2. row'[e] \in Rows
      BY <2>1, <3>1 DEF Rows
    <3> QED BY <3>2, RowFacts
  <2>4. RecordBar'[e] = FormBar[c].value
    BY <1>3, <2>1, <2>3 DEF RecordBar
  <2>5. RecordBar' = [RecordBar EXCEPT ![FormBar[c].id] = FormBar[c].value]
    BY <1>3, <2>1, <2>4, RecordBarChange
  <2>6. LinkedBar' = LinkedBar \ Records!LinkedTo(FormBar[c].id)
    BY <1>1, <1>3, <1>5, <2>1, LinksBreak
  <2> QED BY <1>1, <2>2, <2>5, <2>6, FormBarSame DEF Records!StoreConditional, Records!Tell
<1> QED BY <1>2, <1>4, <1>5

LEMMA RefDelete ==
  ASSUME IInv, TypeOK', NEW c \in Clients, Delete(c)
  PROVE  Records!Remove(c)
<1>0. TypeOK
  BY DEF IInv
<1>1. unused' = unused /\ reply' = [reply EXCEPT ![c] = "view"]
  BY DEF Delete, Return
<1>2. PICK e \in Ids :
        /\ FormOf(c, e) /\ form' = form /\ row[e] # NoRow
        /\ row' = [row EXCEPT ![e] = NoRow]
  BY <1>0, DeleteShape
<1>3. form[c] # NoForm /\ FormBar[c] # NoForm /\ FormBar[c].id = e /\ RecordBar[e] # NoRow
  BY <1>0, <1>2, FormBarAt, RecordBarAt DEF FormOf
<1>4. row'[e] = NoRow /\ \A x \in Ids : x # e => row'[x] = row[x]
  BY <1>0, <1>2 DEF TypeOK
<1>5. RecordBar'[e] = NoRow
  BY <1>4 DEF RecordBar
<1>6. RecordBar' = [RecordBar EXCEPT ![FormBar[c].id] = NoRow]
  BY <1>3, <1>4, <1>5, RecordBarChange
<1>7. LinkedBar' = LinkedBar \ Records!LinkedTo(FormBar[c].id)
  BY <1>2, <1>3, <1>4, LinksBreak
<1> QED BY <1>1, <1>2, <1>3, <1>6, <1>7, FormBarSame DEF Records!Remove, Records!Tell

LEMMA RefNext == IInv /\ [Next]_vars => [Records!LRNext]_(Records!recordVars)
<1> SUFFICES ASSUME IInv, [Next]_vars PROVE [Records!LRNext]_(Records!recordVars)
  OBVIOUS
<1>0. TypeOK'
  BY NextType DEF IInv
<1>1. CASE UNCHANGED vars
  BY <1>1, RecordBarSame, FormBarSame, LinkedBarSame DEF vars, Records!recordVars
<1>2. CASE Next
  <2>1. Records!LRNext
    BY <1>0, <1>2, RefCreate, RefShow, RefSubmit, RefResend, RefRefuse, RefUpdate, RefDelete
       DEF Next, Records!LRNext
  <2> QED BY <2>1
<1> QED BY <1>1, <1>2

(***************************************************************************)
(* Editing through versioned forms implements linked records.              *)
(***************************************************************************)
THEOREM Refinement == Spec => ImplementsLinkedRecords
<1>1. Init => Records!LRInit
  BY DEF Init, Records!LRInit, RecordBar, FormBar, LinkedBar, Linked
<1> QED BY <1>1, RefNext, Invariance, PTL
        DEF Spec, ImplementsLinkedRecords, Records!LRSpec

=============================================================================
