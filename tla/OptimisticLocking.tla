-------------------------- MODULE OptimisticLocking --------------------------
(***************************************************************************)
(* How an entity is edited through a form: AbstractController.doGet renders *)
(* it with its id and version in hidden fields, and doPost, in a           *)
(* transaction of its own, finds the entity, binds the form on it (id and  *)
(* version included), validates it and merges it.                          *)
(*                                                                         *)
(* A transaction reads from the snapshot that its first query takes (InnoDB *)
(* REPEATABLE READ), while the UPDATE and DELETE that Hibernate flushes at *)
(* its commit carry "where id = ? and version = ?" and meet the latest     *)
(* rows.  A client is one browser tab; it keeps its form whatever it is    *)
(* answered (the Back button), so a form can be submitted again.           *)
(***************************************************************************)
EXTENDS Naturals

CONSTANTS
  Ids,          \* the identifiers that hibernate_sequence may give out
  Values,       \* what an entity may hold, its version aside
  Clients,      \* the browser tabs
  MaxVersion,   \* bound: nobody opens an entity that was edited so often
  NoRow, NoForm

Rows == [version : Nat, value : Values]
Forms == [id : Ids, version : Nat, shown : Values, value : Values]

ASSUME MaxVersionAssumption == MaxVersion \in Nat
ASSUME NoRowAssumption == NoRow \notin Rows /\ NoRow \notin Values
ASSUME NoFormAssumption ==
  NoForm \notin Forms /\ NoForm \notin [id : Ids, shown : Values, value : Values]

VARIABLES
  row,        \* the committed table
  unused,     \* the identifiers that the sequence has not given out
  form,       \* the form on each client's screen
  request,    \* the command being served for each client, if any
  snapshot,   \* what findOne returned to that request
  reply       \* the last answer to each client

vars == <<row, unused, form, request, snapshot, reply>>

Commands == {"none", "update", "delete"}
Replies == {"none", "view", "form", "panic"}

TypeOK ==
  /\ row \in [Ids -> Rows \union {NoRow}]
  /\ unused \subseteq Ids
  /\ form \in [Clients -> Forms \union {NoForm}]
  /\ request \in [Clients -> Commands]
  /\ snapshot \in [Clients -> Rows \union {NoRow}]
  /\ reply \in [Clients -> Replies]
  /\ \A c \in Clients : request[c] # "none" => form[c] # NoForm

Init ==
  /\ row = [e \in Ids |-> NoRow]
  /\ unused = Ids
  /\ form = [c \in Clients |-> NoForm]
  /\ request = [c \in Clients |-> "none"]
  /\ snapshot = [c \in Clients |-> NoRow]
  /\ reply = [c \in Clients |-> "none"]

-----------------------------------------------------------------------------
(***************************************************************************)
(* A POST of CREATE: the new entity reads nothing first.                   *)
(***************************************************************************)
Create(e, v) ==
  /\ e \in unused
  /\ unused' = unused \ {e}
  /\ row' = [row EXCEPT ![e] = [version |-> 0, value |-> v]]
  /\ UNCHANGED <<form, request, snapshot, reply>>

(***************************************************************************)
(* A GET of SHOW, UPDATE or DELETE: findOne and unbind.                    *)
(***************************************************************************)
Show(c, e) ==
  /\ request[c] = "none"
  /\ row[e] # NoRow /\ row[e].version < MaxVersion
  /\ form' = [form EXCEPT ![c] =
                [id |-> e, version |-> row[e].version,
                 shown |-> row[e].value, value |-> row[e].value]]
  /\ reply' = [reply EXCEPT ![c] = "none"]
  /\ UNCHANGED <<row, unused, request, snapshot>>

\* The fields as the user leaves them; id and version are hidden.
Filled(f, v) == [f EXCEPT !.value = v]

(***************************************************************************)
(* A POST of UPDATE or DELETE with the fields as the user left them, up to *)
(* findOne, which takes the snapshot of the transaction.                   *)
(***************************************************************************)
Submit(c, command, v) ==
  /\ request[c] = "none" /\ form[c] # NoForm
  /\ form' = [form EXCEPT ![c] = Filled(form[c], v)]
  /\ request' = [request EXCEPT ![c] = command]
  /\ snapshot' = [snapshot EXCEPT ![c] = row[form[c].id]]
  /\ reply' = [reply EXCEPT ![c] = "none"]
  /\ UNCHANGED <<row, unused>>

(***************************************************************************)
(* The same request is sent twice (a double click, a retry after a lost    *)
(* answer): tab d stands for the copy.                                     *)
(***************************************************************************)
Resend(c, d) ==
  /\ request[c] # "none" /\ request[d] = "none"
  /\ form' = [form EXCEPT ![d] = form[c]]
  /\ request' = [request EXCEPT ![d] = request[c]]
  /\ snapshot' = [snapshot EXCEPT ![d] = row[form[c].id]]
  /\ reply' = [reply EXCEPT ![d] = "none"]
  /\ UNCHANGED <<row, unused>>

\* The transaction ends, and with it its snapshot; the form stays.
Return(c, answer) ==
  /\ request' = [request EXCEPT ![c] = "none"]
  /\ snapshot' = [snapshot EXCEPT ![c] = NoRow]
  /\ reply' = [reply EXCEPT ![c] = answer]
  /\ UNCHANGED unused

\* A mutant of Invalid: the form is built from the entity that was found.
InvalidReloadsVersion(c) ==
  /\ request[c] # "none" /\ snapshot[c] # NoRow
  /\ Return(c, "form")
  /\ form' = [form EXCEPT ![c].version = snapshot[c].version]
  /\ UNCHANGED row

(***************************************************************************)
(* Validation errors: the form is shown again as it was posted, with the   *)
(* version that it was opened with.                                        *)
(***************************************************************************)
Invalid(c) ==
  /\ request[c] # "none" /\ snapshot[c] # NoRow
  /\ Return(c, "form")
  /\ UNCHANGED <<row, form>>

\* Anything may throw; an entity that is not found always does.
Panic(c) ==
  /\ request[c] # "none"
  /\ Return(c, "panic")
  /\ UNCHANGED <<row, form>>

\* A mutant of MergeAccepts: the form carries no version.
MergeAcceptsAnything(c) == snapshot[c] # NoRow

\* EntityManager.merge compares the version bound with the one it loads.
MergeAccepts(c) == snapshot[c] # NoRow /\ form[c].version = snapshot[c].version

\* A mutant of FlushFinds: the statement is restricted by id only.
FlushFindsById(c) == row[form[c].id] # NoRow

\* What the flush finds under the row's lock: the version that was read.
FlushFinds(c) ==
  /\ row[form[c].id] # NoRow
  /\ row[form[c].id].version = snapshot[c].version

\* A mutant of NextVersion: the version column is not maintained.
SameVersion(c) == snapshot[c].version

NextVersion(c) == snapshot[c].version + 1

(***************************************************************************)
(* service.update saves the entity: no statement at all when the merge     *)
(* leaves it as it was read, otherwise one that also bumps the version.    *)
(***************************************************************************)
Update(c) ==
  /\ request[c] = "update" /\ MergeAccepts(c)
  /\ \/ form[c].value = snapshot[c].value /\ UNCHANGED row
     \/ /\ form[c].value # snapshot[c].value /\ FlushFinds(c)
        /\ row' = [row EXCEPT ![form[c].id] =
                     [version |-> NextVersion(c), value |-> form[c].value]]
  /\ Return(c, "view")
  /\ UNCHANGED form

(***************************************************************************)
(* DELETE binds nothing: the entity is deleted at the version that findOne *)
(* returned, whatever version the form was opened with.                    *)
(***************************************************************************)
Delete(c) ==
  /\ request[c] = "delete" /\ snapshot[c] # NoRow
  /\ FlushFinds(c)
  /\ row' = [row EXCEPT ![form[c].id] = NoRow]
  /\ Return(c, "view")
  /\ UNCHANGED form

-----------------------------------------------------------------------------
Next ==
  \/ \E e \in Ids, v \in Values : Create(e, v)
  \/ \E c \in Clients, e \in Ids : Show(c, e)
  \/ \E c \in Clients, command \in {"update", "delete"}, v \in Values :
       Submit(c, command, v)
  \/ \E c, d \in Clients : Resend(c, d)
  \/ \E c \in Clients : Invalid(c) \/ Panic(c) \/ Update(c) \/ Delete(c)

Spec == Init /\ [][Next]_vars

-----------------------------------------------------------------------------
(***************************************************************************)
(* No lost update: whoever changes an entity was looking at the very value *)
(* that the change replaces, even if the form was rejected, resent or      *)
(* submitted again after a long time.                                      *)
(***************************************************************************)
Overwrites(e) == row[e] # NoRow /\ row'[e] # NoRow /\ row'[e] # row[e]

ReplacesWhatWasShown ==
  \A e \in Ids : Overwrites(e) =>
    \E c \in Clients :
      /\ form[c] # NoForm /\ form[c].id = e
      /\ form[c].shown = row[e].value /\ form[c].value = row'[e].value
NoLostUpdate == [][ReplacesWhatWasShown]_vars

(***************************************************************************)
(* What is deleted is what the deletion was validated against, although    *)
(* the validation read a snapshot and others may have committed since.     *)
(***************************************************************************)
RemovesWhatWasFound ==
  \A e \in Ids : row[e] # NoRow /\ row'[e] = NoRow =>
    \E c \in Clients :
      request[c] = "delete" /\ form[c].id = e /\ snapshot[c] = row[e]
DeletesWhatItValidated == [][RemovesWhatWasFound]_vars

-----------------------------------------------------------------------------
(***************************************************************************)
(* The inductive invariant.  A copy of a row is what some form or some     *)
(* snapshot retains of it; a version number stands for one value of one    *)
(* entity, and no copy is newer than the row.                              *)
(***************************************************************************)
FormOf(c, e) == form[c] # NoForm /\ form[c].id = e
ReadOf(c, e) == request[c] # "none" /\ FormOf(c, e) /\ snapshot[c] # NoRow

FormsAgree ==
  \A c, d \in Clients, e \in Ids :
    FormOf(c, e) /\ FormOf(d, e) /\ form[c].version = form[d].version
      => form[c].shown = form[d].shown

ReadsAgree ==
  \A c, d \in Clients, e \in Ids :
    ReadOf(c, e) /\ ReadOf(d, e) /\ snapshot[c].version = snapshot[d].version
      => snapshot[c] = snapshot[d]

FormsAgreeWithReads ==
  \A c, d \in Clients, e \in Ids :
    FormOf(c, e) /\ ReadOf(d, e) /\ form[c].version = snapshot[d].version
      => form[c].shown = snapshot[d].value

FormsBehind ==
  \A c \in Clients, e \in Ids : FormOf(c, e) /\ row[e] # NoRow =>
    /\ form[c].version <= row[e].version
    /\ form[c].version = row[e].version => form[c].shown = row[e].value

ReadsBehind ==
  \A c \in Clients, e \in Ids : ReadOf(c, e) /\ row[e] # NoRow =>
    /\ snapshot[c].version <= row[e].version
    /\ snapshot[c].version = row[e].version => snapshot[c] = row[e]

IdsUsedOnce ==
  \A e \in unused : row[e] = NoRow /\ \A c \in Clients : ~FormOf(c, e)

IInv ==
  /\ TypeOK /\ FormsAgree /\ ReadsAgree /\ FormsAgreeWithReads
  /\ FormsBehind /\ ReadsBehind /\ IdsUsedOnce

-----------------------------------------------------------------------------
(***************************************************************************)
(* The versions implement load-linked and store-conditional: a form is     *)
(* linked while its version is that of the row.                            *)
(***************************************************************************)
Linked(c) ==
  /\ form[c] # NoForm
  /\ row[form[c].id] # NoRow
  /\ form[c].version = row[form[c].id].version

RecordBar == [e \in Ids |-> IF row[e] = NoRow THEN NoRow ELSE row[e].value]
FormBar ==
  [c \in Clients |->
     IF form[c] = NoForm THEN NoForm
     ELSE [id |-> form[c].id, shown |-> form[c].shown, value |-> form[c].value]]
LinkedBar == {c \in Clients : Linked(c)}

Records == INSTANCE LinkedRecords WITH
  NoRecord <- NoRow, record <- RecordBar, fresh <- unused,
  form <- FormBar, linked <- LinkedBar, told <- reply

ImplementsLinkedRecords == Records!LRSpec

=============================================================================
