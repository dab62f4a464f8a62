--------------------------- MODULE LinkedRecords ---------------------------
(***************************************************************************)
(* What editing a record through a form promises: a record is a register   *)
(* with load-linked and store-conditional.  Opening the form links it to   *)
(* the record; whatever changes the record breaks every link to it; and    *)
(* only a linked form may change the record, as a whole and at once.       *)
(***************************************************************************)
CONSTANTS Ids, Values, Clients, NoRecord, NoForm

VARIABLES
  record,   \* record[e]: the value of record e, or NoRecord
  fresh,    \* the identifiers that no record has had yet
  form,     \* what each client has on its screen: [id, shown, value]
  linked,   \* the clients whose form is linked to its record
  told      \* the last answer that each client got

recordVars == <<record, fresh, form, linked, told>>

LRInit ==
  /\ record = [e \in Ids |-> NoRecord]
  /\ fresh = Ids
  /\ form = [c \in Clients |-> NoForm]
  /\ linked = {}
  /\ told = [c \in Clients |-> "none"]

Tell(c, answer) == told' = [told EXCEPT ![c] = answer]

LinkedTo(e) == {c \in linked : form[c].id = e}

Add(e, v) ==
  /\ e \in fresh
  /\ fresh' = fresh \ {e}
  /\ record' = [record EXCEPT ![e] = v]
  /\ UNCHANGED <<form, linked, told>>

Load(c, e) ==
  /\ record[e] # NoRecord
  /\ form' = [form EXCEPT ![c] = [id |-> e, shown |-> record[e], value |-> record[e]]]
  /\ linked' = linked \union {c}
  /\ Tell(c, "none")
  /\ UNCHANGED <<record, fresh>>

Fill(c, v) ==
  /\ form[c] # NoForm
  /\ form' = [form EXCEPT ![c] = [form[c] EXCEPT !.value = v]]
  /\ Tell(c, "none")
  /\ UNCHANGED <<record, fresh, linked>>

Copy(c, d) ==
  /\ form[c] # NoForm
  /\ form' = [form EXCEPT ![d] = form[c]]
  /\ linked' = IF c \in linked THEN linked \union {d} ELSE linked \ {d}
  /\ Tell(d, "none")
  /\ UNCHANGED <<record, fresh>>

StoreConditional(c) ==
  /\ c \in linked
  /\ record' = [record EXCEPT ![form[c].id] = form[c].value]
  /\ linked' = linked \ LinkedTo(form[c].id)
  /\ Tell(c, "view")
  /\ UNCHANGED <<fresh, form>>

\* Storing what the form showed needs no link: it asks for no change.
StoreNothing(c) ==
  /\ form[c] # NoForm
  /\ form[c].value = form[c].shown
  /\ Tell(c, "view")
  /\ UNCHANGED <<record, fresh, form, linked>>

\* Removing a record needs no link either: the form is not looked at.
Remove(c) ==
  /\ form[c] # NoForm
  /\ record[form[c].id] # NoRecord
  /\ record' = [record EXCEPT ![form[c].id] = NoRecord]
  /\ linked' = linked \ LinkedTo(form[c].id)
  /\ Tell(c, "view")
  /\ UNCHANGED <<fresh, form>>

Refuse(c) ==
  /\ \E answer \in {"form", "panic"} : Tell(c, answer)
  /\ UNCHANGED <<record, fresh, form, linked>>

LRNext ==
  \/ \E e \in Ids, v \in Values : Add(e, v)
  \/ \E c \in Clients, e \in Ids : Load(c, e)
  \/ \E c \in Clients, v \in Values : Fill(c, v)
  \/ \E c, d \in Clients : Copy(c, d)
  \/ \E c \in Clients :
       StoreConditional(c) \/ StoreNothing(c) \/ Remove(c) \/ Refuse(c)

LRSpec == LRInit /\ [][LRNext]_recordVars

=============================================================================
