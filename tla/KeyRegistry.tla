------------------------------ MODULE KeyRegistry ------------------------------
(***************************************************************************)
(* What the features that create things under a key of the client's        *)
(* choice promise: a key is given once, to whoever comes first, and is     *)
(* never taken back; a client who is told that it has got the key has, and *)
(* one who is told that the key is in use was told the truth.              *)
(***************************************************************************)
CONSTANTS Keys, Users, Requests, None

VARIABLES
  holder,    \* the user that a key was given to
  wants,     \* the key and the user of each request
  told       \* what its client was told of the key: "kept", "refused" or None

vars == <<holder, wants, told>>

Wishes == [key : Keys, user : Users] \union {None}

TypeOK ==
  /\ holder \in [Keys -> Users \union {None}]
  /\ wants \in [Requests -> Wishes]
  /\ told \in [Requests -> {"kept", "refused", None}]

Ask(r, w) ==
  /\ wants' = [wants EXCEPT ![r] = w]
  /\ told' = [told EXCEPT ![r] = None]
  /\ UNCHANGED holder

Give(r) ==
  /\ wants[r] # None /\ told[r] = None
  /\ holder[wants[r].key] = None
  /\ holder' = [holder EXCEPT ![wants[r].key] = wants[r].user]
  /\ UNCHANGED <<wants, told>>

Tell(r) ==
  /\ wants[r] # None /\ told[r] = None
  /\ holder[wants[r].key] = wants[r].user
  /\ told' = [told EXCEPT ![r] = "kept"]
  /\ UNCHANGED <<holder, wants>>

Refuse(r) ==
  /\ wants[r] # None /\ told[r] = None
  /\ holder[wants[r].key] # None
  /\ told' = [told EXCEPT ![r] = "refused"]
  /\ UNCHANGED <<holder, wants>>

Init ==
  /\ holder = [k \in Keys |-> None]
  /\ wants = [r \in Requests |-> None]
  /\ told = [r \in Requests |-> None]

Next ==
  \/ \E r \in Requests, w \in Wishes : Ask(r, w)
  \/ \E r \in Requests : Give(r) \/ Tell(r) \/ Refuse(r)

Spec == Init /\ [][Next]_vars

=============================================================================
