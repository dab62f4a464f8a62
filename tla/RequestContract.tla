-------------------------- MODULE RequestContract --------------------------
(***************************************************************************)
(* What handleRequest promises to the client of one request.  Its effect   *)
(* on the data is settled once, as a whole, and it is answered once.  What *)
(* is more, unless requests overlapped on its controller before it was     *)
(* answered: only its own steps settle its effect, they do so before it is *)
(* answered, and a plain view means that the effect was kept, the form     *)
(* (with its errors) that it was undone.  After a panic, an error page or  *)
(* a lost connection the client knows nothing.                             *)
(***************************************************************************)
CONSTANT Requests

VARIABLES
  effect,    \* "pending", then "kept" or "undone"
  reply,     \* "none", then the answer
  disturbed  \* the requests that met others

contractVars == <<effect, reply, disturbed>>

Effects == {"pending", "kept", "undone"}
Uninformative == {"panic", "error", "lost"}

ContractInit ==
  /\ effect = [r \in Requests |-> "pending"]
  /\ reply = [r \in Requests |-> "none"]
  /\ disturbed = {}

\* The effects that a step of request r may settle.
Settles(r) ==
  /\ effect' \in [Requests -> Effects]
  /\ \A q \in Requests : effect'[q] # effect[q] =>
       effect[q] = "pending" /\ (q = r \/ {q, r} \subseteq disturbed)

Work(r) ==
  /\ Settles(r)
  /\ r \notin disturbed /\ effect' # effect => reply[r] = "none"
  /\ UNCHANGED <<reply, disturbed>>

Reply(r, a) ==
  /\ reply[r] = "none"
  /\ reply' = [reply EXCEPT ![r] = a]
  /\ Settles(r)
  /\ r \notin disturbed =>
       /\ effect'[r] # "pending"
       /\ a = "view" => effect[r] = "kept"
       /\ a = "form" => effect[r] = "undone"
  /\ UNCHANGED disturbed

\* Nobody is disturbed alone, or after the answer.
Meet(met) ==
  /\ \A r \in met : reply[r] = "none"
  /\ disturbed' = disturbed \union met
  /\ \A r \in met : disturbed' # {r}
  /\ UNCHANGED <<effect, reply>>

(***************************************************************************)
(* The server restarts: the requests that it had accepted get no answer,   *)
(* and what they, or disturbed ones, had not settled is undone.            *)
(***************************************************************************)
Drop(accepted) ==
  /\ \A r \in accepted : reply[r] = "none"
  /\ reply' = [r \in Requests |-> IF r \in accepted THEN "lost" ELSE reply[r]]
  /\ effect' = [r \in Requests |->
                  IF r \in accepted \union disturbed /\ effect[r] = "pending"
                  THEN "undone" ELSE effect[r]]
  /\ UNCHANGED disturbed

ContractNext ==
  \/ \E r \in Requests : Work(r)
  \/ \E r \in Requests : \E a \in {"view", "form"} \union Uninformative : Reply(r, a)
  \/ \E met \in SUBSET Requests : Meet(met)
  \/ \E accepted \in SUBSET Requests : Drop(accepted)

ContractSpec == ContractInit /\ [][ContractNext]_contractVars

=============================================================================
