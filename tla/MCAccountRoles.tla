--------------------------- MODULE MCAccountRoles ---------------------------
(***************************************************************************)
(* A worker's role stands for the guarded ones, a consumer's for the rest. *)
(***************************************************************************)
EXTENDS AccountRoles, TLC

Interchangeable ==
  UNION {Permutations(S) : S \in {Accounts, Sessions, Threads, RoleIds, Principals}}

=============================================================================
