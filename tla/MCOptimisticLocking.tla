------------------------- MODULE MCOptimisticLocking -------------------------
(***************************************************************************)
(* Small sets of entities, values and tabs, all interchangeable.            *)
(***************************************************************************)
EXTENDS OptimisticLocking, TLC

Interchangeable ==
  Permutations(Ids) \union Permutations(Values) \union Permutations(Clients)

=============================================================================
