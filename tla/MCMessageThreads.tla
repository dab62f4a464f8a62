---------------------------- MODULE MCMessageThreads ----------------------------
(***************************************************************************)
(* Two tabs, of the same user or of two, and a thread or two.              *)
(***************************************************************************)
EXTENDS MessageThreads, TLC

Interchangeable ==
  Permutations(Users) \union Permutations(Threads) \union Permutations(Rows)
  \union Permutations(Tabs)

=============================================================================
