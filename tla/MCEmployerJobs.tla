---------------------------- MODULE MCEmployerJobs ----------------------------
(***************************************************************************)
(* One job, a few descriptors and duties for it, halves and wholes.        *)
(***************************************************************************)
EXTENDS EmployerJobs, TLC

Interchangeable ==
  Permutations(Descriptors) \union Permutations(Duties) \union Permutations(Clients)

=============================================================================
