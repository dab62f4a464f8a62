---------------------------- MODULE MCApplications ----------------------------
(***************************************************************************)
(* Two employers with a job each, a worker, and two times of a day, both   *)
(* in its first minute.                                                    *)
(***************************************************************************)
EXTENDS Applications, TLC

CONSTANTS j1, j2, m1, m2, midnight, a_moment_later

EmployerOf == (j1 :> m1) @@ (j2 :> m2)
MinuteOf == (midnight :> midnight) @@ (a_moment_later :> midnight)

\* The employers change places together with their jobs.
OtherSide == (j1 :> j2) @@ (j2 :> j1) @@ (m1 :> m2) @@ (m2 :> m1)

Interchangeable == Permutations(Ids) \union Permutations(Tabs) \union {OtherSide}

=============================================================================
