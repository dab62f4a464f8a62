----------------------- MODULE MCAbstractController -----------------------
(***************************************************************************)
(* Small instances of AbstractController: requests to one controller, or   *)
(* some of them to another, which may be served at the same time.          *)
(***************************************************************************)
EXTENDS AbstractController, TLC

CONSTANTS r1, r2, r3, c1, c2, t1, t2

SameController == [r \in Requests |-> c1]
TwoControllers == (r1 :> c1) @@ (r2 :> c1) @@ (r3 :> c2)

ThreadSymmetry == Permutations(Threads)

=============================================================================
