-------------------------- MODULE MCUniqueReferences --------------------------
(***************************************************************************)
(* Two requests in flight.  The forms: two offers with one ticker, two     *)
(* applications of a worker for a job and one of another worker, under two *)
(* references, a credit card and an audit record.  Requests for offers     *)
(* and user accounts go the way of offers.                                 *)
(***************************************************************************)
EXTENDS UniqueReferences, TLC

CONSTANTS u, v, x, y, j, r1, r2

Entry(k, user, ref, job) == [kind |-> k, user |-> user, reference |-> ref, job |-> job]

SomeForms ==
  {Entry("offer", u, x, None), Entry("offer", v, x, None),
   Entry("application", u, x, j), Entry("application", u, y, j), Entry("application", v, x, j),
   Entry("creditCard", u, None, None), Entry("auditRecord", u, None, j)}

RequestSymmetry == Permutations(Requests)

=============================================================================
