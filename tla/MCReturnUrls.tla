---------------------------- MODULE MCReturnUrls ----------------------------
(***************************************************************************)
(* The pages of an employer: the jobs, a job, its duties, a duty, and the  *)
(* form that adds one, which only a job leads to.                          *)
(***************************************************************************)
EXTENDS ReturnUrls, TLC

CONSTANTS mine, duties, show_job, show_duty, create_duty, create_job

RowForms == (mine :> show_job) @@ (duties :> show_duty)
FormButtons ==
  [f \in Forms |-> IF f = show_job THEN {duties, create_duty} ELSE {}]
MenuPages == {mine, create_job}

TabSymmetry == Permutations(Tabs)

=============================================================================
