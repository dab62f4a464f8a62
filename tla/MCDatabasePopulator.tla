-------------------------- MODULE MCDatabasePopulator --------------------------
(***************************************************************************)
(* Files with four entities (or as many as Listed has), whatever they      *)
(* require of one another.                                                 *)
(***************************************************************************)
EXTENDS DatabasePopulator

CONSTANTS e1, e2, e3, e4

InOrder == <<e1, e2, e3, e4>>

=============================================================================
