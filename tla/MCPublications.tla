---------------------------- MODULE MCPublications ----------------------------
(***************************************************************************)
(* One table at a time, and together those that read one another: the      *)
(* banners of one kind with the spam words, those of the other with the    *)
(* cards (the spam word stays as it was first, any text).                  *)
(***************************************************************************)
EXTENDS Publications, TLC

TablesUsed ==
  {{"announcement"}, {"challenge"}, {"company"}, {"investor"},
   {"offer"}, {"request"}, {"account"},
   {"noncommercial", "spamword"}, {"commercial", "card"}}

Interchangeable ==
  Permutations(Identifiers \ {SpamWord}) \union Permutations(Tabs) \union Permutations(Sponsors)

=============================================================================
