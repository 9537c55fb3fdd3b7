--------------------------- MODULE MCServiceUpdate ----------------------------
(* The workers are alike: no property tells one from another. *)
EXTENDS ServiceUpdateAudit, TLC

WorkersAreAlike == Permutations(Workers)
=============================================================================
