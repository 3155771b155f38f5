----------------------------- MODULE MCPublish -----------------------------
(***************************************************************************)
(* Publish on small instances: one text is so much shorter than the other  *)
(* that it can be written before a block of the other and leave a hole     *)
(* behind it.                                                              *)
(***************************************************************************)
EXTENDS Publish, TLC

CONSTANTS long, short

LongAndShort == long :> Blocks @@ short :> Blocks - 2

Symmetry == Permutations(Deployers) \cup Permutations(Files)
=============================================================================
