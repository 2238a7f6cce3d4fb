------------------------------- MODULE MCStdfOs -------------------------------
(* Instances of StdfOs for TLC: the keys are two model values. *)
EXTENDS StdfOs, TLC

KeySymmetry == Permutations(Keys)
===============================================================================
