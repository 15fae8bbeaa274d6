----------------------------- MODULE MCMontField -----------------------------
(* Objects are interchangeable: no function tells one from another.        *)
EXTENDS MontField, TLC

MCSymmetry == Permutations(Objects)
==============================================================================
