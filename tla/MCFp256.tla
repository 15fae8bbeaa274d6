------------------------------- MODULE MCFp256 -------------------------------
(* Objects are interchangeable: no function tells one from another.        *)
EXTENDS Fp256, TLC

(* Operands that meet a defect of ll_lehmer_exgcd need more bits than the  *)
(* objects have here; these pairs, coprime and not, stand for them.        *)
MCBorrowing == {<<6, 11>>, <<11, 6>>, <<12, 10>>, <<10, 12>>}
MCLosing == {<<5, 9>>, <<9, 6>>}

MCSymmetry == Permutations(Objects)
==============================================================================
