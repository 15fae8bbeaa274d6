------------------------------ MODULE MCRandom ------------------------------
(* Values of the constants of Random for TLC. *)
EXTENDS Random

(* Zero with and without a limb, one bit, less than an int, a whole limb.  *)
MCBounds == {<<0, 0>>, <<0, 1>>, <<1, 1>>, <<5, 1>>, <<9, 1>>}
==============================================================================
