------------------------------ MODULE MCLehmer ------------------------------
(* Values of the constants of Lehmer for TLC. *)
EXTENDS Lehmer

(* Operands of up to three limbs: all small ones, and some whose quotients *)
(* are all one, large, or large after many small ones.                     *)
Short == 1 .. 48
Middle == {55, 89, 97, 144, 160, 200, 233, 239, 240, 254, 255}
Long == {256, 257, 258, 263, 273, 377, 511, 610, 777, 987, 1597, 2047, 2584,
         2999, 3071, 3584, 3839, 4081, 4094, 4095}

(* The simulation subtracts the larger number.                             *)
Borrowing == {<<3451, 357>>, <<1666, 357>>, <<45458, 714>>, <<89, 2997>>}

(* A cofactor outgrows its count: in an update, in the last one, and in a  *)
(* division whose quotient is zero.                                        *)
Losing ==
  {<<11726, 867>>, <<51255, 3791>>, <<3011, 208>>, <<187, 2529>>,
   <<43826, 3387>>, <<7434, 769>>, <<20671, 3025>>, <<10645, 1577>>}

(* Divisions whose quotient is zero, and other operands of four limbs.     *)
FourLimbs ==
  {<<2707, 1624>>, <<1196, 2389>>, <<18507, 3365>>, <<64727, 1523>>,
   <<48613, 1628>>, <<31506, 378>>, <<65535, 4095>>, <<46368, 2584>>,
   <<4096, 4080>>, <<65535, 1>>}

Pairs == (Short \X Short) \cup (Middle \X (Short \cup Middle))
           \cup (Long \X (Middle \cup Long \cup {1, 2, 7, 15, 16, 19, 29, 40}))
           \cup ((Short \cup Middle) \X Long)
           \cup Borrowing \cup Losing \cup FourLimbs

Defects == Borrowing \cup Losing
==============================================================================
