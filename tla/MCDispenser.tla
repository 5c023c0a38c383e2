------------------------------ MODULE MCDispenser ------------------------------
(* Instances of Dispenser for TLC: two compartments, one of them due from  *)
(* the start and one later, listed in either order.                        *)
EXTENDS Dispenser

Programada(i, f) ==
  [completo |-> TRUE, id |-> i, fecha |-> f, dispensado |-> FALSE, manual |-> FALSE]

InOrder == {<<Programada(1, 1), Programada(2, 2)>>}
EitherOrder == InOrder \cup {<<Programada(2, 2), Programada(1, 1)>>}
Swapped == {<<Programada(2, 2), Programada(1, 1)>>}
(* An entry that lacks "manual" beside a good one.                         *)
Malformed == {<<Programada(1, 1), [Programada(2, 2) EXCEPT !.completo = FALSE]>>}
=============================================================================
