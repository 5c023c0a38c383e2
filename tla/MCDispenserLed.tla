---------------------------- MODULE MCDispenserLed ----------------------------
(* Two turns and two attempts: the second turn meets what the first left.  *)
EXTENDS DispenserLed
=============================================================================
