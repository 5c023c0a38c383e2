---------------------------- MODULE MCConnectivity ----------------------------
(* One retry, a button held for two polls and one power cut: every counter *)
(* of Connectivity passes its first, a middle or its last value.           *)
EXTENDS Connectivity
=============================================================================
