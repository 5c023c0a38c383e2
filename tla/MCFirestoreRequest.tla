-------------------------- MODULE MCFirestoreRequest ---------------------------
(* A buffer of 4 bytes and pieces below, at and above what still fits.     *)
EXTENDS FirestoreRequest
=============================================================================
