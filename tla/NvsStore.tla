------------------------------- MODULE NvsStore -------------------------------
(***************************************************************************)
(* nvs_utils: blobs in flash, seen by a caller with a buffer of a certain  *)
(* size.  A blob is "absent", it "fits" the buffer of the one function     *)
(* that loads it, or it is "long"er than that buffer.                      *)
(***************************************************************************)

Blob == {"absent", "fits", "long"}

(* Mutant of LoadBlob: nvs_utils.h as documented, a buffer that is too     *)
(* small is an error.                                                      *)
LoadBlobChecked(blob) ==
  [ok |-> blob = "fits", copied |-> blob = "fits"]

(* nvs_utils_load_blob.  The size is asked for first; a blob longer than   *)
(* the buffer is not copied and actual_len is not set, but err still holds *)
(* the ESP_OK of that question.                                            *)
LoadBlob(blob) ==
  [ok |-> blob # "absent", copied |-> blob = "fits"]

(* nvs_utils_save_blob: what the key may hold afterwards (the write fails  *)
(* when the partition is full or closed).  A commit that fails is not      *)
(* reported.                                                               *)
SaveBlob(old, new) == {old, new}
=============================================================================
