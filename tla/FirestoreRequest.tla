--------------------------- MODULE FirestoreRequest ----------------------------
(***************************************************************************)
(* One request to Firestore: firestore_get_document, _create_document,     *)
(* _overwrite_document and _update_document share a growing response       *)
(* buffer that client_event_handler fills, and each must give back what it *)
(* allocated on every exit.                                                *)
(*                                                                         *)
(* Bytes are abstracted to counts.  esp_http_client is external: it        *)
(* delivers the body in pieces and does not stop when the handler reports  *)
(* that a piece could not be stored.                                       *)
(***************************************************************************)
EXTENDS Integers

CONSTANTS
  InitialCapacity,  \* 2048
  Pieces,           \* the sizes a piece of the body may have
  MaxBody,          \* bound on the length of a body
  MaxLens           \* the max_len a caller may pass

ASSUME RequestAssumption ==
  /\ InitialCapacity \in Nat \ {0}
  /\ Pieces \subseteq Nat
  /\ MaxBody \in Nat
  /\ MaxLens \subseteq Nat

Kind == {"GET", "POST", "PUT", "PATCH"}

VARIABLES
  pc,
  kind,      \* which of the four functions was called
  maxLen,    \* the caller's max_len
  heap,      \* what is allocated and not yet freed or handed over
  length, capacity,   \* http_response_t
  body,      \* bytes the server has sent
  perdidos,  \* ghost: bytes of the pieces that found no memory
  status,    \* HTTP status, 0 if the request failed
  result,    \* the value returned
  written    \* characters copied to outResponse, without the NUL

vars == <<pc, kind, maxLen, heap, length, capacity, body, perdidos, status, result,
          written>>

PC == {"call", "url", "full", "buffer", "client", "perform", "judge", "done"}
Heap == {"url_base", "full_url", "buffer", "client"}
Status == {0, 200, 201, 404}
Result == {"none", "OK", "FAIL", "NO_MEM", "INVALID_STATE", "INVALID_ARG"}

(* Type invariant.  Each count stays a natural number: with a max_len of 0 *)
(* the copy to the caller would be of -1 characters.                       *)
TypeOK ==
  /\ pc \in PC
  /\ kind \in Kind
  /\ maxLen \in Nat
  /\ heap \in SUBSET Heap
  /\ length \in Nat /\ capacity \in Nat /\ body \in Nat
  /\ perdidos \in Nat
  /\ status \in Status
  /\ result \in Result
  /\ written \in Nat

Init ==
  /\ pc = "call"
  /\ kind \in Kind
  /\ maxLen \in MaxLens
  /\ heap = {}
  /\ length = 0 /\ capacity = 0 /\ body = 0
  /\ perdidos = 0
  /\ status = 0
  /\ result = "none"
  /\ written = 0

Return(r) == result' = r /\ pc' = "done"

(* Not initialised, or an argument is missing; GET has no max_len.         *)
Refuse ==
  /\ pc = "call"
  /\ \/ Return("INVALID_STATE")
     \/ Return("INVALID_ARG")
  /\ UNCHANGED <<kind, maxLen, heap, length, capacity, body, perdidos, status, written>>

(* Mutant of Accept: max_len not checked.                                  *)
AcceptAnyLength ==
  /\ pc = "call"
  /\ pc' = "url"
  /\ UNCHANGED <<kind, maxLen, heap, length, capacity, body, perdidos, status, result,
                 written>>

Accept ==
  /\ pc = "call"
  /\ kind # "GET" => maxLen > 0
  /\ pc' = "url"
  /\ UNCHANGED <<kind, maxLen, heap, length, capacity, body, perdidos, status, result,
                 written>>

OneUrl == {"GET", "POST"}

(* firestore_build_url; PUT and PATCH build their final URL from it.       *)
BuildUrl ==
  /\ pc = "url"
  /\ heap' = IF kind \in OneUrl THEN {"full_url"} ELSE {"url_base"}
  /\ pc' = IF kind \in OneUrl THEN "buffer" ELSE "full"
  /\ UNCHANGED <<kind, maxLen, length, capacity, body, perdidos, status, result, written>>

(* The final URL, with the query of a PATCH; the first one is freed.       *)
BuildFullUrl ==
  /\ pc = "full"
  /\ heap' = (heap \cup {"full_url"}) \ {"url_base"}
  /\ pc' = "buffer"
  /\ UNCHANGED <<kind, maxLen, length, capacity, body, perdidos, status, result, written>>

BuildFullUrlFails ==
  /\ pc = "full"
  /\ heap' = heap \ {"url_base"}
  /\ Return("NO_MEM")
  /\ UNCHANGED <<kind, maxLen, length, capacity, body, perdidos, status, written>>

BuildUrlFails ==
  /\ pc = "url"
  /\ Return(IF kind \in OneUrl THEN "FAIL" ELSE "NO_MEM")
  /\ UNCHANGED <<kind, maxLen, heap, length, capacity, body, perdidos, status, written>>

AllocBuffer ==
  /\ pc = "buffer"
  /\ heap' = heap \cup {"buffer"}
  /\ capacity' = InitialCapacity /\ length' = 0
  /\ pc' = "client"
  /\ UNCHANGED <<kind, maxLen, body, perdidos, status, result, written>>

AllocBufferFails ==
  /\ pc = "buffer"
  /\ heap' = heap \ {"full_url"}
  /\ Return("NO_MEM")
  /\ UNCHANGED <<kind, maxLen, length, capacity, body, perdidos, status, written>>

ClientInit ==
  /\ pc = "client"
  /\ heap' = heap \cup {"client"}
  /\ pc' = "perform"
  /\ UNCHANGED <<kind, maxLen, length, capacity, body, perdidos, status, result, written>>

(* Mutant of ClientInitFails: the URL is not freed.                        *)
ClientInitFailsLeaking ==
  /\ pc = "client"
  /\ heap' = heap \ {"buffer"}
  /\ Return("FAIL")
  /\ UNCHANGED <<kind, maxLen, length, capacity, body, perdidos, status, written>>

ClientInitFails ==
  /\ pc = "client"
  /\ heap' = heap \ {"buffer", "full_url"}
  /\ Return("FAIL")
  /\ UNCHANGED <<kind, maxLen, length, capacity, body, perdidos, status, written>>

(* Mutant of Room: no byte for the NUL.                                    *)
RoomWithoutNul(n) == length + n <= capacity

Room(n) == length + n + 1 <= capacity

(* Mutant of OnData: each piece stored over the one before.                *)
OnDataOverwriting ==
  /\ pc = "perform"
  /\ \E n \in Pieces :
       /\ body + n <= MaxBody
       /\ body' = body + n
       /\ length' = n
       /\ capacity' = IF Room(n) THEN capacity ELSE capacity * 2 + n
  /\ UNCHANGED <<pc, kind, maxLen, heap, perdidos, status, result, written>>

(* HTTP_EVENT_ON_DATA: store n bytes and a NUL, growing the buffer first   *)
(* if they do not fit.                                                     *)
OnData ==
  /\ pc = "perform"
  /\ \E n \in Pieces :
       /\ body + n <= MaxBody
       /\ body' = body + n
       /\ length' = length + n
       /\ capacity' = IF Room(n) THEN capacity ELSE capacity * 2 + n
  /\ UNCHANGED <<pc, kind, maxLen, heap, perdidos, status, result, written>>

(* realloc fails: the piece is not stored, and the client goes on.         *)
OnDataNoMemory ==
  /\ pc = "perform"
  /\ \E n \in Pieces :
       /\ body + n <= MaxBody
       /\ ~Room(n)
       /\ body' = body + n
       /\ perdidos' = perdidos + n
  /\ UNCHANGED <<pc, kind, maxLen, heap, length, capacity, status, result, written>>

(* esp_http_client_perform returns, the client and the URL are released.   *)
PerformEnds ==
  /\ pc = "perform"
  /\ status' \in Status
  /\ heap' = heap \ {"client", "full_url"}
  /\ pc' = "judge"
  /\ UNCHANGED <<kind, maxLen, length, capacity, body, perdidos, result, written>>

Accepted == status = 200 \/ (status = 201 /\ kind \in {"PUT", "PATCH"})

Reject ==
  /\ pc = "judge" /\ ~Accepted
  /\ heap' = heap \ {"buffer"}
  /\ Return("FAIL")
  /\ UNCHANGED <<kind, maxLen, length, capacity, body, perdidos, status, written>>

(* GET hands the buffer over: the caller frees it.                         *)
HandOver ==
  /\ pc = "judge" /\ Accepted /\ kind = "GET"
  /\ Return("OK")
  /\ UNCHANGED <<kind, maxLen, heap, length, capacity, body, perdidos, status, written>>

(* Mutant of CopyOut: the comparison misses a body of exactly max_len.     *)
CopyOutOffByOne ==
  /\ pc = "judge" /\ Accepted /\ kind # "GET"
  /\ written' = IF length > maxLen THEN maxLen - 1 ELSE length
  /\ heap' = heap \ {"buffer"}
  /\ Return("OK")
  /\ UNCHANGED <<kind, maxLen, length, capacity, body, perdidos, status>>

(* The others copy at most max_len - 1 characters and free the buffer.     *)
CopyOut ==
  /\ pc = "judge" /\ Accepted /\ kind # "GET"
  /\ written' = IF length >= maxLen THEN maxLen - 1 ELSE length
  /\ heap' = heap \ {"buffer"}
  /\ Return("OK")
  /\ UNCHANGED <<kind, maxLen, length, capacity, body, perdidos, status>>

Next ==
  \/ Refuse \/ Accept \/ BuildUrl \/ BuildUrlFails \/ BuildFullUrl \/ BuildFullUrlFails
  \/ AllocBuffer \/ AllocBufferFails
  \/ ClientInit \/ ClientInitFails \/ OnData \/ OnDataNoMemory \/ PerformEnds
  \/ Reject \/ HandOver \/ CopyOut

Spec == Init /\ [][Next]_vars

-----------------------------------------------------------------------------
(* The body and its NUL always fit in the buffer, whatever the pieces and  *)
(* whichever allocation failed before.                                     *)
BufferFits == "buffer" \in heap => length + 1 <= capacity

(* Each call ends with nothing allocated, except the buffer that a         *)
(* successful GET hands to its caller.                                     *)
NothingLeaks ==
  pc = "done" =>
    heap = IF kind = "GET" /\ result = "OK" THEN {"buffer"} ELSE {}

(* The copy and its NUL fit in the caller's buffer, and the text copied    *)
(* was received.                                                           *)
CopyFits == written > 0 => written < maxLen /\ written <= length

(* What a success hands over.  A failed realloc loses its piece, the       *)
(* pieces around it are joined, and the request may succeed all the same:  *)
(* then exactly the lost pieces are missing, and only from a body that did *)
(* not fit in the first buffer.  Any other success is the whole body.      *)
BodyComplete ==
  result = "OK" =>
    /\ length + perdidos = body
    /\ perdidos > 0 => body >= InitialCapacity
=============================================================================
