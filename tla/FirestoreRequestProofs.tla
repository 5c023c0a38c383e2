------------------------ MODULE FirestoreRequestProofs -------------------------
(* Proofs about FirestoreRequest, for every size of buffer, piece and body. *)
EXTENDS FirestoreRequest, TLAPS

(* What is allocated at each point of a call.                              *)
OwnInv ==
  /\ pc \in PC
  /\ pc # "done" => result = "none"
  /\ pc \in {"call", "url"} => heap = {}
  /\ pc = "full" => heap = {"url_base"}
  /\ pc = "buffer" => heap = {"full_url"}
  /\ pc = "client" => heap = {"full_url", "buffer"}
  /\ pc = "perform" => heap = {"full_url", "buffer", "client"}
  /\ pc = "judge" => heap = {"buffer"}
  /\ NothingLeaks

LEMMA OwnInvInit == Init => OwnInv
  BY DEF Init, OwnInv, NothingLeaks, PC

LEMMA OwnInvNext == OwnInv /\ [Next]_vars => OwnInv'
  <1> SUFFICES ASSUME OwnInv, [Next]_vars PROVE OwnInv'
    OBVIOUS
  <1> USE DEF OwnInv, NothingLeaks, PC, OneUrl, Return
  <1>1. CASE Refuse BY <1>1 DEF Refuse
  <1>2. CASE Accept BY <1>2 DEF Accept
  <1>3. CASE BuildUrl BY <1>3 DEF BuildUrl
  <1>4. CASE BuildUrlFails BY <1>4 DEF BuildUrlFails
  <1>5. CASE AllocBuffer BY <1>5 DEF AllocBuffer
  <1>6. CASE AllocBufferFails BY <1>6 DEF AllocBufferFails
  <1>7. CASE ClientInit BY <1>7 DEF ClientInit
  <1>8. CASE ClientInitFails BY <1>8 DEF ClientInitFails
  <1>9. CASE OnData BY <1>9 DEF OnData
  <1>10. CASE OnDataNoMemory BY <1>10 DEF OnDataNoMemory
  <1>11. CASE PerformEnds BY <1>11 DEF PerformEnds
  <1>12. CASE Reject BY <1>12 DEF Reject
  <1>13. CASE HandOver BY <1>13 DEF HandOver
  <1>14. CASE CopyOut BY <1>14 DEF CopyOut
  <1>15. CASE BuildFullUrl BY <1>15 DEF BuildFullUrl
  <1>16. CASE BuildFullUrlFails BY <1>16 DEF BuildFullUrlFails
  <1>17. CASE UNCHANGED vars BY <1>17 DEF vars
  <1>18. QED
    BY <1>1, <1>2, <1>3, <1>4, <1>5, <1>6, <1>7, <1>8, <1>9, <1>10, <1>11, <1>12,
       <1>13, <1>14, <1>15, <1>16, <1>17 DEF Next

(* Every exit of the four functions frees what it allocated, but for the   *)
(* buffer of a successful GET.                                             *)
THEOREM NoExitLeaks == Spec => []NothingLeaks
  <1>1. OwnInv => NothingLeaks
    BY DEF OwnInv
  <1>2. QED
    BY <1>1, OwnInvInit, OwnInvNext, PTL DEF Spec

(* The buffer grows before anything is stored: doubling a capacity that    *)
(* held the old bytes and a NUL, and adding the new piece, holds all.      *)
GrowInv ==
  /\ length \in Nat /\ capacity \in Nat
  /\ pc \in {"call", "url", "full", "buffer"} => heap \cap {"buffer"} = {}
  /\ BufferFits

LEMMA GrowInvInit == Init => GrowInv
  BY DEF Init, GrowInv, BufferFits

LEMMA GrowInvNext == GrowInv /\ [Next]_vars => GrowInv'
  <1> SUFFICES ASSUME GrowInv, [Next]_vars PROVE GrowInv'
    OBVIOUS
  <1> USE RequestAssumption DEF GrowInv, BufferFits, OneUrl, Return
  <1>1. CASE Refuse BY <1>1 DEF Refuse
  <1>2. CASE Accept BY <1>2 DEF Accept
  <1>3. CASE BuildUrl BY <1>3 DEF BuildUrl
  <1>4. CASE BuildUrlFails BY <1>4 DEF BuildUrlFails
  <1>5. CASE AllocBuffer BY <1>5 DEF AllocBuffer
  <1>6. CASE AllocBufferFails BY <1>6 DEF AllocBufferFails
  <1>7. CASE ClientInit BY <1>7 DEF ClientInit
  <1>8. CASE ClientInitFails BY <1>8 DEF ClientInitFails
  <1>9. CASE OnData
    <2>1. PICK n \in Pieces :
            /\ length' = length + n
            /\ capacity' = IF Room(n) THEN capacity ELSE capacity * 2 + n
      BY <1>9 DEF OnData
    <2>2. n \in Nat
      OBVIOUS
    <2>3. length' \in Nat /\ capacity' \in Nat
      BY <2>1, <2>2
    <2>4. length + 1 <= capacity => length' + 1 <= capacity'
      BY <2>1, <2>2 DEF Room
    <2>5. QED
      BY <1>9, <2>3, <2>4 DEF OnData
  <1>10. CASE OnDataNoMemory BY <1>10 DEF OnDataNoMemory
  <1>11. CASE PerformEnds BY <1>11 DEF PerformEnds
  <1>12. CASE Reject BY <1>12 DEF Reject
  <1>13. CASE HandOver BY <1>13 DEF HandOver
  <1>14. CASE CopyOut BY <1>14 DEF CopyOut
  <1>15. CASE BuildFullUrl BY <1>15 DEF BuildFullUrl
  <1>16. CASE BuildFullUrlFails BY <1>16 DEF BuildFullUrlFails
  <1>17. CASE UNCHANGED vars BY <1>17 DEF vars
  <1>18. QED
    BY <1>1, <1>2, <1>3, <1>4, <1>5, <1>6, <1>7, <1>8, <1>9, <1>10, <1>11, <1>12,
       <1>13, <1>14, <1>15, <1>16, <1>17 DEF Next

(* No piece of a response is written past the end of its buffer.           *)
THEOREM ResponseStaysInBuffer == Spec => []BufferFits
  <1>1. GrowInv => BufferFits
    BY DEF GrowInv
  <1>2. QED
    BY <1>1, GrowInvInit, GrowInvNext, PTL DEF Spec

(* The bytes stored and the bytes lost are the bytes received; some are    *)
(* lost only where the first capacity does not do.  Nothing is copied      *)
(* before the end.                                                         *)
CountInv ==
  /\ maxLen \in Nat /\ length \in Nat /\ body \in Nat /\ capacity \in Nat
  /\ perdidos \in Nat
  /\ kind # "GET" /\ pc \notin {"call", "done"} => maxLen > 0
  /\ pc \in {"call", "url", "full", "buffer"} => body = 0 /\ perdidos = 0
  /\ result \in {"none", "OK"} /\ pc \notin {"call", "url", "full", "buffer"}
       => length + perdidos = body
  /\ pc \in {"client", "perform"} => capacity >= InitialCapacity
  /\ perdidos > 0 => body >= InitialCapacity
  /\ pc # "done" => written = 0 /\ result = "none"
  /\ CopyFits

LEMMA CountInvInit == Init => CountInv
  BY RequestAssumption DEF Init, CountInv, CopyFits

LEMMA CountInvNext == CountInv /\ [Next]_vars => CountInv'
  <1> SUFFICES ASSUME CountInv, [Next]_vars PROVE CountInv'
    OBVIOUS
  <1> USE RequestAssumption DEF CountInv, CopyFits, OneUrl, Return
  <1>1. CASE Refuse \/ Accept BY <1>1 DEF Refuse, Accept
  <1>2. CASE BuildUrl \/ BuildUrlFails BY <1>2 DEF BuildUrl, BuildUrlFails
  <1>3. CASE BuildFullUrl \/ BuildFullUrlFails BY <1>3 DEF BuildFullUrl, BuildFullUrlFails
  <1>4. CASE AllocBuffer \/ AllocBufferFails BY <1>4 DEF AllocBuffer, AllocBufferFails
  <1>5. CASE ClientInit \/ ClientInitFails BY <1>5 DEF ClientInit, ClientInitFails
  <1>6. CASE OnData
    <2>1. PICK n \in Pieces :
            /\ body' = body + n /\ length' = length + n
            /\ capacity' = IF Room(n) THEN capacity ELSE capacity * 2 + n
      BY <1>6 DEF OnData
    <2>2. n \in Nat
      OBVIOUS
    <2>3. capacity' \in Nat /\ capacity' >= capacity
      BY <2>1, <2>2
    <2>4. QED
      BY <1>6, <2>1, <2>2, <2>3 DEF OnData
  <1>7. CASE OnDataNoMemory
    <2>1. PICK n \in Pieces : body' = body + n /\ perdidos' = perdidos + n /\ ~Room(n)
      BY <1>7 DEF OnDataNoMemory
    <2>2. n \in Nat /\ pc = "perform" /\ result = "none"
      BY <1>7 DEF OnDataNoMemory
    <2>3. length <= body /\ length + n >= capacity
      BY <2>1, <2>2 DEF Room
    <2>4. body' >= InitialCapacity
      BY <2>1, <2>2, <2>3
    <2>5. QED
      BY <1>7, <2>1, <2>2, <2>4 DEF OnDataNoMemory
  <1>8. CASE PerformEnds BY <1>8 DEF PerformEnds
  <1>9. CASE Reject \/ HandOver BY <1>9 DEF Reject, HandOver
  <1>10. CASE CopyOut BY <1>10 DEF CopyOut
  <1>11. CASE UNCHANGED vars BY <1>11 DEF vars
  <1>12. QED
    BY <1>1, <1>2, <1>3, <1>4, <1>5, <1>6, <1>7, <1>8, <1>9, <1>10, <1>11 DEF Next

(* The caller's buffer of max_len bytes is never overrun.                  *)
THEOREM CopyStaysInCallersBuffer == Spec => []CopyFits
  <1>1. CountInv => CopyFits
    BY DEF CountInv
  <1>2. QED
    BY <1>1, CountInvInit, CountInvNext, PTL DEF Spec

(* A success delivers every byte received but those of the pieces that     *)
(* found no memory, which only a body of InitialCapacity or more can lose. *)
THEOREM SuccessIsComplete == Spec => []BodyComplete
  <1>1. CountInv => BodyComplete
    BY DEF CountInv, BodyComplete
  <1>2. QED
    BY <1>1, CountInvInit, CountInvNext, PTL DEF Spec

(* The counts are those of GrowInv and CountInv, and what is allocated is  *)
(* what OwnInv says of the point reached: these are the other variables.   *)
RestInv ==
  /\ kind \in Kind
  /\ status \in Status
  /\ result \in Result
  /\ written \in Nat

LEMMA RestInvNext == CountInv /\ RestInv /\ [Next]_vars => RestInv'
  <1> SUFFICES ASSUME CountInv, RestInv, [Next]_vars PROVE RestInv'
    OBVIOUS
  <1> USE DEF RestInv, Status, Result, OneUrl, Return
  <1>1. CASE Refuse \/ Accept BY <1>1 DEF Refuse, Accept
  <1>2. CASE BuildUrl \/ BuildUrlFails BY <1>2 DEF BuildUrl, BuildUrlFails
  <1>3. CASE BuildFullUrl \/ BuildFullUrlFails BY <1>3 DEF BuildFullUrl, BuildFullUrlFails
  <1>4. CASE AllocBuffer \/ AllocBufferFails BY <1>4 DEF AllocBuffer, AllocBufferFails
  <1>5. CASE ClientInit \/ ClientInitFails BY <1>5 DEF ClientInit, ClientInitFails
  <1>6. CASE OnData BY <1>6 DEF OnData
  <1>7. CASE OnDataNoMemory
    BY <1>7 DEF OnDataNoMemory
  <1>8. CASE PerformEnds BY <1>8 DEF PerformEnds
  <1>9. CASE Reject \/ HandOver BY <1>9 DEF Reject, HandOver
  <1>10. CASE CopyOut
    <2>1. maxLen \in Nat /\ maxLen > 0 /\ length \in Nat
      BY <1>10 DEF CopyOut, CountInv
    <2>2. written' \in Nat
      BY <1>10, <2>1 DEF CopyOut
    <2>3. QED
      BY <1>10, <2>2 DEF CopyOut
  <1>11. CASE UNCHANGED vars BY <1>11 DEF vars
  <1>12. QED
    BY <1>1, <1>2, <1>3, <1>4, <1>5, <1>6, <1>7, <1>8, <1>9, <1>10, <1>11 DEF Next

(* Every count stays a natural number: that of the characters copied       *)
(* because a max_len of 0 is refused before anything is asked.             *)
THEOREM RequestTypeCorrect == Spec => []TypeOK
  <1>1. Init => RestInv
    BY DEF Init, RestInv, Status, Result
  <1>2. OwnInv => heap \in SUBSET Heap
    BY DEF OwnInv, NothingLeaks, PC, Heap
  <1>3. OwnInv /\ GrowInv /\ CountInv /\ RestInv => TypeOK
    BY <1>2 DEF OwnInv, GrowInv, CountInv, RestInv, TypeOK
  <1>4. QED
    BY <1>1, <1>3, OwnInvInit, OwnInvNext, GrowInvInit, GrowInvNext, CountInvInit,
       CountInvNext, RestInvNext, PTL
    DEF Spec
(* The buffer is the first one, or at most three times what it holds: when *)
(* a piece of n bytes does not fit, capacity <= length + n, and twice that *)
(* and n more is at most 3 * (length + n).  What a failed realloc drops is *)
(* received and not stored.                                                *)
SizeInv ==
  /\ capacity <= InitialCapacity \/ capacity <= 3 * length
  /\ pc \in {"call", "url", "full", "buffer"} => length = 0
  /\ length <= body

LEMMA SizeInvNext ==
  GrowInv /\ CountInv /\ SizeInv /\ [Next]_vars => SizeInv'
  <1> SUFFICES ASSUME GrowInv, CountInv, SizeInv, [Next]_vars PROVE SizeInv'
    OBVIOUS
  <1>t. length \in Nat /\ capacity \in Nat /\ body \in Nat
    BY DEF GrowInv, CountInv
  <1> USE RequestAssumption DEF SizeInv, OneUrl, Return
  <1>1. CASE AllocBuffer
    BY <1>1, <1>t DEF AllocBuffer
  <1>2. CASE OnData
    <2>1. PICK n \in Pieces :
            /\ body' = body + n /\ length' = length + n
            /\ capacity' = IF Room(n) THEN capacity ELSE capacity * 2 + n
      BY <1>2 DEF OnData
    <2>2. n \in Nat
      OBVIOUS
    <2>3. ~Room(n) => capacity <= length + n
      BY <1>t, <2>2 DEF Room
    <2>4. ~Room(n) => capacity' <= 3 * length'
      BY <1>t, <2>1, <2>2, <2>3
    <2>5. Room(n) => capacity' <= InitialCapacity \/ capacity' <= 3 * length'
      BY <1>t, <2>1, <2>2
    <2>6. length' <= body'
      BY <1>t, <2>1, <2>2
    <2>7. QED
      BY <1>2, <2>4, <2>5, <2>6 DEF OnData
  <1>3. CASE OnDataNoMemory
    <2>1. PICK n \in Pieces : body' = body + n
      BY <1>3 DEF OnDataNoMemory
    <2>2. body' >= body
      BY <1>t, <2>1
    <2>3. QED
      BY <1>3, <1>t, <2>1, <2>2 DEF OnDataNoMemory
  <1>4. CASE ~(AllocBuffer \/ OnData \/ OnDataNoMemory)
    <2>1. /\ UNCHANGED <<length, capacity, body>>
          /\ pc' \in {"call", "url", "full", "buffer"} =>
               pc \in {"call", "url", "full", "buffer"}
      BY <1>4 DEF Next, Refuse, Accept, BuildUrl, BuildUrlFails, BuildFullUrl,
         BuildFullUrlFails, AllocBufferFails, ClientInit, ClientInitFails, PerformEnds,
         Reject, HandOver, CopyOut, vars
    <2>2. QED
      BY <2>1
  <1>5. QED
    BY <1>1, <1>2, <1>3, <1>4

(* However a response comes in pieces, and whichever allocation fails, the *)
(* growth of client_event_handler takes at most three times the bytes that *)
(* are stored, once the first buffer is outgrown; and no byte is stored    *)
(* that was not received.                                                  *)
THEOREM BufferStaysProportional ==
  Spec => []((capacity <= InitialCapacity \/ capacity <= 3 * length) /\ length <= body)
  <1>1. Init => SizeInv
    BY RequestAssumption DEF Init, SizeInv
  <1>2. SizeInv => (capacity <= InitialCapacity \/ capacity <= 3 * length) /\ length <= body
    BY DEF SizeInv
  <1>3. QED
    BY <1>1, <1>2, GrowInvInit, GrowInvNext, CountInvInit, CountInvNext, SizeInvNext, PTL
    DEF Spec
=============================================================================
