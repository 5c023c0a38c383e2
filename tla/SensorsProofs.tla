----------------------------- MODULE SensorsProofs -----------------------------
(***************************************************************************)
(* Proofs about Sensors, for replies of any length, any number of requests *)
(* and any number of late replies and lost bytes.                          *)
(***************************************************************************)
EXTENDS Sensors, SequenceTheorems, TLAPS

-----------------------------------------------------------------------------
(* The order of the fields, and the bytes of a reply.                      *)

LEMMA FieldOrder ==
  /\ Fields = 4
  /\ \A i \in 1 .. 4 : ZeroOrder[i] \in Field /\ StoreOrder[i] \in Field
  /\ \A f \in Field : \E i \in 1 .. 4 : StoreOrder[i] = f
  /\ \A i, j \in 1 .. 4 : StoreOrder[i] = StoreOrder[j] => i = j
  BY DEF Fields, ZeroOrder, StoreOrder, Field

LEMMA ReplyType ==
  ASSUME NEW n \in Nat \ {0}
  PROVE  /\ Reply(n) \in Seq(Byte) /\ Len(Reply(n)) = RESP_BUF_SIZE
         /\ Reply(n) # <<>>
         /\ \A i \in 1 .. RESP_BUF_SIZE : Reply(n)[i].n = n
  <1>1. RESP_BUF_SIZE \in Nat /\ RESP_BUF_SIZE >= 4
    BY SensorsAssumption
  <1>2. \A i \in 1 .. RESP_BUF_SIZE : [n |-> n, i |-> i] \in Byte
    BY DEF Byte
  <1>3. Reply(n) \in [1 .. RESP_BUF_SIZE -> Byte]
    BY <1>2 DEF Reply
  <1>4. Reply(n) \in Seq(Byte)
    BY <1>1, <1>3
  <1>5. Len(Reply(n)) = RESP_BUF_SIZE
    BY <1>1, <1>4, LenProperties DEF Reply
  <1>6. Reply(n) # <<>>
    BY <1>1, <1>4, <1>5, EmptySeq
  <1>7. QED
    BY <1>4, <1>5, <1>6 DEF Reply

(* What BytesArrive does to the two ends of the line.                      *)
LEMMA ArriveLengths ==
  ASSUME NEW r \in Seq(Byte), NEW l \in Seq(Byte), NEW k \in 1 .. Len(l)
  PROVE  /\ r \o SubSeq(l, 1, k) \in Seq(Byte)
         /\ Len(r \o SubSeq(l, 1, k)) = Len(r) + k
         /\ SubSeq(l, k + 1, Len(l)) \in Seq(Byte)
         /\ Len(SubSeq(l, k + 1, Len(l))) = Len(l) - k
  <1>1. Len(l) \in Nat /\ k \in Int /\ k + 1 \in Int /\ \A i \in 1 .. Len(l) : l[i] \in Byte
    BY LenProperties, ElementOfSeq
  <1>2. SubSeq(l, 1, k) \in Seq(Byte) /\ Len(SubSeq(l, 1, k)) = k
    BY <1>1, SubSeqProperties
  <1>3. SubSeq(l, k + 1, Len(l)) \in Seq(Byte)
    BY <1>1, SubSeqProperties
  <1>4. Len(SubSeq(l, k + 1, Len(l))) = Len(l) - k
    <2>1. Len(SubSeq(l, k + 1, Len(l))) =
            IF k + 1 <= Len(l) THEN Len(l) - (k + 1) + 1 ELSE 0
      BY <1>1, SubSeqProperties
    <2>2. QED
      BY <1>1, <2>1
  <1>5. QED
    BY <1>2, <1>3, <1>4, ConcatProperties

(* What ReadReply takes from the buffer, and what it leaves.               *)
LEMMA TakeReply ==
  ASSUME NEW r \in Seq(Byte), Len(r) >= RESP_BUF_SIZE
  PROVE  /\ SubSeq(r, 1, RESP_BUF_SIZE) \in Seq(Byte)
         /\ Len(SubSeq(r, 1, RESP_BUF_SIZE)) = RESP_BUF_SIZE
         /\ \A i \in 1 .. RESP_BUF_SIZE : SubSeq(r, 1, RESP_BUF_SIZE)[i] = r[i]
         /\ SubSeq(r, RESP_BUF_SIZE + 1, Len(r)) \in Seq(Byte)
         /\ Len(SubSeq(r, RESP_BUF_SIZE + 1, Len(r))) = Len(r) - RESP_BUF_SIZE
  <1>1. /\ RESP_BUF_SIZE \in Nat /\ RESP_BUF_SIZE >= 4 /\ Len(r) \in Nat
        /\ \A i \in 1 .. Len(r) : r[i] \in Byte
    BY SensorsAssumption, LenProperties, ElementOfSeq
  <1>2. /\ SubSeq(r, 1, RESP_BUF_SIZE) \in Seq(Byte)
        /\ Len(SubSeq(r, 1, RESP_BUF_SIZE)) =
             (IF 1 <= RESP_BUF_SIZE THEN RESP_BUF_SIZE - 1 + 1 ELSE 0)
        /\ \A i \in 1 .. RESP_BUF_SIZE - 1 + 1 :
             SubSeq(r, 1, RESP_BUF_SIZE)[i] = r[1 + i - 1]
    BY <1>1, SubSeqProperties
  <1>3. /\ SubSeq(r, RESP_BUF_SIZE + 1, Len(r)) \in Seq(Byte)
        /\ Len(SubSeq(r, RESP_BUF_SIZE + 1, Len(r))) =
             (IF RESP_BUF_SIZE + 1 <= Len(r) THEN Len(r) - (RESP_BUF_SIZE + 1) + 1 ELSE 0)
    BY <1>1, SubSeqProperties
  <1>4. \A i \in 1 .. RESP_BUF_SIZE : i \in 1 .. RESP_BUF_SIZE - 1 + 1 /\ 1 + i - 1 = i
    BY <1>1
  <1>5. \A i \in 1 .. RESP_BUF_SIZE : SubSeq(r, 1, RESP_BUF_SIZE)[i] = r[i]
    BY <1>2, <1>4
  <1>6. QED
    BY <1>1, <1>2, <1>3, <1>5

-----------------------------------------------------------------------------
(* Types, and how many bytes there can be.  A pass starts with the line    *)
(* idle and leaves one reply at most behind: what it reads or drops is a   *)
(* whole reply, or all there is.                                           *)

ManagerTypes ==
  /\ esp_id \in Blob
  /\ boot \in {"init", "start", "up"}
  /\ sensors_initialized \in BOOLEAN
  /\ sensor_count \in {0, 1}
  /\ ppc \in {"none", "delay", "load"}
  /\ clean \in BOOLEAN /\ prompt \in BOOLEAN
  /\ pasadas \in 0 .. 2
  /\ boot # "up" => rpc = "none"

ReadTypes ==
  /\ rpc \in {"none", "delay", "zero", "send", "wait", "check", "store", "mark"}
  /\ campo \in 1 .. Fields
  /\ requests \in Nat
  /\ last_values \in [Field -> Value] /\ antes \in Value
  /\ ok \in {"none", "yes", "no"}
  /\ DOMAIN payload \subseteq Field
  /\ \A f \in DOMAIN payload : payload[f] \in Value
  /\ rpc \in {"wait", "check", "store", "mark"} => requests > 0
  /\ rpc = "store" => Intact(respbuff)
  /\ late \subseteq 1 .. requests
  /\ faults \in 0 .. MaxFaults

LineTypes ==
  /\ respbuff \in Seq(Byte) /\ rx \in Seq(Byte) /\ line \in Seq(Byte)
  /\ rpc \in {"zero", "send"} => line = <<>>
  /\ rpc # "wait" => Len(rx) + Len(line) <= RESP_BUF_SIZE
  /\ Len(line) <= RESP_BUF_SIZE
  /\ Len(rx) + Len(line) <= 2 * RESP_BUF_SIZE

TypeInv == ManagerTypes /\ ReadTypes /\ LineTypes

LEMMA TypeInvInit == SensorsInit => TypeInv
  <1> SUFFICES ASSUME SensorsInit PROVE TypeInv
    OBVIOUS
  <1>1. /\ sensors_initialized \in BOOLEAN /\ clean \in BOOLEAN
        /\ prompt \in BOOLEAN
    BY Zenon DEF SensorsInit
  <1>2. ManagerTypes
    BY <1>1, SensorsAssumption DEF SensorsInit, ManagerTypes
  <1>3. ReadTypes
    <2>1. 0 \in Value
      BY DEF Value
    <2>2. payload = <<>> /\ DOMAIN payload = {}
      BY DEF SensorsInit
    <2>3. QED
      BY <2>1, <2>2, FieldOrder, SensorsAssumption DEF SensorsInit, ReadTypes
  <1>4. LineTypes
    BY SensorsAssumption, EmptySeq DEF SensorsInit, LineTypes
  <1>5. QED
    BY <1>2, <1>3, <1>4 DEF TypeInv

LEMMA ManagerTypesNext == ManagerTypes /\ [SensorsNext]_sensorsVars => ManagerTypes'
  <1> SUFFICES ASSUME ManagerTypes, [SensorsNext]_sensorsVars PROVE ManagerTypes'
    OBVIOUS
  <1> USE DEF ManagerTypes, manager, readTask, sensorGhosts, publishTask
  <1>1. CASE ManagerInit
    <2>1. sensors_initialized' \in BOOLEAN
      BY <1>1 DEF ManagerInit, LoadBlob
    <2>2. sensor_count' \in {0, 1}
      BY <1>1 DEF ManagerInit
    <2>3. QED
      BY <1>1, <2>1, <2>2 DEF ManagerInit
  <1>2. CASE StartRead \/ StartPublish
    BY <1>2 DEF StartRead, StartPublish
  <1>3. CASE BeginPass
    BY <1>3 DEF BeginPass
  <1>4. CASE ZeroField \/ ReadReply \/ CheckCRC \/ StoreField \/ MarkField
    BY <1>4 DEF ZeroField, ReadReply, CheckCRC, StoreField, MarkField
  <1>5. CASE SendRequest
    <2>1. (rx = <<>>) \in BOOLEAN /\ (line' # <<>>) \in BOOLEAN
      BY SMT
    <2>2. clean' = (rx = <<>>) /\ prompt' = (line' # <<>>)
      BY <1>5, Zenon DEF SendRequest
    <2>3. clean' \in BOOLEAN /\ prompt' \in BOOLEAN
      BY <2>1, <2>2, Zenon
    <2>4. QED
      BY <1>5, <2>3 DEF SendRequest
  <1>6. CASE ReadTimeout
    <2>1. (prompt /\ line = <<>>) \in BOOLEAN
      BY SMT
    <2>2. prompt' = (prompt /\ line = <<>>)
      BY <1>6, Zenon DEF ReadTimeout
    <2>3. prompt' \in BOOLEAN
      BY <2>1, <2>2, Zenon
    <2>4. QED
      BY <1>6, <2>3 DEF ReadTimeout
  <1>7. CASE PublishBegin
    BY <1>7 DEF PublishBegin
  <1>8. CASE LoadField \/ PublishEnd \/ BytesArrive
    BY <1>8 DEF LoadField, PublishEnd, BytesArrive
  <1>9. CASE ByteLost
    <2>1. prompt' \in BOOLEAN
      BY <1>9, Zenon DEF ByteLost
    <2>2. QED
      BY <1>9, <2>1 DEF ByteLost
  <1>10. CASE UNCHANGED sensorsVars
    BY <1>10 DEF sensorsVars
  <1>11. QED
    BY <1>1, <1>2, <1>3, <1>4, <1>5, <1>6, <1>7, <1>8, <1>9, <1>10
    DEF SensorsNext, SensorsReadTask, SensorsPublishTask

LEMMA NextFieldType ==
  ASSUME campo \in 1 .. Fields, NEW then, NextField(then)
  PROVE  /\ campo' \in 1 .. Fields
         /\ rpc' \in {rpc, then}
         /\ campo < Fields => campo' = campo + 1 /\ rpc' = rpc
         /\ ~(campo < Fields) => campo = Fields /\ campo' = 1 /\ rpc' = then
  BY FieldOrder DEF NextField

LEMMA ReadTypesNext == ReadTypes /\ [SensorsNext]_sensorsVars => ReadTypes'
  <1> SUFFICES ASSUME ReadTypes, [SensorsNext]_sensorsVars PROVE ReadTypes'
    OBVIOUS
  <1> USE DEF ReadTypes, manager, readTask, uart, sensorGhosts, publishTask
  <1>v. 0 \in Value /\ -1 \in Value
    BY DEF Value
  <1>f. Fields = 4
    BY FieldOrder
  <1>1. CASE ManagerInit \/ StartRead \/ StartPublish
    BY <1>1 DEF ManagerInit, StartRead, StartPublish, Intact
  <1>2. CASE BeginPass
    <2>1. antes' \in Value
      BY <1>2 DEF BeginPass, Field
    <2>2. QED
      BY <1>2, <1>f, <2>1 DEF BeginPass
  <1>3. CASE ZeroField
    <2>1. ZeroOrder[campo] \in Field
      BY <1>f, FieldOrder
    <2>2. last_values' \in [Field -> Value]
      BY <1>3, <1>v, <2>1 DEF ZeroField
    <2>3. campo' \in 1 .. Fields /\ rpc' \in {"zero", "send"}
      BY <1>3, NextFieldType DEF ZeroField
    <2>4. QED
      BY <1>3, <2>2, <2>3 DEF ZeroField
  <1>4. CASE SendRequest
    BY <1>4 DEF SendRequest
  <1>5. CASE ReadReply
    BY <1>5 DEF ReadReply
  <1>6. CASE ReadTimeout
    <2>1. late' \subseteq 1 .. requests
      BY <1>6 DEF ReadTimeout
    <2>2. faults' \in 0 .. MaxFaults
      BY <1>6, SensorsAssumption DEF ReadTimeout
    <2>3. QED
      BY <1>6, <2>1, <2>2 DEF ReadTimeout
  <1>7. CASE CheckCRC
    BY <1>7 DEF CheckCRC, Intact
  <1>8. CASE StoreField
    <2>1. StoreOrder[campo] \in Field /\ campo \in 1 .. RESP_BUF_SIZE
      BY <1>f, FieldOrder, SensorsAssumption
    <2>2. respbuff[campo].n \in Value
      <3>1. PICK n \in 1 .. requests : respbuff = Reply(n)
        BY <1>8 DEF StoreField, Intact
      <3>2. respbuff[campo].n = n
        BY <2>1, <3>1, ReplyType
      <3>3. QED
        BY <3>1, <3>2 DEF Value
    <2>3. last_values' \in [Field -> Value]
      BY <1>8, <2>1, <2>2 DEF StoreField
    <2>4. campo' \in 1 .. Fields /\ rpc' \in {"store", "delay"}
      BY <1>8, NextFieldType DEF StoreField
    <2>5. rpc' = "store" => respbuff' = respbuff
      BY <1>8, NextFieldType DEF StoreField
    <2>6. ok' \in {"none", "yes", "no"}
      BY <1>8 DEF StoreField
    <2>7. QED
      BY <1>8, <2>3, <2>4, <2>5, <2>6 DEF StoreField, Intact
  <1>9. CASE MarkField
    <2>1. StoreOrder[campo] \in Field
      BY <1>f, FieldOrder
    <2>2. last_values' \in [Field -> Value]
      BY <1>9, <1>v, <2>1 DEF MarkField
    <2>3. campo' \in 1 .. Fields /\ rpc' \in {"mark", "delay"}
      BY <1>9, NextFieldType DEF MarkField
    <2>4. QED
      BY <1>9, <2>2, <2>3 DEF MarkField
  <1>10. CASE PublishBegin \/ PublishEnd
    <2>1. payload' = <<>> /\ DOMAIN payload' = {}
      BY <1>10 DEF PublishBegin, PublishEnd
    <2>2. QED
      BY <1>10, <2>1 DEF PublishBegin, PublishEnd, Intact
  <1>11. CASE LoadField
    <2>1. PICK f \in Field \ DOMAIN payload :
            payload' = [g \in DOMAIN payload \cup {f} |->
                          IF g = f THEN last_values[f] ELSE payload[g]]
      BY <1>11 DEF LoadField
    <2>2. DOMAIN payload' = DOMAIN payload \cup {f}
      BY <2>1
    <2>3. \A g \in DOMAIN payload' : payload'[g] \in Value
      BY <2>1, <2>2
    <2>4. QED
      BY <1>11, <2>2, <2>3 DEF LoadField, Intact
  <1>12. CASE BytesArrive
    BY <1>12 DEF BytesArrive, Intact
  <1>13. CASE ByteLost
    BY <1>13, SensorsAssumption DEF ByteLost, Intact
  <1>14. CASE UNCHANGED sensorsVars
    BY <1>14 DEF sensorsVars, Intact
  <1>15. QED
    BY <1>1, <1>2, <1>3, <1>4, <1>5, <1>6, <1>7, <1>8, <1>9, <1>10, <1>11, <1>12,
       <1>13, <1>14
    DEF SensorsNext, SensorsReadTask, SensorsPublishTask

LEMMA LineTypesNext == TypeInv /\ [SensorsNext]_sensorsVars => LineTypes'
  <1> SUFFICES ASSUME ManagerTypes, ReadTypes, LineTypes, [SensorsNext]_sensorsVars
               PROVE  LineTypes'
    BY DEF TypeInv
  <1> USE DEF LineTypes, manager, readTask, uart, sensorGhosts, publishTask
  <1>r. /\ RESP_BUF_SIZE \in Nat /\ Len(rx) \in Nat /\ Len(line) \in Nat
        /\ <<>> \in Seq(Byte) /\ Len(<<>>) = 0
    BY SensorsAssumption, LenProperties, EmptySeq
  <1>1. CASE ManagerInit \/ StartRead \/ StartPublish
    BY <1>1 DEF ManagerInit, StartRead, StartPublish, ManagerTypes
  <1>2. CASE BeginPass
    BY <1>2 DEF BeginPass
  <1>3. CASE ZeroField
    <2>1. rpc = "zero" /\ rpc' \in {"zero", "send"} /\ UNCHANGED <<respbuff, rx, line>>
      BY <1>3, NextFieldType DEF ZeroField, ReadTypes
    <2>2. QED
      BY <2>1
  <1>4. CASE SendRequest
    <2>1. line' \in Seq(Byte) /\ Len(line') <= RESP_BUF_SIZE /\ Len(line') \in Nat
      <3>1. requests + 1 \in Nat \ {0} /\ line' \in {<<>>, Reply(requests + 1)}
        BY <1>4 DEF SendRequest, ReadTypes
      <3>2. Reply(requests + 1) \in Seq(Byte) /\ Len(Reply(requests + 1)) = RESP_BUF_SIZE
        BY <3>1, ReplyType
      <3>3. CASE line' = <<>>
        BY <1>r, <3>3
      <3>4. CASE line' = Reply(requests + 1)
        BY <1>r, <3>2, <3>4
      <3>5. QED
        BY <3>1, <3>3, <3>4
    <2>2. UNCHANGED <<respbuff, rx>> /\ rpc' = "wait" /\ rpc = "send"
      BY <1>4 DEF SendRequest
    <2>3. QED
      BY <1>r, <2>1, <2>2
  <1>5. CASE ReadReply
    <2>1. /\ respbuff' \in Seq(Byte) /\ rx' \in Seq(Byte)
          /\ Len(rx') = Len(rx) - RESP_BUF_SIZE
      BY <1>5, TakeReply DEF ReadReply
    <2>2. UNCHANGED line /\ rpc' = "check"
      BY <1>5 DEF ReadReply
    <2>3. QED
      BY <1>r, <2>1, <2>2
  <1>6. CASE ReadTimeout
    <2>1. rx' = <<>> /\ rpc' = "mark" /\ UNCHANGED <<respbuff, line>>
      BY <1>6 DEF ReadTimeout
    <2>2. QED
      BY <1>r, <2>1
  <1>7. CASE CheckCRC
    <2>1. /\ respbuff' \in {respbuff, <<>>} /\ rpc' \in {"store", "mark"} /\ rpc = "check"
          /\ UNCHANGED <<rx, line>>
      BY <1>7 DEF CheckCRC
    <2>2. QED
      BY <1>r, <2>1
  <1>8. CASE StoreField \/ MarkField
    <2>1. /\ respbuff' \in {respbuff, <<>>} /\ rpc' \in {rpc, "delay"}
          /\ rpc \in {"store", "mark"} /\ UNCHANGED <<rx, line>>
      BY <1>8, NextFieldType DEF StoreField, MarkField, ReadTypes
    <2>2. QED
      BY <1>r, <2>1
  <1>9. CASE PublishBegin \/ LoadField \/ PublishEnd
    BY <1>9 DEF PublishBegin, LoadField, PublishEnd
  <1>10. CASE BytesArrive
    <2>1. PICK k \in 1 .. Len(line) :
            rx' = rx \o SubSeq(line, 1, k) /\ line' = SubSeq(line, k + 1, Len(line))
      BY <1>10 DEF BytesArrive
    <2>2. /\ rx' \in Seq(Byte) /\ Len(rx') = Len(rx) + k
          /\ line' \in Seq(Byte) /\ Len(line') = Len(line) - k
      BY <2>1, ArriveLengths
    <2>3. UNCHANGED <<rpc, respbuff>> /\ line # <<>>
      BY <1>10 DEF BytesArrive
    <2>4. QED
      BY <1>r, <2>2, <2>3
  <1>11. CASE ByteLost
    <2>1. line' \in Seq(Byte) /\ Len(line') = Len(line) - 1
      BY <1>11, HeadTailProperties DEF ByteLost
    <2>2. UNCHANGED <<rpc, respbuff, rx>> /\ line # <<>>
      BY <1>11 DEF ByteLost
    <2>3. QED
      BY <1>r, <2>1, <2>2
  <1>12. CASE UNCHANGED sensorsVars
    BY <1>12 DEF sensorsVars
  <1>13. QED
    BY <1>1, <1>2, <1>3, <1>4, <1>5, <1>6, <1>7, <1>8, <1>9, <1>10, <1>11, <1>12
    DEF SensorsNext, SensorsReadTask, SensorsPublishTask

LEMMA TypeInvNext == TypeInv /\ [SensorsNext]_sensorsVars => TypeInv'
  BY ManagerTypesNext, ReadTypesNext, LineTypesNext DEF TypeInv

(* Every variable keeps its type, and the receive buffer, which nothing    *)
(* flushes, holds two replies at most however many come late.              *)
THEOREM SensorsTypeCorrect == SensorsSpec => []SensorsTypeOK
  <1>1. TypeInv => SensorsTypeOK
    <2> SUFFICES ASSUME TypeInv PROVE SensorsTypeOK
      OBVIOUS
    <2>1. Len(rx) <= 2 * RESP_BUF_SIZE
      BY SensorsAssumption, LenProperties DEF TypeInv, LineTypes
    <2>2. QED
      BY <2>1 DEF TypeInv, ManagerTypes, ReadTypes, LineTypes, SensorsTypeOK
  <1>2. QED
    BY <1>1, TypeInvInit, TypeInvNext, PTL DEF SensorsSpec

-----------------------------------------------------------------------------
(* A reading is one answer.  The loops over the fields have dealt with the *)
(* ones before campo, and every loop starts at the first.                  *)

WholeInv ==
  /\ rpc \notin {"zero", "store", "mark"} => campo = 1
  /\ rpc = "none" => ok = "none" /\ AllFieldsAre(0)
  /\ rpc = "store" => \A i \in 1 .. campo - 1 : last_values[StoreOrder[i]] = respbuff[1].n
  /\ rpc = "mark" => \A i \in 1 .. campo - 1 : last_values[StoreOrder[i]] = -1
  /\ ReadingWhole

LEMMA WholeInvInit == SensorsInit => WholeInv
  BY FieldOrder DEF SensorsInit, WholeInv, ReadingWhole, AllFieldsAre

(* Between passes only ok and the fields count.                            *)
LEMMA WholeKept ==
  ASSUME WholeInv, rpc' = rpc, UNCHANGED <<campo, respbuff, last_values, ok, requests>>
  PROVE  WholeInv'
  BY DEF WholeInv, ReadingWhole, AllFieldsAre

(* The step of the loop that stores a reply.                               *)
LEMMA StoreStep ==
  ASSUME TypeInv, WholeInv, StoreField
  PROVE  /\ respbuff[1].n \in 1 .. requests
         /\ respbuff[campo].n = respbuff[1].n
         /\ \A i \in 1 .. campo : last_values'[StoreOrder[i]] = respbuff[1].n
         /\ campo = 4 => \A f \in Field : last_values'[f] = respbuff[1].n
  <1>1. PICK n \in 1 .. requests : respbuff = Reply(n)
    BY DEF TypeInv, ReadTypes, StoreField, Intact
  <1>2. /\ campo \in 1 .. 4 /\ campo \in 1 .. RESP_BUF_SIZE /\ 1 \in 1 .. RESP_BUF_SIZE
        /\ requests \in Nat
    BY FieldOrder, SensorsAssumption DEF TypeInv, ReadTypes
  <1>3. n \in Nat \ {0}
    BY <1>2
  <1>4. \A i \in 1 .. RESP_BUF_SIZE : respbuff[i].n = n
    BY <1>1, <1>3, ReplyType
  <1>5. respbuff[1].n = n /\ respbuff[campo].n = n
    BY <1>2, <1>4
  <1>6. /\ last_values \in [Field -> Value]
        /\ last_values' = [last_values EXCEPT ![StoreOrder[campo]] = respbuff[campo].n]
        /\ \A i \in 1 .. campo - 1 : last_values[StoreOrder[i]] = respbuff[1].n
    BY DEF TypeInv, ReadTypes, StoreField, WholeInv
  <1>7. \A i \in 1 .. campo : last_values'[StoreOrder[i]] = respbuff[1].n
    <2> SUFFICES ASSUME NEW i \in 1 .. campo
                 PROVE  last_values'[StoreOrder[i]] = respbuff[1].n
      OBVIOUS
    <2>1. StoreOrder[i] \in Field /\ StoreOrder[campo] \in Field
      BY <1>2, FieldOrder
    <2>2. CASE i = campo
      BY <1>5, <1>6, <2>1, <2>2
    <2>3. CASE i # campo
      <3>1. i \in 1 .. campo - 1 /\ StoreOrder[i] # StoreOrder[campo]
        BY <1>2, <2>3, FieldOrder
      <3>2. QED
        BY <1>6, <2>1, <3>1
    <2>4. QED
      BY <2>2, <2>3
  <1>8. campo = 4 => \A f \in Field : last_values'[f] = respbuff[1].n
    BY <1>7, FieldOrder
  <1>9. QED
    BY <1>5, <1>7, <1>8

LEMMA MarkStep ==
  ASSUME TypeInv, WholeInv, MarkField
  PROVE  /\ \A i \in 1 .. campo : last_values'[StoreOrder[i]] = -1
         /\ campo = 4 => \A f \in Field : last_values'[f] = -1
  <1>1. campo \in 1 .. 4
    BY FieldOrder DEF TypeInv, ReadTypes
  <1>2. /\ last_values \in [Field -> Value]
        /\ last_values' = [last_values EXCEPT ![StoreOrder[campo]] = -1]
        /\ \A i \in 1 .. campo - 1 : last_values[StoreOrder[i]] = -1
    BY DEF TypeInv, ReadTypes, MarkField, WholeInv
  <1>3. \A i \in 1 .. campo : last_values'[StoreOrder[i]] = -1
    <2> SUFFICES ASSUME NEW i \in 1 .. campo PROVE last_values'[StoreOrder[i]] = -1
      OBVIOUS
    <2>1. StoreOrder[i] \in Field /\ StoreOrder[campo] \in Field
      BY <1>1, FieldOrder
    <2>2. CASE i = campo
      BY <1>2, <2>1, <2>2
    <2>3. CASE i # campo
      <3>1. i \in 1 .. campo - 1 /\ StoreOrder[i] # StoreOrder[campo]
        BY <1>1, <2>3, FieldOrder
      <3>2. QED
        BY <1>2, <2>1, <3>1
    <2>4. QED
      BY <2>2, <2>3
  <1>4. QED
    BY <1>3, FieldOrder

LEMMA WholeInvNext == TypeInv /\ WholeInv /\ [SensorsNext]_sensorsVars => WholeInv'
  <1> SUFFICES ASSUME TypeInv, WholeInv, [SensorsNext]_sensorsVars PROVE WholeInv'
    OBVIOUS
  <1>t. campo \in 1 .. Fields /\ Fields = 4 /\ requests \in Nat
    BY FieldOrder DEF TypeInv, ReadTypes
  <1> USE DEF manager, readTask, uart, sensorGhosts, publishTask
  <1>1. CASE ManagerInit \/ StartPublish
    BY <1>1, WholeKept DEF ManagerInit, StartPublish
  <1>2. CASE StartRead
    <2>1. rpc = "none" /\ rpc' \in {"none", "delay"}
          /\ UNCHANGED <<campo, respbuff, last_values, ok, requests>>
      BY <1>2 DEF StartRead, TypeInv, ManagerTypes
    <2>2. QED
      BY <2>1 DEF WholeInv, ReadingWhole, AllFieldsAre
  <1>3. CASE BeginPass
    BY <1>3 DEF BeginPass, WholeInv, ReadingWhole
  <1>4. CASE ZeroField
    <2>1. rpc' \in {"zero", "send"} /\ (rpc' = "send" => campo' = 1)
      BY <1>4, <1>t, NextFieldType DEF ZeroField
    <2>2. QED
      BY <2>1 DEF WholeInv, ReadingWhole
  <1>5. CASE SendRequest \/ ReadReply
    BY <1>5 DEF SendRequest, ReadReply, WholeInv, ReadingWhole
  <1>6. CASE ReadTimeout
    <2>1. rpc = "wait" /\ rpc' = "mark" /\ UNCHANGED campo
      BY <1>6 DEF ReadTimeout
    <2>2. QED
      BY <2>1 DEF WholeInv, ReadingWhole
  <1>7. CASE CheckCRC
    <2>1. rpc = "check" /\ rpc' \in {"store", "mark"} /\ UNCHANGED campo
      BY <1>7 DEF CheckCRC
    <2>2. campo' = 1 /\ \A i \in 1 .. campo' - 1 : FALSE
      BY <2>1 DEF WholeInv
    <2>3. QED
      BY <2>1, <2>2 DEF WholeInv, ReadingWhole
  <1>8. CASE StoreField
    <2>1. CASE campo < 4
      <3>1. rpc' = "store" /\ campo' = campo + 1 /\ UNCHANGED respbuff
        BY <1>8, <1>t, <2>1, NextFieldType DEF StoreField
      <3>2. \A i \in 1 .. campo' - 1 : last_values'[StoreOrder[i]] = respbuff'[1].n
        BY <1>8, <1>t, <3>1, StoreStep
      <3>3. QED
        BY <3>1, <3>2 DEF WholeInv, ReadingWhole
    <2>2. CASE ~(campo < 4)
      <3>1. rpc' = "delay" /\ campo' = 1 /\ ok' = "yes" /\ campo = 4 /\ UNCHANGED requests
        BY <1>8, <1>t, <2>2, NextFieldType DEF StoreField
      <3>2. /\ respbuff[1].n \in 1 .. requests
            /\ \A f \in Field : last_values'[f] = respbuff[1].n
        BY <1>8, <3>1, StoreStep
      <3>3. ReadingWhole'
        BY <3>1, <3>2 DEF ReadingWhole, AllFieldsAre
      <3>4. QED
        BY <3>1, <3>3 DEF WholeInv
    <2>3. QED
      BY <2>1, <2>2
  <1>9. CASE MarkField
    <2>1. CASE campo < 4
      <3>1. rpc' = "mark" /\ campo' = campo + 1
        BY <1>9, <1>t, <2>1, NextFieldType DEF MarkField
      <3>2. \A i \in 1 .. campo' - 1 : last_values'[StoreOrder[i]] = -1
        BY <1>9, <1>t, <3>1, MarkStep
      <3>3. QED
        BY <3>1, <3>2 DEF WholeInv, ReadingWhole
    <2>2. CASE ~(campo < 4)
      <3>1. rpc' = "delay" /\ campo' = 1 /\ ok' = "no" /\ campo = 4
        BY <1>9, <1>t, <2>2, NextFieldType DEF MarkField
      <3>2. \A f \in Field : last_values'[f] = -1
        BY <1>9, <3>1, MarkStep
      <3>3. ReadingWhole'
        BY <3>1, <3>2 DEF ReadingWhole, AllFieldsAre
      <3>4. QED
        BY <3>1, <3>3 DEF WholeInv
    <2>3. QED
      BY <2>1, <2>2
  <1>10. CASE PublishBegin \/ LoadField \/ PublishEnd \/ BytesArrive \/ ByteLost
    BY <1>10, WholeKept DEF PublishBegin, LoadField, PublishEnd, BytesArrive, ByteLost
  <1>11. CASE UNCHANGED sensorsVars
    BY <1>11, WholeKept DEF sensorsVars
  <1>12. QED
    BY <1>1, <1>2, <1>3, <1>4, <1>5, <1>6, <1>7, <1>8, <1>9, <1>10, <1>11
    DEF SensorsNext, SensorsReadTask, SensorsPublishTask

(* Between two passes the fields are one whole answer of the meter, or all *)
(* are -1, whatever bytes were late or lost.                               *)
THEOREM ReadingIsWhole == SensorsSpec => []ReadingWhole
  <1>1. WholeInv => ReadingWhole
    BY DEF WholeInv
  <1>2. QED
    BY <1>1, TypeInvInit, TypeInvNext, WholeInvInit, WholeInvNext, PTL DEF SensorsSpec

-----------------------------------------------------------------------------
(* A message and the passes that overlap its load.                         *)

(* What BeginPass finds: a whole reading, so that any field stands for it. *)
LEMMA AtRest ==
  ASSUME TypeInv, WholeInv, rpc \in {"none", "delay"}
  PROVE  \A f, g \in Field : last_values[f] = last_values[g]
  <1>1. ok \in {"none", "yes", "no"} /\ requests \in Nat
    BY DEF TypeInv, ReadTypes
  <1>2. \E v \in Int : AllFieldsAre(v)
    <2>1. CASE rpc = "none" \/ ok = "none"
      <3>1. AllFieldsAre(0)
        BY <2>1 DEF WholeInv, ReadingWhole
      <3>2. QED
        BY <3>1
    <2>2. CASE rpc = "delay" /\ ok = "yes"
      <3>1. \E n \in 1 .. requests : AllFieldsAre(n)
        BY <2>2 DEF WholeInv, ReadingWhole
      <3>2. QED
        BY <1>1, <3>1
    <2>3. CASE rpc = "delay" /\ ok = "no"
      BY <2>3 DEF WholeInv, ReadingWhole
    <2>4. QED
      BY <1>1, <2>1, <2>2, <2>3
  <1>3. QED
    BY <1>2 DEF AllFieldsAre

(* During a pass a field that it has not written yet, but for a zero, is   *)
(* that of the reading before.                                             *)
PassInv ==
  /\ rpc \in {"zero", "send", "wait", "check"} =>
       \A f \in Field : last_values[f] \in {antes, 0}
  /\ rpc \in {"store", "mark"} =>
       \A i \in campo .. 4 : last_values[StoreOrder[i]] \in {antes, 0}

LEMMA PassInvNext ==
  TypeInv /\ WholeInv /\ PassInv /\ [SensorsNext]_sensorsVars => PassInv'
  <1> SUFFICES ASSUME TypeInv, WholeInv, PassInv, [SensorsNext]_sensorsVars PROVE PassInv'
    OBVIOUS
  <1>t. /\ campo \in 1 .. Fields /\ Fields = 4
        /\ last_values \in [Field -> Value]
    BY FieldOrder DEF TypeInv, ReadTypes
  <1> USE DEF manager, readTask, uart, sensorGhosts, publishTask
  <1>1. CASE BeginPass
    <2>1. rpc = "delay" /\ rpc' = "zero" /\ last_values' = last_values
          /\ antes' = last_values["voltage"] /\ "voltage" \in Field
      BY <1>1 DEF BeginPass, Field
    <2>2. \A f \in Field : last_values[f] = last_values["voltage"]
      BY <2>1, AtRest
    <2>3. QED
      BY <2>1, <2>2 DEF PassInv
  <1>2. CASE ZeroField
    <2>1. /\ rpc = "zero" /\ rpc' \in {"zero", "send"} /\ antes' = antes
          /\ last_values' = [last_values EXCEPT ![ZeroOrder[campo]] = 0]
      BY <1>2, <1>t, NextFieldType DEF ZeroField
    <2>2. QED
      BY <1>t, <2>1 DEF PassInv
  <1>3. CASE StoreField \/ MarkField
    <2>1. CASE campo < 4
      <3>1. rpc \in {"store", "mark"} /\ rpc' = rpc /\ campo' = campo + 1 /\ antes' = antes
        BY <1>3, <1>t, <2>1, NextFieldType DEF StoreField, MarkField
      <3>2. PICK v : last_values' = [last_values EXCEPT ![StoreOrder[campo]] = v]
        BY <1>3 DEF StoreField, MarkField
      <3>3. ASSUME NEW i \in campo' .. 4
            PROVE  last_values'[StoreOrder[i]] \in {antes', 0}
        <4>1. /\ i \in 1 .. 4 /\ campo \in 1 .. 4 /\ i # campo /\ i \in campo .. 4
          BY <1>t, <3>1, <3>3
        <4>2. StoreOrder[i] \in Field /\ StoreOrder[i] # StoreOrder[campo]
          BY <4>1, FieldOrder
        <4>3. last_values'[StoreOrder[i]] = last_values[StoreOrder[i]]
          BY <1>t, <3>2, <4>2
        <4>4. QED
          BY <3>1, <4>1, <4>3 DEF PassInv
      <3>4. QED
        BY <3>1, <3>3 DEF PassInv
    <2>2. CASE ~(campo < 4)
      <3>1. rpc' = "delay"
        BY <1>3, <1>t, <2>2, NextFieldType DEF StoreField, MarkField
      <3>2. QED
        BY <3>1 DEF PassInv
    <2>3. QED
      BY <2>1, <2>2
  <1>4. CASE ReadTimeout \/ CheckCRC
    <2>1. /\ rpc \in {"wait", "check"} /\ rpc' \in {"store", "mark"}
          /\ UNCHANGED <<last_values, antes, campo>>
      BY <1>4 DEF ReadTimeout, CheckCRC
    <2>2. \A f \in Field : last_values[f] \in {antes, 0}
      BY <2>1 DEF PassInv
    <2>3. \A i \in campo .. 4 : i \in 1 .. 4
      BY <1>t
    <2>4. QED
      BY <2>1, <2>2, <2>3, FieldOrder DEF PassInv
  <1>5. CASE StartRead
    <2>1. rpc' \in {"none", "delay"}
      BY <1>5 DEF StartRead
    <2>2. QED
      BY <2>1 DEF PassInv
  <1>6. CASE SendRequest \/ ReadReply
    <2>1. /\ rpc \in {"send", "wait"} /\ rpc' \in {"wait", "check"}
          /\ UNCHANGED <<last_values, antes>>
      BY <1>6 DEF SendRequest, ReadReply
    <2>2. QED
      BY <2>1 DEF PassInv
  <1>7. CASE \/ ManagerInit \/ StartPublish \/ PublishBegin \/ LoadField \/ PublishEnd
             \/ BytesArrive \/ ByteLost \/ UNCHANGED sensorsVars
    <2>1. UNCHANGED <<rpc, campo, last_values, antes>>
      BY <1>7 DEF ManagerInit, StartPublish, PublishBegin, LoadField, PublishEnd, BytesArrive,
                  ByteLost, sensorsVars
    <2>2. QED
      BY <2>1 DEF PassInv
  <1>8. QED
    BY <1>1, <1>2, <1>3, <1>4, <1>5, <1>6, <1>7
    DEF SensorsNext, SensorsReadTask, SensorsPublishTask

(* What the publish task has loaded so far, against what stands there now. *)
LoadedInv ==
  /\ pasadas = 0 => /\ rpc \in {"none", "delay"}
                    /\ \A f \in DOMAIN payload : payload[f] = last_values[f]
  /\ pasadas = 1 => \A f \in DOMAIN payload : payload[f] \in {antes, 0, last_values[f]}

(* A field that a pass overwrites was a zero or of the reading before.     *)
LEMMA LoadedOverwritten ==
  ASSUME TypeInv, LoadedInv, rpc \notin {"none", "delay"},
         NEW g \in Field, last_values[g] \in {antes, 0},
         NEW v, last_values' = [last_values EXCEPT ![g] = v],
         UNCHANGED <<payload, antes, pasadas>>
  PROVE  LoadedInv'
  <1>1. last_values \in [Field -> Value] /\ DOMAIN payload \subseteq Field
    BY DEF TypeInv, ReadTypes
  <1>2. pasadas # 0
    BY DEF LoadedInv
  <1>3. \A f \in DOMAIN payload : pasadas = 1 => payload[f] \in {antes, 0, last_values[f]}
    BY DEF LoadedInv
  <1>4. \A f \in Field : f # g => last_values'[f] = last_values[f]
    BY <1>1
  <1>5. \A f \in DOMAIN payload : pasadas = 1 => payload[f] \in {antes, 0, last_values'[f]}
    BY <1>1, <1>3, <1>4
  <1>6. QED
    BY <1>2, <1>5 DEF LoadedInv

LEMMA LoadedInvNext ==
  TypeInv /\ WholeInv /\ PassInv /\ LoadedInv /\ [SensorsNext]_sensorsVars => LoadedInv'
  <1> SUFFICES ASSUME TypeInv, WholeInv, PassInv, LoadedInv, [SensorsNext]_sensorsVars
               PROVE  LoadedInv'
    OBVIOUS
  <1>t. /\ campo \in 1 .. 4 /\ Fields = 4 /\ pasadas \in 0 .. 2
        /\ last_values \in [Field -> Value] /\ DOMAIN payload \subseteq Field
    BY FieldOrder DEF TypeInv, ReadTypes, ManagerTypes
  <1> USE DEF manager, readTask, uart, sensorGhosts, publishTask
  <1>1. CASE BeginPass
    <2>1. /\ rpc = "delay" /\ UNCHANGED <<last_values, payload>>
          /\ antes' = last_values["voltage"] /\ "voltage" \in Field
          /\ pasadas' = IF pasadas = 0 THEN 1 ELSE 2
      BY <1>1 DEF BeginPass, Field
    <2>2. \A f \in Field : last_values[f] = last_values["voltage"]
      BY <2>1, AtRest
    <2>3. QED
      BY <1>t, <2>1, <2>2 DEF LoadedInv
  <1>2. CASE ZeroField
    <2>1. ZeroOrder[campo] \in Field
      BY <1>t, FieldOrder
    <2>2. last_values[ZeroOrder[campo]] \in {antes, 0}
      BY <1>2, <2>1 DEF ZeroField, PassInv
    <2>3. QED
      BY <1>2, <2>1, <2>2, LoadedOverwritten DEF ZeroField
  <1>3. CASE StoreField \/ MarkField
    <2>1. StoreOrder[campo] \in Field
      BY <1>t, FieldOrder
    <2>2. campo \in campo .. 4
      BY <1>t
    <2>3. last_values[StoreOrder[campo]] \in {antes, 0}
      BY <1>3, <2>2 DEF StoreField, MarkField, PassInv
    <2>4. PICK v : last_values' = [last_values EXCEPT ![StoreOrder[campo]] = v]
      BY <1>3 DEF StoreField, MarkField
    <2>5. rpc \notin {"none", "delay"} /\ UNCHANGED <<payload, antes, pasadas>>
      BY <1>3 DEF StoreField, MarkField
    <2>6. QED
      BY <2>1, <2>3, <2>4, <2>5, LoadedOverwritten
  <1>4. CASE PublishBegin
    <2>1. DOMAIN payload' = {} /\ UNCHANGED rpc
          /\ pasadas' = IF rpc \in {"none", "delay"} THEN 0 ELSE 1
      BY <1>4 DEF PublishBegin
    <2>2. QED
      BY <2>1 DEF LoadedInv
  <1>5. CASE LoadField
    <2>1. PICK f \in Field \ DOMAIN payload :
            payload' = [g \in DOMAIN payload \cup {f} |->
                          IF g = f THEN last_values[f] ELSE payload[g]]
      BY <1>5 DEF LoadField
    <2>2. DOMAIN payload' = DOMAIN payload \cup {f}
      BY <2>1
    <2>3. UNCHANGED <<antes, pasadas, rpc, last_values>>
      BY <1>5 DEF LoadField
    <2>4. QED
      BY <2>1, <2>2, <2>3 DEF LoadedInv
  <1>6. CASE PublishEnd
    <2>1. DOMAIN payload' = {} /\ pasadas' = 2
      BY <1>6 DEF PublishEnd
    <2>2. QED
      BY <2>1 DEF LoadedInv
  <1>7. CASE StartRead
    <2>1. rpc' \in {"none", "delay"} /\ UNCHANGED <<payload, last_values, antes, pasadas>>
      BY <1>7 DEF StartRead
    <2>2. QED
      BY <2>1 DEF LoadedInv
  <1>8. CASE SendRequest \/ ReadReply \/ ReadTimeout \/ CheckCRC
    <2>1. /\ rpc \notin {"none", "delay"}
          /\ UNCHANGED <<payload, last_values, antes, pasadas>>
      BY <1>8 DEF SendRequest, ReadReply, ReadTimeout, CheckCRC
    <2>2. QED
      BY <2>1 DEF LoadedInv
  <1>9. CASE ManagerInit \/ StartPublish \/ BytesArrive \/ ByteLost \/ UNCHANGED sensorsVars
    <2>1. UNCHANGED <<rpc, payload, last_values, antes, pasadas>>
      BY <1>9 DEF ManagerInit, StartPublish, BytesArrive, ByteLost, sensorsVars
    <2>2. QED
      BY <2>1 DEF LoadedInv
  <1>10. QED
    BY <1>1, <1>2, <1>3, <1>4, <1>5, <1>6, <1>7, <1>8, <1>9
    DEF SensorsNext, SensorsReadTask, SensorsPublishTask

(* A message loaded between two passes is one reading; one that a pass     *)
(* overlaps holds the reading before it, its zeros and its result at most. *)
THEOREM MessagesMixOnePass == SensorsSpec => []MessageMixesOnePass
  <1>1. SensorsInit => PassInv /\ LoadedInv
    <2> SUFFICES ASSUME SensorsInit PROVE PassInv /\ LoadedInv
      OBVIOUS
    <2>1. DOMAIN payload = {} /\ rpc = "none"
      BY DEF SensorsInit
    <2>2. QED
      BY <2>1 DEF PassInv, LoadedInv
  <1>2. TypeInv /\ WholeInv /\ LoadedInv => MessageMixesOnePass
    <2> SUFFICES ASSUME TypeInv, WholeInv, LoadedInv, DOMAIN payload = Field
                 PROVE  /\ pasadas = 0 => \A f, g \in Field : payload[f] = payload[g]
                        /\ pasadas = 1 =>
                             \A f \in Field : payload[f] \in {antes, 0, last_values[f]}
      BY DEF MessageMixesOnePass
    <2>1. ASSUME pasadas = 0 PROVE \A f, g \in Field : payload[f] = payload[g]
      BY <2>1, AtRest DEF LoadedInv
    <2>2. QED
      BY <2>1 DEF LoadedInv
  <1>3. QED
    BY <1>1, <1>2, TypeInvInit, TypeInvNext, WholeInvInit, WholeInvNext, PassInvNext,
       LoadedInvNext, PTL
    DEF SensorsSpec

-----------------------------------------------------------------------------
(* An answer that comes whole and in time, to an empty buffer, is what     *)
(* passes through the steps of PzemGetValues.                              *)

PromptInv ==
  clean /\ prompt =>
    /\ rpc = "wait" => rx \o line = Reply(requests)
    /\ rpc \in {"check", "store"} => respbuff = Reply(requests)
    /\ rpc # "mark" /\ rpc # "none"
    /\ rpc = "delay" => AllFieldsAre(requests)

LEMMA Regroup ==
  ASSUME NEW S, NEW r \in Seq(S), NEW a \in Seq(S), NEW b \in Seq(S),
         NEW l, l = a \o b
  PROVE  (r \o a) \o b = r \o l
  BY ConcatAssociative

(* Bytes move from the line to the buffer in their order.                  *)
LEMMA ArriveOrder ==
  ASSUME NEW r \in Seq(Byte), NEW l \in Seq(Byte), NEW k \in 1 .. Len(l)
  PROVE  (r \o SubSeq(l, 1, k)) \o SubSeq(l, k + 1, Len(l)) = r \o l
  <1>1. Len(l) \in Nat /\ k \in 0 .. Len(l) /\ 1 \in 1 .. Len(l) + 1
        /\ k + 1 \in Int /\ \A i \in 1 .. Len(l) : l[i] \in Byte
    BY LenProperties, ElementOfSeq
  <1>2. SubSeq(l, 1, k) \in Seq(Byte) /\ SubSeq(l, k + 1, Len(l)) \in Seq(Byte)
    BY <1>1, SubSeqProperties
  <1>3. SubSeq(l, 1, k) \o SubSeq(l, k + 1, Len(l)) = l
    <2>1. Len(l) \in k .. Len(l) /\ k \in 1 - 1 .. Len(l)
      BY <1>1
    <2>2. SubSeq(l, 1, k) \o SubSeq(l, k + 1, Len(l)) = SubSeq(l, 1, Len(l))
      BY <1>1, <2>1, ConcatAdjacentSubSeq
    <2>3. QED
      BY <2>2, SubSeqFull
  <1>4. PICK a, b : a = SubSeq(l, 1, k) /\ b = SubSeq(l, k + 1, Len(l))
    OBVIOUS
  <1>5. a \in Seq(Byte) /\ b \in Seq(Byte) /\ l = a \o b
    BY <1>2, <1>3, <1>4
  <1>6. (r \o a) \o b = r \o l
    BY <1>5, Regroup
  <1>7. QED
    BY <1>4, <1>6

(* A buffer that holds as much as the reply holds the reply.               *)
LEMMA WholeReply ==
  ASSUME NEW r \in Seq(Byte), NEW l \in Seq(Byte), NEW n \in Nat \ {0},
         r \o l = Reply(n), Len(r) >= RESP_BUF_SIZE
  PROVE  SubSeq(r, 1, RESP_BUF_SIZE) = Reply(n)
  <1>1. /\ Reply(n) \in Seq(Byte) /\ Len(Reply(n)) = RESP_BUF_SIZE
        /\ Len(r) \in Nat /\ Len(l) \in Nat
    BY ReplyType, LenProperties
  <1>2. /\ Len(r \o l) = Len(r) + Len(l)
        /\ \A i \in 1 .. Len(r) + Len(l) :
             (r \o l)[i] = IF i <= Len(r) THEN r[i] ELSE l[i - Len(r)]
    BY ConcatProperties
  <1>3. Len(r) = RESP_BUF_SIZE
    <2>1. Len(r) + Len(l) = RESP_BUF_SIZE
      BY <1>1, <1>2
    <2>2. QED
      BY <1>1, <2>1
  <1>4. \A i \in 1 .. RESP_BUF_SIZE : r[i] = Reply(n)[i]
    BY <1>1, <1>2, <1>3
  <1>5. /\ SubSeq(r, 1, RESP_BUF_SIZE) \in Seq(Byte)
        /\ Len(SubSeq(r, 1, RESP_BUF_SIZE)) = RESP_BUF_SIZE
        /\ \A i \in 1 .. RESP_BUF_SIZE : SubSeq(r, 1, RESP_BUF_SIZE)[i] = r[i]
    BY TakeReply
  <1>6. QED
    BY <1>1, <1>4, <1>5, SeqEqual

(* A whole reply in the buffer is not short.                               *)
LEMMA NotShort ==
  ASSUME NEW r \in Seq(Byte), NEW n \in Nat \ {0}, r \o <<>> = Reply(n)
  PROVE  ~(Len(r) < RESP_BUF_SIZE)
  <1>1. r = Reply(n)
    BY ConcatEmptySeq
  <1>2. Len(r) = RESP_BUF_SIZE /\ RESP_BUF_SIZE \in Nat
    BY <1>1, ReplyType, SensorsAssumption
  <1>3. QED
    BY <1>2

LEMMA PromptInvNext ==
  TypeInv /\ WholeInv /\ PromptInv /\ [SensorsNext]_sensorsVars => PromptInv'
  <1> SUFFICES ASSUME TypeInv, WholeInv, PromptInv, [SensorsNext]_sensorsVars
               PROVE  PromptInv'
    OBVIOUS
  <1>t. /\ rx \in Seq(Byte) /\ line \in Seq(Byte) /\ requests \in Nat
        /\ rpc \in {"wait", "check", "store", "mark"} => requests \in Nat \ {0}
        /\ campo \in 1 .. Fields /\ Fields = 4
    BY FieldOrder DEF TypeInv, LineTypes, ReadTypes
  <1> USE DEF PromptInv, manager, readTask, uart, sensorGhosts, publishTask
  <1>1. CASE ManagerInit \/ StartPublish
    BY <1>1 DEF ManagerInit, StartPublish, AllFieldsAre
  <1>2. CASE StartRead
    <2>1. rpc = "none" /\ UNCHANGED <<clean, prompt>>
      BY <1>2 DEF StartRead, TypeInv, ManagerTypes
    <2>2. QED
      BY <2>1
  <1>3. CASE BeginPass
    BY <1>3 DEF BeginPass
  <1>4. CASE ZeroField
    <2>1. rpc' \in {"zero", "send"}
      BY <1>4, <1>t, NextFieldType DEF ZeroField
    <2>2. QED
      BY <2>1
  <1>5. CASE SendRequest
    <2>1. ASSUME clean', prompt' PROVE rx' \o line' = Reply(requests')
      <3>1. rx' = <<>> /\ line' # <<>>
        BY <1>5, <2>1 DEF SendRequest
      <3>2. line' = Reply(requests') /\ requests' \in Nat \ {0}
        BY <1>5, <1>t, <3>1 DEF SendRequest
      <3>3. QED
        BY <3>1, <3>2, ReplyType, ConcatEmptySeq
    <2>2. rpc' = "wait"
      BY <1>5 DEF SendRequest
    <2>3. QED
      BY <2>1, <2>2
  <1>6. CASE ReadReply
    <2>1. clean /\ prompt => respbuff' = Reply(requests)
      BY <1>6, <1>t, WholeReply DEF ReadReply
    <2>2. rpc' = "check" /\ UNCHANGED <<clean, prompt, requests>>
      BY <1>6 DEF ReadReply
    <2>3. QED
      BY <2>1, <2>2
  <1>7. CASE ReadTimeout
    <2>1. prompt' => prompt /\ line = <<>>
      BY <1>7, Zenon DEF ReadTimeout
    <2>2. rpc = "wait" /\ UNCHANGED clean /\ Len(rx) < RESP_BUF_SIZE
      BY <1>7 DEF ReadTimeout
    <2>3. ~(clean' /\ prompt')
      BY <1>t, <2>1, <2>2, NotShort
    <2>4. QED
      BY <2>3
  <1>8. CASE CheckCRC
    <2>1. clean /\ prompt => Intact(respbuff)
      BY <1>8, <1>t DEF CheckCRC, Intact
    <2>2. QED
      BY <1>8, <2>1 DEF CheckCRC
  <1>9. CASE StoreField
    <2>1. CASE campo < 4
      <3>1. rpc' = "store" /\ UNCHANGED <<respbuff, clean, prompt, requests>> /\ rpc = "store"
        BY <1>9, <1>t, <2>1, NextFieldType DEF StoreField
      <3>2. QED
        BY <3>1
    <2>2. CASE ~(campo < 4)
      <3>1. rpc' = "delay" /\ campo = 4 /\ rpc = "store" /\ UNCHANGED <<clean, prompt, requests>>
        BY <1>9, <1>t, <2>2, NextFieldType DEF StoreField
      <3>2. \A f \in Field : last_values'[f] = respbuff[1].n
        BY <1>9, <3>1, StoreStep
      <3>3. clean /\ prompt => respbuff[1].n = requests
        <4>1. 1 \in 1 .. RESP_BUF_SIZE
          BY SensorsAssumption
        <4>2. QED
          BY <1>t, <3>1, <4>1, ReplyType
      <3>4. QED
        BY <3>1, <3>2, <3>3 DEF AllFieldsAre
    <2>3. QED
      BY <2>1, <2>2
  <1>10. CASE MarkField
    <2>1. rpc = "mark" /\ UNCHANGED <<clean, prompt>>
      BY <1>10 DEF MarkField
    <2>2. QED
      BY <2>1
  <1>11. CASE PublishBegin \/ LoadField \/ PublishEnd
    BY <1>11 DEF PublishBegin, LoadField, PublishEnd, AllFieldsAre
  <1>12. CASE BytesArrive
    <2>1. rx' \o line' = rx \o line
      BY <1>12, <1>t, ArriveOrder DEF BytesArrive
    <2>2. UNCHANGED <<rpc, respbuff, requests, clean, prompt, last_values>>
      BY <1>12 DEF BytesArrive
    <2>3. QED
      BY <2>1, <2>2 DEF AllFieldsAre
  <1>13. CASE ByteLost
    <2>1. ~prompt'
      BY <1>13 DEF ByteLost
    <2>2. QED
      BY <2>1
  <1>14. CASE UNCHANGED sensorsVars
    BY <1>14 DEF sensorsVars, AllFieldsAre
  <1>15. QED
    BY <1>1, <1>2, <1>3, <1>4, <1>5, <1>6, <1>7, <1>8, <1>9, <1>10, <1>11, <1>12,
       <1>13, <1>14
    DEF SensorsNext, SensorsReadTask, SensorsPublishTask

(* With an empty buffer, an answer that comes whole and in time is the     *)
(* reading, for replies of any length cut into any pieces.                 *)
THEOREM PromptReplyIsReading == SensorsSpec => []PromptReplyAccepted
  <1>1. SensorsInit => PromptInv
    BY DEF SensorsInit, PromptInv
  <1>2. PromptInv => PromptReplyAccepted
    BY DEF PromptInv, PromptReplyAccepted
  <1>3. QED
    BY <1>1, <1>2, TypeInvInit, TypeInvNext, WholeInvInit, WholeInvNext, PromptInvNext, PTL
    DEF SensorsSpec

-----------------------------------------------------------------------------
(* How old a reading can be.  The line is idle when a request is sent, so  *)
(* what a pass leaves behind are bytes of its own request, one reply at    *)
(* most; the frame the next pass takes has all of them, or is all new.     *)

Of(s, numbers) == \A i \in 1 .. Len(s) : s[i].n \in numbers
Fresh == IF late = {} THEN {requests} ELSE {requests - 1, requests}

AgeInv ==
  /\ Of(line, {requests})
  /\ rpc # "wait" => Of(rx, {requests}) /\ (late = {} => rx = <<>> /\ line = <<>>)
  /\ rpc = "wait" =>
       /\ Of(rx, Fresh)
       /\ \A i \in 1 .. Len(rx) : i > RESP_BUF_SIZE => rx[i].n = requests
       /\ late = {} => Len(rx) + Len(line) <= RESP_BUF_SIZE
  /\ rpc \in {"check", "store"} => Of(respbuff, Fresh)
  /\ rpc = "delay" /\ ok = "yes" => \A f \in Field : last_values[f] \in Fresh

(* The steps that touch neither the bytes nor the reading.                 *)
LEMMA AgeKept ==
  ASSUME AgeInv, UNCHANGED <<rx, line, respbuff, requests, late, last_values, ok>>,
         rpc' = rpc \/ (rpc # "wait" /\ rpc' \in {"zero", "send", "mark"})
  PROVE  AgeInv'
  BY DEF AgeInv, Of, Fresh

LEMMA AgeArrives == TypeInv /\ AgeInv /\ BytesArrive => AgeInv'
  <1> SUFFICES ASSUME TypeInv, AgeInv, BytesArrive PROVE AgeInv'
    OBVIOUS
  <1>1. /\ rx \in Seq(Byte) /\ line \in Seq(Byte) /\ Len(rx) \in Nat /\ Len(line) \in Nat
        /\ RESP_BUF_SIZE \in Nat /\ \A i \in 1 .. Len(line) : line[i] \in Byte
    BY LenProperties, ElementOfSeq, SensorsAssumption DEF TypeInv, LineTypes
  <1>2. PICK k \in 1 .. Len(line) :
          rx' = rx \o SubSeq(line, 1, k) /\ line' = SubSeq(line, k + 1, Len(line))
    BY DEF BytesArrive
  <1>3. UNCHANGED <<rpc, respbuff, requests, late, last_values, ok>>
    BY DEF BytesArrive, readTask, sensorGhosts
  <1>4. k \in Int /\ k + 1 \in Int /\ 1 \in Int /\ Len(line) \in Int
    BY <1>1
  <1>5. /\ SubSeq(line, 1, k) \in Seq(Byte) /\ Len(SubSeq(line, 1, k)) = k
        /\ \A i \in 1 .. k : SubSeq(line, 1, k)[i] = line[i]
    <2>1. /\ SubSeq(line, 1, k) \in Seq(Byte)
          /\ Len(SubSeq(line, 1, k)) = IF 1 <= k THEN k - 1 + 1 ELSE 0
          /\ \A i \in 1 .. k - 1 + 1 : SubSeq(line, 1, k)[i] = line[1 + i - 1]
      BY <1>1, <1>4, SubSeqProperties
    <2>2. \A i \in 1 .. k : i \in 1 .. k - 1 + 1 /\ 1 + i - 1 = i
      BY <1>4
    <2>3. QED
      BY <1>4, <2>1, <2>2
  <1>6. \A i \in 1 .. Len(line') : \E j \in 1 .. Len(line) : line'[i] = line[j]
    <2>1. /\ Len(line') = Len(line) - k
          /\ \A i \in 1 .. Len(line) - (k + 1) + 1 : line'[i] = line[k + 1 + i - 1]
      BY <1>1, <1>2, <1>4, SubSeqProperties, ArriveLengths
    <2>2. \A i \in 1 .. Len(line') : /\ i \in 1 .. Len(line) - (k + 1) + 1
                                     /\ k + 1 + i - 1 \in 1 .. Len(line)
      BY <1>1, <2>1
    <2>3. QED
      BY <2>1, <2>2
  <1>7. /\ Len(rx') = Len(rx) + k /\ Len(line') = Len(line) - k
        /\ \A i \in 1 .. Len(rx') :
             rx'[i] = IF i <= Len(rx) THEN rx[i] ELSE SubSeq(line, 1, k)[i - Len(rx)]
    BY <1>1, <1>2, <1>5, ConcatProperties, ArriveLengths
  <1>8. \A i \in 1 .. Len(rx') :
          \/ i \in 1 .. Len(rx) /\ rx'[i] = rx[i]
          \/ i \notin 1 .. Len(rx) /\ \E j \in 1 .. Len(line) : rx'[i] = line[j]
    <2> SUFFICES ASSUME NEW i \in 1 .. Len(rx'), ~(i <= Len(rx))
                 PROVE  \E j \in 1 .. Len(line) : rx'[i] = line[j]
      BY <1>1, <1>7
    <2>1. i - Len(rx) \in 1 .. k /\ i - Len(rx) \in 1 .. Len(line)
      BY <1>1, <1>7
    <2>2. QED
      BY <1>5, <1>7, <2>1
  <1>9. Of(line', {requests})
    BY <1>6 DEF AgeInv, Of
  <1>10. \A i \in 1 .. Len(rx') :
           \/ i \in 1 .. Len(rx) /\ rx'[i] = rx[i]
           \/ i \notin 1 .. Len(rx) /\ rx'[i].n = requests
    <2>1. \A j \in 1 .. Len(line) : line[j].n = requests
      BY DEF AgeInv, Of
    <2>2. QED
      BY <1>8, <2>1
  <1>11. rpc # "wait" => Of(rx', {requests}) /\ late # {}
    <2>1. line # <<>>
      BY DEF BytesArrive
    <2>2. QED
      BY <1>10, <2>1 DEF AgeInv, Of
  <1>12. rpc = "wait" =>
           /\ Of(rx', Fresh)
           /\ \A i \in 1 .. Len(rx') : i > RESP_BUF_SIZE => rx'[i].n = requests
           /\ late = {} => Len(rx') + Len(line') <= RESP_BUF_SIZE
    <2>1. rpc = "wait" => Of(rx', Fresh)
      BY <1>10 DEF AgeInv, Of, Fresh
    <2>2. rpc = "wait" => \A i \in 1 .. Len(rx') : i > RESP_BUF_SIZE => rx'[i].n = requests
      BY <1>10 DEF AgeInv
    <2>3. rpc = "wait" /\ late = {} => Len(rx') + Len(line') <= RESP_BUF_SIZE
      BY <1>1, <1>7 DEF AgeInv
    <2>4. QED
      BY <2>1, <2>2, <2>3
  <1>13. QED
    BY <1>3, <1>9, <1>11, <1>12 DEF AgeInv, Of, Fresh

LEMMA AgeRead == TypeInv /\ AgeInv /\ ReadReply => AgeInv'
  <1> SUFFICES ASSUME TypeInv, AgeInv, ReadReply PROVE AgeInv'
    OBVIOUS
  <1>1. /\ rx \in Seq(Byte) /\ line \in Seq(Byte) /\ Len(rx) \in Nat /\ Len(line) \in Nat
        /\ RESP_BUF_SIZE \in Nat /\ \A i \in 1 .. Len(rx) : rx[i] \in Byte
    BY LenProperties, ElementOfSeq, SensorsAssumption DEF TypeInv, LineTypes
  <1>2. /\ rpc = "wait" /\ Len(rx) >= RESP_BUF_SIZE
        /\ respbuff' = SubSeq(rx, 1, RESP_BUF_SIZE)
        /\ rx' = SubSeq(rx, RESP_BUF_SIZE + 1, Len(rx))
        /\ rpc' = "check" /\ UNCHANGED <<line, requests, late>>
    BY DEF ReadReply, sensorGhosts
  <1>3. /\ Len(respbuff') = RESP_BUF_SIZE
        /\ \A i \in 1 .. RESP_BUF_SIZE : respbuff'[i] = rx[i]
        /\ rx' \in Seq(Byte) /\ Len(rx') = Len(rx) - RESP_BUF_SIZE
    BY <1>1, <1>2, TakeReply
  <1>4. Of(respbuff', Fresh)
    <2>1. \A i \in 1 .. RESP_BUF_SIZE : i \in 1 .. Len(rx)
      BY <1>1, <1>2
    <2>2. QED
      BY <1>2, <1>3, <2>1 DEF AgeInv, Of
  <1>5. Of(rx', {requests})
    <2>1. \A i \in 1 .. Len(rx) - (RESP_BUF_SIZE + 1) + 1 : rx'[i] = rx[RESP_BUF_SIZE + 1 + i - 1]
      <3>1. RESP_BUF_SIZE + 1 \in Int /\ Len(rx) \in Int
            /\ \A i \in RESP_BUF_SIZE + 1 .. Len(rx) : rx[i] \in Byte
        BY <1>1
      <3>2. QED
        BY <1>2, <3>1, SubSeqProperties
    <2>2. \A i \in 1 .. Len(rx') : /\ i \in 1 .. Len(rx) - (RESP_BUF_SIZE + 1) + 1
                                   /\ RESP_BUF_SIZE + 1 + i - 1 \in 1 .. Len(rx)
                                   /\ RESP_BUF_SIZE + 1 + i - 1 > RESP_BUF_SIZE
      BY <1>1, <1>3
    <2>3. QED
      BY <1>2, <2>1, <2>2 DEF AgeInv, Of
  <1>6. late = {} => rx' = <<>> /\ line = <<>>
    <2>1. late = {} => Len(rx') = 0 /\ Len(line) = 0
      BY <1>1, <1>2, <1>3 DEF AgeInv
    <2>2. QED
      BY <1>1, <1>3, <2>1, EmptySeq
  <1>7. Of(line, {requests})
    BY DEF AgeInv
  <1>8. QED
    BY <1>2, <1>4, <1>5, <1>6, <1>7 DEF AgeInv, Of, Fresh

LEMMA AgeSend == TypeInv /\ AgeInv /\ SendRequest => AgeInv'
  <1> SUFFICES ASSUME TypeInv, AgeInv, SendRequest PROVE AgeInv'
    OBVIOUS
  <1>1. /\ requests \in Nat /\ requests' = requests + 1 /\ requests' \in Nat \ {0}
        /\ rpc = "send" /\ rpc' = "wait" /\ UNCHANGED <<rx, late>>
        /\ line' \in {<<>>, Reply(requests')}
    BY DEF SendRequest, TypeInv, ReadTypes
  <1>2. /\ rx \in Seq(Byte) /\ Len(rx) \in Nat /\ Len(rx) <= RESP_BUF_SIZE
        /\ RESP_BUF_SIZE \in Nat /\ Len(<<>>) = 0
    <2>1. line = <<>> /\ rx \in Seq(Byte) /\ Len(rx) + Len(line) <= RESP_BUF_SIZE
      BY <1>1 DEF TypeInv, LineTypes
    <2>2. Len(<<>>) = 0 /\ Len(rx) \in Nat /\ RESP_BUF_SIZE \in Nat
      BY <2>1, EmptySeq, LenProperties, SensorsAssumption
    <2>3. QED
      BY <2>1, <2>2
  <1>3. Of(line', {requests'}) /\ Len(line') <= RESP_BUF_SIZE
    <2>1. CASE line' = <<>>
      BY <1>2, <2>1 DEF Of
    <2>2. CASE line' = Reply(requests')
      BY <1>1, <1>2, <2>2, ReplyType DEF Of
    <2>3. QED
      BY <1>1, <2>1, <2>2
  <1>4. Of(rx, {requests}) /\ (late = {} => rx = <<>>)
    BY <1>1 DEF AgeInv
  <1>5. Of(rx', Fresh')
    <2>1. CASE late = {}
      BY <1>1, <1>2, <1>4, <2>1 DEF Of
    <2>2. CASE late # {}
      <3>1. Fresh' = {requests, requests'}
        BY <1>1, <2>2 DEF Fresh
      <3>2. QED
        BY <1>1, <1>4, <3>1 DEF Of
    <2>3. QED
      BY <2>1, <2>2
  <1>6. \A i \in 1 .. Len(rx') : i > RESP_BUF_SIZE => rx'[i].n = requests'
    BY <1>1, <1>2
  <1>7. late' = {} => Len(rx') + Len(line') <= RESP_BUF_SIZE
    <2>1. late' = {} => rx' = <<>>
      BY <1>1, <1>4
    <2>2. line' \in Seq(Byte)
      BY <1>1, ReplyType, EmptySeq
    <2>3. Len(line') \in Nat
      BY <2>2, LenProperties
    <2>4. QED
      BY <1>2, <1>3, <2>1, <2>3
  <1>8. QED
    BY <1>1, <1>3, <1>5, <1>6, <1>7 DEF AgeInv

LEMMA AgeInvNext == TypeInv /\ WholeInv /\ AgeInv /\ [SensorsNext]_sensorsVars => AgeInv'
  <1> SUFFICES ASSUME TypeInv, WholeInv, AgeInv, [SensorsNext]_sensorsVars PROVE AgeInv'
    OBVIOUS
  <1>t. /\ rx \in Seq(Byte) /\ line \in Seq(Byte) /\ requests \in Nat
        /\ campo \in 1 .. Fields /\ Fields = 4
    BY FieldOrder DEF TypeInv, LineTypes, ReadTypes
  <1> USE DEF manager, readTask, uart, sensorGhosts, publishTask
  <1>1. CASE ManagerInit \/ StartPublish \/ PublishBegin \/ LoadField \/ PublishEnd
    BY <1>1, AgeKept DEF ManagerInit, StartPublish, PublishBegin, LoadField, PublishEnd
  <1>2. CASE StartRead
    <2>1. rpc = "none" /\ rpc' \in {"none", "delay"} /\ ok = "none"
          /\ UNCHANGED <<rx, line, respbuff, requests, late, last_values, ok>>
      BY <1>2 DEF StartRead, TypeInv, ManagerTypes, WholeInv
    <2>2. QED
      BY <2>1 DEF AgeInv, Of, Fresh
  <1>3. CASE BeginPass
    <2>1. /\ rpc = "delay" /\ rpc' = "zero"
          /\ UNCHANGED <<rx, line, respbuff, requests, late, last_values, ok>>
      BY <1>3 DEF BeginPass
    <2>2. QED
      BY <2>1, AgeKept
  <1>4. CASE ZeroField
    <2>1. /\ rpc = "zero" /\ rpc' \in {"zero", "send"}
          /\ UNCHANGED <<rx, line, respbuff, requests, late, ok>>
      BY <1>4, <1>t, NextFieldType DEF ZeroField
    <2>2. QED
      BY <2>1 DEF AgeInv, Of, Fresh
  <1>5. CASE SendRequest
    BY <1>5, AgeSend
  <1>6. CASE ReadReply
    BY <1>6, AgeRead
  <1>7. CASE ReadTimeout
    <2>1. /\ rx' = <<>> /\ rpc' = "mark" /\ UNCHANGED <<line, requests>>
          /\ late' = {} => line = <<>>
      BY <1>7 DEF ReadTimeout
    <2>2. Len(rx') = 0
      BY <2>1, EmptySeq
    <2>3. QED
      BY <2>1, <2>2 DEF AgeInv, Of
  <1>8. CASE CheckCRC
    <2>1. /\ rpc = "check" /\ rpc' \in {"store", "mark"}
          /\ rpc' = "store" => respbuff' = respbuff
          /\ UNCHANGED <<rx, line, requests, late>>
      BY <1>8 DEF CheckCRC
    <2>2. QED
      BY <2>1 DEF AgeInv, Of, Fresh
  <1>9. CASE StoreField
    <2>0. rpc = "store" /\ UNCHANGED <<rx, line, requests, late>>
      BY <1>9 DEF StoreField
    <2>1. CASE campo < 4
      <3>1. rpc' = "store" /\ UNCHANGED respbuff
        BY <1>9, <1>t, <2>1, NextFieldType DEF StoreField
      <3>2. QED
        BY <2>0, <3>1 DEF AgeInv, Of, Fresh
    <2>2. CASE ~(campo < 4)
      <3>1. rpc' = "delay" /\ campo = 4
        BY <1>9, <1>t, <2>2, NextFieldType DEF StoreField
      <3>2. \A f \in Field : last_values'[f] = respbuff[1].n
        BY <1>9, <3>1, StoreStep
      <3>3. respbuff[1].n \in Fresh
        <4>1. PICK n \in 1 .. requests : respbuff = Reply(n)
          BY <1>9 DEF TypeInv, ReadTypes, StoreField, Intact
        <4>2. 1 \in 1 .. Len(respbuff)
          BY <1>t, <4>1, ReplyType, SensorsAssumption
        <4>3. QED
          BY <2>0, <4>2 DEF AgeInv, Of
      <3>4. QED
        BY <2>0, <3>1, <3>2, <3>3 DEF AgeInv, Of, Fresh
    <2>3. QED
      BY <2>1, <2>2
  <1>10. CASE MarkField
    <2>1. /\ rpc = "mark" /\ rpc' \in {"mark", "delay"} /\ (rpc' = "delay" => ok' = "no")
          /\ UNCHANGED <<rx, line, respbuff, requests, late>>
      BY <1>10, <1>t, NextFieldType DEF MarkField
    <2>2. QED
      BY <2>1 DEF AgeInv, Of, Fresh
  <1>11. CASE BytesArrive
    BY <1>11, AgeArrives
  <1>12. CASE ByteLost
    <2>1. /\ line # <<>> /\ line' = Tail(line)
          /\ UNCHANGED <<rpc, rx, respbuff, requests, late, last_values, ok>>
      BY <1>12 DEF ByteLost
    <2>2. /\ Len(line') = Len(line) - 1 /\ Len(line) \in Nat /\ Len(rx) \in Nat
          /\ \A i \in 1 .. Len(line') : line'[i] = line[i + 1]
      BY <1>t, <2>1, HeadTailProperties, LenProperties
    <2>3. Of(line', {requests'})
      <3>1. \A i \in 1 .. Len(line') : i + 1 \in 1 .. Len(line)
        BY <2>2
      <3>2. QED
        BY <2>1, <2>2, <3>1 DEF AgeInv, Of
    <2>4. rpc = "wait" /\ late = {} => Len(rx') + Len(line') <= RESP_BUF_SIZE
      BY <2>1, <2>2, SensorsAssumption DEF AgeInv
    <2>5. QED
      BY <2>1, <2>3, <2>4 DEF AgeInv, Of, Fresh
  <1>13. CASE UNCHANGED sensorsVars
    BY <1>13, AgeKept DEF sensorsVars
  <1>14. QED
    BY <1>1, <1>2, <1>3, <1>4, <1>5, <1>6, <1>7, <1>8, <1>9, <1>10, <1>11, <1>12, <1>13
    DEF SensorsNext, SensorsReadTask, SensorsPublishTask

(* A reading that passes for new is at most one request behind, and not    *)
(* even that before the first late answer.                                 *)
THEOREM ReadingAtMostOneBehind == SensorsSpec => []ReadingAge
  <1>1. SensorsInit => AgeInv
    BY EmptySeq DEF SensorsInit, AgeInv, Of
  <1>2. TypeInv /\ AgeInv => ReadingAge
    <2> SUFFICES ASSUME TypeInv, AgeInv, rpc = "delay", ok = "yes", NEW f \in Field
                 PROVE  requests - last_values[f] <= (IF late = {} THEN 0 ELSE 1)
      BY DEF ReadingAge
    <2>1. last_values[f] \in Fresh /\ requests \in Nat
      BY DEF AgeInv, TypeInv, ReadTypes
    <2>2. QED
      BY <2>1 DEF Fresh
  <1>3. QED
    BY <1>1, <1>2, TypeInvInit, TypeInvNext, WholeInvInit, WholeInvNext, AgeInvNext, PTL
    DEF SensorsSpec
-----------------------------------------------------------------------------
(* A pass of the read task is bounded: the safety core of PassEnds.        *)

(* The steps sensors_read_task still has to make in its pass: fields to    *)
(* zero, the request, the wait, the CRC, fields to write.                  *)
PassRank ==
  CASE rpc = "zero" -> 2 * Fields + 4 - campo
    [] rpc = "send" -> Fields + 3
    [] rpc = "wait" -> Fields + 2
    [] rpc = "check" -> Fields + 1
    [] rpc \in {"store", "mark"} -> Fields + 1 - campo
    [] OTHER -> 0

(* A pass takes 2 * Fields + 3 steps of the read task at most: each step   *)
(* of it leaves fewer to go, whatever the meter and the buffer hold, and   *)
(* no step of another task, of the UART or of the meter adds one.  Only    *)
(* the wait for the reply can last, and PZ_READ_TIMEOUT ends it.           *)
PassAdvances ==
  [][/\ SensorsReadTask => PassRank' < PassRank \/ (rpc = "delay" /\ rpc' = "zero")
     /\ ~SensorsReadTask => PassRank' = PassRank]_sensorsVars

LEMMA PassRankType == ReadTypes => PassRank \in 0 .. 2 * Fields + 3
  BY FieldOrder DEF ReadTypes, PassRank

LEMMA PassStep ==
  ASSUME ReadTypes, SensorsReadTask
  PROVE  PassRank' < PassRank \/ (rpc = "delay" /\ rpc' = "zero")
  <1>t. Fields = 4 /\ campo \in 1 .. 4
    BY FieldOrder DEF ReadTypes
  <1> USE <1>t DEF PassRank
  <1>1. CASE BeginPass
    BY <1>1 DEF BeginPass
  <1>2. CASE ZeroField
    BY <1>2 DEF ZeroField, NextField
  <1>3. CASE SendRequest
    BY <1>3 DEF SendRequest
  <1>4. CASE ReadReply
    BY <1>4 DEF ReadReply
  <1>5. CASE ReadTimeout
    BY <1>5 DEF ReadTimeout
  <1>6. CASE CheckCRC
    BY <1>6 DEF CheckCRC
  <1>7. CASE StoreField
    BY <1>7 DEF StoreField, NextField
  <1>8. CASE MarkField
    BY <1>8 DEF MarkField, NextField
  <1>9. QED
    BY <1>1, <1>2, <1>3, <1>4, <1>5, <1>6, <1>7, <1>8 DEF SensorsReadTask

LEMMA PassKept ==
  ASSUME ManagerTypes, [SensorsNext]_sensorsVars, ~SensorsReadTask
  PROVE  PassRank' = PassRank
  <1>1. CASE StartRead
    <2>1. rpc = "none" /\ rpc' \in {"none", "delay"}
      BY <1>1 DEF ManagerTypes, StartRead
    <2>2. QED
      BY <2>1 DEF PassRank
  <1>2. CASE ~StartRead
    <2>1. UNCHANGED <<rpc, campo>>
      BY <1>2 DEF SensorsNext, SensorsPublishTask, ManagerInit, StartPublish,
         PublishBegin, LoadField, PublishEnd, BytesArrive, ByteLost, sensorsVars, readTask
    <2>2. QED
      BY <2>1 DEF PassRank
  <1>3. QED
    BY <1>1, <1>2

(* A pass of the read task is over after 2 * Fields + 3 of its steps at    *)
(* most, whatever the meter sends and however the publish task runs.       *)
THEOREM PassesAreBounded ==
  SensorsSpec => [](PassRank \in 0 .. 2 * Fields + 3) /\ PassAdvances
  <1>1. TypeInv => PassRank \in 0 .. 2 * Fields + 3
    BY PassRankType DEF TypeInv
  <1>2. TypeInv /\ [SensorsNext]_sensorsVars =>
          [/\ SensorsReadTask => PassRank' < PassRank \/ (rpc = "delay" /\ rpc' = "zero")
           /\ ~SensorsReadTask => PassRank' = PassRank]_sensorsVars
    BY PassStep, PassKept DEF TypeInv
  <1>3. QED
    BY <1>1, <1>2, TypeInvInit, TypeInvNext, PTL DEF SensorsSpec, PassAdvances
=============================================================================
