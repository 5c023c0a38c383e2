-------------------------------- MODULE Sensors --------------------------------
(***************************************************************************)
(* The sensors manager with its one sensor, the PZEM-004T power meter on a *)
(* UART.  sensors_read_task asks the meter for a reading every 2 s and     *)
(* writes it, field by field, into last_values; sensors_publish_task loads *)
(* the fields every 3 s for a message.  There is no lock between them.     *)
(*                                                                         *)
(* A reply of the meter is RESP_BUF_SIZE bytes.  A byte is known by the    *)
(* request it answers and its place in the reply, so that a frame passes   *)
(* the CRC exactly if it is one whole reply.  Bytes that arrive when       *)
(* nobody reads stay in the receive buffer of the UART: it is never        *)
(* flushed.  A value of last_values is the number of the request that      *)
(* gave it, 0 (zeroed) or -1 (failed reading).                             *)
(***************************************************************************)
EXTENDS Integers, Sequences, NvsStore

CONSTANTS
  RESP_BUF_SIZE,  \* bytes of a reply
  EspIds,         \* the blobs "esp_id" a boot may find
  MaxRequests,    \* bound on the requests to the meter
  MaxFaults       \* bound on late replies and lost bytes

ASSUME SensorsAssumption ==
  /\ RESP_BUF_SIZE \in Nat /\ RESP_BUF_SIZE >= 4
  /\ EspIds \subseteq Blob
  /\ MaxRequests \in Nat
  /\ MaxFaults \in Nat

VARIABLES
  esp_id,      \* the blob "dev_info"/"esp_id" at boot
  boot,        \* app_main: "init", "start", "up"
  sensors_initialized,
  sensor_count,
  rpc,         \* sensors_read_task: "none" is read_task_handle = NULL
  campo,       \* the field it writes next
  respbuff,    \* the reply PzemGetValues works on
  last_values,
  ok,          \* result of its last pass, or "none"
  rx,          \* the receive buffer of the UART
  line,        \* the bytes of the reply still to arrive
  requests,    \* requests sent
  ppc,         \* sensors_publish_task: "none" is publish_task_handle = NULL
  payload,     \* the fields it has loaded
  clean,       \* ghost: rx was empty when the request was sent
  prompt,      \* ghost: no byte of the reply is missing or late so far
  antes,       \* ghost: the reading that stood before the last pass
  pasadas,     \* ghost: passes that overlap the load, 2 for more, or no load
  late,        \* ghost: requests with bytes that came after the 100 ms
  faults       \* bound

manager == <<esp_id, boot, sensors_initialized, sensor_count>>
readTask == <<rpc, campo, respbuff, last_values, ok>>
uart == <<rx, line, requests>>
publishTask == <<ppc, payload>>
sensorGhosts == <<clean, prompt, antes, pasadas, late>>
sensorsVars == <<manager, readTask, uart, publishTask, sensorGhosts, faults>>

Field == {"voltage", "current", "power", "energy"}
Value == {v \in Int : v >= -1}
Byte == [n : Nat \ {0}, i : 1 .. RESP_BUF_SIZE]
Reply(n) == [i \in 1 .. RESP_BUF_SIZE |-> [n |-> n, i |-> i]]

(* The order in which PzemZeroValues, PzemGetValues and the failure branch *)
(* of pzem_read write the four fields that are published.                  *)
ZeroOrder == <<"current", "energy", "power", "voltage">>
StoreOrder == <<"voltage", "current", "power", "energy">>
Fields == Len(StoreOrder)

(* Type invariant.  Nothing is flushed, and yet the receive buffer of 2048 *)
(* bytes never holds more than two replies.                                *)
SensorsTypeOK ==
  /\ esp_id \in Blob
  /\ boot \in {"init", "start", "up"}
  /\ sensors_initialized \in BOOLEAN
  /\ sensor_count \in {0, 1}
  /\ rpc \in {"none", "delay", "zero", "send", "wait", "check", "store", "mark"}
  /\ campo \in 1 .. Fields
  /\ respbuff \in Seq(Byte)
  /\ last_values \in [Field -> Value]
  /\ ok \in {"none", "yes", "no"}
  /\ rx \in Seq(Byte) /\ Len(rx) <= 2 * RESP_BUF_SIZE
  /\ line \in Seq(Byte)
  /\ requests \in Nat
  /\ ppc \in {"none", "delay", "load"}
  /\ DOMAIN payload \subseteq Field
  /\ \A f \in DOMAIN payload : payload[f] \in Value
  /\ clean \in BOOLEAN /\ prompt \in BOOLEAN
  /\ antes \in Value /\ pasadas \in 0 .. 2
  /\ late \subseteq 1 .. requests
  /\ faults \in 0 .. MaxFaults

(* Power-up: memset of last_values, no task.                               *)
SensorsInit ==
  /\ esp_id \in EspIds
  /\ boot = "init"
  /\ sensors_initialized = FALSE /\ sensor_count = 0
  /\ rpc = "none" /\ campo = 1 /\ respbuff = <<>>
  /\ last_values = [f \in Field |-> 0] /\ ok = "none"
  /\ rx = <<>> /\ line = <<>> /\ requests = 0
  /\ ppc = "none" /\ payload = <<>>
  /\ clean = FALSE /\ prompt = FALSE /\ antes = 0 /\ pasadas = 2
  /\ late = {} /\ faults = 0

-----------------------------------------------------------------------------
(* app_main and the MQTT event handler start the manager.                  *)

(* sensors_manager_init.  Without an esp_id there are no sensors; with one *)
(* the PZEM is registered, unless there is no memory for it.               *)
ManagerInit ==
  /\ boot = "init"
  /\ boot' = "start"
  /\ sensors_initialized' = LoadBlob(esp_id).ok
  /\ sensor_count' \in IF LoadBlob(esp_id).ok THEN {0, 1} ELSE {0}
  /\ UNCHANGED <<esp_id, readTask, uart, publishTask, sensorGhosts, faults>>

(* sensors_manager_start_read; the result of xTaskCreate is not looked at. *)
StartRead ==
  /\ boot = "start"
  /\ boot' = "up"
  /\ rpc' \in IF sensors_initialized THEN {"none", "delay"} ELSE {"none"}
  /\ UNCHANGED <<esp_id, sensors_initialized, sensor_count, campo, respbuff,
                 last_values, ok, uart, publishTask, sensorGhosts, faults>>

(* sensors_manager_start_publish, at any MQTT_EVENT_CONNECTED.             *)
StartPublish ==
  /\ boot = "up" /\ sensors_initialized /\ ppc = "none"
  /\ ppc' = "delay"
  /\ UNCHANGED <<manager, readTask, uart, payload, sensorGhosts, faults>>

-----------------------------------------------------------------------------
(* sensors_read_task: pzem_read and PzemGetValues.  The 200 ms test at the *)
(* top of PzemGetValues can skip a pass only in the first 200 ms of a boot *)
(* (passes are 2 s apart), and a skipped pass changes nothing.             *)

(* A reply takes some 30 ms, so the line is idle again by the next pass.   *)
BeginPass ==
  /\ rpc = "delay" /\ sensor_count = 1
  /\ line = <<>> /\ requests < MaxRequests
  /\ rpc' = "zero" /\ campo' = 1
  /\ antes' = last_values["voltage"]
  /\ pasadas' = IF pasadas = 0 THEN 1 ELSE 2
  /\ UNCHANGED <<manager, respbuff, last_values, ok, uart, publishTask, clean, prompt,
                 late, faults>>

(* The next step of a loop over the fields, or what follows it.            *)
NextField(then) ==
  IF campo < Fields
    THEN campo' = campo + 1 /\ UNCHANGED rpc
    ELSE campo' = 1 /\ rpc' = then

ZeroField ==
  /\ rpc = "zero"
  /\ last_values' = [last_values EXCEPT ![ZeroOrder[campo]] = 0]
  /\ NextField("send")
  /\ UNCHANGED <<manager, respbuff, ok, uart, publishTask, sensorGhosts, faults>>

(* PzemSendCmd8 with check = false.  The meter answers, or it is off.      *)
SendRequest ==
  /\ rpc = "send"
  /\ requests' = requests + 1
  /\ line' \in {<<>>, Reply(requests + 1)}
  /\ clean' = (rx = <<>>) /\ prompt' = (line' # <<>>)
  /\ rpc' = "wait"
  /\ UNCHANGED <<manager, campo, respbuff, last_values, ok, rx, publishTask, antes,
                 pasadas, late, faults>>

(* Mutant of ReadReply: the bytes are copied and left in the buffer.       *)
ReadReplyAgain ==
  /\ rpc = "wait" /\ Len(rx) >= RESP_BUF_SIZE
  /\ respbuff' = SubSeq(rx, 1, RESP_BUF_SIZE)
  /\ rpc' = "check"
  /\ UNCHANGED <<manager, campo, last_values, ok, rx, line, requests, publishTask,
                 sensorGhosts, faults>>

(* PzemReceive: uart_read_bytes has all the bytes it was asked for.        *)
ReadReply ==
  /\ rpc = "wait" /\ Len(rx) >= RESP_BUF_SIZE
  /\ respbuff' = SubSeq(rx, 1, RESP_BUF_SIZE)
  /\ rx' = SubSeq(rx, RESP_BUF_SIZE + 1, Len(rx))
  /\ rpc' = "check"
  /\ UNCHANGED <<manager, campo, last_values, ok, line, requests, publishTask,
                 sensorGhosts, faults>>

(* Mutant of ReadTimeout: wait on while some of the bytes have come.       *)
ReadTimeoutIfSilent ==
  /\ rpc = "wait" /\ rx = <<>> /\ line = <<>>
  /\ rpc' = "mark"
  /\ UNCHANGED <<manager, campo, respbuff, last_values, ok, uart, publishTask, sensorGhosts,
                 faults>>

(* Mutant of ReadTimeout: the time is over before the bytes are counted.   *)
ReadTimeoutAnyway ==
  /\ rpc = "wait"
  /\ line = <<>>
  /\ rx' = <<>>
  /\ rpc' = "mark"
  /\ UNCHANGED <<manager, campo, respbuff, last_values, ok, line, requests, publishTask,
                 sensorGhosts, faults>>

(* PZ_READ_TIMEOUT: the bytes that came are dropped, the rest may be late.  *)
ReadTimeout ==
  /\ rpc = "wait" /\ Len(rx) < RESP_BUF_SIZE
  /\ line # <<>> => faults < MaxFaults
  /\ rx' = <<>>
  /\ late' = IF line = <<>> THEN late ELSE late \cup {requests}
  /\ faults' = IF line = <<>> THEN faults ELSE faults + 1
  /\ prompt' = (prompt /\ line = <<>>)
  /\ rpc' = "mark"
  /\ UNCHANGED <<manager, campo, respbuff, last_values, ok, line, requests, publishTask, clean,
                 antes, pasadas>>

Intact(frame) == \E n \in 1 .. requests : frame = Reply(n)

(* Mutant of CheckCRC: 25 bytes are enough.                                *)
CheckNothing ==
  /\ rpc = "check"
  /\ rpc' = "store"
  /\ UNCHANGED <<manager, campo, respbuff, last_values, ok, uart, publishTask,
                 sensorGhosts, faults>>

(* Mutant of CheckCRC: the voltage is stored before the frame is checked.  *)
CheckAfterStore ==
  /\ rpc = "check"
  /\ IF Intact(respbuff)
       THEN rpc' = "store" /\ UNCHANGED <<respbuff, last_values>>
       ELSE /\ rpc' = "mark" /\ respbuff' = <<>>
            /\ last_values' = [last_values EXCEPT !["voltage"] = respbuff[1].n]
  /\ UNCHANGED <<manager, campo, ok, uart, publishTask, sensorGhosts, faults>>

(* PzemCheckCRC: crc16 is taken to tell every frame that is not one whole  *)
(* reply.                                                                  *)
CheckCRC ==
  /\ rpc = "check"
  /\ IF Intact(respbuff)
       THEN rpc' = "store" /\ UNCHANGED respbuff
       ELSE rpc' = "mark" /\ respbuff' = <<>>
  /\ UNCHANGED <<manager, campo, last_values, ok, uart, publishTask,
                 sensorGhosts, faults>>

StoreField ==
  /\ rpc = "store"
  /\ last_values' = [last_values EXCEPT ![StoreOrder[campo]] = respbuff[campo].n]
  /\ NextField("delay")
  /\ IF campo < Fields THEN UNCHANGED <<respbuff, ok>>
                       ELSE respbuff' = <<>> /\ ok' = "yes"
  /\ UNCHANGED <<manager, uart, publishTask, sensorGhosts, faults>>

(* A failed reading: pzem_read writes -1 in each field.                    *)
MarkField ==
  /\ rpc = "mark"
  /\ last_values' = [last_values EXCEPT ![StoreOrder[campo]] = -1]
  /\ NextField("delay")
  /\ ok' = IF campo = Fields THEN "no" ELSE ok
  /\ UNCHANGED <<manager, respbuff, uart, publishTask, sensorGhosts, faults>>

-----------------------------------------------------------------------------
(* sensors_publish_task: pzem_publish.  C leaves the order in which the    *)
(* arguments of snprintf are loaded open.                                  *)

PublishBegin ==
  /\ ppc = "delay" /\ sensor_count = 1
  /\ ppc' = "load" /\ payload' = <<>>
  /\ pasadas' = IF rpc \in {"none", "delay"} THEN 0 ELSE 1
  /\ UNCHANGED <<manager, readTask, uart, clean, prompt, antes, late, faults>>

LoadField ==
  /\ ppc = "load"
  /\ \E f \in Field \ DOMAIN payload :
       payload' = [g \in DOMAIN payload \cup {f} |->
                     IF g = f THEN last_values[f] ELSE payload[g]]
  /\ UNCHANGED <<manager, readTask, uart, ppc, sensorGhosts, faults>>

(* mqtt_cliente_publish_with_base; it may fail, and the reading is lost.   *)
PublishEnd ==
  /\ ppc = "load" /\ DOMAIN payload = Field
  /\ ppc' = "delay" /\ payload' = <<>>
  /\ pasadas' = 2
  /\ UNCHANGED <<manager, readTask, uart, clean, prompt, antes, late, faults>>

-----------------------------------------------------------------------------
(* The UART and the meter.                                                 *)

BytesArrive ==
  /\ line # <<>>
  /\ \E k \in 1 .. Len(line) :
       /\ rx' = rx \o SubSeq(line, 1, k)
       /\ line' = SubSeq(line, k + 1, Len(line))
  /\ UNCHANGED <<manager, readTask, requests, publishTask, sensorGhosts, faults>>

(* Noise or an overrun loses a byte.                                       *)
ByteLost ==
  /\ line # <<>> /\ faults < MaxFaults
  /\ line' = Tail(line)
  /\ faults' = faults + 1
  /\ prompt' = FALSE
  /\ UNCHANGED <<manager, readTask, rx, requests, publishTask, clean, antes, pasadas, late>>

-----------------------------------------------------------------------------
SensorsReadTask ==
  \/ BeginPass \/ ZeroField \/ SendRequest \/ ReadReply \/ ReadTimeout
  \/ CheckCRC \/ StoreField \/ MarkField

SensorsPublishTask == PublishBegin \/ LoadField \/ PublishEnd

SensorsNext ==
  \/ ManagerInit \/ StartRead \/ StartPublish
  \/ SensorsReadTask
  \/ SensorsPublishTask
  \/ BytesArrive \/ ByteLost

(* uart_read_bytes gives up after PZ_READ_TIMEOUT, a task that does not    *)
(* wait is scheduled, and what is on the line arrives.                     *)
SensorsFairness ==
  /\ WF_sensorsVars(SensorsReadTask)
  /\ WF_sensorsVars(BytesArrive)

SensorsSpec == SensorsInit /\ [][SensorsNext]_sensorsVars /\ SensorsFairness

-----------------------------------------------------------------------------
(* Properties.                                                             *)

AllFieldsAre(v) == \A f \in Field : last_values[f] = v

(* Between two passes the four fields are one answer of the meter, whole,  *)
(* or all are -1 (pzem_sensor.c): whatever late and lost bytes the buffer  *)
(* held, no reading is put together from two replies or left half zeroed.  *)
ReadingWhole ==
  rpc = "delay" =>
    CASE ok = "yes"  -> \E n \in 1 .. requests : AllFieldsAre(n)
      [] ok = "no"   -> AllFieldsAre(-1)
      [] ok = "none" -> AllFieldsAre(0)

(* The two tasks share last_values without a lock, and a pass zeroes the   *)
(* fields before it asks the meter.  A message loaded with no pass under   *)
(* way is one reading.  One that a pass overlaps mixes at most the reading *)
(* before the pass, its zeros and its result (a reading or -1), whenever   *)
(* each field was loaded: never bytes of a frame that the CRC refused, a   *)
(* value of an earlier pass, or two results.                               *)
MessageMixesOnePass ==
  DOMAIN payload = Field =>
    /\ pasadas = 0 => \A f, g \in Field : payload[f] = payload[g]
    /\ pasadas = 1 => \A f \in Field : payload[f] \in {antes, 0, last_values[f]}

(* How old a reading that passes for new can be.  Nothing flushes the      *)
(* receive buffer, so bytes that come after the 100 ms are taken for the   *)
(* next answer.  From the first late answer on a reading may be one        *)
(* request behind, never more, however many come late; before, it is new.  *)
ReadingAge ==
  rpc = "delay" /\ ok = "yes" =>
    \A f \in Field : requests - last_values[f] <= (IF late = {} THEN 0 ELSE 1)

(* With an empty buffer, an answer that comes whole and in time is the     *)
(* reading: neither the time limit nor the CRC refuses it.                 *)
PromptReplyAccepted ==
  rpc = "delay" /\ clean /\ prompt => AllFieldsAre(requests)

(* A pass ends whatever the meter does: silence, half an answer or noise   *)
(* do not hold the read task, which all sensors share.                     *)
PassEnds == (rpc # "delay" /\ rpc # "none") ~> (rpc = "delay")
=============================================================================
