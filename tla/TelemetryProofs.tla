----------------------------- MODULE TelemetryProofs -----------------------------
(***************************************************************************)
(* Proofs about Telemetry, for every number of power cuts and restarts.    *)
(***************************************************************************)
EXTENDS Telemetry, TLAPS

-----------------------------------------------------------------------------
(* Type correctness.                                                       *)

(* A client exists only after mqtt_cliente_init.                           *)
TypeInv ==
  /\ TelemetryTypeOK
  /\ servicios \in {"check", "mqtt"} => s_mqtt_client = "none"

LEMMA TypeInit == TelemetryInit => TypeInv
  <1> SUFFICES ASSUME TelemetryInit PROVE TypeInv
    OBVIOUS
  <1>1. ClockTypeOK
    BY DEF TelemetryInit, ClockInit, ClockTypeOK
  <1>2. MqttTypeOK
    <2>1. conectado \in BOOLEAN /\ ~conectado
      BY DEF TelemetryInit, MqttInit
    <2>2. sensors_initialized \in BOOLEAN
      BY DEF TelemetryInit, MqttInit, LoadBlob
    <2>3. /\ user \in User /\ esp_id \in EspId /\ creds \in Blob
          /\ s_mqtt_client = "none" /\ s_base_topic = "vacia" /\ mpc = "idle"
          /\ tareas = 0 /\ estado = "ninguno" /\ tema = "vacia"
      BY DEF TelemetryInit, MqttInit
    <2>4. QED
      BY <2>1, <2>2, <2>3 DEF MqttTypeOK, User, Blob, Base
  <1>3. dispensador \in BOOLEAN /\ dosis \in BOOLEAN
    BY DEF TelemetryInit
  <1>4. servicios = "check" /\ primera = "pendiente" /\ restarts = 0 /\ s_mqtt_client = "none"
    BY DEF TelemetryInit, MqttInit
  <1>5. QED
    BY <1>1, <1>2, <1>3, <1>4, TelemetryAssumption DEF TypeInv, TelemetryTypeOK

LEMMA TypeNext == TypeInv /\ [TelemetryNext]_telemetryVars => TypeInv'
  <1> SUFFICES ASSUME TypeInv, [TelemetryNext]_telemetryVars PROVE TypeInv'
    OBVIOUS
  <1> USE DEF TypeInv, TelemetryTypeOK, ClockTypeOK, MqttTypeOK, User, Base,
          clockVars, mqttVars, ids, bootVars
  <1>1. CASE CheckInternet
    BY <1>1 DEF CheckInternet, AsksTime
  <1>2. CASE InitMqtt
    <2>1. UNCHANGED <<clockVars, ids, conectado, mpc, sensors_initialized, tareas, estado, tema,
                      dispensador, dosis, primera, restarts>>
          /\ servicios' = "firestore" /\ servicios = "mqtt"
      BY <1>2 DEF InitMqtt
    <2>2. s_mqtt_client' \in {"none", "created", "started"} /\ s_base_topic' \in Base
      BY <1>2 DEF InitMqtt, ClientInit, BaseTopic, PathOfIds
    <2>3. conectado' => s_mqtt_client' = "started"
      BY <2>1
    <2>4. QED
      BY <2>1, <2>2, <2>3
  <1>3. CASE InitFirestore
    BY <1>3 DEF InitFirestore, AsksTime
  <1>4. CASE InitDispenser
    BY <1>4 DEF InitDispenser, AsksTime
  <1>5. CASE StartDispenser
    BY <1>5 DEF StartDispenser
  <1>6. CASE DoseTurns
    BY <1>6 DEF DoseTurns
  <1>7. CASE DoseRecorded
    <2>1. UNCHANGED <<nvsAbierta, bandera, hora, corte, mqttVars, servicios, dispensador,
                      primera, restarts>>
          /\ sync' \in {sync, "ask"} /\ dosis' \in BOOLEAN
      BY <1>7 DEF DoseRecorded, AsksTime
    <2>2. QED
      BY <2>1
  <1>8. CASE DoseNotRecorded
    <2>1. UNCHANGED <<clockVars, mqttVars, servicios, dispensador, primera, restarts>>
          /\ dosis' \in BOOLEAN
      BY <1>8 DEF DoseNotRecorded
    <2>2. QED
      BY <2>1
  <1>9. CASE Synchronise
    <2>1. UNCHANGED <<nvsAbierta, mqttVars, servicios, dispensador, dosis, restarts>>
          /\ primera' \in {primera, "ok", "mal"}
      BY <1>9 DEF Synchronise, ClockStep, SyncAnswers, SyncFails, SetTime, SaveFlag
    <2>2. /\ bandera' \in {bandera, "fits"} /\ hora' \in {hora, "buena"}
          /\ sync' \in {"idle", "set", "flag"} /\ corte' \in BOOLEAN
      BY <1>9 DEF Synchronise, ClockStep, SyncAnswers, SyncFails, SetTime, SaveFlag,
                  SaveBlob
    <2>3. QED
      BY <2>1, <2>2
  <1>10. CASE MqttTask
    BY <1>10 DEF MqttTask, PublishEstado, StartPublish, GetCurrent,
           Synchronised, LoadBlob
  <1>11. CASE PublishTask
    BY <1>11 DEF PublishTask, PublishReading
  <1>12. CASE Broker
    <2>1. UNCHANGED <<clockVars, bootVars, ids, s_mqtt_client, s_base_topic, sensors_initialized,
                      tareas, estado,
                      tema>>
          /\ mpc' \in {mpc, "estado"}
      BY <1>12 DEF Broker, BrokerConnects, BrokerDrops
    <2>2. conectado' \in BOOLEAN /\ (conectado' => s_mqtt_client' = "started")
      BY <1>12 DEF Broker, BrokerConnects, BrokerDrops
    <2>3. QED
      BY <2>1, <2>2
  <1>13. CASE PowerCut
    <2>1. /\ s_mqtt_client' = "none" /\ s_base_topic' = "vacia" /\ mpc' = "idle" /\ tareas' = 0
          /\ estado' = "ninguno" /\ tema' = "vacia"
          /\ conectado' \in BOOLEAN /\ ~conectado'
      BY <1>13 DEF PowerCut, Reboot, Boots
    <2>2. user' \in User /\ esp_id' \in EspId /\ creds' \in Blob
      BY <1>13 DEF PowerCut, Reboot, IdsAtBoot
    <2>3. /\ servicios' = "check" /\ primera' = "pendiente"
          /\ restarts' \in 0 .. MaxRestarts
      BY <1>13, TelemetryAssumption DEF PowerCut, Reboot
    <2>4. /\ dispensador' \in BOOLEAN /\ dosis' \in BOOLEAN
          /\ sensors_initialized' \in BOOLEAN
      BY <1>13 DEF PowerCut, Reboot, Boots, LoadBlob
    <2>5. ClockTypeOK'
      BY <1>13 DEF PowerCut, ClockLosesPower, ClockBoots
    <2>6. QED
      BY <2>1, <2>2, <2>3, <2>4, <2>5
  <1>14. CASE Restart
    <2>1. /\ s_mqtt_client' = "none" /\ s_base_topic' = "vacia" /\ mpc' = "idle" /\ tareas' = 0
          /\ estado' = "ninguno" /\ tema' = "vacia"
          /\ conectado' \in BOOLEAN /\ ~conectado'
      BY <1>14 DEF Restart, Reboot, Boots
    <2>2. user' \in User /\ esp_id' \in EspId /\ creds' \in Blob
      BY <1>14 DEF Restart, Reboot, IdsAtBoot
    <2>3. /\ servicios' = "check" /\ primera' = "pendiente"
          /\ restarts' \in 0 .. MaxRestarts
      BY <1>14, TelemetryAssumption DEF Restart, Reboot
    <2>4. /\ dispensador' \in BOOLEAN /\ dosis' \in BOOLEAN
          /\ sensors_initialized' \in BOOLEAN
      BY <1>14 DEF Restart, Reboot, Boots, LoadBlob
    <2>5. ClockTypeOK'
      BY <1>14 DEF Restart, ClockRestarts, ClockBoots
    <2>6. QED
      BY <2>1, <2>2, <2>3, <2>4, <2>5
  <1>15. CASE Erase
    <2>1. UNCHANGED <<hora, sync, corte, s_mqtt_client, s_base_topic, conectado, mpc,
                      sensors_initialized, tareas,
                      estado, tema, bootVars>>
          /\ nvsAbierta' \in BOOLEAN /\ bandera' = "absent"
      BY <1>15 DEF Erase, ClockErased
    <2>2. user' \in User /\ esp_id' \in EspId /\ creds' \in Blob
      BY <1>15 DEF Erase, Blob, EspId
    <2>3. QED
      BY <2>1, <2>2
  <1>16. CASE UNCHANGED telemetryVars
    BY <1>16 DEF telemetryVars
  <1>17. QED
    BY <1>1, <1>2, <1>3, <1>4, <1>5, <1>6, <1>7, <1>8, <1>9, <1>10, <1>11,
       <1>12, <1>13, <1>14, <1>15, <1>16 DEF TelemetryNext, ServicesTask,
       DispenserTask

(* The clock, the client and the services task keep their types; at most   *)
(* one publish task exists, and only a started client is connected.        *)
THEOREM TelemetryTypeCorrect == TelemetrySpec => []TelemetryTypeOK
  <1>1. TypeInv => TelemetryTypeOK
    BY DEF TypeInv
  <1>2. QED
    BY <1>1, TypeInit, TypeNext, PTL DEF TelemetrySpec

-----------------------------------------------------------------------------
(* The flag.                                                               *)

(* The flag is saved only after the time was set.                          *)
FlagInv ==
  /\ bandera = "fits" /\ hora = "perdida" => corte
  /\ sync = "flag" => hora = "buena"

LEMMA FlagInit == TelemetryInit => FlagInv
  BY DEF TelemetryInit, ClockInit, FlagInv

LEMMA FlagNext == TypeInv /\ FlagInv /\ [TelemetryNext]_telemetryVars =>
  FlagInv'
  <1> SUFFICES ASSUME TypeInv, FlagInv, [TelemetryNext]_telemetryVars PROVE
              FlagInv'
    OBVIOUS
  <1> USE DEF FlagInv, clockVars, mqttVars, bootVars
  <1>1. CASE CheckInternet
    BY <1>1 DEF CheckInternet, AsksTime
  <1>2. CASE InitMqtt
    BY <1>2 DEF InitMqtt, ClientInit
  <1>3. CASE InitFirestore
    BY <1>3 DEF InitFirestore, AsksTime
  <1>4. CASE InitDispenser
    BY <1>4 DEF InitDispenser, AsksTime
  <1>5. CASE StartDispenser
    BY <1>5 DEF StartDispenser
  <1>6. CASE DoseTurns
    BY <1>6 DEF DoseTurns
  <1>7. CASE DoseRecorded
    BY <1>7 DEF DoseRecorded, AsksTime
  <1>8. CASE DoseNotRecorded
    BY <1>8 DEF DoseNotRecorded
  <1>9. CASE Synchronise
    BY <1>9 DEF Synchronise, ClockStep, SyncAnswers, SyncFails, SetTime,
           SaveFlag, SaveBlob, TypeInv, TelemetryTypeOK, ClockTypeOK
  <1>10. CASE MqttTask
    BY <1>10 DEF MqttTask, PublishEstado, StartPublish
  <1>11. CASE PublishTask
    BY <1>11 DEF PublishTask, PublishReading
  <1>12. CASE Broker
    BY <1>12 DEF Broker, BrokerConnects, BrokerDrops
  <1>13. CASE PowerCut
    BY <1>13 DEF PowerCut, Reboot, Boots, IdsAtBoot, ClockLosesPower, ClockBoots
  <1>14. CASE Restart
    BY <1>14 DEF Restart, Reboot, Boots, IdsAtBoot, ClockRestarts, ClockBoots
  <1>15. CASE Erase
    BY <1>15 DEF Erase, ClockErased
  <1>16. CASE UNCHANGED telemetryVars
    BY <1>16 DEF telemetryVars
  <1>17. QED
    BY <1>1, <1>2, <1>3, <1>4, <1>5, <1>6, <1>7, <1>8, <1>9, <1>10, <1>11,
       <1>12, <1>13, <1>14, <1>15, <1>16 DEF TelemetryNext, ServicesTask,
       DispenserTask

(* A synchronisation that fails or is cut short never leaves the flag      *)
(* without the time: a false time means that power was lost.               *)
THEOREM FlagNeverAheadOfTime == TelemetrySpec => []FlagVouches
  <1>1. FlagInv => FlagVouches
    BY DEF FlagInv, FlagVouches, GetCurrent, Synchronised, LoadBlob
  <1>2. QED
    BY <1>1, TypeInit, TypeNext, FlagInit, FlagNext, PTL DEF TelemetrySpec

-----------------------------------------------------------------------------
(* The status message.                                                     *)

(* Nothing connects before the first synchronisation has ended; if it was  *)
(* a success the time is valid until power is lost or NVS is erased.       *)
StatusInv ==
  /\ primera = "pendiente" =>
       /\ s_mqtt_client = "none" /\ mpc = "idle" /\ estado = "ninguno"
       /\ ~dispensador /\ ~dosis
       /\ \/ servicios \in {"check", "done"} /\ sync = "idle"
          \/ servicios = "mqtt" /\ sync # "idle"
  /\ nvsAbierta /\ primera = "ok" =>
       bandera = "fits" /\ hora = "buena" /\ estado \notin {"omitida", "perdida"}

LEMMA StatusInit == TelemetryInit => StatusInv
  BY DEF TelemetryInit, ClockInit, MqttInit, StatusInv

LEMMA StatusNext == TypeInv /\ FlagInv /\ StatusInv /\
  [TelemetryNext]_telemetryVars => StatusInv'
  <1> SUFFICES ASSUME TypeInv, FlagInv, StatusInv,
              [TelemetryNext]_telemetryVars PROVE StatusInv'
    OBVIOUS
  <1> USE DEF StatusInv, clockVars, mqttVars, ids, bootVars
  <1>1. CASE CheckInternet
    BY <1>1 DEF CheckInternet, AsksTime
  <1>2. CASE InitMqtt
    BY <1>2 DEF InitMqtt, ClientInit
  <1>3. CASE InitFirestore
    BY <1>3 DEF InitFirestore, AsksTime
  <1>4. CASE InitDispenser
    BY <1>4 DEF InitDispenser, AsksTime
  <1>5. CASE StartDispenser
    BY <1>5 DEF StartDispenser
  <1>6. CASE DoseTurns
    BY <1>6 DEF DoseTurns
  <1>7. CASE DoseRecorded
    BY <1>7 DEF DoseRecorded, AsksTime
  <1>8. CASE DoseNotRecorded
    BY <1>8 DEF DoseNotRecorded
  <1>9. CASE Synchronise
    BY <1>9 DEF Synchronise, ClockStep, SyncAnswers, SyncFails, SetTime,
           SaveFlag, SaveBlob, FlagInv, Synchronised, LoadBlob, TypeInv,
           TelemetryTypeOK, ClockTypeOK
  <1>10. CASE MqttTask
    BY <1>10 DEF MqttTask, PublishEstado, StartPublish, GetCurrent,
           Synchronised, LoadBlob
  <1>11. CASE PublishTask
    BY <1>11 DEF PublishTask, PublishReading
  <1>12. CASE Broker
    BY <1>12 DEF Broker, BrokerConnects, BrokerDrops
  <1>13. CASE PowerCut
    BY <1>13 DEF PowerCut, Reboot, Boots, IdsAtBoot, ClockLosesPower, ClockBoots
  <1>14. CASE Restart
    BY <1>14 DEF Restart, Reboot, Boots, IdsAtBoot, ClockRestarts, ClockBoots
  <1>15. CASE Erase
    BY <1>15 DEF Erase, ClockErased
  <1>16. CASE UNCHANGED telemetryVars
    BY <1>16 DEF telemetryVars
  <1>17. QED
    BY <1>1, <1>2, <1>3, <1>4, <1>5, <1>6, <1>7, <1>8, <1>9, <1>10, <1>11,
       <1>12, <1>13, <1>14, <1>15, <1>16 DEF TelemetryNext, ServicesTask,
       DispenserTask

(* After a first synchronisation that succeeded, the "conectado" status is *)
(* never left out nor dated 1970.                                          *)
THEOREM StatusHasDate == TelemetrySpec => []StatusDated
  <1>1. StatusInv => StatusDated
    BY DEF StatusInv, StatusDated
  <1>2. QED
    BY <1>1, TypeInit, TypeNext, FlagInit, FlagNext, StatusInit, StatusNext, PTL
       DEF TelemetrySpec

-----------------------------------------------------------------------------
(* The topic.                                                              *)

(* What TopicOfDevice says of the last message, said of a base topic.      *)
OfDevice(base) ==
  nvsAbierta =>
    \/ base = "vacia"
    \/ /\ user >= 1
       /\ base = "completa" <=> esp_id \in 1 .. 15 /\ user + esp_id <= 50

TopicInv == OfDevice(s_base_topic) /\ OfDevice(tema)

(* The path made of the ids that are stored.                               *)
LEMMA BaseTopicOfIds ==
  ASSUME user \in User, esp_id \in EspId
  PROVE  OfDevice(BaseTopic)
  <1>1. user \in Int /\ user >= -1 /\ esp_id \in Int /\ esp_id >= -1
    BY MqttAssumption DEF User, EspId, Ausente
  <1>2. CASE user \in {-1, 0} \/ esp_id = -1
    <2>1. BaseTopic = "vacia"
      BY <1>2 DEF BaseTopic, LoadBlob, EspBlob, Ausente
    <2>2. QED
      BY <2>1 DEF OfDevice
  <1>3. CASE user >= 1 /\ esp_id >= 0
    <2>b. EspBlob(esp_id) = IF esp_id < 16 THEN "fits" ELSE "long"
      BY <1>1, <1>3 DEF EspBlob, Ausente
    <2>l. LoadBlob(EspBlob(esp_id)).ok /\ (LoadBlob(EspBlob(esp_id)).copied <=> esp_id < 16)
      BY <2>b DEF LoadBlob
    <2>1. BaseTopic = PathOfIds
      BY <1>1, <1>3, <2>l DEF BaseTopic, Ausente
    <2>2. LoadedEsp = IF esp_id < 16 THEN esp_id ELSE 0
      BY <2>l DEF LoadedEsp
    <2>3. PathOfIds = "completa" <=> esp_id \in 1 .. 15 /\ user + esp_id <= 50
      BY <1>1, <1>3, <2>2 DEF PathOfIds
    <2>4. QED
      BY <1>3, <2>1, <2>3 DEF OfDevice
  <1>4. QED
    BY <1>1, <1>2, <1>3

LEMMA TopicInit == TelemetryInit => TopicInv
  BY DEF TelemetryInit, MqttInit, TopicInv, OfDevice

LEMMA TopicNext == TypeInv /\ TopicInv /\ [TelemetryNext]_telemetryVars =>
  TopicInv'
  <1> SUFFICES ASSUME TypeInv, TopicInv, [TelemetryNext]_telemetryVars PROVE
              TopicInv'
    OBVIOUS
  <1> USE DEF TopicInv, OfDevice, clockVars, mqttVars, ids, bootVars
  <1>1. CASE CheckInternet
    BY <1>1 DEF CheckInternet, AsksTime
  <1>2. CASE InitMqtt
    <2>1. UNCHANGED <<nvsAbierta, user, esp_id, tema>>
      BY <1>2 DEF InitMqtt
    <2>2. s_base_topic' \in {s_base_topic, BaseTopic}
      BY <1>2 DEF InitMqtt, ClientInit
    <2>3. OfDevice(BaseTopic)
      BY BaseTopicOfIds DEF TypeInv, TelemetryTypeOK, MqttTypeOK
    <2>4. QED
      BY <2>1, <2>2, <2>3
  <1>3. CASE InitFirestore
    BY <1>3 DEF InitFirestore, AsksTime
  <1>4. CASE InitDispenser
    BY <1>4 DEF InitDispenser, AsksTime
  <1>5. CASE StartDispenser
    BY <1>5 DEF StartDispenser
  <1>6. CASE DoseTurns
    BY <1>6 DEF DoseTurns
  <1>7. CASE DoseRecorded
    BY <1>7 DEF DoseRecorded, AsksTime
  <1>8. CASE DoseNotRecorded
    BY <1>8 DEF DoseNotRecorded
  <1>9. CASE Synchronise
    BY <1>9 DEF Synchronise, ClockStep, SyncAnswers, SyncFails, SetTime,
           SaveFlag
  <1>10. CASE MqttTask
    BY <1>10 DEF MqttTask, PublishEstado, StartPublish
  <1>11. CASE PublishTask
    BY <1>11 DEF PublishTask, PublishReading
  <1>12. CASE Broker
    BY <1>12 DEF Broker, BrokerConnects, BrokerDrops
  <1>13. CASE PowerCut
    BY <1>13 DEF PowerCut, Reboot, Boots, IdsAtBoot, ClockLosesPower, ClockBoots
  <1>14. CASE Restart
    BY <1>14 DEF Restart, Reboot, Boots, IdsAtBoot, ClockRestarts, ClockBoots
  <1>15. CASE Erase
    BY <1>15 DEF Erase, ClockErased
  <1>16. CASE UNCHANGED telemetryVars
    BY <1>16 DEF telemetryVars
  <1>17. QED
    BY <1>1, <1>2, <1>3, <1>4, <1>5, <1>6, <1>7, <1>8, <1>9, <1>10, <1>11,
       <1>12, <1>13, <1>14, <1>15, <1>16 DEF TelemetryNext, ServicesTask,
       DispenserTask

(* For ids of every length, a message goes to the whole path of the device *)
(* exactly when both ids have a character, the esp_id at most 15 and both  *)
(* at most 50, and in no case to a path without the user id.               *)
THEOREM TopicIsOfDevice == TelemetrySpec => []TopicOfDevice
  <1>1. TopicInv => TopicOfDevice
    BY DEF TopicInv, OfDevice, TopicOfDevice
  <1>2. QED
    BY <1>1, TypeInit, TypeNext, TopicInit, TopicNext, PTL DEF TelemetrySpec

-----------------------------------------------------------------------------
(* The board without a time.                                               *)

LEMMA StuckStep == SinHora /\ [TelemetryNext]_telemetryVars => SinHora' \/
  PowerCut \/ Restart
  <1> SUFFICES ASSUME SinHora, [TelemetryNext]_telemetryVars PROVE SinHora'
              \/ PowerCut \/ Restart
    OBVIOUS
  <1> USE DEF SinHora, clockVars, bootVars
  <1>1. CASE CheckInternet
    BY <1>1 DEF CheckInternet, AsksTime
  <1>2. CASE InitMqtt
    BY <1>2 DEF InitMqtt, ClientInit
  <1>3. CASE InitFirestore
    BY <1>3 DEF InitFirestore, AsksTime
  <1>4. CASE InitDispenser
    BY <1>4 DEF InitDispenser, AsksTime
  <1>5. CASE StartDispenser
    BY <1>5 DEF StartDispenser
  <1>6. CASE DoseTurns
    BY <1>6 DEF DoseTurns, GetCurrent, Synchronised, LoadBlob
  <1>7. CASE DoseRecorded
    BY <1>7 DEF DoseRecorded, AsksTime
  <1>8. CASE DoseNotRecorded
    BY <1>8 DEF DoseNotRecorded
  <1>9. CASE Synchronise
    BY <1>9 DEF Synchronise, ClockStep, SyncAnswers, SyncFails, SetTime,
           SaveFlag
  <1>10. CASE MqttTask
    BY <1>10 DEF MqttTask, PublishEstado, StartPublish
  <1>11. CASE PublishTask
    BY <1>11 DEF PublishTask, PublishReading
  <1>12. CASE Broker
    BY <1>12 DEF Broker, BrokerConnects, BrokerDrops
  <1>13. CASE PowerCut
    BY <1>13
  <1>14. CASE Restart
    BY <1>14
  <1>15. CASE Erase
    BY <1>15 DEF Erase, ClockErased
  <1>16. CASE UNCHANGED telemetryVars
    BY <1>16 DEF telemetryVars
  <1>17. QED
    BY <1>1, <1>2, <1>3, <1>4, <1>5, <1>6, <1>7, <1>8, <1>9, <1>10, <1>11,
       <1>12, <1>13, <1>14, <1>15, <1>16 DEF TelemetryNext, ServicesTask,
       DispenserTask

(* No step but a restart or a power cut brings the board without a time    *)
(* out of its state.                                                       *)
THEOREM NoTimeWithoutRestart == TelemetrySpec => StuckWithoutTime
  <1>1. [TelemetryNext]_telemetryVars =>
          [SinHora => SinHora' \/ PowerCut \/ Restart]_telemetryVars
    BY StuckStep
  <1>2. QED
    BY <1>1, PTL DEF TelemetrySpec, StuckWithoutTime
-----------------------------------------------------------------------------
(* Who calls for the time.                                                 *)

(* Before its first call the services task is alone; the dispenser runs    *)
(* only when the services task has made its last one, and dispenser_task   *)
(* calls between two doses.                                                *)
CallInv ==
  /\ servicios = "check" => sync = "idle"
  /\ dispensador => servicios = "done"
  /\ dosis => dispensador /\ sync = "idle"

LEMMA CallInit == TelemetryInit => CallInv
  BY DEF TelemetryInit, ClockInit, CallInv

LEMMA CallNext == CallInv /\ [TelemetryNext]_telemetryVars => CallInv'
  <1> SUFFICES ASSUME CallInv, [TelemetryNext]_telemetryVars PROVE CallInv'
    OBVIOUS
  <1> USE DEF CallInv, clockVars, bootVars
  <1>1. CASE CheckInternet \/ InitFirestore \/ InitDispenser
    BY <1>1 DEF CheckInternet, InitFirestore, InitDispenser, AsksTime
  <1>2. CASE InitMqtt \/ StartDispenser
    BY <1>2 DEF InitMqtt, StartDispenser
  <1>3. CASE DoseTurns \/ DoseNotRecorded
    BY <1>3 DEF DoseTurns, DoseNotRecorded
  <1>4. CASE DoseRecorded
    <2>1. /\ dosis /\ dosis' = FALSE /\ UNCHANGED <<servicios, dispensador>>
          /\ sync' \in {sync, "ask"}
      BY <1>4 DEF DoseRecorded, AsksTime
    <2>2. QED
      BY <2>1
  <1>5. CASE Synchronise
    <2>1. /\ sync # "idle" /\ UNCHANGED <<servicios, dispensador, dosis>>
      BY <1>5 DEF Synchronise, ClockStep, SyncAnswers, SyncFails, SetTime, SaveFlag
    <2>2. QED
      BY <2>1
  <1>6. CASE MqttTask \/ PublishTask \/ Broker \/ Erase
    BY <1>6 DEF MqttTask, PublishTask, Broker, Erase, ClockErased
  <1>7. CASE PowerCut \/ Restart
    BY <1>7 DEF PowerCut, Restart, Reboot, ClockLosesPower, ClockRestarts, ClockBoots
  <1>8. CASE UNCHANGED telemetryVars
    BY <1>8 DEF telemetryVars
  <1>9. QED
    BY <1>1, <1>2, <1>3, <1>4, <1>5, <1>6, <1>7, <1>8
       DEF TelemetryNext, ServicesTask, DispenserTask

(* rtc_time_sync_with_timezone, which keeps its state in NVS and in the    *)
(* system clock and has no lock, is never entered while another call of it *)
(* is under way: the two tasks that call it do so one after the other.     *)
SyncNotReentered ==
  [][CheckInternet \/ InitFirestore \/ InitDispenser \/ DoseRecorded =>
       sync = "idle"]_telemetryVars

(* No call of rtc_time_sync_with_timezone begins within another.           *)
THEOREM OneSynchronisationAtATime == TelemetrySpec => SyncNotReentered
  <1>1. CallInv /\ [TelemetryNext]_telemetryVars =>
          [CheckInternet \/ InitFirestore \/ InitDispenser \/ DoseRecorded =>
             sync = "idle"]_telemetryVars
    BY DEF CallInv, CheckInternet, InitFirestore, InitDispenser, DoseRecorded
  <1>2. QED
    BY <1>1, CallInit, CallNext, PTL DEF TelemetrySpec, SyncNotReentered

-----------------------------------------------------------------------------
(* The clock as the dispenser sees it.                                     *)

(* Variable rtc of module Dispenser, read off the flag and the time.       *)
RtcView ==
  IF bandera # "fits" THEN "unset" ELSE IF hora = "buena" THEN "valid" ELSE "epoch"

(* The moves of the clock while nothing is recorded: a restart or a power  *)
(* cut never invents a time, and the flag is lost only to an erase.        *)
RtcAfterBoot == IF RtcView = "unset" THEN {"unset"} ELSE {"unset", "epoch", "valid"}

RtcMoves ==
  [][\/ RtcView' = RtcView
     \/ /\ Synchronise /\ RtcView' = "valid"
        /\ dispensador => servicios = "done" /\ ~dosis
     \/ (PowerCut \/ Restart) /\ RtcView' \in RtcAfterBoot
     \/ Erase /\ RtcView' = "unset"]_telemetryVars

LEMMA RtcStep ==
  ASSUME TypeInv, FlagInv, CallInv, [TelemetryNext]_telemetryVars
  PROVE  \/ RtcView' = RtcView
         \/ /\ Synchronise /\ RtcView' = "valid"
            /\ dispensador => servicios = "done" /\ ~dosis
         \/ (PowerCut \/ Restart) /\ RtcView' \in RtcAfterBoot
         \/ Erase /\ RtcView' = "unset"
  <1> USE DEF RtcView, RtcAfterBoot, clockVars
  <1>t. bandera \in {"absent", "fits"} /\ hora \in {"perdida", "buena"}
    BY DEF TypeInv, TelemetryTypeOK, ClockTypeOK
  <1>1. CASE Synchronise
    <2>1. /\ dispensador => servicios = "done" /\ ~dosis
      BY <1>1 DEF CallInv, Synchronise, ClockStep, SyncAnswers, SyncFails, SetTime, SaveFlag
    <2>2. CASE SyncAnswers \/ SyncFails
      BY <2>2 DEF SyncAnswers, SyncFails
    <2>3. CASE SetTime
      BY <1>1, <2>1, <2>3, <1>t DEF SetTime
    <2>4. CASE SaveFlag
      <3>1. hora = "buena" /\ hora' = hora /\ bandera' \in {bandera, "fits"}
        BY <2>4 DEF SaveFlag, SaveBlob, FlagInv
      <3>2. QED
        BY <1>1, <2>1, <3>1, <1>t
    <2>5. QED
      BY <1>1, <2>2, <2>3, <2>4 DEF Synchronise, ClockStep
  <1>2. CASE PowerCut \/ Restart
    BY <1>2, <1>t DEF PowerCut, Restart, ClockLosesPower, ClockRestarts, ClockBoots
  <1>3. CASE Erase
    BY <1>3 DEF Erase, ClockErased
  <1>4. CASE ~(Synchronise \/ PowerCut \/ Restart \/ Erase)
    <2>1. UNCHANGED <<bandera, hora>>
      BY <1>4 DEF TelemetryNext, ServicesTask, DispenserTask, CheckInternet, InitMqtt,
         InitFirestore, InitDispenser, StartDispenser, DoseTurns, DoseRecorded,
         DoseNotRecorded, AsksTime, MqttTask, PublishTask, Broker, telemetryVars
    <2>2. QED
      BY <2>1
  <1>5. QED
    BY <1>1, <1>2, <1>3, <1>4

(* What module Dispenser takes for granted of its variable rtc: while the  *)
(* tasks of the dispenser run, the time becomes valid only between two     *)
(* doses, in the call that dispenser_motor_stop makes; a board that boots  *)
(* has the flag it had, or none if it erased NVS, and a valid time only if *)
(* it kept the flag.  The erase of a running board is the one move         *)
(* Dispenser leaves out: the board restarts after it as a new one.         *)
THEOREM ClockIsAsDispenserAssumes == TelemetrySpec => RtcMoves
  <1>1. TypeInv /\ FlagInv /\ CallInv /\ [TelemetryNext]_telemetryVars =>
          [\/ RtcView' = RtcView
           \/ /\ Synchronise /\ RtcView' = "valid"
              /\ dispensador => servicios = "done" /\ ~dosis
           \/ (PowerCut \/ Restart) /\ RtcView' \in RtcAfterBoot
           \/ Erase /\ RtcView' = "unset"]_telemetryVars
    BY RtcStep
  <1>2. QED
    BY <1>1, TypeInit, TypeNext, FlagInit, FlagNext, CallInit, CallNext, PTL
       DEF TelemetrySpec, RtcMoves
-----------------------------------------------------------------------------
(* How far the services task has still to go: what ServicesEnd rests on,   *)
(* without the fairness that makes the task take its steps.                *)

SyncRank ==
  CASE sync = "ask" -> 3 [] sync = "set" -> 2 [] sync = "flag" -> 1 [] OTHER -> 0

(* Each stage may ask for the time once, and a call takes three steps.     *)
ServicesRank ==
  CASE servicios = "check" -> 20
    [] servicios = "mqtt" -> 16 + SyncRank
    [] servicios = "firestore" -> 12 + SyncRank
    [] servicios = "dispenser" -> 8 + SyncRank
    [] servicios = "start" -> 4 + SyncRank
    [] OTHER -> 0

(* The services task ends, whatever the time server answers, after at most *)
(* twenty steps of its own and of the calls it waits for: each is one less *)
(* to go, and nothing but a restart adds one.                              *)
ServicesAdvance ==
  [][/\ servicios # "done" /\ (ServicesTask \/ Synchronise) => ServicesRank' < ServicesRank
     /\ ServicesTask \/ Synchronise \/ PowerCut \/ Restart
          \/ ServicesRank' = ServicesRank]_telemetryVars

LEMMA ServicesStep ==
  ASSUME TypeInv, CallInv, servicios # "done", ServicesTask \/ Synchronise
  PROVE  ServicesRank' < ServicesRank
  <1>t. /\ sync \in {"idle", "ask", "set", "flag"}
        /\ servicios \in {"check", "mqtt", "firestore", "dispenser", "start", "done"}
    BY DEF TypeInv, TelemetryTypeOK, ClockTypeOK
  <1> USE <1>t DEF ServicesRank, SyncRank
  <1>1. CASE CheckInternet
    BY <1>1 DEF CheckInternet, AsksTime
  <1>2. CASE InitMqtt
    BY <1>2 DEF InitMqtt, clockVars
  <1>3. CASE InitFirestore
    BY <1>3 DEF InitFirestore, AsksTime
  <1>4. CASE InitDispenser
    <2>1. /\ servicios = "dispenser" /\ sync = "idle" /\ servicios' = "start"
          /\ sync' \in {"idle", "ask"}
      BY <1>4 DEF InitDispenser, AsksTime, clockVars
    <2>2. QED
      BY <2>1
  <1>5. CASE StartDispenser
    BY <1>5 DEF StartDispenser
  <1>6. CASE Synchronise
    <2>1. servicios # "check" /\ UNCHANGED servicios
      BY <1>6 DEF CallInv, Synchronise, ClockStep, SyncAnswers, SyncFails, SetTime, SaveFlag
    <2>2. SyncRank' < SyncRank
      BY <1>6 DEF Synchronise, ClockStep, SyncAnswers, SyncFails, SetTime, SaveFlag
    <2>3. SyncRank \in Nat /\ SyncRank' \in Nat
      OBVIOUS
    <2>4. QED
      BY <2>1, <2>2, <2>3
  <1>7. QED
    BY <1>1, <1>2, <1>3, <1>4, <1>5, <1>6 DEF ServicesTask

LEMMA ServicesKept ==
  ASSUME CallInv, [TelemetryNext]_telemetryVars,
         ~ServicesTask, ~Synchronise, ~PowerCut, ~Restart
  PROVE  ServicesRank' = ServicesRank
  <1>1. CASE DispenserTask
    <2>1. servicios = "done" /\ UNCHANGED servicios
      BY <1>1 DEF CallInv, DispenserTask, DoseTurns, DoseRecorded, DoseNotRecorded
    <2>2. QED
      BY <2>1 DEF ServicesRank
  <1>2. CASE ~DispenserTask
    <2>1. UNCHANGED <<servicios, sync>>
      BY <1>2 DEF TelemetryNext, MqttTask, PublishTask, Broker, Erase, ClockErased,
         telemetryVars, clockVars, bootVars
    <2>2. QED
      BY <2>1 DEF ServicesRank, SyncRank
  <1>3. QED
    BY <1>1, <1>2

(* The services task comes nearer to its end with each of its steps and of *)
(* the synchronisation it waits for, with any answer of the time server.   *)
THEOREM ServicesAreBounded == TelemetrySpec => ServicesAdvance
  <1>1. TypeInv /\ CallInv /\ [TelemetryNext]_telemetryVars =>
          [/\ servicios # "done" /\ (ServicesTask \/ Synchronise) =>
                ServicesRank' < ServicesRank
           /\ ServicesTask \/ Synchronise \/ PowerCut \/ Restart
                \/ ServicesRank' = ServicesRank]_telemetryVars
    BY ServicesStep, ServicesKept
  <1>2. QED
    BY <1>1, TypeInit, TypeNext, CallInit, CallNext, PTL DEF TelemetrySpec, ServicesAdvance
=============================================================================
