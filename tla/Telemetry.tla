------------------------------- MODULE Telemetry -------------------------------
(***************************************************************************)
(* The clock and the MQTT client as the services task brings them up, and  *)
(* the dispenser that depends on the clock.  The services task asks for    *)
(* the time up to three times (conn_manager.c, actuators_manager.c,        *)
(* dispenser.c) and goes on whatever the answer; after it, only a dose     *)
(* that was recorded asks again.                                           *)
(***************************************************************************)
EXTENDS Clock, MqttClient

CONSTANT MaxRestarts   \* bound on power cuts and restarts

ASSUME TelemetryAssumption == MaxRestarts \in Nat

VARIABLES
  servicios,   \* where wifi_services_init_task is
  dispensador, \* do the tasks of the dispenser run?
  dosis,       \* has dispenser_task a dose in hand?
  primera,     \* ghost: how the first synchronisation of this boot ended
  restarts

bootVars == <<servicios, dispensador, dosis, primera, restarts>>
telemetryVars == <<clockVars, mqttVars, bootVars>>

TelemetryTypeOK ==
  /\ ClockTypeOK /\ MqttTypeOK
  /\ servicios \in {"check", "mqtt", "firestore", "dispenser", "start", "done"}
  /\ dispensador \in BOOLEAN /\ dosis \in BOOLEAN
  /\ primera \in {"pendiente", "ok", "mal"}
  /\ restarts \in 0 .. MaxRestarts

TelemetryInit ==
  /\ ClockInit /\ MqttInit
  /\ servicios = "check" /\ dispensador = FALSE /\ dosis = FALSE
  /\ primera = "pendiente" /\ restarts = 0

AsksTime == sync' = "ask" /\ UNCHANGED <<nvsAbierta, bandera, hora, corte>>

-----------------------------------------------------------------------------
(* wifi_services_init_task.  It goes on when the call has returned.        *)

CheckInternet ==
  /\ servicios = "check"
  /\ \/ servicios' = "mqtt" /\ AsksTime
     \/ servicios' = "done" /\ UNCHANGED clockVars
  /\ UNCHANGED <<mqttVars, dispensador, dosis, primera, restarts>>

(* Mutant of InitMqtt: the client is started before the time has come.     *)
InitMqttEarly ==
  /\ servicios = "mqtt"
  /\ ClientInit
  /\ servicios' = "firestore"
  /\ UNCHANGED <<clockVars, ids, conectado, mpc, sensors_initialized, tareas, estado, tema,
                 dispensador, dosis, primera, restarts>>

InitMqtt ==
  /\ servicios = "mqtt" /\ sync = "idle"
  /\ ClientInit
  /\ servicios' = "firestore"
  /\ UNCHANGED <<clockVars, ids, conectado, mpc, sensors_initialized, tareas, estado, tema,
                 dispensador, dosis, primera, restarts>>

(* firestore_init and firestore_check_connectivity; with a terrario,       *)
(* actuators_manager_register_all asks for the time again.                 *)
InitFirestore ==
  /\ servicios = "firestore" /\ sync = "idle"
  /\ \/ servicios' = "dispenser" /\ AsksTime
     \/ servicios' = "done" /\ UNCHANGED clockVars
  /\ UNCHANGED <<mqttVars, dispensador, dosis, primera, restarts>>

(* Mutant of InitDispenser: it waits for a valid time.                     *)
InitDispenserUntilValid ==
  /\ servicios = "dispenser" /\ sync = "idle"
  /\ IF HoraValida THEN servicios' = "start" /\ UNCHANGED clockVars
                   ELSE UNCHANGED servicios /\ AsksTime
  /\ UNCHANGED <<mqttVars, dispensador, dosis, primera, restarts>>

(* dispenser_actuator_init: without a valid time it asks once more.        *)
InitDispenser ==
  /\ servicios = "dispenser" /\ sync = "idle"
  /\ servicios' = "start"
  /\ IF HoraValida THEN UNCHANGED clockVars ELSE AsksTime
  /\ UNCHANGED <<mqttVars, dispensador, dosis, primera, restarts>>

(* dispenser_actuator_start, unless there was no memory for the init.      *)
StartDispenser ==
  /\ servicios = "start" /\ sync = "idle"
  /\ dispensador' \in BOOLEAN
  /\ servicios' = "done"
  /\ UNCHANGED <<clockVars, mqttVars, dosis, primera, restarts>>

-----------------------------------------------------------------------------
(* dispenser_task, as far as it uses the clock.                            *)

(* Mutant of DoseTurns: a manual dose is served without a time.            *)
DoseTurnsAnyTime ==
  /\ dispensador /\ ~dosis /\ sync = "idle"
  /\ dosis' = TRUE
  /\ UNCHANGED <<clockVars, mqttVars, servicios, dispensador, primera, restarts>>

(* check_scheduled_compartments: a dose is due; with any time, even of     *)
(* 1970, a manual one is.                                                  *)
DoseTurns ==
  /\ dispensador /\ ~dosis /\ sync = "idle"
  /\ GetCurrent # "sinHora"
  /\ dosis' = TRUE
  /\ UNCHANGED <<clockVars, mqttVars, servicios, dispensador, primera, restarts>>

(* Mutant of DoseRecorded: the time is not looked at.                      *)
DoseRecordedOnly ==
  /\ dosis
  /\ dosis' = FALSE
  /\ UNCHANGED <<clockVars, mqttVars, servicios, dispensador, primera, restarts>>

(* dispenser_motor_stop after an update that succeeded.                    *)
DoseRecorded ==
  /\ dosis
  /\ dosis' = FALSE
  /\ IF HoraValida THEN UNCHANGED clockVars ELSE AsksTime
  /\ UNCHANGED <<mqttVars, servicios, dispensador, primera, restarts>>

(* All attempts to update failed.                                          *)
DoseNotRecorded ==
  /\ dosis
  /\ dosis' = FALSE
  /\ UNCHANGED <<clockVars, mqttVars, servicios, dispensador, primera, restarts>>

-----------------------------------------------------------------------------
Synchronise ==
  /\ ClockStep
  /\ primera' = IF primera = "pendiente" /\ sync' = "idle"
                  THEN IF sync = "flag" /\ Synchronised' THEN "ok" ELSE "mal"
                  ELSE primera
  /\ UNCHANGED <<mqttVars, servicios, dispensador, dosis, restarts>>

MqttTask ==
  /\ PublishEstado(GetCurrent) \/ StartPublish
  /\ UNCHANGED <<clockVars, bootVars>>

PublishTask == PublishReading /\ UNCHANGED <<clockVars, bootVars>>

Broker ==
  /\ BrokerConnects \/ BrokerDrops
  /\ UNCHANGED <<clockVars, bootVars>>

(* The ids a boot finds: those of before, or after an erase (of a running  *)
(* board or of the boot itself) those of a new provisioning.               *)
IdsAtBoot(borra) ==
  IF nvsAbierta /\ ~borra
    THEN UNCHANGED ids
    ELSE user' \in User /\ esp_id' \in EspId /\ creds' \in Blob

Reboot(borra) ==
  /\ restarts < MaxRestarts
  /\ restarts' = restarts + 1
  /\ IdsAtBoot(borra) /\ Boots
  /\ servicios' = "check" /\ dispensador' = FALSE /\ dosis' = FALSE
  /\ primera' = "pendiente"

PowerCut == \E borra \in BOOLEAN : Reboot(borra) /\ ClockLosesPower(borra)

(* esp_restart, at the end of provisioning or after an erase.              *)
Restart == \E borra \in BOOLEAN : Reboot(borra) /\ ClockRestarts(borra)

(* nvs_flash_erase, up to a second before the restart.                     *)
Erase ==
  /\ nvsAbierta /\ restarts < MaxRestarts
  /\ ClockErased
  /\ user' = Ausente /\ esp_id' = Ausente /\ creds' = "absent"
  /\ UNCHANGED <<s_mqtt_client, s_base_topic, conectado, mpc, sensors_initialized, tareas,
                 estado, tema, bootVars>>

ServicesTask ==
  CheckInternet \/ InitMqtt \/ InitFirestore \/ InitDispenser \/ StartDispenser

DispenserTask == DoseTurns \/ DoseRecorded \/ DoseNotRecorded

TelemetryNext ==
  \/ ServicesTask \/ DispenserTask \/ Synchronise
  \/ MqttTask \/ PublishTask \/ Broker
  \/ PowerCut \/ Restart \/ Erase

(* The task that called for the time and the services task run; each       *)
(* request of theirs has a time limit.                                     *)
TelemetrySpec ==
  /\ TelemetryInit /\ [][TelemetryNext]_telemetryVars
  /\ WF_telemetryVars(ServicesTask) /\ WF_telemetryVars(Synchronise)

(* Doses come, and the servers answer now and then.                        *)
Fortune ==
  /\ SF_telemetryVars(DoseTurns)
  /\ SF_telemetryVars(DoseRecorded)
  /\ SF_telemetryVars(Synchronise /\ SyncAnswers)

-----------------------------------------------------------------------------
(* rtc_time_get_current gives a false time only if power was lost since    *)
(* the time was last set: a synchronisation that failed or was cut short   *)
(* anywhere never leaves the flag without the time.                        *)
FlagVouches == GetCurrent = "perdida" => corte

(* The "conectado" status is left out, or has the date of 1970, only if    *)
(* the first synchronisation of the boot failed (or NVS is being erased):  *)
(* the handler runs in another task, on the first connection, and nothing  *)
(* publishes the status again when the time comes later.                   *)
StatusDated ==
  nvsAbierta /\ primera = "ok" => estado \notin {"omitida", "perdida"}

(* Messages go to the whole path reptritrack/<user>/<esp> exactly when the *)
(* ids stored have at least a character each, the esp_id at most 15, and   *)
(* both together at most 50.  Else they go to a path without its esp_id,   *)
(* or cut at 63 characters, and never to one without its user id.          *)
TopicOfDevice ==
  nvsAbierta =>
    \/ tema = "vacia"
    \/ /\ user >= 1
       /\ tema = "completa" <=> esp_id \in 1 .. 15 /\ user + esp_id <= 50

(* The services task is over and the clock has no flag: only a recorded    *)
(* dose asks for the time, and without a time there is no dose.            *)
SinHora ==
  servicios = "done" /\ sync = "idle" /\ ~dosis /\ bandera = "absent"

(* A board left without a time stays so until it restarts, however well    *)
(* the network works by then: not even a manual dose is served.            *)
StuckWithoutTime == [][SinHora => SinHora' \/ PowerCut \/ Restart]_telemetryVars

(* A board whose flag outlived its time serves manual doses, and the first *)
(* one that is recorded brings the time back.                              *)
LostTimeRecovered ==
  Fortune =>
    (dispensador /\ bandera = "fits" /\ hora = "perdida")
      ~> (hora = "buena" \/ ~dispensador \/ bandera = "absent")

(* The services task ends, whatever the time server answers.               *)
ServicesEnd == servicios = "check" ~> servicios = "done"
=============================================================================
