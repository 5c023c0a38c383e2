------------------------------ MODULE MqttClient ------------------------------
(***************************************************************************)
(* mqtt_cliente: the singleton client, the base topic made once from the   *)
(* ids in NVS, and the MQTT task that runs the event handler.  (Nothing in *)
(* this version registers a listener or subscribes, so no message comes.)  *)
(*                                                                         *)
(* An id is its length, which is all that decides the topic: user_id was   *)
(* cut to 63 characters when it was saved; the blob of esp_id is any       *)
(* string the app sent, the empty one too, with its NUL.                   *)
(***************************************************************************)
EXTENDS Integers, NvsStore

CONSTANTS UserLengths, EspLengths

ASSUME MqttAssumption == UserLengths \subseteq 0 .. 63 /\ EspLengths \subseteq Nat

VARIABLES
  user,           \* the length of firestore_t.user_id, or Ausente
  esp_id,         \* the length of the string "dev_info"/"esp_id", or Ausente
  creds,          \* the blob "mqtt"/"credentials"
  s_mqtt_client,  \* "none" (NULL), "created", "started"
  s_base_topic,   \* "vacia", "completa", "truncada", "sinEsp"
  conectado,      \* is there a connection to the broker?
  mpc,            \* the MQTT task: "idle", or a line of MQTT_EVENT_CONNECTED
  sensors_initialized, \* of the sensors manager: it had an esp_id at boot
  tareas,         \* publish tasks of the sensors manager
  estado,         \* the last "conectado" status: its date, or "omitida"
  tema            \* ghost: the base topic of the last message

ids == <<user, esp_id, creds>>
mqttVars == <<ids, s_mqtt_client, s_base_topic, conectado, mpc, sensors_initialized, tareas,
              estado, tema>>

Ausente == -1
User == UserLengths \cup {Ausente}
EspId == EspLengths \cup {Ausente}
Base == {"vacia", "completa", "truncada", "sinEsp", "sinUsuario"}

MqttTypeOK ==
  /\ user \in User /\ esp_id \in EspId /\ creds \in Blob
  /\ s_mqtt_client \in {"none", "created", "started"}
  /\ s_base_topic \in Base
  /\ conectado \in BOOLEAN /\ (conectado => s_mqtt_client = "started")
  /\ mpc \in {"idle", "estado", "sensores"}
  /\ sensors_initialized \in BOOLEAN
  /\ tareas \in {0, 1}
  /\ estado \in {"ninguno", "buena", "perdida", "omitida"}
  /\ tema \in Base

(* The blob of the esp_id, for the buffers of 16 bytes that load it.       *)
EspBlob(n) == IF n = Ausente THEN "absent" ELSE IF n < 16 THEN "fits" ELSE "long"

(* What a boot finds: no client, no topic, no task.                        *)
Boots ==
  /\ s_mqtt_client' = "none" /\ s_base_topic' = "vacia" /\ conectado' = FALSE
  /\ mpc' = "idle" /\ tareas' = 0 /\ estado' = "ninguno" /\ tema' = "vacia"
  /\ sensors_initialized' = LoadBlob(EspBlob(esp_id')).ok

MqttInit ==
  /\ user \in User /\ esp_id \in EspId /\ creds \in Blob
  /\ s_mqtt_client = "none" /\ s_base_topic = "vacia" /\ conectado = FALSE
  /\ mpc = "idle" /\ tareas = 0 /\ estado = "ninguno" /\ tema = "vacia"
  /\ sensors_initialized = LoadBlob(EspBlob(esp_id)).ok

-----------------------------------------------------------------------------
(* The length of the esp_id as it is loaded: one that does not fit in 16   *)
(* bytes loads as "", with ESP_OK and the length the loader was called     *)
(* with.                                                                   *)
LoadedEsp == IF LoadBlob(EspBlob(esp_id)).copied THEN esp_id ELSE 0

(* snprintf of reptritrack/<user>/<esp>, 13 characters and the ids, into   *)
(* 64 bytes.  A path that does not fit is reported, its first 63           *)
(* characters are kept.                                                    *)
PathOfIds ==
  IF 13 + user + LoadedEsp >= 64 THEN "truncada"
  ELSE IF LoadedEsp = 0 THEN "sinEsp" ELSE "completa"

(* Mutant of BaseTopic: an empty user id is not refused.                   *)
BaseTopicAnyUser ==
  IF user = Ausente \/ ~LoadBlob(EspBlob(esp_id)).ok THEN "vacia"
  ELSE IF user = 0 THEN "sinUsuario"
  ELSE PathOfIds

(* mqtt_cliente_build_base_topic.  It refuses an empty user id; of the     *)
(* esp_id it looks at the length of the blob, and the blob of an empty     *)
(* string is its NUL.                                                      *)
BaseTopic ==
  IF user \in {Ausente, 0} \/ ~LoadBlob(EspBlob(esp_id)).ok THEN "vacia"
  ELSE PathOfIds

(* mqtt_cliente_init: credentials of another size stop it; a base topic    *)
(* that cannot be made does not.  Creating or starting the client may fail.*)
ClientInit ==
  IF LoadBlob(creds).copied
    THEN s_base_topic' = BaseTopic /\ s_mqtt_client' \in {"none", "created", "started"}
    ELSE UNCHANGED <<s_base_topic, s_mqtt_client>>

(* mqtt_cliente_publish_with_base                                          *)
CanPublish == s_mqtt_client # "none" /\ s_base_topic # "vacia"

(* publish_estado_conectado, with the date it is given: no date, no        *)
(* status.  The message may be lost (QoS 0).                               *)
PublishEstado(fecha) ==
  /\ mpc = "estado"
  /\ mpc' = "sensores"
  /\ IF fecha # "sinHora" /\ CanPublish
       THEN estado' = fecha /\ tema' = s_base_topic
       ELSE /\ estado' = IF fecha = "sinHora" THEN "omitida" ELSE estado
            /\ UNCHANGED tema
  /\ UNCHANGED <<ids, s_mqtt_client, s_base_topic, conectado, sensors_initialized, tareas>>

(* Mutant of StartPublish: publish_task_handle is not looked at.           *)
StartPublishAlways ==
  /\ mpc = "sensores"
  /\ mpc' = "idle"
  /\ tareas' = IF sensors_initialized THEN tareas + 1 ELSE tareas
  /\ UNCHANGED <<ids, s_mqtt_client, s_base_topic, conectado, sensors_initialized, estado, tema>>

(* sensors_manager_start_publish, if the manager was initialised at boot;  *)
(* xTaskCreate may fail.                                                   *)
StartPublish ==
  /\ mpc = "sensores"
  /\ mpc' = "idle"
  /\ tareas' \in IF sensors_initialized /\ tareas = 0 THEN {0, 1} ELSE {tareas}
  /\ UNCHANGED <<ids, s_mqtt_client, s_base_topic, conectado, sensors_initialized, estado, tema>>

(* The publish task sends a reading, under the base topic.                 *)
PublishReading ==
  /\ tareas > 0 /\ CanPublish
  /\ tema' = s_base_topic
  /\ UNCHANGED <<ids, s_mqtt_client, s_base_topic, conectado, mpc, sensors_initialized, tareas,
                 estado>>

(* MQTT_EVENT_CONNECTED, again after every reconnection.                   *)
BrokerConnects ==
  /\ s_mqtt_client = "started" /\ ~conectado /\ mpc = "idle"
  /\ conectado' = TRUE
  /\ mpc' = "estado"
  /\ UNCHANGED <<ids, s_mqtt_client, s_base_topic, sensors_initialized, tareas, estado, tema>>

(* MQTT_EVENT_DISCONNECTED does nothing; the client reconnects by itself.  *)
BrokerDrops ==
  /\ conectado
  /\ conectado' = FALSE
  /\ UNCHANGED <<ids, s_mqtt_client, s_base_topic, mpc, sensors_initialized, tareas, estado,
                 tema>>
=============================================================================
