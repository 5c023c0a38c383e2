----------------------------- MODULE Connectivity -----------------------------
(***************************************************************************)
(* From power-up to running services: provisioning over BLE, the Wi-Fi     *)
(* event handler with its retries, the reprovisioning button, the singleton*)
(* connectivity manager and the one task that starts the services.  They   *)
(* run in five tasks (event loop, BLE, button, services, MQTT) and share   *)
(* NVS, the only state that survives a restart, if the boot does not erase *)
(* it.                                                                     *)
(*                                                                         *)
(* nvs is the set of things stored: "wifi" credentials, the "user" and     *)
(* "terrario" ids of firestore_t, "mqtt" credentials, "esp" id, and the id *)
(* of the first terrario found on line, "terrarios".                       *)
(***************************************************************************)
EXTENDS Integers

CONSTANTS
  WIFI_MAXIMUM_RETRY,
  HOLD,      \* polls of the button that make 3 s
  MaxCuts    \* bound on power cuts

ASSUME ConnectivityAssumption ==
  /\ WIFI_MAXIMUM_RETRY \in Nat
  /\ HOLD \in Nat \ {0}
  /\ MaxCuts \in Nat

VARIABLES
  nvs,
  nvsLista,    \* is NVS initialised?  nvs_flash_erase leaves it closed
  prov,        \* provisioning: "off", "waiting", "received", "ended"
  peticion,    \* the db-config request being handled
  ledBlink,    \* led_blink
  enlace,      \* the station: "off", "connecting", "ip"
  retry,       \* s_retry_num
  evento,      \* the event loop task: "idle", "wiping", "restarting", "ending"
  presion,     \* polls for which the button has been held
  boton,       \* the button task: "polling", "wiping", "restarting"
  instancia,   \* s_instance is set (it is never unset: nobody calls deinit)
  servicios,   \* wifi_services_init_task
  firestore,   \* firestore_initialized
  mqtt,        \* s_mqtt_client is started
  sensores,    \* sensors_initialized
  publica,     \* publish_task_handle is set
  actuadores,  \* dispenser_task and fetch_task run
  ap,          \* environment: can the access point be joined?
  internet,    \* environment: does it lead to the Internet?
  caidas,      \* ghost: disconnections since boot or the last IP
  lanzadas,    \* ghost: services tasks created since boot
  cortes       \* bound: power cuts

env == <<ap, internet>>
tasks == <<evento, presion, boton>>
provVars == <<prov, peticion, ledBlink>>
station == <<enlace, retry, caidas>>
manager == <<instancia, lanzadas>>
services == <<servicios, firestore, mqtt, sensores, publica, actuadores>>
store == <<nvs, nvsLista>>
vars == <<store, provVars, station, tasks, manager, services, env, cortes>>

Key == {"wifi", "user", "terrario", "mqtt", "esp", "terrarios"}
Peticion == [paso: {"none", "both", "user", "esp"},
             user: BOOLEAN, terrario: BOOLEAN, esp: BOOLEAN]
NoPeticion == [paso |-> "none", user |-> FALSE, terrario |-> FALSE, esp |-> FALSE]
ServicePC == {"none", "check", "mqtt", "firestore", "terrario", "actuators",
              "offline", "noTerrario", "done"}

(* Type invariant.  retry never passes WIFI_MAXIMUM_RETRY: a disconnection *)
(* beyond it erases and restarts (wifi_event_handler).                     *)
TypeOK ==
  /\ nvs \in SUBSET Key
  /\ nvsLista \in BOOLEAN
  /\ prov \in {"off", "waiting", "received", "ended"}
  /\ peticion \in Peticion
  /\ ledBlink \in BOOLEAN
  /\ enlace \in {"off", "connecting", "ip"}
  /\ retry \in 0 .. WIFI_MAXIMUM_RETRY
  /\ evento \in {"idle", "wiping", "restarting", "ending"}
  /\ presion \in 0 .. HOLD
  /\ boton \in {"polling", "wiping", "restarting"}
  /\ instancia \in BOOLEAN
  /\ servicios \in ServicePC
  /\ firestore \in BOOLEAN /\ mqtt \in BOOLEAN /\ sensores \in BOOLEAN
  /\ publica \in BOOLEAN /\ actuadores \in BOOLEAN
  /\ ap \in BOOLEAN /\ internet \in BOOLEAN
  /\ caidas \in 0 .. WIFI_MAXIMUM_RETRY + 1
  /\ lanzadas \in Nat
  /\ cortes \in 0 .. MaxCuts

(* A new device: NVS empty, so app_main and my_wifi_prov_startup start the *)
(* provisioning manager and the LED blinks.                                *)
Init ==
  /\ nvs = {} /\ nvsLista = TRUE
  /\ prov = "waiting" /\ peticion = NoPeticion /\ ledBlink = TRUE
  /\ enlace = "off" /\ retry = 0 /\ caidas = 0
  /\ evento = "idle" /\ presion = 0 /\ boton = "polling"
  /\ instancia = FALSE /\ lanzadas = 0
  /\ servicios = "none" /\ firestore = FALSE /\ mqtt = FALSE
  /\ sensores = FALSE /\ publica = FALSE /\ actuadores = FALSE
  /\ ap \in BOOLEAN /\ internet \in BOOLEAN
  /\ cortes = 0

(* nvs_utils_init, the first call of a boot that has an effect: it erases  *)
(* the partition if nvs_flash_init finds no free page or another version.  *)
NvsAtBoot == {nvs, {}}

(* esp_restart or a power cut, wherever the tasks are, and the boot after  *)
(* it.  With credentials in NVS, WIFI_EVENT_STA_START begins to connect;   *)
(* without them, provisioning starts.  The sensors need the esp_id.        *)
Restart ==
  /\ nvsLista' = TRUE
  /\ nvs' \in NvsAtBoot
  /\ prov' = IF "wifi" \in nvs' THEN "off" ELSE "waiting"
  /\ ledBlink' = ("wifi" \notin nvs')
  /\ enlace' = IF "wifi" \in nvs' THEN "connecting" ELSE "off"
  /\ peticion' = NoPeticion
  /\ retry' = 0 /\ caidas' = 0
  /\ evento' = "idle" /\ presion' = 0 /\ boton' = "polling"
  /\ instancia' = FALSE /\ lanzadas' = 0
  /\ servicios' = "none" /\ firestore' = FALSE /\ mqtt' = FALSE
  /\ sensores' = ("esp" \in nvs')
  /\ publica' = FALSE /\ actuadores' = FALSE
  /\ UNCHANGED env

-----------------------------------------------------------------------------
(* The BLE task: db_config_handler makes up to three saves, each of which  *)
(* may fail; it answers OK_DB_CONFIG in any case.                          *)

Serving == prov \in {"waiting", "received"} /\ peticion = NoPeticion

AppSendsDbConfig ==
  /\ Serving
  /\ \E u, t, e \in BOOLEAN :
       peticion' = [paso |-> "both", user |-> u, terrario |-> t, esp |-> e]
  /\ UNCHANGED <<store, prov, ledBlink, station, tasks, manager, services, env, cortes>>

(* nvs_utils_save_blob of a blob that replaces the keys in old by those    *)
(* in new: done, or failed (always when NVS is closed).                    *)
Save(old, new) ==
  \/ nvsLista /\ nvs' = (nvs \ old) \cup new
  \/ UNCHANGED nvs

SaveBoth ==
  /\ peticion.paso = "both"
  /\ IF peticion.user /\ peticion.terrario
       THEN Save({}, {"user", "terrario"})
       ELSE UNCHANGED nvs
  /\ peticion' = [peticion EXCEPT !.paso = "user"]
  /\ UNCHANGED <<nvsLista, prov, ledBlink, station, tasks, manager, services, env, cortes>>

(* The same blob again, its terrario_id zeroed.                            *)
SaveUser ==
  /\ peticion.paso = "user"
  /\ IF peticion.user THEN Save({"terrario"}, {"user"}) ELSE UNCHANGED nvs
  /\ peticion' = [peticion EXCEPT !.paso = "esp"]
  /\ UNCHANGED <<nvsLista, prov, ledBlink, station, tasks, manager, services, env, cortes>>

SaveEsp ==
  /\ peticion.paso = "esp"
  /\ IF peticion.esp THEN Save({}, {"esp"}) ELSE UNCHANGED nvs
  /\ peticion' = NoPeticion
  /\ UNCHANGED <<nvsLista, prov, ledBlink, station, tasks, manager, services, env, cortes>>

(* mqtt_config_handler: one save of whatever fields came.                  *)
AppSendsMqttConfig ==
  /\ Serving
  /\ Save({}, {"mqtt"})
  /\ UNCHANGED <<nvsLista, provVars, station, tasks, manager, services, env, cortes>>

(* The provisioning manager stores the credentials and connects (once: it  *)
(* refuses a second set).                                                  *)
AppSendsCredentials ==
  /\ Serving /\ prov = "waiting" /\ nvsLista
  /\ nvs' = nvs \cup {"wifi"}
  /\ prov' = "received"
  /\ enlace' = "connecting"
  /\ UNCHANGED <<nvsLista, peticion, ledBlink, retry, caidas, tasks, manager, services,
                 env, cortes>>

-----------------------------------------------------------------------------
(* The event loop: wifi_event_handler and prov_event_handler.              *)

(* Mutant of ConnManagerInit: no test of s_instance.                       *)
ConnManagerInitAlways ==
  /\ instancia' = TRUE /\ servicios' = "check" /\ lanzadas' = lanzadas + 1

(* conn_manager_init: the first call creates the services task, if there   *)
(* is memory for it.                                                       *)
ConnManagerInit ==
  IF instancia
    THEN UNCHANGED <<instancia, servicios, lanzadas>>
    ELSE /\ instancia' = TRUE
         /\ \/ servicios' = "check" /\ lanzadas' = lanzadas + 1
            \/ UNCHANGED <<servicios, lanzadas>>

(* Mutant of GotIp: s_retry_num is not cleared.                            *)
GotIpKeepingRetry ==
  /\ evento = "idle" /\ enlace = "connecting" /\ ap
  /\ enlace' = "ip"
  /\ caidas' = 0
  /\ ConnManagerInit
  /\ prov' = IF prov = "received" THEN "ended" ELSE prov
  /\ UNCHANGED <<store, retry, peticion, ledBlink, tasks, firestore, mqtt, sensores,
                 publica, actuadores, env, cortes>>

(* IP_EVENT_STA_GOT_IP; a provisioning under way has succeeded.            *)
GotIp ==
  /\ evento = "idle" /\ enlace = "connecting" /\ ap
  /\ enlace' = "ip"
  /\ retry' = 0 /\ caidas' = 0
  /\ ConnManagerInit
  /\ prov' = IF prov = "received" THEN "ended" ELSE prov
  /\ UNCHANGED <<store, peticion, ledBlink, tasks, firestore, mqtt, sensores, publica,
                 actuadores, env, cortes>>

(* Mutant of Retry: one retry too many.                                    *)
RetryOnceMore ==
  /\ evento = "idle" /\ enlace # "off" /\ retry <= WIFI_MAXIMUM_RETRY
  /\ enlace' = "connecting"
  /\ retry' = retry + 1 /\ caidas' = caidas + 1
  /\ UNCHANGED <<store, provVars, tasks, manager, services, env, cortes>>

(* WIFI_EVENT_STA_DISCONNECTED: connect again, at most WIFI_MAXIMUM_RETRY  *)
(* times between two IPs.                                                  *)
Retry ==
  /\ evento = "idle" /\ enlace # "off" /\ retry < WIFI_MAXIMUM_RETRY
  /\ enlace' = "connecting"
  /\ retry' = retry + 1 /\ caidas' = caidas + 1
  /\ UNCHANGED <<store, provVars, tasks, manager, services, env, cortes>>

(* Mutant of GiveUp: stay disconnected.                                    *)
GiveUpSilently ==
  /\ evento = "idle" /\ enlace # "off" /\ retry >= WIFI_MAXIMUM_RETRY
  /\ enlace' = "off" /\ caidas' = caidas + 1
  /\ UNCHANGED <<store, provVars, retry, tasks, manager, services, env, cortes>>

(* The next disconnection: after 1 s in which the other tasks go on, NVS   *)
(* is erased and the board restarts.                                       *)
GiveUp ==
  /\ evento = "idle" /\ enlace # "off" /\ retry >= WIFI_MAXIMUM_RETRY
  /\ enlace' = "off" /\ caidas' = caidas + 1
  /\ evento' = "wiping"
  /\ UNCHANGED <<store, provVars, retry, presion, boton, manager, services, env, cortes>>

Wipe == nvs' = {} /\ nvsLista' = FALSE

EventWipe ==
  /\ evento = "wiping"
  /\ Wipe
  /\ evento' = "restarting"
  /\ UNCHANGED <<provVars, station, presion, boton, manager, services, env, cortes>>

(* WIFI_PROV_END: the LED stops blinking, and 100 ms later a restart.      *)
ProvEnd ==
  /\ evento = "idle" /\ prov = "ended"
  /\ prov' = "off" /\ ledBlink' = FALSE
  /\ evento' = "ending"
  /\ UNCHANGED <<store, peticion, station, presion, boton, manager, services, env, cortes>>

EventRestart ==
  /\ evento \in {"restarting", "ending"}
  /\ Restart
  /\ UNCHANGED cortes

-----------------------------------------------------------------------------
(* reprov_button_task and wait_button_3s.                                  *)

ButtonHeld ==
  /\ boton = "polling" /\ presion < HOLD
  /\ presion' = presion + 1
  /\ boton' = IF presion + 1 = HOLD THEN "wiping" ELSE "polling"
  /\ UNCHANGED <<store, provVars, station, evento, manager, services, env, cortes>>

ButtonReleased ==
  /\ boton = "polling" /\ presion > 0
  /\ presion' = 0
  /\ UNCHANGED <<store, provVars, station, evento, boton, manager, services, env, cortes>>

ButtonWipe ==
  /\ boton = "wiping"
  /\ Wipe
  /\ boton' = "restarting"
  /\ UNCHANGED <<provVars, station, evento, presion, manager, services, env, cortes>>

ButtonRestart ==
  /\ boton = "restarting"
  /\ Restart
  /\ UNCHANGED cortes

-----------------------------------------------------------------------------
(* wifi_services_init_task, once per boot, whatever happens to the link.   *)

CheckInternet ==
  /\ servicios = "check"
  /\ servicios' = IF enlace = "ip" /\ internet THEN "mqtt" ELSE "offline"
  /\ UNCHANGED <<store, provVars, station, tasks, manager, firestore, mqtt, sensores,
                 publica, actuadores, env, cortes>>

(* mqtt_cliente_init returns without a client if it has no credentials.    *)
MqttInit ==
  /\ servicios = "mqtt"
  /\ mqtt' \in IF nvsLista /\ "mqtt" \in nvs THEN BOOLEAN ELSE {FALSE}
  /\ servicios' = "firestore"
  /\ UNCHANGED <<store, provVars, station, tasks, manager, firestore, sensores, publica,
                 actuadores, env, cortes>>

FirestoreInit ==
  /\ servicios = "firestore"
  /\ firestore' = (nvsLista /\ "user" \in nvs)
  /\ servicios' = "terrario"
  /\ UNCHANGED <<store, provVars, station, tasks, manager, mqtt, sensores, publica,
                 actuadores, env, cortes>>

(* firestore_check_connectivity: the first terrario found is stored.       *)
TerrarioFound ==
  /\ servicios = "terrario" /\ firestore /\ internet /\ enlace = "ip" /\ nvsLista
  /\ nvs' = nvs \cup {"terrarios"}
  /\ servicios' = "actuators"
  /\ UNCHANGED <<nvsLista, provVars, station, tasks, manager, firestore, mqtt, sensores,
                 publica, actuadores, env, cortes>>

(* Mutant of TerrarioNotFound: the result is ignored.                      *)
TerrarioIgnored ==
  /\ servicios = "terrario"
  /\ servicios' = "actuators"
  /\ UNCHANGED <<store, provVars, station, tasks, manager, firestore, mqtt, sensores,
                 publica, actuadores, env, cortes>>

(* Not initialised, no answer, no terrario, or the save failed.            *)
TerrarioNotFound ==
  /\ servicios = "terrario"
  /\ servicios' = "noTerrario"
  /\ UNCHANGED <<store, provVars, station, tasks, manager, firestore, mqtt, sensores,
                 publica, actuadores, env, cortes>>

(* actuators_manager_init and _start_all: the dispenser may fail to be     *)
(* created, initialised or started.                                        *)
StartActuators ==
  /\ servicios = "actuators"
  /\ actuadores' \in BOOLEAN
  /\ servicios' = "done"
  /\ UNCHANGED <<store, provVars, station, tasks, manager, firestore, mqtt, sensores,
                 publica, env, cortes>>

(* MQTT_EVENT_CONNECTED: sensors_manager_start_publish, once, if the task  *)
(* can be created.                                                         *)
MqttConnected ==
  /\ mqtt /\ enlace = "ip" /\ internet
  /\ publica' \in {publica, publica \/ sensores}
  /\ UNCHANGED <<store, provVars, station, tasks, manager, servicios, firestore, mqtt,
                 sensores, actuadores, env, cortes>>

-----------------------------------------------------------------------------
(* The environment.                                                        *)

NetworkChanges ==
  /\ \/ ap' = ~ap /\ UNCHANGED internet
     \/ internet' = ~internet /\ UNCHANGED ap
  /\ UNCHANGED <<store, provVars, station, tasks, manager, services, cortes>>

PowerCut ==
  /\ cortes < MaxCuts
  /\ cortes' = cortes + 1
  /\ Restart

BleTask == SaveBoth \/ SaveUser \/ SaveEsp
App == AppSendsDbConfig \/ AppSendsMqttConfig \/ AppSendsCredentials
EventLoop == GotIp \/ Retry \/ GiveUp \/ EventWipe \/ ProvEnd \/ EventRestart
ButtonTask == ButtonHeld \/ ButtonReleased \/ ButtonWipe \/ ButtonRestart
ServicesTask ==
  \/ CheckInternet \/ MqttInit \/ FirestoreInit
  \/ TerrarioFound \/ TerrarioNotFound \/ StartActuators

Next ==
  \/ BleTask \/ App \/ EventLoop \/ ButtonTask \/ ServicesTask
  \/ MqttConnected \/ NetworkChanges \/ PowerCut

Spec == Init /\ [][Next]_vars

(* The tasks that have work run.  The driver reports a disconnection for   *)
(* sure only while the access point is away.                               *)
TasksRun ==
  /\ WF_vars(BleTask) /\ WF_vars(ServicesTask)
  /\ WF_vars(GotIp \/ EventWipe \/ ProvEnd \/ EventRestart \/ (~ap /\ (Retry \/ GiveUp)))
  /\ WF_vars(ButtonWipe \/ ButtonRestart)
FairSpec == Spec /\ TasksRun

-----------------------------------------------------------------------------
(* The boot of a board with nothing stored: provisioning waits for the app *)
(* with the LED blinking, the station does not connect, the sensors stay   *)
(* down and no service runs.                                               *)
Reprovisioning ==
  /\ nvs = {} /\ nvsLista
  /\ prov = "waiting" /\ ledBlink /\ enlace = "off" /\ retry = 0
  /\ ~sensores /\ ~instancia /\ servicios = "none"

(* While the board runs, the configuration is erased only after            *)
(* WIFI_MAXIMUM_RETRY + 1 disconnections with no IP among them, or after   *)
(* the button was held for the 3 s.  The one other erase is that of        *)
(* nvs_utils_init at a boot, on a full partition or one of another         *)
(* version; that boot goes on as the first one of a new board.             *)
WipeOnlyWhenAsked ==
  [][nvs # {} /\ nvs' = {} =>
       \/ caidas = WIFI_MAXIMUM_RETRY + 1
       \/ presion = HOLD
       \/ Reprovisioning']_vars

(* However often the link comes and goes, a boot creates one services task *)
(* at most: MQTT and the actuators are not started twice.                  *)
OneServicesTask == lanzadas <= 1

(* The dispenser runs only with Firestore initialised and with the two ids *)
(* its requests need still stored, until the erase that precedes a restart.*)
ActuatorsReady ==
  actuadores => firestore /\ (nvsLista => {"user", "terrarios"} \subseteq nvs)

(* While the access point stays away the board returns to provisioning     *)
(* again and again ("forzar reprovisionamiento", app_prov.c).              *)
EventuallyReprovisions == (<>[]~ap) => []<>("wifi" \notin nvs)

(* A GOT_IP starts the manager that "levanta todos los servicios"          *)
(* (app_prov.c): the board does not stay on line with the services given   *)
(* up for lack of Internet.                                                *)
ServicesComeUp == []<>~(enlace = "ip" /\ internet /\ servicios = "offline")
=============================================================================
