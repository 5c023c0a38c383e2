-------------------------- MODULE ConnectivityProofs --------------------------
(***************************************************************************)
(* Three safety properties of Connectivity, for every number of retries,   *)
(* every length of the hold and every number of power cuts.                *)
(*                                                                         *)
(* Each invariant ties the property to the program counter of the task     *)
(* that could break it: between the decision to erase and the erase, the   *)
(* event loop and the button task do nothing else, so the counter that     *)
(* justified the decision still stands; and the services task, created     *)
(* once per boot, passes through its steps in one direction only.          *)
(***************************************************************************)
EXTENDS Connectivity, TLAPS

WipeInv ==
  /\ retry \in 0 .. WIFI_MAXIMUM_RETRY
  /\ evento \in {"idle", "ending"} => caidas = retry
  /\ evento = "wiping" => caidas = WIFI_MAXIMUM_RETRY + 1
  /\ boton = "wiping" => presion = HOLD

ServicesInv ==
  /\ lanzadas \in {0, 1}
  /\ ~instancia => lanzadas = 0 /\ servicios = "none"
  /\ actuadores => servicios = "done"

Stored(keys) == nvsLista => keys \subseteq nvs

ReadyInv ==
  /\ servicios = "terrario" /\ firestore => Stored({"user"})
  /\ servicios = "actuators" => firestore /\ Stored({"user", "terrarios"})
  /\ actuadores => firestore /\ Stored({"user", "terrarios"})

(***************************************************************************)
(* Wiping.                                                                 *)
(***************************************************************************)

(* A boot begins with the counters of a board that gave up nothing yet.    *)
LEMMA WipeInvRestart == Restart => WipeInv'
  BY ConnectivityAssumption DEF Restart, NvsAtBoot, WipeInv

LEMMA WipeInvNext == WipeInv /\ [Next]_vars => WipeInv'
<1> SUFFICES ASSUME WipeInv, [Next]_vars
             PROVE  WipeInv'
  OBVIOUS
<1> USE ConnectivityAssumption
<1>1. CASE BleTask \/ App
  BY <1>1 DEF WipeInv, BleTask, App, SaveBoth, SaveUser, SaveEsp, AppSendsDbConfig,
              AppSendsMqttConfig, AppSendsCredentials, tasks, station
<1>2. CASE ServicesTask \/ MqttConnected \/ NetworkChanges
  BY <1>2 DEF WipeInv, ServicesTask, CheckInternet, MqttInit, FirestoreInit,
              TerrarioFound, TerrarioNotFound, StartActuators, MqttConnected,
              NetworkChanges, tasks, station
<1>3. CASE GotIp \/ Retry \/ GiveUp
  BY <1>3 DEF WipeInv, GotIp, Retry, GiveUp, tasks
<1>4. CASE EventWipe \/ ProvEnd
  BY <1>4 DEF WipeInv, EventWipe, ProvEnd, station
<1>5. CASE ButtonHeld \/ ButtonReleased \/ ButtonWipe
  BY <1>5 DEF WipeInv, ButtonHeld, ButtonReleased, ButtonWipe, station
<1>6. CASE EventRestart \/ ButtonRestart \/ PowerCut
  BY <1>6, WipeInvRestart DEF EventRestart, ButtonRestart, PowerCut
<1>7. CASE UNCHANGED vars
  BY <1>7 DEF WipeInv, vars, tasks, station
<1> QED
  BY <1>1, <1>2, <1>3, <1>4, <1>5, <1>6, <1>7 DEF Next, EventLoop, ButtonTask

(* A boot that finds NVS empty, or erases it, starts provisioning.         *)
LEMMA EmptyBoot == Restart /\ nvs' = {} => Reprovisioning'
<1> SUFFICES ASSUME Restart, nvs' = {}
             PROVE  Reprovisioning'
  OBVIOUS
<1>1. "wifi" \notin nvs' /\ ("esp" \in nvs') = FALSE
  OBVIOUS
<1>2. /\ nvsLista' /\ prov' = "waiting" /\ enlace' = "off" /\ retry' = 0
      /\ ~instancia' /\ servicios' = "none"
  BY <1>1, Zenon DEF Restart, NvsAtBoot
<1>3. ledBlink' /\ ~sensores'
  BY <1>1, Zenon DEF Restart, NvsAtBoot
<1> QED
  BY <1>2, <1>3 DEF Reprovisioning

(* Only the two erases of a running board and the boot take nvs from       *)
(* something to nothing: every save leaves at least what it saved.         *)
LEMMA WipeStep ==
  WipeInv /\ [Next]_vars /\ nvs # {} /\ nvs' = {} =>
    caidas = WIFI_MAXIMUM_RETRY + 1 \/ presion = HOLD \/ Reprovisioning'
<1> SUFFICES ASSUME WipeInv, [Next]_vars, nvs # {}, nvs' = {}
             PROVE  caidas = WIFI_MAXIMUM_RETRY + 1 \/ presion = HOLD \/ Reprovisioning'
  OBVIOUS
<1>1. CASE BleTask \/ App
  BY <1>1 DEF BleTask, App, SaveBoth, SaveUser, SaveEsp, Save, AppSendsDbConfig,
              AppSendsMqttConfig, AppSendsCredentials, store
<1>2. CASE ServicesTask \/ MqttConnected \/ NetworkChanges
  BY <1>2 DEF ServicesTask, CheckInternet, MqttInit, FirestoreInit, TerrarioFound,
              TerrarioNotFound, StartActuators, MqttConnected, NetworkChanges, store
<1>3. CASE GotIp \/ Retry \/ GiveUp \/ ProvEnd \/ ButtonHeld \/ ButtonReleased
  BY <1>3 DEF GotIp, Retry, GiveUp, ProvEnd, ButtonHeld, ButtonReleased, store
<1>4. CASE EventWipe \/ ButtonWipe
  BY <1>4 DEF EventWipe, ButtonWipe, WipeInv
<1>5. CASE EventRestart \/ ButtonRestart \/ PowerCut
  BY <1>5, EmptyBoot DEF EventRestart, ButtonRestart, PowerCut
<1>6. CASE UNCHANGED vars
  BY <1>6 DEF vars, store
<1> QED
  BY <1>1, <1>2, <1>3, <1>4, <1>5, <1>6 DEF Next, EventLoop, ButtonTask

(* The configuration is lost only to WIFI_MAXIMUM_RETRY + 1 disconnections *)
(* in a row, to the button held for its full time, or to the erase of      *)
(* nvs_utils_init, and then the board boots into provisioning.             *)
THEOREM ErasedOnlyWhenAsked == Spec => WipeOnlyWhenAsked
<1>1. Init => WipeInv
  BY ConnectivityAssumption DEF Init, WipeInv
<1>2. WipeInv /\ [Next]_vars =>
        [nvs # {} /\ nvs' = {} =>
           \/ caidas = WIFI_MAXIMUM_RETRY + 1
           \/ presion = HOLD
           \/ Reprovisioning']_vars
  BY WipeStep
<1> QED
  BY <1>1, <1>2, WipeInvNext, PTL DEF Spec, WipeOnlyWhenAsked

(***************************************************************************)
(* The services task.                                                      *)
(***************************************************************************)

LEMMA ServicesInvNext == ServicesInv /\ [Next]_vars => ServicesInv'
<1> SUFFICES ASSUME ServicesInv, [Next]_vars
             PROVE  ServicesInv'
  OBVIOUS
<1>1. CASE BleTask \/ App
  BY <1>1 DEF ServicesInv, BleTask, App, SaveBoth, SaveUser, SaveEsp,
              AppSendsDbConfig, AppSendsMqttConfig, AppSendsCredentials, manager,
              services
<1>2. CASE ServicesTask
  <2>1. UNCHANGED manager /\ servicios # "none"
    BY <1>2 DEF ServicesTask, CheckInternet, MqttInit, FirestoreInit, TerrarioFound,
                TerrarioNotFound, StartActuators
  <2>2. CASE StartActuators
    BY <2>1, <2>2 DEF ServicesInv, StartActuators, manager
  <2>3. CASE ~StartActuators
    <3>1. actuadores' = actuadores /\ servicios # "done"
      BY <1>2, <2>3 DEF ServicesTask, CheckInternet, MqttInit, FirestoreInit,
                        TerrarioFound, TerrarioNotFound
    <3> QED
      BY <2>1, <3>1 DEF ServicesInv, manager
  <2> QED
    BY <2>2, <2>3
<1>3. CASE GotIp
  BY <1>3 DEF ServicesInv, GotIp, ConnManagerInit
<1>4. CASE Retry \/ GiveUp \/ EventWipe \/ ProvEnd \/ MqttConnected \/ NetworkChanges
  BY <1>4 DEF ServicesInv, Retry, GiveUp, EventWipe, ProvEnd, MqttConnected,
              NetworkChanges, manager, services
<1>5. CASE ButtonHeld \/ ButtonReleased \/ ButtonWipe
  BY <1>5 DEF ServicesInv, ButtonHeld, ButtonReleased, ButtonWipe, manager, services
<1>6. CASE EventRestart \/ ButtonRestart \/ PowerCut
  BY <1>6 DEF ServicesInv, EventRestart, ButtonRestart, PowerCut, Restart, NvsAtBoot
<1>7. CASE UNCHANGED vars
  BY <1>7 DEF ServicesInv, vars, manager, services
<1> QED
  BY <1>1, <1>2, <1>3, <1>4, <1>5, <1>6, <1>7 DEF Next, EventLoop, ButtonTask

LEMMA ServicesInvInit == Init => ServicesInv
  BY DEF Init, ServicesInv

(* One boot never starts the services twice, however the link behaves.     *)
THEOREM ServicesStartedOnce == Spec => []OneServicesTask
<1>1. ServicesInv => OneServicesTask
  BY DEF ServicesInv, OneServicesTask
<1> QED
  BY <1>1, ServicesInvInit, ServicesInvNext, PTL DEF Spec

LEMMA ReadyInvNext == ServicesInv /\ ReadyInv /\ [Next]_vars => ReadyInv'
<1> SUFFICES ASSUME ServicesInv, ReadyInv, [Next]_vars
             PROVE  ReadyInv'
  OBVIOUS
<1>1. CASE BleTask
  BY <1>1 DEF ReadyInv, Stored, BleTask, SaveBoth, SaveUser, SaveEsp, Save, services
<1>2. CASE App
  BY <1>2 DEF ReadyInv, Stored, App, AppSendsDbConfig, AppSendsMqttConfig,
              AppSendsCredentials, Save, services, store
<1>3. CASE ServicesTask
  <2>1. CASE CheckInternet \/ TerrarioNotFound
    BY <2>1 DEF ReadyInv, ServicesInv, Stored, CheckInternet, TerrarioNotFound, store
  <2>2. CASE MqttInit
    BY <2>2 DEF ReadyInv, ServicesInv, Stored, MqttInit, store
  <2>3. CASE FirestoreInit
    <3>1. ~actuadores' /\ servicios' = "terrario"
      BY <2>3 DEF ServicesInv, FirestoreInit
    <3>2. firestore' => "user" \in nvs'
      BY <2>3, Zenon DEF FirestoreInit, store
    <3> QED
      BY <3>1, <3>2 DEF ReadyInv, Stored
  <2>4. CASE TerrarioFound
    <3>1. ~actuadores' /\ servicios' = "actuators" /\ firestore'
      BY <2>4 DEF ServicesInv, TerrarioFound
    <3>2. {"user", "terrarios"} \subseteq nvs'
      BY <2>4 DEF TerrarioFound, ReadyInv, Stored
    <3> QED
      BY <3>1, <3>2 DEF ReadyInv, Stored
  <2>5. CASE StartActuators
    <3>1. firestore /\ Stored({"user", "terrarios"})
      BY <2>5 DEF ReadyInv, StartActuators
    <3> QED
      BY <2>5, <3>1 DEF ReadyInv, Stored, StartActuators, store
  <2> QED
    BY <1>3, <2>1, <2>2, <2>3, <2>4, <2>5 DEF ServicesTask
<1>4. CASE GotIp
  BY <1>4 DEF ReadyInv, ServicesInv, Stored, GotIp, ConnManagerInit, store
<1>5. CASE Retry \/ GiveUp \/ ProvEnd \/ MqttConnected \/ NetworkChanges
  BY <1>5 DEF ReadyInv, Stored, Retry, GiveUp, ProvEnd, MqttConnected,
              NetworkChanges, services, store
<1>6. CASE ButtonHeld \/ ButtonReleased
  BY <1>6 DEF ReadyInv, Stored, ButtonHeld, ButtonReleased, services, store
<1>7. CASE EventWipe \/ ButtonWipe
  BY <1>7 DEF ReadyInv, Stored, EventWipe, ButtonWipe, Wipe, services
<1>8. CASE EventRestart \/ ButtonRestart \/ PowerCut
  BY <1>8 DEF ReadyInv, EventRestart, ButtonRestart, PowerCut, Restart, NvsAtBoot
<1>9. CASE UNCHANGED vars
  BY <1>9 DEF ReadyInv, Stored, vars, services, store
<1> QED
  BY <1>1, <1>2, <1>3, <1>4, <1>5, <1>6, <1>7, <1>8, <1>9 DEF Next, EventLoop, ButtonTask

(* The dispenser never runs without what its requests need.                *)
THEOREM DispenserStartsReady == Spec => []ActuatorsReady
<1>1. Init => ReadyInv
  BY DEF Init, ReadyInv
<1>2. ReadyInv => ActuatorsReady
  BY DEF ReadyInv, Stored, ActuatorsReady
<1> QED
  BY <1>1, <1>2, ServicesInvInit, ServicesInvNext, ReadyInvNext, PTL DEF Spec

(***************************************************************************)
(* Types.  The counters stay in their range because of WipeInv and         *)
(* ServicesInv; the rest of the state is split by the task that writes it. *)
(***************************************************************************)

StoreTypes ==
  /\ nvs \in SUBSET Key /\ nvsLista \in BOOLEAN
  /\ peticion \in Peticion

LinkTypes ==
  /\ prov \in {"off", "waiting", "received", "ended"}
  /\ ledBlink \in BOOLEAN
  /\ enlace \in {"off", "connecting", "ip"}
  /\ evento \in {"idle", "wiping", "restarting", "ending"}
  /\ presion \in 0 .. HOLD
  /\ boton \in {"polling", "wiping", "restarting"}
  /\ boton = "polling" => presion < HOLD
  /\ caidas \in 0 .. WIFI_MAXIMUM_RETRY + 1
  /\ cortes \in 0 .. MaxCuts

ServiceTypes ==
  /\ instancia \in BOOLEAN
  /\ servicios \in ServicePC
  /\ firestore \in BOOLEAN /\ mqtt \in BOOLEAN /\ sensores \in BOOLEAN
  /\ publica \in BOOLEAN /\ actuadores \in BOOLEAN
  /\ ap \in BOOLEAN /\ internet \in BOOLEAN

LEMMA NoPeticionType == NoPeticion \in Peticion
  BY DEF NoPeticion, Peticion

LEMMA StoreTypesNext == StoreTypes /\ [Next]_vars => StoreTypes'
<1> SUFFICES ASSUME StoreTypes, [Next]_vars
             PROVE  StoreTypes'
  OBVIOUS
<1>1. CASE BleTask
  <2>1. nvs' \in SUBSET Key
    BY <1>1 DEF StoreTypes, Key, BleTask, SaveBoth, SaveUser, SaveEsp, Save
  <2>2. nvsLista' = nvsLista
    BY <1>1 DEF BleTask, SaveBoth, SaveUser, SaveEsp
  <2>3. peticion' \in Peticion
    <3>1. CASE SaveBoth
      BY <3>1 DEF StoreTypes, SaveBoth, Peticion
    <3>2. CASE SaveUser
      BY <3>2 DEF StoreTypes, SaveUser, Peticion
    <3>3. CASE SaveEsp
      BY <3>3, NoPeticionType DEF SaveEsp
    <3> QED
      BY <1>1, <3>1, <3>2, <3>3 DEF BleTask
  <2> QED
    BY <2>1, <2>2, <2>3 DEF StoreTypes
<1>2. CASE AppSendsDbConfig
  BY <1>2 DEF StoreTypes, AppSendsDbConfig, Peticion, store
<1>3. CASE AppSendsMqttConfig \/ AppSendsCredentials
  BY <1>3 DEF StoreTypes, Key, AppSendsMqttConfig, AppSendsCredentials, Save, provVars
<1>4. CASE ServicesTask \/ MqttConnected \/ NetworkChanges
  BY <1>4 DEF StoreTypes, Key, ServicesTask, CheckInternet, MqttInit, FirestoreInit,
              TerrarioFound, TerrarioNotFound, StartActuators, MqttConnected,
              NetworkChanges, store, provVars
<1>5. CASE GotIp \/ Retry \/ GiveUp \/ ProvEnd \/ ButtonHeld \/ ButtonReleased
  BY <1>5 DEF StoreTypes, GotIp, Retry, GiveUp, ProvEnd, ButtonHeld, ButtonReleased,
              store, provVars
<1>6. CASE EventWipe \/ ButtonWipe
  BY <1>6 DEF StoreTypes, EventWipe, ButtonWipe, Wipe, provVars
<1>7. CASE EventRestart \/ ButtonRestart \/ PowerCut
  <2>1. Restart
    BY <1>7 DEF EventRestart, ButtonRestart, PowerCut
  <2>2. nvsLista' \in BOOLEAN
    BY <2>1, Zenon DEF Restart, NvsAtBoot
  <2> QED
    BY <2>1, <2>2, NoPeticionType DEF StoreTypes, Restart, NvsAtBoot
<1>8. CASE UNCHANGED vars
  BY <1>8 DEF StoreTypes, vars, store, provVars
<1> QED
  BY <1>1, <1>2, <1>3, <1>4, <1>5, <1>6, <1>7, <1>8 DEF Next, App, EventLoop, ButtonTask

LEMMA LinkTypesNext == WipeInv /\ LinkTypes /\ [Next]_vars => LinkTypes'
<1> SUFFICES ASSUME WipeInv, LinkTypes, [Next]_vars
             PROVE  LinkTypes'
  OBVIOUS
<1> USE ConnectivityAssumption
<1>1. CASE BleTask \/ App
  BY <1>1 DEF LinkTypes, BleTask, App, SaveBoth, SaveUser, SaveEsp, AppSendsDbConfig,
              AppSendsMqttConfig, AppSendsCredentials, tasks, station, provVars
<1>2. CASE ServicesTask \/ MqttConnected \/ NetworkChanges
  BY <1>2 DEF LinkTypes, ServicesTask, CheckInternet, MqttInit, FirestoreInit,
              TerrarioFound, TerrarioNotFound, StartActuators, MqttConnected,
              NetworkChanges, tasks, station, provVars
<1>3. CASE GotIp
  BY <1>3 DEF LinkTypes, GotIp, tasks
<1>4. CASE Retry \/ GiveUp
  <2>1. caidas = retry /\ caidas' = caidas + 1
    BY <1>4 DEF WipeInv, Retry, GiveUp
  <2>2. caidas' \in 0 .. WIFI_MAXIMUM_RETRY + 1
    BY <2>1 DEF WipeInv
  <2> QED
    BY <1>4, <2>2 DEF LinkTypes, Retry, GiveUp, tasks, provVars
<1>5. CASE EventWipe \/ ProvEnd
  BY <1>5 DEF LinkTypes, EventWipe, ProvEnd, station, provVars
<1>6. CASE ButtonHeld \/ ButtonReleased \/ ButtonWipe
  BY <1>6 DEF LinkTypes, ButtonHeld, ButtonReleased, ButtonWipe, station, provVars
<1>7. CASE EventRestart \/ ButtonRestart \/ PowerCut
  <2>1. Restart /\ cortes' \in 0 .. MaxCuts
    BY <1>7 DEF LinkTypes, EventRestart, ButtonRestart, PowerCut
  <2>2. ledBlink' \in BOOLEAN
    <3>1. ledBlink' = ("wifi" \notin nvs')
      BY <2>1, Zenon DEF Restart, NvsAtBoot
    <3> QED
      BY <3>1, Zenon
  <2> QED
    BY <2>1, <2>2 DEF LinkTypes, Restart, NvsAtBoot
<1>8. CASE UNCHANGED vars
  BY <1>8 DEF LinkTypes, vars, tasks, station, provVars
<1> QED
  BY <1>1, <1>2, <1>3, <1>4, <1>5, <1>6, <1>7, <1>8 DEF Next, EventLoop, ButtonTask

LEMMA ServiceTypesNext == ServiceTypes /\ [Next]_vars => ServiceTypes'
<1> SUFFICES ASSUME ServiceTypes, [Next]_vars
             PROVE  ServiceTypes'
  OBVIOUS
<1> USE DEF ServiceTypes, ServicePC
<1>1. CASE BleTask \/ App
  BY <1>1 DEF BleTask, App, SaveBoth, SaveUser, SaveEsp, AppSendsDbConfig,
              AppSendsMqttConfig, AppSendsCredentials, manager, services, env
<1>2. CASE CheckInternet
  BY <1>2 DEF CheckInternet, manager, env
<1>3. CASE MqttInit
  <2>1. mqtt' \in BOOLEAN
    BY <1>3, Zenon DEF MqttInit
  <2> QED
    BY <1>3, <2>1 DEF MqttInit, manager, env
<1>4. CASE FirestoreInit
  <2>1. firestore' \in BOOLEAN
    BY <1>4, Zenon DEF FirestoreInit
  <2> QED
    BY <1>4, <2>1 DEF FirestoreInit, manager, env
<1>5. CASE TerrarioFound \/ TerrarioNotFound \/ StartActuators
  BY <1>5 DEF TerrarioFound, TerrarioNotFound, StartActuators, manager, env
<1>6. CASE MqttConnected
  <2>1. publica' \in BOOLEAN
    BY <1>6, Zenon DEF MqttConnected
  <2> QED
    BY <1>6, <2>1 DEF MqttConnected, manager, env
<1>7. CASE NetworkChanges
  <2>1. ap' \in BOOLEAN /\ internet' \in BOOLEAN
    BY <1>7, Zenon DEF NetworkChanges
  <2> QED
    BY <1>7, <2>1 DEF NetworkChanges, manager, services
<1>8. CASE GotIp
  BY <1>8 DEF GotIp, ConnManagerInit, env
<1>9. CASE Retry \/ GiveUp \/ EventWipe \/ ProvEnd
  BY <1>9 DEF Retry, GiveUp, EventWipe, ProvEnd, manager, services, env
<1>10. CASE ButtonHeld \/ ButtonReleased \/ ButtonWipe
  BY <1>10 DEF ButtonHeld, ButtonReleased, ButtonWipe, manager, services, env
<1>11. CASE EventRestart \/ ButtonRestart \/ PowerCut
  <2>1. Restart
    BY <1>11 DEF EventRestart, ButtonRestart, PowerCut
  <2>2. sensores' \in BOOLEAN
    <3>1. ("esp" \in nvs') \in BOOLEAN
      BY SMT
    <3>2. sensores' = ("esp" \in nvs')
      BY <2>1, Zenon DEF Restart, NvsAtBoot
    <3> QED
      BY <3>1, <3>2, Zenon
  <2> QED
    BY <2>1, <2>2 DEF Restart, NvsAtBoot, env
<1>12. CASE UNCHANGED vars
  BY <1>12 DEF vars, manager, services, env
<1> QED
  BY <1>1, <1>2, <1>3, <1>4, <1>5, <1>6, <1>7, <1>8, <1>9, <1>10, <1>11, <1>12
  DEF Next, EventLoop, ButtonTask, ServicesTask

(* Each variable keeps its type, the retry and disconnection counters      *)
(* their range, for any number of retries and any length of the hold.      *)
THEOREM ConnectivityTypeCorrect == Spec => []TypeOK
<1>1. ASSUME Init PROVE WipeInv /\ StoreTypes /\ LinkTypes /\ ServiceTypes
  <2> USE <1>1, ConnectivityAssumption
  <2>1. WipeInv
    BY DEF Init, WipeInv
  <2>2. /\ nvsLista \in BOOLEAN /\ ledBlink \in BOOLEAN
        /\ instancia \in BOOLEAN /\ firestore \in BOOLEAN /\ mqtt \in BOOLEAN
        /\ sensores \in BOOLEAN /\ publica \in BOOLEAN /\ actuadores \in BOOLEAN
    BY Zenon DEF Init
  <2>3. StoreTypes
    BY <2>2, NoPeticionType DEF Init, StoreTypes
  <2>4. LinkTypes
    BY <2>2 DEF Init, LinkTypes
  <2>5. ServiceTypes
    BY <2>2 DEF Init, ServiceTypes, ServicePC
  <2> QED
    BY <2>1, <2>3, <2>4, <2>5
<1>2. WipeInv /\ ServicesInv /\ StoreTypes /\ LinkTypes /\ ServiceTypes => TypeOK
  BY DEF WipeInv, ServicesInv, StoreTypes, LinkTypes, ServiceTypes, TypeOK
<1> QED
  BY <1>1, <1>2, WipeInvNext, ServicesInvInit, ServicesInvNext, StoreTypesNext,
     LinkTypesNext, ServiceTypesNext, PTL
  DEF Spec
(***************************************************************************)
(* What an erase leads to, and what the services task leaves behind it.    *)
(* These are the safety cores of EventuallyReprovisions and the reason why *)
(* ServicesComeUp fails, step by step and for every value of the constants.*)
(***************************************************************************)

(* Between an erase and the restart NVS is closed, so no save of another   *)
(* task fills it again.                                                    *)
ErasedInv ==
  /\ ~nvsLista => nvs = {}
  /\ evento = "restarting" \/ boton = "restarting" => ~nvsLista

LEMMA ErasedInvNext == ErasedInv /\ [Next]_vars => ErasedInv'
<1> SUFFICES ASSUME ErasedInv, [Next]_vars
             PROVE  ErasedInv'
  OBVIOUS
<1>1. CASE BleTask
  BY <1>1 DEF ErasedInv, BleTask, SaveBoth, SaveUser, SaveEsp, Save, tasks
<1>2. CASE App
  BY <1>2 DEF ErasedInv, App, AppSendsDbConfig, AppSendsMqttConfig,
              AppSendsCredentials, Save, tasks, store
<1>3. CASE ServicesTask \/ MqttConnected \/ NetworkChanges
  <2>1. CASE TerrarioFound
    BY <2>1, Zenon DEF ErasedInv, TerrarioFound, tasks
  <2>2. CASE ~TerrarioFound
    <3>1. UNCHANGED <<store, tasks>>
      BY <1>3, <2>2 DEF ServicesTask, CheckInternet, MqttInit, FirestoreInit,
                        TerrarioNotFound, StartActuators, MqttConnected, NetworkChanges
    <3> QED
      BY <3>1 DEF ErasedInv, tasks, store
  <2> QED
    BY <2>1, <2>2
<1>4. CASE GotIp \/ Retry
  BY <1>4 DEF ErasedInv, GotIp, Retry, tasks, store
<1>5. CASE GiveUp \/ ProvEnd \/ ButtonHeld \/ ButtonReleased
  BY <1>5 DEF ErasedInv, GiveUp, ProvEnd, ButtonHeld, ButtonReleased, store
<1>6. CASE EventWipe \/ ButtonWipe
  BY <1>6 DEF ErasedInv, EventWipe, ButtonWipe, Wipe
<1>7. CASE EventRestart \/ ButtonRestart \/ PowerCut
  BY <1>7 DEF ErasedInv, EventRestart, ButtonRestart, PowerCut, Restart, NvsAtBoot
<1>8. CASE UNCHANGED vars
  BY <1>8 DEF ErasedInv, vars, tasks, store
<1> QED
  BY <1>1, <1>2, <1>3, <1>4, <1>5, <1>6, <1>7, <1>8 DEF Next, EventLoop, ButtonTask

(* An erase by the event handler or by the button leads to provisioning.   *)
(* NVS stays empty until the board restarts, however many saves the app or *)
(* the services task try in the second before it, and the boot that opens  *)
(* it again, also one after a power cut, starts provisioning.              *)
THEOREM ErasedBoardReprovisions ==
  Spec => /\ [](evento = "restarting" \/ boton = "restarting" => nvs = {})
          /\ [][~nvsLista /\ nvsLista' => Reprovisioning']_vars
<1>1. Init => ErasedInv
  BY DEF Init, ErasedInv
<1>2. ErasedInv => (evento = "restarting" \/ boton = "restarting" => nvs = {})
  BY DEF ErasedInv
<1>3. ErasedInv /\ [Next]_vars => [~nvsLista /\ nvsLista' => Reprovisioning']_vars
  <2> SUFFICES ASSUME ErasedInv, [Next]_vars, ~nvsLista, nvsLista'
               PROVE  Reprovisioning'
    OBVIOUS
  <2>1. nvs = {}
    BY DEF ErasedInv
  <2>2. CASE BleTask \/ App
    BY <2>2 DEF BleTask, SaveBoth, SaveUser, SaveEsp, App, AppSendsDbConfig,
                AppSendsMqttConfig, AppSendsCredentials, store
  <2>3. CASE ServicesTask \/ MqttConnected \/ NetworkChanges
    BY <2>3 DEF ServicesTask, CheckInternet, MqttInit, FirestoreInit, TerrarioFound,
                TerrarioNotFound, StartActuators, MqttConnected, NetworkChanges, store
  <2>4. CASE GotIp \/ Retry \/ GiveUp \/ ProvEnd \/ ButtonHeld \/ ButtonReleased
    BY <2>4 DEF GotIp, Retry, GiveUp, ProvEnd, ButtonHeld, ButtonReleased, store
  <2>5. CASE EventWipe \/ ButtonWipe
    BY <2>5 DEF EventWipe, ButtonWipe, Wipe
  <2>6. CASE EventRestart \/ ButtonRestart \/ PowerCut
    <3>1. Restart
      BY <2>6 DEF EventRestart, ButtonRestart, PowerCut
    <3>2. nvs' = {}
      BY <2>1, <3>1 DEF Restart, NvsAtBoot
    <3> QED
      BY <3>1, <3>2, EmptyBoot
  <2>7. CASE UNCHANGED vars
    BY <2>7 DEF vars, store
  <2> QED
    BY <2>2, <2>3, <2>4, <2>5, <2>6, <2>7 DEF Next, EventLoop, ButtonTask
<1> QED
  BY <1>1, <1>2, <1>3, ErasedInvNext, PTL DEF Spec

(* The stages of wifi_services_init_task, in the order of its body; its    *)
(* three ends are one stage.                                               *)
Stage ==
  CASE servicios = "none" -> 0
    [] servicios = "check" -> 1
    [] servicios = "mqtt" -> 2
    [] servicios = "firestore" -> 3
    [] servicios = "terrario" -> 4
    [] servicios = "actuators" -> 5
    [] OTHER -> 6

(* A boot: the manager is unset and no services task was created.          *)
Boots == ~instancia' /\ servicios' = "none" /\ lanzadas' = 0

LEMMA ServicesForward ==
  ServicesInv /\ ServiceTypes /\ [Next]_vars =>
    \/ Boots
    \/ servicios' = servicios
    \/ Stage' > Stage /\ (instancia => servicios \notin {"none", "offline", "noTerrario", "done"})
<1> SUFFICES ASSUME ServicesInv, ServiceTypes, [Next]_vars
             PROVE  \/ Boots
                    \/ servicios' = servicios
                    \/ /\ Stage' > Stage
                       /\ instancia =>
                            servicios \notin {"none", "offline", "noTerrario", "done"}
  OBVIOUS
<1>1. CASE BleTask \/ App
  BY <1>1 DEF BleTask, App, SaveBoth, SaveUser, SaveEsp, AppSendsDbConfig,
              AppSendsMqttConfig, AppSendsCredentials, services
<1>2. CASE ServicesTask
  <2>1. CASE CheckInternet
    BY <2>1 DEF CheckInternet, Stage
  <2>2. CASE MqttInit
    BY <2>2 DEF MqttInit, Stage
  <2>3. CASE FirestoreInit
    BY <2>3 DEF FirestoreInit, Stage
  <2>4. CASE TerrarioFound \/ TerrarioNotFound
    BY <2>4 DEF TerrarioFound, TerrarioNotFound, Stage
  <2>5. CASE StartActuators
    BY <2>5 DEF StartActuators, Stage
  <2> QED
    BY <1>2, <2>1, <2>2, <2>3, <2>4, <2>5 DEF ServicesTask
<1>3. CASE GotIp
  BY <1>3 DEF ServicesInv, GotIp, ConnManagerInit, Stage
<1>4. CASE Retry \/ GiveUp \/ EventWipe \/ ProvEnd \/ MqttConnected \/ NetworkChanges
  BY <1>4 DEF Retry, GiveUp, EventWipe, ProvEnd, MqttConnected, NetworkChanges, services
<1>5. CASE ButtonHeld \/ ButtonReleased \/ ButtonWipe
  BY <1>5 DEF ButtonHeld, ButtonReleased, ButtonWipe, services
<1>6. CASE EventRestart \/ ButtonRestart \/ PowerCut
  BY <1>6 DEF EventRestart, ButtonRestart, PowerCut, Restart, NvsAtBoot, Boots
<1>7. CASE UNCHANGED vars
  BY <1>7 DEF vars, services
<1> QED
  BY <1>1, <1>2, <1>3, <1>4, <1>5, <1>6, <1>7 DEF Next, EventLoop, ButtonTask

LEMMA ServiceTypesInit == Init => ServiceTypes
<1> SUFFICES ASSUME Init
             PROVE  ServiceTypes
  OBVIOUS
<1>1. /\ instancia \in BOOLEAN /\ firestore \in BOOLEAN /\ mqtt \in BOOLEAN
      /\ sensores \in BOOLEAN /\ publica \in BOOLEAN /\ actuadores \in BOOLEAN
  BY Zenon DEF Init
<1> QED
  BY <1>1 DEF Init, ServiceTypes, ServicePC

(* The services task takes at most six steps in a boot, each to a later    *)
(* stage, and whatever stage it ends in (or if it could not be created at  *)
(* all) is the one the board keeps until it restarts: no later IP, retry   *)
(* or return of the Internet starts it again.                              *)
THEOREM ServicesEndForGood ==
  Spec => /\ [][Stage' >= Stage \/ Boots]_vars
          /\ [][instancia /\ servicios \in {"none", "offline", "noTerrario", "done"} =>
                  servicios' = servicios \/ Boots]_vars
<1>1. ServicesInv /\ ServiceTypes /\ [Next]_vars => [Stage' >= Stage \/ Boots]_vars
  <2> SUFFICES ASSUME ServicesInv, ServiceTypes, [Next]_vars
               PROVE  Stage' >= Stage \/ Boots
    OBVIOUS
  <2>1. Stage \in 0 .. 6
    BY DEF Stage
  <2>2. CASE servicios' = servicios
    BY <2>1, <2>2 DEF Stage
  <2>3. CASE Stage' > Stage
    <3>1. Stage' \in 0 .. 6
      BY DEF Stage
    <3> QED
      BY <2>1, <2>3, <3>1
  <2> QED
    BY <2>2, <2>3, ServicesForward
<1>2. ServicesInv /\ ServiceTypes /\ [Next]_vars =>
        [instancia /\ servicios \in {"none", "offline", "noTerrario", "done"} =>
           servicios' = servicios \/ Boots]_vars
  BY ServicesForward
<1> QED
  BY <1>1, <1>2, ServicesInvInit, ServicesInvNext, ServiceTypesInit, ServiceTypesNext,
     PTL
  DEF Spec
=============================================================================
