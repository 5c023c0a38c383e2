--------------------------------- MODULE Clock ---------------------------------
(***************************************************************************)
(* rtc_time: the system time, and the flag "rtc"/"synced" in NVS that      *)
(* vouches for it.  The flag survives a power cut, the time does not.      *)
(* rtc_time_sync_with_timezone is called by one task at a time: the        *)
(* services task until it has started the dispenser, dispenser_task after. *)
(***************************************************************************)
EXTENDS NvsStore

VARIABLES
  nvsAbierta,  \* FALSE from nvs_flash_erase to the restart
  bandera,     \* the blob "rtc"/"synced" (nobody stores a 0)
  hora,        \* the system time: "buena", or "perdida" (counted from 1970)
  sync,        \* where rtc_time_sync_with_timezone is
  corte        \* ghost: power was lost since the time was last set

clockVars == <<nvsAbierta, bandera, hora, sync, corte>>

ClockTypeOK ==
  /\ nvsAbierta \in BOOLEAN
  /\ bandera \in {"absent", "fits"}
  /\ hora \in {"perdida", "buena"}
  /\ sync \in {"idle", "ask", "set", "flag"}
  /\ corte \in BOOLEAN

(* A new board.                                                            *)
ClockInit ==
  /\ nvsAbierta = TRUE /\ bandera = "absent"
  /\ hora = "perdida" /\ sync = "idle" /\ corte = FALSE

(* rtc_time_is_synchronized: a flag that cannot be read is not set.        *)
Synchronised == LoadBlob(bandera).copied

(* rtc_time_get_current asks the flag, not the time.                       *)
GetCurrent == IF Synchronised THEN hora ELSE "sinHora"

(* The callers' test: there is a time, and its year is 2025 or later.      *)
HoraValida == GetCurrent = "buena"

-----------------------------------------------------------------------------
(* rtc_time_sync_with_timezone.                                            *)

(* Mutant of SyncAnswers: the flag is saved before the time is set.        *)
SyncAnswersFlagFirst ==
  /\ sync = "ask"
  /\ bandera' \in IF nvsAbierta THEN SaveBlob(bandera, "fits") ELSE {bandera}
  /\ sync' = "set"
  /\ UNCHANGED <<nvsAbierta, hora, corte>>

(* The request, made twice (perform, then open and read), is answered and  *)
(* utc_datetime is read from the answer.                                   *)
SyncAnswers ==
  /\ sync = "ask"
  /\ sync' = "set"
  /\ UNCHANGED <<nvsAbierta, bandera, hora, corte>>

(* Either request fails, no memory, or an answer without utc_datetime.     *)
SyncFails ==
  /\ sync = "ask"
  /\ sync' = "idle"
  /\ UNCHANGED <<nvsAbierta, bandera, hora, corte>>

(* settimeofday                                                            *)
SetTime ==
  /\ sync = "set"
  /\ hora' = "buena" /\ corte' = FALSE
  /\ sync' = "flag"
  /\ UNCHANGED <<nvsAbierta, bandera>>

(* rtc_time_set_synchronized(true); its result is not looked at.           *)
SaveFlag ==
  /\ sync = "flag"
  /\ bandera' \in IF nvsAbierta THEN SaveBlob(bandera, "fits") ELSE {bandera}
  /\ sync' = "idle"
  /\ UNCHANGED <<nvsAbierta, hora, corte>>

ClockStep == SyncAnswers \/ SyncFails \/ SetTime \/ SaveFlag

-----------------------------------------------------------------------------
(* What happens to the clock when the board loses power, restarts by       *)
(* software (the system time goes on) or erases its NVS.                   *)

(* nvs_utils_init opens NVS again; borra: it erases it first, for it has   *)
(* no free page or was written by another version.                         *)
ClockBoots(borra) ==
  /\ nvsAbierta' = TRUE /\ sync' = "idle"
  /\ bandera' = IF borra THEN "absent" ELSE bandera

ClockLosesPower(borra) ==
  /\ hora' = "perdida" /\ corte' = TRUE
  /\ ClockBoots(borra)

ClockRestarts(borra) ==
  /\ ClockBoots(borra)
  /\ UNCHANGED <<hora, corte>>

ClockErased ==
  /\ nvsAbierta' = FALSE /\ bandera' = "absent"
  /\ UNCHANGED <<hora, sync, corte>>
=============================================================================
