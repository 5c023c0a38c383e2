------------------------------- MODULE Dispenser -------------------------------
(***************************************************************************)
(* The dispenser actuator: dispenser_task turns the motor when a           *)
(* compartment is due, records the dose in Firestore and in the shared     *)
(* table; fetch_task refreshes the shared table from Firestore.  They      *)
(* share g_compartimientos_global under g_compartimientos_mutex, and       *)
(* dispenser_task keeps fetch_task away from Firestore with the binary     *)
(* semaphore g_fetch_pause_semaphore while it records a dose.              *)
(*                                                                         *)
(* Every blocking call of FreeRTOS has a timeout; a timeout may expire     *)
(* only while the resource is unavailable.                                 *)
(***************************************************************************)
EXTENDS CompartmentTable, SequencesExt

CONSTANTS
  FIRESTORE_UPDATE_RETRIES,  \* attempts to record one dose
  MaxGiro,       \* passes of dispenser_task that fit in the 1000 ms of a turn
  Schedules,     \* the documents the app may have written at first
  EditKinds,     \* what the app may do to the document later
  MaxEdits,      \* bound on later edits by the app
  MaxRestarts,   \* bound on restarts of the board
  MaxServings    \* cap of the ghost counter of turns

ASSUME DispenserAssumption ==
  /\ FIRESTORE_UPDATE_RETRIES \in Nat \ {0}
  /\ MaxGiro \in Nat \ {0}
  /\ Schedules \subseteq Document
  /\ EditKinds \subseteq {"arm", "remove"}
  /\ MaxEdits \in Nat
  /\ MaxRestarts \in Nat
  /\ MaxServings \in Nat \ {0}

NoId == -1

VARIABLES
  doc,        \* "programaciones" of the Firestore document
  global,     \* g_compartimientos_global
  mutex,      \* holder of g_compartimientos_mutex, or "libre"
  pausa,      \* count of the binary semaphore g_fetch_pause_semaphore
  dpc,        \* where dispenser_task is
  local,      \* self->compartimientos
  actual,     \* self->compartimientoActual (0 for -1)
  enMovimiento,
  aspaDetectada,
  motor,      \* is the bridge driven?
  giro,       \* passes since tiempoInicioMovimiento
  semTaken,   \* sem_taken of dispenser_motor_stop
  idReal,     \* compart_id_real
  intento,    \* attempts made for this dose
  resultado,  \* result of the last attempt
  copia,      \* the modified document an attempt is about to PATCH
  fpc,        \* where fetch_task is
  leido,      \* the document fetch_task has read
  reciente,   \* timing: what fetch_task is about to store was read
              \* after dispenser_task's last copy at rest
  clock,      \* true time
  rtc,        \* "unset": get_current fails; "epoch": set flag, lost time; "valid"
  dosing,     \* ghost: the id whose turn is not settled yet, or NoId
  servings,   \* ghost: turns per id since the app armed it (since the last
              \* settled one, that one counted, if there is any)
  lapses,     \* ghost: ids whose last turn was not settled
  acordes,    \* ghost: when the slot of this turn was picked, the tables that
              \* may be the shared one at its end had the same id there
  edits, restarts

dispenserVars == <<dpc, local, actual, enMovimiento, aspaDetectada, motor, giro,
                   semTaken, idReal, intento, resultado, copia>>
fetchVars == <<fpc, leido, reciente>>
timeVars == <<clock, rtc>>
ghosts == <<dosing, servings, lapses, acordes>>
bounds == <<edits, restarts>>
vars == <<doc, global, mutex, pausa, dispenserVars, fetchVars, timeVars,
          ghosts, bounds>>

DispenserPC == {"copy", "check", "ramp", "lock", "pause", "get",
                "patch", "release", "clean"}
FetchPC == {"idle", "get", "lock", "store", "give"}

(* Type invariant.  A dose gets FIRESTORE_UPDATE_RETRIES attempts at most, *)
(* and every copy of the schedule stays a table or a document.             *)
TypeOK ==
  /\ doc \in Document
  /\ global \in Table
  /\ mutex \in {"libre", "dispenser", "fetch"}
  /\ pausa \in {0, 1}
  /\ dpc \in DispenserPC
  /\ local \in Table
  /\ actual \in Nat
  /\ enMovimiento \in BOOLEAN
  /\ aspaDetectada \in BOOLEAN
  /\ motor \in BOOLEAN
  /\ giro \in 0 .. MaxGiro
  /\ semTaken \in BOOLEAN
  /\ idReal \in Id
  /\ intento \in 0 .. FIRESTORE_UPDATE_RETRIES
  /\ resultado \in BOOLEAN
  /\ copia \in Document
  /\ fpc \in FetchPC
  /\ leido \in Document
  /\ reciente \in BOOLEAN
  /\ clock \in Time
  /\ rtc \in {"unset", "epoch", "valid"}
  /\ dosing \in Id \cup {NoId}
  /\ servings \in [Id -> 0 .. MaxServings]
  /\ lapses \in SUBSET Id
  /\ acordes \in BOOLEAN
  /\ edits \in 0 .. MaxEdits
  /\ restarts \in 0 .. MaxRestarts

(* dispenser_actuator_init and dispenser_actuator_start: an empty table,   *)
(* the semaphore given once, both tasks at the top of their loops.         *)
Init ==
  /\ global = <<>> /\ mutex = "libre" /\ pausa = 1
  /\ dpc = "copy" /\ local = <<>> /\ actual = 0
  /\ enMovimiento = FALSE /\ aspaDetectada = FALSE /\ motor = FALSE /\ giro = 0
  /\ semTaken = FALSE /\ idReal = 0 /\ intento = 0 /\ resultado = FALSE
  /\ copia = <<>> /\ fpc = "idle" /\ leido = <<>> /\ reciente = FALSE
  /\ doc \in Schedules
  /\ clock = 1
  /\ rtc \in {"unset", "epoch", "valid"}
  /\ dosing = NoId
  /\ servings = [id \in Id |-> 0]
  /\ lapses = {} /\ acordes = TRUE
  /\ edits = 0 /\ restarts = 0

(* rtc_time_get_current, as time(NULL) reads after power was lost: the     *)
(* first seconds of 1970, before any date the app programs (0 is 1970, and *)
(* the date the parser puts for an invalid one; the true time starts at 1).*)
Now == IF rtc = "valid" THEN clock ELSE 0

-----------------------------------------------------------------------------
(* dispenser_task: one pass of its loop copies the shared table, looks for *)
(* a due compartment if nothing turns, and watches the vane otherwise.     *)

CopyTable ==
  /\ dpc = "copy" /\ mutex = "libre"
  /\ local' = global
  /\ reciente' = (enMovimiento /\ reciente)
  /\ dpc' = "check"
  /\ UNCHANGED <<doc, global, mutex, pausa, actual, enMovimiento, aspaDetectada,
                 motor, giro, semTaken, idReal, intento, resultado, copia,
                 fpc, leido, timeVars, ghosts, bounds>>

CopyTimeout ==
  /\ dpc = "copy" /\ mutex # "libre"
  /\ dpc' = "check"
  /\ UNCHANGED <<doc, global, mutex, pausa, local, actual, enMovimiento,
                 aspaDetectada, motor, giro, semTaken, idReal, intento,
                 resultado, copia, fetchVars, timeVars, ghosts, bounds>>

(* check_scheduled_compartments finds nothing, or cannot tell the time.    *)
CheckNothingDue ==
  /\ dpc = "check" /\ ~enMovimiento
  /\ rtc = "unset" \/ DuePositions(local, Now) = {}
  /\ dpc' = "copy"
  /\ UNCHANGED <<doc, global, mutex, pausa, local, actual, enMovimiento,
                 aspaDetectada, motor, giro, semTaken, idReal, intento,
                 resultado, copia, fetchVars, timeVars, ghosts, bounds>>

Capped(n) == IF n < MaxServings THEN n + 1 ELSE n

(* Ghost: the shared table, and the document on its way into it, if they   *)
(* have a position p, have id there.  What fetch_task reads after the last *)
(* copy at rest is not stored before the turn ends (see FetchLock).        *)
IdAt(t, p, id) == p \in DOMAIN t => t[p].id = id

StoresInTurn == fpc = "store" \/ (fpc = "lock" /\ ~reciente)

Agree(p, id) ==
  /\ IdAt(global, p, id)
  /\ StoresInTurn => IdAt(ParseTable(leido), p, id)

(* It picks the first due slot, marks the shared table by the slot's id    *)
(* (skipped when the mutex cannot be had in 100 ms), and starts the motor. *)
CheckDueStart ==
  /\ dpc = "check" /\ ~enMovimiento /\ rtc # "unset"
  /\ \E p \in DOMAIN local :
       /\ IsFirstDue(local, Now, p)
       /\ actual' = p
       /\ global' = IF mutex = "libre" THEN MarkAt(global, local[p].id) ELSE global
       /\ dosing' = local[p].id
       /\ servings' = [servings EXCEPT ![local[p].id] = Capped(@)]
       /\ acordes' = Agree(p, local[p].id)
  /\ motor' = TRUE /\ enMovimiento' = TRUE /\ aspaDetectada' = FALSE /\ giro' = 0
  /\ UNCHANGED <<doc, mutex, pausa, dpc, local, semTaken, idReal, intento,
                 resultado, copia, fetchVars, timeVars, lapses, bounds>>

(* dispenser_check_aspa_detected: the vane passes the sensor.              *)
CheckAspa ==
  /\ dpc = "check" /\ enMovimiento
  /\ aspaDetectada' = TRUE /\ enMovimiento' = FALSE
  /\ dpc' = "ramp"
  /\ UNCHANGED <<doc, global, mutex, pausa, local, actual, motor, giro, semTaken,
                 idReal, intento, resultado, copia, fetchVars, timeVars, ghosts,
                 bounds>>

(* dispenser_check_timeout: no vane, and the turn has lasted over 1000 ms. *)
(* A pass may take longer than its 20 ms, so the limit may come early.     *)
CheckTimeout ==
  /\ dpc = "check" /\ enMovimiento /\ ~aspaDetectada /\ giro > 0
  /\ enMovimiento' = FALSE
  /\ dpc' = "ramp"
  /\ UNCHANGED <<doc, global, mutex, pausa, local, actual, aspaDetectada, motor,
                 giro, semTaken, idReal, intento, resultado, copia, fetchVars,
                 timeVars, ghosts, bounds>>

(* Mutant of KeepTurning: the time since the start is never counted.       *)
KeepTurningUncounted ==
  /\ dpc = "check" /\ enMovimiento
  /\ dpc' = "copy"
  /\ UNCHANGED <<doc, global, mutex, pausa, local, actual, enMovimiento,
                 aspaDetectada, motor, giro, semTaken, idReal, intento, resultado,
                 copia, fetchVars, timeVars, ghosts, bounds>>

(* Neither: the motor turns on through another pass.                       *)
KeepTurning ==
  /\ dpc = "check" /\ enMovimiento /\ giro < MaxGiro
  /\ giro' = giro + 1
  /\ dpc' = "copy"
  /\ UNCHANGED <<doc, global, mutex, pausa, local, actual, enMovimiento,
                 aspaDetectada, motor, semTaken, idReal, intento, resultado,
                 copia, fetchVars, timeVars, ghosts, bounds>>

-----------------------------------------------------------------------------
(* dispenser_motor_stop: brake, then record the dose with the mutex held.  *)

BrakeMotor ==
  /\ dpc = "ramp"
  /\ motor' = FALSE
  /\ dpc' = "lock"
  /\ UNCHANGED <<doc, global, mutex, pausa, local, actual, enMovimiento,
                 aspaDetectada, giro, semTaken, idReal, intento, resultado,
                 copia, fetchVars, timeVars, ghosts, bounds>>

(* The marks here are by position, in tables that may have been replaced   *)
(* since the slot was picked.                                              *)
LockForUpdate ==
  /\ dpc = "lock" /\ mutex = "libre"
  /\ mutex' = "dispenser"
  /\ local' = MarkAt(local, actual)
  /\ IF actual \in DOMAIN local /\ actual \in DOMAIN global
       THEN /\ global' = MarkAt(global, actual)
            /\ idReal' = global[actual].id
            /\ dpc' = "pause"
       ELSE /\ UNCHANGED <<global, idReal>>
            /\ dpc' = "clean"
  /\ UNCHANGED <<doc, pausa, actual, enMovimiento, aspaDetectada, motor, giro,
                 semTaken, intento, resultado, copia, fetchVars, timeVars,
                 ghosts, bounds>>

LockTimeout ==
  /\ dpc = "lock" /\ mutex # "libre"
  /\ dpc' = "clean"
  /\ UNCHANGED <<doc, global, mutex, pausa, local, actual, enMovimiento,
                 aspaDetectada, motor, giro, semTaken, idReal, intento, resultado,
                 copia, fetchVars, timeVars, ghosts, bounds>>

(* xSemaphoreTake(g_fetch_pause_semaphore, 10000 ms), the mutex held.      *)
PauseFetch ==
  /\ dpc = "pause" /\ pausa = 1
  /\ pausa' = 0 /\ semTaken' = TRUE
  /\ dpc' = "get"
  /\ UNCHANGED <<doc, global, mutex, local, actual, enMovimiento, aspaDetectada,
                 motor, giro, idReal, intento, resultado, copia, fetchVars,
                 timeVars, ghosts, bounds>>

(* Mutant of PauseTimeout: sem_taken set without the semaphore.            *)
PauseTimeoutAsTaken ==
  /\ dpc = "pause" /\ pausa = 0
  /\ semTaken' = TRUE
  /\ dpc' = "get"
  /\ UNCHANGED <<doc, global, mutex, pausa, local, actual, enMovimiento,
                 aspaDetectada, motor, giro, idReal, intento, resultado, copia,
                 fetchVars, timeVars, ghosts, bounds>>

PauseTimeout ==
  /\ dpc = "pause" /\ pausa = 0
  /\ dpc' = "get"
  /\ UNCHANGED <<doc, global, mutex, pausa, local, actual, enMovimiento,
                 aspaDetectada, motor, giro, semTaken, idReal, intento, resultado,
                 copia, fetchVars, timeVars, ghosts, bounds>>

(* Mutant of NextAttempt: the last attempt is never made.                  *)
OneAttemptFewer ==
  /\ intento' = intento + 1
  /\ resultado' = FALSE
  /\ copia' = <<>>
  /\ dpc' = IF intento + 2 < FIRESTORE_UPDATE_RETRIES THEN "get" ELSE "release"

(* Mutant of NextAttempt: one attempt too many.                            *)
OneAttemptMore ==
  /\ intento' = intento + 1
  /\ resultado' = FALSE
  /\ copia' = <<>>
  /\ dpc' = IF intento < FIRESTORE_UPDATE_RETRIES THEN "get" ELSE "release"

NextAttempt ==
  /\ intento' = intento + 1
  /\ resultado' = FALSE
  /\ copia' = <<>>
  /\ dpc' = IF intento + 1 < FIRESTORE_UPDATE_RETRIES THEN "get" ELSE "release"

(* firestore_fetch_update_dispensed up to its PATCH: read the document and *)
(* set the field of one entry in the copy.                                 *)
UpdateGet ==
  /\ dpc = "get"
  /\ PositionsOf(doc, idReal) # {}
  /\ copia' = SetDispensado(doc, idReal)
  /\ dpc' = "patch"
  /\ UNCHANGED <<doc, global, mutex, pausa, local, actual, enMovimiento,
                 aspaDetectada, motor, giro, semTaken, idReal, intento, resultado,
                 fetchVars, timeVars, ghosts, bounds>>

(* No credentials, no answer, bad JSON, or no entry with this id.          *)
UpdateGetFails ==
  /\ dpc = "get"
  /\ NextAttempt
  /\ UNCHANGED <<doc, global, mutex, pausa, local, actual, enMovimiento,
                 aspaDetectada, motor, giro, semTaken, idReal, fetchVars,
                 timeVars, ghosts, bounds>>

(* The PATCH replaces the whole array by the copy.                         *)
UpdatePatch ==
  /\ dpc = "patch"
  /\ doc' = copia
  /\ intento' = intento + 1
  /\ resultado' = TRUE
  /\ copia' = <<>>
  /\ dpc' = "release"
  /\ UNCHANGED <<global, mutex, pausa, local, actual, enMovimiento, aspaDetectada,
                 motor, giro, semTaken, idReal, fetchVars, timeVars, ghosts,
                 bounds>>

(* Mutant of UpdatePatchFails: the answer to the PATCH is not looked at.   *)
PatchFailsAsDone ==
  /\ dpc = "patch"
  /\ doc' \in {doc, copia}
  /\ intento' = intento + 1
  /\ resultado' = TRUE
  /\ copia' = <<>>
  /\ dpc' = "release"
  /\ UNCHANGED <<global, mutex, pausa, local, actual, enMovimiento, aspaDetectada,
                 motor, giro, semTaken, idReal, fetchVars, timeVars, ghosts,
                 bounds>>

(* The request fails, before or after the server has applied it.           *)
UpdatePatchFails ==
  /\ dpc = "patch"
  /\ doc' \in {doc, copia}
  /\ NextAttempt
  /\ UNCHANGED <<global, mutex, pausa, local, actual, enMovimiento, aspaDetectada,
                 motor, giro, semTaken, idReal, fetchVars, timeVars, ghosts,
                 bounds>>

(* Mutant of ReleasePause: the semaphore given only after a success.       *)
ReleaseOnSuccess ==
  /\ dpc = "release"
  /\ rtc' \in IF resultado THEN {rtc, "valid"} ELSE {rtc}
  /\ pausa' = IF semTaken /\ resultado THEN 1 ELSE pausa
  /\ dpc' = "clean"
  /\ UNCHANGED <<doc, global, mutex, local, actual, enMovimiento, aspaDetectada,
                 motor, giro, semTaken, idReal, intento, resultado, copia,
                 fetchVars, clock, ghosts, bounds>>

(* After a recorded dose an invalid time is synchronised again, with or    *)
(* without success; then the semaphore is given if it was taken.           *)
ReleasePause ==
  /\ dpc = "release"
  /\ rtc' \in IF resultado THEN {rtc, "valid"} ELSE {rtc}
  /\ pausa' = IF semTaken THEN 1 ELSE pausa
  /\ dpc' = "clean"
  /\ UNCHANGED <<doc, global, mutex, local, actual, enMovimiento, aspaDetectada,
                 motor, giro, semTaken, idReal, intento, resultado, copia,
                 fetchVars, clock, ghosts, bounds>>

(* Ghost: the turn is settled if Firestore confirmed the id that turned    *)
(* while fetch_task was paused.                                            *)
Settled == resultado /\ semTaken /\ idReal = dosing

(* Mutant of StopClean: the mutex kept after a failed update.              *)
StopCleanKeepingMutex ==
  /\ dpc = "clean"
  /\ mutex' = IF mutex = "dispenser" /\ resultado THEN "libre" ELSE mutex
  /\ enMovimiento' = FALSE /\ aspaDetectada' = FALSE /\ actual' = 0
  /\ semTaken' = FALSE /\ intento' = 0 /\ resultado' = FALSE /\ idReal' = 0
  /\ giro' = 0
  /\ dosing' = NoId /\ acordes' = TRUE
  /\ dpc' = "copy"
  /\ UNCHANGED <<doc, global, pausa, local, motor, copia, fetchVars, timeVars,
                 servings, lapses, bounds>>

StopClean ==
  /\ dpc = "clean"
  /\ mutex' = IF mutex = "dispenser" THEN "libre" ELSE mutex
  /\ enMovimiento' = FALSE /\ aspaDetectada' = FALSE /\ actual' = 0
  /\ semTaken' = FALSE /\ intento' = 0 /\ resultado' = FALSE /\ idReal' = 0
  /\ giro' = 0
  /\ IF Settled
       THEN /\ lapses' = lapses \ {dosing}
            /\ servings' = [servings EXCEPT ![dosing] = IF @ > 1 THEN 1 ELSE @]
       ELSE lapses' = lapses \cup {dosing} /\ UNCHANGED servings
  /\ dosing' = NoId /\ acordes' = TRUE
  /\ dpc' = "copy"
  /\ UNCHANGED <<doc, global, pausa, local, motor, copia, fetchVars, timeVars,
                 bounds>>

-----------------------------------------------------------------------------
(* fetch_task: take the semaphore without waiting, dispenser_actuator_fetch,*)
(* give it back.                                                           *)

(* From the choice of a slot to the lock for its marks.                    *)
InTurn == enMovimiento \/ dpc \in {"ramp", "lock"}

FetchTake ==
  /\ fpc = "idle" /\ pausa = 1
  /\ pausa' = 0
  /\ fpc' = "get"
  /\ UNCHANGED <<doc, global, mutex, dispenserVars, leido, reciente, timeVars,
                 ghosts, bounds>>

(* The document is read, then the LED pattern blocks for 2.9 s.            *)
FetchGet ==
  /\ fpc = "get"
  /\ leido' = doc
  /\ fpc' = "lock"
  /\ reciente' = TRUE
  /\ UNCHANGED <<doc, global, mutex, pausa, dispenserVars, timeVars, ghosts, bounds>>

(* Mutant of FetchFails: the early return skips the give.                  *)
FetchFailsWithoutGive ==
  /\ fpc = "get"
  /\ fpc' = "idle"
  /\ UNCHANGED <<doc, global, mutex, pausa, dispenserVars, leido, reciente, timeVars,
                 ghosts, bounds>>

FetchFails ==
  /\ fpc = "get"
  /\ fpc' = "give"
  /\ UNCHANGED <<doc, global, mutex, pausa, dispenserVars, leido, reciente, timeVars,
                 ghosts, bounds>>

(* Mutant of FetchLock: the pattern before it does not block.              *)
FetchLockAtOnce ==
  /\ fpc = "lock" /\ mutex = "libre"
  /\ mutex' = "fetch"
  /\ fpc' = "store"
  /\ reciente' = FALSE
  /\ UNCHANGED <<doc, global, pausa, dispenserVars, leido, timeVars, ghosts, bounds>>

(* The 2.9 s of the pattern are longer than a turn with its ramp (1.5 s at *)
(* most): what was read since the turn was picked is not stored before it  *)
(* ends.                                                                   *)
FetchLock ==
  /\ fpc = "lock" /\ mutex = "libre"
  /\ InTurn => ~reciente
  /\ mutex' = "fetch"
  /\ fpc' = "store"
  /\ reciente' = FALSE
  /\ UNCHANGED <<doc, global, pausa, dispenserVars, leido, timeVars, ghosts, bounds>>

(* 1000 ms without the mutex: the document that was read is dropped.       *)
FetchLockTimeout ==
  /\ fpc = "lock" /\ mutex # "libre"
  /\ leido' = <<>> /\ reciente' = FALSE
  /\ fpc' = "give"
  /\ UNCHANGED <<doc, global, mutex, pausa, dispenserVars, timeVars, ghosts, bounds>>

FetchStore ==
  /\ fpc = "store"
  /\ global' = ParseTable(leido)
  /\ mutex' = "libre"
  /\ leido' = <<>>
  /\ fpc' = "give"
  /\ UNCHANGED <<doc, pausa, dispenserVars, reciente, timeVars, ghosts, bounds>>

FetchGive ==
  /\ fpc = "give"
  /\ pausa' = 1
  /\ fpc' = "idle"
  /\ UNCHANGED <<doc, global, mutex, dispenserVars, leido, reciente, timeVars,
                 ghosts, bounds>>

-----------------------------------------------------------------------------
(* The world around the two tasks.                                         *)

(* The app arms an entry, for its date or for now.  Arming one that shows  *)
(* as dispensed asks for a new dose.                                       *)
AppArms ==
  /\ "arm" \in EditKinds /\ edits < MaxEdits
  /\ \E p \in DOMAIN doc, m \in BOOLEAN :
       /\ doc' = [doc EXCEPT ![p].dispensado = FALSE, ![p].manual = m]
       /\ IF doc[p].dispensado
            THEN /\ servings' = [servings EXCEPT ![doc[p].id] = 0]
                 /\ lapses' = lapses \ {doc[p].id}
            ELSE UNCHANGED <<servings, lapses>>
  /\ edits' = edits + 1
  /\ UNCHANGED <<global, mutex, pausa, dispenserVars, fetchVars, timeVars, dosing,
                 acordes, restarts>>

(* The app deletes an entry: the ones behind it move up.                   *)
AppRemoves ==
  /\ "remove" \in EditKinds /\ edits < MaxEdits
  /\ \E p \in DOMAIN doc : doc' = RemoveAt(doc, p)
  /\ edits' = edits + 1
  /\ UNCHANGED <<global, mutex, pausa, dispenserVars, fetchVars, timeVars, ghosts,
                 restarts>>

Tick ==
  /\ clock < MaxClock
  /\ clock' = clock + 1
  /\ UNCHANGED <<doc, global, mutex, pausa, dispenserVars, fetchVars, rtc, ghosts,
                 bounds>>

(* A restart loses everything but NVS.  The synchronised flag is in NVS,   *)
(* the time is not; booting synchronises an invalid time, if it can.  The  *)
(* flag is gone if the boot erased NVS: then the app provisions the board  *)
(* again before these tasks run.                                           *)
Restart ==
  /\ restarts < MaxRestarts
  /\ restarts' = restarts + 1
  /\ global' = <<>> /\ mutex' = "libre" /\ pausa' = 1
  /\ dpc' = "copy" /\ local' = <<>> /\ actual' = 0
  /\ enMovimiento' = FALSE /\ aspaDetectada' = FALSE /\ motor' = FALSE /\ giro' = 0
  /\ semTaken' = FALSE /\ idReal' = 0 /\ intento' = 0 /\ resultado' = FALSE
  /\ copia' = <<>> /\ fpc' = "idle" /\ leido' = <<>> /\ reciente' = FALSE
  /\ rtc' \in {"unset", "valid"} \cup (IF rtc = "unset" THEN {} ELSE {"epoch"})
  /\ lapses' = IF dosing = NoId THEN lapses ELSE lapses \cup {dosing}
  /\ dosing' = NoId /\ acordes' = TRUE
  /\ UNCHANGED <<doc, clock, servings, edits>>

DispenserTask ==
  \/ CopyTable \/ CopyTimeout \/ CheckNothingDue \/ CheckDueStart
  \/ CheckAspa \/ CheckTimeout \/ KeepTurning
  \/ BrakeMotor \/ LockForUpdate \/ LockTimeout \/ PauseFetch \/ PauseTimeout
  \/ UpdateGet \/ UpdateGetFails \/ UpdatePatch \/ UpdatePatchFails
  \/ ReleasePause \/ StopClean

FetchTask ==
  \/ FetchTake \/ FetchGet \/ FetchFails \/ FetchLock \/ FetchLockTimeout
  \/ FetchStore \/ FetchGive

Next == DispenserTask \/ FetchTask \/ AppArms \/ AppRemoves \/ Tick \/ Restart

Spec == Init /\ [][Next]_vars

(* Both tasks have priority 5 and sleep in every pass, so the scheduler    *)
(* runs each again and again.  That requests to Firestore succeed now and  *)
(* then is an assumption about the network; the app and the power supply   *)
(* promise nothing.                                                        *)
TasksRun == WF_vars(DispenserTask) /\ WF_vars(FetchTask)
(* fetch_task holds the mutex for the copy of one struct, far less than    *)
(* the 50 and 100 ms the other task waits: those waits do not time out     *)
(* for ever.                                                               *)
MutexWaitsEnd == <>[][~(CopyTimeout \/ LockTimeout)]_vars
NetworkAnswers == SF_vars(UpdateGet) /\ SF_vars(UpdatePatch) /\ SF_vars(FetchGet)

TaskSpec == Spec /\ TasksRun
(* Spec with every wait for the mutex or the semaphore granted in time:    *)
(* what goes wrong even then.                                              *)
WaitGivenUp ==
  CopyTimeout \/ LockTimeout \/ PauseTimeout \/ (CheckDueStart /\ mutex # "libre")
PromptSpec == Init /\ [][Next /\ ~WaitGivenUp]_vars
Fortune == MutexWaitsEnd /\ NetworkAnswers

-----------------------------------------------------------------------------
Updating == dpc \in {"get", "patch", "release"}
Paused == Updating /\ semTaken

(* The mutex and the semaphore are held exactly where the code holds them: *)
(* dispenser_task holds the mutex from the marks of dispenser_motor_stop   *)
(* to its end, fetch_task only around its store, and the semaphore is down *)
(* for one of the two tasks at a time.                                     *)
HolderInv ==
  /\ dpc = "pause" \/ Updating => mutex = "dispenser"
  /\ mutex = "dispenser" => dpc \in {"pause", "get", "patch", "release", "clean"}
  /\ mutex = "fetch" <=> fpc = "store"
  /\ pausa = 0 <=> (Paused \/ fpc # "idle")
  /\ semTaken => Updating \/ dpc = "clean"

(* While dispenser_task records a dose with the semaphore taken, no fetch  *)
(* is in flight (dispenser_motor.c: the semaphore pauses fetch_task).      *)
FetchPaused == Paused => fpc = "idle"

Shows(t, id) == \A p \in DOMAIN t : t[p].id = id => t[p].dispensado

(* Once a turn is recorded under the pause, every copy of the schedule     *)
(* that can still reach dispenser_task shows it as dispensed: the one in   *)
(* Firestore, the one fetch_task read, the shared and the local one.       *)
RecordedEverywhere ==
  \A id \in Id :
    servings[id] > 0 /\ id \notin lapses /\ id # dosing =>
      /\ Shows(doc, id) /\ Shows(leido, id) /\ Shows(copia, id)
      /\ Shows(global, id) /\ Shows(local, id)

(* A dose is turned again only while the turn before it is unsettled: all  *)
(* attempts to record it failed, the semaphore or the mutex timed out, the *)
(* table moved under it, or the board restarted.                           *)
AtMostOnce == \A id \in Id : servings[id] > 1 => id \in lapses

(* The mark by id of check_scheduled_compartments stays inside the array.  *)
MarkInArray == dosing # NoId => InArray(dosing)

(* The shared table shows a compartment as dispensed only if it turned:    *)
(* dispenser.c marks the compartment it starts, dispenser_motor.c the one  *)
(* it stops ("Actualizar globalmente").  For documents that start with no  *)
(* entry dispensed and that nobody edits.                                  *)
OnlyTurnedMarked ==
  \A p \in DOMAIN global : global[p].dispensado => servings[global[p].id] > 0

(* Recording a dose changes the field of that compartment and nothing      *)
(* else: "Actualizar campo 'dispensado'" (dispenser_firestore.c).          *)
UpdateTouchesOneEntry ==
  [][UpdatePatch => doc' = SetDispensado(doc, idReal)]_vars

(* A turn is recorded under its own id, although the board picks a slot by *)
(* its position in one table and records the id it finds there in another, *)
(* up to 1.5 s later: whatever was edited, timed out or restarted, another *)
(* id is recorded only if the shared table, or the document already on its *)
(* way into it, had that other id there when the slot was picked.  And as  *)
(* long as nobody edits the schedule only compartments that turned get     *)
(* recorded.                                                               *)
OnlyTurnedRecorded ==
  [][UpdatePatch =>
       /\ acordes => idReal = dosing
       /\ edits = 0 => \A p \in DOMAIN doc :
            doc'[p].dispensado /\ ~doc[p].dispensado => servings[doc[p].id] > 0]_vars

(* As long as nobody edits the schedule, a turn that dispenser_motor_stop  *)
(* ends unsettled has one of three causes: the mutex was not had in time,  *)
(* fetch_task was not paused in time, or every attempt was made and none   *)
(* succeeded.  Losing the slot or taking another compartment's id is none. *)
LapseCauses ==
  [][StopClean /\ ~Settled /\ edits = 0 =>
       \/ mutex # "dispenser"
       \/ intento > 0 /\ idReal = dosing /\ ~semTaken
       \/ intento = FIRESTORE_UPDATE_RETRIES /\ ~resultado]_vars

(* The motor always stops: by the vane or by check_timeout.                *)
MotorStops == motor ~> ~motor

(* dispenser_task waits for the semaphore with the mutex held while        *)
(* fetch_task waits for the mutex with the semaphore down: the timeouts    *)
(* undo it, so each task gives back what it holds.                         *)
LocksReturned == (mutex # "libre" ~> mutex = "libre") /\ (fpc # "idle" ~> fpc = "idle")

Armed(id) ==
  \E p \in DOMAIN doc :
    /\ Legible(doc[p]) /\ doc[p].id = id
    /\ Due(SlotOf(doc[p]), Now)

(* While the time stays valid and the network answers now and then, an     *)
(* armed dose whose time has come is turned, or disarmed, a restart or not.*)
DueDoseServed ==
  Fortune =>
    \A id \in Id :
      (Armed(id) /\ rtc = "valid") ~> (servings[id] > 0 \/ ~Armed(id) \/ rtc # "valid")

(* Every turn is recorded in Firestore in the end, if only by turning      *)
(* again, while the time stays valid.                                      *)
TurnRecorded ==
  Fortune =>
    \A id \in Id :
      (servings[id] > 0 /\ rtc = "valid") ~>
        (Shows(doc, id) \/ servings[id] = 0 \/ rtc # "valid")

-----------------------------------------------------------------------------
(* The two tasks implement the ledger of DoseLedger.                       *)
Ledger ==
  INSTANCE DoseLedger WITH
    MaxDoses <- MaxServings,
    turning <- dosing,
    doses <- servings,
    unsettled <- lapses,
    recorded <- {id \in Id : Shows(doc, id)}

(* Every step of the tasks, the app, time and restarts is a step of the    *)
(* ledger or none: a dose settles only if Firestore shows it, a settled    *)
(* one stays shown and is not turned again until the app arms it.          *)
KeepsLedger == Ledger!LedgerSpec
=============================================================================
