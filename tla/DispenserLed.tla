----------------------------- MODULE DispenserLed -----------------------------
(***************************************************************************)
(* The dispenser's status LED.  dispenser_task and fetch_task both call    *)
(* dispenser_led.c, which starts and deletes two kinds of pattern task and *)
(* guards its two task handles with no lock.                               *)
(*                                                                         *)
(* A LED function is a program of steps, run one at a time between the     *)
(* steps of the other caller.  The motor, the table and Firestore are      *)
(* reduced to what decides which LED function is called next.              *)
(***************************************************************************)
EXTENDS Integers, Sequences

CONSTANTS
  FIRESTORE_UPDATE_RETRIES,
  MaxTurns    \* bound on the turns of the motor

ASSUME LedAssumption ==
  /\ FIRESTORE_UPDATE_RETRIES \in Nat \ {0}
  /\ MaxTurns \in Nat

Caller == {"dispenser", "fetch"}
Op == {"kill", "delete", "null", "on", "off", "blink", "pattern", "stopPattern"}

VARIABLES
  prog,      \* what each caller has still to do of a LED function
  visto,     \* the handle each caller has read
  blink,     \* blink_task_handle, 0 for NULL
  update,    \* led_pattern_update_task_handle, 0 for NULL
  vivas,     \* the pattern tasks that exist
  creadas,   \* tasks created so far: their names
  nivel,     \* level of the pin
  corrupto,  \* vTaskDelete was called with the handle of a deleted task
  fase,      \* where dispenser_task is
  porAspa,   \* the turn was ended by the vane
  intento,
  ultimo,    \* outcome of the last attempt of a dose
  ffase,     \* where fetch_task is
  pausa,     \* holder of g_fetch_pause_semaphore
  hora,      \* is the time valid?
  turnos     \* bound: turns

led == <<blink, update, vivas, creadas, nivel, corrupto>>
callers == <<prog, visto>>
dispenserVars == <<fase, porAspa, intento, ultimo, turnos>>
vars == <<callers, led, dispenserVars, ffase, pausa, hora>>

Fase == {"idle", "turning", "watched", "stopped", "retry", "attempt", "patched",
         "failed", "recorded", "finish"}

(* Type invariant.  A dose gets FIRESTORE_UPDATE_RETRIES attempts at most  *)
(* (dispenser_motor_stop), and every handle names a task that was created. *)
TypeOK ==
  /\ prog \in [Caller -> Seq(Op)]
  /\ visto \in [Caller -> Nat]
  /\ blink \in Nat /\ update \in Nat /\ creadas \in Nat
  /\ vivas \in SUBSET (1 .. creadas)
  /\ nivel \in {0, 1}
  /\ corrupto \in BOOLEAN
  /\ fase \in Fase
  /\ porAspa \in BOOLEAN
  /\ intento \in 0 .. FIRESTORE_UPDATE_RETRIES
  /\ ultimo \in {"none", "early", "rejected", "recorded"}
  /\ ffase \in {"idle", "shown", "fetched"}
  /\ pausa \in {"libre"} \cup Caller
  /\ hora \in BOOLEAN
  /\ turnos \in 0 .. MaxTurns

Init ==
  /\ prog = [c \in Caller |-> <<>>] /\ visto = [c \in Caller |-> 0]
  /\ blink = 0 /\ update = 0 /\ vivas = {} /\ creadas = 0
  /\ corrupto = FALSE
  /\ fase = "idle" /\ porAspa = FALSE /\ intento = 0 /\ ultimo = "none"
  /\ ffase = "idle" /\ pausa = "libre"
  /\ hora \in BOOLEAN
  /\ nivel = IF hora THEN 1 ELSE 0
  /\ turnos = 0

-----------------------------------------------------------------------------
(* The functions of dispenser_led.c.                                       *)

SetSynced(valid) == <<"kill", IF valid THEN "on" ELSE "off">>
LedOff == <<"kill", "off">>
BlinkStart == <<"kill", "blink">>

(* Mutant of BlinkStop: the pin is cleared, the task forgotten.            *)
BlinkStopPinOnly == <<"off">>

BlinkStop == <<"kill", "off">>

(* Three flashes, of which one is enough here.                             *)
PatternFetch == <<"on", "off">>

(* After the deletion of a deleted task nothing can be said: no more steps.*)
Doing(c, op) == ~corrupto /\ prog[c] # <<>> /\ Head(prog[c]) = op
Done(c) == prog' = [prog EXCEPT ![c] = Tail(@)]
Becomes(c, op) == prog' = [prog EXCEPT ![c] = <<op>> \o Tail(@)]

(* if (blink_task_handle): one load of the handle, tested and kept.        *)
ReadHandle(c) ==
  /\ Doing(c, "kill")
  /\ IF blink = 0
       THEN Done(c) /\ UNCHANGED visto
       ELSE Becomes(c, "delete") /\ visto' = [visto EXCEPT ![c] = blink]
  /\ UNCHANGED <<led, dispenserVars, ffase, pausa, hora>>

(* vTaskDelete of the handle that was read.                                *)
DeleteTask(c) ==
  /\ Doing(c, "delete")
  /\ Becomes(c, "null")
  /\ vivas' = vivas \ {visto[c]}
  /\ corrupto' = (visto[c] \notin vivas)
  /\ UNCHANGED <<visto, blink, update, creadas, nivel, dispenserVars, ffase, pausa, hora>>

ClearHandle(c) ==
  /\ Doing(c, "null")
  /\ Done(c)
  /\ blink' = 0
  /\ visto' = [visto EXCEPT ![c] = 0]
  /\ UNCHANGED <<update, vivas, creadas, nivel, corrupto, dispenserVars, ffase, pausa, hora>>

SetLevel(c) ==
  /\ \/ Doing(c, "on") /\ nivel' = 1
     \/ Doing(c, "off") /\ nivel' = 0
  /\ Done(c)
  /\ UNCHANGED <<visto, blink, update, vivas, creadas, corrupto, dispenserVars, ffase,
                 pausa, hora>>

(* xTaskCreate, which may lack the memory and leaves the handle then.      *)
NewTask == creadas' = creadas + 1 /\ vivas' = vivas \cup {creadas + 1}

CreateBlink(c) ==
  /\ Doing(c, "blink")
  /\ Done(c)
  /\ \/ NewTask /\ blink' = creadas + 1
     \/ UNCHANGED <<creadas, vivas, blink>>
  /\ UNCHANGED <<visto, update, nivel, corrupto, dispenserVars, ffase, pausa, hora>>

(* Mutant of PatternAsync: no test of the handle.                          *)
PatternAsyncAlways(c) ==
  /\ Doing(c, "pattern")
  /\ Done(c)
  /\ NewTask /\ update' = creadas + 1
  /\ UNCHANGED <<visto, blink, nivel, corrupto, dispenserVars, ffase, pausa, hora>>

(* dispenser_led_pattern_update_async and _stop: only dispenser_task calls *)
(* them, so each is one step.                                              *)
PatternAsync(c) ==
  /\ Doing(c, "pattern")
  /\ Done(c)
  /\ \/ update = 0 /\ NewTask /\ update' = creadas + 1
     \/ UNCHANGED <<creadas, vivas, update>>
  /\ UNCHANGED <<visto, blink, nivel, corrupto, dispenserVars, ffase, pausa, hora>>

PatternStop(c) ==
  /\ Doing(c, "stopPattern")
  /\ Done(c)
  /\ IF update = 0
       THEN UNCHANGED <<update, vivas, nivel>>
       ELSE update' = 0 /\ vivas' = vivas \ {update} /\ nivel' = 0
  /\ UNCHANGED <<visto, blink, creadas, corrupto, dispenserVars, ffase, pausa, hora>>

(* A pattern task toggles the pin.                                         *)
Toggle ==
  /\ ~corrupto /\ vivas # {}
  /\ nivel' = 1 - nivel
  /\ UNCHANGED <<callers, blink, update, vivas, creadas, corrupto, dispenserVars, ffase,
                 pausa, hora>>

-----------------------------------------------------------------------------
(* dispenser_task.                                                         *)

Ready(c) == ~corrupto /\ prog[c] = <<>>
Call(c, f) == prog' = [prog EXCEPT ![c] = f]

MotorStart ==
  /\ fase = "idle" /\ Ready("dispenser") /\ turnos < MaxTurns
  /\ Call("dispenser", BlinkStart)
  /\ fase' = "turning" /\ turnos' = turnos + 1
  /\ UNCHANGED <<visto, led, porAspa, intento, ultimo, ffase, pausa, hora>>

(* dispenser_check_aspa_detected ends with dispenser_led_blink_stop,       *)
(* whether it saw the vane or not.                                         *)
NoVane ==
  /\ fase = "turning" /\ Ready("dispenser")
  /\ Call("dispenser", BlinkStop)
  /\ fase' = "watched"
  /\ UNCHANGED <<visto, led, porAspa, intento, ultimo, turnos, ffase, pausa, hora>>

NextPass ==
  /\ fase = "watched" /\ Ready("dispenser")
  /\ fase' = "turning"
  /\ UNCHANGED <<callers, led, porAspa, intento, ultimo, turnos, ffase, pausa, hora>>

(* dispenser_motor_stop, called for the vane or after 1000 ms.             *)
MotorStop ==
  /\ Ready("dispenser")
  /\ \/ fase = "turning" /\ porAspa' = TRUE
     \/ fase = "watched" /\ porAspa' = FALSE
  /\ Call("dispenser", BlinkStop)
  /\ fase' = "stopped"
  /\ UNCHANGED <<visto, led, intento, ultimo, turnos, ffase, pausa, hora>>

(* No mutex in 100 ms, or the slot is gone: no update.                     *)
SkipUpdate ==
  /\ fase = "stopped" /\ Ready("dispenser")
  /\ fase' = "finish"
  /\ UNCHANGED <<callers, led, porAspa, intento, ultimo, turnos, ffase, pausa, hora>>

(* The semaphore is taken, or not after 10 s.                              *)
BeginUpdate ==
  /\ fase = "stopped" /\ Ready("dispenser")
  /\ pausa' = IF pausa = "libre" THEN "dispenser" ELSE pausa
  /\ fase' = "retry" /\ intento' = 0
  /\ UNCHANGED <<callers, led, porAspa, ultimo, turnos, ffase, hora>>

(* firestore_fetch_update_dispensed: LED off, the update pattern started,  *)
(* three flashes.                                                          *)
BeginAttempt ==
  /\ fase = "retry" /\ Ready("dispenser")
  /\ Call("dispenser", LedOff \o <<"pattern">> \o PatternFetch)
  /\ fase' = "attempt" /\ intento' = intento + 1
  /\ UNCHANGED <<visto, led, porAspa, ultimo, turnos, ffase, pausa, hora>>

(* Mutant of AfterFailure: one attempt too many.                           *)
AfterFailureOneMore == IF intento <= FIRESTORE_UPDATE_RETRIES THEN "retry" ELSE "failed"

AfterFailure == IF intento < FIRESTORE_UPDATE_RETRIES THEN "retry" ELSE "failed"

(* Every return before the PATCH leaves the update pattern running.        *)
AttemptReturnsEarly ==
  /\ fase = "attempt" /\ Ready("dispenser")
  /\ ultimo' = "early"
  /\ fase' = AfterFailure
  /\ UNCHANGED <<callers, led, porAspa, intento, turnos, ffase, pausa, hora>>

(* Mutant of AttemptPatches: the pattern is not stopped.                   *)
AttemptPatchesBlinking ==
  /\ fase = "attempt" /\ Ready("dispenser")
  /\ Call("dispenser", SetSynced(hora))
  /\ ultimo' \in {"rejected", "recorded"}
  /\ fase' = "patched"
  /\ UNCHANGED <<visto, led, porAspa, intento, turnos, ffase, pausa, hora>>

AttemptPatches ==
  /\ fase = "attempt" /\ Ready("dispenser")
  /\ Call("dispenser", <<"stopPattern">> \o SetSynced(hora))
  /\ ultimo' \in {"rejected", "recorded"}
  /\ fase' = "patched"
  /\ UNCHANGED <<visto, led, porAspa, intento, turnos, ffase, pausa, hora>>

AttemptReturns ==
  /\ fase = "patched" /\ Ready("dispenser")
  /\ fase' = IF ultimo = "recorded" THEN "recorded" ELSE AfterFailure
  /\ UNCHANGED <<callers, led, porAspa, intento, ultimo, turnos, ffase, pausa, hora>>

(* Off after the last failure, or while there is no valid time.            *)
ShowResult ==
  /\ fase \in {"failed", "recorded"} /\ Ready("dispenser")
  /\ Call("dispenser", SetSynced(fase = "recorded" /\ hora))
  /\ fase' = "finish"
  /\ UNCHANGED <<visto, led, porAspa, intento, ultimo, turnos, ffase, pausa, hora>>

(* The semaphore is given; the blink_stop of dispenser_check_aspa_detected *)
(* follows if that function had stopped the motor.                         *)
Finish ==
  /\ fase = "finish" /\ Ready("dispenser")
  /\ pausa' = IF pausa = "dispenser" THEN "libre" ELSE pausa
  /\ Call("dispenser", IF porAspa THEN BlinkStop ELSE <<>>)
  /\ fase' = "idle"
  /\ UNCHANGED <<visto, led, porAspa, intento, ultimo, turnos, ffase, hora>>

-----------------------------------------------------------------------------
(* fetch_task: flashes after the GET, then the LED tells the time's state. *)

FetchShows ==
  /\ ffase = "idle" /\ Ready("fetch") /\ pausa = "libre"
  /\ pausa' = "fetch"
  /\ Call("fetch", PatternFetch)
  /\ ffase' = "shown"
  /\ UNCHANGED <<visto, led, dispenserVars, hora>>

FetchStores ==
  /\ ffase = "shown" /\ Ready("fetch")
  /\ Call("fetch", SetSynced(hora))
  /\ ffase' = "fetched"
  /\ UNCHANGED <<visto, led, dispenserVars, pausa, hora>>

(* The fetch is over, with a stored table or without one.                  *)
FetchEnds ==
  /\ ffase \in {"shown", "fetched"} /\ Ready("fetch")
  /\ pausa' = "libre"
  /\ ffase' = "idle"
  /\ UNCHANGED <<callers, led, dispenserVars, hora>>

(* rtc_time_sync_with_timezone succeeds.                                   *)
TimeSynchronised ==
  /\ ~corrupto /\ hora' = TRUE
  /\ UNCHANGED <<callers, led, dispenserVars, ffase, pausa>>

LedSteps(c) ==
  \/ ReadHandle(c) \/ DeleteTask(c) \/ ClearHandle(c) \/ SetLevel(c)
  \/ CreateBlink(c) \/ PatternAsync(c) \/ PatternStop(c)

DispenserTask ==
  \/ LedSteps("dispenser")
  \/ MotorStart \/ NoVane \/ NextPass \/ MotorStop \/ SkipUpdate \/ BeginUpdate
  \/ BeginAttempt \/ AttemptReturnsEarly \/ AttemptPatches \/ AttemptReturns
  \/ ShowResult \/ Finish

FetchTask == LedSteps("fetch") \/ FetchShows \/ FetchStores \/ FetchEnds

Next == DispenserTask \/ FetchTask \/ Toggle \/ TimeSynchronised

Spec == Init /\ [][Next]_vars

-----------------------------------------------------------------------------
(* As long as no task was deleted twice, every pattern task is known by a  *)
(* handle: dispenser_led.c can still stop it.                              *)
NoOrphans == ~corrupto => vivas \subseteq {blink, update}

(* The fast blink ends with the turn, whatever fetch_task did to it.       *)
BlinkEnds ==
  Ready("dispenser") /\ fase \notin {"turning", "watched"} =>
    blink \notin vivas

(* Outside an update the update pattern runs only if the last attempt      *)
(* returned before its PATCH.                                              *)
PatternOnlyAfterFailure ==
  Ready("dispenser") /\ update # 0 /\ fase \in {"idle", "turning", "watched", "stopped"}
    => ultimo = "early"

(* vTaskDelete gets the handle of a task that exists.                      *)
NoDoubleDelete == ~corrupto
=============================================================================
