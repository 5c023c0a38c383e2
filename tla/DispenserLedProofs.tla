--------------------------- MODULE DispenserLedProofs ---------------------------
(***************************************************************************)
(* Proofs about DispenserLed, for any number of turns and of attempts:     *)
(* types, and that short of a double deletion no pattern task is lost, the *)
(* blink ends with the turn and the update pattern with its PATCH.         *)
(***************************************************************************)
EXTENDS DispenserLed, TLAPS

-----------------------------------------------------------------------------
(* Programs.                                                               *)

AtOp(c, op) == prog[c] # <<>> /\ Head(prog[c]) = op
Has(c, op) == \E i \in 1 .. Len(prog[c]) : prog[c][i] = op

LEMMA TailShape ==
  ASSUME NEW s \in Seq(Op), s # <<>>
  PROVE  /\ Tail(s) \in Seq(Op) /\ Len(s) \in Nat /\ Len(s) > 0 /\ Head(s) = s[1]
         /\ Len(Tail(s)) = Len(s) - 1
         /\ \A i \in 1 .. Len(s) - 1 : Tail(s)[i] = s[i + 1]
  OBVIOUS

LEMMA ReplacedShape ==
  ASSUME NEW s \in Seq(Op), s # <<>>, NEW op \in Op
  PROVE  /\ <<op>> \o Tail(s) \in Seq(Op)
         /\ Len(s) \in Nat /\ Len(s) > 0 /\ Head(s) = s[1]
         /\ Len(<<op>> \o Tail(s)) = Len(s)
         /\ (<<op>> \o Tail(s))[1] = op
         /\ \A i \in 2 .. Len(s) : (<<op>> \o Tail(s))[i] = s[i]
  OBVIOUS

(* What dispenser_led.c does on behalf of a caller, and what the updates   *)
(* put around it.                                                          *)
LEMMA SyncedShape ==
  ASSUME NEW v \in BOOLEAN
  PROVE  /\ SetSynced(v) \in Seq(Op) /\ Len(SetSynced(v)) = 2
         /\ SetSynced(v)[1] = "kill" /\ SetSynced(v)[2] \in {"on", "off"}
  BY DEF SetSynced, Op

LEMMA BlinkStartShape ==
  /\ BlinkStart \in Seq(Op) /\ Len(BlinkStart) = 2
  /\ BlinkStart[1] = "kill" /\ BlinkStart[2] = "blink"
  BY DEF BlinkStart, Op

LEMMA BlinkStopShape ==
  /\ BlinkStop \in Seq(Op) /\ Len(BlinkStop) = 2
  /\ BlinkStop[1] = "kill" /\ BlinkStop[2] = "off"
  BY DEF BlinkStop, Op

LEMMA PatternFetchShape ==
  /\ PatternFetch \in Seq(Op) /\ Len(PatternFetch) = 2
  /\ PatternFetch[1] = "on" /\ PatternFetch[2] = "off"
  BY DEF PatternFetch, Op

Attempt == LedOff \o <<"pattern">> \o PatternFetch

LEMMA AttemptShape ==
  /\ Attempt \in Seq(Op) /\ Len(Attempt) = 5
  /\ Attempt[1] = "kill" /\ Attempt[2] = "off" /\ Attempt[3] = "pattern"
  /\ Attempt[4] = "on" /\ Attempt[5] = "off"
  BY DEF Attempt, LedOff, PatternFetch, Op

Patch(v) == <<"stopPattern">> \o SetSynced(v)

LEMMA PatchShape ==
  ASSUME NEW v \in BOOLEAN
  PROVE  /\ Patch(v) \in Seq(Op) /\ Len(Patch(v)) = 3
         /\ Patch(v)[1] = "stopPattern" /\ Patch(v)[2] = "kill"
         /\ Patch(v)[3] \in {"on", "off"}
  BY DEF Patch, SetSynced, Op

-----------------------------------------------------------------------------
(* Type correctness.                                                       *)

(* The last attempt is never tried again, and names of tasks in the        *)
(* handles are of tasks that were created.                                 *)
TypeInv ==
  /\ TypeOK
  /\ fase = "retry" => intento < FIRESTORE_UPDATE_RETRIES
  /\ blink \in 0 .. creadas /\ update \in 0 .. creadas

LEMMA TypeInit == Init => TypeInv
  <1> SUFFICES ASSUME Init PROVE TypeInv
    OBVIOUS
  <1>1. prog \in [Caller -> Seq(Op)] /\ visto \in [Caller -> Nat]
    BY DEF Init
  <1>2. corrupto \in BOOLEAN /\ porAspa \in BOOLEAN /\ hora \in BOOLEAN
    BY DEF Init
  <1>3. QED
    BY <1>1, <1>2, LedAssumption DEF Init, TypeInv, TypeOK, Fase, Caller

LEMMA TypeNext == TypeInv /\ [Next]_vars => TypeInv'
  <1> SUFFICES ASSUME TypeInv, [Next]_vars PROVE TypeInv'
    OBVIOUS
  <1> USE DEF TypeInv, TypeOK
  <1>1. ASSUME NEW c \in Caller, ReadHandle(c) PROVE TypeInv'
    <2>1. prog' \in [Caller -> Seq(Op)]
      <3>1. CASE blink = 0
        <4>1. prog' = [prog EXCEPT ![c] = Tail(@)] /\ prog[c] # <<>>
          BY <1>1, <3>1 DEF ReadHandle, Doing, Done
        <4>2. QED
          BY <4>1, TailShape
      <3>2. CASE blink # 0
        <4>1. prog' = [prog EXCEPT ![c] = <<"delete">> \o Tail(@)] /\ prog[c] # <<>>
          BY <1>1, <3>2 DEF ReadHandle, Doing, Becomes
        <4>2. QED
          BY <4>1, ReplacedShape DEF Op
      <3>3. QED
        BY <3>1, <3>2
    <2>2. corrupto' \in BOOLEAN /\ UNCHANGED <<porAspa, hora>>
      BY <1>1 DEF ReadHandle, dispenserVars, led
    <2>3. /\ visto' \in [Caller -> Nat] /\ creadas' \in Nat
          /\ vivas' \in SUBSET (1 .. creadas') /\ nivel' \in {0, 1}
          /\ blink' \in 0 .. creadas' /\ update' \in 0 .. creadas'
      BY <1>1 DEF ReadHandle, Doing, NewTask, led
    <2>4. UNCHANGED <<fase, intento, ultimo, ffase, pausa, turnos>>
      BY <1>1 DEF ReadHandle, dispenserVars
    <2>5. QED
      BY <2>1, <2>2, <2>3, <2>4
  <1>2. ASSUME NEW c \in Caller, DeleteTask(c) PROVE TypeInv'
    <2>1. prog' \in [Caller -> Seq(Op)]
      BY <1>2, ReplacedShape, TailShape DEF DeleteTask, Doing, Done, Becomes, Op
    <2>2. corrupto' \in BOOLEAN /\ UNCHANGED <<porAspa, hora>>
      BY <1>2 DEF DeleteTask, dispenserVars, led
    <2>3. /\ visto' \in [Caller -> Nat] /\ creadas' \in Nat
          /\ vivas' \in SUBSET (1 .. creadas') /\ nivel' \in {0, 1}
          /\ blink' \in 0 .. creadas' /\ update' \in 0 .. creadas'
      BY <1>2 DEF DeleteTask, Doing, NewTask, led
    <2>4. UNCHANGED <<fase, intento, ultimo, ffase, pausa, turnos>>
      BY <1>2 DEF DeleteTask, dispenserVars
    <2>5. QED
      BY <2>1, <2>2, <2>3, <2>4
  <1>3. ASSUME NEW c \in Caller, ClearHandle(c) PROVE TypeInv'
    <2>1. prog' \in [Caller -> Seq(Op)]
      BY <1>3, TailShape DEF ClearHandle, Doing, Done
    <2>2. corrupto' \in BOOLEAN /\ UNCHANGED <<porAspa, hora>>
      BY <1>3 DEF ClearHandle, dispenserVars, led
    <2>3. /\ visto' \in [Caller -> Nat] /\ creadas' \in Nat
          /\ vivas' \in SUBSET (1 .. creadas') /\ nivel' \in {0, 1}
          /\ blink' \in 0 .. creadas' /\ update' \in 0 .. creadas'
      BY <1>3 DEF ClearHandle, Doing, NewTask, led
    <2>4. UNCHANGED <<fase, intento, ultimo, ffase, pausa, turnos>>
      BY <1>3 DEF ClearHandle, dispenserVars
    <2>5. QED
      BY <2>1, <2>2, <2>3, <2>4
  <1>4. ASSUME NEW c \in Caller, SetLevel(c) PROVE TypeInv'
    <2>1. prog' \in [Caller -> Seq(Op)]
      BY <1>4, TailShape DEF SetLevel, Doing, Done
    <2>2. corrupto' \in BOOLEAN /\ UNCHANGED <<porAspa, hora>>
      BY <1>4 DEF SetLevel, dispenserVars, led
    <2>3. /\ visto' \in [Caller -> Nat] /\ creadas' \in Nat
          /\ vivas' \in SUBSET (1 .. creadas') /\ nivel' \in {0, 1}
          /\ blink' \in 0 .. creadas' /\ update' \in 0 .. creadas'
      BY <1>4 DEF SetLevel, Doing, NewTask, led
    <2>4. UNCHANGED <<fase, intento, ultimo, ffase, pausa, turnos>>
      BY <1>4 DEF SetLevel, dispenserVars
    <2>5. QED
      BY <2>1, <2>2, <2>3, <2>4
  <1>5. ASSUME NEW c \in Caller, CreateBlink(c) PROVE TypeInv'
    <2>1. prog' \in [Caller -> Seq(Op)]
      BY <1>5, TailShape DEF CreateBlink, Doing, Done
    <2>2. corrupto' \in BOOLEAN /\ UNCHANGED <<porAspa, hora>>
      BY <1>5 DEF CreateBlink, dispenserVars, led
    <2>3. /\ visto' \in [Caller -> Nat] /\ creadas' \in Nat
          /\ vivas' \in SUBSET (1 .. creadas') /\ nivel' \in {0, 1}
          /\ blink' \in 0 .. creadas' /\ update' \in 0 .. creadas'
      <3>0. /\ UNCHANGED <<visto, update>>
            /\ nivel' \in {0, 1}
        BY <1>5 DEF CreateBlink
      <3>1. CASE NewTask /\ blink' = creadas + 1
        BY <1>5, <3>0, <3>1 DEF CreateBlink, NewTask
      <3>2. CASE UNCHANGED <<creadas, vivas, blink>>
        <4>1. /\ UNCHANGED <<creadas, vivas, blink>>
          BY <1>5, <3>2 DEF CreateBlink
        <4>2. QED
          BY <3>0, <4>1
      <3>3. QED
        BY <1>5, <3>1, <3>2 DEF CreateBlink
    <2>4. UNCHANGED <<fase, intento, ultimo, ffase, pausa, turnos>>
      BY <1>5 DEF CreateBlink, dispenserVars
    <2>5. QED
      BY <2>1, <2>2, <2>3, <2>4
  <1>6. ASSUME NEW c \in Caller, PatternAsync(c) PROVE TypeInv'
    <2>1. prog' \in [Caller -> Seq(Op)]
      BY <1>6, TailShape DEF PatternAsync, Doing, Done
    <2>2. corrupto' \in BOOLEAN /\ UNCHANGED <<porAspa, hora>>
      BY <1>6 DEF PatternAsync, dispenserVars, led
    <2>3. /\ visto' \in [Caller -> Nat] /\ creadas' \in Nat
          /\ vivas' \in SUBSET (1 .. creadas') /\ nivel' \in {0, 1}
          /\ blink' \in 0 .. creadas' /\ update' \in 0 .. creadas'
      <3>0. /\ UNCHANGED <<visto, blink>>
            /\ nivel' \in {0, 1}
        BY <1>6 DEF PatternAsync
      <3>1. CASE NewTask /\ update' = creadas + 1
        BY <1>6, <3>0, <3>1 DEF PatternAsync, NewTask
      <3>2. CASE UNCHANGED <<creadas, vivas, update>>
        <4>1. /\ UNCHANGED <<creadas, vivas, update>>
          BY <1>6, <3>2 DEF PatternAsync
        <4>2. QED
          BY <3>0, <4>1
      <3>3. QED
        BY <1>6, <3>1, <3>2 DEF PatternAsync
    <2>4. UNCHANGED <<fase, intento, ultimo, ffase, pausa, turnos>>
      BY <1>6 DEF PatternAsync, dispenserVars
    <2>5. QED
      BY <2>1, <2>2, <2>3, <2>4
  <1>7. ASSUME NEW c \in Caller, PatternStop(c) PROVE TypeInv'
    <2>1. prog' \in [Caller -> Seq(Op)]
      BY <1>7, TailShape DEF PatternStop, Doing, Done
    <2>2. corrupto' \in BOOLEAN /\ UNCHANGED <<porAspa, hora>>
      BY <1>7 DEF PatternStop, dispenserVars, led
    <2>3. /\ visto' \in [Caller -> Nat] /\ creadas' \in Nat
          /\ vivas' \in SUBSET (1 .. creadas') /\ nivel' \in {0, 1}
          /\ blink' \in 0 .. creadas' /\ update' \in 0 .. creadas'
      <3>0. /\ UNCHANGED <<visto, blink, creadas>>
            /\ nivel' \in {0, 1}
        BY <1>7 DEF PatternStop
      <3>1. CASE update = 0
        BY <1>7, <3>0, <3>1 DEF PatternStop, NewTask
      <3>2. CASE update # 0
        <4>1. /\ update' = 0 /\ vivas' = vivas \ {update}
          BY <1>7, <3>2 DEF PatternStop
        <4>2. QED
          BY <3>0, <4>1
      <3>3. QED
        BY <1>7, <3>1, <3>2 DEF PatternStop
    <2>4. UNCHANGED <<fase, intento, ultimo, ffase, pausa, turnos>>
      BY <1>7 DEF PatternStop, dispenserVars
    <2>5. QED
      BY <2>1, <2>2, <2>3, <2>4
  <1>8. CASE MotorStart
    <2>1. prog' \in [Caller -> Seq(Op)]
      BY <1>8, BlinkStartShape DEF MotorStart, Call, Caller
    <2>2. porAspa' \in BOOLEAN /\ hora' \in BOOLEAN /\ UNCHANGED corrupto
      BY <1>8 DEF MotorStart, led, dispenserVars
    <2>3. nivel' \in {0, 1} /\ UNCHANGED <<visto, creadas, vivas, blink, update>>
      BY <1>8 DEF MotorStart, led, callers
    <2>4. /\ fase' \in Fase /\ intento' \in 0 .. FIRESTORE_UPDATE_RETRIES
          /\ fase' = "retry" => intento' < FIRESTORE_UPDATE_RETRIES
          /\ ultimo' \in {"none", "early", "rejected", "recorded"}
          /\ ffase' \in {"idle", "shown", "fetched"} /\ pausa' \in {"libre"} \cup Caller
          /\ turnos' \in 0 .. MaxTurns
      BY <1>8, LedAssumption DEF MotorStart, AfterFailure, Fase, Caller, dispenserVars
    <2>5. QED
      BY <2>1, <2>2, <2>3, <2>4
  <1>9. CASE NoVane
    <2>1. prog' \in [Caller -> Seq(Op)]
      BY <1>9, BlinkStopShape DEF NoVane, Call, Caller
    <2>2. porAspa' \in BOOLEAN /\ hora' \in BOOLEAN /\ UNCHANGED corrupto
      BY <1>9 DEF NoVane, led, dispenserVars
    <2>3. nivel' \in {0, 1} /\ UNCHANGED <<visto, creadas, vivas, blink, update>>
      BY <1>9 DEF NoVane, led, callers
    <2>4. /\ fase' \in Fase /\ intento' \in 0 .. FIRESTORE_UPDATE_RETRIES
          /\ fase' = "retry" => intento' < FIRESTORE_UPDATE_RETRIES
          /\ ultimo' \in {"none", "early", "rejected", "recorded"}
          /\ ffase' \in {"idle", "shown", "fetched"} /\ pausa' \in {"libre"} \cup Caller
          /\ turnos' \in 0 .. MaxTurns
      BY <1>9, LedAssumption DEF NoVane, AfterFailure, Fase, Caller, dispenserVars
    <2>5. QED
      BY <2>1, <2>2, <2>3, <2>4
  <1>10. CASE NextPass
    <2>1. prog' \in [Caller -> Seq(Op)]
      BY <1>10 DEF NextPass, callers
    <2>2. porAspa' \in BOOLEAN /\ hora' \in BOOLEAN /\ UNCHANGED corrupto
      BY <1>10 DEF NextPass, led, dispenserVars
    <2>3. nivel' \in {0, 1} /\ UNCHANGED <<visto, creadas, vivas, blink, update>>
      BY <1>10 DEF NextPass, led, callers
    <2>4. /\ fase' \in Fase /\ intento' \in 0 .. FIRESTORE_UPDATE_RETRIES
          /\ fase' = "retry" => intento' < FIRESTORE_UPDATE_RETRIES
          /\ ultimo' \in {"none", "early", "rejected", "recorded"}
          /\ ffase' \in {"idle", "shown", "fetched"} /\ pausa' \in {"libre"} \cup Caller
          /\ turnos' \in 0 .. MaxTurns
      BY <1>10, LedAssumption DEF NextPass, AfterFailure, Fase, Caller, dispenserVars
    <2>5. QED
      BY <2>1, <2>2, <2>3, <2>4
  <1>11. CASE MotorStop
    <2>1. prog' \in [Caller -> Seq(Op)]
      BY <1>11, BlinkStopShape DEF MotorStop, Call, Caller
    <2>2. porAspa' \in BOOLEAN /\ hora' \in BOOLEAN /\ UNCHANGED corrupto
      BY <1>11 DEF MotorStop, led, dispenserVars
    <2>3. nivel' \in {0, 1} /\ UNCHANGED <<visto, creadas, vivas, blink, update>>
      BY <1>11 DEF MotorStop, led, callers
    <2>4. /\ fase' \in Fase /\ intento' \in 0 .. FIRESTORE_UPDATE_RETRIES
          /\ fase' = "retry" => intento' < FIRESTORE_UPDATE_RETRIES
          /\ ultimo' \in {"none", "early", "rejected", "recorded"}
          /\ ffase' \in {"idle", "shown", "fetched"} /\ pausa' \in {"libre"} \cup Caller
          /\ turnos' \in 0 .. MaxTurns
      BY <1>11, LedAssumption DEF MotorStop, AfterFailure, Fase, Caller, dispenserVars
    <2>5. QED
      BY <2>1, <2>2, <2>3, <2>4
  <1>12. CASE SkipUpdate
    <2>1. prog' \in [Caller -> Seq(Op)]
      BY <1>12 DEF SkipUpdate, callers
    <2>2. porAspa' \in BOOLEAN /\ hora' \in BOOLEAN /\ UNCHANGED corrupto
      BY <1>12 DEF SkipUpdate, led, dispenserVars
    <2>3. nivel' \in {0, 1} /\ UNCHANGED <<visto, creadas, vivas, blink, update>>
      BY <1>12 DEF SkipUpdate, led, callers
    <2>4. /\ fase' \in Fase /\ intento' \in 0 .. FIRESTORE_UPDATE_RETRIES
          /\ fase' = "retry" => intento' < FIRESTORE_UPDATE_RETRIES
          /\ ultimo' \in {"none", "early", "rejected", "recorded"}
          /\ ffase' \in {"idle", "shown", "fetched"} /\ pausa' \in {"libre"} \cup Caller
          /\ turnos' \in 0 .. MaxTurns
      BY <1>12, LedAssumption DEF SkipUpdate, AfterFailure, Fase, Caller, dispenserVars
    <2>5. QED
      BY <2>1, <2>2, <2>3, <2>4
  <1>13. CASE BeginUpdate
    <2>1. prog' \in [Caller -> Seq(Op)]
      BY <1>13 DEF BeginUpdate, callers
    <2>2. porAspa' \in BOOLEAN /\ hora' \in BOOLEAN /\ UNCHANGED corrupto
      BY <1>13 DEF BeginUpdate, led, dispenserVars
    <2>3. nivel' \in {0, 1} /\ UNCHANGED <<visto, creadas, vivas, blink, update>>
      BY <1>13 DEF BeginUpdate, led, callers
    <2>4. /\ fase' \in Fase /\ intento' \in 0 .. FIRESTORE_UPDATE_RETRIES
          /\ fase' = "retry" => intento' < FIRESTORE_UPDATE_RETRIES
          /\ ultimo' \in {"none", "early", "rejected", "recorded"}
          /\ ffase' \in {"idle", "shown", "fetched"} /\ pausa' \in {"libre"} \cup Caller
          /\ turnos' \in 0 .. MaxTurns
      BY <1>13, LedAssumption DEF BeginUpdate, AfterFailure, Fase, Caller, dispenserVars
    <2>5. QED
      BY <2>1, <2>2, <2>3, <2>4
  <1>14. CASE BeginAttempt
    <2>1. prog' \in [Caller -> Seq(Op)]
      BY <1>14, AttemptShape DEF BeginAttempt, Call, Attempt
    <2>2. porAspa' \in BOOLEAN /\ hora' \in BOOLEAN /\ UNCHANGED corrupto
      BY <1>14 DEF BeginAttempt, led, dispenserVars
    <2>3. nivel' \in {0, 1} /\ UNCHANGED <<visto, creadas, vivas, blink, update>>
      BY <1>14 DEF BeginAttempt, led, callers
    <2>4. /\ fase' \in Fase /\ intento' \in 0 .. FIRESTORE_UPDATE_RETRIES
          /\ fase' = "retry" => intento' < FIRESTORE_UPDATE_RETRIES
          /\ ultimo' \in {"none", "early", "rejected", "recorded"}
          /\ ffase' \in {"idle", "shown", "fetched"} /\ pausa' \in {"libre"} \cup Caller
          /\ turnos' \in 0 .. MaxTurns
      BY <1>14, LedAssumption DEF BeginAttempt, AfterFailure, Fase, Caller, dispenserVars
    <2>5. QED
      BY <2>1, <2>2, <2>3, <2>4
  <1>15. CASE AttemptReturnsEarly
    <2>1. prog' \in [Caller -> Seq(Op)]
      BY <1>15 DEF AttemptReturnsEarly, callers
    <2>2. porAspa' \in BOOLEAN /\ hora' \in BOOLEAN /\ UNCHANGED corrupto
      BY <1>15 DEF AttemptReturnsEarly, led, dispenserVars
    <2>3. nivel' \in {0, 1} /\ UNCHANGED <<visto, creadas, vivas, blink, update>>
      BY <1>15 DEF AttemptReturnsEarly, led, callers
    <2>4. /\ fase' \in Fase /\ intento' \in 0 .. FIRESTORE_UPDATE_RETRIES
          /\ fase' = "retry" => intento' < FIRESTORE_UPDATE_RETRIES
          /\ ultimo' \in {"none", "early", "rejected", "recorded"}
          /\ ffase' \in {"idle", "shown", "fetched"} /\ pausa' \in {"libre"} \cup Caller
          /\ turnos' \in 0 .. MaxTurns
      BY <1>15, LedAssumption DEF AttemptReturnsEarly, AfterFailure, Fase, Caller, dispenserVars
    <2>5. QED
      BY <2>1, <2>2, <2>3, <2>4
  <1>16. CASE AttemptPatches
    <2>1. prog' \in [Caller -> Seq(Op)]
      BY <1>16, PatchShape DEF AttemptPatches, Call, Patch
    <2>2. porAspa' \in BOOLEAN /\ hora' \in BOOLEAN /\ UNCHANGED corrupto
      BY <1>16 DEF AttemptPatches, led, dispenserVars
    <2>3. nivel' \in {0, 1} /\ UNCHANGED <<visto, creadas, vivas, blink, update>>
      BY <1>16 DEF AttemptPatches, led, callers
    <2>4. /\ fase' \in Fase /\ intento' \in 0 .. FIRESTORE_UPDATE_RETRIES
          /\ fase' = "retry" => intento' < FIRESTORE_UPDATE_RETRIES
          /\ ultimo' \in {"none", "early", "rejected", "recorded"}
          /\ ffase' \in {"idle", "shown", "fetched"} /\ pausa' \in {"libre"} \cup Caller
          /\ turnos' \in 0 .. MaxTurns
      BY <1>16, LedAssumption DEF AttemptPatches, AfterFailure, Fase, Caller, dispenserVars
    <2>5. QED
      BY <2>1, <2>2, <2>3, <2>4
  <1>17. CASE AttemptReturns
    <2>1. prog' \in [Caller -> Seq(Op)]
      BY <1>17 DEF AttemptReturns, callers
    <2>2. porAspa' \in BOOLEAN /\ hora' \in BOOLEAN /\ UNCHANGED corrupto
      BY <1>17 DEF AttemptReturns, led, dispenserVars
    <2>3. nivel' \in {0, 1} /\ UNCHANGED <<visto, creadas, vivas, blink, update>>
      BY <1>17 DEF AttemptReturns, led, callers
    <2>4. /\ fase' \in Fase /\ intento' \in 0 .. FIRESTORE_UPDATE_RETRIES
          /\ fase' = "retry" => intento' < FIRESTORE_UPDATE_RETRIES
          /\ ultimo' \in {"none", "early", "rejected", "recorded"}
          /\ ffase' \in {"idle", "shown", "fetched"} /\ pausa' \in {"libre"} \cup Caller
          /\ turnos' \in 0 .. MaxTurns
      BY <1>17, LedAssumption DEF AttemptReturns, AfterFailure, Fase, Caller, dispenserVars
    <2>5. QED
      BY <2>1, <2>2, <2>3, <2>4
  <1>18. CASE ShowResult
    <2>1. prog' \in [Caller -> Seq(Op)]
      BY <1>18, SyncedShape DEF ShowResult, Call, Caller
    <2>2. porAspa' \in BOOLEAN /\ hora' \in BOOLEAN /\ UNCHANGED corrupto
      BY <1>18 DEF ShowResult, led, dispenserVars
    <2>3. nivel' \in {0, 1} /\ UNCHANGED <<visto, creadas, vivas, blink, update>>
      BY <1>18 DEF ShowResult, led, callers
    <2>4. /\ fase' \in Fase /\ intento' \in 0 .. FIRESTORE_UPDATE_RETRIES
          /\ fase' = "retry" => intento' < FIRESTORE_UPDATE_RETRIES
          /\ ultimo' \in {"none", "early", "rejected", "recorded"}
          /\ ffase' \in {"idle", "shown", "fetched"} /\ pausa' \in {"libre"} \cup Caller
          /\ turnos' \in 0 .. MaxTurns
      BY <1>18, LedAssumption DEF ShowResult, AfterFailure, Fase, Caller, dispenserVars
    <2>5. QED
      BY <2>1, <2>2, <2>3, <2>4
  <1>19. CASE Finish
    <2>1. prog' \in [Caller -> Seq(Op)]
      <3>1. CASE porAspa
        BY <1>19, <3>1, BlinkStopShape DEF Finish, Call
      <3>2. CASE ~porAspa
        <4>1. prog' = [prog EXCEPT !["dispenser"] = <<>>]
          BY <1>19, <3>2 DEF Finish, Call
        <4>2. <<>> \in Seq(Op)
          OBVIOUS
        <4>3. QED
          BY <4>1, <4>2
      <3>3. QED
        BY <3>1, <3>2
    <2>2. porAspa' \in BOOLEAN /\ hora' \in BOOLEAN /\ UNCHANGED corrupto
      BY <1>19 DEF Finish, led, dispenserVars
    <2>3. nivel' \in {0, 1} /\ UNCHANGED <<visto, creadas, vivas, blink, update>>
      BY <1>19 DEF Finish, led, callers
    <2>4. /\ fase' \in Fase /\ intento' \in 0 .. FIRESTORE_UPDATE_RETRIES
          /\ fase' = "retry" => intento' < FIRESTORE_UPDATE_RETRIES
          /\ ultimo' \in {"none", "early", "rejected", "recorded"}
          /\ ffase' \in {"idle", "shown", "fetched"} /\ pausa' \in {"libre"} \cup Caller
          /\ turnos' \in 0 .. MaxTurns
      BY <1>19, LedAssumption DEF Finish, AfterFailure, Fase, Caller, dispenserVars
    <2>5. QED
      BY <2>1, <2>2, <2>3, <2>4
  <1>20. CASE FetchShows
    <2>1. prog' \in [Caller -> Seq(Op)]
      BY <1>20, PatternFetchShape DEF FetchShows, Call, Caller
    <2>2. porAspa' \in BOOLEAN /\ hora' \in BOOLEAN /\ UNCHANGED corrupto
      BY <1>20 DEF FetchShows, led, dispenserVars
    <2>3. nivel' \in {0, 1} /\ UNCHANGED <<visto, creadas, vivas, blink, update>>
      BY <1>20 DEF FetchShows, led, callers
    <2>4. /\ fase' \in Fase /\ intento' \in 0 .. FIRESTORE_UPDATE_RETRIES
          /\ fase' = "retry" => intento' < FIRESTORE_UPDATE_RETRIES
          /\ ultimo' \in {"none", "early", "rejected", "recorded"}
          /\ ffase' \in {"idle", "shown", "fetched"} /\ pausa' \in {"libre"} \cup Caller
          /\ turnos' \in 0 .. MaxTurns
      BY <1>20, LedAssumption DEF FetchShows, AfterFailure, Fase, Caller, dispenserVars
    <2>5. QED
      BY <2>1, <2>2, <2>3, <2>4
  <1>21. CASE FetchStores
    <2>1. prog' \in [Caller -> Seq(Op)]
      BY <1>21, SyncedShape DEF FetchStores, Call, Caller
    <2>2. porAspa' \in BOOLEAN /\ hora' \in BOOLEAN /\ UNCHANGED corrupto
      BY <1>21 DEF FetchStores, led, dispenserVars
    <2>3. nivel' \in {0, 1} /\ UNCHANGED <<visto, creadas, vivas, blink, update>>
      BY <1>21 DEF FetchStores, led, callers
    <2>4. /\ fase' \in Fase /\ intento' \in 0 .. FIRESTORE_UPDATE_RETRIES
          /\ fase' = "retry" => intento' < FIRESTORE_UPDATE_RETRIES
          /\ ultimo' \in {"none", "early", "rejected", "recorded"}
          /\ ffase' \in {"idle", "shown", "fetched"} /\ pausa' \in {"libre"} \cup Caller
          /\ turnos' \in 0 .. MaxTurns
      BY <1>21, LedAssumption DEF FetchStores, AfterFailure, Fase, Caller, dispenserVars
    <2>5. QED
      BY <2>1, <2>2, <2>3, <2>4
  <1>22. CASE FetchEnds
    <2>1. prog' \in [Caller -> Seq(Op)]
      BY <1>22 DEF FetchEnds, callers
    <2>2. porAspa' \in BOOLEAN /\ hora' \in BOOLEAN /\ UNCHANGED corrupto
      BY <1>22 DEF FetchEnds, led, dispenserVars
    <2>3. nivel' \in {0, 1} /\ UNCHANGED <<visto, creadas, vivas, blink, update>>
      BY <1>22 DEF FetchEnds, led, callers
    <2>4. /\ fase' \in Fase /\ intento' \in 0 .. FIRESTORE_UPDATE_RETRIES
          /\ fase' = "retry" => intento' < FIRESTORE_UPDATE_RETRIES
          /\ ultimo' \in {"none", "early", "rejected", "recorded"}
          /\ ffase' \in {"idle", "shown", "fetched"} /\ pausa' \in {"libre"} \cup Caller
          /\ turnos' \in 0 .. MaxTurns
      BY <1>22, LedAssumption DEF FetchEnds, AfterFailure, Fase, Caller, dispenserVars
    <2>5. QED
      BY <2>1, <2>2, <2>3, <2>4
  <1>23. CASE Toggle
    <2>1. prog' \in [Caller -> Seq(Op)]
      BY <1>23 DEF Toggle, callers
    <2>2. porAspa' \in BOOLEAN /\ hora' \in BOOLEAN /\ UNCHANGED corrupto
      BY <1>23 DEF Toggle, led, dispenserVars
    <2>3. nivel' \in {0, 1} /\ UNCHANGED <<visto, creadas, vivas, blink, update>>
      BY <1>23 DEF Toggle, led, callers
    <2>4. /\ fase' \in Fase /\ intento' \in 0 .. FIRESTORE_UPDATE_RETRIES
          /\ fase' = "retry" => intento' < FIRESTORE_UPDATE_RETRIES
          /\ ultimo' \in {"none", "early", "rejected", "recorded"}
          /\ ffase' \in {"idle", "shown", "fetched"} /\ pausa' \in {"libre"} \cup Caller
          /\ turnos' \in 0 .. MaxTurns
      BY <1>23, LedAssumption DEF Toggle, AfterFailure, Fase, Caller, dispenserVars
    <2>5. QED
      BY <2>1, <2>2, <2>3, <2>4
  <1>24. CASE TimeSynchronised
    <2>1. prog' \in [Caller -> Seq(Op)]
      BY <1>24 DEF TimeSynchronised, callers
    <2>2. porAspa' \in BOOLEAN /\ hora' \in BOOLEAN /\ UNCHANGED corrupto
      BY <1>24 DEF TimeSynchronised, led, dispenserVars
    <2>3. nivel' \in {0, 1} /\ UNCHANGED <<visto, creadas, vivas, blink, update>>
      BY <1>24 DEF TimeSynchronised, led, callers
    <2>4. /\ fase' \in Fase /\ intento' \in 0 .. FIRESTORE_UPDATE_RETRIES
          /\ fase' = "retry" => intento' < FIRESTORE_UPDATE_RETRIES
          /\ ultimo' \in {"none", "early", "rejected", "recorded"}
          /\ ffase' \in {"idle", "shown", "fetched"} /\ pausa' \in {"libre"} \cup Caller
          /\ turnos' \in 0 .. MaxTurns
      BY <1>24, LedAssumption DEF TimeSynchronised, AfterFailure, Fase, Caller, dispenserVars
    <2>5. QED
      BY <2>1, <2>2, <2>3, <2>4
  <1>25. CASE UNCHANGED vars
    BY <1>25 DEF vars, callers, led, dispenserVars
  <1>26. QED
    BY <1>1, <1>2, <1>3, <1>4, <1>5, <1>6, <1>7, <1>8, <1>9, <1>10, <1>11,
       <1>12, <1>13, <1>14, <1>15, <1>16, <1>17, <1>18, <1>19, <1>20, <1>21,
       <1>22, <1>23, <1>24, <1>25 DEF Next, DispenserTask, FetchTask,
       LedSteps, Caller

(* Every variable keeps its type; a dose gets FIRESTORE_UPDATE_RETRIES     *)
(* attempts at most and the handles name tasks that were created.          *)
THEOREM LedTypeCorrect == Spec => []TypeOK
  <1>1. TypeInv => TypeOK
    BY DEF TypeInv
  <1>2. QED
    BY <1>1, TypeInit, TypeNext, PTL DEF Spec

-----------------------------------------------------------------------------
(* The programs the callers can be in the middle of.                       *)

Kill == {"kill", "delete", "null"}

(* A deletion is at the head of a program, a new blink task comes right    *)
(* after one, fetch_task creates no task, and a pattern task belongs to    *)
(* its phase.                                                              *)
ShapeInv ==
  /\ \A c \in Caller : \A i \in 2 .. Len(prog[c]) :
       /\ prog[c][i] \notin {"delete", "null"}
       /\ prog[c][i] = "blink" => i = 2 /\ prog[c][1] \in Kill
  /\ \A op \in {"blink", "pattern", "stopPattern"} : ~Has("fetch", op)
  /\ Has("dispenser", "blink") => fase = "turning"
  /\ Has("dispenser", "pattern") => fase = "attempt"

(* The functions the tasks call: none begins in the middle of a deletion.  *)
Whole(s) ==
  /\ s \in Seq(Op)
  /\ \A i \in 1 .. Len(s) :
       /\ s[i] \notin {"delete", "null"}
       /\ s[i] = "blink" => i = 2 /\ s[1] = "kill"

Calls(c, s) == prog[c] = <<>> /\ prog' = [prog EXCEPT ![c] = s] /\ Whole(s)

LEMMA AfterDone ==
  ASSUME TypeInv, ShapeInv, NEW c \in Caller, prog[c] # <<>>, Done(c)
  PROVE  /\ ~AtOp(c, "delete")' /\ ~AtOp(c, "null")'
         /\ AtOp(c, "blink")' => Head(prog[c]) \in Kill
         /\ \A d \in Caller \ {c} : prog'[d] = prog[d]
  <1>1. /\ Len(prog'[c]) = Len(prog[c]) - 1 /\ Len(prog[c]) \in Nat /\ prog'[c] \in Seq(Op)
        /\ \A i \in 1 .. Len(prog[c]) - 1 : prog'[c][i] = prog[c][i + 1]
        /\ Head(prog[c]) = prog[c][1]
    BY TailShape DEF TypeInv, TypeOK, Done
  <1>2. \A d \in Caller \ {c} : prog'[d] = prog[d]
    BY DEF TypeInv, TypeOK, Done
  <1>3. \A op : AtOp(c, op)' => 2 \in 2 .. Len(prog[c]) /\ prog[c][2] = op
    BY <1>1, TailShape DEF AtOp
  <1>4. QED
    BY <1>1, <1>2, <1>3 DEF ShapeInv

LEMMA AfterReplace ==
  ASSUME TypeInv, NEW c \in Caller, NEW op \in Op, prog[c] # <<>>, Becomes(c, op)
  PROVE  /\ AtOp(c, op)' /\ \A x : AtOp(c, x)' => x = op
         /\ \A d \in Caller \ {c} : prog'[d] = prog[d]
  <1>1. prog'[c] = <<op>> \o Tail(prog[c])
    BY DEF TypeInv, TypeOK, Becomes
  <1>2. prog'[c] # <<>> /\ Head(prog'[c]) = op
    BY <1>1, ReplacedShape DEF TypeInv, TypeOK
  <1>3. \A d \in Caller \ {c} : prog'[d] = prog[d]
    BY DEF TypeInv, TypeOK, Becomes
  <1>4. QED
    BY <1>2, <1>3 DEF AtOp

LEMMA AfterCall ==
  ASSUME TypeInv, NEW c \in Caller, NEW s, Calls(c, s)
  PROVE  /\ ~AtOp(c, "delete")' /\ ~AtOp(c, "null")' /\ ~AtOp(c, "blink")'
         /\ \A d \in Caller \ {c} : prog'[d] = prog[d]
  <1>1. prog'[c] = s /\ \A d \in Caller \ {c} : prog'[d] = prog[d]
    BY DEF TypeInv, TypeOK, Calls
  <1>2. s # <<>> => 1 \in 1 .. Len(s) /\ Head(s) = s[1]
    BY TailShape DEF Calls, Whole
  <1>3. QED
    BY <1>1, <1>2 DEF AtOp, Calls, Whole

LEMMA DoneKeepsShape ==
  ASSUME TypeInv, ShapeInv, NEW c \in Caller, prog[c] # <<>>, Done(c), fase' = fase
  PROVE  ShapeInv'
  <1>1. /\ Len(prog'[c]) = Len(prog[c]) - 1 /\ Len(prog[c]) \in Nat
        /\ \A i \in 1 .. Len(prog[c]) - 1 : prog'[c][i] = prog[c][i + 1]
    BY TailShape DEF TypeInv, TypeOK, Done
  <1>2. \A d \in Caller \ {c} : prog'[d] = prog[d]
    BY DEF TypeInv, TypeOK, Done
  <1>3. \A op : \A d \in Caller : Has(d, op)' => Has(d, op)
    BY <1>1, <1>2 DEF Has
  <1>4. \A d \in Caller : \A i \in 2 .. Len(prog'[d]) :
          /\ prog'[d][i] \notin {"delete", "null"}
          /\ prog'[d][i] = "blink" => i = 2 /\ prog'[d][1] \in Kill
    <2>1. SUFFICES ASSUME NEW i \in 2 .. Len(prog'[c])
                   PROVE  prog'[c][i] \notin {"delete", "null", "blink"}
      BY <1>2 DEF ShapeInv
    <2>2. i + 1 \in 2 .. Len(prog[c]) /\ i + 1 # 2 /\ prog'[c][i] = prog[c][i + 1]
      BY <1>1
    <2>3. QED
      BY <2>2 DEF ShapeInv
  <1>5. QED
    BY <1>3, <1>4 DEF ShapeInv, Caller

LEMMA ReplaceKeepsShape ==
  ASSUME TypeInv, ShapeInv, NEW c \in Caller, prog[c] # <<>>, fase' = fase,
         NEW op \in {"delete", "null"}, Becomes(c, op)
  PROVE  ShapeInv'
  <1>1. /\ Len(prog'[c]) = Len(prog[c]) /\ Len(prog[c]) \in Nat
        /\ prog'[c][1] = op /\ \A i \in 2 .. Len(prog[c]) : prog'[c][i] = prog[c][i]
    BY ReplacedShape DEF TypeInv, TypeOK, Becomes, Op
  <1>2. \A d \in Caller \ {c} : prog'[d] = prog[d]
    BY DEF TypeInv, TypeOK, Becomes
  <1>3. \A d \in Caller, x \in {"blink", "pattern", "stopPattern"} : Has(d, x)' => Has(d, x)
    BY <1>1, <1>2 DEF Has
  <1>4. \A d \in Caller : \A i \in 2 .. Len(prog'[d]) :
          /\ prog'[d][i] \notin {"delete", "null"}
          /\ prog'[d][i] = "blink" => i = 2 /\ prog'[d][1] \in Kill
    BY <1>1, <1>2 DEF ShapeInv, Kill
  <1>5. QED
    BY <1>3, <1>4 DEF ShapeInv, Caller

LEMMA CallKeepsShape ==
  ASSUME TypeInv, ShapeInv, NEW c \in Caller, NEW s, Calls(c, s),
         \A i \in 1 .. Len(s) :
           /\ c = "fetch" => s[i] \notin {"blink", "pattern", "stopPattern"} /\ fase' = fase
           /\ s[i] = "blink" => fase' = "turning"
           /\ s[i] = "pattern" => fase' = "attempt",
         c = "fetch" => fase' = fase
  PROVE  ShapeInv'
  <1>1. prog'[c] = s /\ \A d \in Caller \ {c} : prog'[d] = prog[d]
    BY DEF TypeInv, TypeOK, Calls
  <1>2. \A d \in Caller : \A i \in 2 .. Len(prog'[d]) :
          /\ prog'[d][i] \notin {"delete", "null"}
          /\ prog'[d][i] = "blink" => i = 2 /\ prog'[d][1] \in Kill
    <2>1. SUFFICES ASSUME NEW i \in 2 .. Len(s)
                   PROVE  s[i] \notin {"delete", "null"} /\ (s[i] = "blink" => i = 2 /\ s[1] = "kill")
      BY <1>1 DEF ShapeInv, Kill
    <2>2. Len(s) \in Nat
      BY DEF Calls, Whole
    <2>3. i \in 1 .. Len(s)
      BY <2>2
    <2>4. QED
      BY <2>3 DEF Calls, Whole
  <1>3. \A op \in {"blink", "pattern", "stopPattern"} : ~Has("fetch", op)'
    BY <1>1 DEF ShapeInv, Has, Caller
  <1>4. /\ Has("dispenser", "blink")' => fase' = "turning"
        /\ Has("dispenser", "pattern")' => fase' = "attempt"
    BY <1>1 DEF ShapeInv, Has, Caller
  <1>5. QED
    BY <1>2, <1>3, <1>4 DEF ShapeInv

LEMMA ShapeInit == Init => ShapeInv
  <1> SUFFICES ASSUME Init PROVE ShapeInv
    OBVIOUS
  <1>1. \A c \in Caller : Len(prog[c]) = 0
    BY DEF Init
  <1>2. QED
    BY <1>1 DEF ShapeInv, Has, Caller

LEMMA ShapeNext == TypeInv /\ ShapeInv /\ [Next]_vars => ShapeInv'
  <1> SUFFICES ASSUME TypeInv, ShapeInv, [Next]_vars PROVE ShapeInv'
    OBVIOUS
  <1>1. ASSUME NEW c \in Caller, ReadHandle(c) PROVE ShapeInv'
    <2>1. prog[c] # <<>> /\ fase' = fase /\ (Done(c) \/ Becomes(c, "delete"))
      BY <1>1 DEF ReadHandle, Doing, dispenserVars
    <2>2. QED
      BY <2>1, DoneKeepsShape, ReplaceKeepsShape
  <1>2. ASSUME NEW c \in Caller, DeleteTask(c) PROVE ShapeInv'
    <2>1. prog[c] # <<>> /\ fase' = fase /\ Becomes(c, "null")
      BY <1>2 DEF DeleteTask, Doing, dispenserVars
    <2>2. QED
      BY <2>1, ReplaceKeepsShape
  <1>3. ASSUME NEW c \in Caller, ClearHandle(c) PROVE ShapeInv'
    <2>1. prog[c] # <<>> /\ fase' = fase /\ Done(c)
      BY <1>3 DEF ClearHandle, Doing, dispenserVars
    <2>2. QED
      BY <2>1, DoneKeepsShape
  <1>4. ASSUME NEW c \in Caller, SetLevel(c) PROVE ShapeInv'
    <2>1. prog[c] # <<>> /\ fase' = fase /\ Done(c)
      BY <1>4 DEF SetLevel, Doing, dispenserVars
    <2>2. QED
      BY <2>1, DoneKeepsShape
  <1>5. ASSUME NEW c \in Caller, CreateBlink(c) PROVE ShapeInv'
    <2>1. prog[c] # <<>> /\ fase' = fase /\ Done(c)
      BY <1>5 DEF CreateBlink, Doing, dispenserVars
    <2>2. QED
      BY <2>1, DoneKeepsShape
  <1>6. ASSUME NEW c \in Caller, PatternAsync(c) PROVE ShapeInv'
    <2>1. prog[c] # <<>> /\ fase' = fase /\ Done(c)
      BY <1>6 DEF PatternAsync, Doing, dispenserVars
    <2>2. QED
      BY <2>1, DoneKeepsShape
  <1>7. ASSUME NEW c \in Caller, PatternStop(c) PROVE ShapeInv'
    <2>1. prog[c] # <<>> /\ fase' = fase /\ Done(c)
      BY <1>7 DEF PatternStop, Doing, dispenserVars
    <2>2. QED
      BY <2>1, DoneKeepsShape
  <1>8. CASE MotorStart
    <2>1. /\ prog["dispenser"] = <<>> /\ prog' = [prog EXCEPT !["dispenser"] = BlinkStart]
          /\ fase' = "turning"
      BY <1>8 DEF MotorStart, Call, Ready, dispenserVars
    <2>2. /\ BlinkStart \in Seq(Op) /\ Whole(BlinkStart)
          /\ \A i \in 1 .. Len(BlinkStart) : BlinkStart[i] \in {"kill", "blink"}
      BY BlinkStartShape DEF Whole
    <2>3. Calls("dispenser", BlinkStart)
      BY <2>1, <2>2 DEF Calls
    <2>4. QED
      BY <2>1, <2>2, <2>3, CallKeepsShape DEF Caller
  <1>9. CASE NoVane
    <2>1. /\ prog["dispenser"] = <<>> /\ prog' = [prog EXCEPT !["dispenser"] = BlinkStop]
          /\ fase' = "watched"
      BY <1>9 DEF NoVane, Call, Ready, dispenserVars
    <2>2. /\ BlinkStop \in Seq(Op) /\ Whole(BlinkStop)
          /\ \A i \in 1 .. Len(BlinkStop) : BlinkStop[i] \in {"kill", "off"}
      BY BlinkStopShape DEF Whole
    <2>3. Calls("dispenser", BlinkStop)
      BY <2>1, <2>2 DEF Calls
    <2>4. QED
      BY <2>1, <2>2, <2>3, CallKeepsShape DEF Caller
  <1>10. CASE NextPass
    BY <1>10 DEF NextPass, ShapeInv, Ready, Has, callers
  <1>11. CASE MotorStop
    <2>1. /\ prog["dispenser"] = <<>> /\ prog' = [prog EXCEPT !["dispenser"] = BlinkStop]
          /\ fase' = "stopped"
      BY <1>11 DEF MotorStop, Call, Ready, dispenserVars
    <2>2. /\ BlinkStop \in Seq(Op) /\ Whole(BlinkStop)
          /\ \A i \in 1 .. Len(BlinkStop) : BlinkStop[i] \in {"kill", "off"}
      BY BlinkStopShape DEF Whole
    <2>3. Calls("dispenser", BlinkStop)
      BY <2>1, <2>2 DEF Calls
    <2>4. QED
      BY <2>1, <2>2, <2>3, CallKeepsShape DEF Caller
  <1>12. CASE SkipUpdate
    BY <1>12 DEF SkipUpdate, ShapeInv, Ready, Has, callers
  <1>13. CASE BeginUpdate
    BY <1>13 DEF BeginUpdate, ShapeInv, Ready, Has, callers
  <1>14. CASE BeginAttempt
    <2>1. /\ prog["dispenser"] = <<>> /\ prog' = [prog EXCEPT !["dispenser"] = Attempt]
          /\ fase' = "attempt"
      BY <1>14 DEF BeginAttempt, Call, Ready, dispenserVars, Attempt
    <2>2. /\ Attempt \in Seq(Op) /\ Whole(Attempt)
          /\ \A i \in 1 .. Len(Attempt) : Attempt[i] \in {"kill", "off", "pattern", "on"}
      BY AttemptShape DEF Whole
    <2>3. Calls("dispenser", Attempt)
      BY <2>1, <2>2 DEF Calls
    <2>4. QED
      BY <2>1, <2>2, <2>3, CallKeepsShape DEF Caller
  <1>15. CASE AttemptReturnsEarly
    BY <1>15 DEF AttemptReturnsEarly, ShapeInv, Ready, Has, callers
  <1>16. CASE AttemptPatches
    <2>1. /\ prog["dispenser"] = <<>> /\ prog' = [prog EXCEPT !["dispenser"] = Patch(hora)]
          /\ fase' = "patched"
      BY <1>16 DEF AttemptPatches, Call, Ready, dispenserVars, Patch
    <2>2. hora \in BOOLEAN
      BY DEF TypeInv, TypeOK
    <2>3. /\ Patch(hora) \in Seq(Op) /\ Whole(Patch(hora))
          /\ \A i \in 1 .. Len(Patch(hora)) : Patch(hora)[i] \in {"stopPattern", "kill", "on", "off"}
      BY <2>2, PatchShape DEF Whole
    <2>4. Calls("dispenser", Patch(hora))
      BY <2>1, <2>3 DEF Calls
    <2>5. QED
      BY <2>1, <2>3, <2>4, CallKeepsShape DEF Caller
  <1>17. CASE AttemptReturns
    BY <1>17 DEF AttemptReturns, ShapeInv, Ready, Has, callers
  <1>18. CASE ShowResult
    <2>1. PICK v \in BOOLEAN : v = (fase = "recorded" /\ hora)
      OBVIOUS
    <2>2. /\ prog["dispenser"] = <<>> /\ prog' = [prog EXCEPT !["dispenser"] = SetSynced(v)]
          /\ fase' = "finish"
      BY <1>18, <2>1 DEF ShowResult, Call, Ready, dispenserVars
    <2>3. /\ SetSynced(v) \in Seq(Op) /\ Whole(SetSynced(v))
          /\ \A i \in 1 .. Len(SetSynced(v)) : SetSynced(v)[i] \in {"kill", "on", "off"}
      BY SyncedShape DEF Whole
    <2>4. Calls("dispenser", SetSynced(v))
      BY <2>2, <2>3 DEF Calls
    <2>5. QED
      BY <2>2, <2>3, <2>4, CallKeepsShape DEF Caller
  <1>19. CASE Finish
    <2>1. CASE porAspa
      <3>1. prog["dispenser"] = <<>> /\ prog' = [prog EXCEPT !["dispenser"] = BlinkStop]
        BY <1>19, <2>1 DEF Finish, Call, Ready
      <3>2. \A i \in 1 .. Len(BlinkStop) : BlinkStop[i] \in {"kill", "off"}
        BY BlinkStopShape
      <3>3. Calls("dispenser", BlinkStop)
        BY <3>1, <3>2, BlinkStopShape DEF Calls, Whole
      <3>4. QED
        BY <3>2, <3>3, CallKeepsShape DEF Caller
    <2>2. CASE ~porAspa
      <3>1. prog["dispenser"] = <<>> /\ prog' = [prog EXCEPT !["dispenser"] = <<>>]
        BY <1>19, <2>2 DEF Finish, Call, Ready
      <3>2. <<>> \in Seq(Op) /\ Len(<<>>) = 0
        OBVIOUS
      <3>3. Calls("dispenser", <<>>)
        BY <3>1, <3>2 DEF Calls, Whole
      <3>4. QED
        BY <3>2, <3>3, CallKeepsShape DEF Caller
    <2>3. QED
      BY <2>1, <2>2
  <1>20. CASE FetchShows
    <2>1. /\ prog["fetch"] = <<>> /\ prog' = [prog EXCEPT !["fetch"] = PatternFetch]
          /\ fase' = fase
      BY <1>20 DEF FetchShows, Call, Ready, dispenserVars
    <2>2. /\ PatternFetch \in Seq(Op) /\ Whole(PatternFetch)
          /\ \A i \in 1 .. Len(PatternFetch) : PatternFetch[i] \in {"on", "off"}
      BY PatternFetchShape DEF Whole
    <2>3. Calls("fetch", PatternFetch)
      BY <2>1, <2>2 DEF Calls
    <2>4. QED
      BY <2>1, <2>2, <2>3, CallKeepsShape DEF Caller
  <1>21. CASE FetchStores
    <2>1. /\ prog["fetch"] = <<>> /\ prog' = [prog EXCEPT !["fetch"] = SetSynced(hora)]
          /\ fase' = fase
      BY <1>21 DEF FetchStores, Call, Ready, dispenserVars
    <2>2. hora \in BOOLEAN
      BY DEF TypeInv, TypeOK
    <2>3. /\ SetSynced(hora) \in Seq(Op) /\ Whole(SetSynced(hora))
          /\ \A i \in 1 .. Len(SetSynced(hora)) : SetSynced(hora)[i] \in {"kill", "on", "off"}
      BY <2>2, SyncedShape DEF Whole
    <2>4. Calls("fetch", SetSynced(hora))
      BY <2>1, <2>3 DEF Calls
    <2>5. QED
      BY <2>1, <2>3, <2>4, CallKeepsShape DEF Caller
  <1>22. CASE FetchEnds
    BY <1>22 DEF FetchEnds, ShapeInv, Has, callers, dispenserVars
  <1>23. CASE Toggle
    BY <1>23 DEF Toggle, ShapeInv, Has, callers, dispenserVars
  <1>24. CASE TimeSynchronised
    BY <1>24 DEF TimeSynchronised, ShapeInv, Has, callers, dispenserVars
  <1>25. CASE UNCHANGED vars
    BY <1>25 DEF vars, callers, led, dispenserVars, ShapeInv, Has
  <1>26. QED
    BY <1>1, <1>2, <1>3, <1>4, <1>5, <1>6, <1>7, <1>8, <1>9, <1>10, <1>11,
       <1>12, <1>13, <1>14, <1>15, <1>16, <1>17, <1>18, <1>19, <1>20, <1>21,
       <1>22, <1>23, <1>24, <1>25 DEF Next, DispenserTask, FetchTask,
       LedSteps, Caller

-----------------------------------------------------------------------------
(* The update pattern.                                                     *)

(* The pattern task is running only in an attempt, until the PATCH stops   *)
(* it, or after an attempt that returned before its PATCH.                 *)
PatternInv ==
  update # 0 =>
    \/ ultimo = "early" \/ fase = "attempt"
    \/ fase = "patched" /\ Has("dispenser", "stopPattern")

LEMMA PatternInit == Init => PatternInv
  BY DEF Init, PatternInv

LEMMA StopKept ==
  ASSUME TypeInv, NEW c \in Caller, prog[c] # <<>>, Head(prog[c]) # "stopPattern",
         Done(c) \/ (\E op \in Op : Becomes(c, op))
  PROVE  Has("dispenser", "stopPattern") => Has("dispenser", "stopPattern")'
  <1>1. SUFFICES ASSUME c = "dispenser", NEW i \in 1 .. Len(prog[c]), prog[c][i] = "stopPattern"
                 PROVE  Has(c, "stopPattern")'
    BY DEF Has, TypeInv, TypeOK, Done, Becomes, Caller
  <1>2. Len(prog[c]) \in Nat /\ Head(prog[c]) = prog[c][1] /\ i - 1 \in 1 .. Len(prog[c]) - 1
        /\ i \in 2 .. Len(prog[c])
    BY <1>1, TailShape DEF TypeInv, TypeOK
  <1>3. CASE Done(c)
    <2>1. Len(prog'[c]) = Len(prog[c]) - 1 /\ prog'[c][i - 1] = prog[c][i]
      BY <1>2, <1>3, TailShape DEF TypeInv, TypeOK, Done
    <2>2. QED
      BY <1>1, <1>2, <2>1 DEF Has
  <1>4. ASSUME NEW op \in Op, Becomes(c, op) PROVE Has(c, "stopPattern")'
    <2>1. Len(prog'[c]) = Len(prog[c]) /\ prog'[c][i] = prog[c][i]
      BY <1>2, <1>4, ReplacedShape DEF TypeInv, TypeOK, Becomes
    <2>2. QED
      BY <1>1, <1>2, <2>1 DEF Has
  <1>5. QED
    BY <1>3, <1>4

LEMMA PatternNext == TypeInv /\ ShapeInv /\ PatternInv /\ [Next]_vars =>
  PatternInv'
  <1> SUFFICES ASSUME TypeInv, ShapeInv, PatternInv, [Next]_vars PROVE
              PatternInv'
    OBVIOUS
  <1> USE DEF PatternInv
  <1>1. ASSUME NEW c \in Caller, ReadHandle(c) PROVE PatternInv'
    <2>1. UNCHANGED <<update, ultimo, fase>>
      BY <1>1 DEF ReadHandle, led, dispenserVars
    <2>2. prog[c] # <<>> /\ Head(prog[c]) = "kill" /\ (Done(c) \/ Becomes(c, "delete"))
      BY <1>1 DEF ReadHandle, Doing
    <2>3. Has("dispenser", "stopPattern") => Has("dispenser", "stopPattern")'
      BY <2>2, StopKept DEF Op
    <2>4. QED
      BY <2>1, <2>3
  <1>2. ASSUME NEW c \in Caller, DeleteTask(c) PROVE PatternInv'
    <2>1. UNCHANGED <<update, ultimo, fase>>
      BY <1>2 DEF DeleteTask, led, dispenserVars
    <2>2. prog[c] # <<>> /\ Head(prog[c]) = "delete" /\ Becomes(c, "null")
      BY <1>2 DEF DeleteTask, Doing
    <2>3. Has("dispenser", "stopPattern") => Has("dispenser", "stopPattern")'
      BY <2>2, StopKept DEF Op
    <2>4. QED
      BY <2>1, <2>3
  <1>3. ASSUME NEW c \in Caller, ClearHandle(c) PROVE PatternInv'
    <2>1. UNCHANGED <<update, ultimo, fase>> /\ prog[c] # <<>> /\ Done(c)
      BY <1>3 DEF ClearHandle, Doing, led, dispenserVars
    <2>2. Head(prog[c]) # "stopPattern"
      BY <1>3 DEF ClearHandle, Doing
    <2>3. Has("dispenser", "stopPattern") => Has("dispenser", "stopPattern")'
      BY <2>1, <2>2, StopKept DEF Op
    <2>4. QED
      BY <2>1, <2>3
  <1>4. ASSUME NEW c \in Caller, SetLevel(c) PROVE PatternInv'
    <2>1. UNCHANGED <<update, ultimo, fase>> /\ prog[c] # <<>> /\ Done(c)
      BY <1>4 DEF SetLevel, Doing, led, dispenserVars
    <2>2. Head(prog[c]) # "stopPattern"
      BY <1>4 DEF SetLevel, Doing
    <2>3. Has("dispenser", "stopPattern") => Has("dispenser", "stopPattern")'
      BY <2>1, <2>2, StopKept DEF Op
    <2>4. QED
      BY <2>1, <2>3
  <1>5. ASSUME NEW c \in Caller, CreateBlink(c) PROVE PatternInv'
    <2>1. UNCHANGED <<update, ultimo, fase>> /\ prog[c] # <<>> /\ Done(c)
      BY <1>5 DEF CreateBlink, Doing, led, dispenserVars
    <2>2. Head(prog[c]) # "stopPattern"
      BY <1>5 DEF CreateBlink, Doing
    <2>3. Has("dispenser", "stopPattern") => Has("dispenser", "stopPattern")'
      BY <2>1, <2>2, StopKept DEF Op
    <2>4. QED
      BY <2>1, <2>3
  <1>6. ASSUME NEW c \in Caller, PatternAsync(c) PROVE PatternInv'
    <2>1. c = "dispenser" /\ Has("dispenser", "pattern")
      <3>1. Has(c, "pattern")
        BY <1>6, TailShape DEF PatternAsync, Doing, Has, TypeInv, TypeOK
      <3>2. QED
        BY <3>1 DEF ShapeInv, Caller
    <2>2. fase' = "attempt"
      BY <1>6, <2>1 DEF PatternAsync, dispenserVars, ShapeInv
    <2>3. QED
      BY <2>2
  <1>7. ASSUME NEW c \in Caller, PatternStop(c) PROVE PatternInv'
    <2>1. update' = 0
      BY <1>7 DEF PatternStop, TypeInv, TypeOK
    <2>2. QED
      BY <2>1
  <1>8. CASE MotorStart
    <2>1. update' = update /\ ~Has("dispenser", "stopPattern")
      BY <1>8 DEF MotorStart, Ready, Has, led
    <2>2. QED
      BY <1>8, <2>1 DEF MotorStart, AfterFailure
  <1>9. CASE NoVane
    <2>1. update' = update /\ ~Has("dispenser", "stopPattern")
      BY <1>9 DEF NoVane, Ready, Has, led
    <2>2. QED
      BY <1>9, <2>1 DEF NoVane, AfterFailure
  <1>10. CASE NextPass
    <2>1. update' = update /\ ~Has("dispenser", "stopPattern")
      BY <1>10 DEF NextPass, Ready, Has, led
    <2>2. QED
      BY <1>10, <2>1 DEF NextPass, AfterFailure
  <1>11. CASE MotorStop
    <2>1. update' = update /\ ~Has("dispenser", "stopPattern")
      BY <1>11 DEF MotorStop, Ready, Has, led
    <2>2. QED
      BY <1>11, <2>1 DEF MotorStop, AfterFailure
  <1>12. CASE SkipUpdate
    <2>1. update' = update /\ ~Has("dispenser", "stopPattern")
      BY <1>12 DEF SkipUpdate, Ready, Has, led
    <2>2. QED
      BY <1>12, <2>1 DEF SkipUpdate, AfterFailure
  <1>13. CASE BeginUpdate
    <2>1. update' = update /\ ~Has("dispenser", "stopPattern")
      BY <1>13 DEF BeginUpdate, Ready, Has, led
    <2>2. QED
      BY <1>13, <2>1 DEF BeginUpdate, AfterFailure
  <1>14. CASE BeginAttempt
    <2>1. update' = update /\ ~Has("dispenser", "stopPattern")
      BY <1>14 DEF BeginAttempt, Ready, Has, led
    <2>2. QED
      BY <1>14, <2>1 DEF BeginAttempt, AfterFailure
  <1>15. CASE AttemptReturnsEarly
    <2>1. update' = update /\ ~Has("dispenser", "stopPattern")
      BY <1>15 DEF AttemptReturnsEarly, Ready, Has, led
    <2>2. QED
      BY <1>15, <2>1 DEF AttemptReturnsEarly, AfterFailure
  <1>16. CASE AttemptPatches
    <2>1. fase' = "patched" /\ prog' = [prog EXCEPT !["dispenser"] = Patch(hora)]
      BY <1>16 DEF AttemptPatches, Call, Patch
    <2>2. prog'["dispenser"] = Patch(hora) /\ hora \in BOOLEAN
      BY <2>1 DEF TypeInv, TypeOK, Caller
    <2>3. Has("dispenser", "stopPattern")'
      BY <2>2, PatchShape DEF Has
    <2>4. QED
      BY <2>1, <2>3
  <1>17. CASE AttemptReturns
    <2>1. update' = update /\ ~Has("dispenser", "stopPattern")
      BY <1>17 DEF AttemptReturns, Ready, Has, led
    <2>2. QED
      BY <1>17, <2>1 DEF AttemptReturns, AfterFailure
  <1>18. CASE ShowResult
    <2>1. update' = update /\ ~Has("dispenser", "stopPattern")
      BY <1>18 DEF ShowResult, Ready, Has, led
    <2>2. QED
      BY <1>18, <2>1 DEF ShowResult, AfterFailure
  <1>19. CASE Finish
    <2>1. update' = update /\ ~Has("dispenser", "stopPattern")
      BY <1>19 DEF Finish, Ready, Has, led
    <2>2. QED
      BY <1>19, <2>1 DEF Finish, AfterFailure
  <1>20. CASE FetchShows
    <2>1. UNCHANGED <<update, ultimo, fase>> /\ prog'["dispenser"] = prog["dispenser"]
      BY <1>20 DEF FetchShows, Call, led, dispenserVars, TypeInv, TypeOK, Caller
    <2>2. QED
      BY <2>1 DEF Has
  <1>21. CASE FetchStores
    <2>1. UNCHANGED <<update, ultimo, fase>> /\ prog'["dispenser"] = prog["dispenser"]
      BY <1>21 DEF FetchStores, Call, led, dispenserVars, TypeInv, TypeOK, Caller
    <2>2. QED
      BY <2>1 DEF Has
  <1>22. CASE FetchEnds
    BY <1>22 DEF FetchEnds, Has, callers, led, dispenserVars
  <1>23. CASE Toggle
    BY <1>23 DEF Toggle, Has, callers, led, dispenserVars
  <1>24. CASE TimeSynchronised
    BY <1>24 DEF TimeSynchronised, Has, callers, led, dispenserVars
  <1>25. CASE UNCHANGED vars
    BY <1>25 DEF vars, callers, led, dispenserVars, Has
  <1>26. QED
    BY <1>1, <1>2, <1>3, <1>4, <1>5, <1>6, <1>7, <1>8, <1>9, <1>10, <1>11,
       <1>12, <1>13, <1>14, <1>15, <1>16, <1>17, <1>18, <1>19, <1>20, <1>21,
       <1>22, <1>23, <1>24, <1>25 DEF Next, DispenserTask, FetchTask,
       LedSteps, Caller

(* Outside an update the pattern task runs only if the last attempt        *)
(* returned before its PATCH.                                              *)
THEOREM PatternEndsWithPatch == Spec => []PatternOnlyAfterFailure
  <1>1. PatternInv => PatternOnlyAfterFailure
    BY DEF PatternInv, PatternOnlyAfterFailure, Ready, Has
  <1>2. QED
    BY <1>1, TypeInit, TypeNext, ShapeInit, ShapeNext, PatternInit, PatternNext, PTL DEF Spec

-----------------------------------------------------------------------------
(* The task handles.                                                       *)

(* Between two steps of a deletion the handle that was read is the name of *)
(* the blink task and not of another; two callers are never both between   *)
(* the deletion and the reset of the handle; a new blink task is created   *)
(* with the handle free.                                                   *)
HandleInv ==
  /\ vivas \subseteq {blink, update}
  /\ blink # 0 => blink # update
  /\ \A c \in Caller : AtOp(c, "delete") \/ AtOp(c, "null") =>
       visto[c] \in 1 .. creadas /\ visto[c] # update
  /\ \A c \in Caller : AtOp(c, "null") => visto[c] \notin vivas /\ blink = visto[c]
  /\ ~(AtOp("dispenser", "null") /\ AtOp("fetch", "null"))
  /\ AtOp("dispenser", "blink") => blink = 0

(* The blink is over outside a turn, once the deletion that dispenser_task *)
(* makes at its end is over.                                               *)
EndInv ==
  \/ fase \in {"turning", "watched"} \/ blink \notin vivas
  \/ fase = "stopped" /\ (AtOp("dispenser", "kill") \/ AtOp("dispenser", "delete"))

LedInv == ~corrupto => HandleInv /\ EndInv

LEMMA LedInit == Init => LedInv
  <1> SUFFICES ASSUME Init PROVE LedInv
    OBVIOUS
  <1>1. \A c \in Caller : prog[c] = <<>>
    BY DEF Init
  <1>2. vivas = {} /\ blink = 0
    BY DEF Init
  <1>3. QED
    BY <1>1, <1>2 DEF LedInv, HandleInv, EndInv, AtOp, Caller

Programs ==
  {BlinkStart, BlinkStop, PatternFetch, Attempt, <<>>} \cup
  {SetSynced(v) : v \in BOOLEAN} \cup {Patch(v) : v \in BOOLEAN}

LEMMA ProgramsWhole == \A s \in Programs : Whole(s)
  <1>1. Whole(BlinkStart)
    BY BlinkStartShape DEF Whole
  <1>2. Whole(BlinkStop)
    BY BlinkStopShape DEF Whole
  <1>3. Whole(PatternFetch)
    BY PatternFetchShape DEF Whole
  <1>4. Whole(Attempt)
    BY AttemptShape DEF Whole
  <1>5. Whole(<<>>)
    <2>1. <<>> \in Seq(Op) /\ Len(<<>>) = 0
      OBVIOUS
    <2>2. QED
      BY <2>1 DEF Whole
  <1>6. \A v \in BOOLEAN : Whole(SetSynced(v)) /\ Whole(Patch(v))
    BY SyncedShape, PatchShape DEF Whole
  <1>7. QED
    BY <1>1, <1>2, <1>3, <1>4, <1>5, <1>6 DEF Programs

LEMMA AfterProgram ==
  ASSUME TypeInv, NEW c \in Caller, NEW s \in Programs, prog[c] = <<>>, Call(c, s)
  PROVE  /\ ~AtOp(c, "delete")' /\ ~AtOp(c, "null")' /\ ~AtOp(c, "blink")'
         /\ \A d \in Caller \ {c} : prog'[d] = prog[d]
  BY ProgramsWhole, AfterCall DEF Calls, Call

LEMMA HandleNext == TypeInv /\ ShapeInv /\ HandleInv /\ EndInv /\ ~corrupto
  /\ ~corrupto' /\ [Next]_vars => HandleInv' /\ EndInv'
  <1> SUFFICES ASSUME TypeInv, ShapeInv, HandleInv, EndInv, ~corrupto,
              ~corrupto', [Next]_vars PROVE HandleInv' /\ EndInv'
    OBVIOUS
  <1> USE DEF HandleInv, EndInv
  <1>1. ASSUME NEW c \in Caller, ReadHandle(c) PROVE HandleInv' /\ EndInv'
    <2>1. /\ prog[c] # <<>> /\ Head(prog[c]) = "kill"
          /\ UNCHANGED <<blink, update, vivas, creadas, corrupto, fase>>
      BY <1>1 DEF ReadHandle, Doing, led, dispenserVars
    <2>2. CASE blink = 0
      <3>1. Done(c) /\ UNCHANGED visto
        BY <1>1, <2>2 DEF ReadHandle
      <3>2. 0 \notin vivas
        BY DEF TypeInv, TypeOK
      <3>3. /\ ~AtOp(c, "delete")' /\ ~AtOp(c, "null")'
            /\ \A d \in Caller \ {c} : \A op : AtOp(d, op)' <=> AtOp(d, op)
        BY <2>1, <3>1, AfterDone DEF AtOp
      <3>4. HandleInv'
        BY <2>1, <2>2, <3>1, <3>3 DEF Caller
      <3>5. EndInv'
        BY <2>1, <2>2, <3>2
      <3>6. QED
        BY <3>4, <3>5
    <2>3. CASE blink # 0
      <3>1. Becomes(c, "delete") /\ visto' = [visto EXCEPT ![c] = blink]
        BY <1>1, <2>3 DEF ReadHandle
      <3>2. /\ AtOp(c, "delete")' /\ \A x : AtOp(c, x)' => x = "delete"
            /\ \A d \in Caller \ {c} : \A op : AtOp(d, op)' <=> AtOp(d, op)
        BY <2>1, <3>1, AfterReplace DEF AtOp, Op
      <3>3. visto'[c] = blink /\ \A d \in Caller \ {c} : visto'[d] = visto[d]
        BY <3>1 DEF TypeInv, TypeOK
      <3>4. blink \in 1 .. creadas /\ blink # update
        BY <2>3 DEF TypeInv, TypeOK
      <3>5. HandleInv'
        BY <2>1, <3>2, <3>3, <3>4 DEF Caller
      <3>6. EndInv'
        BY <2>1, <3>2 DEF AtOp, Caller
      <3>7. QED
        BY <3>5, <3>6
    <2>4. QED
      BY <2>2, <2>3
  <1>2. ASSUME NEW c \in Caller, DeleteTask(c) PROVE HandleInv' /\ EndInv'
    <2>1. /\ prog[c] # <<>> /\ Head(prog[c]) = "delete" /\ AtOp(c, "delete")
          /\ vivas' = vivas \ {visto[c]} /\ visto[c] \in vivas
          /\ Becomes(c, "null") /\ UNCHANGED <<visto, blink, update, creadas, fase>>
      BY <1>2 DEF DeleteTask, Doing, dispenserVars, AtOp
    <2>2. /\ AtOp(c, "null")' /\ \A x : AtOp(c, x)' => x = "null"
          /\ \A d \in Caller \ {c} : \A op : AtOp(d, op)' <=> AtOp(d, op)
      BY <2>1, AfterReplace DEF AtOp, Op
    <2>3. visto[c] = blink /\ visto[c] \in 1 .. creadas /\ visto[c] # update
      BY <2>1
    <2>4. \A d \in Caller : ~AtOp(d, "null")
      BY <2>1, <2>3 DEF AtOp
    <2>5. HandleInv'
      BY <2>1, <2>2, <2>3, <2>4 DEF Caller
    <2>6. EndInv'
      BY <2>1, <2>3
    <2>7. QED
      BY <2>5, <2>6
  <1>3. ASSUME NEW c \in Caller, ClearHandle(c) PROVE HandleInv' /\ EndInv'
    <2>1. /\ prog[c] # <<>> /\ Head(prog[c]) = "null" /\ AtOp(c, "null")
          /\ blink' = 0 /\ visto' = [visto EXCEPT ![c] = 0] /\ Done(c)
          /\ UNCHANGED <<update, vivas, creadas, corrupto, fase>>
      BY <1>3 DEF ClearHandle, Doing, dispenserVars, AtOp
    <2>2. /\ ~AtOp(c, "delete")' /\ ~AtOp(c, "null")'
          /\ \A d \in Caller \ {c} : \A op : AtOp(d, op)' <=> AtOp(d, op)
      BY <2>1, AfterDone DEF AtOp
    <2>3. \A d \in Caller \ {c} : visto'[d] = visto[d] /\ ~AtOp(d, "null")
      BY <2>1 DEF TypeInv, TypeOK, Caller
    <2>4. vivas \subseteq {update} /\ 0 \notin vivas
      BY <2>1 DEF TypeInv, TypeOK
    <2>5. HandleInv'
      BY <2>1, <2>2, <2>3, <2>4 DEF Caller
    <2>6. EndInv'
      BY <2>1, <2>4
    <2>7. QED
      BY <2>5, <2>6
  <1>4. ASSUME NEW c \in Caller, SetLevel(c) PROVE HandleInv' /\ EndInv'
    <2>1. /\ prog[c] # <<>> /\ Head(prog[c]) \in {"on", "off"} /\ Done(c)
          /\ UNCHANGED <<visto, blink, update, vivas, creadas, corrupto, fase>>
      BY <1>4 DEF SetLevel, Doing, dispenserVars
    <2>2. /\ ~AtOp(c, "delete")' /\ ~AtOp(c, "null")' /\ ~AtOp(c, "blink")'
          /\ \A d \in Caller \ {c} : \A op : AtOp(d, op)' <=> AtOp(d, op)
      BY <2>1, AfterDone DEF AtOp, Kill
    <2>3. ~AtOp(c, "kill") /\ ~AtOp(c, "delete")
      BY <2>1 DEF AtOp
    <2>4. HandleInv'
      BY <2>1, <2>2 DEF Caller
    <2>5. EndInv'
      BY <2>1, <2>2, <2>3 DEF Caller
    <2>6. QED
      BY <2>4, <2>5
  <1>5. ASSUME NEW c \in Caller, CreateBlink(c) PROVE HandleInv' /\ EndInv'
    <2>1. /\ prog[c] # <<>> /\ Head(prog[c]) = "blink" /\ Done(c)
          /\ UNCHANGED <<visto, update, corrupto, fase>>
          /\ \/ NewTask /\ blink' = creadas + 1
             \/ UNCHANGED <<creadas, vivas, blink>>
      BY <1>5 DEF CreateBlink, Doing, dispenserVars
    <2>2. Has(c, "blink")
      BY <2>1, TailShape DEF Has, TypeInv, TypeOK
    <2>3. c = "dispenser" /\ fase = "turning" /\ AtOp("dispenser", "blink")
      BY <2>1, <2>2 DEF ShapeInv, Caller, AtOp
    <2>4. /\ ~AtOp(c, "delete")' /\ ~AtOp(c, "null")' /\ ~AtOp(c, "blink")'
          /\ \A d \in Caller \ {c} : \A op : AtOp(d, op)' <=> AtOp(d, op)
      BY <2>1, AfterDone DEF AtOp, Kill
    <2>5. vivas \subseteq {update} /\ blink = 0 /\ ~AtOp("fetch", "null")
      BY <2>3 DEF TypeInv, TypeOK, Caller
    <2>6. CASE NewTask /\ blink' = creadas + 1
      <3>1. /\ vivas' \subseteq {blink', update'} /\ blink' # update'
            /\ creadas' = creadas + 1 /\ creadas \in Nat
        BY <2>1, <2>5, <2>6 DEF NewTask, TypeInv, TypeOK
      <3>2. \A d \in Caller : AtOp(d, "delete")' \/ AtOp(d, "null")' =>
               visto'[d] \in 1 .. creadas' /\ visto'[d] # update'
        BY <2>1, <2>4, <3>1
      <3>3. QED
        BY <2>1, <2>3, <2>4, <2>5, <3>1, <3>2 DEF Caller
    <2>7. CASE UNCHANGED <<creadas, vivas, blink>>
      BY <2>1, <2>3, <2>4, <2>5, <2>7 DEF Caller
    <2>8. QED
      BY <2>1, <2>6, <2>7
  <1>6. ASSUME NEW c \in Caller, PatternAsync(c) PROVE HandleInv' /\ EndInv'
    <2>1. /\ prog[c] # <<>> /\ Head(prog[c]) = "pattern" /\ Done(c)
          /\ UNCHANGED <<visto, blink, corrupto, fase>>
          /\ \/ update = 0 /\ NewTask /\ update' = creadas + 1
             \/ UNCHANGED <<creadas, vivas, update>>
      BY <1>6 DEF PatternAsync, Doing, dispenserVars
    <2>2. Has(c, "pattern")
      BY <2>1, TailShape DEF Has, TypeInv, TypeOK
    <2>3. c = "dispenser" /\ fase = "attempt" /\ blink \notin vivas
      BY <2>1, <2>2 DEF ShapeInv, Caller
    <2>4. /\ ~AtOp(c, "delete")' /\ ~AtOp(c, "null")' /\ ~AtOp(c, "blink")'
          /\ \A d \in Caller \ {c} : \A op : AtOp(d, op)' <=> AtOp(d, op)
      BY <2>1, AfterDone DEF AtOp, Kill
    <2>5. CASE update = 0 /\ NewTask /\ update' = creadas + 1
      <3>1. /\ creadas' = creadas + 1 /\ creadas \in Nat /\ vivas' = vivas \cup {update'}
            /\ blink \in 0 .. creadas /\ vivas \subseteq 1 .. creadas
        BY <2>5 DEF NewTask, TypeInv, TypeOK
      <3>2. vivas' \subseteq {blink', update'} /\ blink' # update' /\ blink' \notin vivas'
        BY <2>1, <2>3, <2>5, <3>1
      <3>3. \A d \in Caller : AtOp(d, "delete")' \/ AtOp(d, "null")' =>
               visto'[d] \in 1 .. creadas' /\ visto'[d] # update'
        BY <2>1, <2>4, <2>5, <3>1
      <3>4. \A d \in Caller : AtOp(d, "null")' => visto'[d] \notin vivas' /\ blink' = visto'[d]
        BY <2>1, <2>4, <2>5, <3>1, <3>3
      <3>5. QED
        BY <2>1, <2>3, <2>4, <3>2, <3>3, <3>4 DEF Caller
    <2>6. CASE UNCHANGED <<creadas, vivas, update>>
      BY <2>1, <2>3, <2>4, <2>6 DEF Caller
    <2>7. QED
      BY <2>1, <2>5, <2>6
  <1>7. ASSUME NEW c \in Caller, PatternStop(c) PROVE HandleInv' /\ EndInv'
    <2>1. /\ prog[c] # <<>> /\ Head(prog[c]) = "stopPattern" /\ Done(c)
          /\ UNCHANGED <<visto, blink, creadas, corrupto, fase>>
      BY <1>7 DEF PatternStop, Doing, dispenserVars
    <2>2. update' = 0 /\ vivas' = vivas \ {update}
      BY <1>7 DEF PatternStop, TypeInv, TypeOK
    <2>3. /\ ~AtOp(c, "delete")' /\ ~AtOp(c, "null")' /\ ~AtOp(c, "blink")'
          /\ \A d \in Caller \ {c} : \A op : AtOp(d, op)' <=> AtOp(d, op)
      BY <2>1, AfterDone DEF AtOp, Kill
    <2>4. ~AtOp(c, "kill") /\ ~AtOp(c, "delete")
      BY <2>1 DEF AtOp
    <2>5. HandleInv'
      BY <2>1, <2>2, <2>3 DEF Caller
    <2>6. c = "dispenser"
      <3>1. Has(c, "stopPattern")
        BY <2>1, TailShape DEF Has, TypeInv, TypeOK
      <3>2. QED
        BY <3>1 DEF ShapeInv, Caller
    <2>7. EndInv'
      BY <2>1, <2>2, <2>4, <2>6
    <2>8. QED
      BY <2>5, <2>7
  <1>8. CASE MotorStart
    <2>1. UNCHANGED <<visto, blink, update, vivas, creadas, corrupto>>
      BY <1>8 DEF MotorStart, led
    <2>2. prog["dispenser"] = <<>> /\ Call("dispenser", BlinkStart)
      BY <1>8 DEF MotorStart, Ready, Call
    <2>3. /\ ~AtOp("dispenser", "delete")' /\ ~AtOp("dispenser", "null")' /\ ~AtOp("dispenser", "blink")'
          /\ \A d \in Caller \ {"dispenser"} : \A op : AtOp(d, op)' <=> AtOp(d, op)
      BY <2>2, AfterProgram DEF Programs, AtOp, Caller, TypeInv, TypeOK
    <2>4. HandleInv'
      BY <2>1, <2>3 DEF Caller
    <2>5. EndInv'
      BY <1>8 DEF MotorStart
    <2>6. QED
      BY <2>4, <2>5
  <1>9. CASE NoVane
    <2>1. UNCHANGED <<visto, blink, update, vivas, creadas, corrupto>>
      BY <1>9 DEF NoVane, led
    <2>2. prog["dispenser"] = <<>> /\ Call("dispenser", BlinkStop)
      BY <1>9 DEF NoVane, Ready, Call
    <2>3. /\ ~AtOp("dispenser", "delete")' /\ ~AtOp("dispenser", "null")' /\ ~AtOp("dispenser", "blink")'
          /\ \A d \in Caller \ {"dispenser"} : \A op : AtOp(d, op)' <=> AtOp(d, op)
      BY <2>2, AfterProgram DEF Programs, AtOp, Caller, TypeInv, TypeOK
    <2>4. HandleInv'
      BY <2>1, <2>3 DEF Caller
    <2>5. EndInv'
      BY <1>9 DEF NoVane
    <2>6. QED
      BY <2>4, <2>5
  <1>10. CASE NextPass
    BY <1>10 DEF NextPass, AtOp, Ready, callers, led
  <1>11. CASE MotorStop
    <2>1. UNCHANGED <<visto, blink, update, vivas, creadas, corrupto>>
      BY <1>11 DEF MotorStop, led
    <2>2. prog["dispenser"] = <<>> /\ Call("dispenser", BlinkStop)
      BY <1>11 DEF MotorStop, Ready, Call
    <2>3. /\ ~AtOp("dispenser", "delete")' /\ ~AtOp("dispenser", "null")' /\ ~AtOp("dispenser", "blink")'
          /\ \A d \in Caller \ {"dispenser"} : \A op : AtOp(d, op)' <=> AtOp(d, op)
      BY <2>2, AfterProgram DEF Programs, AtOp, Caller, TypeInv, TypeOK
    <2>4. HandleInv'
      BY <2>1, <2>3 DEF Caller
    <2>5. EndInv'
      <3>1. fase' = "stopped" /\ prog'["dispenser"] = BlinkStop
        BY <1>11, <2>2 DEF MotorStop, Call, TypeInv, TypeOK, Caller
      <3>2. AtOp("dispenser", "kill")'
        BY <3>1, BlinkStopShape DEF AtOp
      <3>3. QED
        BY <3>1, <3>2
    <2>6. QED
      BY <2>4, <2>5
  <1>12. CASE SkipUpdate
    BY <1>12 DEF SkipUpdate, AtOp, Ready, callers, led
  <1>13. CASE BeginUpdate
    BY <1>13 DEF BeginUpdate, AtOp, Ready, callers, led
  <1>14. CASE BeginAttempt
    <2>1. UNCHANGED <<visto, blink, update, vivas, creadas, corrupto>>
      BY <1>14 DEF BeginAttempt, led
    <2>2. prog["dispenser"] = <<>> /\ Call("dispenser", Attempt)
      BY <1>14 DEF BeginAttempt, Ready, Call, Attempt
    <2>3. /\ ~AtOp("dispenser", "delete")' /\ ~AtOp("dispenser", "null")' /\ ~AtOp("dispenser", "blink")'
          /\ \A d \in Caller \ {"dispenser"} : \A op : AtOp(d, op)' <=> AtOp(d, op)
      BY <2>2, AfterProgram DEF Programs, AtOp, Caller, TypeInv, TypeOK
    <2>4. HandleInv'
      BY <2>1, <2>3 DEF Caller
    <2>5. EndInv'
      BY <1>14, <2>1, <2>2 DEF BeginAttempt, AtOp
    <2>6. QED
      BY <2>4, <2>5
  <1>15. CASE AttemptReturnsEarly
    BY <1>15 DEF AttemptReturnsEarly, AtOp, Ready, callers, led
  <1>16. CASE AttemptPatches
    <2>1. UNCHANGED <<visto, blink, update, vivas, creadas, corrupto>>
      BY <1>16 DEF AttemptPatches, led
    <2>2. prog["dispenser"] = <<>> /\ Call("dispenser", Patch(hora))
      BY <1>16 DEF AttemptPatches, Ready, Call, Patch
    <2>3. /\ ~AtOp("dispenser", "delete")' /\ ~AtOp("dispenser", "null")' /\ ~AtOp("dispenser", "blink")'
          /\ \A d \in Caller \ {"dispenser"} : \A op : AtOp(d, op)' <=> AtOp(d, op)
      BY <2>2, AfterProgram DEF Programs, AtOp, Caller, TypeInv, TypeOK
    <2>4. HandleInv'
      BY <2>1, <2>3 DEF Caller
    <2>5. EndInv'
      BY <1>16, <2>1, <2>2 DEF AttemptPatches, AtOp
    <2>6. QED
      BY <2>4, <2>5
  <1>17. CASE AttemptReturns
    BY <1>17 DEF AttemptReturns, AtOp, Ready, callers, led
  <1>18. CASE ShowResult
    <2>1. UNCHANGED <<visto, blink, update, vivas, creadas, corrupto>>
      BY <1>18 DEF ShowResult, led
    <2>2. prog["dispenser"] = <<>> /\ Call("dispenser", SetSynced(fase = "recorded" /\ hora))
      BY <1>18 DEF ShowResult, Ready, Call
    <2>3. /\ ~AtOp("dispenser", "delete")' /\ ~AtOp("dispenser", "null")' /\ ~AtOp("dispenser", "blink")'
          /\ \A d \in Caller \ {"dispenser"} : \A op : AtOp(d, op)' <=> AtOp(d, op)
      BY <2>2, AfterProgram DEF Programs, AtOp, Caller, TypeInv, TypeOK
    <2>4. HandleInv'
      BY <2>1, <2>3 DEF Caller
    <2>5. EndInv'
      BY <1>18, <2>1, <2>2 DEF ShowResult, AtOp
    <2>6. QED
      BY <2>4, <2>5
  <1>19. CASE Finish
    <2>1. UNCHANGED <<visto, blink, update, vivas, creadas, corrupto>>
      BY <1>19 DEF Finish, led
    <2>2. prog["dispenser"] = <<>> /\ \E s \in {BlinkStop, <<>>} : Call("dispenser", s)
      BY <1>19 DEF Finish, Ready
    <2>3. /\ ~AtOp("dispenser", "delete")' /\ ~AtOp("dispenser", "null")'
          /\ ~AtOp("dispenser", "blink")'
          /\ \A d \in Caller \ {"dispenser"} : \A op : AtOp(d, op)' <=> AtOp(d, op)
      BY <2>2, AfterProgram DEF Programs, AtOp, Caller
    <2>4. HandleInv'
      BY <2>1, <2>3 DEF Caller
    <2>5. EndInv'
      BY <1>19, <2>1, <2>2 DEF Finish, AtOp
    <2>6. QED
      BY <2>4, <2>5
  <1>20. CASE FetchShows
    <2>1. UNCHANGED <<visto, blink, update, vivas, creadas, corrupto>>
      BY <1>20 DEF FetchShows, led
    <2>2. prog["fetch"] = <<>> /\ Call("fetch", PatternFetch)
      BY <1>20 DEF FetchShows, Ready, Call
    <2>3. /\ ~AtOp("fetch", "delete")' /\ ~AtOp("fetch", "null")' /\ ~AtOp("fetch", "blink")'
          /\ \A d \in Caller \ {"fetch"} : \A op : AtOp(d, op)' <=> AtOp(d, op)
      BY <2>2, AfterProgram DEF Programs, AtOp, Caller, TypeInv, TypeOK
    <2>4. HandleInv'
      BY <2>1, <2>3 DEF Caller
    <2>5. EndInv'
      BY <1>20, <2>1, <2>3 DEF FetchShows, dispenserVars, Caller
    <2>6. QED
      BY <2>4, <2>5
  <1>21. CASE FetchStores
    <2>1. UNCHANGED <<visto, blink, update, vivas, creadas, corrupto>>
      BY <1>21 DEF FetchStores, led
    <2>2. prog["fetch"] = <<>> /\ Call("fetch", SetSynced(hora))
      BY <1>21 DEF FetchStores, Ready, Call
    <2>3. /\ ~AtOp("fetch", "delete")' /\ ~AtOp("fetch", "null")' /\ ~AtOp("fetch", "blink")'
          /\ \A d \in Caller \ {"fetch"} : \A op : AtOp(d, op)' <=> AtOp(d, op)
      BY <2>2, AfterProgram DEF Programs, AtOp, Caller, TypeInv, TypeOK
    <2>4. HandleInv'
      BY <2>1, <2>3 DEF Caller
    <2>5. EndInv'
      BY <1>21, <2>1, <2>3 DEF FetchStores, dispenserVars, Caller
    <2>6. QED
      BY <2>4, <2>5
  <1>22. CASE FetchEnds
    BY <1>22 DEF FetchEnds, AtOp, callers, led, dispenserVars
  <1>23. CASE Toggle
    BY <1>23 DEF Toggle, AtOp, callers, led, dispenserVars
  <1>24. CASE TimeSynchronised
    BY <1>24 DEF TimeSynchronised, AtOp, callers, led, dispenserVars
  <1>25. CASE UNCHANGED vars
    BY <1>25 DEF vars, callers, led, dispenserVars, AtOp
  <1>26. QED
    BY <1>1, <1>2, <1>3, <1>4, <1>5, <1>6, <1>7, <1>8, <1>9, <1>10, <1>11,
       <1>12, <1>13, <1>14, <1>15, <1>16, <1>17, <1>18, <1>19, <1>20, <1>21,
       <1>22, <1>23, <1>24, <1>25 DEF Next, DispenserTask, FetchTask,
       LedSteps, Caller

(* After a double deletion nothing more is claimed.                        *)
LEMMA LedNext == TypeInv /\ ShapeInv /\ LedInv /\ [Next]_vars => LedInv'
  <1>1. ASSUME corrupto, [Next]_vars, TypeInv PROVE corrupto'
    BY <1>1 DEF Next, DispenserTask, FetchTask, LedSteps, ReadHandle, DeleteTask, ClearHandle,
         SetLevel, CreateBlink, PatternAsync, PatternStop, Doing, Ready, MotorStart, NoVane,
         NextPass, MotorStop, SkipUpdate, BeginUpdate, BeginAttempt, AttemptReturnsEarly,
         AttemptPatches, AttemptReturns, ShowResult, Finish, FetchShows, FetchStores,
         FetchEnds, Toggle, TimeSynchronised, vars, led
  <1>2. QED
    BY <1>1, HandleNext DEF LedInv

(* Short of a double deletion, dispenser_led.c can stop every pattern task *)
(* there is.                                                               *)
THEOREM NoPatternTaskLost == Spec => []NoOrphans
  <1>1. LedInv => NoOrphans
    BY DEF LedInv, HandleInv, NoOrphans
  <1>2. QED
    BY <1>1, TypeInit, TypeNext, ShapeInit, ShapeNext, LedInit, LedNext, PTL DEF Spec

(* The blink of a turn does not outlive it.                                *)
THEOREM BlinkEndsWithTurn == Spec => []BlinkEnds
  <1>1. LedInv => BlinkEnds
    BY DEF LedInv, EndInv, BlinkEnds, Ready, AtOp
  <1>2. QED
    BY <1>1, TypeInit, TypeNext, ShapeInit, ShapeNext, LedInit, LedNext, PTL DEF Spec
-----------------------------------------------------------------------------
(* What is missing in dispenser_led.c.                                     *)

(* A caller between the load of the handle and its reset.                  *)
Deleting(c) == AtOp(c, "delete") \/ AtOp(c, "null")

(* The two callers are not there at once: what a lock over the three lines *)
(* of the deletion would give.                                             *)
Alone == ~(Deleting("dispenser") /\ Deleting("fetch"))

(* A handle that is not NULL names a live task but between the deletion    *)
(* and the reset, and the handle that was read is still the one that is    *)
(* there.                                                                  *)
LiveInv ==
  /\ ~corrupto
  /\ \A c \in Caller : AtOp(c, "delete") => blink = visto[c] /\ blink # 0
  /\ (\A c \in Caller : ~AtOp(c, "null")) /\ blink # 0 => blink \in vivas

(* The steps outside dispenser_led.c call its functions and leave the      *)
(* handles alone.                                                          *)
LEMMA TaskSteps ==
  ASSUME TypeInv, [Next]_vars, \A c \in Caller : ~LedSteps(c)
  PROVE  /\ UNCHANGED <<visto, blink, vivas, corrupto>>
         /\ \/ UNCHANGED prog
            \/ \E c \in Caller, s \in Programs : prog[c] = <<>> /\ Call(c, s)
  <1>p. /\ \A s \in {BlinkStart, BlinkStop, PatternFetch, Attempt, <<>>} : s \in Programs
        /\ \A v \in BOOLEAN : SetSynced(v) \in Programs /\ Patch(v) \in Programs
        /\ hora \in BOOLEAN
    BY DEF Programs, TypeInv, TypeOK
  <1>1. CASE MotorStart \/ NoVane \/ MotorStop
    <2>1. UNCHANGED <<visto, led>> /\ prog["dispenser"] = <<>>
      BY <1>1 DEF MotorStart, NoVane, MotorStop, Ready
    <2>2. Call("dispenser", BlinkStart) \/ Call("dispenser", BlinkStop)
      BY <1>1 DEF MotorStart, NoVane, MotorStop
    <2>3. QED
      BY <1>p, <2>1, <2>2 DEF led, Caller
  <1>2. CASE BeginAttempt
    <2>1. UNCHANGED <<visto, led>> /\ prog["dispenser"] = <<>> /\ Call("dispenser", Attempt)
      BY <1>2 DEF BeginAttempt, Ready, Attempt
    <2>2. QED
      BY <1>p, <2>1 DEF led, Caller
  <1>3. CASE AttemptPatches
    <2>1. /\ UNCHANGED <<visto, led>> /\ prog["dispenser"] = <<>>
          /\ Call("dispenser", Patch(hora))
      BY <1>3 DEF AttemptPatches, Ready, Patch
    <2>2. QED
      BY <1>p, <2>1 DEF led, Caller
  <1>4. CASE ShowResult
    <2>1. PICK v \in BOOLEAN : v = (fase = "recorded" /\ hora)
      OBVIOUS
    <2>2. UNCHANGED <<visto, led>> /\ prog["dispenser"] = <<>>
          /\ Call("dispenser", SetSynced(v))
      BY <1>4, <2>1 DEF ShowResult, Ready
    <2>3. QED
      BY <1>p, <2>2 DEF led, Caller
  <1>5. CASE Finish
    <2>1. UNCHANGED <<visto, led>> /\ prog["dispenser"] = <<>>
      BY <1>5 DEF Finish, Ready
    <2>2. Call("dispenser", BlinkStop) \/ Call("dispenser", <<>>)
      BY <1>5 DEF Finish
    <2>3. QED
      BY <1>p, <2>1, <2>2 DEF led, Caller
  <1>6. CASE FetchShows \/ FetchStores
    <2>1. UNCHANGED <<visto, led>> /\ prog["fetch"] = <<>>
      BY <1>6 DEF FetchShows, FetchStores, Ready
    <2>2. Call("fetch", PatternFetch) \/ Call("fetch", SetSynced(hora))
      BY <1>6 DEF FetchShows, FetchStores
    <2>3. QED
      BY <1>p, <2>1, <2>2 DEF led, Caller
  <1>7. CASE \/ NextPass \/ SkipUpdate \/ BeginUpdate \/ AttemptReturnsEarly
             \/ AttemptReturns \/ FetchEnds \/ Toggle \/ TimeSynchronised
             \/ UNCHANGED vars
    BY <1>7 DEF NextPass, SkipUpdate, BeginUpdate, AttemptReturnsEarly, AttemptReturns,
       FetchEnds, Toggle, TimeSynchronised, vars, callers, led
  <1>8. QED
    BY <1>1, <1>2, <1>3, <1>4, <1>5, <1>6, <1>7
    DEF Next, DispenserTask, FetchTask, Caller

LEMMA LiveInvNext ==
  /\ TypeInv /\ ShapeInv /\ LedInv /\ LiveInv /\ Alone /\ Alone' /\ [Next]_vars
  => LiveInv'
  <1> SUFFICES ASSUME TypeInv, ShapeInv, LedInv, LiveInv, Alone, Alone', [Next]_vars
               PROVE  LiveInv'
    OBVIOUS
  <1>h. HandleInv
    BY DEF LedInv, LiveInv
  <1> USE DEF LiveInv
  <1>1. ASSUME NEW c \in Caller, ReadHandle(c) PROVE LiveInv'
    <2>1. /\ prog[c] # <<>> /\ Head(prog[c]) = "kill"
          /\ UNCHANGED <<blink, vivas, corrupto>>
      BY <1>1 DEF ReadHandle, Doing, led
    <2>2. ~AtOp(c, "null") /\ ~AtOp(c, "delete")
      BY <2>1 DEF AtOp
    <2>3. CASE blink = 0
      <3>1. Done(c) /\ UNCHANGED visto
        BY <1>1, <2>3 DEF ReadHandle
      <3>2. /\ ~AtOp(c, "delete")'
            /\ \A d \in Caller \ {c} : \A op : AtOp(d, op)' <=> AtOp(d, op)
        BY <2>1, <3>1, AfterDone DEF AtOp
      <3>3. QED
        BY <2>1, <2>3, <3>1, <3>2
    <2>4. CASE blink # 0
      <3>1. Becomes(c, "delete") /\ visto' = [visto EXCEPT ![c] = blink]
        BY <1>1, <2>4 DEF ReadHandle
      <3>2. /\ AtOp(c, "delete")'
            /\ \A d \in Caller \ {c} : \A op : AtOp(d, op)' <=> AtOp(d, op)
        BY <2>1, <3>1, AfterReplace DEF AtOp, Op
      <3>3. visto'[c] = blink
        BY <3>1 DEF TypeInv, TypeOK
      <3>4. \A d \in Caller \ {c} : ~AtOp(d, "delete")' /\ ~AtOp(d, "null")
        BY <3>2 DEF Alone, Deleting, Caller
      <3>5. blink \in vivas
        BY <2>2, <2>4, <3>4
      <3>6. QED
        BY <2>1, <2>4, <3>3, <3>4, <3>5
    <2>5. QED
      BY <2>3, <2>4
  <1>2. ASSUME NEW c \in Caller, DeleteTask(c) PROVE LiveInv'
    <2>1. /\ prog[c] # <<>> /\ AtOp(c, "delete") /\ Becomes(c, "null")
          /\ corrupto' = (visto[c] \notin vivas) /\ UNCHANGED <<visto, blink>>
      BY <1>2 DEF DeleteTask, Doing, AtOp
    <2>2. \A d \in Caller : ~AtOp(d, "null") /\ (d # c => ~AtOp(d, "delete"))
      BY <2>1 DEF Alone, Deleting, Caller, AtOp
    <2>3. visto[c] \in vivas
      BY <2>1, <2>2
    <2>4. /\ AtOp(c, "null")' /\ ~AtOp(c, "delete")'
          /\ \A d \in Caller \ {c} : \A op : AtOp(d, op)' <=> AtOp(d, op)
      BY <2>1, AfterReplace DEF AtOp, Op
    <2>5. ~corrupto'
      BY <2>1, <2>3
    <2>6. QED
      BY <2>2, <2>4, <2>5
  <1>3. ASSUME NEW c \in Caller, ClearHandle(c) PROVE LiveInv'
    <2>1. /\ prog[c] # <<>> /\ AtOp(c, "null") /\ Done(c) /\ blink' = 0
          /\ UNCHANGED corrupto
      BY <1>3 DEF ClearHandle, Doing, AtOp
    <2>2. /\ ~AtOp(c, "delete")'
          /\ \A d \in Caller \ {c} : \A op : AtOp(d, op)' <=> AtOp(d, op)
      BY <2>1, AfterDone DEF AtOp
    <2>3. \A d \in Caller \ {c} : ~AtOp(d, "delete")
      BY <2>1 DEF Alone, Deleting, Caller
    <2>4. QED
      BY <2>1, <2>2, <2>3
  <1>4. ASSUME NEW c \in Caller,
               SetLevel(c) \/ CreateBlink(c) \/ PatternAsync(c) \/ PatternStop(c)
        PROVE  LiveInv'
    <2>1. /\ prog[c] # <<>> /\ Done(c) /\ UNCHANGED <<visto, corrupto>>
          /\ Head(prog[c]) \in {"on", "off", "blink", "pattern", "stopPattern"}
      BY <1>4 DEF SetLevel, CreateBlink, PatternAsync, PatternStop, Doing
    <2>2. /\ ~AtOp(c, "delete")' /\ ~AtOp(c, "null")
          /\ \A d \in Caller \ {c} : \A op : AtOp(d, op)' <=> AtOp(d, op)
      BY <2>1, AfterDone DEF AtOp
    <2>3. CASE SetLevel(c)
      BY <2>1, <2>2, <2>3 DEF SetLevel
    <2>4. CASE CreateBlink(c)
      <3>1. blink = 0
        <4>1. Has(c, "blink") /\ AtOp(c, "blink")
          BY <2>1, <2>4, TailShape DEF CreateBlink, Doing, AtOp, Has, TypeInv, TypeOK
        <4>2. QED
          BY <1>h, <4>1 DEF ShapeInv, HandleInv, Caller
      <3>2. \A d \in Caller : ~AtOp(d, "delete")'
        BY <2>2, <3>1
      <3>3. blink' # 0 => blink' \in vivas'
        BY <2>4, <3>1 DEF CreateBlink, NewTask
      <3>4. QED
        BY <2>1, <3>2, <3>3
    <2>5. CASE PatternAsync(c)
      <3>1. blink' = blink /\ vivas \subseteq vivas'
        BY <2>5 DEF PatternAsync, NewTask
      <3>2. QED
        BY <2>1, <2>2, <3>1
    <2>6. CASE PatternStop(c)
      <3>1. blink' = blink /\ (vivas' = vivas \/ vivas' = vivas \ {update})
        BY <2>6 DEF PatternStop
      <3>2. blink # 0 => blink # update
        BY <1>h DEF HandleInv
      <3>3. QED
        BY <2>1, <2>2, <3>1, <3>2
    <2>7. QED
      BY <1>4, <2>3, <2>4, <2>5, <2>6
  <1>5. CASE \A c \in Caller : ~LedSteps(c)
    <2>1. UNCHANGED <<visto, blink, vivas, corrupto>>
      BY <1>5, TaskSteps
    <2>2. CASE UNCHANGED prog
      BY <2>1, <2>2 DEF AtOp
    <2>3. ASSUME NEW c \in Caller, NEW s \in Programs, prog[c] = <<>>, Call(c, s)
          PROVE  LiveInv'
      <3>1. /\ ~AtOp(c, "delete")' /\ ~AtOp(c, "null")
            /\ \A d \in Caller \ {c} : \A op : AtOp(d, op)' <=> AtOp(d, op)
        BY <2>3, AfterProgram DEF AtOp
      <3>2. QED
        BY <2>1, <3>1
    <2>4. QED
      BY <1>5, <2>2, <2>3, TaskSteps
  <1>6. QED
    BY <1>1, <1>2, <1>3, <1>4, <1>5 DEF LedSteps

(* A deleted task is deleted again only after dispenser_task and           *)
(* fetch_task were at once between the load of blink_task_handle and its   *)
(* reset: as long as they are not, which a lock over those three lines     *)
(* would ensure, vTaskDelete gets the handle of a task that exists.        *)
THEOREM DeletedTwiceOnlyTogether == Spec /\ []Alone => []NoDoubleDelete
  <1>1. Init => LiveInv
    BY DEF Init, LiveInv, AtOp, Caller
  <1>2. LiveInv => NoDoubleDelete
    BY DEF LiveInv, NoDoubleDelete
  <1>3. QED
    BY <1>1, <1>2, TypeInit, TypeNext, ShapeInit, ShapeNext, LedInit, LedNext,
       LiveInvNext, PTL
    DEF Spec
=============================================================================
