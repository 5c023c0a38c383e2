---------------------------- MODULE DispenserProofs ----------------------------
(***************************************************************************)
(* Proofs about Dispenser, for every number of compartments, ids, retries, *)
(* edits and restarts.                                                     *)
(***************************************************************************)
EXTENDS Dispenser, SequenceTheorems, TLAPS

-----------------------------------------------------------------------------
(* The lock discipline of the two tasks.                                   *)

(* Locks: the variables HolderInv speaks of, with just the types it needs. *)
LockTypeOK ==
  /\ mutex \in {"libre", "dispenser", "fetch"}
  /\ pausa \in {0, 1}
  /\ dpc \in DispenserPC
  /\ fpc \in FetchPC
  /\ semTaken \in BOOLEAN

(* The semaphore counts one holder only if the two never hold it together. *)
LockInv == LockTypeOK /\ HolderInv /\ FetchPaused

(* At boot nothing is held.                                                *)
NothingHeld ==
  /\ mutex = "libre" /\ pausa = 1 /\ semTaken = FALSE
  /\ dpc = "copy" /\ fpc = "idle"

LEMMA NothingHeldLockInv == NothingHeld => LockInv
  <1> SUFFICES ASSUME NothingHeld PROVE LockInv
    OBVIOUS
  <1>1. LockTypeOK
    BY DEF NothingHeld, LockTypeOK, DispenserPC, FetchPC
  <1>2. ~Updating /\ ~Paused
    BY DEF NothingHeld, Updating, Paused
  <1>3. HolderInv
    BY <1>2 DEF NothingHeld, HolderInv
  <1>4. QED
    BY <1>1, <1>2, <1>3 DEF LockInv, FetchPaused

LEMMA LockInvInit == Init => LockInv
  <1>1. Init => NothingHeld
    BY DEF Init, NothingHeld
  <1>2. QED
    BY <1>1, NothingHeldLockInv

(* Every step of dispenser_task keeps the lock discipline.                 *)
LEMMA LockInvDispenser == LockInv /\ DispenserTask => LockInv'
  <1> SUFFICES ASSUME LockInv, DispenserTask PROVE LockInv'
    OBVIOUS
  <1> USE DEF LockInv, LockTypeOK, HolderInv, FetchPaused, Updating, Paused, DispenserPC, FetchPC,
              fetchVars
  <1>1. CASE CopyTable BY <1>1 DEF CopyTable
  <1>2. CASE CopyTimeout BY <1>2 DEF CopyTimeout
  <1>3. CASE CheckNothingDue BY <1>3 DEF CheckNothingDue
  <1>4. CASE CheckDueStart BY <1>4 DEF CheckDueStart
  <1>5. CASE CheckAspa BY <1>5 DEF CheckAspa
  <1>6. CASE CheckTimeout BY <1>6 DEF CheckTimeout
  <1>7. CASE KeepTurning BY <1>7 DEF KeepTurning
  <1>8. CASE BrakeMotor BY <1>8 DEF BrakeMotor
  <1>9. CASE LockForUpdate BY <1>9 DEF LockForUpdate
  <1>10. CASE LockTimeout BY <1>10 DEF LockTimeout
  <1>11. CASE PauseFetch BY <1>11 DEF PauseFetch
  <1>12. CASE PauseTimeout BY <1>12 DEF PauseTimeout
  <1>13. CASE UpdateGet BY <1>13 DEF UpdateGet
  <1>14. CASE UpdateGetFails BY <1>14 DEF UpdateGetFails, NextAttempt
  <1>15. CASE UpdatePatch BY <1>15 DEF UpdatePatch
  <1>16. CASE UpdatePatchFails BY <1>16 DEF UpdatePatchFails, NextAttempt
  <1>17. CASE ReleasePause BY <1>17 DEF ReleasePause
  <1>18. CASE StopClean BY <1>18 DEF StopClean
  <1>19. QED
    BY <1>1, <1>2, <1>3, <1>4, <1>5, <1>6, <1>7, <1>8, <1>9, <1>10, <1>11, <1>12,
       <1>13, <1>14, <1>15, <1>16, <1>17, <1>18 DEF DispenserTask

(* Every step of fetch_task keeps it.                                      *)
LEMMA LockInvFetch == LockInv /\ FetchTask => LockInv'
  <1> SUFFICES ASSUME LockInv, FetchTask PROVE LockInv'
    OBVIOUS
  <1> USE DEF LockInv, LockTypeOK, HolderInv, FetchPaused, Updating, Paused, DispenserPC, FetchPC,
              dispenserVars
  <1>1. CASE FetchTake BY <1>1 DEF FetchTake
  <1>2. CASE FetchGet BY <1>2 DEF FetchGet
  <1>3. CASE FetchFails BY <1>3 DEF FetchFails
  <1>4. CASE FetchLock BY <1>4 DEF FetchLock
  <1>5. CASE FetchLockTimeout BY <1>5 DEF FetchLockTimeout
  <1>6. CASE FetchStore BY <1>6 DEF FetchStore
  <1>7. CASE FetchGive BY <1>7 DEF FetchGive
  <1>8. QED
    BY <1>1, <1>2, <1>3, <1>4, <1>5, <1>6, <1>7 DEF FetchTask

LEMMA LockInvNext == LockInv /\ [Next]_vars => LockInv'
  <1> SUFFICES ASSUME LockInv, [Next]_vars PROVE LockInv'
    OBVIOUS
  <1> USE DEF LockInv, LockTypeOK, HolderInv, FetchPaused, Updating, Paused, DispenserPC, FetchPC,
              dispenserVars, fetchVars
  <1>1. CASE DispenserTask BY <1>1, LockInvDispenser
  <1>2. CASE FetchTask BY <1>2, LockInvFetch
  <1>3. CASE AppArms BY <1>3 DEF AppArms
  <1>4. CASE AppRemoves BY <1>4 DEF AppRemoves
  <1>5. CASE Tick BY <1>5 DEF Tick
  <1>6. CASE Restart
    <2>1. NothingHeld'
      BY <1>6 DEF Restart, NothingHeld
    <2>2. (NothingHeld => LockInv)'
      BY NothingHeldLockInv, PTL
    <2>3. QED
      BY <2>1, <2>2
  <1>7. CASE UNCHANGED vars BY <1>7 DEF vars
  <1>8. QED
    BY <1>1, <1>2, <1>3, <1>4, <1>5, <1>6, <1>7 DEF Next

(* The mutex and the semaphore are held exactly where the code holds them, *)
(* whatever times out and whenever the board restarts.                     *)
THEOREM LocksHeldWhereCodeHoldsThem == Spec => []HolderInv
  <1>1. LockInv => HolderInv
    BY DEF LockInv
  <1>2. QED
    BY <1>1, LockInvInit, LockInvNext, PTL DEF Spec

(* While dispenser_task records a dose with the semaphore taken,           *)
(* fetch_task is not between its take and its give.                        *)
THEOREM FetchPausedDuringUpdate == Spec => []FetchPaused
  <1>1. LockInv => FetchPaused
    BY DEF LockInv
  <1>2. QED
    BY <1>1, LockInvInit, LockInvNext, PTL DEF Spec

-----------------------------------------------------------------------------
(* Type correctness.  First what the functions on schedules return.        *)

LEMMA SlotOfType == ASSUME NEW e \in Entry PROVE SlotOf(e) \in Slot
  <1>1. 0 \in Id /\ 0 \in Time
    BY TableAssumption DEF Id, Time
  <1>2. e.fecha # FechaInvalida => e.fecha \in Time
    BY DEF Entry
  <1>3. Legible(e) => e.id \in Id
    BY DEF Entry, Legible
  <1>4. QED
    BY <1>1, <1>2, <1>3 DEF Entry, Slot, SlotOf, ZeroSlot

LEMMA ParseTableType == ASSUME NEW d \in Document PROVE ParseTable(d) \in Table
  <1> DEFINE n == IF Len(d) > MAX_COMPARTMENTS THEN MAX_COMPARTMENTS ELSE Len(d)
  <1>1. n \in Nat /\ n <= Len(d)
    BY TableAssumption, LenProperties DEF Document
  <1>2. \A p \in 1 .. n : d[p] \in Entry
    BY <1>1, ElementOfSeq DEF Document
  <1>3. ParseTable(d) \in [1 .. n -> Slot]
    BY <1>2, SlotOfType DEF ParseTable
  <1>4. QED
    BY <1>1, <1>3 DEF Table

LEMMA MarkAtType ==
  ASSUME NEW t \in Table, NEW p PROVE MarkAt(t, p) \in Table
  <1>1. CASE p \in DOMAIN t
    <2>1. t \in Seq(Slot) /\ p \in 1 .. Len(t)
      BY <1>1, LenProperties DEF Table
    <2>a. t[p] \in Slot
      BY <2>1, ElementOfSeq
    <2>2. [t[p] EXCEPT !.dispensado = TRUE] \in Slot
      BY <2>a DEF Slot
    <2>3. QED
      BY <1>1, <2>1, <2>2, ExceptSeq DEF MarkAt, Table
  <1>2. CASE p \notin DOMAIN t
    BY <1>2 DEF MarkAt
  <1>3. QED
    BY <1>1, <1>2

LEMMA SetDispensadoType ==
  ASSUME NEW d \in Document, NEW id PROVE SetDispensado(d, id) \in Document
  <1>1. DOMAIN d = 1 .. Len(d) /\ Len(d) \in Nat
    BY LenProperties DEF Document
  <1>2. \A p \in 1 .. Len(d) : d[p] \in Entry
    BY ElementOfSeq DEF Document
  <1>3. \A p \in 1 .. Len(d) : [d[p] EXCEPT !.dispensado = TRUE] \in Entry
    BY <1>2 DEF Entry
  <1>4. SetDispensado(d, id) \in [1 .. Len(d) -> Entry]
    BY <1>1, <1>2, <1>3 DEF SetDispensado
  <1>5. QED
    BY <1>1, <1>4 DEF Document

LEMMA ArmType ==
  ASSUME NEW d \in Document, NEW p \in DOMAIN d, NEW m \in BOOLEAN
  PROVE  /\ d[p] \in Entry
         /\ [d EXCEPT ![p].dispensado = FALSE, ![p].manual = m] \in Document
  <1>1. d \in Seq(Entry) /\ p \in 1 .. Len(d)
    BY LenProperties DEF Document
  <1>2. d[p] \in Entry
    BY <1>1, ElementOfSeq
  <1> DEFINE e == [d[p] EXCEPT !.dispensado = FALSE]
             d1 == [d EXCEPT ![p] = e]
             f == [d1[p] EXCEPT !.manual = m]
  <1>3. e \in Entry
    BY <1>2 DEF Entry
  <1>4. d1 \in Seq(Entry) /\ Len(d1) = Len(d) /\ d1[p] = e
    BY <1>1, <1>3, ExceptSeq
  <1>5. f \in Entry
    BY <1>3, <1>4 DEF Entry
  <1>6. [d1 EXCEPT ![p] = f] \in Seq(Entry)
    BY <1>1, <1>4, <1>5, ExceptSeq
  <1>7. [d EXCEPT ![p].dispensado = FALSE, ![p].manual = m] = [d1 EXCEPT ![p] = f]
    OBVIOUS
  <1>8. QED
    BY <1>2, <1>6, <1>7 DEF Document

LEMMA RemoveAtType ==
  ASSUME NEW d \in Document, NEW p \in DOMAIN d PROVE RemoveAt(d, p) \in Document
  <1>1. d \in Seq(Entry) /\ p \in 1 .. Len(d) /\ Len(d) \in Nat
    BY LenProperties DEF Document
  <1>2. SubSeq(d, 1, p - 1) \in Seq(Entry)
    BY <1>1, SubSeqProperties
  <1>3. SubSeq(d, p + 1, Len(d)) \in Seq(Entry)
    BY <1>1, SubSeqProperties
  <1>4. QED
    BY <1>2, <1>3, ConcatProperties DEF RemoveAt, Document

(* Type correctness needs two facts besides the types: attempts are counted *)
(* from zero for every dose, and a turn that is not settled has an id.     *)
TypeInv ==
  /\ TypeOK
  /\ dpc \notin {"get", "patch", "release", "clean"} => intento = 0
  /\ dpc \in {"get", "patch"} => intento < FIRESTORE_UPDATE_RETRIES
  /\ dpc \notin {"copy", "check"} \/ enMovimiento => dosing \in Id

LEMMA TypeInvInit == Init => TypeInv
  <1> SUFFICES ASSUME Init PROVE TypeInv
    OBVIOUS
  <1> USE TableAssumption, DispenserAssumption DEF Init
  <1>1. doc \in Document /\ <<>> \in Document /\ <<>> \in Table
    BY DEF Document, Table
  <1>2. servings \in [Id -> 0 .. MaxServings]
    OBVIOUS
  <1>3. /\ acordes \in BOOLEAN /\ enMovimiento \in BOOLEAN /\ ~enMovimiento
        /\ aspaDetectada \in BOOLEAN /\ motor \in BOOLEAN /\ semTaken \in BOOLEAN
        /\ resultado \in BOOLEAN /\ reciente \in BOOLEAN
    BY Zenon
  <1>4. /\ global = <<>> /\ local = <<>> /\ copia = <<>> /\ leido = <<>>
        /\ mutex = "libre" /\ pausa = 1 /\ dpc = "copy" /\ actual = 0 /\ giro = 0
        /\ idReal = 0 /\ intento = 0 /\ fpc = "idle" /\ clock = 1 /\ dosing = NoId
        /\ rtc \in {"unset", "epoch", "valid"} /\ lapses = {} /\ edits = 0 /\ restarts = 0
    BY Zenon
  <1> HIDE DEF Init
  <1>5. QED
    BY <1>1, <1>2, <1>3, <1>4 DEF TypeInv, TypeOK, DispenserPC, FetchPC, Id, Time, NoId

LEMMA TypeInvDispenser == TypeInv /\ DispenserTask => TypeInv'
  <1> SUFFICES ASSUME TypeInv, DispenserTask PROVE TypeInv'
    OBVIOUS
  <1> USE TableAssumption, DispenserAssumption
      DEF TypeInv, TypeOK, DispenserPC, FetchPC, NoId,
          fetchVars, timeVars, ghosts, bounds
  <1>z. 0 \in 0 .. MaxGiro /\ 0 \in 0 .. FIRESTORE_UPDATE_RETRIES /\ 0 \in Id
    BY DEF Id
  <1>e. <<>> \in Document
    BY DEF Document
  <1>1. CASE CopyTable BY <1>1 DEF CopyTable
  <1>2. CASE CopyTimeout BY <1>2 DEF CopyTimeout
  <1>3. CASE CheckNothingDue BY <1>3 DEF CheckNothingDue
  <1>4. CASE CheckDueStart
    <2>1. PICK p \in DOMAIN local :
            /\ actual' = p
            /\ global' = IF mutex = "libre" THEN MarkAt(global, local[p].id) ELSE global
            /\ dosing' = local[p].id
            /\ servings' = [servings EXCEPT ![local[p].id] = Capped(@)]
            /\ acordes' = Agree(p, local[p].id)
      BY <1>4, Zenon DEF CheckDueStart
    <2>2. p \in Nat /\ local[p] \in Slot
      BY LenProperties, ElementOfSeq DEF Table
    <2>3. local[p].id \in Id
      BY <2>2 DEF Slot
    <2>4. global' \in Table
      BY <2>1, MarkAtType
    <2>5. servings' \in [Id -> 0 .. MaxServings]
      BY <2>1, <2>3 DEF Capped
    <2>b. acordes' \in BOOLEAN
      BY <2>1, Zenon DEF Agree
    <2>6. /\ dpc = "check" /\ dpc' = dpc /\ giro' = 0
          /\ motor' = TRUE /\ enMovimiento' = TRUE /\ aspaDetectada' = FALSE
          /\ UNCHANGED <<doc, mutex, pausa, local, semTaken, idReal, intento,
                         resultado, copia, fpc, leido, reciente, clock, rtc, lapses,
                         edits, restarts>>
      BY <1>4 DEF CheckDueStart
    <2>7. TypeOK'
      <3>1. actual' \in Nat /\ giro' \in 0 .. MaxGiro /\ dosing' \in Id \cup {NoId}
        BY <1>z, <2>1, <2>2, <2>3, <2>6
      <3>2. QED
        BY <2>4, <2>5, <2>b, <2>6, <3>1
    <2>8. QED
      BY <2>1, <2>3, <2>6, <2>7
  <1>5. CASE CheckAspa
    <2>1. UNCHANGED <<doc, global, mutex, pausa, local, actual, motor, giro,
                      semTaken, idReal, intento, resultado, copia, fpc,
                      leido, reciente, clock, rtc, dosing, servings, lapses, acordes, edits,
                      restarts>>
      BY <1>5 DEF CheckAspa
    <2>2. /\ dpc = "check" /\ dpc' = "ramp" /\ enMovimiento
          /\ aspaDetectada' \in BOOLEAN /\ enMovimiento' \in BOOLEAN
      BY <1>5 DEF CheckAspa
    <2>3. TypeOK'
      BY <2>1, <2>2
    <2>4. QED
      BY <2>1, <2>2, <2>3
  <1>6. CASE CheckTimeout
    <2>1. UNCHANGED <<doc, global, mutex, pausa, local, actual,
                      aspaDetectada, motor, giro, semTaken, idReal, intento,
                      resultado, copia, fpc, leido, reciente, clock, rtc, dosing,
                      servings, lapses, acordes, edits, restarts>>
      BY <1>6 DEF CheckTimeout
    <2>2. /\ dpc = "check" /\ dpc' = "ramp" /\ enMovimiento
          /\ enMovimiento' \in BOOLEAN
      BY <1>6 DEF CheckTimeout
    <2>3. TypeOK'
      BY <2>1, <2>2
    <2>4. QED
      BY <2>1, <2>2, <2>3
  <1>7. CASE KeepTurning BY <1>7 DEF KeepTurning
  <1>8. CASE BrakeMotor
    <2>1. UNCHANGED <<doc, global, mutex, pausa, local, actual, enMovimiento,
                      aspaDetectada, giro, semTaken, idReal, intento,
                      resultado, copia, fpc, leido, reciente, clock, rtc, dosing,
                      servings, lapses, acordes, edits, restarts>>
      BY <1>8 DEF BrakeMotor
    <2>2. dpc = "ramp" /\ dpc' = "lock" /\ motor' \in BOOLEAN
      BY <1>8 DEF BrakeMotor
    <2>3. TypeOK'
      BY <2>1, <2>2
    <2>4. QED
      BY <2>1, <2>2, <2>3
  <1>9. CASE LockForUpdate
    <2>1. local' \in Table
      BY <1>9, MarkAtType DEF LockForUpdate
    <2>2. global' \in Table
      BY <1>9, MarkAtType DEF LockForUpdate
    <2>3. ASSUME actual \in DOMAIN global PROVE global[actual].id \in Id
      <3>1. global[actual] \in Slot
        BY <2>3, LenProperties, ElementOfSeq DEF Table
      <3>2. QED
        BY <3>1 DEF Slot
    <2>4. idReal' \in Id
      BY <1>9, <2>3 DEF LockForUpdate
    <2>5. QED
      BY <1>9, <2>1, <2>2, <2>4 DEF LockForUpdate
  <1>10. CASE LockTimeout BY <1>10 DEF LockTimeout
  <1>11. CASE PauseFetch BY <1>11 DEF PauseFetch
  <1>12. CASE PauseTimeout BY <1>12 DEF PauseTimeout
  <1>13. CASE UpdateGet BY <1>13, SetDispensadoType DEF UpdateGet
  <1>n. dpc \in {"get", "patch"} => intento + 1 \in 0 .. FIRESTORE_UPDATE_RETRIES
    OBVIOUS
  <1>14. CASE UpdateGetFails 
    <2>1. intento' \in 0 .. FIRESTORE_UPDATE_RETRIES /\ copia' \in Document
          /\ resultado' \in BOOLEAN
      BY <1>14, <1>e, <1>n DEF UpdateGetFails, NextAttempt
    <2>2. dpc' \in {"get", "release"}
          /\ (dpc' = "get" => intento' < FIRESTORE_UPDATE_RETRIES)
      BY <1>14 DEF UpdateGetFails, NextAttempt
    <2>3. TypeOK'
      <3>1. UNCHANGED <<doc, global, mutex, pausa, local, actual, enMovimiento,
                        aspaDetectada, motor, giro, semTaken, idReal, fpc, leido, reciente,
                        clock, rtc, dosing, servings, lapses, acordes, edits, restarts>>
        BY <1>14 DEF UpdateGetFails
      <3>2. QED
        BY <2>1, <2>2, <3>1
    <2>4. dpc \notin {"copy", "check"} /\ UNCHANGED <<enMovimiento, dosing>>
      BY <1>14 DEF UpdateGetFails
    <2>5. QED
      BY <2>1, <2>2, <2>3, <2>4
  <1>15. CASE UpdatePatch BY <1>15, <1>e DEF UpdatePatch
  <1>16. CASE UpdatePatchFails 
    <2>1. intento' \in 0 .. FIRESTORE_UPDATE_RETRIES /\ copia' \in Document
          /\ resultado' \in BOOLEAN
      BY <1>16, <1>e, <1>n DEF UpdatePatchFails, NextAttempt
    <2>2. dpc' \in {"get", "release"}
          /\ (dpc' = "get" => intento' < FIRESTORE_UPDATE_RETRIES)
      BY <1>16 DEF UpdatePatchFails, NextAttempt
    <2>3. doc' \in Document
      BY <1>16 DEF UpdatePatchFails
    <2>4. TypeOK'
      <3>1. UNCHANGED <<global, mutex, pausa, local, actual, enMovimiento,
                        aspaDetectada, motor, giro, semTaken, idReal, fpc, leido, reciente,
                        clock, rtc, dosing, servings, lapses, acordes, edits, restarts>>
        BY <1>16 DEF UpdatePatchFails
      <3>2. QED
        BY <2>1, <2>2, <2>3, <3>1
    <2>5. dpc \notin {"copy", "check"} /\ UNCHANGED <<enMovimiento, dosing>>
      BY <1>16 DEF UpdatePatchFails
    <2>6. QED
      BY <2>1, <2>2, <2>3, <2>4, <2>5
  <1>17. CASE ReleasePause BY <1>17 DEF ReleasePause
  <1>18. CASE StopClean 
    <2>1. dosing \in Id /\ dosing' \in Id \cup {NoId} /\ lapses' \in SUBSET Id
      BY <1>18 DEF StopClean
    <2>s. servings' \in [Id -> 0 .. MaxServings]
      <3>1. 1 \in 0 .. MaxServings
        OBVIOUS
      <3>2. CASE Settled
        BY <1>18, <2>1, <3>1, <3>2 DEF StopClean
      <3>3. CASE ~Settled
        BY <1>18, <3>3 DEF StopClean
      <3>4. QED
        BY <3>2, <3>3
    <2>2. mutex' \in {"libre", "dispenser", "fetch"}
      BY <1>18 DEF StopClean
    <2>3. giro' \in 0 .. MaxGiro /\ intento' \in 0 .. FIRESTORE_UPDATE_RETRIES
          /\ idReal' \in Id
      BY <1>18, <1>z DEF StopClean
    <2>b. acordes' \in BOOLEAN
      BY <1>18, Zenon DEF StopClean
    <2>4. UNCHANGED <<doc, global, pausa, local, motor, copia, fpc, leido, reciente, clock, rtc,
                      edits, restarts>>
      BY <1>18 DEF StopClean
    <2>5. /\ enMovimiento' = FALSE /\ aspaDetectada' \in BOOLEAN /\ actual' = 0
          /\ semTaken' \in BOOLEAN /\ resultado' \in BOOLEAN
          /\ intento' = 0 /\ dpc' = "copy"
      BY <1>18 DEF StopClean
    <2>6. TypeOK'
      BY <2>1, <2>s, <2>b, <2>2, <2>3, <2>4, <2>5
    <2>7. QED
      BY <2>5, <2>6, <1>z
  <1>19. QED
    BY <1>1, <1>2, <1>3, <1>4, <1>5, <1>6, <1>7, <1>8, <1>9, <1>10, <1>11, <1>12,
       <1>13, <1>14, <1>15, <1>16, <1>17, <1>18 DEF DispenserTask

LEMMA TypeInvFetch == TypeInv /\ FetchTask => TypeInv'
  <1> SUFFICES ASSUME TypeInv, FetchTask PROVE TypeInv'
    OBVIOUS
  <1> USE DEF TypeInv, TypeOK, DispenserPC, FetchPC,
          dispenserVars, timeVars, ghosts, bounds
  <1>0. <<>> \in Document
    BY DEF Document
  <1>1. CASE FetchTake BY <1>1 DEF FetchTake
  <1>2. CASE FetchGet BY <1>2 DEF FetchGet
  <1>3. CASE FetchFails BY <1>3 DEF FetchFails
  <1>4. CASE FetchLock
    <2>1. reciente' \in BOOLEAN /\ mutex' = "fetch" /\ fpc' = "store"
      BY <1>4 DEF FetchLock
    <2>2. UNCHANGED <<doc, global, pausa, dispenserVars, leido, timeVars, ghosts, bounds>>
      BY <1>4 DEF FetchLock
    <2>3. QED
      BY <2>1, <2>2
  <1>5. CASE FetchLockTimeout
    <2>1. reciente' \in BOOLEAN /\ leido' = <<>> /\ fpc' = "give"
      BY <1>5 DEF FetchLockTimeout
    <2>2. UNCHANGED <<doc, global, mutex, pausa, dispenserVars, timeVars, ghosts, bounds>>
      BY <1>5 DEF FetchLockTimeout
    <2>3. QED
      BY <1>0, <2>1, <2>2
  <1>6. CASE FetchStore BY <1>0, <1>6, ParseTableType DEF FetchStore
  <1>7. CASE FetchGive BY <1>7 DEF FetchGive
  <1>8. QED
    BY <1>1, <1>2, <1>3, <1>4, <1>5, <1>6, <1>7 DEF FetchTask

LEMMA TypeInvNext == TypeInv /\ [Next]_vars => TypeInv'
  <1> SUFFICES ASSUME TypeInv, [Next]_vars PROVE TypeInv'
    OBVIOUS
  <1> USE TableAssumption, DispenserAssumption
      DEF TypeInv, TypeOK, DispenserPC, FetchPC,
          dispenserVars, fetchVars, timeVars, ghosts, bounds
  <1>1. CASE DispenserTask BY <1>1, TypeInvDispenser
  <1>2. CASE FetchTask BY <1>2, TypeInvFetch
  <1>3. CASE AppArms
    <2>1. PICK p \in DOMAIN doc, m \in BOOLEAN :
            /\ doc' = [doc EXCEPT ![p].dispensado = FALSE, ![p].manual = m]
            /\ IF doc[p].dispensado
                 THEN /\ servings' = [servings EXCEPT ![doc[p].id] = 0]
                      /\ lapses' = lapses \ {doc[p].id}
                 ELSE UNCHANGED <<servings, lapses>>
      BY <1>3 DEF AppArms
    <2>2. doc' \in Document /\ doc[p] \in Entry
      BY <2>1, ArmType
    <2>3. servings' \in [Id -> 0 .. MaxServings] /\ lapses' \in SUBSET Id
      BY <2>1, <2>2 DEF Entry
    <2>4. QED
      BY <1>3, <2>2, <2>3 DEF AppArms
  <1>4. CASE AppRemoves BY <1>4, RemoveAtType DEF AppRemoves
  <1>5. CASE Tick BY <1>5 DEF Tick, Time
  <1>6. CASE Restart
    <2>1. <<>> \in Document /\ <<>> \in Table /\ 0 \in Id
      BY DEF Document, Table, Id
    <2>2. lapses' \in SUBSET Id /\ dosing' \in Id \cup {NoId}
      BY <1>6 DEF Restart
    <2>3. giro' \in 0 .. MaxGiro /\ intento' \in 0 .. FIRESTORE_UPDATE_RETRIES
          /\ restarts' \in 0 .. MaxRestarts
      BY <1>6 DEF Restart
    <2>4. rtc' \in {"unset", "epoch", "valid"}
      BY <1>6 DEF Restart
    <2>5. QED
      BY <1>6, <2>1, <2>2, <2>3, <2>4 DEF Restart
  <1>7. CASE UNCHANGED vars BY <1>7 DEF vars
  <1>8. QED
    BY <1>1, <1>2, <1>3, <1>4, <1>5, <1>6, <1>7 DEF Next

(* Every variable keeps its type; in particular no dose is attempted more  *)
(* than FIRESTORE_UPDATE_RETRIES times and no turn outlasts MaxGiro passes.*)
THEOREM TypeCorrect == Spec => []TypeOK
  <1>1. TypeInv => TypeOK
    BY DEF TypeInv
  <1>2. QED
    BY <1>1, TypeInvInit, TypeInvNext, PTL DEF Spec
-----------------------------------------------------------------------------
(* How far a turn, or a refresh, still has to go: what the progress of the *)
(* tasks (runs of MotorStops and LocksReturned) rests on, without the      *)
(* fairness that makes them take their steps.                              *)

(* Steps dispenser_task has left at most until its turn is over.           *)
TurnRank ==
  IF enMovimiento
    THEN 2 * FIRESTORE_UPDATE_RETRIES + 2 * (MaxGiro - giro) + (IF dpc = "copy" THEN 8 ELSE 7)
    ELSE CASE dpc = "ramp" -> 2 * FIRESTORE_UPDATE_RETRIES + 6
           [] dpc = "lock" -> 2 * FIRESTORE_UPDATE_RETRIES + 5
           [] dpc = "pause" -> 2 * FIRESTORE_UPDATE_RETRIES + 4
           [] dpc = "get" -> 2 * (FIRESTORE_UPDATE_RETRIES - intento) + 3
           [] dpc = "patch" -> 2 * (FIRESTORE_UPDATE_RETRIES - intento) + 2
           [] dpc = "release" -> 2
           [] dpc = "clean" -> 1
           [] OTHER -> 0

MaxTurnRank == 2 * FIRESTORE_UPDATE_RETRIES + 2 * MaxGiro + 8

(* Steps fetch_task has left until it has given everything back.           *)
FetchRank ==
  CASE fpc = "get" -> 4 [] fpc = "lock" -> 3 [] fpc = "store" -> 2
    [] fpc = "give" -> 1 [] OTHER -> 0

(* The motor turns exactly while the task watches it or ramps it down.     *)
MotorInv ==
  /\ enMovimiento => dpc \in {"copy", "check"}
  /\ motor <=> enMovimiento \/ dpc = "ramp"

ProgressInv == LockInv /\ TypeInv /\ MotorInv

LEMMA MotorInvInit == Init => MotorInv
  BY DEF Init, MotorInv

LEMMA MotorInvNext == TypeInv /\ MotorInv /\ [Next]_vars => MotorInv'
  <1> SUFFICES ASSUME TypeInv, MotorInv, [Next]_vars PROVE MotorInv'
    OBVIOUS
  <1>t. motor \in BOOLEAN /\ enMovimiento \in BOOLEAN
    BY DEF TypeInv, TypeOK
  <1> USE DEF MotorInv
  <1>1. CASE CopyTable \/ CopyTimeout \/ CheckNothingDue \/ CheckDueStart
    BY <1>1 DEF CopyTable, CopyTimeout, CheckNothingDue, CheckDueStart
  <1>2. CASE CheckAspa \/ CheckTimeout \/ KeepTurning \/ BrakeMotor
    BY <1>2 DEF CheckAspa, CheckTimeout, KeepTurning, BrakeMotor
  <1>3. CASE LockForUpdate \/ LockTimeout \/ PauseFetch \/ PauseTimeout
    BY <1>3 DEF LockForUpdate, LockTimeout, PauseFetch, PauseTimeout
  <1>4. CASE UpdateGet \/ UpdateGetFails \/ UpdatePatch \/ UpdatePatchFails
    BY <1>4 DEF UpdateGet, UpdateGetFails, UpdatePatch, UpdatePatchFails, NextAttempt
  <1>5. CASE ReleasePause \/ StopClean \/ Restart
    BY <1>5 DEF ReleasePause, StopClean, Restart
  <1>6. CASE FetchTask \/ AppArms \/ AppRemoves \/ Tick \/ UNCHANGED vars
    <2>1. UNCHANGED <<motor, enMovimiento, dpc>>
      BY <1>6 DEF FetchTask, FetchTake, FetchGet, FetchFails, FetchLock, FetchLockTimeout,
         FetchStore, FetchGive, AppArms, AppRemoves, Tick, vars, dispenserVars
    <2>2. QED
      BY <2>1
  <1>7. QED
    BY <1>1, <1>2, <1>3, <1>4, <1>5, <1>6 DEF Next, DispenserTask

LEMMA ProgressInvInit == Init => ProgressInv
  BY LockInvInit, TypeInvInit, MotorInvInit DEF ProgressInv

LEMMA ProgressInvNext == ProgressInv /\ [Next]_vars => ProgressInv'
  BY LockInvNext, TypeInvNext, MotorInvNext DEF ProgressInv

(* The motor is driven exactly from the choice of a slot to the brake of   *)
(* dispenser_motor_stop: no path of the task, and no restart, leaves it    *)
(* turning with nobody watching the vane or the 1000 ms.                   *)
THEOREM MotorIsWatched == Spec => [](motor <=> enMovimiento \/ dpc = "ramp")
  <1>1. ProgressInv => (motor <=> enMovimiento \/ dpc = "ramp")
    BY DEF ProgressInv, MotorInv
  <1>2. QED
    BY <1>1, ProgressInvInit, ProgressInvNext, PTL DEF Spec

(* The rank is a number, and positive while the task has something to give *)
(* back.                                                                   *)
LEMMA TurnRankBounds ==
  ASSUME ProgressInv
  PROVE  /\ TurnRank \in 0 .. MaxTurnRank
         /\ motor \/ mutex = "dispenser" \/ semTaken => TurnRank > 0
  <1>1. /\ FIRESTORE_UPDATE_RETRIES \in Nat /\ MaxGiro \in Nat
        /\ giro \in 0 .. MaxGiro /\ intento \in 0 .. FIRESTORE_UPDATE_RETRIES
        /\ dpc \in DispenserPC /\ enMovimiento \in BOOLEAN
    BY DispenserAssumption DEF ProgressInv, TypeInv, TypeOK
  <1>2. TurnRank \in 0 .. MaxTurnRank
    BY <1>1 DEF TurnRank, MaxTurnRank, DispenserPC
  <1>3. enMovimiento \/ dpc \notin {"copy", "check"} => TurnRank > 0
    BY <1>1 DEF TurnRank, DispenserPC
  <1>4. motor \/ mutex = "dispenser" \/ semTaken =>
          enMovimiento \/ dpc \notin {"copy", "check"}
    BY DEF ProgressInv, MotorInv, LockInv, HolderInv, Updating
  <1>5. QED
    BY <1>2, <1>3, <1>4

LEMMA TurnRankFalls ==
  ASSUME ProgressInv, DispenserTask, TurnRank > 0
  PROVE  TurnRank' < TurnRank
  <1>t. /\ FIRESTORE_UPDATE_RETRIES \in Nat \ {0} /\ MaxGiro \in Nat \ {0}
        /\ giro \in 0 .. MaxGiro /\ intento \in 0 .. FIRESTORE_UPDATE_RETRIES
        /\ dpc \in DispenserPC /\ enMovimiento \in BOOLEAN
        /\ enMovimiento => dpc \in {"copy", "check"}
        /\ dpc \in {"get", "patch"} => intento < FIRESTORE_UPDATE_RETRIES
        /\ dpc = "pause" => intento = 0
    BY DispenserAssumption DEF ProgressInv, MotorInv, TypeInv, TypeOK
  <1> USE <1>t DEF TurnRank, DispenserPC
  <1>1. CASE CopyTable \/ CopyTimeout
    BY <1>1 DEF CopyTable, CopyTimeout
  <1>2. CASE CheckNothingDue \/ CheckDueStart
    BY <1>2 DEF CheckNothingDue, CheckDueStart
  <1>3. CASE CheckAspa \/ CheckTimeout
    BY <1>3 DEF CheckAspa, CheckTimeout
  <1>4. CASE KeepTurning
    BY <1>4 DEF KeepTurning
  <1>5. CASE BrakeMotor \/ LockTimeout
    BY <1>5 DEF BrakeMotor, LockTimeout
  <1>6. CASE LockForUpdate
    <2>1. dpc = "lock" /\ dpc' \in {"pause", "clean"} /\ UNCHANGED enMovimiento
      BY <1>6 DEF LockForUpdate
    <2>2. QED
      BY <2>1
  <1>7. CASE PauseFetch \/ PauseTimeout
    BY <1>7 DEF PauseFetch, PauseTimeout
  <1>8. CASE UpdateGet
    BY <1>8 DEF UpdateGet
  <1>9. CASE UpdateGetFails \/ UpdatePatchFails
    BY <1>9 DEF UpdateGetFails, UpdatePatchFails, NextAttempt
  <1>10. CASE UpdatePatch \/ ReleasePause \/ StopClean
    BY <1>10 DEF UpdatePatch, ReleasePause, StopClean
  <1>11. QED
    BY <1>1, <1>2, <1>3, <1>4, <1>5, <1>6, <1>7, <1>8, <1>9, <1>10 DEF DispenserTask

LEMMA OthersKeepTurnRank ==
  ASSUME [Next]_vars, ~DispenserTask
  PROVE  TurnRank' \in {TurnRank, 0}
  <1>1. CASE Restart
    BY <1>1 DEF Restart, TurnRank
  <1>2. CASE ~Restart
    <2>1. UNCHANGED <<enMovimiento, dpc, giro, intento>>
      BY <1>2 DEF Next, FetchTask, FetchTake, FetchGet, FetchFails, FetchLock,
         FetchLockTimeout, FetchStore, FetchGive, AppArms, AppRemoves, Tick, vars,
         dispenserVars
    <2>2. QED
      BY <2>1 DEF TurnRank
  <1>3. QED
    BY <1>1, <1>2

(* A turn is over, its motor stopped and both locks given back, after at   *)
(* most MaxTurnRank steps of dispenser_task: every step it takes is one    *)
(* less to go, with any timeout and any failed request, and nothing that   *)
(* fetch_task, the app or time does adds one (a restart ends the turn).    *)
TurnAdvances ==
  [][/\ TurnRank > 0 /\ DispenserTask => TurnRank' < TurnRank
     /\ ~DispenserTask => TurnRank' \in {TurnRank, 0}]_vars

TurnBounded ==
  /\ TurnRank \in 0 .. MaxTurnRank
  /\ motor \/ mutex = "dispenser" \/ semTaken => TurnRank > 0

(* The rank is bounded, positive while the motor or a lock is held, and    *)
(* falls with every step of dispenser_task.                                *)
THEOREM TurnsAreBounded == Spec => []TurnBounded /\ TurnAdvances
  <1>1. ProgressInv => TurnBounded
    BY TurnRankBounds DEF TurnBounded
  <1>2. ProgressInv /\ [Next]_vars =>
          [/\ TurnRank > 0 /\ DispenserTask => TurnRank' < TurnRank
           /\ ~DispenserTask => TurnRank' \in {TurnRank, 0}]_vars
    BY TurnRankFalls, OthersKeepTurnRank
  <1>3. QED
    BY <1>1, <1>2, ProgressInvInit, ProgressInvNext, PTL DEF Spec, TurnAdvances

(* A refresh gives the mutex and the semaphore back after at most four     *)
(* steps of fetch_task, whatever dispenser_task holds meanwhile.           *)
FetchAdvances ==
  [][/\ FetchRank > 0 /\ FetchTask => FetchRank' < FetchRank
     /\ ~FetchTask => FetchRank' \in {FetchRank, 0}]_vars

FetchBounded ==
  /\ FetchRank \in 0 .. 4
  /\ mutex = "fetch" => FetchRank > 0
  /\ pausa = 0 => FetchRank > 0 \/ TurnRank > 0

(* The same for fetch_task; a semaphore that is down is held by one of the *)
(* two tasks, so that it is given back too.                                *)
THEOREM RefreshesAreBounded == Spec => []FetchBounded /\ FetchAdvances
  <1>1. ASSUME ProgressInv PROVE FetchBounded
    <2>1. fpc \in FetchPC /\ pausa \in {0, 1}
      BY <1>1 DEF ProgressInv, TypeInv, TypeOK
    <2>2. FetchRank \in 0 .. 4 /\ (fpc # "idle" => FetchRank > 0)
      BY <2>1 DEF FetchRank, FetchPC
    <2>3. mutex = "fetch" => fpc = "store"
      BY <1>1 DEF ProgressInv, LockInv, HolderInv
    <2>4. pausa = 0 => semTaken \/ fpc # "idle"
      BY <1>1 DEF ProgressInv, LockInv, HolderInv, Paused
    <2>5. QED
      BY <1>1, <2>2, <2>3, <2>4, TurnRankBounds DEF FetchBounded
  <1>2. ASSUME FetchRank > 0, FetchTask PROVE FetchRank' < FetchRank
    BY <1>2 DEF FetchRank, FetchTask, FetchTake, FetchGet, FetchFails, FetchLock,
       FetchLockTimeout, FetchStore, FetchGive
  <1>3. ASSUME [Next]_vars, ~FetchTask PROVE FetchRank' \in {FetchRank, 0}
    <2>1. CASE Restart
      BY <2>1 DEF Restart, FetchRank
    <2>2. CASE ~Restart
      <3>1. UNCHANGED fpc
        BY <1>3, <2>2 DEF Next, DispenserTask, CopyTable, CopyTimeout, CheckNothingDue,
           CheckDueStart, CheckAspa, CheckTimeout, KeepTurning, BrakeMotor, LockForUpdate,
           LockTimeout, PauseFetch, PauseTimeout, UpdateGet, UpdateGetFails, UpdatePatch,
           UpdatePatchFails, ReleasePause, StopClean, AppArms, AppRemoves, Tick, vars,
           fetchVars
      <3>2. QED
        BY <3>1 DEF FetchRank
    <2>3. QED
      BY <2>1, <2>2
  <1>4. ProgressInv /\ [Next]_vars =>
          [/\ FetchRank > 0 /\ FetchTask => FetchRank' < FetchRank
           /\ ~FetchTask => FetchRank' \in {FetchRank, 0}]_vars
    BY <1>2, <1>3
  <1>5. QED
    BY <1>1, <1>4, ProgressInvInit, ProgressInvNext, PTL DEF Spec, FetchAdvances
=============================================================================
