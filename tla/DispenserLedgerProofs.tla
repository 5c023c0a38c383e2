------------------------- MODULE DispenserLedgerProofs -------------------------
(***************************************************************************)
(* Proofs that the dispenser keeps its ledger, for every number of         *)
(* compartments, ids, retries, edits and restarts.  The schedules at first *)
(* have distinct ids and no entry that the parser skips: with the others   *)
(* the code loses count (run DispenserMalformed).  What the board records  *)
(* while nobody edits (the last section) asks nothing of the schedules.    *)
(***************************************************************************)
EXTENDS DispenserProofs

Unique(t) == \A p, q \in DOMAIN t : t[p].id = t[q].id => p = q
Good(d) == Unique(d) /\ \A p \in DOMAIN d : Legible(d[p])
GoodSchedules == \A d \in Schedules : Good(d)

SameIds(s, t) == DOMAIN s = DOMAIN t /\ \A p \in DOMAIN s : s[p].id = t[p].id

-----------------------------------------------------------------------------
(* What the functions on tables keep of ids and marks.                     *)

LEMMA EmptyTable ==
  ASSUME NEW id
  PROVE  Unique(<<>>) /\ Good(<<>>) /\ Shows(<<>>, id)
  BY DEF Unique, Good, Shows

LEMMA SameIdsSymmetric ==
  ASSUME NEW s, NEW t, SameIds(s, t) PROVE SameIds(t, s)
  BY DEF SameIds

LEMMA SameIdsTransitive ==
  ASSUME NEW r, NEW s, NEW t, SameIds(r, s), SameIds(s, t) PROVE SameIds(r, t)
  BY DEF SameIds

LEMMA SameIdsUnique ==
  ASSUME NEW s, NEW t, SameIds(s, t), Unique(s) PROVE Unique(t)
  BY DEF SameIds, Unique

LEMMA MarkAtIds ==
  ASSUME NEW t \in Table, NEW p
  PROVE  SameIds(MarkAt(t, p), t) /\ SameIds(t, MarkAt(t, p))
  <1>1. CASE p \in DOMAIN t
    <2>1. t \in [1 .. Len(t) -> Slot]
      BY LenProperties DEF Table
    <2>2. t[p] \in Slot
      BY <1>1, <2>1
    <2>3. [t[p] EXCEPT !.dispensado = TRUE].id = t[p].id
      BY <2>2 DEF Slot
    <2>4. QED
      BY <1>1, <2>1, <2>3 DEF MarkAt, SameIds
  <1>2. CASE p \notin DOMAIN t
    BY <1>2 DEF MarkAt, SameIds
  <1>3. QED
    BY <1>1, <1>2

(* A mark hides nothing that was shown, and shows the slot it is put on.   *)
LEMMA MarkAtShows ==
  ASSUME NEW t \in Table, NEW p, NEW id
  PROVE  /\ Shows(t, id) => Shows(MarkAt(t, p), id)
         /\ Unique(t) /\ p \in DOMAIN t => Shows(MarkAt(t, p), t[p].id)
  <1>1. CASE p \in DOMAIN t
    <2>1. t \in [1 .. Len(t) -> Slot]
      BY LenProperties DEF Table
    <2>2. t[p] \in Slot
      BY <1>1, <2>1
    <2> DEFINE s == [t[p] EXCEPT !.dispensado = TRUE]
    <2>3. s.id = t[p].id /\ s.dispensado = TRUE
      BY <2>2 DEF Slot
    <2>4. MarkAt(t, p) = [t EXCEPT ![p] = s]
      BY <1>1 DEF MarkAt
    <2>5. /\ DOMAIN MarkAt(t, p) = DOMAIN t /\ MarkAt(t, p)[p] = s
          /\ \A q \in DOMAIN t : q # p => MarkAt(t, p)[q] = t[q]
      BY <1>1, <2>1, <2>4
    <2> HIDE DEF s
    <2>6. QED
      BY <1>1, <2>3, <2>5 DEF Shows, Unique
  <1>2. CASE p \notin DOMAIN t
    BY <1>2 DEF MarkAt
  <1>3. QED
    BY <1>1, <1>2

(* Parsing a good document keeps ids and marks.                            *)
LEMMA ParseTableShows ==
  ASSUME NEW d \in Document, Good(d), NEW id
  PROVE  /\ Unique(ParseTable(d))
         /\ Shows(d, id) => Shows(ParseTable(d), id)
  <1> DEFINE n == IF Len(d) > MAX_COMPARTMENTS THEN MAX_COMPARTMENTS ELSE Len(d)
  <1>1. DOMAIN d = 1 .. Len(d) /\ Len(d) \in Nat
    BY LenProperties DEF Document
  <1>2. DOMAIN ParseTable(d) = 1 .. n /\ 1 .. n \subseteq DOMAIN d
    BY <1>1, TableAssumption DEF ParseTable
  <1>3. \A p \in 1 .. n : /\ ParseTable(d)[p].id = d[p].id
                          /\ ParseTable(d)[p].dispensado = d[p].dispensado
    <2> TAKE p \in 1 .. n
    <2>1. Legible(d[p])
      BY <1>2 DEF Good
    <2>2. ParseTable(d)[p] = SlotOf(d[p])
      BY DEF ParseTable
    <2>3. QED
      BY <2>1, <2>2 DEF SlotOf
  <1> HIDE DEF n
  <1>4. QED
    BY <1>2, <1>3 DEF Good, Unique, Shows

(* The update keeps a document good, hides nothing that was shown, and     *)
(* shows the id it is for.                                                 *)
LEMMA SetDispensadoShows ==
  ASSUME NEW d \in Document, Good(d), NEW x, NEW id
  PROVE  /\ Good(SetDispensado(d, x))
         /\ Shows(d, id) => Shows(SetDispensado(d, x), id)
         /\ Shows(SetDispensado(d, x), x)
  <1> DEFINE e(p) == SetDispensado(d, x)[p]
  <1>1. DOMAIN d = 1 .. Len(d) /\ Len(d) \in Nat
    BY LenProperties DEF Document
  <1>2. \A p \in DOMAIN d : d[p] \in Entry
    BY <1>1, ElementOfSeq DEF Document
  <1>3. DOMAIN SetDispensado(d, x) = DOMAIN d
    BY DEF SetDispensado
  <1>4. \A p \in DOMAIN d :
          /\ e(p).id = d[p].id /\ e(p).completo = d[p].completo
          /\ d[p].dispensado => e(p).dispensado
    BY <1>2 DEF SetDispensado, Entry
  <1>5. \A p \in DOMAIN d : d[p].id = x => e(p).dispensado
    <2> SUFFICES ASSUME NEW p \in DOMAIN d, d[p].id = x PROVE e(p).dispensado
      OBVIOUS
    <2>1. p \in PositionsOf(d, x) /\ \A q \in PositionsOf(d, x) : q = p
      BY DEF PositionsOf, Good, Unique
    <2>2. p <= p
      BY <1>1
    <2>3. e(p) = [d[p] EXCEPT !.dispensado = TRUE]
      BY <2>1, <2>2 DEF SetDispensado
    <2>4. QED
      BY <1>2, <2>3 DEF Entry
  <1> HIDE DEF e
  <1>6. \A p \in DOMAIN SetDispensado(d, x) : SetDispensado(d, x)[p] = e(p)
    BY DEF e
  <1>7. Good(SetDispensado(d, x))
    BY <1>3, <1>4, <1>6 DEF Good, Unique, Legible
  <1>8. QED
    BY <1>3, <1>4, <1>5, <1>6, <1>7 DEF Shows

(* Removing an entry keeps a document good and hides nothing.              *)
LEMMA RemoveAtShows ==
  ASSUME NEW d \in Document, Good(d), NEW p \in DOMAIN d, NEW id
  PROVE  /\ Good(RemoveAt(d, p))
         /\ Shows(d, id) => Shows(RemoveAt(d, p), id)
  <1>1. d \in Seq(Entry) /\ DOMAIN d = 1 .. Len(d) /\ Len(d) \in Nat
        /\ p \in 1 .. Len(d)
    BY LenProperties DEF Document
  <1> DEFINE a == SubSeq(d, 1, p - 1)
             b == SubSeq(d, p + 1, Len(d))
  <1>e. \A q \in 1 .. Len(d) : d[q] \in Entry
    BY <1>1, ElementOfSeq
  <1>2. a \in Seq(Entry) /\ Len(a) = p - 1 /\ \A q \in 1 .. p - 1 : a[q] = d[q]
    BY <1>1, <1>e, SubSeqProperties
  <1>3. b \in Seq(Entry) /\ Len(b) = Len(d) - p
        /\ \A q \in 1 .. Len(d) - p : b[q] = d[p + q]
    BY <1>1, <1>e, SubSeqProperties
  <1>4. RemoveAt(d, p) = a \o b
    BY DEF RemoveAt
  <1> HIDE DEF a, b
  <1> DEFINE r == a \o b
             from(q) == IF q < p THEN q ELSE q + 1
  <1>5. /\ r \in Seq(Entry) /\ Len(r) = Len(d) - 1
        /\ \A q \in 1 .. Len(d) - 1 : r[q] = IF q <= p - 1 THEN a[q] ELSE b[q - (p - 1)]
    <2>1. /\ r \in Seq(Entry) /\ Len(r) = Len(a) + Len(b)
          /\ \A q \in 1 .. Len(a) + Len(b) :
               r[q] = IF q <= Len(a) THEN a[q] ELSE b[q - Len(a)]
      BY <1>2, <1>3, ConcatProperties
    <2>2. Len(a) = p - 1 /\ Len(a) + Len(b) = Len(d) - 1
      BY <1>1, <1>2, <1>3
    <2>3. QED
      BY <2>1, <2>2
  <1>6. DOMAIN r = 1 .. Len(d) - 1
    BY <1>5, LenProperties
  <1> HIDE DEF r
  <1>7. \A q \in DOMAIN r : from(q) \in DOMAIN d /\ r[q] = d[from(q)]
    <2> SUFFICES ASSUME NEW q \in DOMAIN r
                 PROVE  from(q) \in DOMAIN d /\ r[q] = d[from(q)]
      OBVIOUS
    <2>1. CASE q < p
      BY <1>1, <1>2, <1>5, <1>6, <2>1
    <2>2. CASE ~(q < p)
      <3>1. q - (p - 1) \in 1 .. Len(d) - p /\ p + (q - (p - 1)) = q + 1
        BY <1>1, <1>6, <2>2
      <3>2. b[q - (p - 1)] = d[q + 1]
        BY <1>3, <3>1
      <3>3. QED
        BY <1>1, <1>5, <1>6, <2>2, <3>2
    <2>3. QED
      BY <2>1, <2>2
  <1>8. \A q, s \in DOMAIN r : from(q) = from(s) => q = s
    BY <1>1, <1>6
  <1> HIDE DEF from
  <1>9. Good(r) /\ (Shows(d, id) => Shows(r, id))
    BY <1>7, <1>8 DEF Good, Unique, Shows
  <1>10. QED
    BY <1>4, <1>9 DEF r

(* e is d with the mark of its entry p taken away.                         *)
UnmarkedAt(e, d, p) ==
  /\ DOMAIN e = DOMAIN d
  /\ e[p].id = d[p].id /\ ~e[p].dispensado
  /\ \A q \in DOMAIN d : q # p => e[q] = d[q]

(* Arming an entry touches the marks of its id only.                       *)
LEMMA ArmShows ==
  ASSUME NEW d \in Document, Good(d), NEW p \in DOMAIN d, NEW m \in BOOLEAN,
         NEW e, e = [d EXCEPT ![p].dispensado = FALSE, ![p].manual = m]
  PROVE  Good(e) /\ UnmarkedAt(e, d, p)
  <1>1. DOMAIN d = 1 .. Len(d) /\ d \in [1 .. Len(d) -> Entry]
    BY LenProperties DEF Document
  <1>2. d[p] \in Entry
    BY <1>1
  <1>3. DOMAIN e = DOMAIN d /\ \A q \in DOMAIN d : q # p => e[q] = d[q]
    BY <1>1
  <1>4. e[p] = [d[p] EXCEPT !.dispensado = FALSE, !.manual = m]
    BY <1>1
  <1>5. e[p].id = d[p].id /\ e[p].completo = d[p].completo /\ ~e[p].dispensado
    BY <1>2, <1>4 DEF Entry
  <1>6. Good(e)
    BY <1>3, <1>5 DEF Good, Unique, Legible
  <1>7. QED
    BY <1>3, <1>5, <1>6 DEF UnmarkedAt

-----------------------------------------------------------------------------
(* The inductive invariant, in parts that rest on one another in turn.     *)

(* Where the tasks are, the locks apart.                                   *)
Phase ==
  /\ enMovimiento => dpc \in {"copy", "check"}
  /\ dpc \in {"copy", "check"} /\ ~enMovimiento => dosing = NoId
  /\ fpc \notin {"lock", "store"} => leido = <<>>
  /\ dpc # "patch" => copia = <<>>
  /\ resultado => dpc \in {"release", "clean"} /\ mutex = "dispenser"

(* Every copy of the schedule names a compartment once.                    *)
Shape ==
  Good(doc) /\ Good(copia) /\ Good(leido) /\ Unique(global) /\ Unique(local)

(* What fetch_task still has to store was read before the last copy made   *)
(* at rest only if the shared table has not changed its ids since.         *)
Closed == fpc = "lock" => reciente

(* During a turn the local table has the turning id at the position that   *)
(* was picked, or agrees with the shared one until the turn ends.          *)
Aligned ==
  /\ SameIds(local, global) \/ Closed
  /\ InTurn => \/ actual \in DOMAIN local /\ local[actual].id = dosing
               \/ Closed /\ fpc # "store" /\ SameIds(local, global)

(* The marks of LockForUpdate stay while the mutex is held.                *)
Marked ==
  dpc \in {"pause", "get", "patch", "release"} \/ (dpc = "clean" /\ resultado) =>
    /\ Shows(global, idReal)
    /\ idReal = dosing => Shows(local, idReal)

(* A successful update is in Firestore, and in what is read from it, until *)
(* the app asks for another dose.                                          *)
Confirmed ==
  /\ dpc = "patch" => Shows(copia, idReal)
  /\ resultado /\ idReal = dosing /\ servings[dosing] > 0 =>
       Shows(doc, dosing) /\ (semTaken => Shows(leido, dosing))

Base == LockInv /\ TypeInv /\ Phase /\ Shape
LedgerInv == Base /\ Aligned /\ Marked /\ Confirmed /\ RecordedEverywhere /\ AtMostOnce

-----------------------------------------------------------------------------
(* Where the tasks are.                                                    *)

LEMMA PhaseDispenser == LockInv /\ TypeInv /\ Phase /\ DispenserTask =>
  Phase'
  <1> SUFFICES ASSUME LockInv, TypeInv, Phase, DispenserTask PROVE Phase'
    OBVIOUS
  <1> USE DEF Phase, LockInv, HolderInv, Updating, fetchVars, ghosts
  <1>1. CASE CopyTable BY <1>1 DEF CopyTable
  <1>2. CASE CopyTimeout BY <1>2 DEF CopyTimeout
  <1>3. CASE CheckNothingDue BY <1>3 DEF CheckNothingDue
  <1>4. CASE CheckDueStart BY <1>4 DEF CheckDueStart
  <1>5. CASE CheckAspa BY <1>5 DEF CheckAspa
  <1>6. CASE CheckTimeout BY <1>6 DEF CheckTimeout
  <1>7. CASE KeepTurning BY <1>7 DEF KeepTurning
  <1>8. CASE BrakeMotor BY <1>8 DEF BrakeMotor
  <1>9. CASE LockForUpdate BY <1>9 DEF LockForUpdate
  <1>10. CASE LockTimeout BY <1>10 DEF LockTimeout
  <1>11. CASE PauseFetch BY <1>11 DEF PauseFetch
  <1>12. CASE PauseTimeout BY <1>12 DEF PauseTimeout
  <1>13. CASE UpdateGet BY <1>13 DEF UpdateGet
  <1>14. CASE UpdateGetFails BY <1>14 DEF UpdateGetFails, NextAttempt
  <1>15. CASE UpdatePatch BY <1>15 DEF UpdatePatch
  <1>16. CASE UpdatePatchFails BY <1>16 DEF UpdatePatchFails, NextAttempt
  <1>17. CASE ReleasePause BY <1>17 DEF ReleasePause
  <1>18. CASE StopClean BY <1>18 DEF StopClean
  <1>19. QED
    BY <1>1, <1>2, <1>3, <1>4, <1>5, <1>6, <1>7, <1>8, <1>9, <1>10, <1>11,
       <1>12, <1>13, <1>14, <1>15, <1>16, <1>17, <1>18 DEF DispenserTask

LEMMA PhaseFetch == LockInv /\ Phase /\ FetchTask => Phase'
  <1> SUFFICES ASSUME LockInv, Phase, FetchTask PROVE Phase'
    OBVIOUS
  <1> USE DEF Phase, LockInv, HolderInv, Updating, dispenserVars, ghosts
  <1>1. CASE FetchTake BY <1>1 DEF FetchTake
  <1>2. CASE FetchGet BY <1>2 DEF FetchGet
  <1>3. CASE FetchFails BY <1>3 DEF FetchFails
  <1>4. CASE FetchLock BY <1>4 DEF FetchLock
  <1>5. CASE FetchLockTimeout BY <1>5 DEF FetchLockTimeout
  <1>6. CASE FetchStore BY <1>6 DEF FetchStore
  <1>7. CASE FetchGive BY <1>7 DEF FetchGive
  <1>8. QED
    BY <1>1, <1>2, <1>3, <1>4, <1>5, <1>6, <1>7 DEF FetchTask

LEMMA PhaseNext == LockInv /\ TypeInv /\ Phase /\ [Next]_vars => Phase'
  <1> SUFFICES ASSUME LockInv, TypeInv, Phase, [Next]_vars PROVE Phase'
    OBVIOUS
  <1> USE DEF Phase, LockInv, HolderInv, Updating, dispenserVars, fetchVars,
          ghosts
  <1>1. CASE DispenserTask BY <1>1, PhaseDispenser
  <1>2. CASE FetchTask BY <1>2, PhaseFetch
  <1>3. CASE AppArms BY <1>3 DEF AppArms
  <1>4. CASE AppRemoves BY <1>4 DEF AppRemoves
  <1>5. CASE Tick BY <1>5 DEF Tick
  <1>6. CASE Restart BY <1>6 DEF Restart
  <1>7. CASE UNCHANGED vars BY <1>7 DEF vars
  <1>8. QED
    BY <1>1, <1>2, <1>3, <1>4, <1>5, <1>6, <1>7 DEF Next

-----------------------------------------------------------------------------
(* Every copy of the schedule names a compartment once.                    *)

LEMMA ShapeDispenser == TypeInv /\ Phase /\ Shape /\ DispenserTask => Shape'
  <1> SUFFICES ASSUME TypeInv, Phase, Shape, DispenserTask PROVE Shape'
    OBVIOUS
  <1> USE DEF Shape, fetchVars, ghosts
  <1>t. /\ doc \in Document /\ copia \in Document
        /\ global \in Table /\ local \in Table
    BY DEF TypeInv, TypeOK
  <1>1. CASE CopyTable BY <1>1 DEF CopyTable
  <1>2. CASE CopyTimeout BY <1>2 DEF CopyTimeout
  <1>3. CASE CheckNothingDue BY <1>3 DEF CheckNothingDue
  <1>4. CASE CheckDueStart
    <2>1. PICK p \in DOMAIN local :
            global' = IF mutex = "libre" THEN MarkAt(global, local[p].id) ELSE global
      BY <1>4 DEF CheckDueStart
    <2>2. Unique(global')
      BY <1>t, <2>1, MarkAtIds, SameIdsUnique
    <2>3. QED
      BY <1>4, <2>2 DEF CheckDueStart
  <1>5. CASE CheckAspa BY <1>5 DEF CheckAspa
  <1>6. CASE CheckTimeout BY <1>6 DEF CheckTimeout
  <1>7. CASE KeepTurning BY <1>7 DEF KeepTurning
  <1>8. CASE BrakeMotor BY <1>8 DEF BrakeMotor
  <1>9. CASE LockForUpdate
    <2>1. local' = MarkAt(local, actual) /\ global' \in {global, MarkAt(global, actual)}
          /\ UNCHANGED <<doc, copia, leido>>
      BY <1>9 DEF LockForUpdate
    <2>2. Unique(local') /\ Unique(global')
      BY <1>t, <2>1, MarkAtIds, SameIdsUnique
    <2>3. QED
      BY <2>1, <2>2
  <1>10. CASE LockTimeout BY <1>10 DEF LockTimeout
  <1>11. CASE PauseFetch BY <1>11 DEF PauseFetch
  <1>12. CASE PauseTimeout BY <1>12 DEF PauseTimeout
  <1>13. CASE UpdateGet BY <1>t, <1>13, SetDispensadoShows DEF UpdateGet
  <1>14. CASE UpdateGetFails BY <1>14, EmptyTable DEF UpdateGetFails, NextAttempt
  <1>15. CASE UpdatePatch BY <1>15, EmptyTable DEF UpdatePatch
  <1>16. CASE UpdatePatchFails BY <1>16, EmptyTable DEF UpdatePatchFails, NextAttempt
  <1>17. CASE ReleasePause BY <1>17 DEF ReleasePause
  <1>18. CASE StopClean BY <1>18 DEF StopClean
  <1>19. QED
    BY <1>1, <1>2, <1>3, <1>4, <1>5, <1>6, <1>7, <1>8, <1>9, <1>10, <1>11,
       <1>12, <1>13, <1>14, <1>15, <1>16, <1>17, <1>18 DEF DispenserTask

LEMMA ShapeFetch == TypeInv /\ Shape /\ FetchTask => Shape'
  <1> SUFFICES ASSUME TypeInv, Shape, FetchTask PROVE Shape'
    OBVIOUS
  <1> USE DEF Shape, dispenserVars, ghosts
  <1>t. doc \in Document /\ leido \in Document
    BY DEF TypeInv, TypeOK
  <1>1. CASE FetchTake BY <1>1 DEF FetchTake
  <1>2. CASE FetchGet BY <1>2 DEF FetchGet
  <1>3. CASE FetchFails BY <1>3 DEF FetchFails
  <1>4. CASE FetchLock BY <1>4 DEF FetchLock
  <1>5. CASE FetchLockTimeout BY <1>5, EmptyTable DEF FetchLockTimeout
  <1>6. CASE FetchStore BY <1>t, <1>6, EmptyTable, ParseTableShows DEF FetchStore
  <1>7. CASE FetchGive BY <1>7 DEF FetchGive
  <1>8. QED
    BY <1>1, <1>2, <1>3, <1>4, <1>5, <1>6, <1>7 DEF FetchTask

LEMMA ShapeNext == TypeInv /\ Phase /\ Shape /\ [Next]_vars => Shape'
  <1> SUFFICES ASSUME TypeInv, Phase, Shape, [Next]_vars PROVE Shape'
    OBVIOUS
  <1> USE DEF Shape, dispenserVars, fetchVars, ghosts
  <1>t. doc \in Document
    BY DEF TypeInv, TypeOK
  <1>1. CASE DispenserTask BY <1>1, ShapeDispenser
  <1>2. CASE FetchTask BY <1>2, ShapeFetch
  <1>3. CASE AppArms
    <2>1. PICK p \in DOMAIN doc, m \in BOOLEAN :
            doc' = [doc EXCEPT ![p].dispensado = FALSE, ![p].manual = m]
      BY <1>3 DEF AppArms
    <2>2. Good(doc')
      BY <1>t, <2>1, ArmShows
    <2>3. QED
      BY <1>3, <2>2 DEF AppArms
  <1>4. CASE AppRemoves BY <1>t, <1>4, RemoveAtShows DEF AppRemoves
  <1>5. CASE Tick BY <1>5 DEF Tick
  <1>6. CASE Restart BY <1>6, EmptyTable DEF Restart
  <1>7. CASE UNCHANGED vars BY <1>7 DEF vars
  <1>8. QED
    BY <1>1, <1>2, <1>3, <1>4, <1>5, <1>6, <1>7 DEF Next

-----------------------------------------------------------------------------
(* The position picked at the start of a turn still stands for the turning *)
(* compartment when the dose is marked.                                    *)

LEMMA SameIdsReflexive == ASSUME NEW t PROVE SameIds(t, t)
  BY DEF SameIds

LEMMA AlignedDispenser == LockInv /\ TypeInv /\ Phase /\ Aligned /\
  DispenserTask => Aligned'
  <1> SUFFICES ASSUME LockInv, TypeInv, Phase, Aligned, DispenserTask PROVE
              Aligned'
    OBVIOUS
  <1> USE DEF Aligned, Closed, InTurn, fetchVars, ghosts
  <1>t. global \in Table /\ local \in Table /\ reciente \in BOOLEAN
    BY DEF TypeInv, TypeOK
  <1>p. /\ enMovimiento => dpc \in {"copy", "check"}
        /\ mutex = "fetch" <=> fpc = "store"
    BY DEF Phase, LockInv, HolderInv
  <1>1. CASE CopyTable
    <2>1. /\ dpc = "copy" /\ mutex = "libre"
          /\ local' = global /\ dpc' = "check"
          /\ UNCHANGED <<global, mutex, actual, enMovimiento, fpc, dosing>>
      BY <1>1 DEF CopyTable
    <2>2. enMovimiento => reciente' = reciente
      BY <1>1, <1>t DEF CopyTable
    <2>3. SameIds(local', global')
      BY <2>1, SameIdsReflexive
    <2>4. CASE enMovimiento
      <3>1. CASE Closed
        BY <1>p, <2>1, <2>2, <2>3, <2>4, <3>1
      <3>2. CASE ~Closed
        <4>1. SameIds(local, global) /\ actual \in DOMAIN local /\ local[actual].id = dosing
          BY <2>4, <3>2
        <4>2. actual \in DOMAIN local' /\ local'[actual].id = dosing
          BY <2>1, <4>1 DEF SameIds
        <4>3. QED
          BY <2>1, <2>3, <4>2
      <3>3. QED
        BY <3>1, <3>2
    <2>5. CASE ~enMovimiento
      BY <2>1, <2>3, <2>5
    <2>6. QED
      BY <2>4, <2>5
  <1>2. CASE CopyTimeout BY <1>2 DEF CopyTimeout
  <1>3. CASE CheckNothingDue BY <1>3 DEF CheckNothingDue
  <1>4. CASE CheckDueStart
    <2>1. PICK p \in DOMAIN local :
            /\ actual' = p /\ dosing' = local[p].id
            /\ global' = IF mutex = "libre" THEN MarkAt(global, local[p].id) ELSE global
      BY <1>4 DEF CheckDueStart
    <2>2. SameIds(global, global')
      BY <1>t, <2>1, MarkAtIds, SameIdsReflexive
    <2>3. SameIds(local, global) => SameIds(local, global')
      BY <2>2, SameIdsTransitive
    <2>4. UNCHANGED <<local, fpc, reciente>>
      BY <1>4 DEF CheckDueStart
    <2>5. QED
      BY <2>1, <2>3, <2>4
  <1>5. CASE CheckAspa BY <1>5 DEF CheckAspa
  <1>6. CASE CheckTimeout BY <1>6 DEF CheckTimeout
  <1>7. CASE KeepTurning BY <1>7 DEF KeepTurning
  <1>8. CASE BrakeMotor BY <1>8 DEF BrakeMotor
  <1>9. CASE LockForUpdate
    <2>1. local' = MarkAt(local, actual) /\ global' \in {global, MarkAt(global, actual)}
          /\ UNCHANGED <<fpc, reciente, enMovimiento>>
          /\ dpc = "lock" /\ dpc' \in {"pause", "clean"}
      BY <1>9 DEF LockForUpdate
    <2>2. SameIds(local', local) /\ SameIds(global, global')
      BY <1>t, <2>1, MarkAtIds, SameIdsReflexive
    <2>3. SameIds(local, global) => SameIds(local', global')
      BY <2>2, SameIdsTransitive
    <2>4. QED
      BY <1>p, <2>1, <2>3
  <1>10. CASE LockTimeout BY <1>10 DEF LockTimeout
  <1>11. CASE PauseFetch BY <1>11 DEF PauseFetch
  <1>12. CASE PauseTimeout BY <1>12 DEF PauseTimeout
  <1>13. CASE UpdateGet BY <1>13 DEF UpdateGet
  <1>14. CASE UpdateGetFails BY <1>14 DEF UpdateGetFails, NextAttempt
  <1>15. CASE UpdatePatch BY <1>15 DEF UpdatePatch
  <1>16. CASE UpdatePatchFails BY <1>16 DEF UpdatePatchFails, NextAttempt
  <1>17. CASE ReleasePause BY <1>17 DEF ReleasePause
  <1>18. CASE StopClean BY <1>18 DEF StopClean
  <1>19. QED
    BY <1>1, <1>2, <1>3, <1>4, <1>5, <1>6, <1>7, <1>8, <1>9, <1>10, <1>11,
       <1>12, <1>13, <1>14, <1>15, <1>16, <1>17, <1>18 DEF DispenserTask

LEMMA AlignedFetch == LockInv /\ TypeInv /\ Phase /\ Aligned /\ FetchTask =>
  Aligned'
  <1> SUFFICES ASSUME LockInv, TypeInv, Phase, Aligned, FetchTask PROVE
              Aligned'
    OBVIOUS
  <1> USE DEF Aligned, Closed, InTurn, dispenserVars, ghosts
  <1>1. CASE FetchTake BY <1>1 DEF FetchTake
  <1>2. CASE FetchGet BY <1>2 DEF FetchGet
  <1>3. CASE FetchFails BY <1>3 DEF FetchFails
  <1>4. CASE FetchLock BY <1>4 DEF FetchLock
  <1>5. CASE FetchLockTimeout BY <1>5 DEF FetchLockTimeout
  <1>6. CASE FetchStore BY <1>6 DEF FetchStore
  <1>7. CASE FetchGive BY <1>7 DEF FetchGive
  <1>8. QED
    BY <1>1, <1>2, <1>3, <1>4, <1>5, <1>6, <1>7 DEF FetchTask

LEMMA AlignedNext == LockInv /\ TypeInv /\ Phase /\ Aligned /\ [Next]_vars =>
  Aligned'
  <1> SUFFICES ASSUME LockInv, TypeInv, Phase, Aligned, [Next]_vars PROVE
              Aligned'
    OBVIOUS
  <1> USE DEF Aligned, Closed, InTurn, dispenserVars, fetchVars, ghosts
  <1>1. CASE DispenserTask BY <1>1, AlignedDispenser
  <1>2. CASE FetchTask BY <1>2, AlignedFetch
  <1>3. CASE AppArms BY <1>3 DEF AppArms
  <1>4. CASE AppRemoves BY <1>4 DEF AppRemoves
  <1>5. CASE Tick BY <1>5 DEF Tick
  <1>6. CASE Restart BY <1>6, SameIdsReflexive DEF Restart
  <1>7. CASE UNCHANGED vars BY <1>7 DEF vars
  <1>8. QED
    BY <1>1, <1>2, <1>3, <1>4, <1>5, <1>6, <1>7 DEF Next

-----------------------------------------------------------------------------
(* What the mutex and the pause protect.                                   *)

LEMMA MarkedDispenser == LockInv /\ TypeInv /\ Phase /\ Shape /\ Aligned /\
  Marked /\ DispenserTask => Marked'
  <1> SUFFICES ASSUME LockInv, TypeInv, Phase, Shape, Aligned, Marked,
              DispenserTask PROVE Marked'
    OBVIOUS
  <1> USE DEF Marked, fetchVars, ghosts
  <1>p. resultado => dpc \in {"release", "clean"}
    BY DEF Phase
  <1>1. CASE CopyTable BY <1>1 DEF CopyTable
  <1>2. CASE CopyTimeout BY <1>2 DEF CopyTimeout
  <1>3. CASE CheckNothingDue BY <1>3 DEF CheckNothingDue
  <1>4. CASE CheckDueStart BY <1>4 DEF CheckDueStart
  <1>5. CASE CheckAspa BY <1>5 DEF CheckAspa
  <1>6. CASE CheckTimeout BY <1>6 DEF CheckTimeout
  <1>7. CASE KeepTurning BY <1>7 DEF KeepTurning
  <1>8. CASE BrakeMotor BY <1>8 DEF BrakeMotor
  <1>9. CASE LockForUpdate
    <2>t. global \in Table /\ local \in Table /\ Unique(global) /\ Unique(local)
      BY DEF TypeInv, TypeOK, Shape
    <2>1. dpc = "lock" /\ local' = MarkAt(local, actual) /\ UNCHANGED <<resultado, dosing>>
      BY <1>9 DEF LockForUpdate
    <2>2. CASE actual \in DOMAIN local /\ actual \in DOMAIN global
      <3>1. global' = MarkAt(global, actual) /\ idReal' = global[actual].id
        BY <1>9, <2>2 DEF LockForUpdate
      <3>2. Shows(global', idReal')
        BY <2>t, <2>2, <3>1, MarkAtShows
      <3>3. local[actual].id = global[actual].id \/ local[actual].id = dosing
        BY <2>1, <2>2 DEF Aligned, InTurn, SameIds
      <3>4. idReal' = dosing => local[actual].id = idReal'
        BY <3>1, <3>3
      <3>5. Shows(local', local[actual].id)
        BY <2>t, <2>1, <2>2, MarkAtShows
      <3>6. QED
        BY <2>1, <3>2, <3>4, <3>5
    <2>3. CASE ~(actual \in DOMAIN local /\ actual \in DOMAIN global)
      <3>1. dpc' = "clean"
        BY <1>9, <2>3 DEF LockForUpdate
      <3>2. QED
        BY <1>p, <2>1, <3>1
    <2>4. QED
      BY <2>2, <2>3
  <1>10. CASE LockTimeout BY <1>p, <1>10 DEF LockTimeout
  <1>11. CASE PauseFetch BY <1>11 DEF PauseFetch
  <1>12. CASE PauseTimeout BY <1>12 DEF PauseTimeout
  <1>13. CASE UpdateGet BY <1>13 DEF UpdateGet
  <1>14. CASE UpdateGetFails BY <1>14 DEF UpdateGetFails, NextAttempt
  <1>15. CASE UpdatePatch BY <1>15 DEF UpdatePatch
  <1>16. CASE UpdatePatchFails BY <1>16 DEF UpdatePatchFails, NextAttempt
  <1>17. CASE ReleasePause BY <1>17 DEF ReleasePause
  <1>18. CASE StopClean BY <1>18 DEF StopClean
  <1>19. QED
    BY <1>1, <1>2, <1>3, <1>4, <1>5, <1>6, <1>7, <1>8, <1>9, <1>10, <1>11,
       <1>12, <1>13, <1>14, <1>15, <1>16, <1>17, <1>18 DEF DispenserTask

LEMMA MarkedNext == LockInv /\ TypeInv /\ Phase /\ Shape /\ Aligned /\ Marked
  /\ [Next]_vars => Marked'
  <1> SUFFICES ASSUME LockInv, TypeInv, Phase, Shape, Aligned, Marked,
              [Next]_vars PROVE Marked'
    OBVIOUS
  <1> USE DEF Marked, dispenserVars, fetchVars, ghosts
  <1>1. CASE DispenserTask BY <1>1, MarkedDispenser
  <1>2. CASE FetchTask
    <2>1. UNCHANGED <<dpc, resultado, idReal, dosing, local>>
      BY <1>2 DEF FetchTask, FetchTake, FetchGet, FetchFails, FetchLock,
                  FetchLockTimeout, FetchStore, FetchGive
    <2>2. UNCHANGED global \/ mutex = "fetch"
      BY <1>2 DEF LockInv, HolderInv, FetchTask, FetchTake, FetchGet, FetchFails,
                  FetchLock, FetchLockTimeout, FetchStore, FetchGive
    <2>3. mutex = "fetch" =>
            ~(dpc \in {"pause", "get", "patch", "release"} \/ (dpc = "clean" /\ resultado))
      BY DEF LockInv, HolderInv, Updating, Phase
    <2>4. QED
      BY <2>1, <2>2, <2>3
  <1>3. CASE AppArms BY <1>3 DEF AppArms
  <1>4. CASE AppRemoves BY <1>4 DEF AppRemoves
  <1>5. CASE Tick BY <1>5 DEF Tick
  <1>6. CASE Restart BY <1>6 DEF Restart
  <1>7. CASE UNCHANGED vars BY <1>7 DEF vars
  <1>8. QED
    BY <1>1, <1>2, <1>3, <1>4, <1>5, <1>6, <1>7 DEF Next

LEMMA ConfirmedDispenser == LockInv /\ TypeInv /\ Phase /\ Shape /\ Confirmed
  /\ DispenserTask => Confirmed'
  <1> SUFFICES ASSUME LockInv, TypeInv, Phase, Shape, Confirmed,
              DispenserTask PROVE Confirmed'
    OBVIOUS
  <1> USE DEF Confirmed, fetchVars, ghosts
  <1>p. resultado => dpc \in {"release", "clean"}
    BY DEF Phase
  <1>1. CASE CopyTable BY <1>1 DEF CopyTable
  <1>2. CASE CopyTimeout BY <1>2 DEF CopyTimeout
  <1>3. CASE CheckNothingDue BY <1>3 DEF CheckNothingDue
  <1>4. CASE CheckDueStart BY <1>p, <1>4 DEF CheckDueStart
  <1>5. CASE CheckAspa BY <1>5 DEF CheckAspa
  <1>6. CASE CheckTimeout BY <1>6 DEF CheckTimeout
  <1>7. CASE KeepTurning BY <1>7 DEF KeepTurning
  <1>8. CASE BrakeMotor BY <1>8 DEF BrakeMotor
  <1>9. CASE LockForUpdate BY <1>p, <1>9 DEF LockForUpdate
  <1>10. CASE LockTimeout BY <1>10 DEF LockTimeout
  <1>11. CASE PauseFetch BY <1>p, <1>11 DEF PauseFetch
  <1>12. CASE PauseTimeout BY <1>12 DEF PauseTimeout
  <1>13. CASE UpdateGet
    <2>1. Shows(copia', idReal')
      BY <1>13, SetDispensadoShows DEF UpdateGet, TypeInv, TypeOK, Shape
    <2>2. dpc = "get" /\ UNCHANGED resultado
      BY <1>13 DEF UpdateGet
    <2>3. QED
      BY <1>p, <2>1, <2>2
  <1>14. CASE UpdateGetFails BY <1>14 DEF UpdateGetFails, NextAttempt
  <1>15. CASE UpdatePatch
    <2>1. /\ dpc = "patch" /\ dpc' = "release" /\ doc' = copia
          /\ UNCHANGED <<idReal, dosing, servings, semTaken, leido>>
      BY <1>15 DEF UpdatePatch
    <2>2. semTaken => leido = <<>>
      BY <2>1 DEF LockInv, FetchPaused, Paused, Updating, Phase
    <2>3. Shows(doc', idReal')
      BY <2>1
    <2>4. \A id : semTaken => Shows(leido, id)
      BY <2>2, EmptyTable
    <2>5. QED
      BY <2>1, <2>3, <2>4
  <1>16. CASE UpdatePatchFails BY <1>16 DEF UpdatePatchFails, NextAttempt
  <1>17. CASE ReleasePause BY <1>17 DEF ReleasePause
  <1>18. CASE StopClean BY <1>18 DEF StopClean
  <1>19. QED
    BY <1>1, <1>2, <1>3, <1>4, <1>5, <1>6, <1>7, <1>8, <1>9, <1>10, <1>11,
       <1>12, <1>13, <1>14, <1>15, <1>16, <1>17, <1>18 DEF DispenserTask

LEMMA ConfirmedFetch == Phase /\ Confirmed /\ FetchTask => Confirmed'
  <1> SUFFICES ASSUME Phase, Confirmed, FetchTask PROVE Confirmed'
    OBVIOUS
  <1> USE DEF Confirmed, dispenserVars, ghosts
  <1>1. CASE FetchTake BY <1>1 DEF FetchTake
  <1>2. CASE FetchGet BY <1>2 DEF FetchGet
  <1>3. CASE FetchFails BY <1>3 DEF FetchFails
  <1>4. CASE FetchLock BY <1>4 DEF FetchLock
  <1>5. CASE FetchLockTimeout BY <1>5, EmptyTable DEF FetchLockTimeout
  <1>6. CASE FetchStore BY <1>6, EmptyTable DEF FetchStore
  <1>7. CASE FetchGive BY <1>7 DEF FetchGive
  <1>8. QED
    BY <1>1, <1>2, <1>3, <1>4, <1>5, <1>6, <1>7 DEF FetchTask

LEMMA ConfirmedNext == LockInv /\ TypeInv /\ Phase /\ Shape /\ Confirmed /\
  [Next]_vars => Confirmed'
  <1> SUFFICES ASSUME LockInv, TypeInv, Phase, Shape, Confirmed, [Next]_vars
              PROVE Confirmed'
    OBVIOUS
  <1> USE DEF Confirmed, dispenserVars, fetchVars, ghosts
  <1>t. doc \in Document /\ Good(doc) /\ servings \in [Id -> 0 .. MaxServings]
    BY DEF TypeInv, TypeOK, Shape
  <1>d. resultado => dosing \in Id
    BY DEF Phase, TypeInv
  <1>1. CASE DispenserTask BY <1>1, ConfirmedDispenser
  <1>2. CASE FetchTask BY <1>2, ConfirmedFetch
  <1>3. CASE AppArms
    <2>1. PICK p \in DOMAIN doc, m \in BOOLEAN :
            /\ doc' = [doc EXCEPT ![p].dispensado = FALSE, ![p].manual = m]
            /\ IF doc[p].dispensado
                 THEN servings' = [servings EXCEPT ![doc[p].id] = 0]
                 ELSE UNCHANGED servings
      BY <1>3 DEF AppArms
    <2>2. UNCHANGED <<dpc, copia, idReal, resultado, dosing, semTaken, leido>>
      BY <1>3 DEF AppArms
    <2>3. ASSUME resultado, idReal = dosing, servings'[dosing] > 0
          PROVE  Shows(doc', dosing) /\ servings[dosing] > 0
      <3>1. servings[dosing] > 0 /\ (doc[p].dispensado => doc[p].id # dosing)
        BY <1>t, <1>d, <2>1, <2>3
      <3>2. Shows(doc, dosing)
        BY <2>3, <3>1
      <3>3. doc[p].id # dosing
        BY <3>1, <3>2 DEF Shows
      <3>a. UnmarkedAt(doc', doc, p)
        BY <1>t, <2>1, ArmShows
      <3>4. Shows(doc', dosing)
        BY <3>2, <3>3, <3>a DEF Shows, UnmarkedAt
      <3>5. QED
        BY <3>1, <3>4
    <2>4. QED
      BY <2>2, <2>3
  <1>4. CASE AppRemoves BY <1>t, <1>4, RemoveAtShows DEF AppRemoves
  <1>5. CASE Tick BY <1>5 DEF Tick
  <1>6. CASE Restart BY <1>6 DEF Restart
  <1>7. CASE UNCHANGED vars BY <1>7 DEF vars
  <1>8. QED
    BY <1>1, <1>2, <1>3, <1>4, <1>5, <1>6, <1>7 DEF Next

-----------------------------------------------------------------------------
(* The ledger.                                                             *)

(* A turn of id has been settled since the app armed it.                   *)
Kept(id) == servings[id] > 0 /\ id \notin lapses /\ id # dosing

Everywhere(id) ==
  /\ Shows(doc, id) /\ Shows(leido, id) /\ Shows(copia, id)
  /\ Shows(global, id) /\ Shows(local, id)

LEMMA RecordedEverywhereDef ==
  RecordedEverywhere <=> \A id \in Id : Kept(id) => Everywhere(id)
  BY DEF RecordedEverywhere, Kept, Everywhere

(* A step that lets neither the books nor the marks change: all but the    *)
(* steps named below.                                                      *)
LEMMA KeptDispenser ==
  ASSUME TypeInv, Phase, Shape, Marked, Confirmed, DispenserTask,
         NEW id \in Id, Kept(id) => Everywhere(id), Kept(id)'
  PROVE  Everywhere(id)'
  <1> USE DEF Kept, Everywhere, fetchVars, ghosts
  <1>t. /\ doc \in Document /\ leido \in Document /\ global \in Table /\ local \in Table
        /\ Good(doc) /\ Good(leido) /\ servings \in [Id -> 0 .. MaxServings]
    BY DEF TypeInv, TypeOK, Shape
  <1>1. CASE CopyTable BY <1>1 DEF CopyTable
  <1>2. CASE CopyTimeout BY <1>2 DEF CopyTimeout
  <1>3. CASE CheckNothingDue BY <1>3 DEF CheckNothingDue
  <1>4. CASE CheckDueStart
    <2>1. PICK p \in DOMAIN local :
            /\ dosing' = local[p].id
            /\ global' = IF mutex = "libre" THEN MarkAt(global, local[p].id) ELSE global
            /\ servings' = [servings EXCEPT ![local[p].id] = Capped(@)]
      BY <1>4 DEF CheckDueStart
    <2>2. dosing = NoId /\ UNCHANGED <<lapses, doc, leido, copia, local>>
      BY <1>4 DEF CheckDueStart, Phase
    <2>3. servings'[id] = servings[id] /\ id # dosing
      BY <1>t, <2>1, <2>2 DEF Id, NoId
    <2>4. Everywhere(id)
      BY <2>2, <2>3
    <2>5. Shows(global', id)
      BY <1>t, <2>1, <2>4, MarkAtShows
    <2>6. QED
      BY <2>2, <2>4, <2>5
  <1>5. CASE CheckAspa BY <1>5 DEF CheckAspa
  <1>6. CASE CheckTimeout BY <1>6 DEF CheckTimeout
  <1>7. CASE KeepTurning BY <1>7 DEF KeepTurning
  <1>8. CASE BrakeMotor BY <1>8 DEF BrakeMotor
  <1>9. CASE LockForUpdate
    <2>1. /\ local' = MarkAt(local, actual) /\ global' \in {global, MarkAt(global, actual)}
          /\ UNCHANGED <<servings, lapses, dosing, doc, leido, copia>>
      BY <1>9 DEF LockForUpdate
    <2>2. QED
      BY <1>t, <2>1, MarkAtShows
  <1>10. CASE LockTimeout BY <1>10 DEF LockTimeout
  <1>11. CASE PauseFetch BY <1>11 DEF PauseFetch
  <1>12. CASE PauseTimeout BY <1>12 DEF PauseTimeout
  <1>13. CASE UpdateGet BY <1>13, <1>t, SetDispensadoShows DEF UpdateGet
  <1>14. CASE UpdateGetFails BY <1>14, EmptyTable DEF UpdateGetFails, NextAttempt
  <1>15. CASE UpdatePatch BY <1>15, EmptyTable DEF UpdatePatch
  <1>16. CASE UpdatePatchFails BY <1>16, EmptyTable DEF UpdatePatchFails, NextAttempt
  <1>17. CASE ReleasePause BY <1>17 DEF ReleasePause
  <1>18. CASE StopClean
    <2>1. /\ dpc = "clean" /\ UNCHANGED <<doc, leido, copia, global, local>>
          /\ Settled => /\ lapses' = lapses \ {dosing}
                        /\ servings' = [servings EXCEPT ![dosing] = IF @ > 1 THEN 1 ELSE @]
          /\ ~Settled => lapses' = lapses \cup {dosing} /\ UNCHANGED servings
      BY <1>18 DEF StopClean
    <2>2. CASE id # dosing
      <3>1. servings'[id] = servings[id] /\ id \notin lapses
        BY <1>t, <2>1, <2>2
      <3>2. QED
        BY <2>1, <2>2, <3>1
    <2>3. CASE id = dosing
      <3>1. Settled
        BY <2>1, <2>3
      <3>2. servings[dosing] > 0
        BY <1>t, <2>1, <2>3, <3>1
      <3>3. Shows(doc, id) /\ Shows(leido, id)
        BY <2>3, <3>1, <3>2 DEF Settled, Confirmed
      <3>4. Shows(global, id) /\ Shows(local, id)
        BY <2>1, <2>3, <3>1 DEF Settled, Marked
      <3>5. Shows(copia, id)
        BY <2>1, EmptyTable DEF Phase
      <3>6. QED
        BY <2>1, <3>3, <3>4, <3>5
    <2>4. QED
      BY <2>2, <2>3
  <1>19. QED
    BY <1>1, <1>2, <1>3, <1>4, <1>5, <1>6, <1>7, <1>8, <1>9, <1>10, <1>11,
       <1>12, <1>13, <1>14, <1>15, <1>16, <1>17, <1>18 DEF DispenserTask

LEMMA KeptFetch ==
  ASSUME TypeInv, Shape, FetchTask,
         NEW id \in Id, Kept(id) => Everywhere(id), Kept(id)'
  PROVE  Everywhere(id)'
  <1> USE DEF Kept, Everywhere, dispenserVars, ghosts
  <1>t. /\ doc \in Document /\ leido \in Document /\ global \in Table /\ local \in Table
        /\ Good(doc) /\ Good(leido) /\ servings \in [Id -> 0 .. MaxServings]
    BY DEF TypeInv, TypeOK, Shape
  <1>1. CASE FetchTake BY <1>1 DEF FetchTake
  <1>2. CASE FetchGet BY <1>2 DEF FetchGet
  <1>3. CASE FetchFails BY <1>3 DEF FetchFails
  <1>4. CASE FetchLock BY <1>4 DEF FetchLock
  <1>5. CASE FetchLockTimeout BY <1>5, EmptyTable DEF FetchLockTimeout
  <1>6. CASE FetchStore BY <1>6, <1>t, EmptyTable, ParseTableShows DEF FetchStore
  <1>7. CASE FetchGive BY <1>7 DEF FetchGive
  <1>8. QED
    BY <1>1, <1>2, <1>3, <1>4, <1>5, <1>6, <1>7 DEF FetchTask

LEMMA KeptNext ==
  ASSUME TypeInv, Phase, Shape, Marked, Confirmed, [Next]_vars,
         NEW id \in Id, Kept(id) => Everywhere(id), Kept(id)'
  PROVE  Everywhere(id)'
  <1> USE DEF Kept, Everywhere, dispenserVars, fetchVars, ghosts
  <1>t. /\ doc \in Document /\ leido \in Document /\ global \in Table /\ local \in Table
        /\ Good(doc) /\ Good(leido) /\ servings \in [Id -> 0 .. MaxServings]
    BY DEF TypeInv, TypeOK, Shape
  <1>1. CASE DispenserTask BY <1>1, KeptDispenser
  <1>2. CASE FetchTask BY <1>2, KeptFetch
  <1>3. CASE AppArms
    <2>1. PICK p \in DOMAIN doc, m \in BOOLEAN :
            /\ doc' = [doc EXCEPT ![p].dispensado = FALSE, ![p].manual = m]
            /\ IF doc[p].dispensado
                 THEN /\ servings' = [servings EXCEPT ![doc[p].id] = 0]
                      /\ lapses' = lapses \ {doc[p].id}
                 ELSE UNCHANGED <<servings, lapses>>
      BY <1>3 DEF AppArms
    <2>2. UNCHANGED <<dosing, leido, copia, global, local>>
      BY <1>3 DEF AppArms
    <2>3. Kept(id) /\ (doc[p].dispensado => doc[p].id # id)
      BY <1>t, <2>1, <2>2
    <2>4. Everywhere(id)
      BY <2>3
    <2>5. doc[p].id # id
      BY <2>3, <2>4 DEF Shows
    <2>6. UnmarkedAt(doc', doc, p)
      BY <1>t, <2>1, ArmShows
    <2>7. Shows(doc', id)
      BY <2>4, <2>5, <2>6 DEF Shows, UnmarkedAt
    <2>8. QED
      BY <2>2, <2>4, <2>7
  <1>4. CASE AppRemoves BY <1>t, <1>4, RemoveAtShows DEF AppRemoves
  <1>5. CASE Tick BY <1>5 DEF Tick
  <1>6. CASE Restart
    <2>1. Kept(id) /\ UNCHANGED doc
      BY <1>6 DEF Restart
    <2>2. copia' = <<>> /\ leido' = <<>> /\ global' = <<>> /\ local' = <<>>
      BY <1>6 DEF Restart
    <2>3. QED
      BY <2>1, <2>2, EmptyTable
  <1>7. CASE UNCHANGED vars BY <1>7 DEF vars
  <1>8. QED
    BY <1>1, <1>2, <1>3, <1>4, <1>5, <1>6, <1>7 DEF Next

(* The steps that change the books.                                        *)
LEMMA BooksChange ==
  ASSUME [Next]_vars
  PROVE  \/ CheckDueStart \/ StopClean \/ AppArms \/ Restart
         \/ UNCHANGED <<servings, lapses, dosing>>
  <1> USE DEF ghosts, fetchVars, dispenserVars
  <1>1. CASE DispenserTask
    BY <1>1 DEF DispenserTask, NextAttempt, CopyTable, CopyTimeout,
       CheckNothingDue, CheckAspa, CheckTimeout, KeepTurning, BrakeMotor,
       LockForUpdate, LockTimeout, PauseFetch, PauseTimeout, UpdateGet,
       UpdateGetFails, UpdatePatch, UpdatePatchFails, ReleasePause
  <1>2. CASE FetchTask
    BY <1>2 DEF FetchTask, FetchTake, FetchGet, FetchFails, FetchLock,
       FetchLockTimeout, FetchStore, FetchGive
  <1>3. CASE AppRemoves \/ Tick
    BY <1>3 DEF AppRemoves, Tick
  <1>4. CASE UNCHANGED vars
    BY <1>4 DEF vars
  <1>5. QED
    BY <1>1, <1>2, <1>3, <1>4 DEF Next

(* A kept dose shows as dispensed in the local table, so only a dose that  *)
(* was not turned, or whose turn lapsed, is due.                           *)
LEMMA OnlyOpenDosesTurn ==
  ASSUME TypeInv, Phase, RecordedEverywhere, CheckDueStart
  PROVE  /\ dosing = NoId /\ dosing' \in Id
         /\ servings' = [servings EXCEPT ![dosing'] = Capped(@)]
         /\ servings[dosing'] = 0 \/ dosing' \in lapses
         /\ UNCHANGED <<doc, lapses>>
  <1>1. PICK p \in DOMAIN local :
          /\ IsFirstDue(local, Now, p)
          /\ dosing' = local[p].id
          /\ servings' = [servings EXCEPT ![local[p].id] = Capped(@)]
    BY DEF CheckDueStart
  <1>2. local[p].id \in Id
    <2>1. local[p] \in Slot
      BY LenProperties, ElementOfSeq DEF TypeInv, TypeOK, Table
    <2>2. QED
      BY <2>1 DEF Slot
  <1>3. ~local[p].dispensado
    BY <1>1 DEF IsFirstDue, DuePositions, Due
  <1>4. dosing = NoId /\ UNCHANGED <<doc, lapses>>
    BY DEF CheckDueStart, Phase
  <1>5. ~Everywhere(dosing')
    BY <1>1, <1>3 DEF Everywhere, Shows
  <1>6. ~Kept(dosing')
    BY <1>1, <1>2, <1>5, RecordedEverywhereDef
  <1>7. dosing' # dosing
    BY <1>1, <1>2, <1>4 DEF NoId, Id
  <1>8. servings[dosing'] \in 0 .. MaxServings
    BY <1>1, <1>2 DEF TypeInv, TypeOK
  <1>9. servings[dosing'] = 0 \/ dosing' \in lapses
    BY <1>6, <1>7, <1>8, DispenserAssumption DEF Kept
  <1>10. QED
    BY <1>1, <1>2, <1>4, <1>9

LEMMA AtMostOnceNext ==
  ASSUME TypeInv, Phase, RecordedEverywhere, AtMostOnce, [Next]_vars
  PROVE  AtMostOnce'
  <1> SUFFICES ASSUME NEW id \in Id, servings'[id] > 1 PROVE id \in lapses'
    BY DEF AtMostOnce
  <1>t. servings \in [Id -> 0 .. MaxServings] /\ (servings[id] > 1 => id \in lapses)
    BY DEF TypeInv, TypeOK, AtMostOnce
  <1>1. CASE CheckDueStart
    <2>1. CASE id = dosing'
      <3>1. servings'[id] = Capped(servings[id])
        BY <1>1, <1>t, <2>1, OnlyOpenDosesTurn
      <3>2. servings[id] # 0
        BY <3>1, DispenserAssumption DEF Capped
      <3>3. QED
        BY <1>1, <2>1, <3>2, OnlyOpenDosesTurn
    <2>2. CASE id # dosing'
      BY <1>1, <1>t, <2>2, OnlyOpenDosesTurn
    <2>3. QED
      BY <2>1, <2>2
  <1>2. CASE StopClean
    <2>1. CASE Settled
      <3>1. /\ lapses' = lapses \ {dosing}
            /\ servings' = [servings EXCEPT ![dosing] = IF @ > 1 THEN 1 ELSE @]
        BY <1>2, <2>1 DEF StopClean
      <3>2. id # dosing
        BY <1>t, <3>1
      <3>3. QED
        BY <1>t, <3>1, <3>2
    <2>2. CASE ~Settled
      BY <1>2, <1>t, <2>2 DEF StopClean
    <2>3. QED
      BY <2>1, <2>2
  <1>3. CASE AppArms
    <2>1. PICK p \in DOMAIN doc :
            IF doc[p].dispensado
              THEN /\ servings' = [servings EXCEPT ![doc[p].id] = 0]
                   /\ lapses' = lapses \ {doc[p].id}
              ELSE UNCHANGED <<servings, lapses>>
      BY <1>3 DEF AppArms
    <2>2. QED
      BY <1>t, <2>1
  <1>4. CASE Restart
    BY <1>4, <1>t DEF Restart
  <1>5. CASE UNCHANGED <<servings, lapses>>
    BY <1>5, <1>t
  <1>6. QED
    BY <1>1, <1>2, <1>3, <1>4, <1>5, BooksChange

LEMMA LedgerInvInit == ASSUME GoodSchedules, Init PROVE LedgerInv
  <1>1. LockInv /\ TypeInv
    BY LockInvInit, TypeInvInit
  <1>2. /\ dpc = "copy" /\ fpc = "idle" /\ ~resultado /\ ~enMovimiento /\ dosing = NoId
        /\ global = <<>> /\ local = <<>> /\ leido = <<>> /\ copia = <<>>
        /\ servings = [id \in Id |-> 0] /\ Good(doc)
    BY DEF Init, GoodSchedules
  <1>3. Phase
    BY <1>2 DEF Phase
  <1>4. Shape
    BY <1>2, EmptyTable DEF Shape
  <1>5. Aligned
    BY <1>2, SameIdsReflexive DEF Aligned, InTurn
  <1>6. Marked /\ Confirmed
    BY <1>2 DEF Marked, Confirmed
  <1>7. RecordedEverywhere /\ AtMostOnce
    BY <1>2 DEF RecordedEverywhere, AtMostOnce
  <1>8. QED
    BY <1>1, <1>3, <1>4, <1>5, <1>6, <1>7 DEF LedgerInv, Base

LEMMA LedgerInvNext == LedgerInv /\ [Next]_vars => LedgerInv'
  <1> SUFFICES ASSUME LedgerInv, [Next]_vars PROVE LedgerInv'
    OBVIOUS
  <1> USE DEF LedgerInv, Base
  <1>1. LockInv' /\ TypeInv'
    BY LockInvNext, TypeInvNext
  <1>2. Phase' /\ Shape'
    BY PhaseNext, ShapeNext
  <1>3. Aligned' /\ Marked' /\ Confirmed'
    BY AlignedNext, MarkedNext, ConfirmedNext
  <1>4. RecordedEverywhere'
    <2>1. \A id \in Id : Kept(id) => Everywhere(id)
      BY RecordedEverywhereDef
    <2>2. \A id \in Id : Kept(id)' => Everywhere(id)'
      BY <2>1, KeptNext
    <2>3. QED
      BY <2>2 DEF RecordedEverywhere, Kept, Everywhere
  <1>5. AtMostOnce'
    BY AtMostOnceNext
  <1>6. QED
    BY <1>1, <1>2, <1>3, <1>4, <1>5

(* Once a turn is settled, every copy of the schedule that can still reach *)
(* dispenser_task shows it as dispensed, until the app arms it again.      *)
THEOREM SettledDosesShow == ASSUME GoodSchedules PROVE Spec => []RecordedEverywhere
  <1>1. Init => LedgerInv
    BY LedgerInvInit
  <1>2. LedgerInv => RecordedEverywhere
    BY DEF LedgerInv
  <1>3. QED
    BY <1>1, <1>2, LedgerInvNext, PTL DEF Spec

(* A dose is turned again only while the turn before it is unsettled.      *)
THEOREM TurnedAtMostOnce == ASSUME GoodSchedules PROVE Spec => []AtMostOnce
  <1>1. Init => LedgerInv
    BY LedgerInvInit
  <1>2. LedgerInv => AtMostOnce
    BY DEF LedgerInv
  <1>3. QED
    BY <1>1, <1>2, LedgerInvNext, PTL DEF Spec

-----------------------------------------------------------------------------
(* The refinement: each step of the dispenser is one of DoseLedger or none.*)

(* The ids that Firestore shows as dispensed.                              *)
Recorded == {id \in Id : Shows(doc, id)}

LEMMA BooksClosed ==
  ASSUME UNCHANGED <<doc, dosing, servings, lapses>>
  PROVE  UNCHANGED Ledger!ledger
  <1>1. Recorded' = Recorded
    BY DEF Recorded, Shows
  <1>2. QED
    BY <1>1 DEF Ledger!ledger, Recorded

LEMMA PublishStep ==
  ASSUME LedgerInv, [Next]_vars, UNCHANGED <<dosing, servings, lapses>>
  PROVE  Ledger!Publish
  <1>1. ASSUME NEW id \in Id, Ledger!Settled(id) PROVE id \in Recorded'
    <2>1. Kept(id)
      BY <1>1 DEF Ledger!Settled, Kept
    <2>2. Kept(id)'
      BY <2>1 DEF Kept
    <2>3. Kept(id) => Everywhere(id)
      BY RecordedEverywhereDef DEF LedgerInv
    <2>4. Everywhere(id)'
      BY <2>2, <2>3, KeptNext DEF LedgerInv, Base
    <2>5. QED
      BY <2>4 DEF Everywhere, Recorded
  <1>2. Recorded' \in SUBSET Id
    BY DEF Recorded
  <1>3. QED
    BY <1>1, <1>2 DEF Ledger!Publish, Recorded

LEMMA TurnStep ==
  ASSUME LedgerInv, CheckDueStart PROVE Ledger!Turn(dosing') /\ dosing' \in Id
  <1>1. /\ dosing = NoId /\ dosing' \in Id
        /\ servings' = [servings EXCEPT ![dosing'] = Capped(@)]
        /\ servings[dosing'] = 0 \/ dosing' \in lapses
        /\ UNCHANGED <<doc, lapses>>
    BY OnlyOpenDosesTurn DEF LedgerInv, Base
  <1>2. Recorded' = Recorded
    BY <1>1 DEF Recorded, Shows
  <1>3. servings' = [servings EXCEPT ![dosing'] = IF @ < MaxServings THEN @ + 1 ELSE @]
    BY <1>1 DEF Capped
  <1>4. QED
    BY <1>1, <1>2, <1>3 DEF Ledger!Turn, Recorded

LEMMA StopStep == ASSUME LedgerInv, StopClean PROVE Ledger!Settle \/ Ledger!Lapse
  <1>1. /\ dpc = "clean" /\ dosing \in Id /\ dosing # NoId /\ dosing' = NoId
        /\ UNCHANGED doc
    BY DEF StopClean, LedgerInv, Base, TypeInv, Phase, Id, NoId
  <1>2. Recorded' = Recorded
    BY <1>1 DEF Recorded, Shows
  <1>3. CASE Settled
    <2>1. servings[dosing] > 0 => Shows(doc, dosing)
      BY <1>3 DEF Settled, LedgerInv, Confirmed
    <2>2. servings[dosing] \in 0 .. MaxServings
      BY <1>1 DEF LedgerInv, Base, TypeInv, TypeOK
    <2>3. dosing \in Recorded \/ servings[dosing] = 0
      BY <1>1, <2>1, <2>2, DispenserAssumption DEF Recorded
    <2>4. /\ lapses' = lapses \ {dosing}
          /\ servings' = [servings EXCEPT ![dosing] = IF @ > 1 THEN 1 ELSE @]
      BY <1>3 DEF StopClean
    <2>5. Ledger!Settle
      BY <1>1, <1>2, <2>3, <2>4 DEF Ledger!Settle, Recorded
    <2>6. QED
      BY <2>5
  <1>4. CASE ~Settled
    <2>1. lapses' = lapses \cup {dosing} /\ UNCHANGED servings
      BY <1>4 DEF StopClean
    <2>2. Ledger!Lapse
      BY <1>1, <1>2, <2>1 DEF Ledger!Lapse, Recorded
    <2>3. QED
      BY <2>2
  <1>5. QED
    BY <1>3, <1>4

LEMMA ArmStep ==
  ASSUME LedgerInv, AppArms
  PROVE  (\E id \in Id : Ledger!Arm(id)) \/ UNCHANGED Ledger!ledger
  <1>1. PICK p \in DOMAIN doc, m \in BOOLEAN :
          /\ doc' = [doc EXCEPT ![p].dispensado = FALSE, ![p].manual = m]
          /\ IF doc[p].dispensado
               THEN /\ servings' = [servings EXCEPT ![doc[p].id] = 0]
                    /\ lapses' = lapses \ {doc[p].id}
               ELSE UNCHANGED <<servings, lapses>>
    BY DEF AppArms
  <1>2. doc \in Document /\ Good(doc) /\ UNCHANGED dosing
    BY DEF LedgerInv, Base, Shape, TypeInv, TypeOK, AppArms
  <1>3. UnmarkedAt(doc', doc, p)
    BY <1>1, <1>2, ArmShows
  <1>4. doc[p].id \in Id
    <2>1. doc[p] \in Entry
      BY <1>2, LenProperties, ElementOfSeq DEF Document
    <2>2. QED
      BY <1>2, <2>1 DEF Good, Legible, Entry
  <1>5. \A id \in Id : Shows(doc', id) <=> Shows(doc, id) /\ id # doc[p].id
    BY <1>2, <1>3 DEF UnmarkedAt, Shows, Good, Unique
  <1>6. Recorded' = Recorded \ {doc[p].id}
    BY <1>5 DEF Recorded
  <1>7. CASE doc[p].dispensado
    <2>1. Ledger!Arm(doc[p].id)
      BY <1>1, <1>2, <1>6, <1>7 DEF Ledger!Arm, Recorded
    <2>2. QED
      BY <1>4, <2>1
  <1>8. CASE ~doc[p].dispensado
    <2>1. ~Shows(doc, doc[p].id)
      BY <1>8 DEF Shows
    <2>2. Recorded' = Recorded
      BY <1>6, <2>1 DEF Recorded
    <2>3. UNCHANGED <<servings, lapses>>
      BY <1>1, <1>8
    <2>4. QED
      BY <1>2, <2>2, <2>3 DEF Ledger!ledger, Recorded
  <1>9. QED
    BY <1>7, <1>8

LEMMA RestartStep ==
  ASSUME LedgerInv, Restart PROVE Ledger!Lapse \/ UNCHANGED Ledger!ledger
  <1>1. /\ lapses' = IF dosing = NoId THEN lapses ELSE lapses \cup {dosing}
        /\ dosing' = NoId /\ UNCHANGED <<doc, servings>>
    BY DEF Restart
  <1>2. Recorded' = Recorded
    BY <1>1 DEF Recorded, Shows
  <1>3. CASE dosing = NoId
    BY <1>1, <1>3, BooksClosed
  <1>4. CASE dosing # NoId
    BY <1>1, <1>2, <1>4 DEF Ledger!Lapse, Recorded
  <1>5. QED
    BY <1>3, <1>4

LEMMA LedgerStep ==
  LedgerInv /\ [Next]_vars => [Ledger!LedgerNext]_(Ledger!ledger)
  <1> SUFFICES ASSUME LedgerInv, [Next]_vars PROVE [Ledger!LedgerNext]_(Ledger!ledger)
    OBVIOUS
  <1>1. CASE CheckDueStart
    BY <1>1, TurnStep DEF Ledger!LedgerNext
  <1>2. CASE StopClean
    BY <1>2, StopStep DEF Ledger!LedgerNext
  <1>3. CASE AppArms
    BY <1>3, ArmStep DEF Ledger!LedgerNext
  <1>4. CASE Restart
    BY <1>4, RestartStep DEF Ledger!LedgerNext
  <1>5. CASE UNCHANGED <<servings, lapses, dosing>>
    BY <1>5, PublishStep DEF Ledger!LedgerNext
  <1>6. QED
    BY <1>1, <1>2, <1>3, <1>4, <1>5, BooksChange

LEMMA LedgerStart == Init => Ledger!LedgerInit
  <1> SUFFICES ASSUME Init PROVE Ledger!LedgerInit
    OBVIOUS
  <1>1. dosing = NoId /\ servings = [id \in Id |-> 0] /\ lapses = {}
    BY DEF Init
  <1>2. Recorded \in SUBSET Id
    BY DEF Recorded
  <1>3. QED
    BY <1>1, <1>2 DEF Ledger!LedgerInit, Recorded

(* The two tasks, through every timeout, failed request, edit and restart, *)
(* behave as the ledger of DoseLedger says.                                *)
THEOREM DispenserKeepsLedger == ASSUME GoodSchedules PROVE Spec => KeepsLedger
  <1>1. Init => LedgerInv
    BY LedgerInvInit
  <1>2. QED
    BY <1>1, LedgerInvNext, LedgerStart, LedgerStep, PTL
       DEF Spec, KeepsLedger, Ledger!LedgerSpec

-----------------------------------------------------------------------------
(* The marks stay in the array while every id is a place of it.            *)

Numbered(t) == \A p \in DOMAIN t : InArray(t[p].id)

LEMMA SameIdsNumbered ==
  ASSUME NEW s, NEW t, SameIds(s, t), Numbered(s) PROVE Numbered(t)
  BY DEF SameIds, Numbered

LEMMA EmptyNumbered == Numbered(<<>>)
  BY DEF Numbered

LEMMA ParseTableNumbered ==
  ASSUME NEW d \in Document, Good(d), Numbered(d) PROVE Numbered(ParseTable(d))
  <1> DEFINE n == IF Len(d) > MAX_COMPARTMENTS THEN MAX_COMPARTMENTS ELSE Len(d)
  <1>1. DOMAIN d = 1 .. Len(d) /\ Len(d) \in Nat
    BY LenProperties DEF Document
  <1>2. DOMAIN ParseTable(d) = 1 .. n /\ 1 .. n \subseteq DOMAIN d
    BY <1>1, TableAssumption DEF ParseTable
  <1>3. \A p \in 1 .. n : ParseTable(d)[p].id = d[p].id
    <2> TAKE p \in 1 .. n
    <2>1. Legible(d[p])
      BY <1>2 DEF Good
    <2>2. ParseTable(d)[p] = SlotOf(d[p])
      BY DEF ParseTable
    <2>3. QED
      BY <2>1, <2>2 DEF SlotOf
  <1> HIDE DEF n
  <1>4. QED
    BY <1>2, <1>3 DEF Numbered

LEMMA SetDispensadoIds ==
  ASSUME NEW d \in Document, NEW x
  PROVE  /\ SameIds(d, SetDispensado(d, x))
         /\ \A p \in DOMAIN d :
              /\ SetDispensado(d, x)[p].completo = d[p].completo
              /\ d[p].id # x => SetDispensado(d, x)[p] = d[p]
  <1>1. DOMAIN d = 1 .. Len(d)
    BY LenProperties DEF Document
  <1>2. \A p \in DOMAIN d : d[p] \in Entry
    BY <1>1, ElementOfSeq DEF Document
  <1>3. DOMAIN SetDispensado(d, x) = DOMAIN d
    BY DEF SetDispensado
  <1>4. \A p \in DOMAIN d :
          /\ SetDispensado(d, x)[p].id = d[p].id
          /\ SetDispensado(d, x)[p].completo = d[p].completo
          /\ d[p].id # x => SetDispensado(d, x)[p] = d[p]
    BY <1>2 DEF SetDispensado, PositionsOf, Entry
  <1>5. QED
    BY <1>3, <1>4 DEF SameIds

LEMMA RemoveAtNumbered ==
  ASSUME NEW d \in Document, NEW p \in DOMAIN d, Numbered(d)
  PROVE  Numbered(RemoveAt(d, p))
  <1> DEFINE S == {e \in Entry : InArray(e.id)}
             a == SubSeq(d, 1, p - 1)
             b == SubSeq(d, p + 1, Len(d))
  <1>1. d \in Seq(Entry) /\ DOMAIN d = 1 .. Len(d) /\ Len(d) \in Nat
        /\ p \in 1 .. Len(d)
    BY LenProperties DEF Document
  <1>2. \A q \in 1 .. Len(d) : d[q] \in S
    BY <1>1, ElementOfSeq DEF Numbered
  <1> HIDE DEF S
  <1>3. a \in Seq(S) /\ b \in Seq(S)
    BY <1>1, <1>2, SubSeqProperties
  <1> HIDE DEF a, b
  <1>4. a \o b \in Seq(S)
    BY <1>3, ConcatProperties
  <1>5. RemoveAt(d, p) \in Seq(S)
    BY <1>4 DEF RemoveAt, a, b
  <1>6. \A q \in DOMAIN RemoveAt(d, p) : RemoveAt(d, p)[q] \in S
    BY <1>5, ElementOfSeq, LenProperties
  <1>7. QED
    BY <1>6 DEF S, Numbered

MarkInv ==
  /\ Numbered(doc) /\ Numbered(copia) /\ Numbered(leido)
  /\ Numbered(global) /\ Numbered(local)
  /\ MarkInArray

LEMMA MarkInvDispenser == TypeInv /\ MarkInv /\ DispenserTask => MarkInv'
  <1> SUFFICES ASSUME TypeInv, MarkInv, DispenserTask PROVE MarkInv'
    OBVIOUS
  <1> USE DEF MarkInv, MarkInArray, fetchVars, ghosts
  <1>t. /\ doc \in Document /\ copia \in Document
        /\ global \in Table /\ local \in Table
    BY DEF TypeInv, TypeOK
  <1>1. CASE CopyTable BY <1>1 DEF CopyTable
  <1>2. CASE CopyTimeout \/ CheckNothingDue BY <1>2 DEF CopyTimeout, CheckNothingDue
  <1>3. CASE CheckDueStart
    <2>1. PICK p \in DOMAIN local :
            /\ global' = IF mutex = "libre" THEN MarkAt(global, local[p].id) ELSE global
            /\ dosing' = local[p].id
      BY <1>3 DEF CheckDueStart
    <2>2. Numbered(global')
      BY <1>t, <2>1, MarkAtIds, SameIdsNumbered
    <2>3. InArray(dosing')
      BY <2>1 DEF Numbered
    <2>4. QED
      BY <1>3, <2>2, <2>3 DEF CheckDueStart
  <1>4. CASE CheckAspa \/ CheckTimeout \/ KeepTurning \/ BrakeMotor \/ LockTimeout
    BY <1>4 DEF CheckAspa, CheckTimeout, KeepTurning, BrakeMotor, LockTimeout
  <1>5. CASE LockForUpdate
    <2>1. local' = MarkAt(local, actual) /\ global' \in {global, MarkAt(global, actual)}
          /\ UNCHANGED <<doc, copia, leido, dosing>>
      BY <1>5 DEF LockForUpdate
    <2>2. Numbered(local') /\ Numbered(global')
      BY <1>t, <2>1, MarkAtIds, SameIdsNumbered
    <2>3. QED
      BY <2>1, <2>2
  <1>6. CASE PauseFetch \/ PauseTimeout \/ ReleasePause
    BY <1>6 DEF PauseFetch, PauseTimeout, ReleasePause
  <1>7. CASE UpdateGet
    <2>1. Numbered(copia')
      BY <1>t, <1>7, SetDispensadoIds, SameIdsNumbered DEF UpdateGet
    <2>2. QED
      BY <1>7, <2>1 DEF UpdateGet
  <1>8. CASE UpdateGetFails BY <1>8, EmptyNumbered DEF UpdateGetFails, NextAttempt
  <1>9. CASE UpdatePatch BY <1>9, EmptyNumbered DEF UpdatePatch
  <1>10. CASE UpdatePatchFails BY <1>10, EmptyNumbered DEF UpdatePatchFails, NextAttempt
  <1>11. CASE StopClean BY <1>11 DEF StopClean
  <1>12. QED
    BY <1>1, <1>2, <1>3, <1>4, <1>5, <1>6, <1>7, <1>8, <1>9, <1>10, <1>11
    DEF DispenserTask

LEMMA MarkInvNext == TypeInv /\ Shape /\ MarkInv /\ [Next]_vars => MarkInv'
  <1> SUFFICES ASSUME TypeInv, Shape, MarkInv, [Next]_vars PROVE MarkInv'
    OBVIOUS
  <1> USE DEF MarkInv, MarkInArray, dispenserVars, fetchVars, ghosts
  <1>t. doc \in Document /\ leido \in Document
    BY DEF TypeInv, TypeOK
  <1>1. CASE DispenserTask BY <1>1, MarkInvDispenser
  <1>2. CASE FetchTake \/ FetchGet \/ FetchFails \/ FetchLock \/ FetchGive
    BY <1>2 DEF FetchTake, FetchGet, FetchFails, FetchLock, FetchGive
  <1>3. CASE FetchLockTimeout BY <1>3, EmptyNumbered DEF FetchLockTimeout
  <1>4. CASE FetchStore
    BY <1>t, <1>4, EmptyNumbered, ParseTableNumbered DEF FetchStore, Shape
  <1>5. CASE AppArms
    <2>1. PICK p \in DOMAIN doc, m \in BOOLEAN :
            doc' = [doc EXCEPT ![p].dispensado = FALSE, ![p].manual = m]
      BY <1>5 DEF AppArms
    <2>2. UnmarkedAt(doc', doc, p)
      BY <1>t, <2>1, ArmShows DEF Shape
    <2>3. Numbered(doc')
      BY <2>2 DEF UnmarkedAt, Numbered
    <2>4. QED
      BY <1>5, <2>3 DEF AppArms
  <1>6. CASE AppRemoves BY <1>t, <1>6, RemoveAtNumbered DEF AppRemoves
  <1>7. CASE Tick BY <1>7 DEF Tick
  <1>8. CASE Restart BY <1>8, EmptyNumbered DEF Restart
  <1>9. CASE UNCHANGED vars BY <1>9 DEF vars
  <1>10. QED
    BY <1>1, <1>2, <1>3, <1>4, <1>5, <1>6, <1>7, <1>8, <1>9 DEF Next, FetchTask

(* If the ids of the schedule are places of the array, so is the one that  *)
(* check_scheduled_compartments takes for a place, whatever is edited.     *)
THEOREM MarkStaysInArray ==
  ASSUME GoodSchedules, \A d \in Schedules : Numbered(d)
  PROVE  Spec => []MarkInArray
  <1>1. Init => LedgerInv /\ MarkInv
    <2>1. Init => MarkInv
      BY EmptyNumbered DEF Init, MarkInv, MarkInArray
    <2>2. QED
      BY <2>1, LedgerInvInit
  <1>2. LedgerInv => TypeInv /\ Shape
    BY DEF LedgerInv, Base
  <1>3. MarkInv => MarkInArray
    BY DEF MarkInv
  <1>4. QED
    BY <1>1, <1>2, <1>3, LedgerInvNext, MarkInvNext, PTL DEF Spec

-----------------------------------------------------------------------------
(* While nobody edits the schedule, a position of one copy and an id of    *)
(* another stand for the same compartment, malformed entries included.     *)

SameEntries(d, e) ==
  SameIds(d, e) /\ \A p \in DOMAIN d : d[p].completo = e[p].completo

LEMMA SameEntriesParsed ==
  ASSUME NEW d \in Document, NEW e \in Document, SameEntries(d, e)
  PROVE  SameIds(ParseTable(d), ParseTable(e))
  <1> DEFINE n == IF Len(d) > MAX_COMPARTMENTS THEN MAX_COMPARTMENTS ELSE Len(d)
  <1>1. DOMAIN d = 1 .. Len(d) /\ Len(d) \in Nat /\ DOMAIN e = 1 .. Len(e) /\ Len(e) \in Nat
    BY LenProperties DEF Document
  <1>2. Len(d) = Len(e)
    <2>1. DOMAIN d = DOMAIN e
      BY DEF SameEntries, SameIds
    <2>2. 1 .. Len(d) = 1 .. Len(e)
      BY <1>1, <2>1
    <2>3. \A i, j \in Nat : (\A k \in 1 .. i : k \in 1 .. j) => i <= j
      OBVIOUS
    <2>4. Len(d) <= Len(e) /\ Len(e) <= Len(d)
      BY <1>1, <2>2, <2>3
    <2>5. Len(d) \in Nat /\ Len(e) \in Nat
      BY <1>1
    <2>6. QED
      BY <2>4, <2>5
  <1>3. /\ DOMAIN ParseTable(d) = 1 .. n /\ DOMAIN ParseTable(e) = 1 .. n
        /\ 1 .. n \subseteq DOMAIN d
    BY <1>1, <1>2, TableAssumption DEF ParseTable
  <1>4. \A p \in 1 .. n : ParseTable(d)[p] = SlotOf(d[p]) /\ ParseTable(e)[p] = SlotOf(e[p])
    BY <1>2 DEF ParseTable
  <1> HIDE DEF n
  <1>5. \A p \in 1 .. n : SlotOf(d[p]).id = SlotOf(e[p]).id
    BY <1>3 DEF SlotOf, ZeroSlot, Legible, SameEntries, SameIds
  <1>6. QED
    BY <1>3, <1>4, <1>5 DEF SameIds

LEMMA SetDispensadoEntries ==
  ASSUME NEW d \in Document, NEW x
  PROVE  SameEntries(d, SetDispensado(d, x)) /\ SameEntries(SetDispensado(d, x), d)
  BY SetDispensadoIds DEF SameEntries, SameIds

LEMMA SameEntriesTransitive ==
  ASSUME NEW c, NEW d, NEW e, SameEntries(c, d), SameEntries(d, e)
  PROVE  SameEntries(c, e)
  BY DEF SameEntries, SameIds

Recording == dpc \in {"pause", "get", "patch"}

SameOrder ==
  /\ global = <<>> \/ SameIds(global, ParseTable(doc))
  /\ local = <<>> \/ SameIds(local, global)
  /\ fpc \in {"lock", "store"} => SameEntries(leido, doc)
  /\ dpc = "patch" => copia = SetDispensado(doc, idReal)

TurnKnown ==
  /\ InTurn => actual \in DOMAIN local /\ local[actual].id = dosing
  /\ Recording => idReal = dosing
  /\ InTurn \/ Recording => dosing \in Id /\ servings[dosing] > 0

Unedited == edits = 0 => SameOrder /\ TurnKnown

LEMMA EditsGrow == TypeInv /\ [Next]_vars /\ edits' = 0 =>
                     edits = 0 /\ ~AppArms /\ ~AppRemoves
  <1> SUFFICES ASSUME TypeInv, [Next]_vars, edits' = 0
               PROVE  edits = 0 /\ ~AppArms /\ ~AppRemoves
    OBVIOUS
  <1>1. edits \in Nat
    BY DispenserAssumption DEF TypeInv, TypeOK
  <1>2. ~AppArms /\ ~AppRemoves
    <2>1. AppArms \/ AppRemoves => edits' = edits + 1
      BY DEF AppArms, AppRemoves
    <2>2. QED
      BY <1>1, <2>1
  <1>3. UNCHANGED edits
    BY <1>2 DEF Next, DispenserTask, FetchTask, vars, bounds, CopyTable, CopyTimeout,
       CheckNothingDue, CheckDueStart, CheckAspa, CheckTimeout, KeepTurning, BrakeMotor,
       LockForUpdate, LockTimeout, PauseFetch, PauseTimeout, UpdateGet, UpdateGetFails,
       UpdatePatch, UpdatePatchFails, ReleasePause, StopClean, FetchTake, FetchGet,
       FetchFails, FetchLock, FetchLockTimeout, FetchStore, FetchGive, Tick, Restart
  <1>4. QED
    BY <1>2, <1>3

(* The copies agree with the document, as long as it keeps its entries.    *)
LEMMA SameOrderDispenser ==
  TypeInv /\ LockInv /\ SameOrder /\ DispenserTask => SameOrder'
  <1> SUFFICES ASSUME TypeInv, LockInv, SameOrder, DispenserTask PROVE SameOrder'
    OBVIOUS
  <1> USE DEF SameOrder, fetchVars
  <1>t. /\ doc \in Document /\ copia \in Document /\ leido \in Document
        /\ global \in Table /\ local \in Table
    BY DEF TypeInv, TypeOK
  <1>1. CASE CopyTable
    BY <1>1, SameIdsReflexive DEF CopyTable
  <1>2. CASE CopyTimeout \/ CheckNothingDue \/ CheckAspa \/ CheckTimeout
    BY <1>2 DEF CopyTimeout, CheckNothingDue, CheckAspa, CheckTimeout
  <1>3. CASE CheckDueStart
    <2>1. PICK p \in DOMAIN local :
            global' = IF mutex = "libre" THEN MarkAt(global, local[p].id) ELSE global
      BY <1>3 DEF CheckDueStart
    <2>2. SameIds(global', global) /\ SameIds(global, global')
      BY <1>t, <2>1, MarkAtIds, SameIdsReflexive
    <2>3. global = <<>> => global' = <<>>
      BY <2>1 DEF MarkAt
    <2>4. UNCHANGED <<doc, local, fpc, leido, copia, idReal>> /\ dpc' = dpc
      BY <1>3 DEF CheckDueStart
    <2>5. QED
      BY <2>2, <2>3, <2>4, SameIdsTransitive
  <1>4. CASE KeepTurning \/ BrakeMotor \/ LockTimeout
    BY <1>4 DEF KeepTurning, BrakeMotor, LockTimeout
  <1>5. CASE LockForUpdate
    <2>1. /\ local' = MarkAt(local, actual) /\ global' \in {global, MarkAt(global, actual)}
          /\ UNCHANGED <<doc, copia, leido, fpc>> /\ dpc' # "patch"
      BY <1>5 DEF LockForUpdate
    <2>2. /\ SameIds(global', global) /\ SameIds(global, global')
          /\ SameIds(local', local)
      BY <1>t, <2>1, MarkAtIds, SameIdsReflexive
    <2>3. (global = <<>> => global' = <<>>) /\ (local = <<>> => local' = <<>>)
      BY <2>1 DEF MarkAt
    <2>4. QED
      BY <2>1, <2>2, <2>3, SameIdsTransitive
  <1>6. CASE PauseFetch \/ PauseTimeout \/ UpdateGetFails \/ ReleasePause \/ StopClean
    BY <1>6 DEF PauseFetch, PauseTimeout, UpdateGetFails, NextAttempt, ReleasePause, StopClean
  <1>7. CASE UpdateGet
    BY <1>7 DEF UpdateGet
  <1>8. CASE UpdatePatch \/ UpdatePatchFails
    <2>1. /\ doc' \in {doc, SetDispensado(doc, idReal)} /\ dpc' # "patch"
          /\ UNCHANGED <<global, local, fpc, leido>>
      BY <1>8 DEF UpdatePatch, UpdatePatchFails, NextAttempt
    <2>2. doc' \in Document
      BY <1>8, <1>t DEF UpdatePatch, UpdatePatchFails
    <2>3. SameEntries(doc, doc')
      BY <1>t, <2>1, SetDispensadoEntries, SameIdsReflexive DEF SameEntries
    <2>4. SameIds(ParseTable(doc), ParseTable(doc'))
      BY <1>t, <2>2, <2>3, SameEntriesParsed
    <2>5. QED
      BY <2>1, <2>3, <2>4, SameIdsTransitive, SameEntriesTransitive
  <1>9. QED
    BY <1>1, <1>2, <1>3, <1>4, <1>5, <1>6, <1>7, <1>8 DEF DispenserTask

LEMMA SameOrderFetch == TypeInv /\ SameOrder /\ FetchTask => SameOrder'
  <1> SUFFICES ASSUME TypeInv, SameOrder, FetchTask PROVE SameOrder'
    OBVIOUS
  <1> USE DEF SameOrder, dispenserVars
  <1>t. doc \in Document /\ leido \in Document
    BY DEF TypeInv, TypeOK
  <1>1. CASE FetchTake \/ FetchFails \/ FetchLock \/ FetchLockTimeout \/ FetchGive
    BY <1>1 DEF FetchTake, FetchFails, FetchLock, FetchLockTimeout, FetchGive
  <1>2. CASE FetchGet
    BY <1>2, SameIdsReflexive DEF FetchGet, SameEntries
  <1>3. CASE FetchStore
    <2>1. /\ global' = ParseTable(leido) /\ fpc' = "give" /\ SameEntries(leido, doc)
          /\ UNCHANGED <<doc, local, dpc, copia, idReal>>
      BY <1>3 DEF FetchStore
    <2>2. /\ SameIds(global', ParseTable(doc))
          /\ SameIds(ParseTable(doc), global')
      BY <1>t, <2>1, SameEntriesParsed, SameIdsSymmetric
    <2>3. local = <<>> \/ SameIds(local, global')
      <3>1. CASE global = <<>>
        <4>1. local = <<>> \/ DOMAIN local = {}
          BY <3>1 DEF SameIds
        <4>2. local \in Seq(Slot)
          BY DEF TypeInv, TypeOK, Table
        <4>3. QED
          BY <4>1, <4>2, LenProperties
      <3>2. CASE global # <<>>
        BY <2>2, <3>2, SameIdsTransitive
      <3>3. QED
        BY <3>1, <3>2
    <2>4. QED
      BY <2>1, <2>2, <2>3
  <1>4. QED
    BY <1>1, <1>2, <1>3 DEF FetchTask

(* The turn, and its record, are of the compartment that was picked.       *)
LEMMA TurnKnownDispenser ==
  TypeInv /\ LockInv /\ Phase /\ SameOrder /\ TurnKnown /\ DispenserTask => TurnKnown'
  <1> SUFFICES ASSUME TypeInv, LockInv, Phase, SameOrder, TurnKnown, DispenserTask
               PROVE  TurnKnown'
    OBVIOUS
  <1> USE DEF TurnKnown, InTurn, Recording, Phase, fetchVars, ghosts
  <1>t. /\ global \in Table /\ local \in Table
        /\ servings \in [Id -> 0 .. MaxServings] /\ MaxServings \in Nat \ {0}
    BY DispenserAssumption DEF TypeInv, TypeOK
  <1>1. CASE CopyTable
    <2>1. InTurn => local # <<>> /\ SameIds(local, global)
      BY <1>1 DEF CopyTable, SameOrder
    <2>2. QED
      BY <1>1, <2>1 DEF CopyTable, SameIds
  <1>2. CASE CopyTimeout \/ CheckNothingDue
    BY <1>2 DEF CopyTimeout, CheckNothingDue
  <1>3. CASE CheckDueStart
    <2>1. PICK p \in DOMAIN local :
            /\ actual' = p /\ dosing' = local[p].id
            /\ servings' = [servings EXCEPT ![local[p].id] = Capped(@)]
      BY <1>3 DEF CheckDueStart
    <2>2. local[p].id \in Id
      <3>1. local[p] \in Slot
        BY <1>t, LenProperties, ElementOfSeq DEF Table
      <3>2. QED
        BY <3>1 DEF Slot
    <2>3. servings'[local[p].id] > 0
      <3>1. servings'[local[p].id] = Capped(servings[local[p].id])
        BY <1>t, <2>1, <2>2
      <3>2. servings[local[p].id] \in 0 .. MaxServings
        BY <1>t, <2>2
      <3>3. QED
        BY <1>t, <3>1, <3>2 DEF Capped
    <2>4. UNCHANGED local /\ dpc' = "check"
      BY <1>3 DEF CheckDueStart
    <2>5. QED
      BY <2>1, <2>2, <2>3, <2>4
  <1>4. CASE CheckAspa \/ CheckTimeout \/ KeepTurning \/ BrakeMotor
    BY <1>4 DEF CheckAspa, CheckTimeout, KeepTurning, BrakeMotor
  <1>5. CASE LockForUpdate
    <2>1. ~enMovimiento /\ UNCHANGED <<dosing, servings, enMovimiento>>
      BY <1>5 DEF LockForUpdate
    <2>2. CASE actual \in DOMAIN local /\ actual \in DOMAIN global
      <3>1. idReal' = global[actual].id /\ dpc' = "pause"
        BY <1>5, <2>2 DEF LockForUpdate
      <3>2. local # <<>>
        BY <2>2
      <3>3. idReal' = dosing
        BY <1>5, <2>2, <3>1, <3>2 DEF LockForUpdate, SameOrder, SameIds
      <3>4. QED
        BY <1>5, <2>1, <3>1, <3>3 DEF LockForUpdate
    <2>3. CASE ~(actual \in DOMAIN local /\ actual \in DOMAIN global)
      BY <1>5, <2>1, <2>3 DEF LockForUpdate
    <2>4. QED
      BY <2>2, <2>3
  <1>6. CASE LockTimeout \/ PauseFetch \/ PauseTimeout
    BY <1>6 DEF LockTimeout, PauseFetch, PauseTimeout
  <1>7. CASE UpdateGet \/ UpdateGetFails \/ UpdatePatch \/ UpdatePatchFails
    BY <1>7 DEF UpdateGet, UpdateGetFails, UpdatePatch, UpdatePatchFails, NextAttempt
  <1>8. CASE ReleasePause \/ StopClean
    BY <1>8 DEF ReleasePause, StopClean
  <1>9. QED
    BY <1>1, <1>2, <1>3, <1>4, <1>5, <1>6, <1>7, <1>8 DEF DispenserTask

LEMMA UneditedNext ==
  TypeInv /\ LockInv /\ Phase /\ Unedited /\ [Next]_vars => Unedited'
  <1> SUFFICES ASSUME TypeInv, LockInv, Phase, Unedited, [Next]_vars, edits' = 0
               PROVE  SameOrder' /\ TurnKnown'
    BY DEF Unedited
  <1>1. edits = 0 /\ ~AppArms /\ ~AppRemoves
    BY EditsGrow
  <1>2. SameOrder /\ TurnKnown
    BY <1>1 DEF Unedited
  <1>3. CASE DispenserTask
    BY <1>2, <1>3, SameOrderDispenser, TurnKnownDispenser
  <1>4. CASE FetchTask
    <2>1. UNCHANGED <<dpc, enMovimiento, local, actual, idReal, dosing, servings>>
      BY <1>4 DEF FetchTask, FetchTake, FetchGet, FetchFails, FetchLock, FetchLockTimeout,
                  FetchStore, FetchGive, dispenserVars, ghosts
    <2>2. TurnKnown'
      BY <1>2, <2>1 DEF TurnKnown, InTurn, Recording
    <2>3. QED
      BY <1>2, <1>4, <2>2, SameOrderFetch
  <1>5. CASE Tick \/ UNCHANGED vars
    BY <1>2, <1>5 DEF Tick, vars, dispenserVars, fetchVars, ghosts, SameOrder, TurnKnown,
                      InTurn, Recording
  <1>6. CASE Restart
    BY <1>6 DEF Restart, SameOrder, TurnKnown, InTurn, Recording
  <1>7. QED
    BY <1>1, <1>3, <1>4, <1>5, <1>6 DEF Next

(* The phase needs nothing of the schedule; neither does what follows.     *)
TurnInv == LockInv /\ TypeInv /\ Phase /\ Unedited

LEMMA TurnInvInit == Init => TurnInv
  <1> SUFFICES ASSUME Init PROVE TurnInv
    OBVIOUS
  <1>1. LockInv /\ TypeInv
    BY LockInvInit, TypeInvInit
  <1>2. /\ dpc = "copy" /\ fpc = "idle" /\ ~resultado /\ ~enMovimiento /\ dosing = NoId
        /\ global = <<>> /\ local = <<>> /\ leido = <<>> /\ copia = <<>>
    BY DEF Init
  <1>3. QED
    BY <1>1, <1>2 DEF TurnInv, Phase, Unedited, SameOrder, TurnKnown, InTurn, Recording

LEMMA TurnInvNext == TurnInv /\ [Next]_vars => TurnInv'
  BY LockInvNext, TypeInvNext, PhaseNext, UneditedNext DEF TurnInv

LEMMA RecordStep ==
  ASSUME TurnInv, UpdatePatch, edits = 0, NEW p \in DOMAIN doc,
         doc'[p].dispensado, ~doc[p].dispensado
  PROVE  servings[doc[p].id] > 0
  <1>1. SameOrder /\ TurnKnown /\ doc \in Document
    BY DEF TurnInv, Unedited, TypeInv, TypeOK
  <1>2. doc' = SetDispensado(doc, idReal) /\ idReal = dosing /\ servings[dosing] > 0
    BY <1>1 DEF UpdatePatch, SameOrder, TurnKnown, Recording
  <1>3. doc[p].id = idReal
    BY <1>1, <1>2, SetDispensadoIds
  <1>4. QED
    BY <1>2, <1>3

(* A turn whose tables agreed when its slot was picked: whatever becomes   *)
(* the shared table before the turn ends has the turning id there.         *)
AgreeInv ==
  acordes =>
    /\ InTurn => Agree(actual, dosing)
    /\ Recording => idReal = dosing

LEMMA IdAtKept ==
  ASSUME NEW t \in Table, NEW x, NEW p, NEW id, IdAt(t, p, id)
  PROVE  IdAt(MarkAt(t, x), p, id)
  BY MarkAtIds DEF IdAt, SameIds

LEMMA AgreeDispenser == TypeInv /\ Phase /\ AgreeInv /\ DispenserTask => AgreeInv'
  <1> SUFFICES ASSUME TypeInv, Phase, AgreeInv, DispenserTask, acordes'
               PROVE  (InTurn => Agree(actual, dosing))' /\ (Recording => idReal = dosing)'
    BY DEF AgreeInv
  <1> USE DEF AgreeInv, Agree, StoresInTurn, InTurn, Recording, fetchVars, ghosts
  <1>t. global \in Table /\ local \in Table
    BY DEF TypeInv, TypeOK
  <1>1. CASE CopyTable
    BY <1>1 DEF CopyTable
  <1>2. CASE CopyTimeout \/ CheckNothingDue \/ CheckAspa \/ CheckTimeout \/ KeepTurning
    <2>1. UNCHANGED <<global, fpc, leido, reciente, actual, dosing, acordes>>
      BY <1>2 DEF CopyTimeout, CheckNothingDue, CheckAspa, CheckTimeout, KeepTurning
    <2>2. dpc' \in {"copy", "check", "ramp"}
      BY <1>2 DEF CopyTimeout, CheckNothingDue, CheckAspa, CheckTimeout, KeepTurning
    <2>3. InTurn' => InTurn
      <3>1. CASE CopyTimeout \/ CheckNothingDue \/ KeepTurning
        BY <3>1 DEF CopyTimeout, CheckNothingDue, KeepTurning
      <3>2. CASE CheckAspa \/ CheckTimeout
        BY <3>2 DEF CheckAspa, CheckTimeout
      <3>3. QED
        BY <1>2, <3>1, <3>2
    <2>4. QED
      BY <2>1, <2>2, <2>3
  <1>3. CASE CheckDueStart
    <2>1. PICK p \in DOMAIN local :
            /\ actual' = p
            /\ global' = IF mutex = "libre" THEN MarkAt(global, local[p].id) ELSE global
            /\ dosing' = local[p].id
            /\ acordes' = Agree(p, local[p].id)
      BY <1>3, Zenon DEF CheckDueStart
    <2>2. UNCHANGED <<fpc, leido, reciente>> /\ dpc' = "check"
      BY <1>3 DEF CheckDueStart
    <2>3. Agree(p, local[p].id)
      BY <2>1, Zenon
    <2>4. IdAt(global', p, local[p].id)
      BY <1>t, <2>1, <2>3, IdAtKept
    <2>5. QED
      BY <2>1, <2>2, <2>3, <2>4
  <1>4. CASE BrakeMotor \/ LockTimeout
    BY <1>4 DEF BrakeMotor, LockTimeout
  <1>5. CASE LockForUpdate
    <2>1. /\ dpc = "lock" /\ ~enMovimiento' /\ dpc' \in {"pause", "clean"} /\ acordes
          /\ dosing' = dosing
      BY <1>5 DEF LockForUpdate, Phase
    <2>2. dpc' = "pause" => actual \in DOMAIN global /\ idReal' = global[actual].id
      BY <1>5 DEF LockForUpdate
    <2>3. QED
      BY <2>1, <2>2 DEF IdAt
  <1>6. CASE PauseFetch \/ PauseTimeout \/ ReleasePause
    <2>1. /\ dpc \in {"pause", "release"} /\ dpc' \in {"get", "clean"}
          /\ dpc' = "get" => dpc = "pause"
          /\ UNCHANGED <<enMovimiento, idReal, dosing, acordes>>
      BY <1>6 DEF PauseFetch, PauseTimeout, ReleasePause
    <2>2. QED
      BY <2>1 DEF Phase
  <1>7. CASE UpdateGet \/ UpdateGetFails \/ UpdatePatch \/ UpdatePatchFails
    <2>1. /\ dpc \in {"get", "patch"} /\ dpc' \in {"get", "patch", "release"}
          /\ UNCHANGED <<enMovimiento, idReal, dosing, acordes>>
      BY <1>7 DEF UpdateGet, UpdateGetFails, UpdatePatch, UpdatePatchFails, NextAttempt
    <2>2. QED
      BY <2>1 DEF Phase
  <1>8. CASE StopClean
    BY <1>8 DEF StopClean
  <1>9. QED
    BY <1>1, <1>2, <1>3, <1>4, <1>5, <1>6, <1>7, <1>8 DEF DispenserTask

LEMMA AgreeFetch == AgreeInv /\ FetchTask => AgreeInv'
  <1> SUFFICES ASSUME AgreeInv, FetchTask, acordes'
               PROVE  (InTurn => Agree(actual, dosing))' /\ (Recording => idReal = dosing)'
    BY DEF AgreeInv
  <1>1. UNCHANGED <<dpc, enMovimiento, actual, idReal, dosing, acordes>>
    BY DEF FetchTask, FetchTake, FetchGet, FetchFails, FetchLock, FetchLockTimeout,
       FetchStore, FetchGive, dispenserVars, ghosts
  <1> USE <1>1 DEF AgreeInv, Agree, StoresInTurn, InTurn, Recording
  <1>2. CASE FetchTake \/ FetchFails \/ FetchLockTimeout \/ FetchGive
    BY <1>2 DEF FetchTake, FetchFails, FetchLockTimeout, FetchGive
  <1>3. CASE FetchGet
    BY <1>3 DEF FetchGet
  <1>4. CASE FetchLock
    BY <1>4 DEF FetchLock
  <1>5. CASE FetchStore
    BY <1>5 DEF FetchStore
  <1>6. QED
    BY <1>2, <1>3, <1>4, <1>5 DEF FetchTask

LEMMA AgreeNext == TypeInv /\ Phase /\ AgreeInv /\ [Next]_vars => AgreeInv'
  <1> SUFFICES ASSUME TypeInv, Phase, AgreeInv, [Next]_vars PROVE AgreeInv'
    OBVIOUS
  <1>1. CASE DispenserTask
    BY <1>1, AgreeDispenser
  <1>2. CASE FetchTask
    BY <1>2, AgreeFetch
  <1>3. CASE AppArms \/ AppRemoves \/ Tick \/ UNCHANGED vars
    <2>1. UNCHANGED <<global, dispenserVars, fetchVars, dosing, acordes>>
      BY <1>3 DEF AppArms, AppRemoves, Tick, vars, ghosts
    <2>2. QED
      BY <2>1 DEF AgreeInv, Agree, StoresInTurn, InTurn, Recording, dispenserVars, fetchVars
  <1>4. CASE Restart
    BY <1>4 DEF Restart, AgreeInv, InTurn, Recording
  <1>5. QED
    BY <1>1, <1>2, <1>3, <1>4 DEF Next

(* In any schedule, whatever is edited, timed out or restarted: though the *)
(* board picks a slot by its position in one table and records it by the   *)
(* id at that position in another, it records another id only if one of    *)
(* the tables that could replace the first differed from it there when the *)
(* slot was picked.  And while nobody edits the schedule it records only   *)
(* compartments that turned.                                               *)
THEOREM RecordsOnlyTurned == Spec => OnlyTurnedRecorded
  <1>1. TurnInv /\ AgreeInv /\ [Next]_vars =>
          [UpdatePatch =>
             /\ acordes => idReal = dosing
             /\ edits = 0 => \A p \in DOMAIN doc :
                  doc'[p].dispensado /\ ~doc[p].dispensado => servings[doc[p].id] > 0]_vars
    <2>1. AgreeInv /\ UpdatePatch /\ acordes => idReal = dosing
      BY DEF AgreeInv, UpdatePatch, Recording
    <2>2. QED
      BY <2>1, RecordStep
  <1>2. Init => AgreeInv
    BY DEF Init, AgreeInv, InTurn, Recording
  <1>3. TurnInv /\ AgreeInv /\ [Next]_vars => AgreeInv'
    BY AgreeNext DEF TurnInv
  <1>4. QED
    BY <1>1, <1>2, <1>3, TurnInvInit, TurnInvNext, PTL DEF Spec, OnlyTurnedRecorded
-----------------------------------------------------------------------------
(* What a turn whose lock was had comes to: with the schedule unedited the *)
(* slot is still there, its id is the one that turned, and the update ends *)
(* with a success or with its last attempt.                                *)

Tried ==
  dpc = "release" \/ (dpc = "clean" /\ mutex = "dispenser") =>
    /\ intento > 0 /\ idReal = dosing
    /\ resultado \/ intento = FIRESTORE_UPDATE_RETRIES

TriedInv == TurnInv /\ (edits = 0 => Tried)

(* The slot that turned has a place in both tables when the lock is had.   *)
LEMMA SlotStillThere ==
  ASSUME SameOrder, TurnKnown, LockForUpdate
  PROVE  dpc' = "pause"
  <1>1. actual \in DOMAIN local
    BY DEF LockForUpdate, TurnKnown, InTurn
  <1>2. actual \in DOMAIN global
    BY <1>1 DEF SameOrder, SameIds
  <1>3. QED
    BY <1>1, <1>2 DEF LockForUpdate

LEMMA TriedDispenser ==
  ASSUME TurnInv, edits = 0, Tried, DispenserTask
  PROVE  Tried'
  <1>k. SameOrder /\ TurnKnown /\ LockInv /\ TypeInv
    BY DEF TurnInv, Unedited
  <1>n. /\ intento \in Nat
        /\ dpc \in {"get", "patch"} => intento < FIRESTORE_UPDATE_RETRIES
    BY <1>k, DispenserAssumption DEF TypeInv, TypeOK
  <1>1. CASE CopyTable \/ CopyTimeout \/ CheckNothingDue \/ CheckDueStart \/ KeepTurning
    <2>1. dpc' \in {"copy", "check"}
      BY <1>1 DEF CopyTable, CopyTimeout, CheckNothingDue, CheckDueStart, KeepTurning
    <2>2. QED
      BY <2>1 DEF Tried
  <1>2. CASE CheckAspa \/ CheckTimeout \/ BrakeMotor
    BY <1>2 DEF CheckAspa, CheckTimeout, BrakeMotor, Tried
  <1>3. CASE LockForUpdate
    BY <1>3, <1>k, SlotStillThere DEF Tried
  <1>4. CASE LockTimeout
    <2>1. mutex # "dispenser"
      BY <1>4, <1>k DEF LockTimeout, LockInv, HolderInv
    <2>2. QED
      BY <1>4, <2>1 DEF LockTimeout, Tried
  <1>5. CASE PauseFetch \/ PauseTimeout \/ UpdateGet
    BY <1>5 DEF PauseFetch, PauseTimeout, UpdateGet, Tried
  <1>6. CASE UpdateGetFails \/ UpdatePatchFails
    <2>1. /\ dpc \in {"get", "patch"} /\ UNCHANGED <<idReal, dosing>>
          /\ intento' = intento + 1
          /\ dpc' = IF intento + 1 < FIRESTORE_UPDATE_RETRIES THEN "get" ELSE "release"
      BY <1>6 DEF UpdateGetFails, UpdatePatchFails, NextAttempt, ghosts
    <2>2. idReal = dosing
      BY <2>1, <1>k DEF TurnKnown, Recording
    <2>3. dpc' = "release" => intento' = FIRESTORE_UPDATE_RETRIES
      BY <2>1, <1>n, DispenserAssumption
    <2>4. QED
      BY <2>1, <2>2, <2>3, <1>n DEF Tried
  <1>7. CASE UpdatePatch
    <2>1. /\ dpc = "patch" /\ UNCHANGED <<idReal, dosing>>
          /\ intento' = intento + 1 /\ resultado' = TRUE
      BY <1>7 DEF UpdatePatch, ghosts
    <2>2. idReal = dosing
      BY <2>1, <1>k DEF TurnKnown, Recording
    <2>3. QED
      BY <2>1, <2>2, <1>n DEF Tried
  <1>8. CASE ReleasePause
    BY <1>8 DEF ReleasePause, ghosts, Tried
  <1>9. CASE StopClean
    BY <1>9 DEF StopClean, Tried
  <1>10. QED
    BY <1>1, <1>2, <1>3, <1>4, <1>5, <1>6, <1>7, <1>8, <1>9 DEF DispenserTask

LEMMA TriedInvNext == TriedInv /\ [Next]_vars => TriedInv'
  <1> SUFFICES ASSUME TriedInv, [Next]_vars PROVE TriedInv'
    OBVIOUS
  <1>1. TurnInv'
    BY TurnInvNext DEF TriedInv
  <1>2. ASSUME edits' = 0 PROVE Tried'
    <2>1. edits = 0 /\ ~AppArms /\ ~AppRemoves /\ Tried
      BY <1>2, EditsGrow DEF TriedInv, TurnInv
    <2>2. CASE DispenserTask
      BY <2>1, <2>2, TriedDispenser DEF TriedInv
    <2>3. CASE FetchTask
      <3>1. /\ UNCHANGED <<dpc, intento, idReal, dosing, resultado>>
            /\ mutex' = "dispenser" => mutex = "dispenser"
        BY <2>3 DEF FetchTask, FetchTake, FetchGet, FetchFails, FetchLock, FetchLockTimeout,
                    FetchStore, FetchGive, dispenserVars, ghosts
      <3>2. QED
        BY <2>1, <3>1 DEF Tried
    <2>4. CASE Tick \/ UNCHANGED vars
      BY <2>1, <2>4 DEF Tick, vars, dispenserVars, ghosts, Tried
    <2>5. CASE Restart
      BY <2>5 DEF Restart, Tried
    <2>6. QED
      BY <2>1, <2>2, <2>3, <2>4, <2>5 DEF Next
  <1>3. QED
    BY <1>1, <1>2 DEF TriedInv

LEMMA TriedInvInit == Init => TriedInv
  BY TurnInvInit DEF Init, Tried, TriedInv

(* For any schedule: while nobody edits it, a turn ends unsettled only     *)
(* because the mutex or the semaphore timed out, or because all            *)
(* FIRESTORE_UPDATE_RETRIES attempts of dispenser_motor_stop failed.       *)
THEOREM LapsesHaveCauses == Spec => LapseCauses
  <1>1. ASSUME TriedInv, StopClean, ~Settled, edits = 0
        PROVE  \/ mutex # "dispenser"
               \/ intento > 0 /\ idReal = dosing /\ ~semTaken
               \/ intento = FIRESTORE_UPDATE_RETRIES /\ ~resultado
    <2> SUFFICES ASSUME mutex = "dispenser"
                 PROVE  \/ intento > 0 /\ idReal = dosing /\ ~semTaken
                        \/ intento = FIRESTORE_UPDATE_RETRIES /\ ~resultado
      OBVIOUS
    <2>1. Tried /\ dpc = "clean"
      BY <1>1 DEF TriedInv, StopClean
    <2>2. QED
      BY <1>1, <2>1 DEF Tried, Settled
  <1>2. TriedInv /\ [Next]_vars =>
          [StopClean /\ ~Settled /\ edits = 0 =>
             \/ mutex # "dispenser"
             \/ intento > 0 /\ idReal = dosing /\ ~semTaken
             \/ intento = FIRESTORE_UPDATE_RETRIES /\ ~resultado]_vars
    BY <1>1
  <1>3. QED
    BY <1>2, TriedInvInit, TriedInvNext, PTL DEF Spec, LapseCauses
(* With every wait granted in time, both locks are held to the end.        *)
Granted ==
  /\ dpc \in {"pause", "get", "patch", "release", "clean"} => mutex = "dispenser"
  /\ dpc \in {"get", "patch", "release", "clean"} => semTaken

LEMMA NeverEdited ==
  ASSUME EditKinds = {}
  PROVE  /\ Init => edits = 0
         /\ edits = 0 /\ [Next]_vars => edits' = 0
  <1>1. ~AppArms /\ ~AppRemoves
    BY DEF AppArms, AppRemoves
  <1>2. [Next]_vars => edits' = edits
    BY <1>1 DEF Next, DispenserTask, FetchTask, vars, bounds, CopyTable, CopyTimeout,
       CheckNothingDue, CheckDueStart, CheckAspa, CheckTimeout, KeepTurning, BrakeMotor,
       LockForUpdate, LockTimeout, PauseFetch, PauseTimeout, UpdateGet, UpdateGetFails,
       UpdatePatch, UpdatePatchFails, ReleasePause, StopClean, FetchTake, FetchGet,
       FetchFails, FetchLock, FetchLockTimeout, FetchStore, FetchGive, Tick, Restart
  <1>3. QED
    BY <1>2 DEF Init

LEMMA GrantedNext ==
  ASSUME TriedInv, edits = 0, Granted, [Next /\ ~WaitGivenUp]_vars
  PROVE  Granted'
  <1>k. SameOrder /\ TurnKnown /\ LockInv
    BY DEF TriedInv, TurnInv, Unedited
  <1>p. mutex = "dispenser" => dpc \in {"pause", "get", "patch", "release", "clean"}
    BY <1>k DEF LockInv, HolderInv
  <1>1. CASE CopyTable \/ CheckNothingDue \/ CheckDueStart \/ KeepTurning \/ StopClean
    <2>1. dpc' \in {"copy", "check"}
      BY <1>1 DEF CopyTable, CheckNothingDue, CheckDueStart, KeepTurning, StopClean
    <2>2. QED
      BY <2>1 DEF Granted
  <1>2. CASE CheckAspa \/ CheckTimeout \/ BrakeMotor
    BY <1>2 DEF CheckAspa, CheckTimeout, BrakeMotor, Granted
  <1>3. CASE LockForUpdate
    <2>1. dpc' = "pause"
      BY <1>3, <1>k, SlotStillThere
    <2>2. mutex' = "dispenser"
      BY <1>3 DEF LockForUpdate
    <2>3. QED
      BY <2>1, <2>2 DEF Granted
  <1>4. CASE PauseFetch
    BY <1>4 DEF PauseFetch, Granted
  <1>5. CASE UpdateGet \/ UpdateGetFails
    <2>1. /\ dpc = "get" /\ UNCHANGED <<mutex, semTaken>>
          /\ dpc' \in {"get", "patch", "release"}
      BY <1>5 DEF UpdateGet, UpdateGetFails, NextAttempt
    <2>2. QED
      BY <2>1 DEF Granted
  <1>6. CASE UpdatePatch \/ UpdatePatchFails
    <2>1. /\ dpc = "patch" /\ UNCHANGED <<mutex, semTaken>>
          /\ dpc' \in {"get", "release"}
      BY <1>6 DEF UpdatePatch, UpdatePatchFails, NextAttempt
    <2>2. QED
      BY <2>1 DEF Granted
  <1>7. CASE ReleasePause
    BY <1>7 DEF ReleasePause, Granted
  <1>8. CASE CopyTimeout \/ LockTimeout \/ PauseTimeout
    <2>1. ~[Next /\ ~WaitGivenUp]_vars \/ UNCHANGED vars
      BY <1>8 DEF WaitGivenUp
    <2>2. QED
      BY <2>1 DEF vars, dispenserVars, Granted
  <1>9. CASE FetchTask
    <2>1. /\ UNCHANGED <<dpc, semTaken>>
          /\ mutex' = mutex \/ mutex \in {"libre", "fetch"}
      <3>1. mutex = "fetch" <=> fpc = "store"
        BY <1>k DEF LockInv, HolderInv
      <3>2. QED
        BY <1>9, <3>1 DEF FetchTask, FetchTake, FetchGet, FetchFails, FetchLock,
           FetchLockTimeout, FetchStore, FetchGive, dispenserVars
    <2>2. QED
      BY <2>1 DEF Granted
  <1>10. CASE AppArms \/ AppRemoves \/ Tick \/ UNCHANGED vars
    BY <1>10 DEF AppArms, AppRemoves, Tick, vars, dispenserVars, Granted
  <1>11. CASE Restart
    BY <1>11 DEF Restart, Granted
  <1>12. QED
    BY <1>1, <1>2, <1>3, <1>4, <1>5, <1>6, <1>7, <1>8, <1>9, <1>10, <1>11
       DEF Next, DispenserTask

(* With every wait granted in time and nobody editing, a turn that         *)
(* dispenser_motor_stop ends unsettled has only the network to blame: all  *)
(* attempts were made and all of them failed.                              *)
THEOREM PromptLapsesAreFailures ==
  ASSUME EditKinds = {}
  PROVE  PromptSpec =>
           [][StopClean /\ ~Settled => intento = FIRESTORE_UPDATE_RETRIES /\ ~resultado]_vars
  <1> DEFINE PromptInv == TriedInv /\ edits = 0 /\ Granted
  <1>1. Init => PromptInv
    BY TriedInvInit, NeverEdited DEF Init, Granted
  <1>2. PromptInv /\ [Next /\ ~WaitGivenUp]_vars => PromptInv'
    <2> SUFFICES ASSUME PromptInv, [Next /\ ~WaitGivenUp]_vars PROVE PromptInv'
      OBVIOUS
    <2>1. [Next]_vars
      OBVIOUS
    <2>2. TriedInv' /\ edits' = 0
      BY <2>1, TriedInvNext, NeverEdited
    <2>3. Granted'
      BY GrantedNext
    <2>4. QED
      BY <2>2, <2>3
  <1>3. ASSUME PromptInv, StopClean, ~Settled
        PROVE  intento = FIRESTORE_UPDATE_RETRIES /\ ~resultado
    <2>1. dpc = "clean" /\ mutex = "dispenser" /\ semTaken
      BY <1>3 DEF StopClean, Granted
    <2>2. idReal = dosing /\ (resultado \/ intento = FIRESTORE_UPDATE_RETRIES)
      BY <1>3, <2>1 DEF TriedInv, Tried
    <2>3. QED
      BY <1>3, <2>1, <2>2 DEF Settled
  <1>4. PromptInv /\ [Next /\ ~WaitGivenUp]_vars =>
          [StopClean /\ ~Settled => intento = FIRESTORE_UPDATE_RETRIES /\ ~resultado]_vars
    BY <1>3
  <1>5. QED
    BY <1>1, <1>2, <1>4, PTL DEF PromptSpec

(* The update writes the document back with one field changed, as long as  *)
(* nobody edits it: the overwritten edit of run DispenserOneEntry is the   *)
(* only way for it to touch anything else.                                 *)
THEOREM UneditedUpdateIsExact ==
  ASSUME EditKinds = {}
  PROVE  Spec => UpdateTouchesOneEntry
  <1> DEFINE Inv == TurnInv /\ edits = 0
  <1>1. ASSUME Inv, UpdatePatch PROVE doc' = SetDispensado(doc, idReal)
    BY <1>1 DEF TurnInv, Unedited, SameOrder, UpdatePatch
  <1>2. Inv /\ [Next]_vars =>
          [UpdatePatch => doc' = SetDispensado(doc, idReal)]_vars
    BY <1>1
  <1>3. Init => Inv
    BY TurnInvInit, NeverEdited
  <1>4. Inv /\ [Next]_vars => Inv'
    BY TurnInvNext, NeverEdited
  <1>5. QED
    BY <1>2, <1>3, <1>4, PTL DEF Spec, UpdateTouchesOneEntry
-----------------------------------------------------------------------------
(* The mark by id of check_scheduled_compartments lands on the compartment *)
(* that turns if every id that is a position of the table stands at it.    *)

InPlace(t) == \A p \in DOMAIN t : t[p].id \in DOMAIN t => t[t[p].id].id = t[p].id
InPlaceSchedules ==
  \A d \in Schedules : InPlace(ParseTable(d)) /\ \A p \in DOMAIN d : ~d[p].dispensado

OnlyTurned(t, s) ==
  \A p \in DOMAIN t : t[p].dispensado => t[p].id \in Id /\ s[t[p].id] > 0

LEMMA SameIdsInPlace ==
  ASSUME NEW s, NEW t, SameIds(s, t), InPlace(s) PROVE InPlace(t)
  BY DEF SameIds, InPlace

LEMMA MarkTurned ==
  ASSUME NEW t \in Table, NEW p, NEW s, OnlyTurned(t, s), p \in DOMAIN t => s[t[p].id] > 0
  PROVE  OnlyTurned(MarkAt(t, p), s)
  <1>1. CASE p \in DOMAIN t
    <2>1. t \in [DOMAIN t -> Slot]
      BY LenProperties DEF Table
    <2>2. \A q \in DOMAIN t : t[q].id \in Id /\ MarkAt(t, p)[q].id = t[q].id
      BY <2>1, MarkAtIds DEF Slot, SameIds
    <2>3. DOMAIN MarkAt(t, p) = DOMAIN t /\ \A q \in DOMAIN t : q # p => MarkAt(t, p)[q] = t[q]
      BY <1>1 DEF MarkAt
    <2>4. QED
      BY <1>1, <2>2, <2>3 DEF OnlyTurned
  <1>2. CASE p \notin DOMAIN t
    BY <1>2 DEF MarkAt
  <1>3. QED
    BY <1>1, <1>2

LEMMA RecordTurned ==
  ASSUME NEW d \in Document, NEW id \in Id, NEW s, OnlyTurned(d, s), s[id] > 0
  PROVE  OnlyTurned(SetDispensado(d, id), s)
  <1>1. /\ DOMAIN SetDispensado(d, id) = DOMAIN d
        /\ \A p \in DOMAIN d : SetDispensado(d, id)[p].id = d[p].id
    BY SetDispensadoIds DEF SameIds
  <1>2. \A p \in DOMAIN d : d[p].id # id => SetDispensado(d, id)[p] = d[p]
    BY DEF SetDispensado, PositionsOf
  <1>3. QED
    BY <1>1, <1>2 DEF OnlyTurned

LEMMA ParseTurned ==
  ASSUME NEW d \in Document, NEW s, OnlyTurned(d, s)
  PROVE  OnlyTurned(ParseTable(d), s)
  <1>1. \A p \in DOMAIN ParseTable(d) : p \in DOMAIN d /\ ParseTable(d)[p] = SlotOf(d[p])
    BY LenProperties, TableAssumption DEF ParseTable, Document
  <1>2. \A p \in DOMAIN d : SlotOf(d[p]).dispensado =>
          d[p].dispensado /\ SlotOf(d[p]).id = d[p].id
    BY DEF SlotOf, ZeroSlot
  <1>3. QED
    BY <1>1, <1>2 DEF OnlyTurned

LEMMA TurnedGrows ==
  ASSUME NEW t, NEW r, NEW s, OnlyTurned(t, r), \A id \in Id : r[id] > 0 => s[id] > 0
  PROVE  OnlyTurned(t, s)
  BY DEF OnlyTurned

PlaceInv ==
  /\ TurnInv /\ edits = 0
  /\ InPlace(ParseTable(doc))
  /\ OnlyTurned(doc, servings) /\ OnlyTurned(leido, servings)
  /\ OnlyTurned(copia, servings) /\ OnlyTurned(global, servings)
  /\ OnlyTurned(local, servings)

LEMMA PlaceInvInit == ASSUME InPlaceSchedules, Init PROVE PlaceInv
  <1>1. TurnInv
    BY TurnInvInit
  <1>2. \A s : OnlyTurned(<<>>, s)
    BY DEF OnlyTurned
  <1>3. InPlace(ParseTable(doc)) /\ OnlyTurned(doc, servings)
    BY DEF Init, InPlaceSchedules, OnlyTurned
  <1>4. QED
    BY <1>1, <1>2, <1>3 DEF PlaceInv, Init

(* The shared table keeps its ids in place, whatever fetch_task stores.    *)
LEMMA SharedInPlace == ASSUME PlaceInv PROVE InPlace(global)
  <1>1. global = <<>> \/ SameIds(global, ParseTable(doc))
    BY DEF PlaceInv, TurnInv, Unedited, SameOrder
  <1>2. QED
    BY <1>1, SameIdsInPlace, SameIdsSymmetric DEF PlaceInv, InPlace

LEMMA PlaceDispenser ==
  ASSUME PlaceInv, DispenserTask
  PROVE  /\ OnlyTurned(doc', servings') /\ OnlyTurned(leido', servings')
         /\ OnlyTurned(copia', servings') /\ OnlyTurned(global', servings')
         /\ OnlyTurned(local', servings')
  <1> USE DEF PlaceInv
  <1>k. SameOrder /\ TurnKnown
    BY DEF TurnInv, Unedited
  <1>t. /\ doc \in Document /\ copia \in Document /\ global \in Table /\ local \in Table
        /\ servings \in [Id -> 0 .. MaxServings] /\ MaxServings \in Nat \ {0}
    BY DispenserAssumption DEF TurnInv, TypeInv, TypeOK
  <1>e. \A s : OnlyTurned(<<>>, s)
    BY DEF OnlyTurned
  <1>1. CASE CopyTable
    BY <1>1 DEF CopyTable, ghosts
  <1>2. CASE \/ CopyTimeout \/ CheckNothingDue \/ CheckAspa \/ CheckTimeout \/ KeepTurning
             \/ BrakeMotor \/ LockTimeout \/ PauseFetch \/ PauseTimeout \/ ReleasePause
    BY <1>2 DEF CopyTimeout, CheckNothingDue, CheckAspa, CheckTimeout, KeepTurning,
       BrakeMotor, LockTimeout, PauseFetch, PauseTimeout, ReleasePause, ghosts, fetchVars
  <1>3. CASE CheckDueStart
    <2>1. PICK p \in DOMAIN local :
            /\ global' = IF mutex = "libre" THEN MarkAt(global, local[p].id) ELSE global
            /\ servings' = [servings EXCEPT ![local[p].id] = Capped(@)]
      BY <1>3 DEF CheckDueStart
    <2> DEFINE x == local[p].id
    <2>2. x \in Id
      <3>1. local[p] \in Slot
        BY <1>t, LenProperties, ElementOfSeq DEF Table
      <3>2. QED
        BY <3>1 DEF Slot
    <2>3. \A n \in 0 .. MaxServings : Capped(n) > 0
      BY <1>t DEF Capped
    <2>4. /\ servings'[x] > 0
          /\ \A id \in Id : servings[id] > 0 => servings'[id] > 0
      BY <1>t, <2>1, <2>2, <2>3
    <2>5. x \in DOMAIN global => global[x].id = x
      <3>1. local # <<>>
        OBVIOUS
      <3>2. p \in DOMAIN global /\ global[p].id = x
        BY <1>k, <3>1 DEF SameOrder, SameIds
      <3>3. QED
        BY <3>2, SharedInPlace DEF InPlace
    <2>6. OnlyTurned(global, servings')
      BY <2>4, TurnedGrows
    <2>7. OnlyTurned(MarkAt(global, x), servings')
      BY <1>t, <2>4, <2>5, <2>6, MarkTurned
    <2>8. OnlyTurned(global', servings')
      BY <2>1, <2>6, <2>7
    <2>9. UNCHANGED <<doc, leido, copia, local>>
      BY <1>3 DEF CheckDueStart, fetchVars
    <2>10. QED
      BY <2>4, <2>8, <2>9, TurnedGrows
  <1>4. CASE LockForUpdate
    <2>1. /\ local' = MarkAt(local, actual) /\ global' \in {global, MarkAt(global, actual)}
          /\ UNCHANGED <<doc, leido, copia, servings>>
      BY <1>4 DEF LockForUpdate, ghosts, fetchVars
    <2>2. actual \in DOMAIN local /\ local[actual].id = dosing /\ servings[dosing] > 0
      BY <1>4, <1>k DEF LockForUpdate, TurnKnown, InTurn
    <2>3. local # <<>>
      BY <2>2
    <2>4. actual \in DOMAIN global => global[actual].id = dosing
      BY <1>k, <2>2, <2>3 DEF SameOrder, SameIds
    <2>5. OnlyTurned(MarkAt(local, actual), servings)
      BY <1>t, <2>2, MarkTurned
    <2>6. OnlyTurned(MarkAt(global, actual), servings)
      BY <1>t, <2>2, <2>4, MarkTurned
    <2>7. QED
      BY <2>1, <2>5, <2>6
  <1>5. CASE UpdateGet
    <2>1. /\ copia' = SetDispensado(doc, idReal)
          /\ UNCHANGED <<doc, leido, global, local, servings>>
      BY <1>5 DEF UpdateGet, ghosts, fetchVars
    <2>2. idReal \in Id /\ servings[idReal] > 0
      BY <1>5, <1>k DEF UpdateGet, TurnKnown, Recording
    <2>3. OnlyTurned(SetDispensado(doc, idReal), servings)
      BY <1>t, <2>2, RecordTurned
    <2>4. QED
      BY <2>1, <2>3
  <1>6. CASE UpdateGetFails \/ UpdatePatch \/ UpdatePatchFails
    <2>1. /\ doc' \in {doc, copia} /\ copia' = <<>>
          /\ UNCHANGED <<leido, global, local, servings>>
      BY <1>6 DEF UpdateGetFails, UpdatePatch, UpdatePatchFails, NextAttempt, ghosts, fetchVars
    <2>2. QED
      BY <2>1, <1>e
  <1>7. CASE StopClean
    <2>1. /\ UNCHANGED <<doc, leido, global, local, copia>>
          /\ servings' = servings \/
               servings' = [servings EXCEPT ![dosing] = IF @ > 1 THEN 1 ELSE @]
      BY <1>7 DEF StopClean, fetchVars
    <2>2. \A id \in Id : servings[id] > 0 => servings'[id] > 0
      BY <1>t, <2>1
    <2>3. QED
      BY <2>1, <2>2, TurnedGrows
  <1>8. QED
    BY <1>1, <1>2, <1>3, <1>4, <1>5, <1>6, <1>7 DEF DispenserTask

(* No step moves an id in the document.                                    *)
LEMMA PlaceKept ==
  ASSUME PlaceInv, [Next]_vars, ~AppArms, ~AppRemoves
  PROVE  InPlace(ParseTable(doc'))
  <1>k. SameOrder /\ doc \in Document
    BY DEF PlaceInv, TurnInv, Unedited, TypeInv, TypeOK
  <1>1. CASE UpdatePatch \/ UpdatePatchFails
    <2>1. doc' \in {doc, SetDispensado(doc, idReal)} /\ SetDispensado(doc, idReal) \in Document
      BY <1>1, <1>k, SetDispensadoType DEF UpdatePatch, UpdatePatchFails, SameOrder
    <2>2. SameEntries(doc, SetDispensado(doc, idReal))
      BY <1>k, SetDispensadoEntries
    <2>3. SameIds(ParseTable(doc), ParseTable(SetDispensado(doc, idReal)))
      BY <1>k, <2>1, <2>2, SameEntriesParsed
    <2>4. QED
      BY <2>1, <2>3, SameIdsInPlace DEF PlaceInv
  <1>2. CASE ~(UpdatePatch \/ UpdatePatchFails)
    <2>1. doc' = doc
      BY <1>2 DEF Next, DispenserTask, FetchTask, vars, CopyTable, CopyTimeout,
         CheckNothingDue, CheckDueStart, CheckAspa, CheckTimeout, KeepTurning, BrakeMotor,
         LockForUpdate, LockTimeout, PauseFetch, PauseTimeout, UpdateGet, UpdateGetFails,
         ReleasePause, StopClean, FetchTake, FetchGet, FetchFails, FetchLock,
         FetchLockTimeout, FetchStore, FetchGive, Tick, Restart
    <2>2. QED
      BY <2>1 DEF PlaceInv
  <1>3. QED
    BY <1>1, <1>2

LEMMA PlaceInvNext ==
  ASSUME EditKinds = {}, PlaceInv, [Next]_vars
  PROVE  PlaceInv'
  <1>1. ~AppArms /\ ~AppRemoves
    BY DEF AppArms, AppRemoves
  <1>2. TurnInv' /\ edits' = 0 /\ InPlace(ParseTable(doc'))
    BY <1>1, TurnInvNext, NeverEdited, PlaceKept DEF PlaceInv
  <1>e. \A s : OnlyTurned(<<>>, s)
    BY DEF OnlyTurned
  <1>3. /\ OnlyTurned(doc', servings') /\ OnlyTurned(leido', servings')
        /\ OnlyTurned(copia', servings') /\ OnlyTurned(global', servings')
        /\ OnlyTurned(local', servings')
    <2>1. CASE DispenserTask
      BY <2>1, PlaceDispenser
    <2>2. CASE FetchTask
      <3>1. /\ UNCHANGED <<doc, copia, local, servings>>
            /\ leido' \in {leido, doc, <<>>}
            /\ global' \in {global, ParseTable(leido)}
        BY <2>2 DEF FetchTask, FetchTake, FetchGet, FetchFails, FetchLock,
           FetchLockTimeout, FetchStore, FetchGive, dispenserVars, ghosts
      <3>2. leido \in Document
        BY DEF PlaceInv, TurnInv, TypeInv, TypeOK
      <3>3. OnlyTurned(ParseTable(leido), servings)
        BY <3>2, ParseTurned DEF PlaceInv
      <3>4. QED
        BY <3>1, <3>3, <1>e DEF PlaceInv
    <2>3. CASE Tick \/ UNCHANGED vars
      BY <2>3 DEF Tick, vars, dispenserVars, fetchVars, ghosts, PlaceInv
    <2>4. CASE Restart
      BY <2>4, <1>e DEF Restart, PlaceInv
    <2>5. QED
      BY <1>1, <2>1, <2>2, <2>3, <2>4 DEF Next
  <1>4. QED
    BY <1>2, <1>3 DEF PlaceInv

(* The shared table shows as dispensed only what turned, for schedules in  *)
(* which every id that is a position stands at that position (and that     *)
(* start undispensed and stay unedited): entries out of that order are the *)
(* only way to the wrong mark of run DispenserMarks.                       *)
THEOREM MarksInPlaceAreTurns ==
  ASSUME EditKinds = {}, InPlaceSchedules
  PROVE  Spec => []OnlyTurnedMarked
  <1>1. Init => PlaceInv
    BY PlaceInvInit
  <1>2. PlaceInv /\ [Next]_vars => PlaceInv'
    BY PlaceInvNext
  <1>3. PlaceInv => OnlyTurnedMarked
    BY DEF PlaceInv, OnlyTurned, OnlyTurnedMarked
  <1>4. QED
    BY <1>1, <1>2, <1>3, PTL DEF Spec
-----------------------------------------------------------------------------
(* The update in the document and the mark in the table.                   *)

LEMMA SetDispensadoPlace ==
  ASSUME NEW d \in Document, NEW id
  PROVE  /\ DOMAIN SetDispensado(d, id) = DOMAIN d
         /\ \A p \in DOMAIN d : SetDispensado(d, id)[p].id = d[p].id
         /\ PositionsOf(SetDispensado(d, id), id) = PositionsOf(d, id)
  <1>1. DOMAIN SetDispensado(d, id) = DOMAIN d
    BY DEF SetDispensado
  <1>2. \A p \in DOMAIN d : d[p] \in Entry
    BY LenProperties, ElementOfSeq DEF Document
  <1>3. \A p \in DOMAIN d : SetDispensado(d, id)[p].id = d[p].id
    BY <1>2 DEF SetDispensado, Entry
  <1>4. PositionsOf(SetDispensado(d, id), id) = PositionsOf(d, id)
    BY <1>1, <1>3 DEF PositionsOf
  <1>5. QED
    BY <1>1, <1>3, <1>4

(* An update whose answer was lost can be made again: to a document that   *)
(* shows it already, firestore_fetch_update_dispensed changes nothing.     *)
THEOREM RepeatedUpdateChangesNothing ==
  \A d \in Document : \A id :
    SetDispensado(SetDispensado(d, id), id) = SetDispensado(d, id)
  <1> SUFFICES ASSUME NEW d \in Document, NEW id
               PROVE  SetDispensado(SetDispensado(d, id), id) = SetDispensado(d, id)
    OBVIOUS
  <1>e. PICK e : e = SetDispensado(d, id)
    OBVIOUS
  <1>1. \A p \in DOMAIN d : d[p] \in Entry
    BY LenProperties, ElementOfSeq DEF Document
  <1>2. DOMAIN e = DOMAIN d /\ PositionsOf(e, id) = PositionsOf(d, id)
    BY <1>e, SetDispensadoPlace
  <1>3. ASSUME NEW p \in DOMAIN d, p \in PositionsOf(d, id),
               \A q \in PositionsOf(d, id) : p <= q
        PROVE  [e[p] EXCEPT !.dispensado = TRUE] = e[p]
    <2>1. e[p] = [d[p] EXCEPT !.dispensado = TRUE]
      BY <1>e, <1>3 DEF SetDispensado
    <2>2. QED
      BY <1>1, <2>1 DEF Entry
  <1>4. e = [p \in DOMAIN d |-> e[p]]
    BY <1>e DEF SetDispensado
  <1>5. SetDispensado(e, id) = [p \in DOMAIN d |-> e[p]]
    BY <1>2, <1>3 DEF SetDispensado
  <1>6. QED
    BY <1>e, <1>4, <1>5

(* The mark that dispenser_motor_stop puts in its table and the field that *)
(* the update sets in Firestore say the same: a refresh that reads the     *)
(* updated document gives the table marked at the position of the entry,   *)
(* whatever the document, if that entry is the first of its id and the     *)
(* parser does not skip it.                                                *)
THEOREM UpdateMatchesMark ==
  \A d \in Document : \A p \in DOMAIN d :
    /\ Legible(d[p])
    /\ \A q \in PositionsOf(d, d[p].id) : p <= q
    => ParseTable(SetDispensado(d, d[p].id)) = MarkAt(ParseTable(d), p)
  <1> SUFFICES ASSUME NEW d \in Document, NEW p \in DOMAIN d, Legible(d[p]),
                      \A q \in PositionsOf(d, d[p].id) : p <= q
               PROVE  ParseTable(SetDispensado(d, d[p].id)) = MarkAt(ParseTable(d), p)
    OBVIOUS
  <1>e. PICK e : e = SetDispensado(d, d[p].id)
    OBVIOUS
  <1> DEFINE n == IF Len(d) > MAX_COMPARTMENTS THEN MAX_COMPARTMENTS ELSE Len(d)
  <1>1. /\ DOMAIN d = 1 .. Len(d) /\ Len(d) \in Nat
        /\ \A q \in DOMAIN d : d[q] \in Entry
    BY LenProperties, ElementOfSeq DEF Document
  <1>2. p \in PositionsOf(d, d[p].id)
    BY DEF PositionsOf
  <1>3. e[p] = [d[p] EXCEPT !.dispensado = TRUE]
    BY <1>e, <1>2 DEF SetDispensado
  <1>4. \A q \in DOMAIN d : q # p => e[q] = d[q]
    <2> SUFFICES ASSUME NEW q \in DOMAIN d, q # p, q \in PositionsOf(d, d[p].id),
                        \A r \in PositionsOf(d, d[p].id) : q <= r
                 PROVE  FALSE
      BY <1>e DEF SetDispensado
    <2>1. q <= p /\ p <= q
      BY <1>2
    <2>2. QED
      BY <1>1, <2>1
  <1>5. Len(e) = Len(d)
    <2>1. e \in Document /\ DOMAIN e = DOMAIN d
      BY <1>e, SetDispensadoType, SetDispensadoPlace
    <2>2. QED
      BY <1>1, <2>1, LenProperties DEF Document
  <1>6. SlotOf(e[p]) = [SlotOf(d[p]) EXCEPT !.dispensado = TRUE]
    <2>1. /\ e[p].completo = d[p].completo /\ e[p].id = d[p].id
          /\ e[p].fecha = d[p].fecha /\ e[p].manual = d[p].manual
          /\ e[p].dispensado = TRUE
      BY <1>1, <1>3 DEF Entry
    <2>2. Legible(e[p])
      BY <2>1 DEF Legible
    <2>3. PICK f : f = (IF d[p].fecha = FechaInvalida THEN 0 ELSE d[p].fecha)
      OBVIOUS
    <2>4. /\ SlotOf(e[p]) = [id |-> d[p].id, fecha |-> f, dispensado |-> TRUE,
                             manual |-> d[p].manual]
          /\ SlotOf(d[p]) = [id |-> d[p].id, fecha |-> f,
                             dispensado |-> d[p].dispensado, manual |-> d[p].manual]
      BY <2>1, <2>2, <2>3, Zenon DEF SlotOf
    <2>5. SlotOf(d[p]) \in Slot /\ SlotOf(e[p]) \in Slot
      <3>1. e[p] \in Entry
        BY <1>1, <1>3 DEF Entry
      <3>2. QED
        BY <1>1, <3>1, SlotOfType
    <2>6. /\ SlotOf(e[p]).id = SlotOf(d[p]).id /\ SlotOf(e[p]).fecha = SlotOf(d[p]).fecha
          /\ SlotOf(e[p]).manual = SlotOf(d[p]).manual /\ SlotOf(e[p]).dispensado = TRUE
      BY <2>4
    <2>7. QED
      BY <2>5, <2>6 DEF Slot
  <1>7. n \in Nat /\ 1 .. n \subseteq DOMAIN d
    BY <1>1, TableAssumption
  <1>8. ParseTable(e) = [q \in 1 .. n |-> SlotOf(e[q])]
    BY <1>5 DEF ParseTable
  <1>9. ParseTable(d) = [q \in 1 .. n |-> SlotOf(d[q])]
    BY DEF ParseTable
  <1> HIDE DEF n
  <1>10. CASE p \in 1 .. n
    <2>1. MarkAt(ParseTable(d), p) =
            [ParseTable(d) EXCEPT ![p] = [SlotOf(d[p]) EXCEPT !.dispensado = TRUE]]
      BY <1>9, <1>10 DEF MarkAt
    <2>2. \A q \in 1 .. n : q # p => SlotOf(e[q]) = SlotOf(d[q])
      BY <1>4, <1>7
    <2> DEFINE s == [SlotOf(d[p]) EXCEPT !.dispensado = TRUE]
    <2>3. /\ MarkAt(ParseTable(d), p) = [ParseTable(d) EXCEPT ![p] = s]
          /\ SlotOf(e[p]) = s
      BY <1>6, <2>1
    <2> HIDE DEF s
    <2>4. [ParseTable(d) EXCEPT ![p] = s] =
            [q \in 1 .. n |-> IF q = p THEN s ELSE SlotOf(d[q])]
      BY <1>9, <1>10
    <2>5. ParseTable(e) = [q \in 1 .. n |-> IF q = p THEN s ELSE SlotOf(d[q])]
      BY <1>8, <2>2, <2>3
    <2>6. QED
      BY <1>e, <2>3, <2>4, <2>5
  <1>11. CASE p \notin 1 .. n
    <2>1. MarkAt(ParseTable(d), p) = ParseTable(d)
      BY <1>9, <1>11 DEF MarkAt
    <2>2. \A q \in 1 .. n : SlotOf(e[q]) = SlotOf(d[q])
      BY <1>4, <1>7, <1>11
    <2>3. ParseTable(e) = ParseTable(d)
      BY <1>8, <1>9, <2>2
    <2>4. QED
      BY <1>e, <2>1, <2>3
  <1>12. QED
    BY <1>10, <1>11
=============================================================================
