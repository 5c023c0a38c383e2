--------------------------- MODULE CompartmentTable ---------------------------
(***************************************************************************)
(* The dispenser's schedule: entries of the Firestore document, the slots  *)
(* the firmware parses them into, and the pure functions on tables of      *)
(* slots that the two tasks of the dispenser use.                          *)
(*                                                                         *)
(* Positions are 1-based: position p is the C index p - 1, and 0 stands    *)
(* for compartimientoActual = -1.                                          *)
(***************************************************************************)
EXTENDS Integers, Sequences

CONSTANTS
  MAX_COMPARTMENTS,  \* DISPENSER_MAX_COMPARTMENTS
  MaxId,             \* bound on the ids the app writes
  MaxClock           \* bound on the clock and on programmed dates

ASSUME TableAssumption ==
  /\ MAX_COMPARTMENTS \in Nat \ {0}
  /\ MaxId \in Nat \ {0}
  /\ MaxClock \in Nat \ {0}

Id == 0 .. MaxId
Time == 0 .. MaxClock
FechaInvalida == -1     \* a timestampValue that is not ISO 8601
SinId == -1             \* no integerValue that can be read

(* DispenserCompartment *)
Slot == [id: Id, fecha: Time, dispensado: BOOLEAN, manual: BOOLEAN]

(* One element of "programaciones".  completo is FALSE when the entry      *)
(* lacks, or mistypes, its date or its field "manual".  (An entry that     *)
(* lacks only "dispensado" gets that field with its first update.)         *)
Entry == [completo: BOOLEAN, id: Id \cup {SinId}, fecha: Time \cup {FechaInvalida},
          dispensado: BOOLEAN, manual: BOOLEAN]

Document == Seq(Entry)
Table == Seq(Slot)

(* What memset leaves in a slot that the parser skips.                     *)
ZeroSlot == [id |-> 0, fecha |-> 0, dispensado |-> FALSE, manual |-> FALSE]

Legible(e) == e.completo /\ e.id # SinId

SlotOf(e) ==
  IF Legible(e)
    THEN [id |-> e.id,
          fecha |-> IF e.fecha = FechaInvalida THEN 0 ELSE e.fecha,
          dispensado |-> e.dispensado,
          manual |-> e.manual]
    ELSE ZeroSlot

(* Mutant of ParseTable: the count is always the size of the array.        *)
ParseWholeArray(d) ==
  [p \in 1 .. MAX_COMPARTMENTS |-> IF p \in DOMAIN d THEN SlotOf(d[p]) ELSE ZeroSlot]

(* dispenser_parse_compartments_json: the count is the number of elements, *)
(* so a skipped element still owns a (zeroed) slot.                        *)
ParseTable(d) ==
  [p \in 1 .. (IF Len(d) > MAX_COMPARTMENTS THEN MAX_COMPARTMENTS ELSE Len(d))
     |-> SlotOf(d[p])]

(* The decision of check_scheduled_compartments for one slot.              *)
Due(s, now) == ~s.dispensado /\ (s.manual \/ now >= s.fecha)

DuePositions(t, now) == {p \in DOMAIN t : Due(t[p], now)}

(* Mutant of IsFirstDue: only the first slot is looked at.                 *)
IsFirstSlotDue(t, now, p) == p = 1 /\ p \in DuePositions(t, now)

IsFirstDue(t, now, p) ==
  p \in DuePositions(t, now) /\ \A q \in DuePositions(t, now) : p <= q

(* Mutant of MarkAt: p taken for a 0-based index.                          *)
MarkPrevious(t, p) ==
  IF p - 1 \in DOMAIN t THEN [t EXCEPT ![p - 1].dispensado = TRUE] ELSE t

(* table.compartments[p - 1].dispensado = true; a position that the array  *)
(* has but the count does not reach is never read before the next copy.    *)
MarkAt(t, p) ==
  IF p \in DOMAIN t THEN [t EXCEPT ![p].dispensado = TRUE] ELSE t

InArray(p) == p \in 1 .. MAX_COMPARTMENTS

(* firestore_fetch_update_dispensed: the first element with this id gets   *)
(* its field "dispensado" set in the document that was read.               *)
PositionsOf(d, id) == {p \in DOMAIN d : d[p].id = id}

(* Mutant of SetDispensado: the id taken for a position.                   *)
SetDispensadoAt(d, id) ==
  IF id \in DOMAIN d THEN [d EXCEPT ![id].dispensado = TRUE] ELSE d

SetDispensado(d, id) ==
  [p \in DOMAIN d |->
     IF /\ p \in PositionsOf(d, id)
        /\ \A q \in PositionsOf(d, id) : p <= q
       THEN [d[p] EXCEPT !.dispensado = TRUE]
       ELSE d[p]]
=============================================================================
