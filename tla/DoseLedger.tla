------------------------------ MODULE DoseLedger ------------------------------
(***************************************************************************)
(* What the dispenser promises about doses, with no task, lock, request or *)
(* table in it: a dose is turned, and its turn is then settled (Firestore  *)
(* confirmed it) or lapses.  An id is turned again only after a lapse, or  *)
(* when the app armed it again; the schedule shows a settled dose as       *)
(* dispensed until the app arms it.                                        *)
(***************************************************************************)
EXTENDS Integers

CONSTANTS Id, NoId, MaxDoses   \* MaxDoses caps the count of turns

VARIABLES
  turning,    \* the id whose turn is neither settled nor lapsed, or NoId
  doses,      \* turns of each id since it was armed or its last turn settled
  unsettled,  \* ids whose last turn lapsed
  recorded    \* ids the schedule in Firestore shows as dispensed, if at all

ledger == <<turning, doses, unsettled, recorded>>

LedgerInit ==
  /\ turning = NoId
  /\ doses = [id \in Id |-> 0]
  /\ unsettled = {}
  /\ recorded \in SUBSET Id

Settled(id) == doses[id] > 0 /\ id \notin unsettled /\ id # turning

Turn(id) ==
  /\ turning = NoId
  /\ doses[id] = 0 \/ id \in unsettled
  /\ turning' = id
  /\ doses' = [doses EXCEPT ![id] = IF @ < MaxDoses THEN @ + 1 ELSE @]
  /\ UNCHANGED <<unsettled, recorded>>

(* Only what the schedule shows is settled (unless the app has armed the   *)
(* id during its turn).                                                    *)
Settle ==
  /\ turning # NoId
  /\ turning \in recorded \/ doses[turning] = 0
  /\ doses' = [doses EXCEPT ![turning] = IF @ > 1 THEN 1 ELSE @]
  /\ unsettled' = unsettled \ {turning}
  /\ turning' = NoId
  /\ UNCHANGED recorded

Lapse ==
  /\ turning # NoId
  /\ unsettled' = unsettled \cup {turning}
  /\ turning' = NoId
  /\ UNCHANGED <<doses, recorded>>

(* The app asks for a new dose.                                            *)
Arm(id) ==
  /\ doses' = [doses EXCEPT ![id] = 0]
  /\ unsettled' = unsettled \ {id}
  /\ recorded' = recorded \ {id}
  /\ UNCHANGED turning

(* Anything else may happen to the schedule, but settled doses stay shown. *)
Publish ==
  /\ recorded' \in SUBSET Id
  /\ \A id \in Id : Settled(id) => id \in recorded'
  /\ UNCHANGED <<turning, doses, unsettled>>

LedgerNext ==
  \/ \E id \in Id : Turn(id) \/ Arm(id)
  \/ Settle \/ Lapse \/ Publish

LedgerSpec == LedgerInit /\ [][LedgerNext]_ledger

(* The ledger is never overdrawn: an id that was turned more than once has *)
(* a turn that lapsed, and a settled one is in Firestore.                  *)
Balanced ==
  \A id \in Id :
    /\ doses[id] > 1 => id \in unsettled
    /\ Settled(id) => id \in recorded
=============================================================================
