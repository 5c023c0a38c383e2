---------------------------- MODULE DoseLedgerProofs ----------------------------
(* The ledger of DoseLedger is balanced whatever the turns, lapses and     *)
(* edits, for every set of ids and every cap of the counts.                *)
EXTENDS DoseLedger, TLAPS

LedgerInv ==
  /\ doses \in [Id -> Nat]
  /\ recorded \in SUBSET Id
  /\ turning \in Id \cup {NoId}
  /\ Balanced

LEMMA LedgerInvInit == LedgerInit => LedgerInv
  BY DEF LedgerInit, LedgerInv, Balanced, Settled

LEMMA LedgerInvNext ==
  ASSUME MaxDoses \in Nat, NoId \notin Id
  PROVE  LedgerInv /\ [LedgerNext]_ledger => LedgerInv'
  <1> SUFFICES ASSUME LedgerInv, [LedgerNext]_ledger PROVE LedgerInv'
    OBVIOUS
  <1> USE DEF LedgerInv, Balanced, Settled
  <1>1. ASSUME NEW id \in Id, Turn(id) PROVE LedgerInv'
    BY <1>1 DEF Turn
  <1>2. ASSUME NEW id \in Id, Arm(id) PROVE LedgerInv'
    BY <1>2 DEF Arm
  <1>3. CASE Settle
    BY <1>3 DEF Settle
  <1>4. CASE Lapse
    BY <1>4 DEF Lapse
  <1>5. CASE Publish
    BY <1>5 DEF Publish
  <1>6. CASE UNCHANGED ledger
    BY <1>6 DEF ledger
  <1>7. QED
    BY <1>1, <1>2, <1>3, <1>4, <1>5, <1>6 DEF LedgerNext

(* An id turned more than once has a turn that lapsed, and every settled   *)
(* dose is in Firestore.                                                   *)
THEOREM LedgerBalances ==
  ASSUME MaxDoses \in Nat, NoId \notin Id
  PROVE  LedgerSpec => []Balanced
  <1>1. LedgerInv => Balanced
    BY DEF LedgerInv
  <1>2. LedgerInv /\ [LedgerNext]_ledger => LedgerInv'
    BY LedgerInvNext
  <1>3. QED
    BY <1>1, <1>2, LedgerInvInit, PTL DEF LedgerSpec
=============================================================================
