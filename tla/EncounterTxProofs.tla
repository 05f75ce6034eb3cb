--------------------------- MODULE EncounterTxProofs ---------------------------
(***************************************************************************)
(* Proofs about EncounterTx, for every set of encounters, characters and   *)
(* connections: the row locks are enough for the links to match, and the   *)
(* order in which they are taken never lets transactions wait in a circle. *)
(*                                                                         *)
(* The inductive invariant LInv says, of each connection, which rows it    *)
(* holds at each stage (HoldsNothing, FightHeld, InOrder) and that what it *)
(* has checked is still so (ApplyChecked, DeleteChecked): the rows it      *)
(* holds are those that the others would need to change it.                *)
(***************************************************************************)
EXTENDS EncounterTx, WellFoundedInduction, TLAPS

Ops == {"idle", "apply", "delete", "join", "command", "deleteSheet", "edit"}
Stages == {"idle", "fight", "sheets", "writing"}
Transaction == [op : Ops, stage : Stages, fight : Encounter \cup {Nothing},
                adds : SUBSET Character, removes : SUBSET Character,
                wants : SUBSET Character]

LockTypeOK ==
    /\ fights \subseteq Encounter /\ sheets \subseteq Character
    /\ fighters \in [Encounter -> SUBSET Character]
    /\ linkOf \in [Character -> Encounter \cup {Nothing}]
    /\ work \in [Slot -> Transaction]
    /\ holder \in [Row -> Slot \cup {Nothing}]

\* A connection that has not begun to lock holds no row.
HoldsNothing(t) ==
    work[t].stage \in {"idle", "fight"} => \A r \in Row : holder[r] # t

\* Past its first lock, an operation on an encounter has its row.
FightHeld(t) ==
    /\ work[t].stage \in {"sheets", "writing"}
    /\ work[t].op \in {"apply", "delete", "join"}
    => /\ work[t].fight \in fights
       /\ holder[FightRow(work[t].fight)] = t
       /\ work[t].op = "apply" => work[t].adds \subseteq work[t].wants

\* The characters it has are less than those it still has to lock.
InOrder(t) ==
    work[t].stage = "sheets" =>
        \A c \in Character : holder[SheetRow(c)] = t => \A d \in Remaining(t) : c < d

\* What Apply has checked is so until it commits.
ApplyChecked(t) ==
    work[t].stage = "writing" /\ work[t].op = "apply" =>
        /\ work[t].removes \subseteq fighters[work[t].fight]
        /\ work[t].adds \cap fighters[work[t].fight] = {}
        /\ \A c \in work[t].adds :
              c \in sheets /\ linkOf[c] = Nothing /\ holder[SheetRow(c)] = t

\* What the deletion of a sheet has checked is so until it commits.
DeleteChecked(t) ==
    work[t].stage = "writing" /\ work[t].op = "deleteSheet" =>
        \A c \in work[t].wants : linkOf[c] = Nothing /\ holder[SheetRow(c)] = t

SlotOK(t) ==
    HoldsNothing(t) /\ FightHeld(t) /\ InOrder(t) /\ ApplyChecked(t) /\ DeleteChecked(t)

LInv == LockTypeOK /\ LinksMatchUnderLocks /\ \A t \in Slot : SlotOK(t)

-----------------------------------------------------------------------------
(* Rows and their order. *)

LEMMA LeastIsLeast ==
    ASSUME NEW cs \in SUBSET Nat, cs # {}
    PROVE  Least(cs) \in cs /\ \A d \in cs : Least(cs) <= d
<1>1. \E c \in cs : \A d \in cs : ~ (<<d, c>> \in OpToRel(<, Nat))
  BY NatLessThanWellFounded, WFMin
<1>2. PICK c \in cs : \A d \in cs : ~ (<<d, c>> \in OpToRel(<, Nat))
  BY <1>1
<1>3. \A d \in cs : c <= d
  <2>1. SUFFICES ASSUME NEW d \in cs, d < c PROVE FALSE
    OBVIOUS
  <2>2. <<d, c>> \in OpToRel(<, Nat)
    BY <2>1 DEF OpToRel
  <2>3. QED
    BY <2>2, <1>2
<1>4. QED
  BY <1>3 DEF Least

LEMMA NextSheetIsLeast ==
    ASSUME LockTypeOK, NEW t \in Slot, Remaining(t) # {}
    PROVE  /\ NextSheet(t) \in Remaining(t)
           /\ \A d \in Remaining(t) : NextSheet(t) <= d
<1>1. Remaining(t) \in SUBSET Nat
  BY LockAssumption DEF LockTypeOK, Transaction, Remaining
<1>2. QED
  BY <1>1, LeastIsLeast DEF NextSheet

LEMMA RowsAreRows ==
    /\ \A e \in Encounter : FightRow(e) \in Row
    /\ \A c \in Character : SheetRow(c) \in Row
    /\ \A e \in Encounter, c \in Character : FightRow(e) # SheetRow(c)
    /\ \A e \in Encounter, f \in Encounter : FightRow(e) = FightRow(f) => e = f
    /\ \A c \in Character, d \in Character : SheetRow(c) = SheetRow(d) => c = d
BY DEF FightRow, SheetRow, Row

\* A step that only takes rows nobody had, or gives up those of another
\* connection, and leaves encounters, sheets and links alone, does not
\* disturb a connection.
LEMMA UndisturbedByLocks ==
    ASSUME LInv, NEW t \in Slot, NEW u \in Slot, u # t,
           UNCHANGED <<fights, sheets, fighters, linkOf>>,
           work'[u] = work[u],
           \A r \in Row : (holder'[r] = u) <=> (holder[r] = u)
    PROVE  SlotOK(u)'
<1>1. SlotOK(u) /\ LockTypeOK /\ work[u] \in Transaction
  BY DEF LInv, LockTypeOK
<1>2. HoldsNothing(u)'
  BY <1>1 DEF SlotOK, HoldsNothing
<1>3. FightHeld(u)'
  BY <1>1, RowsAreRows DEF SlotOK, FightHeld, LockTypeOK
<1>4. InOrder(u)'
  <2>1. \A c \in Character : (holder'[SheetRow(c)] = u) <=> (holder[SheetRow(c)] = u)
    BY RowsAreRows
  <2>2. Remaining(u)' = Remaining(u)
    BY <2>1, <1>1 DEF Remaining, LockTypeOK
  <2>3. QED
    BY <1>1, <2>1, <2>2 DEF SlotOK, InOrder
<1>5. ApplyChecked(u)'
  BY <1>1, RowsAreRows DEF SlotOK, ApplyChecked, Transaction
<1>6. DeleteChecked(u)'
  BY <1>1, RowsAreRows DEF SlotOK, DeleteChecked, Transaction
<1>7. QED
  BY <1>2, <1>3, <1>4, <1>5, <1>6 DEF SlotOK
-----------------------------------------------------------------------------
(* The invariant: the steps that only move locks. *)

LEMMA BeginStep ==
    ASSUME LInv, NEW t \in Slot, work[t] = Idle, NEW w \in Transaction,
           \/ w.stage = "fight"
           \/ w.stage = "sheets" /\ w.op \in {"command", "deleteSheet", "edit"},
           work' = [work EXCEPT ![t] = w],
           UNCHANGED <<fights, sheets, fighters, linkOf, holder>>
    PROVE  LInv'
<1>1. LockTypeOK /\ work'[t] = w /\ \A r \in Row : holder[r] # t
  BY DEF LInv, LockTypeOK, SlotOK, HoldsNothing, Idle
<1>2. LockTypeOK'
  BY <1>1 DEF LockTypeOK
<1>3. LinksMatchUnderLocks'
  BY DEF LInv, LinksMatchUnderLocks
<1>4. SlotOK(t)'
  BY <1>1, RowsAreRows DEF SlotOK, HoldsNothing, FightHeld, InOrder, ApplyChecked, DeleteChecked
<1>5. ASSUME NEW u \in Slot, u # t PROVE SlotOK(u)'
  BY <1>1, <1>5, UndisturbedByLocks DEF LockTypeOK
<1>6. QED
  BY <1>2, <1>3, <1>4, <1>5 DEF LInv

LEMMA LockFightStep ==
    ASSUME LInv, NEW t \in Slot, LockFight(t)
    PROVE  LInv'
<1> DEFINE e == work[t].fight
<1>1. /\ LockTypeOK /\ work[t] \in Transaction /\ t # Nothing
      /\ e \in Encounter /\ e \in fights /\ FightRow(e) \in Row
      /\ work[t].stage = "fight"
      /\ \A r \in Row : holder[r] # t
  BY LockAssumption, RowsAreRows DEF LInv, LockTypeOK, SlotOK, HoldsNothing, LockFight
<1>2. SheetsToLock(t) \in SUBSET Character
  BY <1>1 DEF SheetsToLock, LockTypeOK, Transaction
<1>3. /\ work'[t] = [work[t] EXCEPT !.stage = "sheets", !.wants = SheetsToLock(t)]
      /\ holder'[FightRow(e)] = t
      /\ \A r \in Row : r # FightRow(e) => holder'[r] = holder[r]
      /\ \A u \in Slot : u # t => work'[u] = work[u]
  BY <1>1 DEF LockFight, LockTypeOK
<1>4. /\ work'[t] \in Transaction /\ work'[t].stage = "sheets"
      /\ work'[t].op = work[t].op /\ work'[t].fight = e
      /\ work'[t].adds = work[t].adds /\ work'[t].wants = SheetsToLock(t)
  BY <1>1, <1>2, <1>3 DEF Transaction, Stages
<1>5. LockTypeOK'
  BY <1>1, <1>4 DEF LockFight, LockTypeOK
<1>6. LinksMatchUnderLocks'
  BY DEF LInv, LinksMatchUnderLocks, LockFight
<1>7. SlotOK(t)'
  <2>1. \A c \in Character : holder'[SheetRow(c)] # t
    BY <1>1, <1>3, RowsAreRows
  <2>2. HoldsNothing(t)' /\ InOrder(t)' /\ ApplyChecked(t)' /\ DeleteChecked(t)'
    BY <1>4, <2>1 DEF HoldsNothing, InOrder, ApplyChecked, DeleteChecked
  <2>3. FightHeld(t)'
    <3>1. work[t].op = "apply" => work[t].adds \subseteq SheetsToLock(t)
      BY DEF SheetsToLock
    <3>2. fights' = fights /\ holder'[FightRow(e)] = t
      BY <1>3 DEF LockFight
    <3>3. QED
      BY <1>1, <1>4, <3>1, <3>2 DEF FightHeld
  <2>4. QED
    BY <2>2, <2>3 DEF SlotOK
<1>8. ASSUME NEW u \in Slot, u # t PROVE SlotOK(u)'
  <2>1. \A r \in Row : (holder'[r] = u) <=> (holder[r] = u)
    BY <1>1, <1>3, <1>8, LockAssumption DEF LockFight
  <2>2. QED
    BY <1>3, <1>8, <2>1, UndisturbedByLocks DEF LockFight
<1>9. QED
  BY <1>5, <1>6, <1>7, <1>8 DEF LInv

LEMMA LockSheetStep ==
    ASSUME LInv, NEW t \in Slot, LockSheet(t)
    PROVE  LInv'
<1> DEFINE n == NextSheet(t)
<1>1. /\ LockTypeOK /\ work[t] \in Transaction /\ t # Nothing
      /\ work[t].stage = "sheets" /\ SlotOK(t)
  BY LockAssumption DEF LInv, LockTypeOK, LockSheet
<1>2. n \in Remaining(t) /\ \A d \in Remaining(t) : n <= d
  BY <1>1, NextSheetIsLeast DEF LockSheet
<1>3. n \in Character /\ SheetRow(n) \in Row
  BY <1>1, <1>2, RowsAreRows DEF Remaining, LockTypeOK
<1>4. /\ holder'[SheetRow(n)] = t
      /\ \A r \in Row : r # SheetRow(n) => holder'[r] = holder[r]
  BY <1>1, <1>3 DEF LockSheet, LockTypeOK
<1>5. LockTypeOK'
  BY <1>1, <1>3 DEF LockSheet, LockTypeOK
<1>6. LinksMatchUnderLocks'
  BY DEF LInv, LinksMatchUnderLocks, LockSheet
<1>7. SlotOK(t)'
  <2>1. HoldsNothing(t)' /\ ApplyChecked(t)' /\ DeleteChecked(t)'
    BY <1>1 DEF HoldsNothing, ApplyChecked, DeleteChecked, LockSheet
  <2>2. FightHeld(t)'
    BY <1>1, <1>3, <1>4, RowsAreRows DEF SlotOK, FightHeld, LockSheet, LockTypeOK
  <2>3. InOrder(t)'
    <3>1. SUFFICES ASSUME NEW c \in Character, holder'[SheetRow(c)] = t,
                          NEW d \in Remaining(t)'
                   PROVE  c < d
      BY DEF InOrder
    <3>2. d \in Remaining(t) /\ d # n
      BY <1>1, <1>3, <1>4, RowsAreRows DEF Remaining, LockSheet, LockTypeOK
    <3>3. c \in Nat /\ d \in Nat /\ n \in Nat
      BY <1>1, <1>3, <3>2, LockAssumption DEF Remaining, LockTypeOK
    <3>4. CASE c = n
      BY <1>2, <3>2, <3>3, <3>4
    <3>5. CASE c # n
      <4>1. holder[SheetRow(c)] = t
        BY <1>3, <1>4, <3>1, <3>5, RowsAreRows
      <4>2. QED
        BY <1>1, <3>2, <4>1 DEF SlotOK, InOrder
    <3>6. QED
      BY <3>4, <3>5
  <2>4. QED
    BY <2>1, <2>2, <2>3 DEF SlotOK
<1>8. ASSUME NEW u \in Slot, u # t PROVE SlotOK(u)'
  <2>1. \A r \in Row : (holder'[r] = u) <=> (holder[r] = u)
    BY <1>1, <1>3, <1>4, <1>8, LockAssumption DEF LockSheet
  <2>2. QED
    BY <1>8, <2>1, UndisturbedByLocks DEF LockSheet
<1>9. QED
  BY <1>5, <1>6, <1>7, <1>8 DEF LInv

LEMMA CheckStep ==
    ASSUME LInv, NEW t \in Slot, Check(t)
    PROVE  LInv'
<1>1. /\ LockTypeOK /\ work[t] \in Transaction /\ SlotOK(t)
      /\ work[t].stage = "sheets" /\ Remaining(t) = {} /\ MayWrite(t)
  BY DEF LInv, LockTypeOK, Check
<1>2. work'[t] = [work[t] EXCEPT !.stage = "writing"]
      /\ \A u \in Slot : u # t => work'[u] = work[u]
  BY <1>1 DEF Check, LockTypeOK
<1>3. /\ work'[t] \in Transaction /\ work'[t].stage = "writing"
      /\ work'[t].op = work[t].op /\ work'[t].fight = work[t].fight
      /\ work'[t].adds = work[t].adds /\ work'[t].wants = work[t].wants
      /\ work'[t].removes = work[t].removes
  BY <1>1, <1>2 DEF Transaction, Stages
<1>4. LockTypeOK'
  BY <1>1, <1>3 DEF Check, LockTypeOK
<1>5. LinksMatchUnderLocks'
  BY DEF LInv, LinksMatchUnderLocks, Check
<1>6. \A c \in work[t].wants \cap sheets : holder[SheetRow(c)] = t
  BY <1>1 DEF Remaining
<1>7. SlotOK(t)'
  <2>1. HoldsNothing(t)' /\ InOrder(t)'
    BY <1>3 DEF HoldsNothing, InOrder
  <2>2. FightHeld(t)'
    BY <1>1, <1>3 DEF SlotOK, FightHeld, Check
  <2>3. ApplyChecked(t)'
    <3>1. SUFFICES ASSUME work[t].op = "apply"
                   PROVE  /\ work[t].removes \subseteq fighters[work[t].fight]
                          /\ work[t].adds \cap fighters[work[t].fight] = {}
                          /\ \A c \in work[t].adds : /\ c \in sheets /\ linkOf[c] = Nothing
                                                     /\ holder[SheetRow(c)] = t
      BY <1>3 DEF ApplyChecked, Check
    <3>2. /\ work[t].wants \cup work[t].adds \subseteq sheets
          /\ work[t].adds \cap fighters[work[t].fight] = {}
          /\ work[t].removes \subseteq fighters[work[t].fight]
          /\ \A c \in work[t].adds : ~InOtherFight(c, work[t].fight)
      BY <1>1, <3>1 DEF MayWrite
    <3>3. work[t].adds \subseteq work[t].wants /\ work[t].fight \in fights
      BY <1>1, <3>1 DEF SlotOK, FightHeld
    <3>4. ASSUME NEW c \in work[t].adds PROVE linkOf[c] = Nothing
      <4>1. c \in Character /\ c \notin fighters[work[t].fight]
        BY <1>1, <3>2 DEF Transaction
      <4>2. linkOf[c] # work[t].fight
        BY <3>3, <4>1 DEF LInv, LinksMatchUnderLocks
      <4>3. linkOf[c] # Nothing => linkOf[c] \in fights /\ c \in fighters[linkOf[c]]
        BY <4>1 DEF LInv, LinksMatchUnderLocks
      <4>4. QED
        BY <3>2, <4>2, <4>3 DEF InOtherFight
    <3>5. QED
      BY <1>6, <3>2, <3>3, <3>4
  <2>4. DeleteChecked(t)'
    <3>1. SUFFICES ASSUME work[t].op = "deleteSheet"
                   PROVE  \A c \in work[t].wants : /\ linkOf[c] = Nothing
                                                  /\ holder[SheetRow(c)] = t
      BY <1>3 DEF DeleteChecked, Check
    <3>2. work[t].wants \subseteq sheets /\ \A c \in work[t].wants : linkOf[c] = Nothing
      BY <1>1, <3>1 DEF MayWrite
    <3>3. QED
      BY <1>6, <3>2
  <2>5. QED
    BY <2>1, <2>2, <2>3, <2>4 DEF SlotOK
<1>8. ASSUME NEW u \in Slot, u # t PROVE SlotOK(u)'
  BY <1>2, <1>8, UndisturbedByLocks DEF Check
<1>9. QED
  BY <1>4, <1>5, <1>7, <1>8 DEF LInv
-----------------------------------------------------------------------------
(* The invariant: the steps that end a transaction. *)

\* What the end of a transaction does to the connections and rows.
LEMMA FinishFacts ==
    ASSUME LInv, NEW t \in Slot, Finish(t)
    PROVE  /\ work' \in [Slot -> Transaction] /\ holder' \in [Row -> Slot \cup {Nothing}]
           /\ work'[t] = Idle /\ \A r \in Row : holder'[r] # t
           /\ \A u \in Slot : u # t => /\ work'[u] = work[u]
                                      /\ \A r \in Row : (holder'[r] = u) <=> (holder[r] = u)
<1>1. LockTypeOK /\ t # Nothing /\ Idle \in Transaction
  BY LockAssumption DEF LInv, LockTypeOK, Idle, Transaction, Ops, Stages
<1>2. work' \in [Slot -> Transaction] /\ work'[t] = Idle
      /\ \A u \in Slot : u # t => work'[u] = work[u]
  BY <1>1 DEF Finish, LockTypeOK
<1>3. holder' \in [Row -> Slot \cup {Nothing}]
      /\ \A r \in Row : holder'[r] = IF holder[r] = t THEN Nothing ELSE holder[r]
  BY <1>1 DEF Finish, Released, LockTypeOK
<1>4. \A u \in Slot : u # Nothing
  BY LockAssumption
<1>5. QED
  BY <1>1, <1>2, <1>3, <1>4

LEMMA FinishedSlot ==
    ASSUME LInv, NEW t \in Slot, Finish(t)
    PROVE  SlotOK(t)'
<1>1. work'[t].stage = "idle" /\ \A r \in Row : holder'[r] # t
  BY FinishFacts DEF Idle
<1>2. QED
  BY <1>1 DEF SlotOK, HoldsNothing, FightHeld, InOrder, ApplyChecked, DeleteChecked

LEMMA QuietFinishStep ==
    ASSUME LInv, NEW t \in Slot, Finish(t), UNCHANGED <<fights, sheets, fighters, linkOf>>
    PROVE  LInv'
<1>1. LockTypeOK'
  BY FinishFacts DEF LInv, LockTypeOK
<1>2. LinksMatchUnderLocks'
  BY DEF LInv, LinksMatchUnderLocks
<1>3. ASSUME NEW u \in Slot, u # t PROVE SlotOK(u)'
  BY <1>3, FinishFacts, UndisturbedByLocks
<1>4. QED
  BY <1>1, <1>2, <1>3, FinishedSlot DEF LInv

LEMMA CommitApplyStep ==
    ASSUME LInv, NEW t \in Slot, CommitApply(t)
    PROVE  LInv'
<1> DEFINE e == work[t].fight
           adds == work[t].adds
           removes == work[t].removes
<1>1. /\ LockTypeOK /\ work[t] \in Transaction /\ Finish(t)
      /\ fights' = fights /\ sheets' = sheets
      /\ e \in fights /\ e \in Encounter /\ holder[FightRow(e)] = t
      /\ adds \in SUBSET Character /\ removes \in SUBSET Character
  BY DEF LInv, LockTypeOK, CommitApply, SlotOK, FightHeld, Transaction
<1>2. /\ removes \subseteq fighters[e] /\ adds \cap fighters[e] = {}
      /\ \A c \in adds : c \in sheets /\ linkOf[c] = Nothing /\ holder[SheetRow(c)] = t
  BY DEF LInv, CommitApply, SlotOK, ApplyChecked
<1>3. /\ fighters' \in [Encounter -> SUBSET Character]
      /\ fighters'[e] = (fighters[e] \ removes) \cup adds
      /\ \A f \in Encounter : f # e => fighters'[f] = fighters[f]
  BY <1>1 DEF CommitApply, LockTypeOK
<1>4. linkOf' = [c \in Character |-> IF c \in adds THEN e
                                    ELSE IF c \in removes /\ linkOf[c] = e THEN Nothing
                                    ELSE linkOf[c]]
  BY DEF CommitApply
<1>5. LockTypeOK'
  <2>1. linkOf' \in [Character -> Encounter \cup {Nothing}]
    BY <1>1, <1>4 DEF LockTypeOK
  <2>2. QED
    BY <1>1, <1>3, <2>1, FinishFacts DEF LockTypeOK
<1>6. LinksMatchUnderLocks'
  <2>1. SUFFICES ASSUME NEW c \in Character
                 PROVE  /\ \A f \in fights : c \in fighters'[f] <=> linkOf'[c] = f
                        /\ linkOf'[c] # Nothing => linkOf'[c] \in fights /\ c \in sheets
    BY <1>1 DEF LinksMatchUnderLocks
  <2>2. /\ \A f \in fights : c \in fighters[f] <=> linkOf[c] = f
        /\ linkOf[c] # Nothing => linkOf[c] \in fights /\ c \in sheets
        /\ Nothing \notin fights /\ fights \subseteq Encounter
    BY <1>1, LockAssumption DEF LInv, LinksMatchUnderLocks, LockTypeOK
  <2>3. CASE c \in adds
    <3>1. linkOf'[c] = e /\ c \in sheets /\ linkOf[c] = Nothing
      BY <1>2, <1>4, <2>3
    <3>2. QED
      BY <1>1, <1>3, <2>2, <2>3, <3>1
  <2>4. CASE c \notin adds /\ c \in removes
    <3>1. linkOf[c] = e
      BY <1>1, <1>2, <2>2, <2>4
    <3>2. linkOf'[c] = Nothing
      BY <1>4, <2>4, <3>1
    <3>3. QED
      BY <1>1, <1>3, <2>2, <2>4, <3>1, <3>2
  <2>5. CASE c \notin adds /\ c \notin removes
    <3>1. linkOf'[c] = linkOf[c]
      BY <1>4, <2>5
    <3>2. QED
      BY <1>3, <2>2, <2>5, <3>1
  <2>6. QED
    BY <2>3, <2>4, <2>5
<1>7. ASSUME NEW u \in Slot, u # t PROVE SlotOK(u)'
  <2>1. /\ SlotOK(u) /\ work[u] \in Transaction /\ work'[u] = work[u]
        /\ \A r \in Row : (holder'[r] = u) <=> (holder[r] = u)
    BY <1>1, <1>7, FinishFacts DEF LInv, LockTypeOK
  <2>2. HoldsNothing(u)'
    BY <2>1 DEF SlotOK, HoldsNothing
  <2>3. FightHeld(u)'
    BY <1>1, <2>1, RowsAreRows DEF SlotOK, FightHeld, LockTypeOK
  <2>4. InOrder(u)'
    <3>1. Remaining(u)' = Remaining(u)
      BY <1>1, <2>1, RowsAreRows DEF Remaining, LockTypeOK
    <3>2. QED
      BY <2>1, <3>1, RowsAreRows DEF SlotOK, InOrder
  <2>5. ApplyChecked(u)'
    <3>1. SUFFICES ASSUME work[u].stage = "writing", work[u].op = "apply"
                   PROVE  /\ work[u].removes \subseteq fighters'[work[u].fight]
                          /\ work[u].adds \cap fighters'[work[u].fight] = {}
                          /\ \A c \in work[u].adds : /\ c \in sheets' /\ linkOf'[c] = Nothing
                                                     /\ holder'[SheetRow(c)] = u
      BY <2>1 DEF ApplyChecked
    <3>2. work[u].fight \in Encounter /\ holder[FightRow(work[u].fight)] = u
      BY <1>1, <2>1, <3>1 DEF SlotOK, FightHeld, LockTypeOK
    <3>3. work[u].fight # e
      BY <1>1, <1>7, <3>2
    <3>4. /\ work[u].removes \subseteq fighters[work[u].fight]
          /\ work[u].adds \cap fighters[work[u].fight] = {}
          /\ \A c \in work[u].adds : /\ c \in sheets /\ linkOf[c] = Nothing
                                     /\ holder[SheetRow(c)] = u
      BY <2>1, <3>1 DEF SlotOK, ApplyChecked
    <3>5. ASSUME NEW c \in work[u].adds PROVE linkOf'[c] = Nothing /\ holder'[SheetRow(c)] = u
      <4>1. c \in Character /\ c \notin adds
        BY <1>2, <1>7, <2>1, <3>4 DEF Transaction
      <4>2. QED
        BY <1>4, <2>1, <3>4, <4>1, RowsAreRows
    <3>6. QED
      BY <1>1, <1>3, <3>2, <3>3, <3>4, <3>5
  <2>6. DeleteChecked(u)'
    <3>1. SUFFICES ASSUME work[u].stage = "writing", work[u].op = "deleteSheet",
                          NEW c \in work[u].wants
                   PROVE  linkOf'[c] = Nothing /\ holder'[SheetRow(c)] = u
      BY <2>1 DEF DeleteChecked
    <3>2. linkOf[c] = Nothing /\ holder[SheetRow(c)] = u /\ c \in Character
      BY <2>1, <3>1 DEF SlotOK, DeleteChecked, Transaction
    <3>3. c \notin adds
      BY <1>2, <1>7, <3>2
    <3>4. QED
      BY <1>4, <2>1, <3>2, <3>3, RowsAreRows
  <2>7. QED
    BY <2>2, <2>3, <2>4, <2>5, <2>6 DEF SlotOK
<1>8. QED
  BY <1>1, <1>5, <1>6, <1>7, FinishedSlot DEF LInv

LEMMA CommitDeleteStep ==
    ASSUME LInv, NEW t \in Slot, CommitDelete(t)
    PROVE  LInv'
<1> DEFINE e == work[t].fight
<1>1. /\ LockTypeOK /\ work[t] \in Transaction /\ Finish(t)
      /\ fights' = fights \ {e} /\ sheets' = sheets
      /\ e \in fights /\ e \in Encounter /\ holder[FightRow(e)] = t
  BY DEF LInv, LockTypeOK, CommitDelete, SlotOK, FightHeld
<1>2. /\ fighters' \in [Encounter -> SUBSET Character]
      /\ \A f \in Encounter : f # e => fighters'[f] = fighters[f]
  BY <1>1 DEF CommitDelete, LockTypeOK
<1>3. linkOf' = [c \in Character |-> IF linkOf[c] = e THEN Nothing ELSE linkOf[c]]
  BY DEF CommitDelete
<1>4. LockTypeOK'
  <2>1. linkOf' \in [Character -> Encounter \cup {Nothing}]
    BY <1>1, <1>3 DEF LockTypeOK
  <2>2. QED
    BY <1>1, <1>2, <2>1, FinishFacts DEF LockTypeOK
<1>5. LinksMatchUnderLocks'
  <2>1. SUFFICES ASSUME NEW c \in Character
                 PROVE  /\ \A f \in fights \ {e} : c \in fighters'[f] <=> linkOf'[c] = f
                        /\ linkOf'[c] # Nothing => /\ linkOf'[c] \in fights \ {e}
                                                  /\ c \in sheets
    BY <1>1 DEF LinksMatchUnderLocks
  <2>2. /\ \A f \in fights : c \in fighters[f] <=> linkOf[c] = f
        /\ linkOf[c] # Nothing => linkOf[c] \in fights /\ c \in sheets
        /\ Nothing \notin fights /\ fights \subseteq Encounter
    BY <1>1, LockAssumption DEF LInv, LinksMatchUnderLocks, LockTypeOK
  <2>3. linkOf'[c] = IF linkOf[c] = e THEN Nothing ELSE linkOf[c]
    BY <1>3
  <2>4. QED
    BY <1>2, <2>2, <2>3
<1>6. ASSUME NEW u \in Slot, u # t PROVE SlotOK(u)'
  <2>1. /\ SlotOK(u) /\ work[u] \in Transaction /\ work'[u] = work[u]
        /\ \A r \in Row : (holder'[r] = u) <=> (holder[r] = u)
    BY <1>1, <1>6, FinishFacts DEF LInv, LockTypeOK
  <2>2. HoldsNothing(u)'
    BY <2>1 DEF SlotOK, HoldsNothing
  <2>3. FightHeld(u)'
    BY <1>1, <1>6, <2>1, RowsAreRows DEF SlotOK, FightHeld, LockTypeOK
  <2>4. InOrder(u)'
    <3>1. Remaining(u)' = Remaining(u)
      BY <1>1, <2>1, RowsAreRows DEF Remaining, LockTypeOK
    <3>2. QED
      BY <2>1, <3>1, RowsAreRows DEF SlotOK, InOrder
  <2>5. ApplyChecked(u)'
    <3>1. SUFFICES ASSUME work[u].stage = "writing", work[u].op = "apply"
                   PROVE  /\ work[u].removes \subseteq fighters'[work[u].fight]
                          /\ work[u].adds \cap fighters'[work[u].fight] = {}
                          /\ \A c \in work[u].adds : /\ c \in sheets' /\ linkOf'[c] = Nothing
                                                     /\ holder'[SheetRow(c)] = u
      BY <2>1 DEF ApplyChecked
    <3>2. work[u].fight \in Encounter /\ holder[FightRow(work[u].fight)] = u
      BY <1>1, <2>1, <3>1 DEF SlotOK, FightHeld, LockTypeOK
    <3>3. fighters'[work[u].fight] = fighters[work[u].fight]
      BY <1>1, <1>2, <1>6, <3>2
    <3>4. /\ work[u].removes \subseteq fighters[work[u].fight]
          /\ work[u].adds \cap fighters[work[u].fight] = {}
          /\ \A c \in work[u].adds : /\ c \in sheets /\ linkOf[c] = Nothing
                                     /\ holder[SheetRow(c)] = u
      BY <2>1, <3>1 DEF SlotOK, ApplyChecked
    <3>5. ASSUME NEW c \in work[u].adds PROVE linkOf'[c] = Nothing /\ holder'[SheetRow(c)] = u
      <4>1. c \in Character
        BY <2>1 DEF Transaction
      <4>2. QED
        BY <1>3, <2>1, <3>4, <4>1, RowsAreRows
    <3>6. QED
      BY <1>1, <3>3, <3>4, <3>5
  <2>6. DeleteChecked(u)'
    <3>1. SUFFICES ASSUME work[u].stage = "writing", work[u].op = "deleteSheet",
                          NEW c \in work[u].wants
                   PROVE  linkOf'[c] = Nothing /\ holder'[SheetRow(c)] = u
      BY <2>1 DEF DeleteChecked
    <3>2. linkOf[c] = Nothing /\ holder[SheetRow(c)] = u /\ c \in Character
      BY <2>1, <3>1 DEF SlotOK, DeleteChecked, Transaction
    <3>3. QED
      BY <1>3, <2>1, <3>2, RowsAreRows
  <2>7. QED
    BY <2>2, <2>3, <2>4, <2>5, <2>6 DEF SlotOK
<1>7. QED
  BY <1>1, <1>4, <1>5, <1>6, FinishedSlot DEF LInv

LEMMA CommitDeleteSheetStep ==
    ASSUME LInv, NEW t \in Slot, CommitDeleteSheet(t)
    PROVE  LInv'
<1> DEFINE gone == work[t].wants
<1>1. /\ LockTypeOK /\ work[t] \in Transaction /\ Finish(t)
      /\ sheets' = sheets \ gone /\ gone \in SUBSET Character
      /\ UNCHANGED <<fights, fighters, linkOf>>
      /\ \A c \in gone : linkOf[c] = Nothing /\ holder[SheetRow(c)] = t
  BY DEF LInv, LockTypeOK, CommitDeleteSheet, SlotOK, DeleteChecked, Transaction
<1>2. LockTypeOK'
  BY <1>1, FinishFacts DEF LockTypeOK
<1>3. LinksMatchUnderLocks'
  BY <1>1 DEF LInv, LinksMatchUnderLocks
<1>4. ASSUME NEW u \in Slot, u # t PROVE SlotOK(u)'
  <2>1. /\ SlotOK(u) /\ work[u] \in Transaction /\ work'[u] = work[u]
        /\ \A r \in Row : (holder'[r] = u) <=> (holder[r] = u)
    BY <1>1, <1>4, FinishFacts DEF LInv, LockTypeOK
  <2>2. HoldsNothing(u)'
    BY <2>1 DEF SlotOK, HoldsNothing
  <2>3. FightHeld(u)'
    BY <1>1, <2>1, RowsAreRows DEF SlotOK, FightHeld, LockTypeOK
  <2>4. InOrder(u)'
    <3>1. Remaining(u)' \subseteq Remaining(u)
      BY <1>1, <2>1, RowsAreRows DEF Remaining, LockTypeOK
    <3>2. QED
      BY <2>1, <3>1, RowsAreRows DEF SlotOK, InOrder
  <2>5. ApplyChecked(u)'
    <3>1. SUFFICES ASSUME work[u].stage = "writing", work[u].op = "apply"
                   PROVE  \A c \in work[u].adds : /\ c \in sheets' /\ linkOf[c] = Nothing
                                                  /\ holder'[SheetRow(c)] = u
      BY <1>1, <2>1 DEF SlotOK, ApplyChecked
    <3>2. \A c \in work[u].adds : /\ c \in Character /\ c \in sheets /\ linkOf[c] = Nothing
                                  /\ holder[SheetRow(c)] = u
      BY <2>1, <3>1 DEF SlotOK, ApplyChecked, Transaction
    <3>3. QED
      BY <1>1, <1>4, <2>1, <3>2, RowsAreRows
  <2>6. DeleteChecked(u)'
    BY <1>1, <2>1, RowsAreRows DEF SlotOK, DeleteChecked, Transaction
  <2>7. QED
    BY <2>2, <2>3, <2>4, <2>5, <2>6 DEF SlotOK
<1>5. QED
  BY <1>1, <1>2, <1>3, <1>4, FinishedSlot DEF LInv
-----------------------------------------------------------------------------
(* The theorems. *)

LEMMA LockInitInvariant ==
    ASSUME LockInit
    PROVE  LInv
<1>1. LockTypeOK
  BY DEF LockInit, LockTypeOK, Idle, Transaction, Ops, Stages
<1>2. LinksMatchUnderLocks
  BY LockAssumption DEF LockInit, LinksMatchUnderLocks
<1>3. ASSUME NEW t \in Slot PROVE SlotOK(t)
  <2>1. work[t].stage = "idle" /\ \A r \in Row : holder[r] # t
    BY LockAssumption DEF LockInit, Idle
  <2>2. QED
    BY <2>1 DEF SlotOK, HoldsNothing, FightHeld, InOrder, ApplyChecked, DeleteChecked
<1>4. QED
  BY <1>1, <1>2, <1>3 DEF LInv

LEMMA LockStep ==
    ASSUME LInv, [LockNext]_lockVars
    PROVE  LInv'
<1>1. CASE UNCHANGED lockVars
  BY <1>1 DEF lockVars, LInv, LockTypeOK, LinksMatchUnderLocks, SlotOK, HoldsNothing,
              FightHeld, InOrder, Remaining, ApplyChecked, DeleteChecked
<1>2. CASE LockNext
  <2>1. PICK t \in Slot :
        \/ \E e \in fights : \E adds, removes \in SUBSET Character :
              BeginOnFight(t, "apply", e, adds, removes)
        \/ \E e \in fights : \E op \in {"delete", "join"} : BeginOnFight(t, op, e, {}, {})
        \/ \E wants \in (SUBSET Character) \ {{}} : BeginOnSheets(t, "command", wants)
        \/ \E c \in Character : \E op \in {"deleteSheet", "edit"} : BeginOnSheets(t, op, {c})
        \/ LockFight(t) \/ LockSheet(t) \/ Check(t)
        \/ CommitApply(t) \/ CommitDelete(t) \/ CommitDeleteSheet(t) \/ CommitOther(t)
        \/ Abort(t)
    BY <1>2 DEF LockNext
  <2>2. ASSUME NEW e \in fights, NEW op \in {"apply", "delete", "join"},
               NEW adds \in SUBSET Character, NEW removes \in SUBSET Character,
               BeginOnFight(t, op, e, adds, removes)
        PROVE  LInv'
    <3> DEFINE w == [op |-> op, stage |-> "fight", fight |-> e, adds |-> adds,
                     removes |-> removes, wants |-> {}]
    <3>1. e \in Encounter
      BY DEF LInv, LockTypeOK
    <3>2. w \in Transaction /\ w.stage = "fight"
      BY <3>1 DEF Transaction, Ops, Stages
    <3>3. work[t] = Idle /\ work' = [work EXCEPT ![t] = w]
          /\ UNCHANGED <<fights, sheets, fighters, linkOf, holder>>
      BY <2>2 DEF BeginOnFight
    <3> HIDE DEF w
    <3>4. QED
      BY <3>2, <3>3, BeginStep
  <2>3. ASSUME NEW op \in {"command", "deleteSheet", "edit"}, NEW wants \in SUBSET Character,
               BeginOnSheets(t, op, wants)
        PROVE  LInv'
    <3> DEFINE w == [op |-> op, stage |-> "sheets", fight |-> Nothing, adds |-> {},
                     removes |-> {}, wants |-> wants]
    <3>1. w \in Transaction /\ w.stage = "sheets" /\ w.op = op
      BY DEF Transaction, Ops, Stages
    <3>2. work[t] = Idle /\ work' = [work EXCEPT ![t] = w]
          /\ UNCHANGED <<fights, sheets, fighters, linkOf, holder>>
      BY <2>3 DEF BeginOnSheets
    <3> HIDE DEF w
    <3>3. QED
      BY <3>1, <3>2, BeginStep
  <2>4. CASE LockFight(t)
    BY <2>4, LockFightStep
  <2>5. CASE LockSheet(t)
    BY <2>5, LockSheetStep
  <2>6. CASE Check(t)
    BY <2>6, CheckStep
  <2>7. CASE CommitApply(t)
    BY <2>7, CommitApplyStep
  <2>8. CASE CommitDelete(t)
    BY <2>8, CommitDeleteStep
  <2>9. CASE CommitDeleteSheet(t)
    BY <2>9, CommitDeleteSheetStep
  <2>10. CASE CommitOther(t) \/ Abort(t)
    BY <2>10, QuietFinishStep DEF CommitOther, Abort
  <2>11. CASE \/ \E e \in fights : \E adds, removes \in SUBSET Character :
                  BeginOnFight(t, "apply", e, adds, removes)
              \/ \E e \in fights : \E op \in {"delete", "join"} : BeginOnFight(t, op, e, {}, {})
    BY <2>2, <2>11
  <2>12. CASE \/ \E wants \in (SUBSET Character) \ {{}} : BeginOnSheets(t, "command", wants)
              \/ \E c \in Character : \E op \in {"deleteSheet", "edit"} :
                    BeginOnSheets(t, op, {c})
    <3>1. \A c \in Character : {c} \in SUBSET Character
      OBVIOUS
    <3>2. QED
      BY <2>3, <2>12, <3>1
  <2>13. QED
    BY <2>1, <2>11, <2>12, <2>4, <2>5, <2>6, <2>7, <2>8, <2>9, <2>10
<1>3. QED
  BY <1>1, <1>2

\* The rows that a connection holds and what it has checked: the inductive
\* invariant of the transactions on encounters and characters.
THEOREM LocksInvariant == LockSpec => []LInv
<1>1. LockInit => LInv
  BY LockInitInvariant
<1>2. LInv /\ [LockNext]_lockVars => LInv'
  BY LockStep
<1>3. QED
  BY <1>1, <1>2, PTL DEF LockSpec

\* However transactions overlap, a character's link names an encounter
\* exactly while it fights there, and a fighter's row exists: the row locks of
\* Apply, Delete, Join and the sheet routes are enough.
THEOREM LinksUnderLocksCorrect == LockSpec => []LinksMatchUnderLocks
<1>1. LInv => LinksMatchUnderLocks
  BY DEF LInv
<1>2. QED
  BY <1>1, LocksInvariant, PTL

\* In a circle the one that waits for the least character is waited for
\* because of a lesser one.
LEMMA NoCircle ==
    ASSUME LInv
    PROVE  NoWaitCycle
<1>1. SUFFICES ASSUME NEW circle \in (SUBSET Slot) \ {{}},
                      \A t \in circle : /\ \E u \in circle : WaitsFor(t, u)
                                        /\ \E u \in circle : WaitsFor(u, t)
               PROVE  FALSE
  BY DEF NoWaitCycle
<1>2. LockTypeOK /\ \A t \in Slot : SlotOK(t)
  BY DEF LInv
<1>3. ASSUME NEW t \in circle
      PROVE  work[t].stage = "sheets" /\ Remaining(t) # {}
  <2>1. PICK u \in circle : WaitsFor(u, t)
    BY <1>1
  <2>2. \E r \in Row : holder[r] = t
    <3>1. CASE work[u].fight \in fights /\ holder[FightRow(work[u].fight)] = t
      BY <3>1, <1>2, RowsAreRows DEF LockTypeOK
    <3>2. CASE Remaining(u) # {} /\ holder[SheetRow(NextSheet(u))] = t
      <4>1. NextSheet(u) \in Character
        BY <1>2, <3>2, NextSheetIsLeast DEF Remaining, LockTypeOK
      <4>2. QED
        BY <3>2, <4>1, RowsAreRows
    <3>3. QED
      BY <2>1, <3>1, <3>2 DEF WaitsFor
  <2>3. work[t].stage \notin {"idle", "fight"}
    BY <1>2, <2>2 DEF SlotOK, HoldsNothing
  <2>4. QED
    BY <1>1, <2>3 DEF WaitsFor
<1> DEFINE awaited == {NextSheet(t) : t \in circle}
<1>4. awaited \in SUBSET Character /\ awaited # {}
  <2>1. ASSUME NEW t \in circle PROVE NextSheet(t) \in Character
    BY <1>2, <1>3, NextSheetIsLeast DEF Remaining, LockTypeOK
  <2>2. ASSUME NEW t \in circle PROVE NextSheet(t) \in awaited
    OBVIOUS
  <2>3. circle # {}
    OBVIOUS
  <2>4. QED
    BY <2>1, <2>2, <2>3
<1>5. Least(awaited) \in awaited /\ \A d \in awaited : Least(awaited) <= d
  <2>1. awaited \in SUBSET Nat /\ awaited # {}
    BY <1>4, LockAssumption
  <2> HIDE DEF awaited
  <2>2. QED
    BY <2>1, LeastIsLeast
<1>6. PICK t \in circle : Least(awaited) = NextSheet(t)
  BY <1>5
<1>7. PICK u \in circle : WaitsFor(u, t)
  BY <1>1
<1>8. holder[SheetRow(NextSheet(u))] = t /\ NextSheet(u) \in awaited
  BY <1>3, <1>7 DEF WaitsFor
<1>9. NextSheet(u) < NextSheet(t)
  <2>1. NextSheet(t) \in Remaining(t) /\ NextSheet(u) \in Character
    BY <1>2, <1>3, <1>4, <1>8, NextSheetIsLeast
  <2>2. QED
    BY <1>2, <1>3, <1>8, <2>1 DEF SlotOK, InOrder
<1>10. NextSheet(t) <= NextSheet(u)
  BY <1>5, <1>6, <1>8
<1>11. NextSheet(t) \in Nat /\ NextSheet(u) \in Nat
  BY <1>4, <1>6, <1>8, LockAssumption
<1>12. QED
  BY <1>9, <1>10, <1>11

\* Apply, Delete, Join, runtime commands and sheet routes take an encounter row
\* before character rows and these in the order of their ids: no set of
\* transactions, however many, waits in a circle.
THEOREM NoWaitCycleCorrect == LockSpec => []NoWaitCycle
<1>1. LInv => NoWaitCycle
  BY NoCircle
<1>2. QED
  BY <1>1, LocksInvariant, PTL
=============================================================================
