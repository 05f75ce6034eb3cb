------------------------------ MODULE EncounterTx ------------------------------
(***************************************************************************)
(* The row locks of src/backend's transactions on encounters and           *)
(* characters.  Encounter and RuntimeCommand take a transaction as one     *)
(* step; here it takes its locks one by one, reads, and commits, so that   *)
(* what those modules take for granted can be checked: nobody waits in a   *)
(* circle, and what a transaction has read is still so when it commits.    *)
(*                                                                         *)
(* Reads without a lock see what is committed (READ COMMITTED).  Ids are   *)
(* never reused.  Policy, sheets and journals are left out: they take no   *)
(* further lock.                                                           *)
(*                                                                         *)
(* A definition marked (fault) is a plausible bug in the definition that   *)
(* follows it; no behaviour of LockSpec uses one.                          *)
(***************************************************************************)
EXTENDS Naturals

CONSTANTS
    Encounter,      \* encounter rows
    Character,      \* character rows; their ids are ordered
    Slot            \* database connections; each runs one transaction

Nothing == "none"

ASSUME LockAssumption ==
    /\ Character \subseteq Nat
    /\ Nothing \notin Encounter \cup Slot

VARIABLES
    fights,         \* the encounter rows there are
    sheets,         \* the character rows there are
    fighters,       \* [Encounter -> characters in its state]
    linkOf,         \* [Character -> current_encounter_id]
    work,           \* [Slot -> the transaction it runs]
    holder          \* [Row -> the slot that has it FOR UPDATE]

lockVars == <<fights, sheets, fighters, linkOf, work, holder>>

FightRow(e) == <<"encounter", e>>
SheetRow(c) == <<"character", c>>
Row == {FightRow(e) : e \in Encounter} \cup {SheetRow(c) : c \in Character}

Idle == [op |-> "idle", stage |-> "idle", fight |-> Nothing,
         adds |-> {}, removes |-> {}, wants |-> {}]

Released(t) == [r \in Row |-> IF holder[r] = t THEN Nothing ELSE holder[r]]

-----------------------------------------------------------------------------
(* Beginning. *)

\* Apply, Delete and Join begin with the encounter row.
BeginOnFight(t, op, e, adds, removes) ==
    /\ work[t] = Idle
    /\ work' = [work EXCEPT ![t] =
                  [op |-> op, stage |-> "fight", fight |-> e,
                   adds |-> adds, removes |-> removes, wants |-> {}]]
    /\ UNCHANGED <<fights, sheets, fighters, linkOf, holder>>

\* A runtime command, a change or a deletion of a sheet touches characters only.
BeginOnSheets(t, op, wants) ==
    /\ work[t] = Idle
    /\ work' = [work EXCEPT ![t] =
                  [op |-> op, stage |-> "sheets", fight |-> Nothing,
                   adds |-> {}, removes |-> {}, wants |-> wants]]
    /\ UNCHANGED <<fights, sheets, fighters, linkOf, holder>>

-----------------------------------------------------------------------------
(* Locking. *)

\* (fault) Apply locks the combatants and leaves the added characters alone
SheetsToLockCurrent(t) ==
    CASE work[t].op = "apply"  -> fighters[work[t].fight]
      [] work[t].op = "delete" -> {c \in Character : linkOf[c] = work[t].fight}
      [] OTHER -> {}

\* The characters a transaction locks once it has the encounter.
SheetsToLock(t) ==
    CASE work[t].op = "apply"  -> fighters[work[t].fight] \cup work[t].adds
      [] work[t].op = "delete" -> {c \in Character : linkOf[c] = work[t].fight}
      [] OTHER -> {}

LockFight(t) ==
    /\ work[t].stage = "fight" /\ work[t].fight \in fights
    /\ holder[FightRow(work[t].fight)] = Nothing
    /\ holder' = [holder EXCEPT ![FightRow(work[t].fight)] = t]
    /\ work' = [work EXCEPT ![t].stage = "sheets", ![t].wants = SheetsToLock(t)]
    /\ UNCHANGED <<fights, sheets, fighters, linkOf>>

\* Rows still to be locked; one that is gone is not selected.
Remaining(t) == {c \in work[t].wants \cap sheets : holder[SheetRow(c)] # t}

Least(cs) == CHOOSE c \in cs : \A d \in cs : c <= d

\* (fault) the combatants are locked first, the added characters after them
NextSheetAddedLast(t) ==
    IF Remaining(t) \subseteq work[t].adds THEN Least(Remaining(t))
    ELSE Least(Remaining(t) \ work[t].adds)

\* ORDER BY id FOR UPDATE, in one statement
NextSheet(t) == Least(Remaining(t))

LockSheet(t) ==
    /\ work[t].stage = "sheets" /\ Remaining(t) # {}
    /\ holder[SheetRow(NextSheet(t))] = Nothing
    /\ holder' = [holder EXCEPT ![SheetRow(NextSheet(t))] = t]
    /\ UNCHANGED <<fights, sheets, fighters, linkOf, work>>

-----------------------------------------------------------------------------
(* Reading and committing. *)

\* encounterConflict reads the other encounter without a lock.
InOtherFight(c, e) ==
    /\ linkOf[c] \notin {Nothing, e} /\ linkOf[c] \in fights
    /\ c \in fighters[linkOf[c]]

\* The checks between the locks and the first write.
MayWrite(t) ==
    CASE work[t].op = "apply" ->
            /\ work[t].wants \cup work[t].adds \subseteq sheets
            /\ work[t].adds \cap fighters[work[t].fight] = {}
            /\ work[t].removes \subseteq fighters[work[t].fight]
            /\ \A c \in work[t].adds : ~InOtherFight(c, work[t].fight)
      [] work[t].op \in {"command", "deleteSheet"} ->
            /\ work[t].wants \subseteq sheets
            /\ \A c \in work[t].wants : linkOf[c] = Nothing
      [] OTHER -> TRUE

Check(t) ==
    /\ work[t].stage = "sheets" /\ Remaining(t) = {} /\ MayWrite(t)
    /\ work' = [work EXCEPT ![t].stage = "writing"]
    /\ UNCHANGED <<fights, sheets, fighters, linkOf, holder>>

Finish(t) == work' = [work EXCEPT ![t] = Idle] /\ holder' = Released(t)

CommitApply(t) ==
    LET e == work[t].fight
    IN /\ work[t].op = "apply" /\ work[t].stage = "writing"
       /\ fighters' = [fighters EXCEPT ![e] = (@ \ work[t].removes) \cup work[t].adds]
       /\ linkOf' = [c \in Character |->
                        IF c \in work[t].adds THEN e
                        ELSE IF c \in work[t].removes /\ linkOf[c] = e THEN Nothing
                        ELSE linkOf[c]]
       /\ Finish(t)
       /\ UNCHANGED <<fights, sheets>>

CommitDelete(t) ==
    LET e == work[t].fight
    IN /\ work[t].op = "delete" /\ work[t].stage = "writing"
       /\ fights' = fights \ {e}
       /\ fighters' = [fighters EXCEPT ![e] = {}]
       /\ linkOf' = [c \in Character |-> IF linkOf[c] = e THEN Nothing ELSE linkOf[c]]
       /\ Finish(t)
       /\ UNCHANGED sheets

CommitDeleteSheet(t) ==
    /\ work[t].op = "deleteSheet" /\ work[t].stage = "writing"
    /\ sheets' = sheets \ work[t].wants
    /\ Finish(t)
    /\ UNCHANGED <<fights, fighters, linkOf>>

\* Join, a runtime command, PUT and PATCH leave membership and links alone.
CommitOther(t) ==
    /\ work[t].op \in {"join", "command", "edit"} /\ work[t].stage = "writing"
    /\ Finish(t)
    /\ UNCHANGED <<fights, sheets, fighters, linkOf>>

\* A check or a statement fails, the row is gone, the process dies.
Abort(t) ==
    /\ work[t] # Idle
    /\ Finish(t)
    /\ UNCHANGED <<fights, sheets, fighters, linkOf>>

-----------------------------------------------------------------------------
LockInit ==
    /\ fights = Encounter /\ sheets = Character
    /\ fighters = [e \in Encounter |-> {}] /\ linkOf = [c \in Character |-> Nothing]
    /\ work = [t \in Slot |-> Idle] /\ holder = [r \in Row |-> Nothing]

LockNext ==
    \E t \in Slot :
        \/ \E e \in fights : \E adds, removes \in SUBSET Character :
              BeginOnFight(t, "apply", e, adds, removes)
        \/ \E e \in fights : \E op \in {"delete", "join"} : BeginOnFight(t, op, e, {}, {})
        \/ \E wants \in (SUBSET Character) \ {{}} : BeginOnSheets(t, "command", wants)
        \/ \E c \in Character : \E op \in {"deleteSheet", "edit"} : BeginOnSheets(t, op, {c})
        \/ LockFight(t) \/ LockSheet(t) \/ Check(t)
        \/ CommitApply(t) \/ CommitDelete(t) \/ CommitDeleteSheet(t) \/ CommitOther(t)
        \/ Abort(t)

LockSpec == LockInit /\ [][LockNext]_lockVars

-----------------------------------------------------------------------------
(* Properties. *)

WaitsFor(t, u) ==
    \/ /\ work[t].stage = "fight" /\ work[t].fight \in fights
       /\ holder[FightRow(work[t].fight)] = u
    \/ /\ work[t].stage = "sheets" /\ Remaining(t) # {}
       /\ holder[SheetRow(NextSheet(t))] = u

\* However transactions on encounters and sheets overlap, the database never
\* has to break a circle of them that wait for each other's rows.
NoWaitCycle ==
    \A circle \in (SUBSET Slot) \ {{}} :
        ~ \A t \in circle : /\ \E u \in circle : WaitsFor(t, u)
                            /\ \E u \in circle : WaitsFor(u, t)

\* A character's link names an encounter exactly while it fights there, also
\* when two transactions on it overlap, and a fighter's row exists.
LinksMatchUnderLocks ==
    \A c \in Character :
        /\ \A e \in fights : c \in fighters[e] <=> linkOf[c] = e
        /\ linkOf[c] # Nothing => linkOf[c] \in fights /\ c \in sheets
=============================================================================
