--------------------------- MODULE EncounterProofs ---------------------------
(***************************************************************************)
(* Proofs about Encounter, for any numbers of accounts, characters,        *)
(* encounters and actors, any requests and any bounds.                     *)
(*                                                                         *)
(* EncounterInv is inductive.  Its parts depend on each other: see the     *)
(* comments at the theorems.                                               *)
(***************************************************************************)
EXTENDS Encounter, TLAPS

------------------------------------------------------------------------------
(* The operators of Apply *)

\* A character is in a combatants map iff some combatant carries it.
LEMMA InCombatants ==
    ASSUME NEW comb, NEW c \in Characters
    PROVE  c \in CharactersIn(comb)
             <=> \E a \in Actors : comb[a] # None /\ comb[a].character = c
  BY EncounterAssumption DEF CharactersIn

\* Merging a patch into a combatant gives a combatant of the same character.
LEMMA MergedType ==
    ASSUME NEW x \in Combatant, NEW set \in FieldSet
    PROVE  Merged(x, set) \in Combatant
  BY DEF Merged, Combatant, FieldSet

\* A normalized addition is a combatant of the character that was asked for.
LEMMA NormalizedAddType ==
    ASSUME TypeOK, NEW req \in ApplyRequest, NEW a \in Added(req)
    PROVE  /\ NormalizedAdd(req, a) \in Combatant
           /\ NormalizedAdd(req, a).character = req.add[a].character
  <1>1. a \in Actors /\ req.add[a] \in Combatant
    BY DEF Added, ApplyRequest
  <1>2. CASE req.add[a].character = None
    BY <1>1, <1>2 DEF NormalizedAdd
  <1>3. CASE req.add[a].character # None
    <2>1. req.add[a].character \in Characters
      BY <1>1, <1>3 DEF Combatant
    <2>2. sheet[req.add[a].character] \in [SyncedFields -> Values]
      BY <2>1 DEF TypeOK
    <2> QED
      BY <1>3, <2>1, <2>2 DEF NormalizedAdd, Combatant, FieldSet, PatchFields
  <1> QED
    BY <1>2, <1>3

LEMMA AppliedOpsType ==
    ASSUME TypeOK, NEW e \in Encounters, NEW req \in ApplyRequest
    PROVE  AppliedOps(e, req) \in [Actors -> Combatant \cup {None}]
  <1> SUFFICES ASSUME NEW a \in Actors
               PROVE  AppliedOps(e, req)[a] \in Combatant \cup {None}
    BY DEF AppliedOps
  <1>1. CASE a \in Added(req)
    BY <1>1, NormalizedAddType DEF AppliedOps
  <1>2. CASE a \notin Added(req) /\ (a \in req.remove \/ combatants[e][a] = None)
    BY <1>2 DEF AppliedOps
  <1>3. CASE a \notin Added(req) /\ ~(a \in req.remove \/ combatants[e][a] = None)
    <2>1. combatants[e][a] \in Combatant /\ req.patches[a] \in FieldSet
      BY <1>3 DEF TypeOK, ApplyRequest
    <2> QED
      BY <1>3, <2>1, MergedType DEF AppliedOps
  <1> QED
    BY <1>1, <1>2, <1>3

\* The write-through stores values, never an absent key, into a sheet.
LEMMA SyncedSheetType ==
    ASSUME TypeOK, NEW e \in Encounters, NEW req \in ApplyRequest,
           NEW c \in Characters
    PROVE  SyncedSheet(AppliedOps(e, req), req, c) \in [SyncedFields -> Values]
  <1> DEFINE next == AppliedOps(e, req)
             actors == SyncedActors(next, req, c)
             a == CHOOSE b \in actors : TRUE
  <1>1. sheet[c] \in [SyncedFields -> Values]
    BY DEF TypeOK
  <1>2. CASE actors = {}
    BY <1>1, <1>2 DEF SyncedSheet
  <1>3. CASE actors # {}
    <2>1. /\ a \in Actors
          /\ next[a] # None
          /\ next[a].character = c
      BY <1>3 DEF SyncedActors
    <2>2. ASSUME NEW f \in SyncedFields, f \in Changed(req, a)
          PROVE  next[a].fields[f] \in Values
      <3>1. CASE a \in Added(req)
        <4>1. next[a] = NormalizedAdd(req, a) /\ req.add[a].character = c
          BY <2>1, <3>1, NormalizedAddType DEF AppliedOps
        <4>2. next[a].fields[f] = sheet[c][f]
          BY <4>1, <2>2, EncounterAssumption DEF NormalizedAdd, PatchFields
        <4> QED
          BY <4>2, <1>1, <2>2
      <3>2. CASE a \notin Added(req)
        <4>1. f \in PatchFields /\ req.patches[a][f] # None /\ req.patches[a] \in FieldSet
          BY <2>1, <2>2, <3>2 DEF Changed, Patched, ApplyRequest
        <4>2. next[a] = Merged(combatants[e][a], req.patches[a])
          BY <2>1, <3>2 DEF AppliedOps
        <4>3. next[a].fields[f] = req.patches[a][f]
          BY <4>1, <4>2 DEF Merged
        <4> QED
          BY <4>1, <4>3 DEF FieldSet
      <3> QED
        BY <3>1, <3>2
    <2>3. SyncedSheet(next, req, c) =
            [f \in SyncedFields |->
               IF f \in Changed(req, a) THEN next[a].fields[f] ELSE sheet[c][f]]
      BY <1>3 DEF SyncedSheet
    <2> QED
      BY <1>1, <2>2, <2>3
  <1> QED
    BY <1>2, <1>3

------------------------------------------------------------------------------
(* Type correctness *)

LEMMA TypeInit == Init => TypeOK
  <1> SUFFICES ASSUME Init PROVE TypeOK
    OBVIOUS
  <1>1. EmptyState \in [Actors -> Combatant \cup {None}]
    BY DEF EmptyState
  <1>2. 0 \in 0..MaxSeq /\ 0 \in 0..MaxRevision
    BY EncounterAssumption
  <1> QED
    BY <1>1, <1>2 DEF Init, TypeOK, RowStates

\* A patch on a sheet keeps every field a value.
LEMMA OverwrittenType ==
    ASSUME NEW s \in [SyncedFields -> Values], NEW p \in SheetPatch
    PROVE  Overwritten(s, p) \in [SyncedFields -> Values]
  BY DEF Overwritten, SheetPatch

\* The revisions that are bumped stay within the bound the guards impose.
LEMMA BumpedType ==
    ASSUME TypeOK, NEW rows, \A c \in rows : revision[c] < MaxRevision
    PROVE  Bumped(rows) \in [Characters -> 0..MaxRevision]
  BY EncounterAssumption DEF TypeOK, Bumped

LEMMA ApplyType ==
    ASSUME TypeOK, NEW u \in Users, NEW e \in Encounters, NEW s \in 0..MaxSeq,
           NEW req \in ApplyRequest, Apply(u, e, s, req)
    PROVE  TypeOK'
  <1> DEFINE next == AppliedOps(e, req)
             synced == {c \in Characters : SyncedActors(next, req, c) # {}}
  <1>1. combatants' \in [Encounters -> [Actors -> Combatant \cup {None}]]
    BY AppliedOpsType DEF Apply, TypeOK
  <1>2. seq[e] + 1 \in 1..MaxSeq
    BY EncounterAssumption DEF Apply, TypeOK
  <1>3. /\ seq' \in [Encounters -> 0..MaxSeq]
        /\ events' \in [Encounters -> SUBSET (1..MaxSeq)]
    BY <1>2 DEF Apply, TypeOK, SeqAfter, EventsAfter
  <1>4. link' \in [Characters -> Encounters \cup {None}]
    BY DEF Apply, TypeOK
  <1>5. sheet' \in [Characters -> [SyncedFields -> Values]]
    BY SyncedSheetType DEF Apply
  <1>6. revision' \in [Characters -> 0..MaxRevision]
    BY BumpedType DEF Apply
  <1>7. journal' \in [Characters -> SUBSET Encounters]
    BY DEF Apply, TypeOK
  <1>8. UNCHANGED <<encounterRow, owner, members, invite, characterRow>>
    BY DEF Apply
  <1> QED
    BY <1>1, <1>3, <1>4, <1>5, <1>6, <1>7, <1>8 DEF TypeOK

\* Every step of every handler keeps the columns well typed.
LEMMA TypeNext == TypeOK /\ [Next]_vars => TypeOK'
  <1> SUFFICES ASSUME TypeOK, [Next]_vars PROVE TypeOK'
    OBVIOUS
  <1>1. ASSUME NEW u \in Users, NEW e \in Encounters, Create(u, e) PROVE TypeOK'
    BY <1>1 DEF TypeOK, Create, characterVars, RowStates
  <1>2. ASSUME NEW u \in Users, NEW e \in Encounters, IssueInvite(u, e) PROVE TypeOK'
    BY <1>2 DEF TypeOK, IssueInvite, characterVars
  <1>3. ASSUME NEW u \in Users, NEW e \in Encounters, Join(u, e) PROVE TypeOK'
    BY <1>3 DEF TypeOK, Join, characterVars
  <1>4. ASSUME NEW u \in Users, NEW e \in Encounters, Delete(u, e) PROVE TypeOK'
    <2>1. EmptyState \in [Actors -> Combatant \cup {None}]
      BY DEF EmptyState
    <2>2. link' \in [Characters -> Encounters \cup {None}]
      BY <1>4 DEF TypeOK, Delete
    <2>3. seq' \in [Encounters -> 0..MaxSeq]
      BY <1>4, EncounterAssumption DEF TypeOK, Delete
    <2> QED
      BY <1>4, <2>1, <2>2, <2>3 DEF TypeOK, Delete, RowStates
  <1>5. ASSUME NEW u \in Users, NEW e \in Encounters, NEW req \in Requests,
               NEW s \in 0..MaxSeq, Apply(u, e, s, req)
        PROVE  TypeOK'
    <2>1. req \in ApplyRequest
      BY EncounterAssumption
    <2> QED
      BY <1>5, <2>1, ApplyType
  <1>6. ASSUME NEW c \in Characters, CreateCharacterV3(c) PROVE TypeOK'
    BY <1>6 DEF TypeOK, CreateCharacterV3, encounterVars, RowStates
  <1>7. ASSUME NEW c \in Characters, NEW hp \in Values, UpdateCharacterV3(c, hp)
        PROVE  TypeOK'
    <2>1. revision[c] + 1 \in 0..MaxRevision
      BY <1>7, EncounterAssumption DEF TypeOK, UpdateCharacterV3
    <2>2. sheet' \in [Characters -> [SyncedFields -> Values]]
      BY <1>7 DEF TypeOK, UpdateCharacterV3
    <2> QED
      BY <1>7, <2>1, <2>2 DEF TypeOK, UpdateCharacterV3, encounterVars
  <1>8. ASSUME NEW c \in Characters, NEW p \in SheetPatches, NEW other \in BOOLEAN,
               PatchCharacterRuntime(c, p, other)
        PROVE  TypeOK'
    <2>1. RuntimeUpdatesForLocked(c, p) \in SheetPatch
      BY EncounterAssumption DEF RuntimeUpdatesForLocked, SheetPatch
    <2>2. sheet' \in [Characters -> [SyncedFields -> Values]]
      BY <1>8, <2>1, OverwrittenType DEF TypeOK, PatchCharacterRuntime
    <2>3. revision[c] + 1 \in 0..MaxRevision
      BY <1>8, EncounterAssumption DEF TypeOK, PatchCharacterRuntime
    <2> QED
      BY <1>8, <2>2, <2>3 DEF TypeOK, PatchCharacterRuntime, encounterVars
  <1>9. ASSUME NEW c \in Characters, DeleteCharacterV3(c) PROVE TypeOK'
    BY <1>9 DEF TypeOK, DeleteCharacterV3, encounterVars, RowStates
  <1>10. ASSUME NEW u \in Users, NEW group \in SUBSET Characters,
                NEW patches \in [group -> SheetPatches],
                PostCharacterRuntimeCommand(u, group, patches)
         PROVE  TypeOK'
    <2>1. sheet' \in [Characters -> [SyncedFields -> Values]]
      BY <1>10, OverwrittenType, EncounterAssumption DEF TypeOK, PostCharacterRuntimeCommand
    <2>2. revision' \in [Characters -> 0..MaxRevision]
      BY <1>10, BumpedType DEF TypeOK, PostCharacterRuntimeCommand
    <2> QED
      BY <1>10, <2>1, <2>2 DEF TypeOK, PostCharacterRuntimeCommand, encounterVars
  <1>11. ASSUME NEW e \in Encounters, InviteExpires(e) PROVE TypeOK'
    BY <1>11 DEF TypeOK, InviteExpires, characterVars
  <1>12. CASE UNCHANGED vars
    BY <1>12 DEF vars, TypeOK
  <1> QED
    BY <1>1, <1>2, <1>3, <1>4, <1>5, <1>6, <1>7, <1>8, <1>9, <1>10, <1>11, <1>12
       DEF Next, EncounterNext, CharacterNext, CommandNext

\* No sequence of requests takes a column out of its domain: a sheet always
\* holds values (an absent JSON key is never written through), a combatant is
\* complete, the counters stay within their bounds.
THEOREM TypeCorrect == Spec => []TypeOK
  <1> QED
    BY TypeInit, TypeNext, PTL DEF Spec

------------------------------------------------------------------------------
(* What Apply does to the combatants *)

\* A combatant after an operation was either added by it, as the character the
\* request named, or was there before as the same character.
LEMMA AppliedOrigin ==
    ASSUME TypeOK, NEW e \in Encounters, NEW req \in ApplyRequest, NEW a \in Actors,
           AppliedOps(e, req)[a] # None
    PROVE  \/ /\ a \in Added(req)
              /\ AppliedOps(e, req)[a] = NormalizedAdd(req, a)
              /\ AppliedOps(e, req)[a].character = req.add[a].character
           \/ /\ a \notin Added(req)
              /\ combatants[e][a] # None
              /\ AppliedOps(e, req)[a] = Merged(combatants[e][a], req.patches[a])
              /\ AppliedOps(e, req)[a].character = combatants[e][a].character
  <1>1. CASE a \in Added(req)
    BY <1>1, NormalizedAddType DEF AppliedOps
  <1>2. CASE a \notin Added(req)
    BY <1>2 DEF AppliedOps, Merged
  <1> QED
    BY <1>1, <1>2

\* What the policy says of an added character.
LEMMA AddedCharacter ==
    ASSUME NEW u, NEW e, NEW req, ApplyPolicy(u, e, req),
           NEW a \in Added(req), req.add[a].character # None
    PROVE  /\ Exists(req.add[a].character)
           /\ Controller[req.add[a].character] = u
           /\ u \in Participants(e)
           /\ AddsNewCharacter(e, req, a)
  BY DEF ApplyPolicy

\* Apply never makes a second combatant of a character.
LEMMA ApplyOneCombatant ==
    ASSUME TypeOK, OneCombatantPerCharacter,
           NEW u \in Users, NEW e \in Encounters, NEW s, NEW req \in ApplyRequest,
           Apply(u, e, s, req)
    PROVE  OneCombatantPerCharacter'
  <1> DEFINE next == AppliedOps(e, req)
  <1>1. combatants' = [combatants EXCEPT ![e] = next] /\ ApplyPolicy(u, e, req)
    BY DEF Apply
  <1>2. ASSUME NEW a \in Actors, NEW b \in Actors,
               next[a] # None, next[b] # None,
               next[a].character # None, next[a].character = next[b].character
        PROVE  a = b
    <2> DEFINE c == next[a].character
    <2>1. c \in Characters
      BY <1>2, AppliedOpsType DEF Combatant
    <2>2. ASSUME NEW x \in {a, b}, NEW y \in {a, b}, x \in Added(req), y \notin Added(req)
          PROVE  FALSE
      <3>1. req.add[x].character = c
        BY <2>2, <1>2, AppliedOrigin
      <3>2. c \in CharactersIn(combatants[e])
        BY <2>1, <2>2, <1>2, AppliedOrigin, InCombatants
      <3> QED
        BY <1>1, <1>2, <2>2, <3>1, <3>2, AddedCharacter DEF AddsNewCharacter
    <2>3. CASE a \in Added(req) /\ b \in Added(req)
      <3>1. req.add[a].character = c /\ req.add[b].character = c
        BY <2>3, <1>2, AppliedOrigin
      <3> QED
        BY <1>1, <1>2, <2>3, <3>1, AddedCharacter DEF AddsNewCharacter
    <2>4. CASE a \notin Added(req) /\ b \notin Added(req)
      <3>1. /\ combatants[e][a] # None /\ combatants[e][b] # None
            /\ combatants[e][a].character = c /\ combatants[e][b].character = c
        BY <2>4, <1>2, AppliedOrigin
      <3> QED
        BY <1>2, <3>1 DEF OneCombatantPerCharacter
    <2> QED
      BY <2>2, <2>3, <2>4
  <1> QED
    BY <1>1, <1>2 DEF OneCombatantPerCharacter, TypeOK

\* Apply admits only existing characters of its caller, and those it keeps are
\* still there.
LEMMA ApplyPlayable ==
    ASSUME TypeOK, CombatantsArePlayable,
           NEW u \in Users, NEW e \in Encounters, NEW s, NEW req \in ApplyRequest,
           Apply(u, e, s, req)
    PROVE  CombatantsArePlayable'
  <1> DEFINE next == AppliedOps(e, req)
  <1>1. /\ combatants' = [combatants EXCEPT ![e] = next]
        /\ ApplyPolicy(u, e, req)
        /\ UNCHANGED <<owner, members, characterRow>>
    BY DEF Apply
  <1>2. ASSUME NEW c \in CharactersIn(next)
        PROVE  Exists(c) /\ Controller[c] \in Participants(e)
    <2>1. PICK a \in Actors : next[a] # None /\ next[a].character = c /\ c # None
      BY DEF CharactersIn
    <2>2. c \in Characters
      BY <2>1, AppliedOpsType DEF Combatant
    <2>3. CASE a \in Added(req)
      BY <1>1, <2>1, <2>3, AppliedOrigin, AddedCharacter
    <2>4. CASE a \notin Added(req)
      <3>1. c \in CharactersIn(combatants[e])
        BY <2>1, <2>2, <2>4, AppliedOrigin, InCombatants
      <3> QED
        BY <3>1 DEF CombatantsArePlayable
    <2> QED
      BY <2>3, <2>4
  <1> QED
    BY <1>1, <1>2 DEF CombatantsArePlayable, TypeOK, Exists, Participants

\* Apply moves current_encounter_id exactly as it moves the combatants.  A
\* character it adds is in no other encounter: a live one would be a conflict,
\* and one that is gone has no combatants.
LEMMA ApplyLinks ==
    ASSUME TypeOK, DeadEncountersAreEmpty, LinkMatchesCombatants,
           NEW u \in Users, NEW e \in Encounters, NEW s, NEW req \in ApplyRequest,
           Apply(u, e, s, req)
    PROVE  LinkMatchesCombatants'
  <1> DEFINE before == CharactersIn(combatants[e])
             next   == AppliedOps(e, req)
             after  == CharactersIn(next)
  <1>1. /\ combatants' = [combatants EXCEPT ![e] = next]
        /\ \A c \in after \ before : ~EncounterConflict(c, e)
        /\ link' = [c \in Characters |->
                      IF c \in after \ before THEN e
                      ELSE IF c \in before \ after /\ link[c] = e THEN None
                      ELSE link[c]]
    BY DEF Apply
  <1> SUFFICES ASSUME NEW c \in Characters, NEW d \in Encounters
               PROVE  link'[c] = d <=> c \in CharactersIn(combatants'[d])
    BY DEF LinkMatchesCombatants
  <1> HIDE DEF before, next, after
  <1>2. e # None /\ d # None
    BY EncounterAssumption
  <1>3. link[c] = e <=> c \in before
    BY DEF LinkMatchesCombatants, before
  <1>4. CASE d = e
    <2>1. CharactersIn(combatants'[d]) = after
      BY <1>1, <1>4 DEF TypeOK, after
    <2> QED
      BY <1>1, <1>2, <1>3, <1>4, <2>1
  <1>5. CASE d # e
    <2>1. CharactersIn(combatants'[d]) = CharactersIn(combatants[d])
      BY <1>1, <1>5 DEF TypeOK
    <2>2. link[c] = d <=> c \in CharactersIn(combatants[d])
      BY DEF LinkMatchesCombatants
    <2>3. ASSUME c \in after \ before, link[c] = d PROVE FALSE
      <3>1. ~EncounterConflict(c, e)
        BY <1>1, <2>3
      <3>2. ~Live(d)
        BY <3>1, <2>2, <2>3, <1>2, <1>5 DEF EncounterConflict
      <3>3. CharactersIn(combatants[d]) = {}
        BY <3>2 DEF DeadEncountersAreEmpty, EmptyState, CharactersIn
      <3> QED
        BY <2>2, <2>3, <3>3
    <2> QED
      BY <1>1, <1>2, <1>3, <1>5, <2>1, <2>2, <2>3
  <1> QED
    BY <1>4, <1>5

\* A field this operation did not write keeps the value it had.
LEMMA UnchangedField ==
    ASSUME TypeOK, NEW e \in Encounters, NEW req \in ApplyRequest, NEW a \in Actors,
           AppliedOps(e, req)[a] # None,
           NEW f \in SyncedFields, f \notin Changed(req, a)
    PROVE  /\ combatants[e][a] # None
           /\ AppliedOps(e, req)[a].character = combatants[e][a].character
           /\ AppliedOps(e, req)[a].fields[f] = combatants[e][a].fields[f]
  <1>1. a \notin Added(req) /\ req.patches[a][f] = None
    BY DEF Changed, Patched, PatchFields
  <1>2. AppliedOps(e, req)[a] = Merged(combatants[e][a], req.patches[a])
    BY <1>1, AppliedOrigin
  <1>3. /\ combatants[e][a] # None
        /\ AppliedOps(e, req)[a].character = combatants[e][a].character
    BY <1>1, AppliedOrigin
  <1>4. AppliedOps(e, req)[a].fields[f] = combatants[e][a].fields[f]
    BY <1>1, <1>2 DEF Merged, PatchFields
  <1> QED
    BY <1>3, <1>4

\* Apply writes a sheet through from the only combatant that shows it.
LEMMA ApplyMirrors ==
    ASSUME TypeOK, DeadEncountersAreEmpty, LinkMatchesCombatants,
           OneCombatantPerCharacter, SheetMirrorsCombatant,
           NEW u \in Users, NEW e \in Encounters, NEW s, NEW req \in ApplyRequest,
           Apply(u, e, s, req)
    PROVE  SheetMirrorsCombatant'
  <1> DEFINE next == AppliedOps(e, req)
  <1>1. /\ combatants' = [combatants EXCEPT ![e] = next]
        /\ sheet' = [c \in Characters |-> SyncedSheet(next, req, c)]
    BY DEF Apply
  <1>2. OneCombatantPerCharacter'
    BY ApplyOneCombatant
  <1>3. LinkMatchesCombatants'
    BY ApplyLinks
  <1>4. next = combatants'[e]
    BY <1>1 DEF TypeOK
  <1> SUFFICES ASSUME NEW d \in Encounters, NEW a \in Actors,
                      combatants'[d][a] # None, combatants'[d][a].character # None,
                      NEW f \in SyncedFields
               PROVE  combatants'[d][a].fields[f] = sheet'[combatants'[d][a].character][f]
    BY DEF SheetMirrorsCombatant
  <1> DEFINE c == combatants'[d][a].character
             actors == SyncedActors(next, req, c)
  <1>5. c \in Characters
    BY <1>1, AppliedOpsType DEF TypeOK, Combatant
  <1>6. sheet'[c] = SyncedSheet(next, req, c)
    BY <1>1, <1>5
  <1>7. CASE d = e
    <2>1. actors \subseteq {a}
      BY <1>2, <1>4, <1>7 DEF SyncedActors, OneCombatantPerCharacter
    <2>2. CASE f \in Changed(req, a)
      <3>1. actors = {a}
        BY <1>4, <1>7, <2>1, <2>2 DEF SyncedActors
      <3>2. (CHOOSE b \in actors : TRUE) = a
        BY <3>1
      <3> QED
        BY <1>4, <1>6, <1>7, <2>2, <3>1, <3>2 DEF SyncedSheet
    <2>3. CASE f \notin Changed(req, a)
      <3>1. /\ combatants[e][a] # None
            /\ c = combatants[e][a].character
            /\ next[a].fields[f] = combatants[e][a].fields[f]
        BY <1>4, <1>7, <2>3, UnchangedField
      <3>2. combatants[e][a].fields[f] = sheet[c][f]
        BY <3>1 DEF SheetMirrorsCombatant
      <3>3. SyncedSheet(next, req, c)[f] = sheet[c][f]
        <4>1. CASE actors = {}
          BY <4>1 DEF SyncedSheet
        <4>2. CASE actors # {}
          <5>1. (CHOOSE b \in actors : TRUE) = a
            BY <2>1, <4>2
          <5> QED
            BY <2>3, <4>2, <5>1 DEF SyncedSheet
        <4> QED
          BY <4>1, <4>2
      <3> QED
        BY <1>4, <1>6, <1>7, <3>1, <3>2, <3>3
    <2> QED
      BY <2>2, <2>3
  <1>8. CASE d # e
    <2>1. combatants'[d] = combatants[d]
      BY <1>1, <1>8 DEF TypeOK
    <2>2. link'[c] = d
      BY <1>3, <1>5, InCombatants DEF LinkMatchesCombatants
    <2>3. c \notin CharactersIn(combatants'[e])
      BY <1>3, <1>5, <1>8, <2>2 DEF LinkMatchesCombatants
    <2>4. actors = {}
      BY <1>4, <1>5, <2>3, InCombatants DEF SyncedActors
    <2>5. sheet'[c] = sheet[c]
      BY <1>6, <2>4 DEF SyncedSheet
    <2> QED
      BY <2>1, <2>5 DEF SheetMirrorsCombatant
  <1> QED
    BY <1>7, <1>8

\* Apply extends the journal by exactly the new seq.
LEMMA ApplyJournal ==
    ASSUME TypeOK, JournalIsComplete,
           NEW u \in Users, NEW e \in Encounters, NEW s, NEW req \in ApplyRequest,
           Apply(u, e, s, req)
    PROVE  JournalIsComplete'
  <1>1. /\ seq' = [seq EXCEPT ![e] = seq[e] + 1]
        /\ events' = [events EXCEPT ![e] = events[e] \cup {seq[e] + 1}]
    BY DEF Apply, SeqAfter, EventsAfter
  <1>2. seq[e] \in Nat /\ events[e] = 1..seq[e]
    BY EncounterAssumption DEF TypeOK, JournalIsComplete
  <1>3. (1..seq[e]) \cup {seq[e] + 1} = 1..(seq[e] + 1)
    BY <1>2
  <1> QED
    BY <1>1, <1>2, <1>3 DEF JournalIsComplete, TypeOK

------------------------------------------------------------------------------
(* The inductive invariant *)

\* A character that no encounter owns is no combatant, so writing its sheet
\* or deleting its row disturbs no encounter.
LEMMA UnlinkedIsNoCombatant ==
    ASSUME LinkMatchesCombatants, NEW c \in Characters, link[c] = None,
           NEW e \in Encounters
    PROVE  c \notin CharactersIn(combatants[e])
  BY EncounterAssumption DEF LinkMatchesCombatants

LEMMA EncounterInvInit == Init => EncounterInv
  <1> SUFFICES ASSUME Init PROVE EncounterInv
    OBVIOUS
  <1>1. \A e \in Encounters : combatants[e] = EmptyState /\ link = [c \in Characters |-> None]
    BY DEF Init
  <1>2. \A e \in Encounters : CharactersIn(combatants[e]) = {}
    BY <1>1 DEF EmptyState, CharactersIn
  <1>3. LinkMatchesCombatants
    BY <1>1, <1>2, EncounterAssumption DEF LinkMatchesCombatants
  <1>4. JournalIsComplete
    BY DEF Init, JournalIsComplete
  <1> QED
    BY <1>1, <1>2, <1>3, <1>4, TypeInit
       DEF EncounterInv, DeadEncountersAreEmpty, OneCombatantPerCharacter,
           CombatantsArePlayable, SheetMirrorsCombatant, EmptyState

LEMMA EncounterInvNext == EncounterInv /\ [Next]_vars => EncounterInv'
  <1> SUFFICES ASSUME EncounterInv, [Next]_vars PROVE EncounterInv'
    OBVIOUS
  <1>1. TypeOK'
    BY TypeNext DEF EncounterInv
  \* Everything but TypeOK is untouched by a step that leaves the combatants
  \* and what they are compared with alone.
  <1>2. ASSUME UNCHANGED <<encounterRow, owner, seq, combatants, events,
                           characterRow, sheet, link>>,
               \A e \in Encounters : members[e] \subseteq members'[e]
        PROVE  EncounterInv'
    BY <1>1, <1>2
       DEF EncounterInv, DeadEncountersAreEmpty, LinkMatchesCombatants,
           OneCombatantPerCharacter, CombatantsArePlayable, SheetMirrorsCombatant,
           JournalIsComplete, Live, Exists, Participants
  <1>3. ASSUME NEW u \in Users, NEW e \in Encounters, Create(u, e) PROVE EncounterInv'
    <2>1. combatants[e] = EmptyState /\ CharactersIn(combatants[e]) = {}
      BY <1>3 DEF EncounterInv, DeadEncountersAreEmpty, Create, Live, EmptyState, CharactersIn
    <2>2. UNCHANGED <<seq, combatants, events, characterRow, sheet, link>>
      BY <1>3 DEF Create, characterVars
    <2>3. DeadEncountersAreEmpty'
      BY <1>3, <2>2 DEF EncounterInv, TypeOK, DeadEncountersAreEmpty, Create, Live
    <2>4. CombatantsArePlayable'
      BY <1>3, <2>1, <2>2
         DEF EncounterInv, TypeOK, CombatantsArePlayable, Create, Exists, Participants
    <2> QED
      BY <1>1, <2>2, <2>3, <2>4
         DEF EncounterInv, LinkMatchesCombatants, OneCombatantPerCharacter,
             SheetMirrorsCombatant, JournalIsComplete
  <1>4. ASSUME NEW u \in Users, NEW e \in Encounters, IssueInvite(u, e) PROVE EncounterInv'
    BY <1>2, <1>4 DEF IssueInvite, characterVars
  <1>5. ASSUME NEW u \in Users, NEW e \in Encounters, Join(u, e) PROVE EncounterInv'
    BY <1>2, <1>5 DEF Join, characterVars, EncounterInv, TypeOK
  <1>6. ASSUME NEW u \in Users, NEW e \in Encounters, Delete(u, e) PROVE EncounterInv'
    <2>1. \A d \in Encounters :
            /\ combatants'[d] = IF d = e THEN EmptyState ELSE combatants[d]
            /\ encounterRow'[d] = IF d = e THEN "deleted" ELSE encounterRow[d]
            /\ members'[d] = IF d = e THEN {} ELSE members[d]
            /\ owner'[d] = IF d = e THEN None ELSE owner[d]
            /\ seq'[d] = IF d = e THEN 0 ELSE seq[d]
            /\ events'[d] = IF d = e THEN {} ELSE events[d]
      BY <1>6 DEF Delete, EncounterInv, TypeOK
    <2>2. CharactersIn(EmptyState) = {}
      BY DEF CharactersIn, EmptyState
    <2>3. \A a \in Actors : EmptyState[a] = None
      BY DEF EmptyState
    <2>4. UNCHANGED <<characterRow, sheet>>
      BY <1>6 DEF Delete
    <2>5. DeadEncountersAreEmpty'
      BY <2>1 DEF EncounterInv, DeadEncountersAreEmpty, Live
    <2>6. LinkMatchesCombatants'
      <3> SUFFICES ASSUME NEW c \in Characters, NEW d \in Encounters
                   PROVE  link'[c] = d <=> c \in CharactersIn(combatants'[d])
        BY DEF LinkMatchesCombatants
      <3>1. link'[c] = IF link[c] = e THEN None ELSE link[c]
        BY <1>6 DEF Delete
      <3>2. link[c] = d <=> c \in CharactersIn(combatants[d])
        BY DEF EncounterInv, LinkMatchesCombatants
      <3> QED
        BY <2>1, <2>2, <3>1, <3>2, EncounterAssumption
    <2>7. OneCombatantPerCharacter'
      BY <2>1, <2>3 DEF EncounterInv, OneCombatantPerCharacter
    <2>8. CombatantsArePlayable'
      BY <2>1, <2>2, <2>4 DEF EncounterInv, CombatantsArePlayable, Exists, Participants
    <2>9. SheetMirrorsCombatant'
      BY <2>1, <2>3, <2>4 DEF EncounterInv, SheetMirrorsCombatant
    <2>10. JournalIsComplete'
      BY <2>1 DEF EncounterInv, JournalIsComplete
    <2> QED
      BY <1>1, <2>5, <2>6, <2>7, <2>8, <2>9, <2>10 DEF EncounterInv
  <1>7. ASSUME NEW u \in Users, NEW e \in Encounters, NEW req \in Requests,
               NEW s \in 0..MaxSeq, Apply(u, e, s, req)
        PROVE  EncounterInv'
    <2>1. req \in ApplyRequest
      BY EncounterAssumption
    <2>2. DeadEncountersAreEmpty'
      BY <1>7 DEF Apply, EncounterInv, TypeOK, DeadEncountersAreEmpty, Live
    <2>3. LinkMatchesCombatants'
      BY <1>7, <2>1, ApplyLinks DEF EncounterInv
    <2>4. OneCombatantPerCharacter'
      BY <1>7, <2>1, ApplyOneCombatant DEF EncounterInv
    <2>5. CombatantsArePlayable'
      BY <1>7, <2>1, ApplyPlayable DEF EncounterInv
    <2>6. SheetMirrorsCombatant'
      BY <1>7, <2>1, ApplyMirrors DEF EncounterInv
    <2>7. JournalIsComplete'
      BY <1>7, <2>1, ApplyJournal DEF EncounterInv
    <2> QED
      BY <1>1, <2>2, <2>3, <2>4, <2>5, <2>6, <2>7 DEF EncounterInv
  \* The sheet of a linked character, and the row, are out of reach of every
  \* other handler.
  <1>8. ASSUME UNCHANGED encounterVars, UNCHANGED link,
               \A c \in Characters : Exists(c) => Exists(c)' \/ link[c] = None,
               \A c \in Characters : sheet'[c] = sheet[c] \/ link[c] = None
        PROVE  EncounterInv'
    <2> USE DEF encounterVars
    <2>1. DeadEncountersAreEmpty'
      BY <1>8 DEF EncounterInv, DeadEncountersAreEmpty, Live
    <2>2. LinkMatchesCombatants' /\ OneCombatantPerCharacter' /\ JournalIsComplete'
      BY <1>8 DEF EncounterInv, LinkMatchesCombatants, OneCombatantPerCharacter, JournalIsComplete
    <2>3. CombatantsArePlayable'
      <3> SUFFICES ASSUME NEW e \in Encounters, NEW c \in CharactersIn(combatants[e])
                   PROVE  Exists(c)' /\ Controller[c] \in Participants(e)
        BY <1>8 DEF CombatantsArePlayable, Participants
      <3>1. c \in Characters
        BY DEF CharactersIn, EncounterInv, TypeOK, Combatant
      <3>2. link[c] # None
        BY <3>1, UnlinkedIsNoCombatant DEF EncounterInv
      <3> QED
        BY <1>8, <3>1, <3>2 DEF EncounterInv, CombatantsArePlayable
    <2>4. SheetMirrorsCombatant'
      <3> SUFFICES ASSUME NEW e \in Encounters, NEW a \in Actors,
                          combatants[e][a] # None, combatants[e][a].character # None,
                          NEW f \in SyncedFields
                   PROVE  combatants[e][a].fields[f] = sheet'[combatants[e][a].character][f]
        BY <1>8 DEF SheetMirrorsCombatant
      <3> DEFINE c == combatants[e][a].character
      <3>1. c \in Characters
        BY DEF EncounterInv, TypeOK, Combatant
      <3>2. link[c] # None
        BY <3>1, InCombatants, UnlinkedIsNoCombatant DEF EncounterInv
      <3> QED
        BY <1>8, <3>1, <3>2 DEF EncounterInv, SheetMirrorsCombatant
    <2> QED
      BY <1>1, <2>1, <2>2, <2>3, <2>4 DEF EncounterInv
  <1>9. ASSUME NEW c \in Characters, CreateCharacterV3(c) PROVE EncounterInv'
    BY <1>8, <1>9 DEF CreateCharacterV3, EncounterInv, TypeOK, Exists
  <1>10. ASSUME NEW c \in Characters, NEW hp \in Values, UpdateCharacterV3(c, hp)
         PROVE  EncounterInv'
    <2>1. \A d \in Characters : sheet'[d] = sheet[d] \/ link[d] = None
      BY <1>10 DEF UpdateCharacterV3, EncounterInv, TypeOK
    <2> QED
      BY <1>8, <1>10, <2>1 DEF UpdateCharacterV3, Exists
  <1>11. ASSUME NEW c \in Characters, NEW p \in SheetPatches, NEW other \in BOOLEAN,
                PatchCharacterRuntime(c, p, other)
         PROVE  EncounterInv'
    <2>1. \A d \in Characters : sheet'[d] = sheet[d] \/ link[d] = None
      BY <1>11 DEF PatchCharacterRuntime, RuntimeUpdatesForLocked, Overwritten,
                   EncounterInv, TypeOK
    <2> QED
      BY <1>8, <1>11, <2>1 DEF PatchCharacterRuntime, Exists
  <1>12. ASSUME NEW c \in Characters, DeleteCharacterV3(c) PROVE EncounterInv'
    BY <1>8, <1>12 DEF DeleteCharacterV3, Deletable, EncounterInv, TypeOK, Exists
  <1>13. ASSUME NEW u \in Users, NEW group \in SUBSET Characters,
                NEW patches \in [group -> SheetPatches],
                PostCharacterRuntimeCommand(u, group, patches)
         PROVE  EncounterInv'
    <2>1. \A d \in Characters : sheet'[d] = sheet[d] \/ link[d] = None
      BY <1>13 DEF PostCharacterRuntimeCommand, Commandable
    <2> QED
      BY <1>8, <1>13, <2>1 DEF PostCharacterRuntimeCommand, Exists
  <1>14. ASSUME NEW e \in Encounters, InviteExpires(e) PROVE EncounterInv'
    BY <1>2, <1>14 DEF InviteExpires, characterVars
  <1>15. CASE UNCHANGED vars
    BY <1>2, <1>15 DEF vars
  <1> QED
    BY <1>3, <1>4, <1>5, <1>6, <1>7, <1>9, <1>10, <1>11, <1>12, <1>13, <1>14, <1>15
       DEF Next, EncounterNext, CharacterNext, CommandNext

\* The tables agree with each other after every sequence of requests.
THEOREM EncounterInvariant == Spec => []EncounterInv
  BY EncounterInvInit, EncounterInvNext, PTL DEF Spec

\* current_encounter_id names exactly the encounter a character fights in.
THEOREM LinksCorrect == Spec => []LinkMatchesCombatants
  <1>1. EncounterInv => LinkMatchesCombatants
    BY DEF EncounterInv
  <1> QED
    BY <1>1, EncounterInvariant, PTL

\* A sheet and the combatant that shows it never diverge.
THEOREM MirrorsCorrect == Spec => []SheetMirrorsCombatant
  <1>1. EncounterInv => SheetMirrorsCombatant
    BY DEF EncounterInv
  <1> QED
    BY <1>1, EncounterInvariant, PTL

\* The write-through of a character never has two sources.
THEOREM OneCombatantCorrect == Spec => []OneCombatantPerCharacter
  <1>1. EncounterInv => OneCombatantPerCharacter
    BY DEF EncounterInv
  <1> QED
    BY <1>1, EncounterInvariant, PTL

\* No encounter is stranded on a deleted sheet or a locked-out controller.
THEOREM PlayableCorrect == Spec => []CombatantsArePlayable
  <1>1. EncounterInv => CombatantsArePlayable
    BY DEF EncounterInv
  <1> QED
    BY <1>1, EncounterInvariant, PTL

\* The journal a client replays has no gap.
THEOREM JournalCorrect == Spec => []JournalIsComplete
  <1>1. EncounterInv => JournalIsComplete
    BY DEF EncounterInv
  <1> QED
    BY <1>1, EncounterInvariant, PTL

------------------------------------------------------------------------------
(* What a step may never do *)

\* Apply links the characters that enter, unlinks those that leave, and touches
\* the sheets of characters that are in the encounter afterwards only.
LEMMA ApplyReach ==
    ASSUME EncounterInv, NEW u \in Users, NEW e \in Encounters, NEW s,
           NEW req \in ApplyRequest, Apply(u, e, s, req), NEW c \in Characters
    PROVE  /\ c \in CharactersIn(AppliedOps(e, req)) => link[c] = e \/ link'[c] = e
           /\ sheet'[c] # sheet[c] =>
                 /\ c \in CharactersIn(AppliedOps(e, req))
                 /\ revision'[c] = revision[c] + 1
  <1> DEFINE next == AppliedOps(e, req)
             synced == {d \in Characters : SyncedActors(next, req, d) # {}}
  <1>1. /\ link' = [d \in Characters |->
                      IF d \in CharactersIn(next) \ CharactersIn(combatants[e]) THEN e
                      ELSE IF d \in CharactersIn(combatants[e]) \ CharactersIn(next) /\ link[d] = e
                           THEN None ELSE link[d]]
        /\ sheet' = [d \in Characters |-> SyncedSheet(next, req, d)]
        /\ revision' = Bumped(synced)
    BY DEF Apply
  <1>2. c \in CharactersIn(next) => link[c] = e \/ link'[c] = e
    BY <1>1 DEF EncounterInv, LinkMatchesCombatants
  <1>3. ASSUME sheet'[c] # sheet[c]
        PROVE  c \in CharactersIn(next) /\ revision'[c] = revision[c] + 1
    <2>1. SyncedActors(next, req, c) # {}
      BY <1>1, <1>3 DEF SyncedSheet
    <2>2. c \in CharactersIn(next)
      BY <2>1, InCombatants DEF SyncedActors
    <2>3. c \in synced
      BY <2>1
    <2> QED
      BY <1>1, <2>2, <2>3 DEF Bumped
  <1> QED
    BY <1>2, <1>3

\* The handlers of sheets move the revisions of the rows they change, and leave
\* linked rows, links, journals and encounters alone.
LEMMA SheetSteps ==
    ASSUME TypeOK, CharacterNext \/ CommandNext
    PROVE  /\ UNCHANGED <<encounterRow, combatants, seq, link>>
           /\ \A c \in Characters :
                 /\ sheet'[c] # sheet[c] => link[c] = None /\ revision'[c] = revision[c] + 1
                 /\ journal'[c] \subseteq journal[c]
  <1> USE DEF TypeOK, encounterVars
  <1>1. ASSUME NEW c \in Characters, CreateCharacterV3(c) \/ DeleteCharacterV3(c)
        PROVE  /\ UNCHANGED <<encounterRow, combatants, seq, link, sheet>>
               /\ \A d \in Characters : journal'[d] \subseteq journal[d]
    BY <1>1 DEF CreateCharacterV3, DeleteCharacterV3
  <1>2. ASSUME NEW c \in Characters, NEW hp \in Values, UpdateCharacterV3(c, hp)
        PROVE  /\ UNCHANGED <<encounterRow, combatants, seq, link, journal>>
               /\ \A d \in Characters : sheet'[d] # sheet[d] =>
                     link[d] = None /\ revision'[d] = revision[d] + 1
    BY <1>2 DEF UpdateCharacterV3
  <1>3. ASSUME NEW c \in Characters, NEW p \in SheetPatches, NEW other \in BOOLEAN,
               PatchCharacterRuntime(c, p, other)
        PROVE  /\ UNCHANGED <<encounterRow, combatants, seq, link, journal>>
               /\ \A d \in Characters : sheet'[d] # sheet[d] =>
                     link[d] = None /\ revision'[d] = revision[d] + 1
    BY <1>3 DEF PatchCharacterRuntime, RuntimeUpdatesForLocked, Overwritten
  <1>4. ASSUME NEW u \in Users, NEW group \in SUBSET Characters,
               NEW patches \in [group -> SheetPatches],
               PostCharacterRuntimeCommand(u, group, patches)
        PROVE  /\ UNCHANGED <<encounterRow, combatants, seq, link, journal>>
               /\ \A d \in Characters : sheet'[d] # sheet[d] =>
                     link[d] = None /\ revision'[d] = revision[d] + 1
    BY <1>4 DEF PostCharacterRuntimeCommand, Commandable, Bumped
  <1> QED
    BY <1>1, <1>2, <1>3, <1>4 DEF CharacterNext, CommandNext

\* The requests of the remaining routes leave sheets and journals alone, and
\* change combatants only by deleting their encounter.
LEMMA MembershipSteps ==
    ASSUME TypeOK, NEW u \in Users, NEW e \in Encounters,
           Create(u, e) \/ IssueInvite(u, e) \/ Join(u, e) \/ Delete(u, e) \/ InviteExpires(e)
    PROVE  /\ UNCHANGED <<sheet, journal>>
           /\ \A d \in Encounters : encounterRow'[d] = "live" => combatants'[d] = combatants[d]
  BY DEF Create, IssueInvite, Join, Delete, InviteExpires, TypeOK, characterVars, RowStates

\* Every write of a sheet's runtime is visible in its revision.
THEOREM RevisionCorrect == Spec => RuntimeChangeMovesRevision
  <1>1. EncounterInv /\ [Next]_vars =>
          [\A c \in Characters : sheet'[c] # sheet[c] => revision'[c] = revision[c] + 1]_vars
    <2> SUFFICES ASSUME EncounterInv, Next, NEW c \in Characters, sheet'[c] # sheet[c]
                 PROVE  revision'[c] = revision[c] + 1
      BY DEF vars
    <2> QED
      BY ApplyReach, SheetSteps, MembershipSteps, EncounterAssumption
         DEF Next, EncounterNext, InviteExpires, characterVars, EncounterInv
  <1> QED
    BY <1>1, EncounterInvariant, PTL DEF Spec, RuntimeChangeMovesRevision

\* A fighting character's runtime changes only where its companions see it.
THEOREM LinkedRuntimeCorrect == Spec => LinkedRuntimeBelongsToEncounter
  <1>1. EncounterInv /\ [Next]_vars =>
          [\A c \in Characters, e \in Encounters :
              (link[c] = e /\ link'[c] = e /\ sheet'[c] # sheet[c]) =>
                 seq'[e] = seq[e] + 1]_vars
    <2> SUFFICES ASSUME EncounterInv, Next, NEW c \in Characters, NEW e \in Encounters,
                        link[c] = e, link'[c] = e, sheet'[c] # sheet[c]
                 PROVE  seq'[e] = seq[e] + 1
      BY DEF vars
    <2>1. ASSUME NEW u \in Users, NEW d \in Encounters, NEW s \in 0..MaxSeq,
                 NEW req \in Requests, Apply(u, d, s, req)
          PROVE  seq'[e] = seq[e] + 1
      <3>1. d = e
        BY <2>1, ApplyReach, EncounterAssumption
      <3> QED
        BY <2>1, <3>1 DEF Apply, SeqAfter, EncounterInv, TypeOK
    <2> QED
      BY <2>1, SheetSteps, MembershipSteps, EncounterAssumption
         DEF Next, EncounterNext, InviteExpires, characterVars, EncounterInv
  <1> QED
    BY <1>1, EncounterInvariant, PTL DEF Spec, LinkedRuntimeBelongsToEncounter

\* Equal seqs of a live encounter mean equal combatants.
THEOREM StateChangeCorrect == Spec => StateChangeMovesSeq
  <1>1. EncounterInv /\ [Next]_vars =>
          [\A e \in Encounters :
              (encounterRow'[e] = "live" /\ combatants'[e] # combatants[e]) =>
                 seq'[e] = seq[e] + 1]_vars
    <2> SUFFICES ASSUME EncounterInv, Next, NEW e \in Encounters,
                        encounterRow'[e] = "live", combatants'[e] # combatants[e]
                 PROVE  seq'[e] = seq[e] + 1
      BY DEF vars
    <2>1. ASSUME NEW u \in Users, NEW d \in Encounters, NEW s \in 0..MaxSeq,
                 NEW req \in Requests, Apply(u, d, s, req)
          PROVE  seq'[e] = seq[e] + 1
      BY <2>1 DEF Apply, SeqAfter, EncounterInv, TypeOK
    <2> QED
      BY <2>1, SheetSteps, MembershipSteps
         DEF Next, EncounterNext, InviteExpires, EncounterInv
  <1> QED
    BY <1>1, EncounterInvariant, PTL DEF Spec, StateChangeMovesSeq

\* A character's journal tells of its own battles only.
THEOREM JournalEntriesCorrect == Spec => JournalOnlyOfCombatants
  <1>1. EncounterInv /\ [Next]_vars =>
          [\A c \in Characters, e \in Encounters :
              (e \in journal'[c] /\ e \notin journal[c]) => e \in {link[c], link'[c]}]_vars
    <2> SUFFICES ASSUME EncounterInv, Next, NEW c \in Characters, NEW e \in Encounters,
                        e \in journal'[c], e \notin journal[c]
                 PROVE  e \in {link[c], link'[c]}
      BY DEF vars
    <2>1. ASSUME NEW u \in Users, NEW d \in Encounters, NEW s \in 0..MaxSeq,
                 NEW req \in Requests, Apply(u, d, s, req)
          PROVE  e \in {link[c], link'[c]}
      <3>1. d = e /\ c \in req.log /\ req \in ApplyRequest
        BY <2>1, EncounterAssumption DEF Apply
      <3>2. c \in CharactersIn(combatants[e]) \/ c \in CharactersIn(req.add)
        BY <2>1, <3>1 DEF Apply, ApplyPolicy, LogsCombatantsOnly
      <3>3. CASE c \in CharactersIn(combatants[e])
        BY <3>3 DEF EncounterInv, LinkMatchesCombatants
      <3>4. CASE c \in CharactersIn(req.add)
        <4>1. PICK a \in Actors : req.add[a] # None /\ req.add[a].character = c
          BY <3>4, InCombatants
        <4>2. AppliedOps(e, req)[a] = NormalizedAdd(req, a) /\ a \in Added(req)
          BY <4>1 DEF AppliedOps, Added
        <4>3. NormalizedAdd(req, a) \in Combatant /\ NormalizedAdd(req, a).character = c
          BY <3>1, <4>1, <4>2, NormalizedAddType DEF EncounterInv
        <4>4. c \in CharactersIn(AppliedOps(e, req))
          BY <4>2, <4>3, InCombatants, EncounterAssumption
        <4> QED
          BY <2>1, <3>1, <4>4, ApplyReach
      <3> QED
        BY <3>2, <3>3, <3>4
    <2> QED
      BY <2>1, SheetSteps, MembershipSteps
         DEF Next, EncounterNext, InviteExpires, characterVars, EncounterInv
  <1> QED
    BY <1>1, EncounterInvariant, PTL DEF Spec, JournalOnlyOfCombatants
==============================================================================
