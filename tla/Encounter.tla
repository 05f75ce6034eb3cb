------------------------------ MODULE Encounter ------------------------------
(***************************************************************************)
(* The server side of online encounters: the tables `encounters`,          *)
(* `encounter_events` and `characters_v3`, and the transactions of         *)
(* EncounterController and CharacterV3Controller that write them.          *)
(*                                                                         *)
(* Every handler is one database transaction that locks the encounter row, *)
(* then the character rows in ascending id, before it reads anything it    *)
(* decides on, so a committed request is one step here.  A refused request *)
(* (any 4xx) rolls back and is a step that changes nothing: it is not      *)
(* written out.                                                            *)
(*                                                                         *)
(* Data kept: each table column that a guard or a property reads is one    *)
(* variable, indexed by the row's id.  The order of combatants, the round  *)
(* and the active index do not influence any of these transactions and     *)
(* are left to the module on the encounter reducer.                        *)
(*                                                                         *)
(* A definition marked (fault) is a plausible bug in the definition that   *)
(* follows it; no specification uses it.  Substituted for that definition, *)
(* it shows that a property notices the bug.                               *)
(***************************************************************************)
EXTENDS Naturals, FiniteSets

CONSTANTS
    Users,          \* accounts
    Characters,     \* ids of characters_v3 rows
    Encounters,     \* ids of encounters rows
    Actors,         \* actorIds a client may choose for a combatant
    Controller,     \* characters_v3.user_id: [Characters -> Users], immutable
    SyncedFields,   \* combatant fields that are written through to the sheet
    LocalFields,    \* combatant fields that live in the encounter only
    Values,         \* values of a runtime field
    None,           \* nil: no encounter, no character, absent JSON key
    Requests,       \* bodies of POST /encounters/:id/apply that are tried
    SheetPatches,   \* runtime patches that are tried on a sheet
    MaxSeq,         \* bound on encounters.seq
    MaxRevision     \* bound on characters_v3.runtime_revision

PatchFields == SyncedFields \cup LocalFields

\* A partial assignment to the runtime fields: None means "key not present".
FieldSet == [PatchFields -> Values \cup {None}]

\* An element of state.combatants; a monster has no characterId.
Combatant == [character : Characters \cup {None}, fields : FieldSet]

ApplyRequest ==
    [remove  : SUBSET Actors,
     patches : [Actors -> FieldSet],
     add     : [Actors -> Combatant \cup {None}],
     log     : SUBSET Characters]

SheetPatch == [SyncedFields -> Values \cup {None}]

ASSUME EncounterAssumption ==
    /\ Controller \in [Characters -> Users]
    /\ SyncedFields \subseteq {"hp", "temp", "activeEffects"}
    /\ LocalFields \subseteq {"pendingSaves", "pendingAttacks"}
    /\ None \notin Users \cup Characters \cup Encounters \cup Values \cup Combatant
    /\ Requests \subseteq ApplyRequest
    /\ SheetPatches \subseteq SheetPatch
    /\ MaxSeq \in Nat /\ MaxRevision \in Nat

VARIABLES
    encounterRow,   \* "unborn", "live" or "deleted": ids are random and never reused
    owner,          \* encounters.owner_user_id
    members,        \* encounters.member_user_ids
    seq,            \* encounters.seq
    combatants,     \* encounters.state.combatants, keyed by actorId
    events,         \* the seqs of the encounter_events rows of an encounter
    invite,         \* is an unexpired invite token of the encounter in circulation?
    characterRow,   \* "unborn", "live" or "deleted"
    sheet,          \* current_hp, turn_state.temp_hp and active_effects of a row
    revision,       \* characters_v3.runtime_revision
    link,           \* characters_v3.current_encounter_id
    journal         \* encounters whose operations wrote rows of character_events

encounterVars == <<encounterRow, owner, members, seq, combatants, events, invite>>
characterVars == <<characterRow, sheet, revision, link, journal>>
vars == <<encounterRow, owner, members, seq, combatants, events, invite,
          characterRow, sheet, revision, link, journal>>

RowStates == {"unborn", "live", "deleted"}

EmptyState == [a \in Actors |-> None]

Init ==
    /\ encounterRow = [e \in Encounters |-> "unborn"]
    /\ owner = [e \in Encounters |-> None]
    /\ members = [e \in Encounters |-> {}]
    /\ seq = [e \in Encounters |-> 0]
    /\ combatants = [e \in Encounters |-> EmptyState]
    /\ events = [e \in Encounters |-> {}]
    /\ invite = [e \in Encounters |-> FALSE]
    /\ characterRow = [c \in Characters |-> "unborn"]
    /\ sheet \in [Characters -> [SyncedFields -> Values]]
    /\ revision = [c \in Characters |-> 0]
    /\ link = [c \in Characters |-> None]
    /\ journal = [c \in Characters |-> {}]

------------------------------------------------------------------------------
(* Reading an encounter *)

Live(e) == encounterRow[e] = "live"

Exists(c) == characterRow[c] = "live"

Participants(e) == members[e] \cup {owner[e]}

\* characterIDsInState, on any value of the combatants map.
CharactersIn(comb) == {comb[a].character : a \in {b \in Actors : comb[b] # None}} \ {None}

\* loadEncounterCharacters: a combatant whose row is gone makes the request fail.
CombatantRowsExist(e) == \A c \in CharactersIn(combatants[e]) : Exists(c)

ControlsCombatant(u, e) ==
    \E c \in CharactersIn(combatants[e]) : Controller[c] = u

\* The owner may touch every combatant, a player the ones of her characters.
MayTouch(u, e, a) ==
    \/ u = owner[e]
    \/ /\ combatants[e][a].character # None
       /\ Controller[combatants[e][a].character] = u

------------------------------------------------------------------------------
(* CRUD of encounters and membership *)

Create(u, e) ==
    /\ encounterRow[e] = "unborn"
    /\ encounterRow' = [encounterRow EXCEPT ![e] = "live"]
    /\ owner' = [owner EXCEPT ![e] = u]
    /\ members' = [members EXCEPT ![e] = {u}]
    /\ UNCHANGED <<seq, combatants, events, invite, characterVars>>

IssueInvite(u, e) ==
    /\ Live(e)
    /\ u = owner[e]
    /\ invite' = [invite EXCEPT ![e] = TRUE]
    /\ UNCHANGED <<encounterRow, owner, members, seq, combatants, events, characterVars>>

\* The token's fifteen minutes are over.
InviteExpires(e) ==
    /\ invite[e]
    /\ invite' = [invite EXCEPT ![e] = FALSE]
    /\ UNCHANGED <<encounterRow, owner, members, seq, combatants, events, characterVars>>

\* encounterJoinAllowed, or an unexpired token of exactly this encounter.
JoinAuthorized(u, e) ==
    \/ u \in Participants(e)
    \/ ControlsCombatant(u, e)
    \/ invite[e]

Join(u, e) ==
    /\ Live(e)
    /\ CombatantRowsExist(e)
    /\ JoinAuthorized(u, e)
    /\ u \notin Participants(e)      \* otherwise the row is left as it is
    /\ members' = [members EXCEPT ![e] = @ \cup {u}]
    /\ UNCHANGED <<encounterRow, owner, seq, combatants, events, invite, characterVars>>

\* The row, its journal and every link to it go in one transaction.
Delete(u, e) ==
    /\ Live(e)
    /\ u = owner[e]
    /\ encounterRow' = [encounterRow EXCEPT ![e] = "deleted"]
    /\ owner' = [owner EXCEPT ![e] = None]
    /\ members' = [members EXCEPT ![e] = {}]
    /\ seq' = [seq EXCEPT ![e] = 0]
    /\ combatants' = [combatants EXCEPT ![e] = EmptyState]
    /\ events' = [events EXCEPT ![e] = {}]
    /\ invite' = [invite EXCEPT ![e] = FALSE]
    /\ link' = [c \in Characters |-> IF link[c] = e THEN None ELSE link[c]]
    /\ UNCHANGED <<characterRow, sheet, revision, journal>>

------------------------------------------------------------------------------
(* Apply: one battle operation *)

Patched(req, a) == {f \in PatchFields : req.patches[a][f] # None}

Added(req) == {a \in Actors : req.add[a] # None}

\* (fault) the request is not compared with itself
AddsNewCharacterUnlessKnown(e, req, a) ==
    req.add[a].character \notin CharactersIn(combatants[e])

\* The character added as a is neither fighting already, even if this request
\* removes it, nor added twice.
AddsNewCharacter(e, req, a) ==
    /\ req.add[a].character \notin CharactersIn(combatants[e])
    /\ \A b \in Added(req) \ {a} : req.add[b].character # req.add[a].character

\* (fault) any character's journal may be written
LogsAnyone(e, req) == TRUE

\* Journal entries may address the combatants' characters only.
LogsCombatantsOnly(e, req) ==
    req.log \subseteq CharactersIn(combatants[e]) \cup CharactersIn(req.add)

\* validateEncounterApplyPolicy.  An added actorId is compared with the
\* combatants before the request's own removals.
ApplyPolicy(u, e, req) ==
    /\ u \in Participants(e)
    /\ \A c \in CharactersIn(combatants[e]) : Controller[c] \in Participants(e)
    /\ \A a \in Actors :
          (Patched(req, a) # {} \/ a \in req.remove) =>
              combatants[e][a] # None /\ MayTouch(u, e, a)
    /\ \A a \in Added(req) :
          /\ combatants[e][a] = None
          /\ IF req.add[a].character = None
             THEN u = owner[e]
             ELSE /\ Exists(req.add[a].character)
                  /\ Controller[req.add[a].character] = u
                  /\ AddsNewCharacter(e, req, a)
    /\ LogsCombatantsOnly(e, req)

\* (fault) the combatant is built from the sheet's columns only
NormalizedAddWithoutPending(req, a) ==
    LET c == req.add[a].character
    IN  IF c = None THEN req.add[a] ELSE [character |-> c, fields |-> sheet[c]]

\* normalizeEncounterAdds: a character enters with its sheet's values and no
\* pending saves or attacks, whatever the browser sent.
NormalizedAdd(req, a) ==
    LET c == req.add[a].character
    IN  IF c = None
        THEN req.add[a]
        ELSE [character |-> c,
              fields |-> [f \in PatchFields |->
                            IF f \in SyncedFields THEN sheet[c][f] ELSE None]]

\* One patch: a shallow merge into the combatant.
Merged(x, set) ==
    [character |-> x.character,
     fields |-> [f \in PatchFields |-> IF set[f] = None THEN x.fields[f] ELSE set[f]]]

\* applyOps: removals, then patches, then additions.
AppliedOps(e, req) ==
    [a \in Actors |->
        IF a \in Added(req) THEN NormalizedAdd(req, a)
        ELSE IF a \in req.remove \/ combatants[e][a] = None THEN None
        ELSE Merged(combatants[e][a], req.patches[a])]

\* (fault) the other encounter is not looked at
EncounterConflictIgnored(c, e) == FALSE

\* encounterConflict: the character really takes part in another live
\* encounter; a link to a deleted one, or to one it is no longer in, is stale.
EncounterConflict(c, e) ==
    /\ link[c] \notin {None, e}
    /\ Live(link[c])
    /\ c \in CharactersIn(combatants[link[c]])

\* The fields of combatant a that this operation wrote (`changed` in Apply).
Changed(req, a) == IF a \in Added(req) THEN PatchFields ELSE Patched(req, a)

\* syncCombatantsToCharacters: the combatants whose sheets are written.
SyncedActors(after, req, c) ==
    {a \in Actors : /\ after[a] # None
                    /\ after[a].character = c
                    /\ Changed(req, a) \cap SyncedFields # {}}

SyncedSheet(after, req, c) ==
    LET a == CHOOSE b \in SyncedActors(after, req, c) : TRUE
    IN  IF SyncedActors(after, req, c) = {} THEN sheet[c]
        ELSE [f \in SyncedFields |->
                IF f \in Changed(req, a) THEN after[a].fields[f] ELSE sheet[c][f]]

\* (fault) additions and removals keep the version
SeqAfterPatchesOnly(e, req) ==
    IF \A a \in Actors : Patched(req, a) = {} THEN seq[e] ELSE seq[e] + 1

\* Every operation, however small, makes a new version of the encounter...
SeqAfter(e, req) == seq[e] + 1

\* (fault) the event is created before seq is advanced
EventsAfterLate(e, s) == events[e] \cup ({s - 1} \ {0})

\* ... and one row of its journal.
EventsAfter(e, s) == events[e] \cup {s}

\* (fault) the write-through forgets the revision
BumpedNever(rows) == revision

\* runtime_revision + 1 on the rows that are written.
Bumped(rows) ==
    [c \in Characters |-> IF c \in rows THEN revision[c] + 1 ELSE revision[c]]

Apply(u, e, expectedSeq, req) ==
    LET before == CharactersIn(combatants[e])
        next   == AppliedOps(e, req)
        after  == CharactersIn(next)
        synced == {c \in Characters : SyncedActors(next, req, c) # {}}
    IN  /\ Live(e)
        /\ expectedSeq = seq[e]
        /\ seq[e] < MaxSeq
        /\ \A c \in synced : revision[c] < MaxRevision
        /\ CombatantRowsExist(e)
        /\ ApplyPolicy(u, e, req)
        /\ \A c \in after \ before : ~EncounterConflict(c, e)
        /\ combatants' = [combatants EXCEPT ![e] = next]
        /\ seq' = [seq EXCEPT ![e] = SeqAfter(e, req)]
        /\ events' = [events EXCEPT ![e] = EventsAfter(e, SeqAfter(e, req))]
        /\ link' = [c \in Characters |->
                      IF c \in after \ before THEN e
                      ELSE IF c \in before \ after /\ link[c] = e THEN None
                      ELSE link[c]]
        /\ sheet' = [c \in Characters |-> SyncedSheet(next, req, c)]
        /\ revision' = Bumped(synced)
        /\ journal' = [c \in Characters |->
                         IF c \in req.log THEN journal[c] \cup {e} ELSE journal[c]]
        /\ UNCHANGED <<encounterRow, owner, members, invite, characterRow>>

------------------------------------------------------------------------------
(* Character sheets *)

CreateCharacterV3(c) ==
    /\ characterRow[c] = "unborn"
    /\ characterRow' = [characterRow EXCEPT ![c] = "live"]
    /\ UNCHANGED <<encounterVars, sheet, revision, link, journal>>

\* Overwrite the fields of s that p assigns.
Overwritten(s, p) == [f \in SyncedFields |-> IF p[f] = None THEN s[f] ELSE p[f]]

\* PUT /characters-v3/:id replaces the whole draft; of the runtime fields it
\* holds current_hp only, and not while an encounter owns it.
UpdateCharacterV3(c, hp) ==
    /\ Exists(c)
    /\ revision[c] < MaxRevision
    /\ sheet' = [sheet EXCEPT ![c] =
                   IF link[c] = None
                   THEN [f \in SyncedFields |-> IF f = "hp" THEN hp ELSE sheet[c][f]]
                   ELSE @]
    /\ revision' = [revision EXCEPT ![c] = @ + 1]
    /\ UNCHANGED <<encounterVars, characterRow, link, journal>>

\* (fault) the link is not looked at
RuntimeUpdatesForUnlocked(c, patch) == patch

\* runtimeUpdatesForLockedCharacter: an encounter owns the synced fields of a
\* character linked to it, so the request's values are dropped.
RuntimeUpdatesForLocked(c, patch) ==
    IF link[c] = None THEN patch ELSE [f \in SyncedFields |-> None]

\* PATCH /characters-v3/:id/runtime.  `other` says whether the body also holds
\* channels that no encounter owns (equipment, resources, turn flags, ...).
PatchCharacterRuntime(c, patch, other) ==
    LET effective == RuntimeUpdatesForLocked(c, patch)
        \* temp_hp travels inside turn_state, which is rewritten even when the
        \* encounter's value of temp_hp is put back into it.
        hasUpdates == \/ other
                      \/ \E f \in SyncedFields : effective[f] # None
                      \/ "temp" \in SyncedFields /\ patch["temp"] # None
    IN  /\ Exists(c)
        /\ hasUpdates
        /\ revision[c] < MaxRevision
        /\ sheet' = [sheet EXCEPT ![c] = Overwritten(@, effective)]
        /\ revision' = [revision EXCEPT ![c] = @ + 1]
        /\ UNCHANGED <<encounterVars, characterRow, link, journal>>

\* (fault) commands reach into running encounters
CommandableThoughLinked(u, c) == Exists(c) /\ Controller[c] = u

Commandable(u, c) == Exists(c) /\ Controller[c] = u /\ link[c] = None

\* POST /characters-v3/runtime-commands: all participants or none.  The
\* idempotency receipt is the subject of the module on runtime commands.
PostCharacterRuntimeCommand(u, group, patches) ==
    /\ group # {}
    /\ \A c \in group : Commandable(u, c) /\ revision[c] < MaxRevision
    /\ sheet' = [c \in Characters |->
                   IF c \in group THEN Overwritten(sheet[c], patches[c]) ELSE sheet[c]]
    /\ revision' = Bumped(group)
    /\ UNCHANGED <<encounterVars, characterRow, link, journal>>

\* (fault) the link is not looked at
DeletableWhileLinked(c) == Exists(c)

Deletable(c) == Exists(c) /\ link[c] = None

DeleteCharacterV3(c) ==
    /\ Deletable(c)
    /\ characterRow' = [characterRow EXCEPT ![c] = "deleted"]
    /\ journal' = [journal EXCEPT ![c] = {}]
    /\ UNCHANGED <<encounterVars, sheet, revision, link>>

------------------------------------------------------------------------------

EncounterNext ==
    \E u \in Users, e \in Encounters :
        \/ Create(u, e)
        \/ IssueInvite(u, e)
        \/ Join(u, e)
        \/ Delete(u, e)
        \/ \E req \in Requests, s \in 0..MaxSeq : Apply(u, e, s, req)

CharacterNext ==
    \E c \in Characters :
        \/ CreateCharacterV3(c)
        \/ \E hp \in Values : UpdateCharacterV3(c, hp)
        \/ \E p \in SheetPatches, other \in BOOLEAN : PatchCharacterRuntime(c, p, other)
        \/ DeleteCharacterV3(c)

CommandNext ==
    \E u \in Users, group \in SUBSET Characters :
        \E patches \in [group -> SheetPatches] :
            PostCharacterRuntimeCommand(u, group, patches)

Next ==
    \/ EncounterNext
    \/ CharacterNext
    \/ CommandNext
    \/ \E e \in Encounters : InviteExpires(e)

Spec == Init /\ [][Next]_vars

------------------------------------------------------------------------------
(* What the tables promise *)

TypeOK ==
    /\ encounterRow \in [Encounters -> RowStates]
    /\ owner \in [Encounters -> Users \cup {None}]
    /\ members \in [Encounters -> SUBSET Users]
    /\ seq \in [Encounters -> 0..MaxSeq]
    /\ combatants \in [Encounters -> [Actors -> Combatant \cup {None}]]
    /\ events \in [Encounters -> SUBSET (1..MaxSeq)]
    /\ invite \in [Encounters -> BOOLEAN]
    /\ characterRow \in [Characters -> RowStates]
    /\ sheet \in [Characters -> [SyncedFields -> Values]]
    /\ revision \in [Characters -> 0..MaxRevision]
    /\ link \in [Characters -> Encounters \cup {None}]
    /\ journal \in [Characters -> SUBSET Encounters]

\* current_encounter_id and the combatants of the encounters always agree: a
\* character is linked to exactly the encounter it is a combatant of.  Nothing
\* but the handlers' order of checks keeps the column and the JSON together:
\* a link left behind locks the character out of its own sheet, a missing one
\* lets two encounters own the same hit points.
LinkMatchesCombatants ==
    \A c \in Characters, e \in Encounters :
        link[c] = e <=> c \in CharactersIn(combatants[e])

\* The row of a deleted encounter and the state in it are gone together.
DeadEncountersAreEmpty ==
    \A e \in Encounters : ~Live(e) => combatants[e] = EmptyState

\* No encounter holds two combatants of one character, so the write-through
\* of a character's runtime never has two sources.
OneCombatantPerCharacter ==
    \A e \in Encounters, a, b \in Actors :
        (/\ combatants[e][a] # None
         /\ combatants[e][b] # None
         /\ combatants[e][a].character # None
         /\ combatants[e][a].character = combatants[e][b].character) => a = b

\* While a character fights, its sheet and its combatant show the same hit
\* points, temporary hit points and effects, whichever of Apply, PUT, PATCH
\* and the runtime commands wrote last.
SheetMirrorsCombatant ==
    \A e \in Encounters, a \in Actors :
        (combatants[e][a] # None /\ combatants[e][a].character # None) =>
            \A f \in SyncedFields :
                combatants[e][a].fields[f] = sheet[combatants[e][a].character][f]

\* A combatant's character row exists and belongs to a participant: an
\* encounter can neither point at a deleted sheet, which would make every later
\* Apply and Join fail, nor hold a character whose controller is locked out.
CombatantsArePlayable ==
    \A e \in Encounters : \A c \in CharactersIn(combatants[e]) :
        Exists(c) /\ Controller[c] \in Participants(e)

\* The journal of an encounter is gapless up to its seq: a client that
\* replays from any seq it has seen reaches the current state.
JournalIsComplete ==
    \A e \in Encounters : events[e] = 1..seq[e]

\* The inductive invariant: LinkMatchesCombatants survives a stale-looking link
\* only because dead encounters are empty, and SheetMirrorsCombatant survives a
\* write-through only because no other combatant shows the same sheet.
EncounterInv ==
    /\ TypeOK
    /\ DeadEncountersAreEmpty
    /\ LinkMatchesCombatants
    /\ OneCombatantPerCharacter
    /\ CombatantsArePlayable
    /\ SheetMirrorsCombatant
    /\ JournalIsComplete

\* Whoever changes the runtime of an existing sheet moves its
\* runtime_revision: a writer that compares the revision it read with the row
\* notices every change made in between, by whichever route.
RuntimeChangeMovesRevision ==
    [][\A c \in Characters :
          sheet'[c] # sheet[c] => revision'[c] = revision[c] + 1]_vars

\* While a character stays linked to an encounter, its runtime changes only in
\* a step that also advances that encounter's seq, so every participant gets
\* to see the change.
LinkedRuntimeBelongsToEncounter ==
    [][\A c \in Characters, e \in Encounters :
          (link[c] = e /\ link'[c] = e /\ sheet'[c] # sheet[c]) =>
              seq'[e] = seq[e] + 1]_vars

\* The combatants of a live encounter change only with its seq, so that equal
\* seqs mean equal states: this is what expected_seq relies on.
StateChangeMovesSeq ==
    [][\A e \in Encounters :
          (encounterRow'[e] = "live" /\ combatants'[e] # combatants[e]) =>
              seq'[e] = seq[e] + 1]_vars

\* An encounter writes into a character's journal only when the character is,
\* or was until this very operation, one of its combatants.
JournalOnlyOfCombatants ==
    [][\A c \in Characters, e \in Encounters :
          (e \in journal'[c] /\ e \notin journal[c]) => e \in {link[c], link'[c]}]_vars
==============================================================================
