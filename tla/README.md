# A verification development for dnd_cards

This directory models the parts of dnd_cards that several people, browser tabs,
server processes and database transactions act on at the same time: the table of
an online encounter, the character sheets it writes through to, the stream that
keeps every browser at that table up to date, the commands that change several sheets
at once, and the world of the rules core with the two stores that keep it: the
browser's own and the shared canonical session. TLC checks the models on small
instances; TLAPS proves the central invariants for every value of the constants.

## 1. Inventory

The program is a Go server (gin, gorm, PostgreSQL) in `src/backend` and a
TypeScript/React client in `src/frontend/src`. Everything the server decides, it
decides inside a database transaction; everything a browser knows, it knows from
an earlier answer or from an event stream.

| Component | State it keeps | Operations | Talks to | What makes it hard, and what must hold |
|---|---|---|---|---|
| Encounters (`encounter_controller.go`, `encounter_authorization.go`, `encounter_invite.go`) | `encounters` (owner, members, seq, state with combatants), `encounter_events`, invites | Create, IssueInvite, Join, Delete, Apply, Get, Stream | character sheets in the same transaction; the hub by `pg_notify` | Links, combatants, sheets and journal are four tables changed by one operation, while sheet routes change the same rows; they must agree at every commit |
| Character sheets v3 (`character_v3_controller.go`) | `characters_v3` (runtime fields, `runtime_revision`, `current_encounter_id`), `character_events` | Create, PUT, PATCH runtime, Delete | encounters (who owns the hit points) | The owner of the hit points changes with the link; a stale writer must not win |
| Runtime commands (`character_runtime_command.go`) | `character_runtime_commands` receipts | POST runtime-commands | sheets | Atomic over several sheets, idempotent by `command_id`, refused when stale or linked |
| Runtime command client (`SheetActionsPanel.tsx`, `sheetRuntimeCommand.ts`, `sheetCompanionInteraction.ts`) | the prepared command, the retry it offers, the sheets on the screen | prepare, send, retry, refetch, drop | runtime commands | Lost answers, delayed copies, answers older than the screen |
| Encounter stream (`EncounterHub`, `Stream`, `StartListener`, `useEncounterStream.ts`) | subscribers and their channels; per browser `seqRef` and state | notify, listen, publish, replay, receive, reconnect | encounters by journal row | Order, loss, reconnects, a full buffer, a channel closed while in use |
| Runtime persistence of a linked sheet (`runtimePersistence.ts`) | none | PATCH, then GET and Apply | sheets, encounters | Two requests, either of which can fail |
| Canonical session transport (`canonical_session_controller.go`) | sessions, snapshots, events, decisions, receipts | bootstrap, transition, read | rules core in the browser | Compare-and-set of three heads, idempotency, open decisions |
| Rules session (`rules-session/`) | snapshot and events in the browser store | open, dispatch, commit | rules core | Snapshot and events read apart from each other |
| Rules core (`rules-core/`) | a world value | handle, evolve | sessions, sheets | Turn and initiative bookkeeping, pending resolutions |
| Inventory and shop, groups, accounts | rows of their tables | CRUD with checks | each other by id | Check-then-write without a transaction |
| Solo combat (`solo-combat/`), earlier character formats | a browser value; rows of their tables | synchronous steps; CRUD | rules core | One actor each; see section 8 |
| Client cache and read retry (`api/`) | cached answers | cached, bustPrefix | all reads | A load that outlives its invalidation |
| Content catalogue, mechanics engine, images, AI text, middleware, pages | reference data or nothing | CRUD, pure functions, I/O | - | No interleaving of their own; see section 8 |

## 2. Modules

| Module | What it is |
|---|---|
| `Encounter` | The server's tables and every transaction that writes encounters, links, runtime fields and revisions |
| `EncounterTx` | The row locks of the same transactions, taken one by one |
| `MCEncounter`, `MCEncounterTx` | The instance of `Encounter` for TLC: the requests that are tried and the symmetries; and the run of its transactions in one step or lock by lock |
| `EncounterProofs`, `EncounterTxProofs` | The theorems about them with their proofs |
| `EncounterStream` | Journal rows, notifications, listeners, hub, SSE connections and browsers of one encounter |
| `EncounterStreamProofs` | The theorems about it with their proofs |
| `RuntimeLedger` | The abstract promise of runtime commands |
| `RuntimeCommand` | Tabs, network and server of runtime commands, and its refinement of `RuntimeLedger` |
| `RuntimeCommandProofs` | The theorems about `RuntimeCommand` with their proofs |
| `RulesCore` | The world of the rules core: turns, attacks, spells, saves, reactions, grapples, familiars, death |
| `RulesCoreProofs` | The theorems about it with their proofs |
| `WorldLog` | The abstract promise of whoever stores a world: one log, each command once, readers show prefixes |
| `RulesSession` | The browser's store of a world and the tabs on it; implements `WorldLog` |
| `CanonicalSession` | The shared store: admission and commit of a transition; implements `WorldLog` |
| `WorldLogLemmas`, `RulesSessionProofs`, `CanonicalSessionProofs` | Facts about logs and prefixes, and the theorems about the two stores |
| `MCRulesCore`, `MCWorlds` | A hero with a familiar against a monster, and the instance that runs the world or one of its stores |
| `ApiCache` | The cache of reference data in one tab |

`EncounterStream` and `RuntimeCommand` each build on what `Encounter` promises
rather than on its variables: the stream takes an operation to be its `seq`
(because `JournalIsComplete` and `StateChangeMovesSeq` hold), the commands take
every other writer of a sheet to move its revision (because
`RuntimeChangeMovesRevision` holds). `Encounter` takes a transaction as one step
because `EncounterTx` shows that what it has read under its locks still holds when
it commits. The stores take a world to be the log of its commands, because
`handleCommand` is a function of the world and the command, as `RulesCore` has
it. The modules joined in `MCWorlds`, and in `MCEncounterTx`, share no state there: a
behaviour runs one of them, so that one run asks the questions of all. Definitions marked `(fault)` are plausible
bugs, kept beside the definition they would replace; no specification uses them.
Each property of a passing run has one that breaks it.

## 3. How the modules correspond to the code

### Encounter

One variable per table column that a guard or a property reads, indexed by the
row's id: `encounterRow`, `owner`, `members`, `seq`, `combatants` (the JSON
state, keyed by `actorId`), `events` (the seqs of the journal rows), `invite`,
and for characters `characterRow`, `sheet` (current hit points, temporary hit
points, active effects), `revision`, `link` (`current_encounter_id`), `journal`.

| Action | Handler |
|---|---|
| `Create`, `Delete` | `EncounterController.Create`, `Delete` with its clearing of links |
| `IssueInvite`, `InviteExpires`, `Join` | the invite routes; the token is abstracted to "an unexpired one is in circulation" |
| `Apply` | `Apply`: expected seq, policy (`ApplyPolicy`), normalisation of additions, `applyOps`, conflict with another encounter, new seq, journal row, links, write-through, battle log |
| `CreateCharacterV3`, `UpdateCharacterV3`, `PatchCharacterRuntime`, `DeleteCharacterV3` | the sheet routes; PATCH drops what an encounter owns (`RuntimeUpdatesForLocked`) |
| `PostCharacterRuntimeCommand` | the command route as far as the tables go |

A handler is one transaction that locks the encounter row and then character
rows before it reads what it decides on, so a successful request is one step and
a refused one is none. That these locks are enough is what `EncounterTx` shows.
Not in the state: round and active index, the order
of the combatants, monsters' templates, names, avatars, level, equipment. A patch
holds the keys it assigns; the order remove, patch, add of `applyOps` is kept.

### EncounterTx

`work` is what each database connection runs and how far it is, `holder` who has
which row `FOR UPDATE`. `LockFight`, `LockSheet` take one row at a time in the
order the statements have (`ORDER BY id`), `Check` is what is read between the
locks and the first write, the `Commit...` actions write and release, `Abort` is a
failed check or statement or a dead process. Apply locks the combatants it reads
after it has the encounter, and the characters of its additions, in one statement;
Delete the characters that name the encounter; Join none; runtime commands, PUT,
PATCH and sheet deletion start with characters. `encounterConflict` reads the
other encounter without a lock, and so does the model.

### EncounterStream

An operation is its `seq`, a state the sequence of operations that lead to it.
Per server process: `unnotified` (committed, `pg_notify` still to come),
`listening`, `inbox`, `publishing` (the event `publishLocal` is handing out after
it has released the hub's lock, and the channels it has copied). Per browser: the
connection (`phase`, `home`, `since`, `channel`, `wire`) and the hook's `seqRef`,
`have` (its state) and `command` (its Apply, if one is under way).

`Accept` and `ApplyElsewhere` are commits, `Notify` the later bell,
`Publish`/`Send` the listener and `publishLocal`, `Replay`/`GoLive`/`Forward` the
SSE handler, `Receive` the hook's event handler, `Respond` its handling of an
Apply response, `Disconnect`/`Connect` its reconnect loop, `Panic` a send on a
closed channel. The constant `Hazards` names the races a run admits; with all of
them the module is the code. `AppliedInOrder`, which is checked with all of them,
speaks of order and repetition: a lost event leaves it true. That nothing is lost
is what `ClientStateMatchesSeq` and `EventuallySynced` say, without the races.

Left out: half-open connections (a broken one is noticed at once by both ends),
the stop of the reconnect loop on 401 and 403, an encounter deleted while it is
watched, the backfill of the battle log, a second command while one is under way
(the hook's queue serialises them), and the hook's unused `reload`. Browser and
server reducers are taken to be equal (section 6 names where they are not).

### RuntimeCommand and RuntimeLedger

The server has `sheet` (revision, linked, and `content`: who wrote it, in order)
and `receipts`. A request carries `base`, the sheets it was computed from, for
the properties only. The network is two sets, `requests` and `responses`; a
request that a tab no longer awaits may still arrive. A tab is `idle`, `waiting`,
in `retry` (it offers "repeat safely") or `refetching`.

`Commit`, `Replay` and `Reject` are the three outcomes of
`PostCharacterRuntimeCommand`, `Deny` the 401 that comes before it;
`OtherWrite`, `Link`, `Unlink` are the other routes.
`Prepare`, `GiveUp`, `Retry`, `OnFresh`, `OnReplayed`, `LoadCurrent`,
`FinishRefetch`, `RefetchDenied`, `OnRejectedDrop`, `OnRejectedKeep`, `Refresh` and
`Reload` are the panel's steps; tabs in `Companion` follow
`sheetCompanionRetryPolicy`, the others `commitCombat`. The refetch is in the try
block of the command, so what fails it counts as an answer to the command: no
answer or a transient one is `GiveUp`, a definitive 4xx `RefetchDenied`, and
`Kept` or `Dropped` is what becomes of the command. After a 401 the page also gives
way to the login page; the model leaves it to `Reload` and `Refresh` and so admits a
retry from it. `refused` remembers whether the ledger
refused a dropped command or somebody else did: only the first is a promise
(`RefusedMeansNever`, and section 6). What a patch does to a sheet is one more
entry of its content, so "lost", "twice" and "by whom" can be told apart and nothing
else. Left out are the answers to ill-formed requests (400, 413, 422), which these tabs do
not send, a character deleted while a command is under way, and two commands open
in one tab.

`RuntimeLedger` says the promise without receipts, revisions or messages: a
command happens on all its sheets at once, at most once, and only if each has had
exactly the writes it was computed from. The refinement reads `content` off the
sheets and `done` off the receipts.

### RulesCore

`world` is one record: `mode`, `initiative`, `active`, `round`, `started`
(turnStarted), `swapped` (Alert), `living`, `presence` of familiars, `action` and
`reaction` of each actor, `effects`, `concentration`, `attack` (the Attack action:
open, turn key, attacks left, whether one was replaced, blocked by a resolution), `grapples`, and `pending`
(pendingResolution). A command is one action; its guard is the validation of
`handleCommand` and of its handler, its effect an operator from worlds to worlds.
`PostConditions` is what `handleCommand` appends to every accepted command: deaths,
familiars at zero hit points, grapples that the dead and the incapacitated let go.
`ActionState` is `actionStateEvents`, `FollowUpOpened` `followUpOpenedEvents`,
`AttackResolutionFinished` the unblocking or completion of an Attack action.

| Actions | Commands |
|---|---|
| `StartEncounter`, `SwapInitiative`, `StartTurn`, `EndTurn` | encounter, Alert and turns |
| `BeginAttackAction`, `PerformWeaponAttack`, `PerformUnarmedStrike`, `UseAttackReplacement`, `ForfeitAttackAction` | the Attack action, its attacks and what replaces one |
| `UseAction` | spells and actions that attack, ask for a save, throw Magic Missile or do none of it, with or without concentration |
| `ResolvePendingProtection`, `ResolvePendingAttack`, `ResolveMagicMissileReaction`, `ResolvePendingSave`, `ResolveMasterySave`, `ResolveConcentrationSave`, `ResolveHazardSave`, `ResolveUnarmedSave`, `ResolveShoveOutcome`, `ResolveEscapeGrapple` | the answers to pending decisions |
| `TriggerHazard`, `AdjudicateActorDeath`, `EscapeGrapple`, `EndGrapple`, `DismissFamiliar`, `ReappearFamiliar` | the rest |

A weapon attack is a chain of up to three kinds of decision: `AttackDeclared` asks
the protectors near the target before anything is rolled, `AttackRolled` asks the
target of a hit for a reaction, `AttackExecuted` asks for the saves that follow.
Each may be the last, and `Waits` and `Done` block and unblock the Attack action
around them. Magic Missile asks every target that owns a reaction in turn and
strikes with all darts after the last answer.

Hit points, dice, ranges and visibility, and resources other than the action and
the reaction are choices: an outcome of a roll is any outcome the code
distinguishes. Who falls at zero hit points is such a choice (`Falling`): at most one
familiar per command, where the code drops all there are; of what is modelled
only Magic Missile can bring down several. Command ids and the revision are in the two stores.

### RulesSession, CanonicalSession and WorldLog

`RulesSession` has the store (`stored`, one log that stands for snapshot and event
rows, which one IndexedDB transaction writes) and per tab what it shows. `open` is
two steps, `Initialize` and `ReplayEvents`, because it is two transactions;
`dispatch` is three, `Dispatch` up to its await, `Commit` in the store, `Adopt`
after it, and several may overlap in one tab because dispatch keeps no queue.

`CanonicalSession` has the tables of a session: `head`, `members`, `controller`,
`decisions` (the ledger), `receipts`; `sent` are the requests on their way, which
may arrive late and repeatedly, `known` what each client has read. `Outcome` lists
the checks of `ApplyTransition` in their order, `Admit` takes the locks and passes
them, `CommitTransition` writes, `RollBack` is a failed statement. Between the two
another writer may do what the locks allow: only a member that was not active is
not locked. `ChangeRole`, `ChangeStatus`, `ChangeController` are external: nothing
in the repository writes those columns. Canonical JSON, hashes, schema and release
checks are left out, clients send well-formed requests.

`WorldLog` is what both promise. The refinement reads `log` off the store or the
head and `view` off the tabs or the clients.

### ApiCache

One entity under one key: `Load`, `Read` and the answer are `cached` and its
loader, the write is the interceptor's `bustPrefix` after a successful non-GET,
the retry is `SAFE_READ_MAX_ATTEMPTS`, an entry may expire at any time.

## 4. Runs

| Run | Question | Bounds | States |
|---|---|---|---|
| `encounter_links` | Do links, combatants and journal agree, whoever adds, removes, joins and deletes? Do links match and does nobody wait in a circle, lock by lock? | 2 players with a character each, 2 encounters, 2 actor ids, 3 operations; 2 connections, 2 encounters, 2 characters | 352,170 |
| `encounter_sheets` | Does a linked sheet mirror its combatant, with every route writing it? | a player with 2 characters and a second user, 1 encounter, 2 actor ids, a synced and a local field of 2 values, 3 operations, 2 revisions | 46,668 |
| `stream_quiet` | Without the listed races: is a browser's state the journal prefix its seq names, and does it catch up over reconnects? | 1 browser, 1 process, 3 operations, room for 3, 1 break | 26,880 |
| `stream_faults` | With every race and failure: is anything applied twice or out of order? | 1 browser, 2 processes, 3 operations, room for 1, 1 break | 2,270,131 |
| `commands_atomic` | Do commands implement the ledger, and do companion commands end? | 1 tab, 2 sheets, 2 commands, 2 revisions, 1 lost answer, 1 denial (401) | 327,790 |
| `commands_race` | Are receipts and the ledger's refusals true, and stay true, when two tabs race and reuse a command id? | 2 tabs, 1 sheet, 1 id, 2 payloads, 2 commands, 3 revisions, 1 lost answer, 1 denial | 1,349,918 |
| `worlds` | Does every chain of decisions in a fight end well, and do both stores keep one log of it, whatever tabs, players, provisioning and rollbacks do? | a hero with a familiar and a monster with two attacks, 2 rounds; 2 tabs, 3 commands; 2 users, 2 actors, 2 command ids | 799,149 |
| `stream_reorder`, `stream_overflow`, `stream_closed`, `commands_stuck`, `cache_edits` | findings, section 6 | as small as shows it | up to 17,387 |

Why the bounds are enough. Links: a wrong link needs one character and two
encounters, or two combatants and one encounter; the requests `encounter_links` tries include every
pair of additions and every removal together with an addition, which
is where the checks look at the state before the request's own removals. It has no
fields, so no patches: `StateChangeMovesSeq` is exercised there for additions
and removals, and for patches it rests on its theorem. Sheets:
a divergence needs one write of each kind after an addition; two values tell a
write from none. The synced field is temporary hit points, which a PUT does not
write: the PUT leg of `SheetMirrorsCombatant` (current hit points) rests on its
theorem too. Stream: a gap needs two operations in the wrong order and a
third to look past it; one break is a reconnect. Commands: a lost answer, one
retry and one foreign write in between is every race a single command can lose;
one denial may come to a first copy, a retry or a refetch;
two tabs and one id are needed for reuse. Locks: a circle of two transactions is
the shortest, and each transaction may lock both characters. Worlds: the hero
concentrates on an attack spell, reacts to hits and may be asked three saves by one
attack; the monster's two attacks leave one open while the first waits; its spell
asks two targets, its breath replaces an attack, its Magic Missile may be blocked by
the hero, who also protects the familiar; the familiar leaves and joins before, at and after the active
index. Two tabs and three commands give a stale dispatch behind a committed one.
With three actors a
window of Protection or of Magic Missile has one decider, so a second decider behind the
first is not reached. Two command ids give a transition, its retry and a competitor; with three TLC does
not end in reasonable time, and the proofs of section 7 hold for any number.
Symmetry is used in the two encounter runs, which
check safety only. Deadlock checking is off: every model stops when
its bounded counters are used up, and nobody has to act.

The mutants show that no property holds by construction: each is violated when
one definition is replaced by its `(fault)` twin under the same configuration.

## 5. Fairness

`stream_quiet` and `stream_overflow` assume weak fairness of the goroutines (the
listener reads its inbox, `publishLocal` finishes its loop, the handler forwards
its channel, `pg_notify` follows its commit), of the listener's reconnect, and of
the hook's reconnect loop, all of which are loops without an exit short of
shutdown. Fairness is not assumed for Apply, for a user's click, or for a broken
connection. Under it an operation reaches every browser.

`commands_atomic` and `commands_stuck` assume that the server answers, that the
network brings the answer to a tab still waiting, that the tab's own steps run,
and that a user who is offered "repeat safely" uses it. Nobody has to give up or
to reload the page: an endless repetition is not excused by a reload. Losses and
denials are bounded: a network that loses everything, or a user who does not sign in
again, settles nothing.

## 6. Findings

- `stream_reorder`: Apply notifies after its transaction has released the row
  (`encounter_controller.go:752`), so two notifications can pass each other; the
  hook takes the larger seq and drops the one in between
  (`useEncounterStream.ts:128`). Its seq then equals the server's, and a command
  built on another state passes the check of `expected_seq`, which
  `encountersApi.ts:22-23` says is the version of the state it was built from.
- `stream_overflow`: an event dropped at a full buffer is not followed by a
  reconnect, contrary to the comment at `encounter_controller.go:883-884`.
- `stream_closed`: `publishLocal` can send on a channel `unsubscribe` has closed
  since it was copied (`encounter_controller.go:895`, `:871-881`).
- `commands_stuck`: a combat command refused with 409 is offered for repetition
  for ever and disables the panel (`SheetActionsPanel.tsx:1379`), while the
  companion policy explains why such a command must be dropped
  (`sheetCompanionInteraction.ts:47-51`).
- `cache_edits`: `cached` stores what its loader returns even when a write has
  dropped the entry since the load began (`apiCache.ts:19`), so an edit stays
  invisible for the whole ttl, contrary to `client.ts:101-102` and `apiCache.ts:8`.

Two further races are in the models and have no run of their own: the response
of an Apply that arrives after newer events sets `seqRef` back
(`useEncounterStream.ts:76`, hazard `lateResponse`), and a fresh command answer
shown after a newer sheet takes the screen back (`sheetRuntimeCommand.ts:88`,
`OnFresh` after `Refresh`). Both heal at the next event or read.

What the models of this directory admit because the code does, and no run reports:

- Rules core. A decision asked of an actor who dies, or was dead, has no answer:
  the world stays locked but for releasing grapples
  (`docs/rules-engine-migration-plan.md:367-375` speaks of a deadline and a default,
  `deadlineLogicalClock` is written and never read). An attack whose damage ends
  the target's concentration still asks its saving throw (`handler.ts:1717-1763` is
  called there without `invalidConcentrationIds`), and so may Magic Missile, with the
  same result;
  `UnanswerableOnlyByAttackOrDeath` says these are the only ways. A hazard that
  incapacitates leaves the concentration (`handler.ts:4808-4920`); an actor that
  becomes incapacitated may go on with an open Attack action; a familiar that
  leaves on its own turn leaves `turnStarted` set, and one that leaves before the
  active index changes the turn key, which strands an open Attack action
  (`reducer.ts:69-80`, `handler.ts:5543`); an Attack action begun outside an
  encounter can never be used or given up; a start of a turn that damages by a
  grapple asks no concentration save (`handler.ts:9741-9783`); the dead keep their
  place in the initiative. An attack rolled after a Protection window, even a declined
  one, or under a Protection effect is executed in `pendingAttackEvents`
  (`handler.ts:3154-3190`) without the retaliation of temporary hit points that
  `executeUseAction` adds and `docs/mechanics.schema.json:284` names
  (`hit_by_melee_attack_roll`).
- Runtime commands. The companion tab drops a command as rejected on any definitive
  4xx (`sheetCompanionInteraction.ts:53-65`, `SheetActionsPanel.tsx:1122-1158`), not
  only on the ledger's. A retry answered 401 after the first copy committed and its
  answer was lost, or a 401, 403 or 404 of a refetch after a replayed receipt, is
  such a one: the message says that the session has expired and the action be repeated
  (`character/api.ts:81`) or that the rejected snapshot was dropped, of a command
  that has happened. `:47-51` of the policy argues from a stale snapshot, which
  only the ledger's refusal shows. `Deny` and
  `RefetchDenied` are these steps, and `RefusedMeansNever` is about the ledger's
  refusals only: of all drops it would be false.
- Canonical session. `canonical_session_controller.go:1103` compares the
  controllers with those in the world, so a reassigned one fails every new
  transition; `:1181-1266` checks all actors, so one revoked controller blocks all
  transitions and leaves an open decision that even a GM cannot close; a retry by a
  member who became an observer is refused before its receipt is looked up.
- Rules session. `open` fails with `snapshot_replay_mismatch` on a healthy store
  when another tab commits between its two transactions (opening again helps);
  after a conflict a session stays behind until it is opened again.
- Reducers. `applyEncounterEvent` applies the first patch of an actor
  (`encounterTypes.ts:131`), the server all of them (`encounter_controller.go:64-70`).

## 7. Proofs

All proofs are checked by TLAPS for arbitrary constants under the named
assumptions only: `EncounterAssumption` (a controller per character, distinct
`None`, the fields' names, the tried requests are requests, natural bounds),
`CommandAssumption` (companion tabs are tabs, natural bounds, `None` is no
request), `LockAssumption` (character ids are ordered), `StreamAssumption` (a
buffer has room for one, natural bounds) and `TransportAssumption` (the types of
the roles and controllers a session begins with and of the shapes tried) and
`RulesAssumption` (finitely many actors, the types of what they own, no concentration
in what replaces an attack).

`RulesCoreProofs`. A spell that asks for decisions starts its concentration only
after the last of them, so `LinkedEffectsHaveConcentration` and
`ConcentrationsDiffer` are not inductive: `IInv` adds what a pending decision has
declared (`Declares`). Its concentration id is nobody's and its caster lives
(`Ready`); effects may hang on it only while targets still save (`Saving`). It stays
so because a pending decision locks the world: all that may happen beside it is
the end of a grapple, and the only answers that kill are to hazards, which
suspend no spell. `Frame` and `Kept` set apart the operators that leave
concentrations alone, `ActionStateBare` is the step that replaces, ends and starts
them, `PostSound` the burial after every command; with one lemma per command
`IInv` is kept by every step, and `NoOrphanEffects`, `OwnConcentration` and `Burial`
follow for any party, spells and hazards.

Part two proves what the commands do to the scene. `TInv` says that the world has
its types (`World`), that nobody stands twice in the initiative and the turn is
somebody's (`Placed`), that an Attack action and the decision it waits for agree
(`Blocked`), that nobody grapples himself (`Apart`) and that a decision waits only
on a started turn (`UnderWay`). The types alone are not inductive: the removal of
an actor from the initiative shortens it by one only because he stands there once,
and a decision's answer returns to the right attack only because a strike always
belongs to an Attack action and no other kind of decision names one. Between the
events of one command an attack is open with nobody to answer it, so the handlers
are followed through intermediate states (`Acting`). Of each command `Goes` proves
`TInv` in the next state and the two step properties `TurnPassesInOrder` and
`AttacksStayUsable`. Most handlers leave the order and the turn alone (`Stage`) and
only lessen attacks (`Scene`); the others (`StartEncounter`, `StartTurn`, `EndTurn`,
Alert's swap, familiars) are followed field by field (`Course`), with what becomes
of the index when a familiar leaves or joins (`Shifted`), also when it falls at the
end of any command (`Fell`). `Apart` is
needed because the start of a turn frees those the actor can no longer hold, and
`UnderWay` because only a command of a started turn may open an attack.

Part three proves which decisions may follow which. `FInv` says of a pending
decision that saving throws wait only behind saving throws, that those which wait
are about real concentrations other than the one the decision has declared
(`Queued`), and that neither an attack nor a spell's saving throw is directed at its
own source. Of each command `Heeds` proves `FInv` in the next state and the three
step properties `FollowUpsSurvive`, `UnanswerableOnlyByAttackOrDeath` and
`IncapacitatedLosesConcentration`. All commands are brought to one form: the world
the handler plans satisfies `Planned`, and the post-conditions, which only end
concentrations and effects, keep what it says (`PlannedHeeds`). `FollowUpPlanned` is
the core: the first follow-up that is still about something is asked, the ones
before it have lost their concentration, the ones after it go on waiting.
`SaveAnswered` is where the ids a save passes on as ended are needed, and why they
suffice: by `IInv` no two actors share a concentration, so an id that was ended is
not still somebody's. That the source of an attack or a spell is not its target is
needed because the concentration a spell starts is not ended by its own effect.
`HazardAnswered` marks the one command that incapacitates without the runtime's
rule.

What these proofs need of sequences (an element taken out leaves the others in
order, `FilteredOut`; the events of several targets joined, `Flattened`; the first
follow-up that can be answered, `Least`) is proved by first-order induction: a set
of positions that has the first and with each the next has them all. For this
reason `RulesCore` has its own `Filtered`: the definition of `SelectSeq` is one the
provers cannot expand.

`EncounterProofs`. The inductive invariant `EncounterInv` is the conjunction of
the safety invariants and `DeadEncountersAreEmpty`. The parts need each other:
`EncounterConflict` ignores a link to a deleted encounter, which is right only
because dead encounters are empty; the write-through picks one combatant of a
character, which is right only because there is one; PUT, PATCH and commands
leave linked sheets alone, which keeps the mirror only because links match
combatants. From it follow the five invariants and, with `ApplyReach`,
`SheetSteps` and `MembershipSteps`, the four action properties of the two runs.

`RuntimeCommandProofs`. `CommandInv` says that screens, commands and answers hold
copies of sheets (`CopiesAreOld`), that the ledger and the sheets tell the same
story, that a waiting tab has one exchange in one place and what was answered is
true, that refetches bring nothing older than the replay, and that what tabs were
told stays true. The argument is monotonicity: every step gives only later sheets
and more receipts (`ServerMoves`), a receipt is written at exactly the revisions
it expects, so a request whose expected revision has passed is hopeless for good
(`HopelessLater`), and one the ledger refuses is of that kind because a link moves
the revision (`RejectedIsHopeless`); a denied one need not be, and
`RefusedCorrect` says nothing of it. From it follow all safety and action properties
of the two runs and the refinement of `RuntimeLedger` (`LedgerCorrect`).

`EncounterTxProofs`. `LInv` adds to `LinksMatchUnderLocks` what each connection
holds and what it has checked (`SlotOK`): a transaction that is writing has every
row it read under a lock, so what it checked is so when it commits; the link of an
added character cannot change because its row is held, and the unlocked read of
another encounter can only be stale in the harmless direction. From it follow
`LinksUnderLocksCorrect` and `NoWaitCycleCorrect`: encounter rows before character
rows and these by id is an order in which a circle would have a least member.

`EncounterStreamProofs`. `StreamInv` says that every queue between the journal and
a browser holds committed operations only (`Holding`), that channels belong to
connections (`Attached`), and that a browser's own seqs ascend; it holds with every
listed race. From it follow the types and `AppliedInOrder`. `QuietInv` is the other
half, that nothing is lost; it holds if none of the listed races is enabled and a
buffer is at least as long as the number of operations (`Quiet`). It follows an
operation from the journal to the browser: its notification is in the queue of
each listening process (`Notified`), from which it comes to each stream
(`Listened`), and what a stream is still to bring joins without a gap to what its
browser has (`Streams`), which has applied all operations up to its seq
(`Faithful`). From it follow `ClientStateMatchesSeq` and
`CommandsBuiltOnServerState`; the first two runs of section 6 show what a race does
to them.

`RulesSessionProofs`. `SInv`: what a tab shows or has dispatched on is a prefix of
the stored log (`Branchless`), and a committed dispatch is the newest its tab knows
of, because the next one was computed on a world the store no longer has. From it
follows the refinement (`SessionsCorrect`).

`CanonicalSessionProofs`. `CInv`: what a transaction has checked still holds
between its two steps (`TxAdmitted`), clients know the past (`KnownIsPast`), the
ledger follows the head, and a receipt's command is in the log (`ReceiptsAppend`).
From it follow the ledger, retries, authority at the commit and the refinement
(`DecisionsCorrect`, `RetriesCorrect`, `AuthorityCorrect`, `TransitionsCorrect`).

Only model-checked: the liveness properties (`EventuallySynced`,
`CompanionCommandsAreSettled`), because the proof system does no ENABLED, and the
violations of section 6. Every invariant and every action property of a passing
run is a theorem.

## 8. What is not modelled, and why

Of the rules core: pact weapons, extra attacks of light weapons and of Cleave,
touch delivery and attacks by familiars, casting and forever dismissing a familiar,
world objects, rests, reactions to other triggers, and what its ten thousand lines
compute of hit points, ranges and resources. Most of them open decisions of the
kinds that are modelled.

The mechanics engine and the rule tables are pure functions over a vocabulary of
several thousand entries; the repository tests them with tables, and no state is
shared. Content CRUD is one statement per request. Image and AI routes call
outside services. Middleware and pages keep no protocol state. Solo combat is one
player's synchronous loop over the rules core. Overlapping inventory requests can
lose an update (`inventory_controller.go:157-224`, `:437-515` read and save outside
a transaction), and a group may stay behind without its first member
(`group_controller.go:42`); the repository promises nothing of either that a model
could be checked against. A change of a linked sheet by PATCH and Apply
(`runtimePersistence.ts:27`) is two requests: `Encounter` has both as actions, and
nothing promises that they happen together.

Share of the code. The models stand for the concurrent and the stateful core;
most lines of the repository are content, evidence tables, migration scripts,
pages and pure computation, which is why the mapped share is small.

## 9. Plan

1. `RulesCore`: the extra attacks of light weapons and of Cleave, familiar casting
   and touch delivery.
2. `EncounterReducer`: `applyEncounterEvent` against `applyOps` over bounded
   operations.
3. `RuntimePersistence`: the two-request client on top of `Encounter`.
4. `Inventory` and `Groups`, once they promise something.
