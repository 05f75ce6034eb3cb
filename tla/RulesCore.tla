------------------------------ MODULE RulesCore ------------------------------
(***************************************************************************)
(* The deterministic command handler and event reducer of                  *)
(* src/frontend/src/rules-core: handleCommand validates a command against  *)
(* the world, plans events, appends lifecycle post-conditions and folds    *)
(* them into the next world.  A command is one step; a command that opens  *)
(* a decision (a saving throw, a reaction, a Shove outcome) leaves it in   *)
(* pendingResolution and locks the world until its decider answers, so an  *)
(* attack or a spell is a chain of commands of several actors.             *)
(*                                                                         *)
(* `world' is one record and a handler is an operator from worlds to       *)
(* worlds.  Hit points, rolls, ranges and resources other than the action  *)
(* and the reaction are choices.  Command ids and revisions are left out   *)
(* (a stale or repeated command changes nothing); a concentration id is a  *)
(* number unused so far.                                                   *)
(*                                                                         *)
(* A definition marked (fault) is a plausible bug in the definition that   *)
(* follows it; no behaviour of Spec uses one.                              *)
(***************************************************************************)
EXTENDS Naturals, Sequences, FiniteSets, SequencesExt

CONSTANTS
    Actor,      \* world.actors, never removed
    Owner,      \* [familiars -> Actor], familiarState.ownerActorId
    Attacks,    \* [Actor -> Nat], attackProfile.attacksPerAction, 0: no profile
    Parts,      \* [Actor -> Nat], how many free graspingParts
    Reactors,   \* own a reaction with the trigger hit_by_attack
    Protectors, \* own Fighting Style: Protection and hold a shield
    Blockers,   \* own a reaction that blocks Magic Missile
    Armoured,   \* may hold temporary hit points that retaliate
    Topplers,   \* weapon mastery with a deferred saving throw
    Alert,      \* [own the Alert Initiative Swap -> whom the facts call allies]
    Spells,     \* [Actor -> SUBSET Execution]
    Replacements, \* [Actor -> what may replace one attack], like Spells
    Hazards,    \* [Actor -> sets of [damages, incapacitates, kills]], those that may befall it
    Initiatives,\* bound: the orders initiative is rolled in
    Mortal,     \* bound: whose death is adjudicated
    Targets,    \* bound: the lists of targets a spell is declared at
    Reroll,     \* bound: whether initiative is rolled again in an encounter
    MaxRound    \* bound: rounds of an encounter

Familiar == DOMAIN Owner

Execution == [resolution : {"attack", "save", "darts", "none"},
              concentration : BOOLEAN, damages : BOOLEAN,
              effect : {"none", "hinders", "incapacitates"}]

ASSUME RulesAssumption ==
    /\ IsFiniteSet(Actor)
    /\ Owner \in [Familiar -> Actor]
    /\ Familiar \subseteq Actor
    /\ Attacks \in [Actor -> Nat] /\ Parts \in [Actor -> Nat]
    /\ Reactors \subseteq Actor /\ Armoured \subseteq Actor
    /\ Protectors \subseteq Actor /\ Blockers \subseteq Actor
    /\ Topplers \subseteq Actor
    /\ DOMAIN Alert \subseteq Actor /\ \A a \in DOMAIN Alert : Alert[a] \subseteq Actor
    /\ Spells \in [Actor -> SUBSET Execution]
    /\ Replacements \in [Actor -> SUBSET {e \in Execution : /\ e.resolution = "save"
                                                          /\ ~e.concentration}]
    /\ Hazards \in [Actor -> SUBSET [damages : BOOLEAN, incapacitates : BOOLEAN, kills : BOOLEAN]]
    /\ Initiatives \subseteq Seq(Actor)
    /\ Mortal \subseteq Actor
    /\ Targets \subseteq Seq(Actor) \ {<< >>} /\ Reroll \in BOOLEAN /\ MaxRound \in Nat

VARIABLE world

-----------------------------------------------------------------------------
(* The world. *)

NoResolution == [type |-> "none"]

\* A weapon attack or an unarmed strike for damage.
WeaponAttack == [resolution |-> "attack", concentration |-> FALSE,
                 damages |-> TRUE, effect |-> "none"]

\* A decision asked of `decider'.  `id' is the concentration a
\* concentration_save is about, the one a declared spell will start, or the
\* grasping part of a grapple;
\* `rest' who is asked after this one; `darts' the targets Magic Missile may
\* still hurt; `attack' whether the Attack action of `source' waits for it.
Ask(type, decider, source, target) ==
    [type |-> type, decider |-> decider, source |-> source, target |-> target,
     id |-> 0, spell |-> WeaponAttack, rest |-> << >>, darts |-> << >>, followUps |-> << >>,
     attack |-> FALSE]

NoAttack == [open |-> FALSE, key |-> <<0, 0>>, left |-> 0, replaced |-> FALSE, blocked |-> FALSE]

InEncounter(w) == w.mode = "encounter"
CurrentActor(w) == w.initiative[w.active]
Incapacitated(w, a) == \E e \in w.effects : e.on = a /\ e.incapacitates

\* A turn key is usable by a later command only in an encounter: the key of
\* exploration contains the revision of the command that opened the attack.
AttackTurnKey(w) == IF InEncounter(w) THEN <<w.round, w.active>> ELSE <<0, 0>>

Usable(w, a) == /\ w.attack[a].open /\ w.attack[a].left > 0
                /\ InEncounter(w) /\ w.attack[a].key = AttackTurnKey(w)

FollowUp == [type : {"mastery_save", "concentration_save"}, actor : Actor,
             source : Actor, id : Nat]

\* (fault) ids count the active concentrations
FreshIdCounted(w) == Cardinality({a \in Actor : w.concentration[a] # 0}) + 1

FreshId(w) ==
    LET pending == IF w.pending = NoResolution THEN {}
                   ELSE {w.pending.id} \cup {w.pending.followUps[i].id : i \in DOMAIN w.pending.followUps}
        used == {w.concentration[a] : a \in Actor} \cup {e.link : e \in w.effects} \cup pending
    IN CHOOSE n \in 1 .. (Cardinality(used) + 1) : n \notin used

-----------------------------------------------------------------------------
(* Validation every command passes. *)

\* (fault) a started turn is anybody's
MayActOffTurn(w, a) ==
    /\ a \in w.living
    /\ w.pending = NoResolution
    /\ InEncounter(w) => w.started

\* validateCommon, validateResolutionLock and validateTurn for a command that
\* needs the actor's started turn.
MayAct(w, a) ==
    /\ a \in w.living
    /\ w.pending = NoResolution
    /\ InEncounter(w) => CurrentActor(w) = a /\ w.started

MayDecide(w, type) ==
    /\ w.pending # NoResolution /\ w.pending.type = type
    /\ w.pending.decider \in w.living

-----------------------------------------------------------------------------
(* Reducer: scene. *)

\* The elements of s that are in S, in their order.
Filtered(s, S) == FlattenSeq([i \in DOMAIN s |-> IF s[i] \in S THEN <<s[i]>> ELSE << >>])

SeqWithout(s, a) == Filtered(s, Actor \ {a})
IndexIn(s, a) == CHOOSE i \in DOMAIN s : s[i] = a

\* (fault) the last place is not wrapped to the first
SceneWithoutActorUnwrapped(w, f) ==
    IF ~InEncounter(w) \/ f \notin {w.initiative[i] : i \in DOMAIN w.initiative} THEN w
    ELSE [w EXCEPT !.initiative = SeqWithout(@, f),
                   !.active = IF IndexIn(w.initiative, f) < @ THEN @ - 1 ELSE @]

\* (fault) activeIndex is not moved when somebody before it leaves
SceneWithoutActorUnshifted(w, f) ==
    IF ~InEncounter(w) \/ f \notin {w.initiative[i] : i \in DOMAIN w.initiative} THEN w
    ELSE [w EXCEPT !.initiative = SeqWithout(@, f),
                   !.active = ((@ - 1) % (Len(w.initiative) - 1)) + 1]

\* A familiar leaves the initiative; undefined (the code throws) below two.
SceneWithoutActor(w, f) ==
    IF ~InEncounter(w) \/ f \notin {w.initiative[i] : i \in DOMAIN w.initiative} THEN w
    ELSE LET at == IndexIn(w.initiative, f)
             order == SeqWithout(w.initiative, f)
         IN [w EXCEPT !.initiative = order,
                      !.active = CASE at < @ -> @ - 1
                                   [] at = @ /\ at > Len(order) -> 1
                                   [] OTHER -> @]

SceneWithPresentFamiliar(w, f) ==
    IF ~InEncounter(w) \/ f \in {w.initiative[i] : i \in DOMAIN w.initiative} THEN w
    ELSE LET at == IF Owner[f] \in {w.initiative[i] : i \in DOMAIN w.initiative}
                   THEN IndexIn(w.initiative, Owner[f]) ELSE Len(w.initiative)
         IN [w EXCEPT !.initiative = SubSeq(@, 1, at) \o <<f>> \o SubSeq(@, at + 1, Len(@))]

FamiliarLeaves(w, f, where) ==
    SceneWithoutActor([w EXCEPT !.presence[f] = where], f)

-----------------------------------------------------------------------------
(* Concentration and follow-up decisions. *)

Unlinked(effects, ids) == {e \in effects : e.link \notin ids \ {0}}

ConcentrationCleared(w, a) ==
    [w EXCEPT !.effects = Unlinked(@, {w.concentration[a]}), !.concentration[a] = 0]

\* (fault) the effects of a replaced concentration stay
ActionStateKept(w, source, touched, gained, id) ==
    LET after == w.effects \cup gained
        ended == {a \in touched : /\ w.concentration[a] # 0
                                  /\ \E e \in after : e.on = a /\ e.incapacitates}
    IN [w EXCEPT
          !.effects = Unlinked(after, {w.concentration[a] : a \in ended}),
          !.concentration = [a \in Actor |->
              IF a \in ended THEN 0
              ELSE IF a = source /\ id # 0 THEN id ELSE @[a]]]

\* (fault) incapacitation is looked up before the action
ActionStateBefore(w, source, touched, gained, id) ==
    LET replaced == IF id = 0 THEN {} ELSE {w.concentration[source]}
        ended == {a \in touched : Incapacitated(w, a)}
    IN [w EXCEPT
          !.effects = Unlinked(@ \cup gained, replaced \cup {w.concentration[a] : a \in ended}),
          !.concentration = [a \in Actor |->
              IF a \in ended THEN 0
              ELSE IF a = source /\ id # 0 THEN id ELSE @[a]]]

\* An actor that an action leaves as it is need not be touched by it; this
\* matters only when it is incapacitated already.
MayPassBy(w, t, changed) == ~changed /\ Incapacitated(w, t)

\* actionStateEvents: `gained' are the effects the action leaves, `touched'
\* the actors whose runtime it plans, `id' the concentration it starts (0:
\* none).  A touched actor found incapacitated loses the concentration it had
\* before the command.
ActionState(w, source, touched, gained, id) ==
    LET replaced == IF id = 0 THEN {} ELSE {w.concentration[source]}
        after == Unlinked(w.effects \cup gained, replaced)
        ended == {a \in touched : /\ w.concentration[a] \notin {0} \cup replaced
                                  /\ \E e \in after : e.on = a /\ e.incapacitates}
    IN [w EXCEPT
          !.effects = Unlinked(after, {w.concentration[a] : a \in ended}),
          !.concentration = [a \in Actor |->
              IF a \in ended THEN 0
              ELSE IF a = source /\ id # 0 THEN id ELSE @[a]]]

\* concentrationSaveFollowUp: looks at the world before the command.
ConcentrationFollowUp(w, a, damaged) ==
    IF damaged /\ w.concentration[a] # 0
    THEN <<[type |-> "concentration_save", actor |-> a, source |-> a, id |-> w.concentration[a]]>>
    ELSE << >>

QueuedMasterySave(source, target, deferred) ==
    IF deferred
    THEN <<[type |-> "mastery_save", actor |-> target, source |-> source, id |-> 0]>>
    ELSE << >>

\* followUpOpenedEvents: asks the first follow-up that is valid in the world
\* `before' the command and is not in `invalid'; the rest wait behind it.
FollowUpOpened(before, after, queue, invalid) ==
    LET valid == {i \in DOMAIN queue :
                    \/ queue[i].type = "mastery_save"
                    \/ /\ before.concentration[queue[i].actor] = queue[i].id
                       /\ queue[i].id \notin invalid}
    IN IF valid = {} THEN after
       ELSE LET first == CHOOSE i \in valid : \A j \in valid : i <= j
                next == queue[first]
            IN [after EXCEPT !.pending =
                  [Ask(IF next.type = "mastery_save" THEN "mastery_save" ELSE "concentration_save",
                       next.actor, next.source, next.actor)
                     EXCEPT !.id = next.id,
                            !.followUps = SubSeq(queue, first + 1, Len(queue))]]

\* (fault) a save does not say what it ended
EndedUnknown(before, after) == {}

\* Concentrations a command ended: the ids followUpOpenedEvents must skip.
Ended(before, after) ==
    {before.concentration[a] : a \in {b \in Actor : before.concentration[b] # after.concentration[b]}}

ResolutionClosed(w) == [w EXCEPT !.pending = NoResolution]

-----------------------------------------------------------------------------
(* Post-conditions of every accepted command. *)

\* Actors a command may bring to zero hit points: a familiar on the scene.
\* When it would leave fewer than two in the initiative the command throws.
Falling(w, damaged) ==
    {{}} \cup {{f} : f \in {g \in damaged \cap Familiar :
                       /\ w.presence[g] = "present"
                       /\ InEncounter(w) => Len(w.initiative) > 2}}

\* (fault) only incapacitated grapplers let go
PostConditionsIncapacitated(w, died, fallen) ==
    LET buried == [w EXCEPT
            !.living = @ \ died,
            !.effects = Unlinked(@, {w.concentration[a] : a \in died}),
            !.concentration = [a \in Actor |-> IF a \in died THEN 0 ELSE @[a]]]
        gone == IF fallen = {} THEN buried
                ELSE FamiliarLeaves(buried, CHOOSE f \in fallen : TRUE, "zero_hp")
    IN [gone EXCEPT !.grapples = {g \in @ : ~Incapacitated(gone, g.grappler)}]

\* Deaths by a terminal condition, familiars at zero hit points, grapples of
\* the dead and the incapacitated.
PostConditions(w, died, fallen) ==
    LET buried == [w EXCEPT
            !.living = @ \ died,
            !.effects = Unlinked(@, {w.concentration[a] : a \in died}),
            !.concentration = [a \in Actor |-> IF a \in died THEN 0 ELSE @[a]]]
        gone == IF fallen = {} THEN buried
                ELSE FamiliarLeaves(buried, CHOOSE f \in fallen : TRUE, "zero_hp")
    IN [gone EXCEPT !.grapples =
          {g \in @ : g.grappler \in gone.living /\ ~Incapacitated(gone, g.grappler)}]

\* handleCommand: what the handler planned, then the post-conditions.
Committed(w, died, fallen) == world' = PostConditions(w, died, fallen)

Pays(w, a) == [w EXCEPT !.action[a] = FALSE]

-----------------------------------------------------------------------------
(* Encounter and turns. *)

\* Rolled orders that are accepted: at least two distinct living actors,
\* every familiar on the scene among them and no other familiar.
Orders(w) ==
    {s \in Initiatives :
        LET members == {s[i] : i \in DOMAIN s}
        IN /\ Len(s) >= 2 /\ Cardinality(members) = Len(s) /\ members \subseteq w.living
           /\ \A f \in Familiar : f \in members <=> w.presence[f] = "present"}

StartEncounter(a) ==
    /\ a \in world.living /\ world.pending = NoResolution
    /\ Reroll \/ ~InEncounter(world)
    /\ \E order \in Orders(world) :
          Committed([world EXCEPT !.mode = "encounter", !.initiative = order, !.active = 1,
                                  !.round = 1, !.started = FALSE, !.swapped = {}], {}, {})

SwapInitiative(a, ally) ==
    /\ a \in world.living \cap DOMAIN Alert /\ ally \in Alert[a] \ {a}
    /\ world.pending = NoResolution
    /\ InEncounter(world) /\ world.round = 1 /\ world.active = 1 /\ ~world.started
    /\ {a, ally} \subseteq {world.initiative[i] : i \in DOMAIN world.initiative}
    /\ ~Incapacitated(world, a) /\ ~Incapacitated(world, ally) /\ a \notin world.swapped
    /\ Committed([world EXCEPT
          !.initiative = [i \in DOMAIN @ |-> IF @[i] = a THEN ally
                                             ELSE IF @[i] = ally THEN a ELSE @[i]],
          !.swapped = @ \cup {a}], {}, {})

\* Durations are a choice: any effect may expire at a turn's start or end.
StartTurn(a) ==
    /\ a \in world.living /\ world.pending = NoResolution
    /\ InEncounter(world) => CurrentActor(world) = a /\ ~world.started
    /\ \E kept \in SUBSET world.effects :
       \E fallen \in Falling(world, {g.target : g \in {h \in world.grapples : h.grappler = a}}) :
          Committed([world EXCEPT !.effects = kept, !.started = InEncounter(world),
                                  !.action[a] = TRUE, !.reaction[a] = TRUE], {}, fallen)

EndTurn(a) ==
    LET last == world.active = Len(world.initiative)
    IN /\ MayAct(world, a) /\ InEncounter(world)
       /\ last => world.round < MaxRound
       /\ \E kept \in SUBSET world.effects :
             Committed([world EXCEPT
                !.effects = kept, !.started = FALSE, !.attack[a] = NoAttack,
                !.active = IF last THEN 1 ELSE @ + 1,
                !.round = IF last THEN @ + 1 ELSE @], {}, {})

-----------------------------------------------------------------------------
(* The Attack action. *)

MayBeginAttackAction(w, a) ==
    /\ MayAct(w, a)
    /\ Attacks[a] > 0 /\ ~Incapacitated(w, a)
    /\ ~w.attack[a].open /\ w.action[a]

AttackActionStarted(w, a) ==
    [Pays(w, a) EXCEPT !.attack[a] = [NoAttack EXCEPT !.open = TRUE, !.key = AttackTurnKey(w),
                                                      !.left = Attacks[a]]]

BeginAttackAction(a) ==
    /\ MayBeginAttackAction(world, a)
    /\ Committed(AttackActionStarted(world, a), {}, {})

MayAttack(w, a) == MayAct(w, a) /\ Usable(w, a) /\ ~w.attack[a].blocked

AttackEntryCommitted(w, a) == [w EXCEPT !.attack[a].left = @ - 1]

AttackActionBlocked(w, a) == [w EXCEPT !.attack[a].blocked = TRUE, !.pending.attack = TRUE]

\* (fault) an exhausted Attack action stays open
AttackResolutionFinishedOpen(w, a) == [w EXCEPT !.attack[a].blocked = FALSE]

\* attackResolutionFinishedEvents, and completedAttackActionEvent after an
\* attack that asked nothing.
AttackResolutionFinished(w, a) ==
    IF w.attack[a].left = 0 THEN [w EXCEPT !.attack[a] = NoAttack]
    ELSE [w EXCEPT !.attack[a].blocked = FALSE]

ForfeitAttackAction(a) ==
    /\ MayAttack(world, a)
    /\ Committed([world EXCEPT !.attack[a] = NoAttack], {}, {})

\* What the rolls of one attack can come to.  An attack that was suspended
\* by Protection is not answered by temporary hit points.
Outcomes(a, t, spell, suspended) ==
    {o \in [hit : BOOLEAN, damage : BOOLEAN, retaliation : BOOLEAN, mastery : BOOLEAN,
            touched : BOOLEAN] :
        /\ o.damage => o.hit /\ spell.damages
        /\ o.retaliation => o.hit /\ t \in Armoured /\ ~suspended
        /\ o.mastery => o.hit /\ spell = WeaponAttack /\ a \in Topplers
        /\ o.touched \/ MayPassBy(world, t, o.damage \/ (o.hit /\ spell.effect # "none"))}

Damaged(a, t, o) ==
    (IF o.damage THEN {t} ELSE {}) \cup (IF o.retaliation THEN {a} ELSE {})

Gained(t, spell, id) ==
    IF spell.effect = "none" THEN {}
    ELSE {[on |-> t, link |-> IF spell.concentration THEN id ELSE 0,
           incapacitates |-> spell.effect = "incapacitates"]}

\* The attack is executed: effects, concentration, then the saves it asks.
AttackExecuted(before, w, a, t, spell, id, o) ==
    LET after == ActionState(w, a, {a} \cup (IF o.touched THEN {t} ELSE {}),
                             IF o.hit THEN Gained(t, spell, id) ELSE {},
                             IF spell.concentration THEN id ELSE 0)
    IN FollowUpOpened(before, after,
          QueuedMasterySave(a, t, o.mastery)
            \o ConcentrationFollowUp(before, t, o.damage)
            \o ConcentrationFollowUp(before, a, o.retaliation), {})

\* hitReactionOptions, and the same for Magic Missile and Protection.
MayReact(w, t) == ~Incapacitated(w, t) /\ w.reaction[t]

Reacts(w, t) == [w EXCEPT !.reaction[t] = FALSE]

AttackReactionOpened(w, a, t, spell, id) ==
    [w EXCEPT !.pending = [Ask("attack_reaction", t, a, t) EXCEPT !.spell = spell, !.id = id]]

\* The world of an attack that waits for a decision, or that is done.
Waits(w, a, inAction) == IF inAction THEN AttackActionBlocked(w, a) ELSE w
Done(w, a, inAction) == IF inAction THEN AttackResolutionFinished(w, a) ELSE w

\* pendingAttackEvents from the roll on: a hit asks the target for a
\* reaction, anything else is executed.
AttackRolled(w, a, t, spell, id, inAction, suspended) ==
    \E o \in Outcomes(a, t, spell, suspended) :
       IF o.hit /\ t \in Reactors /\ MayReact(world, t)
       THEN Committed(Waits(AttackReactionOpened(w, a, t, spell, id), a, inAction), {}, {})
       ELSE \E fallen \in Falling(world, Damaged(a, t, o)) :
               Committed(Done(AttackExecuted(world, w, a, t, spell, id, o), a, inAction), {}, fallen)

\* protectionOpenedEvent: the first of `queue' is asked, the others wait.
ProtectionOpened(w, a, t, spell, id, inAction, queue) ==
    Waits([w EXCEPT !.pending = [Ask("protection_reaction", Head(queue), a, t)
             EXCEPT !.spell = spell, !.id = id, !.rest = Tail(queue)]], a, inAction)

\* protectionCandidatesForAttack: which protectors are near and see the
\* attacker comes with the command; they are asked in the order of their ids.
ProtectionQueues(w, t) ==
    {SetToSeq(near) : near \in SUBSET {p \in Protectors \ {t} : MayReact(w, p)}}

\* pendingAttackEvents: nothing is rolled before Protection is answered.
AttackDeclared(w, a, t, spell, id, inAction) ==
    \E queue \in ProtectionQueues(world, t) :
       IF queue = << >> THEN AttackRolled(w, a, t, spell, id, inAction, FALSE)
       ELSE Committed(ProtectionOpened(w, a, t, spell, id, inAction, queue), {}, {})

\* performWeaponAttack, and executeUnarmedStrike for damage.
PerformWeaponAttack(a, t) ==
    /\ MayAttack(world, a) /\ a # t
    /\ AttackDeclared(AttackEntryCommitted(world, a), a, t, WeaponAttack, 0, TRUE)

\* A protector declines, and the next is asked, or the attack is rolled.
ResolvePendingProtection ==
    LET p == world.pending
    IN /\ MayDecide(world, "protection_reaction")
       /\ \E protect \in BOOLEAN :
             LET w == IF protect THEN Reacts(ResolutionClosed(world), p.decider)
                      ELSE ResolutionClosed(world)
             IN IF ~protect /\ p.rest # << >>
                THEN Committed(ProtectionOpened(w, p.source, p.target, p.spell, p.id, p.attack, p.rest),
                               {}, {})
                ELSE AttackRolled(w, p.source, p.target, p.spell, p.id, p.attack, TRUE)

\* A reaction is declined or paid for; it may turn the hit into a miss.
ResolvePendingAttack ==
    LET p == world.pending
        a == p.source
        t == p.target
        closed == ResolutionClosed(world)
    IN /\ MayDecide(world, "attack_reaction")
       /\ \E react \in BOOLEAN : \E o \in Outcomes(a, t, p.spell, FALSE) :
          \E fallen \in Falling(world, Damaged(a, t, o)) :
             /\ react => MayReact(world, t)
             /\ ~react => o.hit
             /\ LET paid == IF react THEN Reacts(closed, t) ELSE closed
                IN Committed(AttackExecuted(world, Done(paid, a, p.attack), a, t, p.spell, p.id, o),
                             {}, fallen)

-----------------------------------------------------------------------------
(* Spells. *)

TargetSaveOpened(w, a, targets, spell, id, followUps) ==
    [w EXCEPT !.pending =
       [Ask("target_save", Head(targets), a, Head(targets))
          EXCEPT !.spell = spell, !.id = id, !.rest = Tail(targets), !.followUps = followUps]]

MagicMissileOpened(w, a, spell, darts, queue) ==
    [w EXCEPT !.pending = [Ask("magic_missile_reaction", Head(queue), a, Head(queue))
       EXCEPT !.spell = spell, !.darts = darts, !.rest = Tail(queue)]]

\* magicMissileDamageEvents: all darts strike at once.
DartsStrike(w, a, darts) ==
    \E damaged, touched \in SUBSET Range(darts) : \E fallen \in Falling(world, damaged) :
       /\ \A x \in Range(darts) \ touched : MayPassBy(world, x, x \in damaged)
       /\ Committed(FollowUpOpened(world, ActionState(w, a, {a} \cup touched, {}, 0),
                       FlattenSeq([i \in DOMAIN darts |->
                          ConcentrationFollowUp(world, darts[i], darts[i] \in damaged)]), {}),
                    {}, fallen)

\* magicMissileEvents: some targets are immune, the others may react.
MagicMissile(w, a, spell, targets) ==
    \E immune \in SUBSET Range(targets) :
       LET darts == Filtered(targets, Actor \ immune)
           queue == Filtered(darts, {x \in Blockers : MayReact(world, x)})
       IN IF queue = << >> THEN DartsStrike(w, a, darts)
          ELSE Committed(MagicMissileOpened(w, a, spell, darts, queue), {}, {})

ResolveMagicMissileReaction ==
    LET p == world.pending
    IN /\ MayDecide(world, "magic_missile_reaction")
       /\ \E block \in BOOLEAN :
             LET closed == ResolutionClosed(world)
                 w == IF block THEN Reacts(closed, p.decider) ELSE closed
                 darts == IF block THEN SeqWithout(p.darts, p.decider) ELSE p.darts
             IN IF p.rest = << >> THEN DartsStrike(w, p.source, darts)
                ELSE Committed(MagicMissileOpened(w, p.source, p.spell, darts, p.rest), {}, {})

\* UseAction: magicMissileEvents, pendingSaveEvents, pendingAttackEvents or
\* executeUseAction.
UseAction(a, spell, targets) ==
    LET w == Pays(world, a)
        id == FreshId(world)
        t == Head(targets)
    IN /\ MayAct(world, a)
       /\ ~Incapacitated(world, a) /\ world.action[a]
       /\ a \notin {targets[i] : i \in DOMAIN targets}
       /\ spell.resolution \in {"attack", "none"} => Len(targets) = 1
       /\ CASE spell.resolution = "darts" -> MagicMissile(w, a, spell, targets)
            [] spell.resolution = "save" ->
                 Committed(TargetSaveOpened(w, a, targets, spell, id, << >>), {}, {})
            [] spell.resolution = "attack" -> AttackDeclared(w, a, t, spell, id, FALSE)
            [] spell.resolution = "none" ->
                 \E touched \in {{a, t}} \cup (IF MayPassBy(world, t, spell.effect # "none")
                                              THEN {{a}} ELSE {}) :
                    Committed(ActionState(w, a, touched, Gained(t, spell, id),
                                          IF spell.concentration THEN id ELSE 0), {}, {})

\* executeAttackReplacement: a saving throw in place of one attack of an Attack
\* action, which it opens if none is.
UseAttackReplacement(a, action, targets) ==
    LET w == IF world.attack[a].open THEN world ELSE AttackActionStarted(world, a)
    IN /\ MayBeginAttackAction(world, a) \/ (MayAttack(world, a) /\ ~Incapacitated(world, a))
       /\ a \notin Range(targets) /\ ~w.attack[a].replaced
       /\ Committed(Waits(TargetSaveOpened(
             AttackEntryCommitted([w EXCEPT !.attack[a].replaced = TRUE], a),
             a, targets, action, 0, << >>), a, TRUE), {}, {})

\* The target of a saving throw answers; concentration starts after the last.
TargetSaveAnswered(p, failed, passed) ==
    ActionState(ResolutionClosed(world), p.source,
                {p.source} \cup (IF passed THEN {} ELSE {p.target}),
                IF failed THEN Gained(p.target, p.spell, p.id) ELSE {},
                IF p.rest = << >> /\ p.spell.concentration THEN p.id ELSE 0)

\* The follow-ups of all targets are asked after the last.
ResolvePendingSave ==
    LET p == world.pending
        t == p.target
        final == p.rest = << >>
    IN /\ MayDecide(world, "target_save")
       /\ \E failed, damage, passed \in BOOLEAN :
          \E fallen \in Falling(world, IF damage THEN {t} ELSE {}) :
             LET after == TargetSaveAnswered(p, failed, passed)
                 queue == p.followUps \o ConcentrationFollowUp(world, t, damage)
             IN /\ damage => p.spell.damages
                /\ passed => MayPassBy(world, t, damage \/ (failed /\ p.spell.effect # "none"))
                /\ Committed(
                     IF final
                     THEN FollowUpOpened(world, Done(after, p.source, p.attack), queue, Ended(world, after))
                     ELSE Waits(TargetSaveOpened(after, p.source, p.rest, p.spell, p.id, queue),
                                p.source, p.attack),
                     {}, fallen)

-----------------------------------------------------------------------------
(* Saves that follow an attack or a spell, and hazards. *)

TouchedByMastery(p, damage) ==
    {{p.source, p.target}} \cup (IF MayPassBy(world, p.target, damage) THEN {{p.source}} ELSE {})

\* (fault) what waited behind the mastery save is dropped
ResolveMasterySaveAlone ==
    LET p == world.pending
    IN /\ MayDecide(world, "mastery_save")
       /\ \E damage \in BOOLEAN : \E fallen \in Falling(world, IF damage THEN {p.target} ELSE {}) :
          \E touched \in TouchedByMastery(p, damage) :
             LET after == ActionState(ResolutionClosed(world), p.source, touched, {}, 0)
             IN Committed(FollowUpOpened(world, after, ConcentrationFollowUp(world, p.target, damage),
                             Ended(world, after)), {}, fallen)

ResolveMasterySave ==
    LET p == world.pending
    IN /\ MayDecide(world, "mastery_save")
       /\ \E damage \in BOOLEAN : \E fallen \in Falling(world, IF damage THEN {p.target} ELSE {}) :
          \E touched \in TouchedByMastery(p, damage) :
             LET after == ActionState(ResolutionClosed(world), p.source, touched, {}, 0)
             IN Committed(FollowUpOpened(world, after,
                             p.followUps \o ConcentrationFollowUp(world, p.target, damage),
                             Ended(world, after)), {}, fallen)

ResolveConcentrationSave ==
    LET p == world.pending
        closed == ResolutionClosed(world)
    IN /\ MayDecide(world, "concentration_save")
       /\ world.concentration[p.decider] = p.id
       /\ \E kept \in BOOLEAN :
             Committed(FollowUpOpened(world,
                          IF kept THEN closed ELSE ConcentrationCleared(closed, p.decider),
                          p.followUps, IF kept THEN {} ELSE {p.id}), {}, {})

TriggerHazard(a) ==
    /\ MayAct(world, a) /\ Hazards[a] # {}
    /\ Committed([world EXCEPT !.pending = Ask("hazard_save", a, a, a)], {}, {})

\* A hazard writes the target's runtime without actionStateEvents.
ResolveHazardSave ==
    LET t == world.pending.target
    IN /\ MayDecide(world, "hazard_save")
       /\ \E hazard \in Hazards[t] : \E failed, damage \in BOOLEAN :
          \E died \in SUBSET (IF failed /\ hazard.kills THEN {t} ELSE {}) :
          \E fallen \in Falling(world, IF damage THEN {t} ELSE {}) :
             LET hurt == [ResolutionClosed(world) EXCEPT !.effects = @ \cup
                            (IF failed /\ hazard.incapacitates
                             THEN {[on |-> t, link |-> 0, incapacitates |-> TRUE]} ELSE {})]
             IN /\ damage => hazard.damages
                /\ Committed(FollowUpOpened(world, hurt,
                       ConcentrationFollowUp(world, t, damage), {}), died, fallen)

AdjudicateActorDeath(a) ==
    /\ a \in world.living \cap Mortal /\ world.pending = NoResolution
    /\ Committed(world, {a}, {})

-----------------------------------------------------------------------------
(* Grapple and Shove. *)

FreeParts(w, a) == {p \in 1 .. Parts[a] : \A g \in w.grapples : g.grappler = a => g.part # p}

\* executeUnarmedStrike with the option grapple or shove (part 0).
PerformUnarmedStrike(a, t, part) ==
    /\ MayAttack(world, a) /\ a # t /\ part \in {0} \cup FreeParts(world, a)
    /\ Committed(AttackActionBlocked(
          [AttackEntryCommitted(world, a) EXCEPT !.pending =
             [Ask("unarmed_save", t, a, t) EXCEPT !.id = part]], a), {}, {})

ResolveUnarmedSave ==
    LET p == world.pending
        finished == AttackResolutionFinished(ResolutionClosed(world), p.source)
    IN /\ MayDecide(world, "unarmed_save")
       /\ \/ Committed(finished, {}, {})
          \/ /\ p.id \in FreeParts(world, p.source)
             /\ Committed([finished EXCEPT !.grapples = @ \cup
                    {[grappler |-> p.source, part |-> p.id, target |-> p.target]}], {}, {})
          \/ /\ p.id = 0
             /\ Committed(AttackActionBlocked([world EXCEPT !.pending =
                    Ask("shove_outcome", p.source, p.source, p.target)], p.source), {}, {})

ResolveShoveOutcome ==
    /\ MayDecide(world, "shove_outcome")
    /\ Committed(AttackResolutionFinished(ResolutionClosed(world), world.pending.source), {}, {})

EscapeGrapple(a, g) ==
    /\ MayAct(world, a) /\ g.target = a
    /\ ~Incapacitated(world, a) /\ world.action[a]
    /\ Committed([Pays(world, a) EXCEPT !.pending =
          [Ask("escape_grapple", a, g.grappler, a) EXCEPT !.id = g.part]], {}, {})

EscapeFrom(w, g) ==
    /\ w.pending # NoResolution /\ w.pending.type = "escape_grapple"
    /\ w.pending.source = g.grappler /\ w.pending.id = g.part

ResolveEscapeGrapple ==
    /\ MayDecide(world, "escape_grapple")
    /\ \E g \in {h \in world.grapples : EscapeFrom(world, h)} :
       \E left \in {world.grapples, world.grapples \ {g}} :
          Committed([ResolutionClosed(world) EXCEPT !.grapples = left], {}, {})

\* ReleaseGrapple by the grappler and BreakGrappleRange by either are allowed
\* while a decision is pending, and close the escape they make idle.
EndGrapple(a, g) ==
    /\ a \in world.living /\ a \in {g.grappler, g.target}
    /\ Committed([(IF EscapeFrom(world, g) THEN ResolutionClosed(world) ELSE world)
                    EXCEPT !.grapples = @ \ {g}], {}, {})

-----------------------------------------------------------------------------
(* Familiars. *)

DismissFamiliar(f) ==
    /\ MayAct(world, Owner[f]) /\ world.action[Owner[f]] /\ world.presence[f] = "present"
    /\ {f} \in Falling(world, {f})
    /\ Committed(FamiliarLeaves(Pays(world, Owner[f]), f, "pocket_dimension"), {}, {})

ReappearFamiliar(f) ==
    /\ MayAct(world, Owner[f]) /\ world.action[Owner[f]] /\ world.presence[f] = "pocket_dimension"
    /\ Committed(SceneWithPresentFamiliar(
          [Pays(world, Owner[f]) EXCEPT !.presence[f] = "present"], f), {}, {})

-----------------------------------------------------------------------------
Init ==
    world = [mode |-> "exploration", initiative |-> << >>, active |-> 1, round |-> 1,
             started |-> FALSE, swapped |-> {},
             living |-> Actor, presence |-> [f \in Familiar |-> "present"],
             action |-> [a \in Actor |-> TRUE], reaction |-> [a \in Actor |-> TRUE],
             effects |-> {}, concentration |-> [a \in Actor |-> 0],
             attack |-> [a \in Actor |-> NoAttack], grapples |-> {},
             pending |-> NoResolution]

ResolveDecision ==
    \/ ResolvePendingProtection \/ ResolvePendingAttack \/ ResolveMagicMissileReaction
    \/ ResolvePendingSave \/ ResolveMasterySave
    \/ ResolveConcentrationSave \/ ResolveHazardSave
    \/ ResolveUnarmedSave \/ ResolveShoveOutcome \/ ResolveEscapeGrapple

Next ==
    \/ ResolveDecision
    \/ \E a \in Actor :
          \/ StartEncounter(a) \/ StartTurn(a) \/ EndTurn(a)
          \/ BeginAttackAction(a) \/ ForfeitAttackAction(a)
          \/ TriggerHazard(a) \/ AdjudicateActorDeath(a)
          \/ \E t \in Actor : SwapInitiative(a, t) \/ PerformWeaponAttack(a, t)
                              \/ \E part \in 0 .. Parts[a] : PerformUnarmedStrike(a, t, part)
          \/ \E spell \in Spells[a], targets \in Targets : UseAction(a, spell, targets)
          \/ \E action \in Replacements[a], targets \in Targets :
                UseAttackReplacement(a, action, targets)
          \/ \E g \in world.grapples : EscapeGrapple(a, g) \/ EndGrapple(a, g)
    \/ \E f \in Familiar : DismissFamiliar(f) \/ ReappearFamiliar(f)

Spec == Init /\ [][Next]_world

-----------------------------------------------------------------------------
(* Properties. *)

Resolution ==
    [type : {"protection_reaction", "attack_reaction", "magic_missile_reaction",
             "target_save", "mastery_save", "concentration_save", "hazard_save",
             "unarmed_save", "shove_outcome", "escape_grapple"},
     decider : Actor, source : Actor, target : Actor, id : Nat,
     spell : Execution,
     rest : Seq(Actor), darts : Seq(Actor), followUps : Seq(FollowUp), attack : BOOLEAN]

\* The world's fields have their types (domain.ts WorldState).
TypeOK ==
    /\ world.mode \in {"exploration", "encounter"}
    /\ world.initiative \in Seq(Actor)
    /\ InEncounter(world) => world.active \in DOMAIN world.initiative
    /\ world.round \in Nat /\ world.started \in BOOLEAN
    /\ world.swapped \subseteq Actor /\ world.living \subseteq Actor
    /\ world.presence \in [Familiar -> {"present", "pocket_dimension", "zero_hp"}]
    /\ world.action \in [Actor -> BOOLEAN] /\ world.reaction \in [Actor -> BOOLEAN]
    /\ world.effects \subseteq [on : Actor, link : Nat, incapacitates : BOOLEAN]
    /\ world.concentration \in [Actor -> Nat]
    /\ world.attack \in [Actor -> [open : BOOLEAN, key : Nat \X Nat, left : Nat,
                                 replaced : BOOLEAN, blocked : BOOLEAN]]
    /\ world.grapples \subseteq [grappler : Actor, part : Nat, target : Actor]
    /\ world.pending \in Resolution \cup {NoResolution}

\* An Attack action waits (blockedByResolutionId) exactly while the pending
\* decision was opened by one of its attacks, and an exhausted one is open
\* only while it waits: every chain of decisions that begins with an attack
\* unblocks and completes it.
BlockedByPending ==
    \A a \in Actor :
        LET attack == world.attack[a]
        IN /\ attack.blocked <=> (/\ world.pending # NoResolution
                                  /\ world.pending.attack /\ world.pending.source = a)
           /\ attack.blocked => attack.open
           /\ attack.open /\ attack.left = 0 => attack.blocked

\* An effect that lasts while its caster concentrates is never left behind:
\* the concentration is active, or the spell still asks its targets to save.
LinkedEffectsHaveConcentration ==
    \A e \in world.effects : e.link # 0 =>
        \/ \E a \in Actor : world.concentration[a] = e.link
        \/ /\ world.pending # NoResolution
           /\ world.pending.type = "target_save" /\ world.pending.id = e.link

\* Two casters never share a concentration, so ending one removes only its
\* own effects.
ConcentrationsDiffer ==
    \A a, b \in Actor : a # b /\ world.concentration[a] # 0
                           => world.concentration[a] # world.concentration[b]

\* The dead hold nothing: no concentration, and nobody in a grapple.
DeadHoldNothing ==
    \A a \in Actor \ world.living :
        /\ world.concentration[a] = 0
        /\ \A g \in world.grapples : g.grappler # a

\* What is asked or waits to be asked, as <<actor, concentration>>; 0: mastery.
Asked(w) ==
    IF w.pending = NoResolution THEN {}
    ELSE {<<w.pending.followUps[i].actor, w.pending.followUps[i].id>> :
             i \in DOMAIN w.pending.followUps}
         \cup {<<w.pending.decider, w.pending.id>>}

\* A saving throw that waits behind a decision is not lost: after the answer
\* it is asked or still waits, unless its concentration ended.
FollowUpsSurvive ==
    [][\A q \in {world.pending.followUps[i] :
                    i \in DOMAIN (IF world.pending = NoResolution THEN << >>
                                  ELSE world.pending.followUps)} :
          \/ <<q.actor, q.id>> \in Asked(world')
          \/ q.type = "concentration_save" /\ world'.concentration[q.actor] # q.id]_world

\* A decision somebody can give: its decider lives and the concentration it
\* asks about is active.
Answerable(w) ==
    /\ w.pending.decider \in w.living
    /\ w.pending.type = "concentration_save" => w.concentration[w.pending.decider] = w.pending.id

\* A command that opens a decision nobody can give asks an actor who was dead
\* before it or whom it killed, or it is an attack or a Magic Missile that ended
\* the very concentration it asks about: no saving throw chain does this.
UnanswerableOnlyByAttackOrDeath ==
    [][/\ world'.pending # NoResolution
       /\ world'.pending # world.pending
       /\ ~Answerable(world')
       => \/ world'.pending.decider \notin world'.living
          \/ world.pending = NoResolution
          \/ world.pending.type \in {"protection_reaction", "attack_reaction",
                                     "magic_missile_reaction"}]_world

\* An actor that becomes incapacitated loses its concentration in the same
\* command, except by a hazard.
IncapacitatedLosesConcentration ==
    [][\A a \in Actor :
          /\ world'.concentration[a] # 0
          /\ ~Incapacitated(world, a) /\ Incapacitated(world', a)
          => world.pending # NoResolution /\ world.pending.type = "hazard_save"]_world

FamiliarLeft == \E f \in Familiar : world.presence[f] = "present" /\ world'.presence[f] # "present"

EncounterStarted == /\ world'.mode = "encounter" /\ world'.active = 1 /\ world'.round = 1
                    /\ ~world'.started /\ world'.swapped = {}

\* Attacks that remain on an actor's started turn stay usable until they are used or
\* given up, unless a familiar leaves the initiative or it is rolled again.
AttacksStayUsable ==
    [][InEncounter(world) /\ world.started =>
         LET a == CurrentActor(world)
         IN Usable(world, a) => \/ Usable(world', a) /\ CurrentActor(world') = a
                                \/ ~world'.attack[a].open
                                \/ world'.attack[a].left < world.attack[a].left
                                \/ FamiliarLeft \/ EncounterStarted]_world

\* The turn moves only to the next in the initiative, not yet started except
\* where a familiar leaves on its own turn; a familiar that joins or leaves
\* never moves it otherwise.
TurnPassesInOrder ==
    [][InEncounter(world) /\ ~EncounterStarted =>
         \/ CurrentActor(world') = CurrentActor(world)
         \/ /\ ~world.started /\ world'.swapped # world.swapped
         \/ /\ CurrentActor(world') =
                  world.initiative[(world.active % Len(world.initiative)) + 1]
            /\ world.started
            /\ ~world'.started \/ \A i \in DOMAIN world'.initiative :
                                     world'.initiative[i] # CurrentActor(world)]_world

=============================================================================
