--------------------------- MODULE RulesCoreProofs ---------------------------
(***************************************************************************)
(* Proofs about RulesCore for any actors, familiars, spells and hazards.   *)
(*                                                                         *)
(* Part one: concentrations.  A command may suspend a spell before its     *)
(* concentration starts, so the inductive invariant IInv speaks of the     *)
(* concentration a pending decision has declared: nobody concentrates on   *)
(* it yet, its caster lives, and effects may be linked to it only while    *)
(* targets still save (Saving).                                            *)
(*                                                                         *)
(* Part two, from "Sequences" on: the types of the world, the attack       *)
(* actions that wait for a decision (TInv), and, of every command, that    *)
(* the turn passes in order and usable attacks last (Goes).                *)
(*                                                                         *)
(* Part three: which decisions may follow which.  What waits behind a      *)
(* decision (FInv), and, of every command, that it is not lost, is asked   *)
(* only of who can answer it, and that the incapacitated let their         *)
(* concentration go (Heeds).                                               *)
(***************************************************************************)
EXTENDS RulesCore, FiniteSetTheorems, WellFoundedInduction, TLAPS

IsWorld(w) ==
    w = [mode |-> w.mode, initiative |-> w.initiative, active |-> w.active,
         round |-> w.round, started |-> w.started, swapped |-> w.swapped,
         living |-> w.living, presence |-> w.presence, action |-> w.action,
         reaction |-> w.reaction, effects |-> w.effects,
         concentration |-> w.concentration, attack |-> w.attack,
         grapples |-> w.grapples, pending |-> w.pending]

\* What holds of concentrations and effects, where effects may also be linked
\* to one of `ids', which nobody needs to concentrate on.
Bare(w, ids) ==
    /\ IsWorld(w)
    /\ w.living \subseteq Actor
    /\ w.concentration \in [Actor -> Nat]
    /\ IsFiniteSet(w.effects)
    /\ \A a \in Actor \ w.living : w.concentration[a] = 0
    /\ \A a, b \in Actor : a # b /\ w.concentration[a] # 0
                             => w.concentration[a] # w.concentration[b]
    /\ \A e \in w.effects : e.link # 0 =>
          e.link \in ids \/ \E a \in Actor : w.concentration[a] = e.link

Fresh(w, id) == id \in Nat \ {0} /\ \A a \in Actor : w.concentration[a] # id

Ready(w, a, id) == Fresh(w, id) /\ a \in w.living

\* A decision that suspends a spell its caster will concentrate on.
Declares(p) ==
    /\ p.type \in {"protection_reaction", "attack_reaction", "target_save"}
    /\ p.spell.concentration

Saving(p) == IF p.type = "target_save" /\ p.spell.concentration THEN {p.id} ELSE {}

Sound(w) ==
    /\ Bare(w, Saving(w.pending))
    /\ Declares(w.pending) => Ready(w, w.pending.source, w.pending.id)

LetGo(w) == \A g \in w.grapples : g.grappler \in w.living

IInv == Sound(world) /\ LetGo(world)

-----------------------------------------------------------------------------
(* Operators that leave concentrations and effects alone. *)

Frame(w, v) ==
    /\ IsWorld(v) /\ v.living = w.living
    /\ v.concentration = w.concentration /\ v.effects = w.effects

Kept(w, v) == Frame(w, v) /\ v.pending = w.pending

LEMMA FrameBare ==
    ASSUME NEW w, NEW v, NEW ids, Bare(w, ids), Frame(w, v)
    PROVE  Bare(v, ids)
  BY DEF Bare, Frame

LEMMA KeptSound ==
    ASSUME NEW w, NEW v, Sound(w), Kept(w, v)
    PROVE  Sound(v)
<1>1. Bare(v, Saving(v.pending))
  BY FrameBare DEF Sound, Kept
<1>2. QED
  BY <1>1 DEF Sound, Kept, Frame, Ready, Fresh

LEMMA KeptWorld ==
    ASSUME NEW u, NEW v, Kept(u, v)
    PROVE  IsWorld(v)
  BY DEF Kept, Frame

LEMMA KeptTwice ==
    ASSUME NEW u, NEW v, NEW w, Kept(u, v), Kept(v, w)
    PROVE  Kept(u, w)
  BY DEF Kept, Frame

\* Kept by a change of any field but living, effects, concentration, pending.
LEMMA FieldKept ==
    ASSUME NEW w, IsWorld(w), NEW x
    PROVE  /\ Kept(w, w)
           /\ Kept(w, [w EXCEPT !.mode = x]) /\ Kept(w, [w EXCEPT !.initiative = x])
           /\ Kept(w, [w EXCEPT !.active = x]) /\ Kept(w, [w EXCEPT !.round = x])
           /\ Kept(w, [w EXCEPT !.started = x]) /\ Kept(w, [w EXCEPT !.swapped = x])
           /\ Kept(w, [w EXCEPT !.action = x]) /\ Kept(w, [w EXCEPT !.reaction = x])
           /\ Kept(w, [w EXCEPT !.attack = x]) /\ Kept(w, [w EXCEPT !.grapples = x])
           /\ Kept(w, [w EXCEPT !.presence = x])
<1>1. Kept(w, [w EXCEPT !.mode = x]) /\ Kept(w, [w EXCEPT !.initiative = x])
  BY DEF IsWorld, Kept, Frame
<1>2. Kept(w, [w EXCEPT !.active = x]) /\ Kept(w, [w EXCEPT !.round = x])
  BY DEF IsWorld, Kept, Frame
<1>3. Kept(w, [w EXCEPT !.started = x]) /\ Kept(w, [w EXCEPT !.swapped = x])
  BY DEF IsWorld, Kept, Frame
<1>4. Kept(w, [w EXCEPT !.action = x]) /\ Kept(w, [w EXCEPT !.reaction = x])
  BY DEF IsWorld, Kept, Frame
<1>5. Kept(w, [w EXCEPT !.attack = x]) /\ Kept(w, [w EXCEPT !.grapples = x])
  BY DEF IsWorld, Kept, Frame
<1>6. Kept(w, [w EXCEPT !.presence = x])
  BY DEF IsWorld, Kept, Frame
<1>7. QED
  BY <1>1, <1>2, <1>3, <1>4, <1>5, <1>6 DEF Kept, Frame

LEMMA ClosedKept ==
    ASSUME NEW w, IsWorld(w)
    PROVE  Frame(w, ResolutionClosed(w)) /\ ResolutionClosed(w).pending = NoResolution
  BY DEF IsWorld, Frame, ResolutionClosed

LEMMA PaysKept ==
    ASSUME NEW w, IsWorld(w), NEW a
    PROVE  Kept(w, Pays(w, a))
<1>1. ASSUME NEW x PROVE Kept(w, [w EXCEPT !.action = x])
  BY DEF IsWorld, Kept, Frame
<1>2. Pays(w, a) = [w EXCEPT !.action = [w.action EXCEPT ![a] = FALSE]]
  BY Zenon DEF Pays
<1>3. QED
  BY <1>1, <1>2

LEMMA ReactsKept ==
    ASSUME NEW w, IsWorld(w), NEW a
    PROVE  Kept(w, Reacts(w, a))
<1>1. ASSUME NEW x PROVE Kept(w, [w EXCEPT !.reaction = x])
  BY DEF IsWorld, Kept, Frame
<1>2. Reacts(w, a) = [w EXCEPT !.reaction = [w.reaction EXCEPT ![a] = FALSE]]
  BY Zenon DEF Reacts
<1>3. QED
  BY <1>1, <1>2

LEMMA StartedKept ==
    ASSUME NEW w, IsWorld(w), NEW a
    PROVE  Kept(w, AttackActionStarted(w, a))
<1>1. IsWorld(Pays(w, a)) /\ Kept(w, Pays(w, a))
  BY PaysKept DEF Kept, Frame
<1> DEFINE u == Pays(w, a)
<1> HIDE DEF u
<1>2. ASSUME NEW x PROVE Kept(u, [u EXCEPT !.attack[a] = x])
  BY <1>1 DEF IsWorld, Kept, Frame, u
<1>3. QED
  BY <1>1, <1>2 DEF AttackActionStarted, Kept, Frame, u

LEMMA EntryKept ==
    ASSUME NEW w, IsWorld(w), NEW a
    PROVE  Kept(w, AttackEntryCommitted(w, a))
  BY DEF IsWorld, Kept, Frame, AttackEntryCommitted

LEMMA FinishedKept ==
    ASSUME NEW w, IsWorld(w), NEW a
    PROVE  Kept(w, AttackResolutionFinished(w, a))
  BY DEF IsWorld, Kept, Frame, AttackResolutionFinished

LEMMA DoneKept ==
    ASSUME NEW w, IsWorld(w), NEW a, NEW inAction
    PROVE  Kept(w, Done(w, a, inAction))
  BY FinishedKept DEF Done, Kept, Frame, IsWorld

LEMMA LeavesKept ==
    ASSUME NEW w, IsWorld(w), NEW f, NEW where
    PROVE  Kept(w, FamiliarLeaves(w, f, where))
<1> DEFINE u == [w EXCEPT !.presence[f] = where]
<1>1. Kept(w, u)
  BY DEF IsWorld, Kept, Frame
<1> HIDE DEF u
<1>2. IsWorld(u)
  BY <1>1 DEF Kept, Frame
<1>3. ASSUME NEW x, NEW y PROVE Kept(u, [u EXCEPT !.initiative = x, !.active = y])
  <2>1. ASSUME NEW v, IsWorld(v) PROVE Kept(v, [v EXCEPT !.initiative = x])
    BY <2>1 DEF IsWorld, Kept, Frame
  <2>2. ASSUME NEW v, IsWorld(v) PROVE Kept(v, [v EXCEPT !.active = y])
    BY <2>2 DEF IsWorld, Kept, Frame
  <2>3. Kept(u, [[u EXCEPT !.initiative = x] EXCEPT !.active = y])
    BY <1>2, <2>1, <2>2 DEF Kept, Frame
  <2>4. QED
    BY <2>3
<1>4. Kept(u, u)
  BY <1>2 DEF Kept, Frame
<1>5. Kept(u, SceneWithoutActor(u, f))
  BY <1>3, <1>4 DEF SceneWithoutActor
<1>6. QED
  BY <1>1, <1>5 DEF FamiliarLeaves, Kept, Frame, u

LEMMA JoinsKept ==
    ASSUME NEW w, IsWorld(w), NEW f
    PROVE  Kept(w, SceneWithPresentFamiliar(w, f))
  BY DEF IsWorld, Kept, Frame, SceneWithPresentFamiliar

LEMMA PendingFrame ==
    ASSUME NEW w, IsWorld(w), NEW p
    PROVE  Frame(w, [w EXCEPT !.pending = p]) /\ [w EXCEPT !.pending = p].pending = p
  BY DEF IsWorld, Frame

\* A pending decision as Ask builds it; blocking the Attack action keeps it.
IsAsked(p) ==
    p = [type |-> p.type, decider |-> p.decider, source |-> p.source, target |-> p.target,
         id |-> p.id, spell |-> p.spell, rest |-> p.rest, darts |-> p.darts,
         followUps |-> p.followUps, attack |-> p.attack]

SameDecision(p, q) == q.type = p.type /\ q.source = p.source /\ q.id = p.id /\ q.spell = p.spell

LEMMA AskedRest ==
    ASSUME NEW p, IsAsked(p), NEW x
    PROVE  /\ IsAsked([p EXCEPT !.rest = x]) /\ SameDecision(p, [p EXCEPT !.rest = x])
           /\ IsAsked([p EXCEPT !.darts = x]) /\ SameDecision(p, [p EXCEPT !.darts = x])
           /\ IsAsked([p EXCEPT !.followUps = x]) /\ SameDecision(p, [p EXCEPT !.followUps = x])
<1>1. IsAsked([p EXCEPT !.rest = x]) /\ SameDecision(p, [p EXCEPT !.rest = x])
  BY DEF IsAsked, SameDecision
<1>2. IsAsked([p EXCEPT !.darts = x]) /\ SameDecision(p, [p EXCEPT !.darts = x])
  BY DEF IsAsked, SameDecision
<1>3. IsAsked([p EXCEPT !.followUps = x]) /\ SameDecision(p, [p EXCEPT !.followUps = x])
  BY DEF IsAsked, SameDecision
<1>4. QED
  BY <1>1, <1>2, <1>3

Asks(type, decider, source, target, spell, id) ==
    [Ask(type, decider, source, target) EXCEPT !.spell = spell, !.id = id]

LEMMA AskedSpell ==
    ASSUME NEW type, NEW decider, NEW source, NEW target, NEW spell, NEW id
    PROVE  LET p == Asks(type, decider, source, target, spell, id)
           IN /\ IsAsked(p) /\ p.type = type /\ p.source = source
              /\ p.id = id /\ p.spell = spell
<1> DEFINE q == Ask(type, decider, source, target)
           r == [q EXCEPT !.spell = spell]
           p == [r EXCEPT !.id = id]
<1>1. IsAsked(q) /\ q.type = type /\ q.source = source
  BY DEF Ask, IsAsked
<1> HIDE DEF q
<1>2. IsAsked(r) /\ r.type = type /\ r.source = source /\ r.spell = spell
  BY <1>1 DEF IsAsked
<1> HIDE DEF r
<1>3. IsAsked(p) /\ p.type = type /\ p.source = source /\ p.id = id /\ p.spell = spell
  BY <1>2 DEF IsAsked
<1>4. QED
  BY <1>3 DEF p, q, r, Asks

LEMMA WaitsKept ==
    ASSUME NEW w, IsWorld(w), IsAsked(w.pending), NEW a, NEW inAction
    PROVE  /\ Frame(w, Waits(w, a, inAction))
           /\ SameDecision(w.pending, Waits(w, a, inAction).pending)
<1> DEFINE blocked(x, y) == [[w EXCEPT !.attack = x] EXCEPT !.pending = y]
<1>1. AttackActionBlocked(w, a) = blocked([w.attack EXCEPT ![a].blocked = TRUE],
                                          [w.pending EXCEPT !.attack = TRUE])
  BY DEF IsWorld, AttackActionBlocked
<1>2. ASSUME NEW x, NEW y PROVE Frame(w, blocked(x, y)) /\ blocked(x, y).pending = y
  <2>1. Frame(w, [w EXCEPT !.attack = x])
    BY DEF IsWorld, Frame
  <2>2. QED
    BY <2>1, PendingFrame DEF Frame
<1>3. SameDecision(w.pending, [w.pending EXCEPT !.attack = TRUE])
  BY DEF IsAsked, SameDecision
<1>4. QED
  BY <1>1, <1>2, <1>3 DEF Waits, Frame, IsWorld, SameDecision

-----------------------------------------------------------------------------
(* The operators that change concentrations and effects. *)

Wrote(w, e, c) == [w EXCEPT !.effects = e, !.concentration = c]

LEMMA Rewritten ==
    ASSUME NEW w, IsWorld(w), NEW e, NEW c
    PROVE  /\ IsWorld(Wrote(w, e, c))
           /\ Wrote(w, e, c).living = w.living /\ Wrote(w, e, c).pending = w.pending
           /\ Wrote(w, e, c).effects = e /\ Wrote(w, e, c).concentration = c
<1> DEFINE u == [w EXCEPT !.effects = e]
<1>1. /\ IsWorld(u) /\ u.living = w.living /\ u.pending = w.pending
      /\ u.effects = e
  BY DEF IsWorld
<1>2. Wrote(w, e, c) = [u EXCEPT !.concentration = c]
  BY DEF Wrote
<1> HIDE DEF u
<1>3. QED
  BY <1>1, <1>2 DEF IsWorld

\* A runtime is written: every effect that is kept is one of before or one
\* gained under the declared concentration, and those who stop concentrating
\* take their effects along.
LEMMA ActionStateBare ==
    ASSUME NEW w, NEW ids, Bare(w, ids), NEW source, NEW touched,
           NEW gained, IsFiniteSet(gained), NEW id \in Nat, id # 0 => Ready(w, source, id),
           NEW left, ids \subseteq left \cup {0, id},
           \A e \in gained : e.link \in left \cup {0, id}
    PROVE  LET v == ActionState(w, source, touched, gained, id)
           IN /\ Bare(v, left) /\ v.pending = w.pending /\ v.living = w.living
              /\ \A a \in Actor : v.concentration[a] \in {0, w.concentration[a]}
                                  \/ (id # 0 /\ v.concentration[a] = id)
<1> DEFINE replaced == IF id = 0 THEN {} ELSE {w.concentration[source]}
           after == Unlinked(w.effects \cup gained, replaced)
           ended == {a \in touched : /\ w.concentration[a] \notin {0} \cup replaced
                                     /\ \E e \in after : e.on = a /\ e.incapacitates}
           kept == Unlinked(after, {w.concentration[a] : a \in ended})
           conc == [a \in Actor |-> IF a \in ended THEN 0
                                    ELSE IF a = source /\ id # 0 THEN id
                                    ELSE w.concentration[a]]
           v == ActionState(w, source, touched, gained, id)
<1>1. v = Wrote(w, kept, conc)
  BY DEF ActionState, Wrote
<1>2. IsWorld(w)
  BY DEF Bare
<1> HIDE DEF v, kept, conc
<1>3. /\ IsWorld(v) /\ v.living = w.living /\ v.pending = w.pending
      /\ v.effects = kept /\ v.concentration = conc
  BY <1>1, <1>2, Rewritten
<1>4. conc \in [Actor -> Nat]
  BY DEF Bare, conc
<1>5. IsFiniteSet(kept)
  <2>1. kept \subseteq w.effects \cup gained
    BY DEF Unlinked, kept
  <2>2. IsFiniteSet(w.effects \cup gained)
    BY FS_Union DEF Bare
  <2>3. QED
    BY <2>1, <2>2, FS_Subset
<1>6. \A a \in Actor \ w.living : conc[a] = 0
  BY DEF Bare, Ready, conc
<1>7. ASSUME NEW a \in Actor, NEW b \in Actor, a # b, conc[a] # 0
      PROVE  conc[a] # conc[b]
  BY <1>7 DEF Bare, Ready, Fresh, conc
<1>8. source \notin ended \/ id = 0
  OBVIOUS
<1>9. ASSUME NEW e \in kept, e.link # 0
      PROVE  e.link \in left \/ \E a \in Actor : conc[a] = e.link
  <2>1. e \in after /\ e \in w.effects \cup gained
    BY DEF Unlinked, kept
  <2>2. CASE id # 0 /\ e.link = id
    BY <2>2, <1>8 DEF Bare, Ready, conc
  <2>3. CASE ~(id # 0 /\ e.link = id) /\ (e \in gained \/ e.link \in ids)
    BY <2>3, <1>9
  <2>4. CASE \E a \in Actor : w.concentration[a] = e.link
    <3>1. PICK a \in Actor : w.concentration[a] = e.link
      BY <2>4
    <3>2. a \notin ended
      BY <3>1, <1>9 DEF Unlinked, kept
    <3>3. ~(a = source /\ id # 0)
      BY <3>1, <1>9, <2>1 DEF Unlinked
    <3>4. QED
      BY <3>1, <3>2, <3>3 DEF conc
  <2>5. QED
    BY <2>1, <2>2, <2>3, <2>4, <1>9 DEF Bare
<1>10. Bare(v, left)
  BY <1>3, <1>4, <1>5, <1>6, <1>7, <1>9 DEF Bare
<1>11. \A a \in Actor : conc[a] \in {0, w.concentration[a]} \/ (id # 0 /\ conc[a] = id)
  BY DEF conc
<1>12. QED
  BY <1>3, <1>10, <1>11 DEF v

LEMMA ActionStatePending ==
    ASSUME NEW w, IsWorld(w), NEW source, NEW touched, NEW gained, NEW id
    PROVE  ActionState(w, source, touched, gained, id).pending = w.pending
<1>1. \E e, c : ActionState(w, source, touched, gained, id) = Wrote(w, e, c)
  BY Zenon DEF ActionState, Wrote
<1>2. QED
  BY <1>1, Rewritten

LEMMA ActionStateDone ==
    ASSUME NEW w, Bare(w, {}), NEW source, NEW touched,
           NEW gained, IsFiniteSet(gained), NEW id \in Nat, id # 0 => Ready(w, source, id),
           \A e \in gained : e.link \in {0, id}
    PROVE  /\ Bare(ActionState(w, source, touched, gained, id), {})
           /\ ActionState(w, source, touched, gained, id).pending = w.pending
<1> DEFINE none == {}
<1>1. /\ none \subseteq none \cup {0, id} /\ Bare(w, none)
      /\ \A e \in gained : e.link \in none \cup {0, id}
  OBVIOUS
<1> HIDE DEF none
<1>2. IsFiniteSet(gained) /\ id \in Nat /\ (id # 0 => Ready(w, source, id))
  OBVIOUS
<1>3. Bare(ActionState(w, source, touched, gained, id), none)
  BY ONLY <1>1, <1>2, ActionStateBare
<1>4. ActionState(w, source, touched, gained, id).pending = w.pending
  BY ActionStatePending DEF Bare
<1>5. QED
  BY <1>3, <1>4 DEF none

LEMMA ConcentrationClearedBare ==
    ASSUME NEW w, Bare(w, {}), NEW a \in Actor
    PROVE  /\ Bare(ConcentrationCleared(w, a), {})
           /\ ConcentrationCleared(w, a).pending = w.pending
<1> DEFINE kept == Unlinked(w.effects, {w.concentration[a]})
           conc == [w.concentration EXCEPT ![a] = 0]
           v == ConcentrationCleared(w, a)
<1>1. IsWorld(w)
  BY DEF Bare
<1>2. v = Wrote(w, kept, conc)
  BY DEF ConcentrationCleared, Wrote
<1> HIDE DEF v, kept, conc
<1>3. /\ IsWorld(v) /\ v.living = w.living /\ v.pending = w.pending
      /\ v.effects = kept /\ v.concentration = conc
  BY <1>1, <1>2, Rewritten
<1>4. conc \in [Actor -> Nat] /\ \A b \in Actor : conc[b] = IF b = a THEN 0 ELSE w.concentration[b]
  BY DEF Bare, conc
<1>5. kept \subseteq w.effects /\ \A e \in kept : e.link # 0 => e.link # w.concentration[a]
  BY DEF Unlinked, kept
<1>6. IsFiniteSet(kept)
  BY <1>5, FS_Subset DEF Bare
<1>7. Bare(v, {})
  BY <1>3, <1>4, <1>5, <1>6 DEF Bare
<1>8. QED
  BY <1>3, <1>7 DEF v

Suspending == {"protection_reaction", "attack_reaction", "target_save"}

LEMMA OtherSound ==
    ASSUME NEW w, Bare(w, {}), NEW p, p.type \notin Suspending
    PROVE  Sound([w EXCEPT !.pending = p]) /\ ~Declares([w EXCEPT !.pending = p].pending)
<1> DEFINE v == [w EXCEPT !.pending = p]
<1>1. Frame(w, v) /\ v.pending = p
  BY PendingFrame DEF Bare
<1> HIDE DEF v
<1>2. Bare(v, {})
  BY <1>1, FrameBare
<1>3. Saving(p) = {} /\ ~Declares(p)
  BY DEF Saving, Declares, Suspending
<1>4. Sound(v) /\ ~Declares(v.pending)
  BY <1>1, <1>2, <1>3 DEF Sound
<1>5. QED
  BY <1>4 DEF v

\* Follow-ups ask for saves that suspend no spell.
LEMMA FollowUpSound ==
    ASSUME NEW before, NEW after, NEW queue, NEW invalid,
           Bare(after, {}), after.pending = NoResolution
    PROVE  LET v == FollowUpOpened(before, after, queue, invalid)
           IN Sound(v) /\ ~Declares(v.pending)
<1> DEFINE v == FollowUpOpened(before, after, queue, invalid)
           p(q, r) == [Ask(IF q.type = "mastery_save" THEN "mastery_save" ELSE "concentration_save",
                           q.actor, q.source, q.actor) EXCEPT !.id = q.id, !.followUps = r]
<1>1. Sound(after) /\ ~Declares(after.pending)
  BY DEF Sound, Saving, Declares, NoResolution
<1>2. ASSUME NEW q, NEW r PROVE p(q, r).type \notin Suspending
  BY DEF Ask, Suspending
<1> HIDE DEF p
<1>3. v = after \/ \E q, r : v = [after EXCEPT !.pending = p(q, r)]
  BY Zenon DEF FollowUpOpened, p
<1> HIDE DEF v
<1>4. Sound(v) /\ ~Declares(v.pending)
  BY <1>1, <1>2, <1>3, OtherSound
<1>5. QED
  BY <1>4 DEF v

Buried(w, l, e, c) == [w EXCEPT !.living = l, !.effects = e, !.concentration = c]

LEMMA BuriedFacts ==
    ASSUME NEW w, IsWorld(w), NEW l, NEW e, NEW c
    PROVE  LET v == Buried(w, l, e, c)
           IN /\ IsWorld(v) /\ v.living = l /\ v.pending = w.pending
              /\ v.effects = e /\ v.concentration = c
<1> DEFINE u == [w EXCEPT !.living = l]
<1>1. IsWorld(u) /\ u.living = l /\ u.pending = w.pending
  BY DEF IsWorld
<1>2. Buried(w, l, e, c) = Wrote(u, e, c)
  BY DEF Buried, Wrote
<1> HIDE DEF u
<1>3. QED
  BY <1>1, <1>2, Rewritten

LEMMA GrapplesFrame ==
    ASSUME NEW w, IsWorld(w), NEW g
    PROVE  Kept(w, [w EXCEPT !.grapples = g]) /\ [w EXCEPT !.grapples = g].grapples = g
  BY DEF IsWorld, Kept, Frame

\* Every accepted command buries its dead with their concentrations and lets
\* go of what they hold.
Buries(w, v, died) ==
    /\ IsWorld(v) /\ v.living = w.living \ died /\ v.pending = w.pending
    /\ v.effects = Unlinked(w.effects, {w.concentration[a] : a \in died})
    /\ v.concentration = [a \in Actor |-> IF a \in died THEN 0 ELSE w.concentration[a]]
    /\ LetGo(v)

LEMMA PostFrame ==
    ASSUME NEW w, IsWorld(w), NEW died, NEW fallen
    PROVE  Buries(w, PostConditions(w, died, fallen), died)
<1> DEFINE l == w.living \ died
           e == Unlinked(w.effects, {w.concentration[a] : a \in died})
           c == [a \in Actor |-> IF a \in died THEN 0 ELSE w.concentration[a]]
           buried == Buried(w, l, e, c)
           gone == IF fallen = {} THEN buried
                   ELSE FamiliarLeaves(buried, CHOOSE f \in fallen : TRUE, "zero_hp")
           held == {g \in gone.grapples :
                      g.grappler \in gone.living /\ ~Incapacitated(gone, g.grappler)}
           v == PostConditions(w, died, fallen)
<1>1. v = [gone EXCEPT !.grapples = held]
  BY Zenon DEF PostConditions, Buried
<1> HIDE DEF l, e, c
<1>2. /\ IsWorld(buried) /\ buried.living = l /\ buried.pending = w.pending
      /\ buried.effects = e /\ buried.concentration = c
  BY BuriedFacts
<1> HIDE DEF buried
<1>3. Kept(buried, gone)
  BY <1>2, LeavesKept DEF Kept, Frame
<1> HIDE DEF gone
<1>4. IsWorld(gone)
  BY <1>3, KeptWorld
<1> HIDE DEF held
<1>5. Kept(gone, v) /\ v.grapples = held
  BY <1>1, <1>4, GrapplesFrame
<1> HIDE DEF v
<1>6. LetGo(v)
  BY <1>5 DEF LetGo, held, Kept, Frame
<1>7. /\ IsWorld(v) /\ v.living = l /\ v.pending = w.pending
      /\ v.effects = e /\ v.concentration = c
  BY <1>2, <1>3, <1>5 DEF Kept, Frame
<1>8. QED
  BY <1>6, <1>7 DEF l, e, c, v, Buries

\* A caster whose spell is suspended is not among the dead.
LEMMA PostSound ==
    ASSUME NEW w, Sound(w), NEW died, NEW fallen,
           Declares(w.pending) => w.pending.source \notin died
    PROVE  LET v == PostConditions(w, died, fallen) IN Sound(v) /\ LetGo(v)
<1> DEFINE v == PostConditions(w, died, fallen)
           c == [a \in Actor |-> IF a \in died THEN 0 ELSE w.concentration[a]]
<1>1. Bare(w, Saving(w.pending)) /\ IsWorld(w)
  BY DEF Sound, Bare
<1>2. Buries(w, v, died)
  BY <1>1, PostFrame
<1>3. c \in [Actor -> Nat] /\ \A a \in Actor : c[a] = IF a \in died THEN 0 ELSE w.concentration[a]
  BY <1>1 DEF Bare
<1> HIDE DEF v, c
<1>4. /\ v.effects \subseteq w.effects
      /\ \A x \in v.effects : x.link # 0 => \A a \in died : x.link # w.concentration[a]
  BY <1>2 DEF Unlinked, Buries
<1>5. IsFiniteSet(v.effects)
  BY <1>1, <1>4, FS_Subset DEF Bare
<1>6. /\ IsWorld(v) /\ v.living = w.living \ died /\ v.pending = w.pending
      /\ v.concentration = c /\ LetGo(v)
  BY <1>2 DEF Buries, c
<1>7. Bare(v, Saving(v.pending))
  BY <1>1, <1>3, <1>4, <1>5, <1>6 DEF Bare
<1>8. Sound(v)
  BY <1>3, <1>6, <1>7 DEF Sound, Ready, Fresh
<1>9. QED
  BY <1>6, <1>8 DEF v

LEMMA CommittedInv ==
    ASSUME NEW w, Sound(w), NEW fallen, Committed(w, {}, fallen)
    PROVE  IInv'
<1>1. Sound(world') /\ LetGo(world')
  BY PostSound DEF Committed
<1>2. QED
  BY <1>1 DEF IInv

-----------------------------------------------------------------------------
(* The operators that ask for a decision. *)

LEMMA BareMore ==
    ASSUME NEW w, Bare(w, {}), NEW ids
    PROVE  Bare(w, ids)
  BY DEF Bare

LEMMA OpenedSound ==
    ASSUME NEW w, NEW p, Bare(w, Saving(p)), IsAsked(p),
           Declares(p) => Ready(w, p.source, p.id),
           NEW a, NEW inAction
    PROVE  Sound(Waits([w EXCEPT !.pending = p], a, inAction))
<1> DEFINE u == [w EXCEPT !.pending = p]
<1>1. IsWorld(w)
  BY DEF Bare
<1>2. Frame(w, u) /\ u.pending = p
  BY <1>1, PendingFrame
<1> HIDE DEF u
<1> DEFINE v == Waits(u, a, inAction)
<1>3. Frame(u, v) /\ SameDecision(p, v.pending)
  BY <1>2, WaitsKept DEF Frame
<1> HIDE DEF v
<1>4. Frame(w, v)
  BY <1>2, <1>3 DEF Frame
<1>5. Saving(v.pending) = Saving(p) /\ (Declares(v.pending) <=> Declares(p))
  BY <1>3 DEF SameDecision, Saving, Declares
<1>6. Bare(v, Saving(v.pending))
  BY <1>4, <1>5, FrameBare
<1>7. Sound(v)
  BY <1>3, <1>4, <1>5, <1>6 DEF Sound, Ready, Fresh, Frame, SameDecision
<1>8. QED
  BY <1>7 DEF u, v

\* The id of a declared concentration is nobody's.
LEMMA FreshIdFresh ==
    ASSUME NEW w, NEW ids, Bare(w, ids), w.pending = NoResolution
    PROVE  Fresh(w, FreshId(w))
<1> DEFINE concentrations == {w.concentration[a] : a \in Actor}
           links == {e.link : e \in w.effects}
           used == concentrations \cup links \cup {}
<1>1. IsFiniteSet(concentrations)
  <2> DEFINE f == [a \in Actor |-> w.concentration[a]]
  <2>1. f \in Surjection(Actor, concentrations)
    BY DEF Surjection
  <2>2. IsFiniteSet(Actor)
    BY RulesAssumption
  <2> HIDE DEF concentrations, f
  <2>3. QED
    BY <2>1, <2>2, FS_Surjection
<1>2. IsFiniteSet(links)
  <2> DEFINE f == [e \in w.effects |-> e.link]
  <2>1. f \in Surjection(w.effects, links)
    BY DEF Surjection
  <2>2. IsFiniteSet(w.effects)
    BY DEF Bare
  <2> HIDE DEF links, f
  <2>3. QED
    BY <2>1, <2>2, FS_Surjection
<1>3. IsFiniteSet(used)
  BY <1>1, <1>2, FS_Union
<1> DEFINE n == Cardinality(used)
<1>4. n \in Nat
  BY <1>3, FS_CardinalityType
<1>5. \E x \in 1 .. (n + 1) : x \notin used
  <2>1. IsFiniteSet(1 .. (n + 1)) /\ Cardinality(1 .. (n + 1)) = n + 1
    BY <1>4, FS_Interval
  <2>2. SUFFICES ASSUME 1 .. (n + 1) \subseteq used PROVE FALSE
    OBVIOUS
  <2>3. Cardinality(1 .. (n + 1)) <= n
    BY <1>3, <2>2, FS_Subset
  <2>4. QED
    BY <1>4, <2>1, <2>3
<1>6. FreshId(w) = CHOOSE x \in 1 .. (n + 1) : x \notin used
  BY DEF FreshId
<1> HIDE DEF n
<1>7. FreshId(w) \in 1 .. (n + 1) /\ FreshId(w) \notin used
  BY <1>5, <1>6
<1>8. QED
  BY <1>4, <1>7 DEF Fresh

-----------------------------------------------------------------------------
(* Attacks. *)

LEMMA GainedFacts ==
    ASSUME NEW t, NEW spell, NEW id
    PROVE  /\ IsFiniteSet(Gained(t, spell, id))
           /\ \A e \in Gained(t, spell, id) : e.link = 0 \/ (spell.concentration /\ e.link = id)
<1>1. \A x : IsFiniteSet({x})
  BY FS_Singleton
<1>2. IsFiniteSet({})
  BY FS_EmptySet
<1>3. CASE spell.effect = "none"
  BY <1>2, <1>3 DEF Gained
<1>4. CASE spell.effect # "none"
  <2> DEFINE e == [on |-> t, link |-> IF spell.concentration THEN id ELSE 0,
                   incapacitates |-> spell.effect = "incapacitates"]
  <2>1. Gained(t, spell, id) = {e}
    BY <1>4 DEF Gained
  <2>2. e.link = 0 \/ (spell.concentration /\ e.link = id)
    OBVIOUS
  <2> HIDE DEF e
  <2>3. QED
    BY <1>1, <2>1, <2>2
<1>5. QED
  BY <1>3, <1>4

LEMMA AttackExecutedSound ==
    ASSUME NEW before, NEW w, Bare(w, {}), w.pending = NoResolution, NEW a,
           NEW t, NEW spell, NEW id, spell.concentration => Ready(w, a, id), NEW o
    PROVE  Sound(AttackExecuted(before, w, a, t, spell, id, o))
<1> DEFINE cid == IF spell.concentration THEN id ELSE 0
           gained == IF o.hit THEN Gained(t, spell, id) ELSE {}
           touched == {a} \cup (IF o.touched THEN {t} ELSE {})
           after == ActionState(w, a, touched, gained, cid)
<1>1. cid \in Nat /\ (cid # 0 => Ready(w, a, cid))
  BY DEF Ready, Fresh
<1>2. IsFiniteSet(gained) /\ \A e \in gained : e.link \in {0, cid}
  BY GainedFacts, FS_EmptySet
<1> HIDE DEF cid, gained, touched
<1>3. Bare(after, {}) /\ after.pending = NoResolution
  BY <1>1, <1>2, ActionStateDone
<1>4. \E queue : AttackExecuted(before, w, a, t, spell, id, o)
                   = FollowUpOpened(before, after, queue, {})
  BY DEF AttackExecuted, cid, gained, touched
<1> HIDE DEF after
<1>5. QED
  BY <1>3, <1>4, FollowUpSound

LEMMA AttackRolledInv ==
    ASSUME NEW w, Bare(w, {}), w.pending = NoResolution, NEW a,
           NEW t, NEW spell, NEW id, spell.concentration => Ready(w, a, id),
           NEW inAction, NEW suspended, AttackRolled(w, a, t, spell, id, inAction, suspended)
    PROVE  IInv'
<1> DEFINE p == Asks("attack_reaction", t, a, t, spell, id)
           asks == Waits(AttackReactionOpened(w, a, t, spell, id), a, inAction)
           done(o) == Done(AttackExecuted(world, w, a, t, spell, id, o), a, inAction)
<1>1. /\ IsAsked(p) /\ p.type = "attack_reaction" /\ p.source = a
      /\ p.id = id /\ p.spell = spell
  BY AskedSpell
<1>2. AttackReactionOpened(w, a, t, spell, id) = [w EXCEPT !.pending = p]
  BY Zenon DEF AttackReactionOpened, Asks
<1> HIDE DEF p
<1>3. Sound(asks)
  <2>1. Bare(w, Saving(p)) /\ (Declares(p) => Ready(w, p.source, p.id))
    BY <1>1 DEF Saving, Declares
  <2>2. Sound(Waits([w EXCEPT !.pending = p], a, inAction))
    BY <1>1, <2>1, OpenedSound
  <2>3. QED
    BY <1>2, <2>2
<1>4. ASSUME NEW o PROVE Sound(done(o))
  <2>1. Sound(AttackExecuted(world, w, a, t, spell, id, o))
    BY AttackExecutedSound
  <2>2. QED
    BY <2>1, DoneKept, KeptSound DEF Sound, Bare
<1>5. \E v, fallen : Sound(v) /\ Committed(v, {}, fallen)
  <2> HIDE DEF asks, done
  <2>1. \/ Committed(asks, {}, {})
        \/ \E o, fallen : Committed(done(o), {}, fallen)
    BY Zenon DEF AttackRolled, asks, done
  <2>2. QED
    BY <1>3, <1>4, <2>1
<1>6. QED
  BY <1>5, CommittedInv

LEMMA ProtectionOpenedSound ==
    ASSUME NEW w, Bare(w, {}), NEW a, NEW t, NEW spell, NEW id,
           spell.concentration => Ready(w, a, id), NEW inAction, NEW queue
    PROVE  Sound(ProtectionOpened(w, a, t, spell, id, inAction, queue))
<1> DEFINE p == [Ask("protection_reaction", Head(queue), a, t)
                   EXCEPT !.spell = spell, !.id = id, !.rest = Tail(queue)]
<1> DEFINE q == Asks("protection_reaction", Head(queue), a, t, spell, id)
<1>0. /\ IsAsked(q) /\ q.type = "protection_reaction" /\ q.source = a
      /\ q.id = id /\ q.spell = spell
  BY AskedSpell
<1>1. /\ IsAsked(p) /\ p.type = "protection_reaction" /\ p.source = a
      /\ p.id = id /\ p.spell = spell
  <2>1. p = [q EXCEPT !.rest = Tail(queue)]
    BY DEF Asks
  <2> HIDE DEF p, q
  <2>2. QED
    BY <1>0, <2>1, AskedRest DEF SameDecision
<1>2. ProtectionOpened(w, a, t, spell, id, inAction, queue)
        = Waits([w EXCEPT !.pending = p], a, inAction)
  BY Zenon DEF ProtectionOpened
<1> HIDE DEF p
<1>3. Bare(w, Saving(p)) /\ (Declares(p) => Ready(w, p.source, p.id))
  BY <1>1 DEF Saving, Declares
<1>4. QED
  BY <1>1, <1>2, <1>3, OpenedSound

LEMMA AttackDeclaredInv ==
    ASSUME NEW w, Bare(w, {}), w.pending = NoResolution, NEW a,
           NEW t, NEW spell, NEW id, spell.concentration => Ready(w, a, id),
           NEW inAction, AttackDeclared(w, a, t, spell, id, inAction)
    PROVE  IInv'
<1>1. CASE AttackRolled(w, a, t, spell, id, inAction, FALSE)
  BY <1>1, AttackRolledInv
<1>2. CASE \E queue : Committed(ProtectionOpened(w, a, t, spell, id, inAction, queue), {}, {})
  BY <1>2, ProtectionOpenedSound, CommittedInv
<1>3. QED
  BY <1>1, <1>2 DEF AttackDeclared

-----------------------------------------------------------------------------
(* Encounter and turns. *)

LEMMA InvFacts ==
    ASSUME IInv
    PROVE  /\ IsWorld(world) /\ Sound(world) /\ world.living \subseteq Actor
           /\ world.pending = NoResolution => Bare(world, {})
  BY DEF IInv, Sound, Bare, Saving, NoResolution

\* A handler that keeps concentrations and the pending decision and begins no
\* effect.
Fewer(w, v) ==
    /\ IsWorld(v) /\ v.living = w.living /\ v.pending = w.pending
    /\ v.concentration = w.concentration /\ v.effects \subseteq w.effects

Tidy == \E w, fallen : Fewer(world, w) /\ Committed(w, {}, fallen)

LEMMA KeptTidy ==
    ASSUME NEW w, Kept(world, w), NEW fallen, Committed(w, {}, fallen)
    PROVE  Tidy
  BY DEF Tidy, Fewer, Kept, Frame

LEMMA TidyInv == ASSUME IInv, Tidy PROVE IInv'
<1>1. PICK w, fallen : Fewer(world, w) /\ Committed(w, {}, fallen)
  BY DEF Tidy
<1>2. Bare(world, Saving(world.pending))
  BY DEF IInv, Sound
<1>3. IsFiniteSet(w.effects)
  BY <1>1, <1>2, FS_Subset DEF Bare, Fewer
<1>4. Bare(w, Saving(w.pending))
  BY <1>1, <1>2, <1>3 DEF Bare, Fewer
<1>5. Sound(w)
  BY <1>1, <1>4 DEF IInv, Sound, Ready, Fresh, Fewer
<1>6. QED
  BY <1>1, <1>5, CommittedInv

LEMMA FewerEffects ==
    ASSUME NEW w, IsWorld(w), NEW e \in SUBSET w.effects
    PROVE  Fewer(w, [w EXCEPT !.effects = e])
  BY DEF IsWorld, Fewer

LEMMA FewerKept ==
    ASSUME NEW u, NEW v, NEW w, Fewer(u, v), Kept(v, w)
    PROVE  Fewer(u, w)
  BY DEF Fewer, Kept, Frame

LEMMA StartEncounterTidy == ASSUME IInv, NEW a, StartEncounter(a) PROVE Tidy
<1>1. PICK order : Committed([world EXCEPT !.mode = "encounter", !.initiative = order,
                                !.active = 1, !.round = 1, !.started = FALSE,
                                !.swapped = {}], {}, {})
  BY DEF StartEncounter
<1> DEFINE w1 == [world EXCEPT !.mode = "encounter"]
           w2 == [w1 EXCEPT !.initiative = order]
           w3 == [w2 EXCEPT !.active = 1]
           w4 == [w3 EXCEPT !.round = 1]
           w5 == [w4 EXCEPT !.started = FALSE]
           w6 == [w5 EXCEPT !.swapped = {}]
<1>2. Committed(w6, {}, {})
  BY <1>1
<1> HIDE DEF w1, w2, w3, w4, w5, w6
<1>3. Kept(world, w1)
  BY InvFacts, FieldKept DEF w1
<1>4. Kept(w1, w2)
  BY <1>3, KeptWorld, FieldKept DEF w2
<1>5. Kept(w2, w3)
  BY <1>4, KeptWorld, FieldKept DEF w3
<1>6. Kept(w3, w4)
  BY <1>5, KeptWorld, FieldKept DEF w4
<1>7. Kept(w4, w5)
  BY <1>6, KeptWorld, FieldKept DEF w5
<1>8. Kept(w5, w6)
  BY <1>7, KeptWorld, FieldKept DEF w6
<1>9. Kept(world, w6)
  BY <1>3, <1>4, <1>5, <1>6, <1>7, <1>8, KeptTwice
<1>10. QED
  BY <1>2, <1>9, KeptTidy

LEMMA SwapInitiativeTidy == ASSUME IInv, NEW a, NEW ally, SwapInitiative(a, ally) PROVE Tidy
<1> DEFINE w(x, y) == [[world EXCEPT !.initiative = x] EXCEPT !.swapped = y]
<1>1. \E x, y : Committed(w(x, y), {}, {})
  BY Zenon DEF SwapInitiative
<1>2. ASSUME NEW x, NEW y PROVE Kept(world, w(x, y))
  <2> DEFINE u == [world EXCEPT !.initiative = x]
  <2>1. Kept(world, u)
    BY InvFacts, FieldKept
  <2> HIDE DEF u
  <2>2. Kept(u, [u EXCEPT !.swapped = y])
    BY <2>1, KeptWorld, FieldKept
  <2>3. QED
    BY <2>1, <2>2, KeptTwice DEF u
<1> HIDE DEF w
<1>3. QED
  BY <1>1, <1>2, KeptTidy

LEMMA StartTurnTidy == ASSUME IInv, NEW a, StartTurn(a) PROVE Tidy
<1> DEFINE w1(kept) == [world EXCEPT !.effects = kept]
           w2(kept, x) == [w1(kept) EXCEPT !.started = x]
           w3(kept, x, y) == [w2(kept, x) EXCEPT !.action = y]
           w4(kept, x, y, z) == [w3(kept, x, y) EXCEPT !.reaction = z]
<1>1. \E kept \in SUBSET world.effects : \E x, y, z, fallen :
         Committed(w4(kept, x, y, z), {}, fallen)
  BY Zenon DEF StartTurn
<1>a. PICK kept \in SUBSET world.effects :
         \E x, y, z, fallen : Committed(w4(kept, x, y, z), {}, fallen)
  BY <1>1
<1>2. PICK x, y, z, fallen : Committed(w4(kept, x, y, z), {}, fallen)
  BY <1>a
<1> HIDE DEF w1, w2, w3, w4
<1>3. Fewer(world, w1(kept))
  BY InvFacts, FewerEffects DEF w1
<1>4. Kept(w1(kept), w2(kept, x))
  BY <1>3, FieldKept DEF w2, Fewer
<1>5. Kept(w2(kept, x), w3(kept, x, y))
  BY <1>4, KeptWorld, FieldKept DEF w3
<1>6. Kept(w3(kept, x, y), w4(kept, x, y, z))
  BY <1>5, KeptWorld, FieldKept DEF w4
<1>7. Fewer(world, w4(kept, x, y, z))
  BY <1>3, <1>4, <1>5, <1>6, FewerKept
<1>8. QED
  BY <1>2, <1>7 DEF Tidy

LEMMA EndTurnTidy == ASSUME IInv, NEW a, EndTurn(a) PROVE Tidy
<1> DEFINE w1(kept) == [world EXCEPT !.effects = kept]
           w2(kept) == [w1(kept) EXCEPT !.started = FALSE]
           w3(kept, x) == [w2(kept) EXCEPT !.attack = x]
           w4(kept, x, y) == [w3(kept, x) EXCEPT !.active = y]
           w5(kept, x, y, z) == [w4(kept, x, y) EXCEPT !.round = z]
<1>1. \E kept \in SUBSET world.effects : \E x, y, z :
         Committed(w5(kept, x, y, z), {}, {})
  BY Zenon DEF EndTurn
<1>a. PICK kept \in SUBSET world.effects : \E x, y, z : Committed(w5(kept, x, y, z), {}, {})
  BY <1>1
<1>2. PICK x, y, z : Committed(w5(kept, x, y, z), {}, {})
  BY <1>a
<1> HIDE DEF w1, w2, w3, w4, w5
<1>3. Fewer(world, w1(kept))
  BY InvFacts, FewerEffects DEF w1
<1>4. Kept(w1(kept), w2(kept))
  BY <1>3, FieldKept DEF w2, Fewer
<1>5. Kept(w2(kept), w3(kept, x))
  BY <1>4, KeptWorld, FieldKept DEF w3
<1>6. Kept(w3(kept, x), w4(kept, x, y))
  BY <1>5, KeptWorld, FieldKept DEF w4
<1>7. Kept(w4(kept, x, y), w5(kept, x, y, z))
  BY <1>6, KeptWorld, FieldKept DEF w5
<1>8. Fewer(world, w5(kept, x, y, z))
  BY <1>3, <1>4, <1>5, <1>6, <1>7, FewerKept
<1>9. QED
  BY <1>2, <1>8 DEF Tidy

-----------------------------------------------------------------------------
(* The Attack action. *)

LEMMA BeginAttackActionTidy == ASSUME IInv, NEW a, BeginAttackAction(a) PROVE Tidy
  BY InvFacts, StartedKept, KeptTidy DEF BeginAttackAction

LEMMA ForfeitAttackActionTidy == ASSUME IInv, NEW a, ForfeitAttackAction(a) PROVE Tidy
<1>1. \E x : Committed([world EXCEPT !.attack = x], {}, {})
  BY Zenon DEF ForfeitAttackAction
<1>2. QED
  BY <1>1, InvFacts, FieldKept, KeptTidy

LEMMA PerformWeaponAttackInv ==
    ASSUME IInv, NEW a, NEW t, PerformWeaponAttack(a, t) PROVE IInv'
<1> DEFINE w == AttackEntryCommitted(world, a)
<1>1. Bare(world, {}) /\ world.pending = NoResolution
  BY InvFacts DEF PerformWeaponAttack, MayAttack, MayAct
<1>2. Kept(world, w)
  BY InvFacts, EntryKept
<1>3. AttackDeclared(w, a, t, WeaponAttack, 0, TRUE)
  BY DEF PerformWeaponAttack
<1> HIDE DEF w
<1>4. Bare(w, {}) /\ w.pending = NoResolution
  BY <1>1, <1>2, FrameBare DEF Kept
<1>5. WeaponAttack.concentration = FALSE
  BY DEF WeaponAttack
<1>6. QED
  BY <1>3, <1>4, <1>5, AttackDeclaredInv

\* A decision that is answered leaves its world without it.
LEMMA Answered ==
    ASSUME IInv
    PROVE  LET closed == ResolutionClosed(world)
           IN /\ Bare(closed, Saving(world.pending)) /\ closed.pending = NoResolution
              /\ Frame(world, closed)
<1>1. Frame(world, ResolutionClosed(world)) /\ ResolutionClosed(world).pending = NoResolution
  BY InvFacts, ClosedKept
<1>2. Bare(world, Saving(world.pending))
  BY DEF IInv, Sound
<1>3. QED
  BY <1>1, <1>2, FrameBare

\* A decision that declares a concentration and asks no saving throw.
LEMMA AnsweredAttack ==
    ASSUME IInv, world.pending.type \in {"protection_reaction", "attack_reaction"},
           NEW w, w = ResolutionClosed(world) \/ \E a : w = Reacts(ResolutionClosed(world), a)
    PROVE  /\ Bare(w, {}) /\ w.pending = NoResolution
           /\ world.pending.spell.concentration
                => Ready(w, world.pending.source, world.pending.id)
<1> DEFINE closed == ResolutionClosed(world)
<1>1. Bare(closed, {}) /\ closed.pending = NoResolution /\ Frame(world, closed)
  BY Answered DEF Saving
<1> HIDE DEF closed
<1>2. IsWorld(closed)
  BY <1>1 DEF Bare
<1>3. Kept(closed, w)
  <2>1. CASE w = closed
    BY <1>2, <2>1, FieldKept
  <2>2. CASE \E a : w = Reacts(closed, a)
    BY <1>2, <2>2, ReactsKept
  <2>3. QED
    BY <2>1, <2>2 DEF closed
<1>4. Bare(w, {}) /\ w.pending = NoResolution /\ Frame(world, w)
  BY <1>1, <1>3, FrameBare DEF Kept, Frame
<1>5. world.pending.spell.concentration => Ready(world, world.pending.source, world.pending.id)
  BY DEF IInv, Sound, Declares
<1>6. QED
  BY <1>4, <1>5 DEF Frame, Ready, Fresh

LEMMA ResolvePendingProtectionInv == ASSUME IInv, ResolvePendingProtection PROVE IInv'
<1> DEFINE p == world.pending
<1>1. world.pending.type \in {"protection_reaction", "attack_reaction"}
  BY DEF ResolvePendingProtection, MayDecide
<1>2. PICK w : /\ w = ResolutionClosed(world) \/ \E a : w = Reacts(ResolutionClosed(world), a)
               /\ \/ Committed(ProtectionOpened(w, p.source, p.target, p.spell, p.id,
                                                p.attack, p.rest), {}, {})
                  \/ AttackRolled(w, p.source, p.target, p.spell, p.id, p.attack, TRUE)
  BY Zenon DEF ResolvePendingProtection
<1>3. /\ Bare(w, {}) /\ w.pending = NoResolution
      /\ p.spell.concentration => Ready(w, p.source, p.id)
  BY <1>1, <1>2, AnsweredAttack
<1> HIDE DEF p
<1>4. CASE AttackRolled(w, p.source, p.target, p.spell, p.id, p.attack, TRUE)
  BY <1>3, <1>4, AttackRolledInv
<1>5. CASE Committed(ProtectionOpened(w, p.source, p.target, p.spell, p.id,
                                      p.attack, p.rest), {}, {})
  BY <1>3, <1>5, ProtectionOpenedSound, CommittedInv
<1>6. QED
  BY <1>2, <1>4, <1>5

LEMMA ResolvePendingAttackInv == ASSUME IInv, ResolvePendingAttack PROVE IInv'
<1> DEFINE p == world.pending
<1>1. world.pending.type \in {"protection_reaction", "attack_reaction"}
  BY DEF ResolvePendingAttack, MayDecide
<1>2. PICK w, o, fallen :
         /\ w = ResolutionClosed(world) \/ \E a : w = Reacts(ResolutionClosed(world), a)
         /\ Committed(AttackExecuted(world, Done(w, p.source, p.attack), p.source, p.target,
                                     p.spell, p.id, o), {}, fallen)
  BY Zenon DEF ResolvePendingAttack
<1>3. /\ Bare(w, {}) /\ w.pending = NoResolution
      /\ p.spell.concentration => Ready(w, p.source, p.id)
  BY <1>1, <1>2, AnsweredAttack
<1> DEFINE u == Done(w, p.source, p.attack)
<1>4. Kept(w, u)
  BY <1>3, DoneKept DEF Bare
<1> HIDE DEF p, u
<1>5. /\ Bare(u, {}) /\ u.pending = NoResolution
      /\ p.spell.concentration => Ready(u, p.source, p.id)
  BY <1>3, <1>4, FrameBare DEF Kept, Frame, Ready, Fresh
<1>6. Sound(AttackExecuted(world, u, p.source, p.target, p.spell, p.id, o))
  BY <1>5, AttackExecutedSound
<1>7. QED
  BY <1>2, <1>6, CommittedInv DEF u

-----------------------------------------------------------------------------
(* Spells. *)

LEMMA AnsweredOther ==
    ASSUME IInv, world.pending.type # "target_save"
    PROVE  LET closed == ResolutionClosed(world)
           IN /\ Bare(closed, {}) /\ closed.pending = NoResolution
              /\ Sound(closed) /\ IsWorld(closed) /\ Bare(world, {})
<1> DEFINE closed == ResolutionClosed(world)
<1>1. Bare(closed, {}) /\ closed.pending = NoResolution
  BY Answered DEF Saving
<1> HIDE DEF closed
<1>2. Sound(closed) /\ IsWorld(closed)
  BY <1>1 DEF Sound, Saving, Declares, NoResolution, Bare
<1>3. Bare(world, {})
  BY DEF IInv, Sound, Saving
<1>4. QED
  BY <1>1, <1>2, <1>3 DEF closed

LEMMA FollowedInv ==
    ASSUME NEW before, NEW after, NEW queue, NEW invalid, NEW fallen,
           Bare(after, {}), after.pending = NoResolution,
           Committed(FollowUpOpened(before, after, queue, invalid), {}, fallen)
    PROVE  IInv'
  BY FollowUpSound, CommittedInv

LEMMA DartsStrikeInv ==
    ASSUME NEW w, Bare(w, {}), w.pending = NoResolution, NEW a, NEW darts,
           DartsStrike(w, a, darts)
    PROVE  IInv'
<1>1. PICK touched, queue, fallen :
         Committed(FollowUpOpened(world, ActionState(w, a, {a} \cup touched, {}, 0), queue, {}),
                   {}, fallen)
  BY Zenon DEF DartsStrike
<1> DEFINE after == ActionState(w, a, {a} \cup touched, {}, 0)
<1>2. Bare(after, {}) /\ after.pending = NoResolution
  BY ActionStateDone, FS_EmptySet
<1> HIDE DEF after
<1>3. Committed(FollowUpOpened(world, after, queue, {}), {}, fallen)
  BY <1>1 DEF after
<1>4. QED
  BY <1>2, <1>3, FollowedInv

LEMMA MagicMissileOpenedInv ==
    ASSUME NEW w, Bare(w, {}), NEW a, NEW spell, NEW darts, NEW queue,
           Committed(MagicMissileOpened(w, a, spell, darts, queue), {}, {})
    PROVE  IInv'
<1> DEFINE p == [Ask("magic_missile_reaction", Head(queue), a, Head(queue))
                   EXCEPT !.spell = spell, !.darts = darts, !.rest = Tail(queue)]
<1>1. p.type = "magic_missile_reaction"
  BY DEF Ask
<1>2. MagicMissileOpened(w, a, spell, darts, queue) = [w EXCEPT !.pending = p]
  BY Zenon DEF MagicMissileOpened
<1> HIDE DEF p
<1>3. Sound([w EXCEPT !.pending = p])
  BY <1>1, OtherSound DEF Suspending
<1>4. QED
  BY <1>2, <1>3, CommittedInv

LEMMA ResolveMagicMissileReactionInv == ASSUME IInv, ResolveMagicMissileReaction PROVE IInv'
<1>1. world.pending.type # "target_save"
  BY DEF ResolveMagicMissileReaction, MayDecide
<1> DEFINE p == world.pending
           closed == ResolutionClosed(world)
<1>2. PICK w, darts :
         /\ w = closed \/ w = Reacts(closed, p.decider)
         /\ \/ DartsStrike(w, p.source, darts)
            \/ Committed(MagicMissileOpened(w, p.source, p.spell, darts, p.rest), {}, {})
  BY Zenon DEF ResolveMagicMissileReaction
<1>3. Bare(closed, {}) /\ closed.pending = NoResolution /\ IsWorld(closed)
  BY <1>1, AnsweredOther
<1> HIDE DEF p, closed
<1>4. Kept(closed, w)
  <2>1. CASE w = closed
    BY <1>3, <2>1, FieldKept
  <2>2. CASE w = Reacts(closed, p.decider)
    BY <1>3, <2>2, ReactsKept
  <2>3. QED
    BY <1>2, <2>1, <2>2
<1>5. Bare(w, {}) /\ w.pending = NoResolution
  BY <1>3, <1>4, FrameBare DEF Kept
<1>6. QED
  BY <1>2, <1>5, DartsStrikeInv, MagicMissileOpenedInv

LEMMA TargetSaveSound ==
    ASSUME NEW w, NEW a, NEW targets, NEW spell, NEW id, NEW followUps,
           Bare(w, IF spell.concentration THEN {id} ELSE {}),
           spell.concentration => Ready(w, a, id), NEW b, NEW inAction
    PROVE  Sound(Waits(TargetSaveOpened(w, a, targets, spell, id, followUps), b, inAction))
<1> DEFINE q == Asks("target_save", Head(targets), a, Head(targets), spell, id)
           r == [q EXCEPT !.rest = Tail(targets)]
           p == [r EXCEPT !.followUps = followUps]
<1>1. /\ IsAsked(q) /\ q.type = "target_save" /\ q.source = a
      /\ q.id = id /\ q.spell = spell
  BY AskedSpell
<1>2. TargetSaveOpened(w, a, targets, spell, id, followUps) = [w EXCEPT !.pending = p]
  BY Zenon DEF TargetSaveOpened, Asks
<1> HIDE DEF q
<1>3. IsAsked(r) /\ SameDecision(q, r)
  BY <1>1, AskedRest
<1> HIDE DEF r
<1>4. IsAsked(p) /\ SameDecision(r, p)
  BY <1>3, AskedRest
<1> HIDE DEF p
<1>5. /\ IsAsked(p) /\ p.type = "target_save" /\ p.source = a
      /\ p.id = id /\ p.spell = spell
  BY <1>1, <1>3, <1>4 DEF SameDecision
<1>6. Bare(w, Saving(p)) /\ (Declares(p) => Ready(w, p.source, p.id))
  BY <1>5 DEF Saving, Declares
<1>7. QED
  BY <1>2, <1>5, <1>6, OpenedSound

LEMMA MagicMissileInv ==
    ASSUME NEW w, Bare(w, {}), w.pending = NoResolution, NEW a, NEW spell, NEW targets,
           MagicMissile(w, a, spell, targets)
    PROVE  IInv'
<1>1. PICK darts, queue : \/ DartsStrike(w, a, darts)
                          \/ Committed(MagicMissileOpened(w, a, spell, darts, queue), {}, {})
  BY Zenon DEF MagicMissile
<1>2. QED
  BY <1>1, DartsStrikeInv, MagicMissileOpenedInv

LEMMA UseActionInv ==
    ASSUME IInv, NEW a \in Actor, NEW spell \in Spells[a], NEW targets,
           UseAction(a, spell, targets)
    PROVE  IInv'
<1> DEFINE w == Pays(world, a)
           id == FreshId(world)
           t == Head(targets)
<1>1. a \in world.living /\ world.pending = NoResolution
  BY DEF UseAction, MayAct
<1>2. Bare(world, {}) /\ IsWorld(world)
  BY <1>1, InvFacts
<1>3. Fresh(world, id)
  BY <1>1, <1>2, FreshIdFresh
<1>4. Kept(world, w)
  BY <1>2, PaysKept
<1>5. \/ MagicMissile(w, a, spell, targets)
      \/ Committed(TargetSaveOpened(w, a, targets, spell, id, << >>), {}, {})
      \/ AttackDeclared(w, a, t, spell, id, FALSE)
      \/ \E touched : Committed(ActionState(w, a, touched, Gained(t, spell, id),
                                            IF spell.concentration THEN id ELSE 0), {}, {})
  <2>1. spell.resolution \in {"attack", "save", "darts", "none"}
    BY RulesAssumption DEF Execution
  <2>2. CASE spell.resolution = "darts"
    BY <2>2 DEF UseAction
  <2>3. CASE spell.resolution = "save"
    BY <2>3 DEF UseAction
  <2>4. CASE spell.resolution = "attack"
    BY <2>4 DEF UseAction
  <2>5. CASE spell.resolution = "none"
    BY <2>5 DEF UseAction
  <2>6. QED
    BY <2>1, <2>2, <2>3, <2>4, <2>5
<1> HIDE DEF w, id, t
<1>6. Bare(w, {}) /\ w.pending = NoResolution /\ Ready(w, a, id)
  BY <1>1, <1>2, <1>3, <1>4, FrameBare DEF Kept, Frame, Ready, Fresh
<1>7. CASE Committed(TargetSaveOpened(w, a, targets, spell, id, << >>), {}, {})
  <2>1. Bare(w, IF spell.concentration THEN {id} ELSE {})
    BY <1>6, BareMore
  <2>2. Sound(Waits(TargetSaveOpened(w, a, targets, spell, id, << >>), a, FALSE))
    BY <1>6, <2>1, TargetSaveSound
  <2>3. QED
    BY <1>7, <2>2, CommittedInv DEF Waits
<1>8. ASSUME NEW touched,
             Committed(ActionState(w, a, touched, Gained(t, spell, id),
                                   IF spell.concentration THEN id ELSE 0), {}, {})
      PROVE  IInv'
  <2> DEFINE cid == IF spell.concentration THEN id ELSE 0
             gained == Gained(t, spell, id)
  <2>1. cid \in Nat /\ (cid # 0 => Ready(w, a, cid))
    BY <1>6 DEF Ready, Fresh
  <2>2. IsFiniteSet(gained) /\ \A e \in gained : e.link \in {0, cid}
    BY GainedFacts
  <2>3. Committed(ActionState(w, a, touched, gained, cid), {}, {})
    BY <1>8
  <2> HIDE DEF cid, gained
  <2>4. Bare(ActionState(w, a, touched, gained, cid), {})
        /\ ActionState(w, a, touched, gained, cid).pending = NoResolution
    BY <1>6, <2>1, <2>2, ActionStateDone
  <2>5. Sound(ActionState(w, a, touched, gained, cid))
    BY <2>4 DEF Sound, Saving, Declares, NoResolution
  <2>6. QED
    BY <2>3, <2>5, CommittedInv
<1>9. QED
  BY <1>5, <1>6, <1>7, <1>8, MagicMissileInv, AttackDeclaredInv

LEMMA UseAttackReplacementInv ==
    ASSUME IInv, NEW a \in Actor, NEW action \in Replacements[a], NEW targets,
           UseAttackReplacement(a, action, targets)
    PROVE  IInv'
<1> DEFINE w == IF world.attack[a].open THEN world ELSE AttackActionStarted(world, a)
           u == [w EXCEPT !.attack[a].replaced = TRUE]
           v == AttackEntryCommitted(u, a)
<1>1. world.pending = NoResolution
  BY DEF UseAttackReplacement, MayBeginAttackAction, MayAttack, MayAct
<1>2. Bare(world, {}) /\ IsWorld(world)
  BY <1>1, InvFacts
<1>3. Committed(Waits(TargetSaveOpened(v, a, targets, action, 0, << >>), a, TRUE), {}, {})
  BY DEF UseAttackReplacement
<1>4. Kept(world, w)
  BY <1>2, StartedKept, FieldKept
<1> HIDE DEF w
<1>5. Kept(w, u)
  BY <1>4, KeptWorld, FieldKept
<1> HIDE DEF u
<1>6. Kept(u, v)
  BY <1>5, KeptWorld, EntryKept
<1> HIDE DEF v
<1>7. Bare(v, {})
  BY <1>2, <1>4, <1>5, <1>6, KeptTwice, FrameBare DEF Kept
<1>8. ~action.concentration
  BY RulesAssumption
<1>9. Sound(Waits(TargetSaveOpened(v, a, targets, action, 0, << >>), a, TRUE))
  BY <1>7, <1>8, TargetSaveSound
<1>10. QED
  BY <1>3, <1>9, CommittedInv

\* The last target ends the saving throw and starts the concentration; before
\* it the effects hang on a concentration that is only declared.
LEMMA ResolvePendingSaveInv == ASSUME IInv, ResolvePendingSave PROVE IInv'
<1> DEFINE p == world.pending
           closed == ResolutionClosed(world)
           final == p.rest = << >>
           Gains(failed) == IF failed THEN Gained(p.target, p.spell, p.id) ELSE {}
           cid == IF final /\ p.spell.concentration THEN p.id ELSE 0
<1>1. p.type = "target_save"
  BY DEF ResolvePendingSave, MayDecide
<1>2. PICK failed, passed, queue, invalid, fallen :
         LET after == TargetSaveAnswered(p, failed, passed)
         IN IF final
            THEN Committed(FollowUpOpened(world, Done(after, p.source, p.attack), queue, invalid),
                           {}, fallen)
            ELSE Committed(Waits(TargetSaveOpened(after, p.source, p.rest, p.spell, p.id, queue),
                                 p.source, p.attack), {}, fallen)
  BY DEF ResolvePendingSave
<1>3. Bare(closed, Saving(p)) /\ closed.pending = NoResolution /\ Frame(world, closed)
  BY Answered
<1>4. p.spell.concentration => Ready(closed, p.source, p.id)
  <2>1. p.spell.concentration => Ready(world, p.source, p.id)
    BY <1>1 DEF IInv, Sound, Declares
  <2>2. QED
    BY <1>3, <2>1 DEF Frame, Ready, Fresh
<1>5. Saving(p) = IF p.spell.concentration THEN {p.id} ELSE {}
  BY <1>1 DEF Saving
<1>6. cid \in Nat /\ (cid # 0 => Ready(closed, p.source, cid))
  BY <1>4 DEF Ready, Fresh
<1>7. /\ IsFiniteSet(Gains(failed))
      /\ \A e \in Gains(failed) : e.link = 0 \/ (p.spell.concentration /\ e.link = p.id)
  BY GainedFacts, FS_EmptySet
<1> DEFINE gained == Gains(failed)
           touched == {p.source} \cup (IF passed THEN {} ELSE {p.target})
           after == TargetSaveAnswered(p, failed, passed)
<1>8. /\ after = ActionState(closed, p.source, touched, gained, cid)
      /\ IsFiniteSet(gained)
      /\ \A e \in gained : e.link = 0 \/ (p.spell.concentration /\ e.link = p.id)
  BY <1>7 DEF TargetSaveAnswered
<1> HIDE DEF Gains, gained, touched, after, closed
<1>9. CASE final
  <2> DEFINE none == {}
  <2>1. Saving(p) \subseteq none \cup {0, cid} /\ \A e \in gained : e.link \in none \cup {0, cid}
    BY <1>5, <1>8, <1>9
  <2> HIDE DEF none, cid
  <2>2. Bare(after, none) /\ after.pending = NoResolution
    BY ONLY <1>3, <1>6, <1>8, <2>1, ActionStateBare
  <2>3. Kept(after, Done(after, p.source, p.attack))
    BY <2>2, DoneKept DEF Bare
  <2> DEFINE done == Done(after, p.source, p.attack)
  <2>4. Committed(FollowUpOpened(world, done, queue, invalid), {}, fallen)
    BY <1>2, <1>9 DEF after
  <2> HIDE DEF done
  <2>5. Bare(done, {}) /\ done.pending = NoResolution
    BY <2>2, <2>3, FrameBare DEF Kept, done, none
  <2>6. QED
    BY <2>4, <2>5, FollowedInv
<1>10. CASE ~final
  <2> DEFINE left == Saving(p)
  <2>1. /\ cid = 0 /\ left \subseteq left \cup {0, cid} /\ Bare(closed, left)
        /\ \A e \in gained : e.link \in left \cup {0, cid}
    BY <1>3, <1>5, <1>8, <1>10
  <2> HIDE DEF cid, left
  <2>2. /\ Bare(after, left) /\ after.living = closed.living
        /\ \A a \in Actor : after.concentration[a] \in {0, closed.concentration[a]}
                            \/ (cid # 0 /\ after.concentration[a] = cid)
    BY ONLY <1>6, <1>8, <2>1, ActionStateBare
  <2>3. p.spell.concentration => Ready(after, p.source, p.id)
    BY <1>4, <2>1, <2>2 DEF Ready, Fresh
  <2>4. Bare(after, IF p.spell.concentration THEN {p.id} ELSE {})
    BY <1>5, <2>2 DEF left
  <2> DEFINE asks == Waits(TargetSaveOpened(after, p.source, p.rest, p.spell, p.id, queue),
                           p.source, p.attack)
  <2>5. Committed(asks, {}, fallen)
    BY <1>2, <1>10 DEF after
  <2> HIDE DEF p
  <2>6. Sound(asks)
    BY <2>3, <2>4, TargetSaveSound
  <2>7. QED
    BY <2>5, <2>6, CommittedInv
<1>11. QED
  BY <1>9, <1>10

-----------------------------------------------------------------------------
(* Saves that follow an attack or a spell, hazards and death. *)

LEMMA ResolveMasterySaveInv == ASSUME IInv, ResolveMasterySave PROVE IInv'
<1> DEFINE closed == ResolutionClosed(world)
           a == world.pending.source
<1>1. world.pending.type # "target_save"
  BY DEF ResolveMasterySave, MayDecide
<1>2. PICK touched, queue, invalid, fallen :
         Committed(FollowUpOpened(world, ActionState(closed, a, touched, {}, 0), queue, invalid),
                   {}, fallen)
  BY Zenon DEF ResolveMasterySave
<1>3. Bare(closed, {}) /\ closed.pending = NoResolution
  BY <1>1, AnsweredOther
<1> HIDE DEF closed, a
<1> DEFINE after == ActionState(closed, a, touched, {}, 0)
<1>4. Bare(after, {}) /\ after.pending = NoResolution
  BY <1>3, ActionStateDone, FS_EmptySet
<1>5. Committed(FollowUpOpened(world, after, queue, invalid), {}, fallen)
  BY <1>2
<1> HIDE DEF after
<1>6. QED
  BY <1>4, <1>5, FollowedInv

LEMMA ResolveConcentrationSaveInv == ASSUME IInv, ResolveConcentrationSave PROVE IInv'
<1> DEFINE closed == ResolutionClosed(world)
           a == world.pending.decider
           cleared == ConcentrationCleared(closed, a)
<1>1. world.pending.type # "target_save" /\ a \in Actor
  BY InvFacts DEF ResolveConcentrationSave, MayDecide
<1>2. PICK after, queue, invalid :
         /\ after = closed \/ after = cleared
         /\ Committed(FollowUpOpened(world, after, queue, invalid), {}, {})
  BY Zenon DEF ResolveConcentrationSave
<1>3. Bare(closed, {}) /\ closed.pending = NoResolution
  BY <1>1, AnsweredOther
<1> HIDE DEF closed, a
<1>4. Bare(cleared, {}) /\ cleared.pending = NoResolution
  BY <1>1, <1>3, ConcentrationClearedBare
<1> HIDE DEF cleared
<1>5. Bare(after, {}) /\ after.pending = NoResolution
  BY <1>2, <1>3, <1>4
<1>6. QED
  BY <1>2, <1>5, FollowedInv

LEMMA TriggerHazardInv == ASSUME IInv, NEW a, TriggerHazard(a) PROVE IInv'
<1> DEFINE p == Ask("hazard_save", a, a, a)
<1>1. Bare(world, {}) /\ Committed([world EXCEPT !.pending = p], {}, {})
  BY InvFacts DEF TriggerHazard, MayAct
<1>2. p.type \notin Suspending
  BY DEF Ask, Suspending
<1> HIDE DEF p
<1>3. Sound([world EXCEPT !.pending = p])
  BY <1>1, <1>2, OtherSound
<1>4. QED
  BY <1>1, <1>3, CommittedInv

\* A hazard may kill: nothing it leaves pending suspends a spell.
LEMMA ResolveHazardSaveInv == ASSUME IInv, ResolveHazardSave PROVE IInv'
<1> DEFINE closed == ResolutionClosed(world)
           t == world.pending.target
           Harm(harmed) == IF harmed THEN {[on |-> t, link |-> 0, incapacitates |-> TRUE]} ELSE {}
           Hurt(harmed) == [closed EXCEPT !.effects = closed.effects \cup Harm(harmed)]
<1>1. world.pending.type # "target_save"
  BY DEF ResolveHazardSave, MayDecide
<1>2. PICK harmed, queue, died, fallen :
         Committed(FollowUpOpened(world, Hurt(harmed), queue, {}), died, fallen)
  BY Zenon DEF ResolveHazardSave
<1>3. Bare(closed, {}) /\ closed.pending = NoResolution /\ IsWorld(closed)
  BY <1>1, AnsweredOther
<1> DEFINE harm == Harm(harmed)
           hurt == [closed EXCEPT !.effects = closed.effects \cup harm]
<1>4. IsFiniteSet(harm) /\ \A e \in harm : e.link = 0
  <2>1. CASE harmed
    <3> DEFINE e == [on |-> t, link |-> 0, incapacitates |-> TRUE]
    <3>1. e.link = 0 /\ harm = {e}
      BY <2>1
    <3> HIDE DEF e, harm
    <3>2. QED
      BY <3>1, FS_Singleton
  <2>2. CASE ~harmed
    BY <2>2, FS_EmptySet
  <2>3. QED
    BY <2>1, <2>2
<1>5. Committed(FollowUpOpened(world, hurt, queue, {}), died, fallen)
  BY <1>2
<1> HIDE DEF harm, closed
<1>6. /\ IsWorld(hurt) /\ hurt.living = closed.living /\ hurt.pending = closed.pending
      /\ hurt.concentration = closed.concentration
      /\ hurt.effects = closed.effects \cup harm
  BY <1>3 DEF IsWorld
<1> HIDE DEF hurt
<1>7. IsFiniteSet(hurt.effects)
  <2>1. IsFiniteSet(closed.effects)
    BY <1>3 DEF Bare
  <2>2. QED
    BY <1>4, <1>6, <2>1, FS_Union
<1>8. Bare(hurt, {}) /\ hurt.pending = NoResolution
  BY <1>3, <1>4, <1>6, <1>7 DEF Bare
<1> DEFINE v == FollowUpOpened(world, hurt, queue, {})
<1>9. Sound(v) /\ ~Declares(v.pending)
  BY <1>8, FollowUpSound
<1> HIDE DEF v
<1>10. Sound(world') /\ LetGo(world')
  BY <1>5, <1>9, PostSound DEF Committed, v
<1>11. QED
  BY <1>10 DEF IInv

LEMMA AdjudicateActorDeathInv == ASSUME IInv, NEW a, AdjudicateActorDeath(a) PROVE IInv'
<1>1. ~Declares(world.pending) /\ Committed(world, {a}, {})
  BY DEF AdjudicateActorDeath, Declares, NoResolution
<1>2. Sound(world') /\ LetGo(world')
  BY <1>1, PostSound DEF Committed, IInv
<1>3. QED
  BY <1>2 DEF IInv

-----------------------------------------------------------------------------
(* Grapple, Shove and familiars. *)

LEMMA PerformUnarmedStrikeInv ==
    ASSUME IInv, NEW a, NEW t, NEW part, PerformUnarmedStrike(a, t, part) PROVE IInv'
<1> DEFINE w == AttackEntryCommitted(world, a)
           q == Ask("unarmed_save", t, a, t)
           p == [q EXCEPT !.id = part]
<1>1. Bare(world, {}) /\ Kept(world, w)
  BY InvFacts, EntryKept DEF PerformUnarmedStrike, MayAttack, MayAct
<1>2. Committed(Waits([w EXCEPT !.pending = p], a, TRUE), {}, {})
  BY DEF PerformUnarmedStrike, Waits
<1> HIDE DEF w
<1>3. IsAsked(q) /\ q.type = "unarmed_save"
  BY DEF Ask, IsAsked
<1> HIDE DEF q
<1>4. IsAsked(p) /\ p.type = "unarmed_save"
  BY <1>3 DEF IsAsked
<1> HIDE DEF p
<1>5. Bare(w, Saving(p)) /\ ~Declares(p)
  BY <1>1, <1>4, FrameBare DEF Kept, Saving, Declares
<1>6. QED
  BY <1>2, <1>4, <1>5, OpenedSound, CommittedInv

LEMMA ResolveUnarmedSaveInv == ASSUME IInv, ResolveUnarmedSave PROVE IInv'
<1> DEFINE p == world.pending
           closed == ResolutionClosed(world)
           finished == AttackResolutionFinished(closed, p.source)
           shove == Ask("shove_outcome", p.source, p.source, p.target)
<1>1. world.pending.type # "target_save"
  BY DEF ResolveUnarmedSave, MayDecide
<1>2. PICK x : \/ Committed(finished, {}, {})
               \/ Committed([finished EXCEPT !.grapples = x], {}, {})
               \/ Committed(Waits([world EXCEPT !.pending = shove], p.source, TRUE), {}, {})
  BY Zenon DEF ResolveUnarmedSave, Waits
<1>3. Sound(closed) /\ IsWorld(closed) /\ Bare(world, {})
  BY <1>1, AnsweredOther
<1>4. Kept(closed, finished)
  BY <1>3, FinishedKept
<1>5. IsAsked(shove) /\ shove.type = "shove_outcome"
  BY DEF Ask, IsAsked
<1> HIDE DEF p, closed, finished, shove
<1>6. Sound(finished) /\ IsWorld(finished)
  BY <1>3, <1>4, KeptSound, KeptWorld
<1>7. Sound([finished EXCEPT !.grapples = x])
  BY <1>6, FieldKept, KeptSound
<1>8. Bare(world, Saving(shove)) /\ ~Declares(shove)
  BY <1>3, <1>5 DEF Saving, Declares
<1>9. Sound(Waits([world EXCEPT !.pending = shove], p.source, TRUE))
  BY <1>5, <1>8, OpenedSound
<1>10. QED
  BY <1>2, <1>6, <1>7, <1>9, CommittedInv

LEMMA ResolveShoveOutcomeInv == ASSUME IInv, ResolveShoveOutcome PROVE IInv'
<1> DEFINE closed == ResolutionClosed(world)
           a == world.pending.source
<1>1. world.pending.type # "target_save" /\ Committed(AttackResolutionFinished(closed, a), {}, {})
  BY DEF ResolveShoveOutcome, MayDecide
<1>2. Sound(closed) /\ IsWorld(closed)
  BY <1>1, AnsweredOther
<1> HIDE DEF closed, a
<1>3. Sound(AttackResolutionFinished(closed, a))
  BY <1>2, FinishedKept, KeptSound
<1>4. QED
  BY <1>1, <1>3, CommittedInv

LEMMA EscapeGrappleInv == ASSUME IInv, NEW a, NEW g, EscapeGrapple(a, g) PROVE IInv'
<1> DEFINE w == Pays(world, a)
           p == [Ask("escape_grapple", a, g.grappler, a) EXCEPT !.id = g.part]
<1>1. Bare(world, {}) /\ Kept(world, w)
  BY InvFacts, PaysKept DEF EscapeGrapple, MayAct
<1>2. Committed([w EXCEPT !.pending = p], {}, {})
  BY DEF EscapeGrapple
<1>3. p.type \notin Suspending
  BY DEF Ask, Suspending
<1> HIDE DEF w, p
<1>4. Sound([w EXCEPT !.pending = p])
  BY <1>1, <1>3, FrameBare, OtherSound DEF Kept
<1>5. QED
  BY <1>2, <1>4, CommittedInv

LEMMA ResolveEscapeGrappleInv == ASSUME IInv, ResolveEscapeGrapple PROVE IInv'
<1> DEFINE closed == ResolutionClosed(world)
<1>1. world.pending.type # "target_save"
  BY DEF ResolveEscapeGrapple, MayDecide
<1>2. PICK left : Committed([closed EXCEPT !.grapples = left], {}, {})
  BY Zenon DEF ResolveEscapeGrapple
<1>3. Sound(closed) /\ IsWorld(closed)
  BY <1>1, AnsweredOther
<1> HIDE DEF closed
<1>4. Sound([closed EXCEPT !.grapples = left])
  BY <1>3, FieldKept, KeptSound
<1>5. QED
  BY <1>2, <1>4, CommittedInv

\* A grapple may end while any decision is pending; only an escape is closed.
LEMMA EndGrappleInv == ASSUME IInv, NEW a, NEW g, EndGrapple(a, g) PROVE IInv'
<1> DEFINE w == IF EscapeFrom(world, g) THEN ResolutionClosed(world) ELSE world
<1>1. PICK left : Committed([w EXCEPT !.grapples = left], {}, {})
  BY Zenon DEF EndGrapple
<1>2. Sound(w) /\ IsWorld(w)
  <2>1. CASE EscapeFrom(world, g)
    <3>1. world.pending.type # "target_save"
      BY <2>1 DEF EscapeFrom
    <3>2. QED
      BY <2>1, <3>1, AnsweredOther
  <2>2. CASE ~EscapeFrom(world, g)
    BY <2>2, InvFacts
  <2>3. QED
    BY <2>1, <2>2
<1> HIDE DEF w
<1>3. Sound([w EXCEPT !.grapples = left])
  BY <1>2, FieldKept, KeptSound
<1>4. QED
  BY <1>1, <1>3, CommittedInv

LEMMA DismissFamiliarTidy == ASSUME IInv, NEW f, DismissFamiliar(f) PROVE Tidy
<1> DEFINE w == Pays(world, Owner[f])
<1>1. Kept(world, w) /\ Committed(FamiliarLeaves(w, f, "pocket_dimension"), {}, {})
  BY InvFacts, PaysKept DEF DismissFamiliar
<1> HIDE DEF w
<1>2. Kept(w, FamiliarLeaves(w, f, "pocket_dimension"))
  BY <1>1, KeptWorld, LeavesKept
<1>3. QED
  BY <1>1, <1>2, KeptTwice, KeptTidy

LEMMA ReappearFamiliarTidy == ASSUME IInv, NEW f, ReappearFamiliar(f) PROVE Tidy
<1> DEFINE w == Pays(world, Owner[f])
           u(x) == [w EXCEPT !.presence = x]
<1>1. PICK x : Committed(SceneWithPresentFamiliar(u(x), f), {}, {})
  BY Zenon DEF ReappearFamiliar
<1>2. Kept(world, w)
  BY InvFacts, PaysKept
<1> HIDE DEF w
<1>3. Kept(w, u(x))
  BY <1>2, KeptWorld, FieldKept
<1> HIDE DEF u
<1>4. Kept(u(x), SceneWithPresentFamiliar(u(x), f))
  BY <1>3, KeptWorld, JoinsKept
<1>5. QED
  BY <1>1, <1>2, <1>3, <1>4, KeptTwice, KeptTidy

-----------------------------------------------------------------------------
(* The invariant and what follows from it. *)

LEMMA InitInv == Init => IInv
<1> SUFFICES ASSUME Init PROVE IInv
  OBVIOUS
<1>1. /\ IsWorld(world) /\ world.living = Actor /\ world.effects = {}
      /\ world.concentration = [a \in Actor |-> 0] /\ world.grapples = {}
      /\ world.pending = NoResolution
  BY DEF Init, IsWorld
<1>2. Bare(world, {})
  BY <1>1, FS_EmptySet DEF Bare
<1>3. QED
  BY <1>1, <1>2 DEF IInv, Sound, Saving, Declares, NoResolution, LetGo

LEMMA DecisionInv == ASSUME IInv, ResolveDecision PROVE IInv'
  BY ResolvePendingProtectionInv, ResolvePendingAttackInv, ResolveMagicMissileReactionInv,
     ResolvePendingSaveInv, ResolveMasterySaveInv, ResolveConcentrationSaveInv,
     ResolveHazardSaveInv, ResolveUnarmedSaveInv, ResolveShoveOutcomeInv,
     ResolveEscapeGrappleInv
  DEF ResolveDecision

LEMMA NextInv == ASSUME IInv, [Next]_world PROVE IInv'
<1>1. CASE ResolveDecision
  BY <1>1, DecisionInv
<1>2. ASSUME NEW a \in Actor, \/ StartEncounter(a) \/ StartTurn(a) \/ EndTurn(a)
                             \/ BeginAttackAction(a) \/ ForfeitAttackAction(a)
                             \/ TriggerHazard(a) \/ AdjudicateActorDeath(a)
      PROVE  IInv'
  BY <1>2, StartEncounterTidy, StartTurnTidy, EndTurnTidy, BeginAttackActionTidy,
     ForfeitAttackActionTidy, TidyInv, TriggerHazardInv, AdjudicateActorDeathInv
<1>3. ASSUME NEW a \in Actor,
           NEW t \in Actor,
             \/ SwapInitiative(a, t) \/ PerformWeaponAttack(a, t)
             \/ \E part \in 0 .. Parts[a] : PerformUnarmedStrike(a, t, part)
      PROVE  IInv'
  BY <1>3, SwapInitiativeTidy, TidyInv, PerformWeaponAttackInv, PerformUnarmedStrikeInv
<1>4. ASSUME NEW a \in Actor, NEW spell \in Spells[a], NEW targets \in Targets,
             UseAction(a, spell, targets)
      PROVE  IInv'
  BY <1>4, UseActionInv
<1>5. ASSUME NEW a \in Actor, NEW action \in Replacements[a], NEW targets \in Targets,
             UseAttackReplacement(a, action, targets)
      PROVE  IInv'
  BY <1>5, UseAttackReplacementInv
<1>6. ASSUME NEW a \in Actor, NEW g \in world.grapples, EscapeGrapple(a, g) \/ EndGrapple(a, g)
      PROVE  IInv'
  BY <1>6, EscapeGrappleInv, EndGrappleInv
<1>7. ASSUME NEW f \in Familiar, DismissFamiliar(f) \/ ReappearFamiliar(f)
      PROVE  IInv'
  BY <1>7, DismissFamiliarTidy, ReappearFamiliarTidy, TidyInv
<1>8. CASE UNCHANGED world
  BY <1>8 DEF IInv, Sound, LetGo, Bare, IsWorld, Saving, Declares, Ready, Fresh
<1>9. QED
  BY <1>1, <1>2, <1>3, <1>4, <1>5, <1>6, <1>7, <1>8 DEF Next

\* In every state of any party, concentrations, effects and the suspended
\* spell are sound, and only the living grapple.
THEOREM Invariant == Spec => []IInv
<1>1. IInv /\ [Next]_world => IInv'
  BY NextInv
<1>2. QED
  BY InitInv, <1>1, PTL DEF Spec

\* No command, whatever it brings about, leaves a dead actor concentrating or
\* grappling (handleCommand's post-conditions).
THEOREM Burial == Spec => []DeadHoldNothing
<1>1. IInv => DeadHoldNothing
  BY DEF IInv, Sound, Bare, LetGo, DeadHoldNothing
<1>2. QED
  BY Invariant, <1>1, PTL

\* The concentration a spell starts is nobody's, also when other commands and
\* decisions come between its declaration and its last saving throw.
THEOREM OwnConcentration == Spec => []ConcentrationsDiffer
<1>1. IInv => ConcentrationsDiffer
  BY DEF IInv, Sound, Bare, ConcentrationsDiffer
<1>2. QED
  BY Invariant, <1>1, PTL

\* However a concentration ends (replaced, broken by damage, by incapacitation
\* or by death), its effects end with it.
THEOREM NoOrphanEffects == Spec => []LinkedEffectsHaveConcentration
<1>1. IInv => LinkedEffectsHaveConcentration
  <2> SUFFICES ASSUME IInv, NEW e \in world.effects, e.link # 0,
                      \A a \in Actor : world.concentration[a] # e.link
               PROVE  /\ world.pending # NoResolution
                      /\ world.pending.type = "target_save" /\ world.pending.id = e.link
    BY DEF LinkedEffectsHaveConcentration
  <2>1. e.link \in Saving(world.pending)
    BY DEF IInv, Sound, Bare
  <2>2. NoResolution.type # "target_save"
    BY DEF NoResolution
  <2>3. QED
    BY <2>1, <2>2 DEF Saving
<1>2. QED
  BY Invariant, <1>1, PTL

-----------------------------------------------------------------------------
(* Sequences. *)

LEMMA Least ==
    ASSUME NEW T, T \subseteq Nat, T # {}
    PROVE  \E m \in T : \A k \in T : m <= k
<1>1. PICK m \in T : \A k \in T : ~(<<k, m>> \in OpToRel(<, Nat))
  BY NatLessThanWellFounded, WFMin
<1>2. ASSUME NEW k \in T PROVE m <= k
  <2>1. ~(k < m)
    BY <1>1 DEF OpToRel
  <2>2. QED
    BY <2>1
<1>3. QED
  BY <1>2

\* Induction along a sequence, over a set.
LEMMA Along ==
    ASSUME NEW n \in Nat, NEW T, n > 0 => 1 \in T,
           \A i \in 1 .. n : i + 1 \in 1 .. n /\ i \in T => i + 1 \in T
    PROVE  1 .. n \subseteq T
<1> DEFINE Out == {i \in 1 .. n : i \notin T}
<1>1. SUFFICES ASSUME Out # {} PROVE FALSE
  OBVIOUS
<1>2. PICK m \in Out : \A k \in Out : m <= k
  <2>1. Out \subseteq Nat
    OBVIOUS
  <2> HIDE DEF Out
  <2>2. QED
    BY <1>1, <2>1, Least
<1>3. m # 1 /\ m - 1 \in 1 .. n /\ (m - 1) + 1 = m
  BY <1>2
<1>4. m - 1 \in T
  BY <1>2, <1>3
<1>5. QED
  BY <1>2, <1>3, <1>4

\* The joined prefixes of a sequence of sequences.
Joins(f, seqs) ==
    /\ f[1] = seqs[1]
    /\ \A i \in DOMAIN seqs : i # 1 => f[i] = f[i - 1] \o seqs[i]

LEMMA Flattened ==
    ASSUME NEW S, NEW seqs, NEW n \in Nat, DOMAIN seqs = 1 .. n,
           seqs \in [1 .. n -> Seq(S)], Len(seqs) = n, n > 0
    PROVE  \E f \in [1 .. n -> Seq(S)] : Joins(f, seqs) /\ FlattenSeq(seqs) = f[n]
<1> DEFINE Joined(f, i) == IF i = 1 THEN seqs[i] ELSE f[i - 1] \o seqs[i]
           Fix(f, m) == f = [i \in 1 .. m |-> Joined(f, i)]
           T == {m \in Nat : \E f \in [1 .. m -> Seq(S)] : Fix(f, m)}
<1>1. 1 \in T
  <2>1. seqs[1] \in Seq(S)
    OBVIOUS
  <2> DEFINE f == [i \in 1 .. 1 |-> seqs[1]]
  <2>2. f \in [1 .. 1 -> Seq(S)] 
    BY <2>1
  <2>3. Fix(f, 1)
    OBVIOUS
  <2>4. QED
    BY <2>2, <2>3
<1>2. ASSUME NEW m \in 1 .. n, m + 1 \in 1 .. n, m \in T PROVE m + 1 \in T
  <2>1. PICK f \in [1 .. m -> Seq(S)] : Fix(f, m)
    BY <1>2
  <2> DEFINE e == f[m] \o seqs[m + 1]
             g == [i \in 1 .. (m + 1) |-> IF i \in 1 .. m THEN f[i] ELSE e]
  <2>2. e \in Seq(S)
    <3>1. f[m] \in Seq(S) /\ seqs[m + 1] \in Seq(S)
      BY <1>2
    <3>2. QED
      BY <3>1
  <2> HIDE DEF e
  <2>3. g \in [1 .. (m + 1) -> Seq(S)]
    BY <2>2
  <2>4. ASSUME NEW i \in 1 .. (m + 1) PROVE g[i] = Joined(g, i)
    <3>1. CASE i \in 1 .. m
      <4>1. f[i] = Joined(f, i)
        BY <2>1, <3>1
      <4>2. i # 1 => i - 1 \in 1 .. m
        BY <3>1
      <4>3. g[i] = f[i] /\ (i # 1 => g[i - 1] = f[i - 1])
        <5>1. i \in 1 .. (m + 1) /\ (i # 1 => i - 1 \in 1 .. (m + 1))
          BY <4>2
        <5>2. QED
          BY <3>1, <4>2, <5>1
      <4> HIDE DEF g
      <4>4. QED
        BY <4>1, <4>3
    <3>2. CASE i = m + 1
      <4>1. g[i] = e /\ i # 1 /\ i - 1 = m /\ m \in 1 .. (m + 1) /\ m \in 1 .. m
        BY <3>2, <1>2
      <4>2. QED
        BY <3>2, <4>1 DEF e
    <3>3. QED
      BY <3>1, <3>2, <1>2
  <2>5. Fix(g, m + 1)
    <3>1. g = [i \in 1 .. (m + 1) |-> g[i]]
      OBVIOUS
    <3> HIDE DEF g, Joined
    <3>2. QED
      BY <2>4, <3>1
  <2> HIDE DEF g, Fix
  <2>6. m + 1 \in Nat
    BY <1>2
  <2>7. QED
    BY <2>3, <2>5, <2>6
<1> HIDE DEF T
<1>3. n \in T
  <2>1. \A i \in 1 .. n : i + 1 \in 1 .. n /\ i \in T => i + 1 \in T
    BY <1>2
  <2>2. n > 0 => 1 \in T
    BY <1>1
  <2>3. 1 .. n \subseteq T
    BY <2>1, <2>2, Along
  <2>4. QED
    BY <2>3
<1>4. \E f \in [1 .. n -> Seq(S)] : Fix(f, n)
  BY <1>3 DEF T
<1> DEFINE F == CHOOSE f : f = [i \in 1 .. Len(seqs) |->
                                  IF i = 1 THEN seqs[i] ELSE f[i - 1] \o seqs[i]]
<1>5. F = [i \in 1 .. n |-> IF i = 1 THEN seqs[i] ELSE F[i - 1] \o seqs[i]]
  <2>1. \E f : f = [i \in 1 .. Len(seqs) |-> IF i = 1 THEN seqs[i] ELSE f[i - 1] \o seqs[i]]
    BY <1>4
  <2>2. F = [i \in 1 .. Len(seqs) |-> IF i = 1 THEN seqs[i] ELSE F[i - 1] \o seqs[i]]
    BY <2>1, Zenon
  <2> HIDE DEF F
  <2>3. QED
    BY <2>2
<1>6. FlattenSeq(seqs) = F[n]
  <2>1. FlattenSeq(seqs) = F[Len(seqs)]
    <3>1. Len(seqs) # 0
      OBVIOUS
    <3>2. QED
      BY <3>1, Zenon DEF FlattenSeq
  <2> HIDE DEF F
  <2>2. QED
    BY <2>1
<1> HIDE DEF F, Fix, Joined
<1>7. F[1] = seqs[1] /\ \A i \in 1 .. n : i # 1 => F[i] = F[i - 1] \o seqs[i]
  <2>1. ASSUME NEW i \in 1 .. n PROVE F[i] = IF i = 1 THEN seqs[i] ELSE F[i - 1] \o seqs[i]
    BY <1>5, Zenon
  <2>2. 1 \in 1 .. n
    OBVIOUS
  <2>3. QED
    BY <2>1, <2>2
<1>8. F \in [1 .. n -> Seq(S)]
  <2> DEFINE V == {i \in 1 .. n : F[i] \in Seq(S)}
  <2>1. 1 \in V
    BY <1>7
  <2>2. ASSUME NEW i \in 1 .. n, i + 1 \in 1 .. n, i \in V PROVE i + 1 \in V
    <3>1. i + 1 # 1 /\ (i + 1) - 1 = i
      OBVIOUS
    <3>2. F[i + 1] = F[i] \o seqs[i + 1]
      BY <1>7, <2>2, <3>1
    <3>3. F[i] \in Seq(S) /\ seqs[i + 1] \in Seq(S)
      BY <2>2
    <3>4. F[i + 1] \in Seq(S)
      BY <3>2, <3>3
    <3>5. QED
      BY <2>2, <3>4
  <2> HIDE DEF V
  <2>3. 1 .. n \subseteq V
    BY <2>1, <2>2, Along
  <2>4. \A i \in 1 .. n : F[i] \in Seq(S)
    BY <2>3 DEF V
  <2>5. F = [i \in 1 .. n |-> F[i]]
    BY <1>5
  <2>6. QED
    BY <2>4, <2>5
<1>9. QED
  BY <1>6, <1>7, <1>8 DEF Joins

LEMMA FlattenType ==
    ASSUME NEW S, NEW n \in Nat, NEW seqs \in [1 .. n -> Seq(S)]
    PROVE  FlattenSeq(seqs) \in Seq(S)
<1>1. Len(seqs) = n /\ DOMAIN seqs = 1 .. n
  OBVIOUS
<1>2. CASE n = 0
  <2>1. FlattenSeq(seqs) = seqs
    BY <1>1, <1>2, Zenon DEF FlattenSeq
  <2>2. seqs \in Seq(S)
    BY <1>1, <1>2
  <2>3. QED
    BY <2>1, <2>2
<1>3. CASE n > 0
  <2>1. PICK f \in [1 .. n -> Seq(S)] : FlattenSeq(seqs) = f[n]
    BY <1>1, <1>3, Flattened
  <2>2. n \in 1 .. n
    BY <1>3
  <2>3. QED
    BY <2>1, <2>2
<1>4. QED
  BY <1>2, <1>3

LEMMA FilteredType ==
    ASSUME NEW S, NEW s \in Seq(S), NEW T
    PROVE  Filtered(s, T) \in Seq(S)
<1> DEFINE parts == [i \in DOMAIN s |-> IF s[i] \in T THEN <<s[i]>> ELSE << >>]
           n == Len(s)
<1>1. n \in Nat /\ DOMAIN s = 1 .. n
  OBVIOUS
<1>2. \A i \in 1 .. n : s[i] \in S
  OBVIOUS
<1>3. parts \in [1 .. n -> Seq(S)]
  <2>1. ASSUME NEW i \in 1 .. n PROVE (IF s[i] \in T THEN <<s[i]>> ELSE << >>) \in Seq(S)
    <3>1. s[i] \in S
      BY <1>2
    <3>2. <<s[i]>> \in Seq(S) /\ << >> \in Seq(S)
      BY <3>1
    <3>3. QED
      BY <3>2
  <2> HIDE DEF n
  <2>2. QED
    BY <1>1, <2>1
<1> HIDE DEF parts, n
<1>4. QED
  BY <1>1, <1>3, FlattenType DEF Filtered, parts

\* Out of an order that names nobody twice, a filter takes the one it is to
\* take and moves those behind it up by one.
Distinct(s) == \A i, j \in DOMAIN s : s[i] = s[j] => i = j

LEMMA FilteredOut ==
    ASSUME NEW S, NEW s \in Seq(S), Distinct(s), NEW at \in DOMAIN s, NEW T,
           \A x \in S : x \in T <=> x # s[at]
    PROVE  LET r == Filtered(s, T)
           IN /\ r \in Seq(S) /\ Len(r) = Len(s) - 1
              /\ \A k \in 1 .. (Len(s) - 1) : r[k] = IF k < at THEN s[k] ELSE s[k + 1]
<1> DEFINE parts == [i \in DOMAIN s |-> IF s[i] \in T THEN <<s[i]>> ELSE << >>]
           n == Len(s)
<1>1. n \in Nat /\ DOMAIN s = 1 .. n /\ at \in 1 .. n /\ n > 0
  OBVIOUS
<1>2. \A i \in 1 .. n : s[i] \in S
  OBVIOUS
<1>3. /\ parts \in [1 .. n -> Seq(S)]
      /\ \A i \in 1 .. n : parts[i] = IF i = at THEN << >> ELSE <<s[i]>>
  <2>1. ASSUME NEW i \in 1 .. n
        PROVE  /\ (IF s[i] \in T THEN <<s[i]>> ELSE << >>) \in Seq(S)
               /\ (IF s[i] \in T THEN <<s[i]>> ELSE << >>) = IF i = at THEN << >> ELSE <<s[i]>>
    <3>1. s[i] \in S /\ (s[i] \in T <=> i # at)
      BY <1>1, <1>2 DEF Distinct
    <3>2. <<s[i]>> \in Seq(S) /\ << >> \in Seq(S)
      BY <3>1
    <3>3. QED
      BY <3>1, <3>2
  <2> HIDE DEF n
  <2>2. QED
    BY <1>1, <2>1
<1> HIDE DEF parts
<1>4. Len(parts) = n /\ DOMAIN parts = 1 .. n
  BY <1>1, <1>3
<1> HIDE DEF n
<1>5. PICK f \in [1 .. n -> Seq(S)] : Joins(f, parts) /\ FlattenSeq(parts) = f[n]
  <2>1. \A q \in [1 .. n -> Seq(S)] : Len(q) = n /\ DOMAIN q = 1 .. n =>
           \E f \in [1 .. n -> Seq(S)] : Joins(f, q) /\ FlattenSeq(q) = f[n]
    BY <1>1, Flattened
  <2>2. QED
    BY <1>3, <1>4, <2>1
<1> DEFINE Right(i) ==
             /\ Len(f[i]) = IF i < at THEN i ELSE i - 1
             /\ \A k \in 1 .. Len(f[i]) : f[i][k] = IF k < at THEN s[k] ELSE s[k + 1]
           V == {i \in 1 .. n : Right(i)}
<1>6. n > 0 => 1 \in V
  <2>1. f[1] = IF 1 = at THEN << >> ELSE <<s[1]>>
    <3>1. 1 \in 1 .. n /\ f[1] = parts[1]
      BY <1>1, <1>5 DEF Joins
    <3>2. QED
      BY <1>3, <3>1
  <2>2. Right(1)
    <3>1. CASE at = 1
      BY <2>1, <3>1
    <3>2. CASE at # 1
      <4>1. f[1] = <<s[1]>> /\ 1 < at /\ at \in Nat
        BY <1>1, <2>1, <3>2
      <4>2. Len(f[1]) = 1 /\ f[1][1] = s[1]
        BY <4>1
      <4>3. \A k \in 1 .. 1 : k = 1
        OBVIOUS
      <4>4. QED
        BY <4>1, <4>2, <4>3
    <3>3. QED
      BY <3>1, <3>2
  <2> HIDE DEF Right
  <2>3. QED
    BY <1>1, <2>2
<1>7. ASSUME NEW i \in 1 .. n, i + 1 \in 1 .. n, i \in V PROVE i + 1 \in V
  <2>1. f[i + 1] = f[i] \o parts[i + 1] /\ f[i] \in Seq(S) /\ Right(i)
    <3>1. i + 1 # 1 /\ (i + 1) - 1 = i
      OBVIOUS
    <3>2. QED
      BY <1>4, <1>5, <1>7, <3>1 DEF Joins
  <2> DEFINE g == f[i]
             h == f[i + 1]
  <2>2. CASE i + 1 = at
    <3>1. h = g
      <4>1. parts[i + 1] = << >>
        BY <1>3, <1>7, <2>2
      <4>2. QED
        BY <2>1, <4>1
    <3>2. Right(i + 1)
      <4>1. Len(g) = i /\ \A k \in 1 .. Len(g) : g[k] = IF k < at THEN s[k] ELSE s[k + 1]
        BY <2>1, <2>2
      <4> HIDE DEF g, h
      <4>2. Len(h) = IF i + 1 < at THEN i + 1 ELSE (i + 1) - 1
        BY <3>1, <4>1, <2>2
      <4>3. QED
        BY <3>1, <4>1, <4>2 DEF h
    <3> HIDE DEF Right
    <3>3. QED
      BY <1>7, <3>2
  <2>3. CASE i + 1 # at
    <3>1. s[i + 1] \in S /\ h = Append(g, s[i + 1]) /\ g \in Seq(S)
      <4>1. parts[i + 1] = <<s[i + 1]>> /\ s[i + 1] \in S
        BY <1>2, <1>3, <1>7, <2>3
      <4>2. g \o <<s[i + 1]>> = Append(g, s[i + 1])
        BY <2>1, <4>1
      <4>3. QED
        BY <2>1, <4>1, <4>2
    <3>2. /\ Len(g) = IF i < at THEN i ELSE i - 1
          /\ \A k \in 1 .. Len(g) : g[k] = IF k < at THEN s[k] ELSE s[k + 1]
      BY <2>1
    <3> HIDE DEF g, h
    <3>3. /\ Len(h) = Len(g) + 1 /\ h[Len(g) + 1] = s[i + 1] /\ Len(g) \in Nat
          /\ \A k \in 1 .. Len(g) : h[k] = g[k]
      BY <3>1
    <3>4. Len(h) = IF i + 1 < at THEN i + 1 ELSE (i + 1) - 1
      BY <1>1, <2>3, <3>2, <3>3
    <3>5. ASSUME NEW k \in 1 .. Len(h) PROVE h[k] = IF k < at THEN s[k] ELSE s[k + 1]
      <4>1. CASE k \in 1 .. Len(g)
        BY <3>2, <3>3, <4>1
      <4>2. CASE k = Len(g) + 1
        <5>1. i + 1 = IF k < at THEN k ELSE k + 1
          BY <1>1, <2>3, <3>2, <4>2
        <5>2. QED
          BY <3>3, <4>2, <5>1
      <4>3. QED
        BY <3>3, <4>1, <4>2
    <3>6. Right(i + 1)
      BY <3>4, <3>5 DEF h
    <3> HIDE DEF Right
    <3>7. QED
      BY <1>7, <3>6
  <2>4. QED
    BY <2>2, <2>3
<1> HIDE DEF V
<1>8. 1 .. n \subseteq V
  BY <1>1, <1>6, <1>7, Along
<1>9. Right(n) /\ f[n] \in Seq(S)
  BY <1>1, <1>8 DEF V
<1>10. Filtered(s, T) = f[n]
  BY <1>5 DEF Filtered, parts
<1>11. Len(f[n]) = n - 1
  BY <1>1, <1>9
<1> DEFINE r == f[n]
<1>12. /\ r \in Seq(S) /\ Len(r) = n - 1
       /\ \A k \in 1 .. (n - 1) : r[k] = IF k < at THEN s[k] ELSE s[k + 1]
  BY <1>9, <1>11
<1> HIDE DEF r
<1>13. Filtered(s, T) = r
  BY <1>10 DEF r
<1>14. QED
  BY <1>12, <1>13 DEF n

-----------------------------------------------------------------------------
(* The types of the world. *)

AttackState == [open : BOOLEAN, key : Nat \X Nat, left : Nat, replaced : BOOLEAN, blocked : BOOLEAN]
Effect == [on : Actor, link : Nat, incapacitates : BOOLEAN]
Grapple == [grappler : Actor, part : Nat, target : Actor]
Presence == {"present", "pocket_dimension", "zero_hp"}

World ==
    [mode : {"exploration", "encounter"}, initiative : Seq(Actor), active : Nat, round : Nat,
     started : BOOLEAN, swapped : SUBSET Actor, living : SUBSET Actor,
     presence : [Familiar -> Presence], action : [Actor -> BOOLEAN],
     reaction : [Actor -> BOOLEAN], effects : SUBSET Effect, concentration : [Actor -> Nat],
     attack : [Actor -> AttackState], grapples : SUBSET Grapple,
     pending : Resolution \cup {NoResolution}]

\* An attack that goes on is the same one, with at most as many attacks left.
Lesser(x, y) == y.open => /\ x.open /\ y.key = x.key
                          /\ x.left \in Nat /\ y.left \in Nat /\ y.left <= x.left

Apart(w) == \A g \in w.grapples : g.grappler # g.target

\* The order and the turn are the same, and so are the familiars on the scene.
Stage(w, v) == /\ v.mode = w.mode /\ v.initiative = w.initiative /\ v.active = w.active
               /\ v.round = w.round /\ v.started = w.started /\ v.swapped = w.swapped
               /\ v.presence = w.presence
               /\ Apart(w) => Apart(v)

\* ... and no attack is begun.
Scene(w, v) == Stage(w, v) /\ \A b \in Actor : Lesser(w.attack[b], v.attack[b])

\* What a handler changes besides the scene, the attacks and the decision.
Steady(w, v) == /\ v \in World /\ Scene(w, v)
                /\ v.attack = w.attack /\ v.pending = w.pending

LEMMA SceneTwice ==
    ASSUME NEW u, NEW v, NEW w, Scene(u, v), Scene(v, w)
    PROVE  Scene(u, w)
<1>1. ASSUME NEW b \in Actor PROVE Lesser(u.attack[b], w.attack[b])
  <2>1. Lesser(u.attack[b], v.attack[b]) /\ Lesser(v.attack[b], w.attack[b])
    BY DEF Scene
  <2>2. QED
    BY <2>1 DEF Lesser
<1>2. QED
  BY <1>1 DEF Scene, Stage

LEMMA SteadyTwice ==
    ASSUME NEW u, NEW v, NEW w, Steady(u, v), Steady(v, w)
    PROVE  Steady(u, w)
  BY SceneTwice DEF Steady

LEMMA SameLesser ==
    ASSUME NEW w \in World
    PROVE  \A b \in Actor : w.attack[b] \in AttackState /\ Lesser(w.attack[b], w.attack[b])
<1>1. \A b \in Actor : w.attack[b] \in AttackState
  BY DEF World
<1>2. \A x \in AttackState : Lesser(x, x)
  BY DEF Lesser, AttackState
<1>3. QED
  BY <1>1, <1>2

LEMMA FieldSteady ==
    ASSUME NEW w \in World
    PROVE  /\ Steady(w, w)
           /\ \A x \in SUBSET Actor : Steady(w, [w EXCEPT !.living = x])
           /\ \A x \in [Actor -> BOOLEAN] : /\ Steady(w, [w EXCEPT !.action = x])
                                            /\ Steady(w, [w EXCEPT !.reaction = x])
           /\ \A x \in SUBSET Effect : Steady(w, [w EXCEPT !.effects = x])
           /\ \A x \in [Actor -> Nat] : Steady(w, [w EXCEPT !.concentration = x])
           /\ \A x \in SUBSET Grapple :
                 (\A g \in x : g \in w.grapples \/ g.grappler # g.target)
                    => Steady(w, [w EXCEPT !.grapples = x])
<1> DEFINE Same(v) == v \in World /\ Stage(w, v) /\ v.attack = w.attack /\ v.pending = w.pending
<1>1. Same(w)
  BY DEF Stage
<1> USE DEF Stage, Apart, World
<1>2. \A x \in SUBSET Actor : Same([w EXCEPT !.living = x])
  OBVIOUS
<1>3. \A x \in [Actor -> BOOLEAN] : Same([w EXCEPT !.action = x])
  OBVIOUS
<1>4. \A x \in [Actor -> BOOLEAN] : Same([w EXCEPT !.reaction = x])
  OBVIOUS
<1>5. \A x \in SUBSET Effect : Same([w EXCEPT !.effects = x])
  OBVIOUS
<1>6. \A x \in [Actor -> Nat] : Same([w EXCEPT !.concentration = x])
  OBVIOUS
<1>7. \A x \in SUBSET Grapple :
        (\A g \in x : g \in w.grapples \/ g.grappler # g.target)
           => Same([w EXCEPT !.grapples = x])
  OBVIOUS
<1> HIDE DEF Stage, Apart, World
<1>8. \A v : Same(v) => Steady(w, v)
  BY SameLesser DEF Steady, Scene
<1> HIDE DEF Same
<1>9. QED
  BY <1>1, <1>2, <1>3, <1>4, <1>5, <1>6, <1>7, <1>8

\* What stays when the order and the turn change.
Beside(w, v) == /\ v \in World /\ v.attack = w.attack /\ v.pending = w.pending
                /\ v.grapples \subseteq w.grapples

LEMMA BesideTwice ==
    ASSUME NEW u, NEW v, NEW w, Beside(u, v), Beside(v, w)
    PROVE  Beside(u, w)
  BY DEF Beside

LEMMA ModeField ==
    ASSUME NEW w \in World, NEW x \in {"exploration", "encounter"}
    PROVE  LET v == [w EXCEPT !.mode = x]
           IN /\ Beside(w, v) /\ v.mode = x
              /\ v.initiative = w.initiative /\ v.active = w.active /\ v.round = w.round
              /\ v.started = w.started /\ v.swapped = w.swapped /\ v.presence = w.presence
  BY DEF World, Beside

LEMMA InitiativeField ==
    ASSUME NEW w \in World, NEW x \in Seq(Actor)
    PROVE  LET v == [w EXCEPT !.initiative = x]
           IN /\ Beside(w, v) /\ v.initiative = x
              /\ v.mode = w.mode /\ v.active = w.active /\ v.round = w.round
              /\ v.started = w.started /\ v.swapped = w.swapped /\ v.presence = w.presence
  BY DEF World, Beside

LEMMA ActiveField ==
    ASSUME NEW w \in World, NEW x \in Nat
    PROVE  LET v == [w EXCEPT !.active = x]
           IN /\ Beside(w, v) /\ v.active = x
              /\ v.mode = w.mode /\ v.initiative = w.initiative /\ v.round = w.round
              /\ v.started = w.started /\ v.swapped = w.swapped /\ v.presence = w.presence
  BY DEF World, Beside

LEMMA RoundField ==
    ASSUME NEW w \in World, NEW x \in Nat
    PROVE  LET v == [w EXCEPT !.round = x]
           IN /\ Beside(w, v) /\ v.round = x
              /\ v.mode = w.mode /\ v.initiative = w.initiative /\ v.active = w.active
              /\ v.started = w.started /\ v.swapped = w.swapped /\ v.presence = w.presence
  BY DEF World, Beside

LEMMA StartedField ==
    ASSUME NEW w \in World, NEW x \in BOOLEAN
    PROVE  LET v == [w EXCEPT !.started = x]
           IN /\ Beside(w, v) /\ v.started = x
              /\ v.mode = w.mode /\ v.initiative = w.initiative /\ v.active = w.active
              /\ v.round = w.round /\ v.swapped = w.swapped /\ v.presence = w.presence
  BY DEF World, Beside

LEMMA SwappedField ==
    ASSUME NEW w \in World, NEW x \in SUBSET Actor
    PROVE  LET v == [w EXCEPT !.swapped = x]
           IN /\ Beside(w, v) /\ v.swapped = x
              /\ v.mode = w.mode /\ v.initiative = w.initiative /\ v.active = w.active
              /\ v.round = w.round /\ v.started = w.started /\ v.presence = w.presence
  BY DEF World, Beside

LEMMA PresenceField ==
    ASSUME NEW w \in World, NEW x \in [Familiar -> Presence]
    PROVE  LET v == [w EXCEPT !.presence = x]
           IN /\ Beside(w, v) /\ v.presence = x
              /\ v.mode = w.mode /\ v.initiative = w.initiative /\ v.active = w.active
              /\ v.round = w.round /\ v.started = w.started /\ v.swapped = w.swapped
  BY DEF World, Beside

\* The attacks and the decision change, and nothing else.
LEMMA AttackFields ==
    ASSUME NEW w \in World
    PROVE  /\ \A x \in [Actor -> AttackState] :
                 LET v == [w EXCEPT !.attack = x]
                 IN v \in World /\ Stage(w, v) /\ v.attack = x /\ v.pending = w.pending
           /\ \A x \in Resolution \cup {NoResolution} :
                 LET v == [w EXCEPT !.pending = x]
                 IN v \in World /\ Scene(w, v) /\ v.attack = w.attack /\ v.pending = x
<1> USE DEF World, Stage, Apart
<1>1. \A x \in [Actor -> AttackState] :
        LET v == [w EXCEPT !.attack = x]
        IN v \in World /\ Stage(w, v) /\ v.attack = x /\ v.pending = w.pending
  OBVIOUS
<1>2. \A x \in Resolution \cup {NoResolution} :
        LET v == [w EXCEPT !.pending = x]
        IN v \in World /\ Stage(w, v) /\ v.attack = w.attack /\ v.pending = x
  OBVIOUS
<1> HIDE DEF World, Stage, Apart
<1>3. \A v : Stage(w, v) /\ v.attack = w.attack => Scene(w, v)
  BY SameLesser DEF Scene
<1>4. QED
  BY <1>1, <1>2, <1>3

-----------------------------------------------------------------------------
(* Attack actions and the decisions they wait for. *)

Chain == {"protection_reaction", "attack_reaction", "target_save", "unarmed_save", "shove_outcome"}

\* Only ever part of an Attack action.
Strikes == {"unarmed_save", "shove_outcome"}

\* An attack of `a' is under way if `inAction'; no other Attack action waits.
Acting(w, a, inAction) ==
    /\ w.pending # NoResolution => ~w.pending.attack /\ w.pending.type \notin Strikes
    /\ \A b \in Actor :
          IF inAction /\ b = a THEN w.attack[b].open
          ELSE ~w.attack[b].blocked /\ (w.attack[b].open => w.attack[b].left > 0)

Blocked(w) ==
    /\ w.pending # NoResolution =>
          /\ w.pending.attack => w.pending.type \in Chain
          /\ w.pending.type \in Strikes => w.pending.attack /\ w.pending.source # w.pending.target
    /\ \A b \in Actor :
          /\ w.attack[b].blocked <=> (/\ w.pending # NoResolution
                                      /\ w.pending.attack /\ w.pending.source = b)
          /\ w.attack[b].blocked => w.attack[b].open
          /\ w.attack[b].open /\ w.attack[b].left = 0 => w.attack[b].blocked

Placed(w) == /\ Distinct(w.initiative)
             /\ InEncounter(w) => w.active \in DOMAIN w.initiative

\* Decisions are opened only on a turn that has started.
UnderWay(w) == InEncounter(w) => w.started

TInv == /\ world \in World /\ Blocked(world) /\ Placed(world) /\ Apart(world)
        /\ world.pending # NoResolution => UnderWay(world)

LEMMA SteadyBlocked ==
    ASSUME NEW u, NEW v, Steady(u, v)
    PROVE  /\ Blocked(u) => Blocked(v)
           /\ \A a, inAction : Acting(u, a, inAction) => Acting(v, a, inAction)
  BY DEF Steady, Blocked, Acting

LEMMA ScenePlaced ==
    ASSUME NEW u, NEW v, Scene(u, v), Placed(u)
    PROVE  Placed(v)
  BY DEF Scene, Stage, Placed, InEncounter

LEMMA AttackTyped ==
    ASSUME NEW w \in World, NEW b \in Actor
    PROVE  w.attack \in [Actor -> AttackState] /\ w.attack[b] \in AttackState
  BY DEF World

\* Nothing waits: an answered decision leaves only its own attack under way.
LEMMA IdleActing ==
    ASSUME NEW w \in World, Blocked(w), w.pending = NoResolution, NEW a
    PROVE  /\ Acting(w, a, FALSE)
           /\ a \in Actor /\ w.attack[a].open => Acting(w, a, TRUE)
<1>1. \A b \in Actor : w.attack[b] \in AttackState
  BY AttackTyped
<1>2. QED
  BY <1>1 DEF Blocked, Acting, AttackState

LEMMA ActingBlocked ==
    ASSUME NEW w \in World, NEW a, Acting(w, a, FALSE)
    PROVE  Blocked(w)
<1>1. \A b \in Actor : w.attack[b] \in AttackState
  BY AttackTyped
<1>2. QED
  BY <1>1 DEF Blocked, Acting, AttackState

LEMMA ClosedActing ==
    ASSUME NEW w \in World, Blocked(w), w.pending # NoResolution
    PROVE  LET v == ResolutionClosed(w)
           IN /\ v \in World /\ Scene(w, v) /\ v.pending = NoResolution
              /\ v.attack = w.attack
              /\ Acting(v, w.pending.source, w.pending.attack)
              /\ w.pending.type \notin Chain => Acting(v, w.pending.source, FALSE)
<1> DEFINE v == ResolutionClosed(w)
<1>1. v \in World /\ Scene(w, v) /\ v.attack = w.attack /\ v.pending = NoResolution
  BY AttackFields DEF ResolutionClosed
<1> HIDE DEF v
<1>2. \A b \in Actor : w.attack[b] \in AttackState
  BY AttackTyped
<1>3. w.pending.attack \in BOOLEAN
  BY DEF World, Resolution
<1>4. \A b \in Actor : w.attack[b].open => w.attack[b].left > 0 \/ w.attack[b].blocked
  BY <1>2 DEF Blocked, AttackState
<1>5. Acting(v, w.pending.source, w.pending.attack)
  BY <1>1, <1>3, <1>4 DEF Acting, Blocked
<1>6. w.pending.type \notin Chain => Acting(v, w.pending.source, FALSE)
  BY <1>1, <1>3, <1>4 DEF Acting, Blocked
<1>7. QED
  BY <1>1, <1>5, <1>6 DEF v

LEMMA AttackWritten ==
    ASSUME NEW w \in World, NEW a \in Actor, NEW x \in AttackState
    PROVE  LET v == [w EXCEPT !.attack[a] = x]
           IN /\ v \in World /\ Stage(w, v) /\ v.pending = w.pending
              /\ \A b \in Actor : v.attack[b] = IF b = a THEN x ELSE w.attack[b]
              /\ Lesser(w.attack[a], x) => Scene(w, v)
<1> DEFINE y == [w.attack EXCEPT ![a] = x]
           v == [w EXCEPT !.attack = y]
<1>1. y \in [Actor -> AttackState] /\ \A b \in Actor : y[b] = IF b = a THEN x ELSE w.attack[b]
  BY AttackTyped
<1> HIDE DEF y
<1>2. v \in World /\ Stage(w, v) /\ v.attack = y /\ v.pending = w.pending
  BY <1>1, AttackFields
<1> HIDE DEF v
<1>3. Lesser(w.attack[a], x) => Scene(w, v)
  BY <1>1, <1>2, SameLesser DEF Scene
<1>4. QED
  BY <1>1, <1>2, <1>3 DEF v, y

\* The next state of an attack: EXCEPT on one of its fields.
LEMMA AttackStateFields ==
    ASSUME NEW x \in AttackState
    PROVE  /\ \A y \in BOOLEAN : LET z == [x EXCEPT !.blocked = y]
                                 IN /\ z \in AttackState /\ z.blocked = y /\ z.open = x.open
                                    /\ z.left = x.left /\ z.key = x.key
           /\ \A y \in BOOLEAN : LET z == [x EXCEPT !.replaced = y]
                                 IN /\ z \in AttackState /\ z.blocked = x.blocked
                                    /\ z.open = x.open /\ z.left = x.left /\ z.key = x.key
           /\ \A y \in Nat : LET z == [x EXCEPT !.left = y]
                             IN /\ z \in AttackState /\ z.blocked = x.blocked
                                /\ z.open = x.open /\ z.left = y /\ z.key = x.key
           /\ NoAttack \in AttackState /\ ~NoAttack.open /\ ~NoAttack.blocked
  BY DEF AttackState, NoAttack

\* Starting, using up, blocking and finishing an attack.
LEMMA EntryActing ==
    ASSUME NEW w \in World, NEW a \in Actor, w.attack[a].left > 0, Acting(w, a, TRUE)
    PROVE  LET v == AttackEntryCommitted(w, a)
           IN /\ v \in World /\ Scene(w, v) /\ Acting(v, a, TRUE) /\ v.pending = w.pending
              /\ v.attack[a].left = w.attack[a].left - 1
<1> DEFINE x == [w.attack[a] EXCEPT !.left = w.attack[a].left - 1]
<1>1. w.attack[a] \in AttackState /\ w.attack[a].left - 1 \in Nat
  <2>1. w.attack[a] \in AttackState
    BY AttackTyped
  <2>2. w.attack[a].left \in Nat
    BY <2>1 DEF AttackState
  <2>3. QED
    BY <2>1, <2>2
<1>2. /\ x \in AttackState /\ x.open = w.attack[a].open /\ x.left = w.attack[a].left - 1
      /\ x.key = w.attack[a].key
  BY <1>1, AttackStateFields
<1> HIDE DEF x
<1> DEFINE v == [w EXCEPT !.attack[a] = x]
<1>3. /\ v \in World /\ Scene(w, v) /\ v.pending = w.pending
      /\ \A b \in Actor : v.attack[b] = IF b = a THEN x ELSE w.attack[b]
  <2>1. Lesser(w.attack[a], x)
    BY <1>1, <1>2 DEF Lesser, AttackState
  <2>2. QED
    BY <1>2, <2>1, AttackWritten
<1>4. AttackEntryCommitted(w, a) = v
  BY DEF AttackEntryCommitted, x
<1> HIDE DEF v
<1>5. Acting(v, a, TRUE)
  BY <1>2, <1>3 DEF Acting
<1>6. QED
  BY <1>2, <1>3, <1>4, <1>5

LEMMA DoneActing ==
    ASSUME NEW w \in World, NEW a \in Actor, NEW inAction \in BOOLEAN, Acting(w, a, inAction)
    PROVE  LET v == Done(w, a, inAction)
           IN v \in World /\ Scene(w, v) /\ Acting(v, a, FALSE) /\ v.pending = w.pending
<1>1. w.attack[a] \in AttackState
  BY AttackTyped
<1>2. CASE inAction /\ w.attack[a].left = 0
  <2> DEFINE v == [w EXCEPT !.attack[a] = NoAttack]
  <2>1. /\ v \in World /\ Scene(w, v) /\ v.pending = w.pending
        /\ \A b \in Actor : v.attack[b] = IF b = a THEN NoAttack ELSE w.attack[b]
    BY AttackStateFields, <1>1, AttackWritten DEF Lesser
  <2>2. Done(w, a, inAction) = v
    BY <1>2, Zenon DEF Done, AttackResolutionFinished
  <2> HIDE DEF v
  <2>3. Acting(v, a, FALSE)
    BY <1>1, <1>2, <2>1, AttackStateFields DEF Acting
  <2>4. QED
    BY <2>1, <2>2, <2>3
<1>3. CASE inAction /\ w.attack[a].left # 0
  <2> DEFINE x == [w.attack[a] EXCEPT !.blocked = FALSE]
             v == [w EXCEPT !.attack[a] = x]
  <2>1. /\ x \in AttackState /\ ~x.blocked /\ x.left = w.attack[a].left /\ x.left > 0
        /\ Lesser(w.attack[a], x)
    <3>1. /\ x \in AttackState /\ ~x.blocked /\ x.left = w.attack[a].left
          /\ x.open = w.attack[a].open /\ x.key = w.attack[a].key
      BY <1>1, AttackStateFields
    <3>2. w.attack[a].left \in Nat
      BY <1>1 DEF AttackState
    <3> HIDE DEF x
    <3>3. QED
      BY <1>3, <3>1, <3>2 DEF Lesser
  <2>2. Done(w, a, inAction) = v
    BY <1>3 DEF Done, AttackResolutionFinished
  <2> HIDE DEF x
  <2>3. /\ v \in World /\ Scene(w, v) /\ v.pending = w.pending
        /\ \A b \in Actor : v.attack[b] = IF b = a THEN x ELSE w.attack[b]
    BY <2>1, AttackWritten
  <2> HIDE DEF v
  <2>4. Acting(v, a, FALSE)
    BY <2>1, <2>3, <1>3 DEF Acting
  <2>5. QED
    BY <2>2, <2>3, <2>4
<1>4. CASE ~inAction
  <2>1. Scene(w, w)
    BY FieldSteady DEF Steady
  <2>2. QED
    BY <1>4, <2>1 DEF Done
<1>5. QED
  BY <1>2, <1>3, <1>4

LEMMA StartedActing ==
    ASSUME NEW w \in World, NEW a \in Actor,
           Acting(w, a, FALSE), Attacks[a] > 0
    PROVE  LET v == AttackActionStarted(w, a)
           IN /\ v \in World /\ Stage(w, v) /\ v.pending = w.pending
              /\ \A b \in Actor \ {a} : Lesser(w.attack[b], v.attack[b])
              /\ Acting(v, a, TRUE) /\ Acting(v, a, FALSE)
              /\ v.attack[a].left > 0 /\ v.attack[a].open
<1> DEFINE u == Pays(w, a)
           x == [NoAttack EXCEPT !.open = TRUE, !.key = AttackTurnKey(w), !.left = Attacks[a]]
<1>1. Steady(w, u)
  <2> DEFINE y == [w.action EXCEPT ![a] = FALSE]
  <2>1. y \in [Actor -> BOOLEAN]
    BY DEF World
  <2>2. u = [w EXCEPT !.action = y]
    BY DEF Pays
  <2> HIDE DEF y, u
  <2>3. QED
    BY <2>1, <2>2, FieldSteady
<1>2. x \in AttackState /\ x.open /\ ~x.blocked /\ x.left = Attacks[a]
  <2>1. AttackTurnKey(w) \in Nat \X Nat
    BY DEF World, AttackTurnKey
  <2>2. Attacks[a] \in Nat
    BY RulesAssumption
  <2>3. QED
    BY <2>1, <2>2 DEF NoAttack, AttackState
<1> DEFINE v == [u EXCEPT !.attack[a] = x]
<1>3. AttackActionStarted(w, a) = v
  BY Zenon DEF AttackActionStarted
<1> HIDE DEF u, x
<1>4. u \in World /\ Scene(w, u) /\ u.pending = w.pending /\ u.attack = w.attack
  BY <1>1 DEF Steady
<1>5. /\ v \in World /\ Stage(u, v) /\ v.pending = u.pending
      /\ \A b \in Actor : v.attack[b] = IF b = a THEN x ELSE u.attack[b]
  BY <1>2, <1>4, AttackWritten
<1> HIDE DEF v
<1>6. Acting(v, a, TRUE) /\ Acting(v, a, FALSE) /\ v.attack[a].left > 0 /\ v.attack[a].open
  BY <1>2, <1>4, <1>5 DEF Acting
<1>7. \A b \in Actor \ {a} : Lesser(w.attack[b], v.attack[b])
  BY <1>4, <1>5, SameLesser
<1>8. Stage(w, v)
  BY <1>4, <1>5 DEF Scene, Stage
<1>9. QED
  BY <1>3, <1>4, <1>5, <1>6, <1>7, <1>8

-----------------------------------------------------------------------------
(* Decisions. *)

ResolutionType == {"protection_reaction", "attack_reaction", "magic_missile_reaction",
                   "target_save", "mastery_save", "concentration_save", "hazard_save",
                   "unarmed_save", "shove_outcome", "escape_grapple"}

LEMMA WeaponAttackTyped == WeaponAttack \in Execution
  BY DEF WeaponAttack, Execution

LEMMA NoDecision == \A p \in Resolution : p # NoResolution
  BY DEF Resolution, NoResolution

\* A decision that belongs to no Attack action yet.
Opens(p, type, a) == p \in Resolution /\ ~p.attack /\ p.type = type /\ p.source = a

LEMMA AskTyped ==
    ASSUME NEW type \in ResolutionType, NEW decider \in Actor, NEW source \in Actor,
           NEW target \in Actor
    PROVE  Opens(Ask(type, decider, source, target), type, source)
<1>1. << >> \in Seq(Actor) /\ << >> \in Seq(FollowUp) /\ 0 \in Nat
  OBVIOUS
<1>2. QED
  BY <1>1, WeaponAttackTyped DEF Ask, Opens, Resolution, ResolutionType

LEMMA ResolutionFields ==
    ASSUME NEW p, NEW type, NEW a, Opens(p, type, a)
    PROVE  /\ \A x \in Nat : Opens([p EXCEPT !.id = x], type, a)
           /\ \A x \in Execution : Opens([p EXCEPT !.spell = x], type, a)
           /\ \A x \in Seq(Actor) : /\ Opens([p EXCEPT !.rest = x], type, a)
                                    /\ Opens([p EXCEPT !.darts = x], type, a)
           /\ \A x \in Seq(FollowUp) : Opens([p EXCEPT !.followUps = x], type, a)
<1> USE DEF Opens, Resolution
<1>1. \A x \in Nat : Opens([p EXCEPT !.id = x], type, a)
  OBVIOUS
<1>2. \A x \in Execution : Opens([p EXCEPT !.spell = x], type, a)
  OBVIOUS
<1>3. \A x \in Seq(Actor) : Opens([p EXCEPT !.rest = x], type, a)
  OBVIOUS
<1>4. \A x \in Seq(Actor) : Opens([p EXCEPT !.darts = x], type, a)
  OBVIOUS
<1>5. \A x \in Seq(FollowUp) : Opens([p EXCEPT !.followUps = x], type, a)
  OBVIOUS
<1> HIDE DEF Opens, Resolution
<1>6. QED
  BY <1>1, <1>2, <1>3, <1>4, <1>5

LEMMA DecisionTyped ==
    ASSUME NEW p \in Resolution
    PROVE  /\ p.type \in ResolutionType /\ p.decider \in Actor /\ p.source \in Actor
           /\ p.target \in Actor /\ p.id \in Nat /\ p.spell \in Execution
           /\ p.rest \in Seq(Actor) /\ p.darts \in Seq(Actor) /\ p.followUps \in Seq(FollowUp)
           /\ p.attack \in BOOLEAN
  BY DEF Resolution, ResolutionType

\* The decision an attack opens blocks its Attack action.
LEMMA OpenedBlocked ==
    ASSUME NEW w \in World, NEW a \in Actor, NEW inAction \in BOOLEAN, Acting(w, a, inAction),
           NEW type, NEW p, Opens(p, type, a), inAction => type \in Chain,
           type \in Strikes => inAction /\ p.target # a
    PROVE  LET v == Waits([w EXCEPT !.pending = p], a, inAction)
           IN v \in World /\ Scene(w, v) /\ Blocked(v)
<1> DEFINE u == [w EXCEPT !.pending = p]
<1>1. /\ u \in World /\ Scene(w, u) /\ u.attack = w.attack /\ u.pending = p
      /\ p \in Resolution /\ ~p.attack /\ p.type = type /\ p.source = a /\ p # NoResolution
  BY AttackFields, NoDecision DEF Opens
<1> HIDE DEF u
<1>3. CASE ~inAction
  <2>1. Acting(u, a, FALSE)
    BY <1>1, <1>3 DEF Acting
  <2>2. QED
    BY <1>1, <1>3, <2>1, ActingBlocked DEF Waits, u
<1>4. CASE inAction
  <2> DEFINE x == [w.attack[a] EXCEPT !.blocked = TRUE]
             q == [p EXCEPT !.attack = TRUE]
             u1 == [u EXCEPT !.attack[a] = x]
             v == [u1 EXCEPT !.pending = q]
  <2>1. w.attack[a] \in AttackState
    BY AttackTyped
  <2>2. x \in AttackState /\ x.blocked /\ x.open = w.attack[a].open /\ Lesser(w.attack[a], x)
    <3>1. /\ x \in AttackState /\ x.blocked /\ x.open = w.attack[a].open
          /\ x.left = w.attack[a].left /\ x.key = w.attack[a].key
      BY <2>1, AttackStateFields
    <3> HIDE DEF x
    <3>2. QED
      BY <2>1, <3>1 DEF Lesser, AttackState
  <2>3. /\ q \in Resolution /\ q.attack /\ q.type = type /\ q.source = a /\ q # NoResolution
        /\ q.target = p.target
    <3>1. /\ q \in Resolution /\ q.attack /\ q.type = type /\ q.source = a
          /\ q.target = p.target
      BY <1>1 DEF Resolution
    <3>2. QED
      BY <3>1, NoDecision
  <2>4. Waits(u, a, inAction) = v
    BY <1>1, <1>4 DEF Waits, AttackActionBlocked
  <2> HIDE DEF x, q
  <2>5. /\ u1 \in World /\ Scene(u, u1) /\ u1.pending = u.pending
        /\ \A b \in Actor : u1.attack[b] = IF b = a THEN x ELSE u.attack[b]
    BY <1>1, <2>2, AttackWritten
  <2> HIDE DEF u1
  <2>6. /\ v \in World /\ Scene(u1, v) /\ v.attack = u1.attack /\ v.pending = q
    BY <2>3, <2>5, AttackFields
  <2> HIDE DEF v
  <2>7. Scene(w, v)
    BY <1>1, <2>5, <2>6, SceneTwice
  <2>8. \A b \in Actor : w.attack[b] \in AttackState
    BY AttackTyped
  <2>9. ASSUME NEW b \in Actor
        PROVE  /\ v.attack[b].blocked <=> b = a
               /\ v.attack[b].blocked => v.attack[b].open
               /\ v.attack[b].open /\ v.attack[b].left = 0 => v.attack[b].blocked
    <3>1. CASE b = a
      <4>1. v.attack[b] = x /\ x.blocked /\ x.open
        BY <1>1, <1>4, <2>2, <2>5, <2>6, <3>1 DEF Acting
      <4>2. QED
        BY <3>1, <4>1
    <3>2. CASE b # a
      <4>1. v.attack[b] = w.attack[b]
        BY <1>1, <2>5, <2>6, <3>2
      <4>2. ~w.attack[b].blocked /\ (w.attack[b].open => w.attack[b].left > 0)
        BY <1>4, <3>2 DEF Acting
      <4>3. w.attack[b].left \in Nat
        BY <2>8 DEF AttackState
      <4>4. QED
        BY <3>2, <4>1, <4>2, <4>3
    <3>3. QED
      BY <3>1, <3>2
  <2>10. Blocked(v)
    BY <1>4, <2>3, <2>6, <2>9 DEF Blocked
  <2>11. QED
    BY <2>4, <2>6, <2>7, <2>10 DEF u
<1>5. QED
  BY <1>3, <1>4

LEMMA FollowUpActing ==
    ASSUME NEW before, NEW after \in World, NEW queue \in Seq(FollowUp), NEW invalid,
           NEW a, NEW inAction, Acting(after, a, inAction)
    PROVE  LET v == FollowUpOpened(before, after, queue, invalid)
           IN v \in World /\ Scene(after, v) /\ Acting(v, a, inAction)
<1> DEFINE valid == {i \in DOMAIN queue :
                       \/ queue[i].type = "mastery_save"
                       \/ /\ before.concentration[queue[i].actor] = queue[i].id
                          /\ queue[i].id \notin invalid}
           first == CHOOSE i \in valid : \A j \in valid : i <= j
           next == queue[first]
           type == IF next.type = "mastery_save" THEN "mastery_save" ELSE "concentration_save"
           q == Ask(type, next.actor, next.source, next.actor)
           r == [q EXCEPT !.id = next.id]
           behind == SubSeq(queue, first + 1, Len(queue))
           p == [r EXCEPT !.followUps = behind]
           v == [after EXCEPT !.pending = p]
<1>1. CASE valid = {}
  <2>1. Scene(after, after)
    BY FieldSteady DEF Steady
  <2> HIDE DEF v
  <2>2. FollowUpOpened(before, after, queue, invalid) = after
    BY <1>1 DEF FollowUpOpened
  <2>3. QED
    BY <2>1, <2>2
<1>2. CASE valid # {}
  <2>1. FollowUpOpened(before, after, queue, invalid) = v
    BY <1>2, Zenon DEF FollowUpOpened
  <2>2. valid \subseteq Nat /\ valid \subseteq DOMAIN queue
    OBVIOUS
  <2> HIDE DEF valid
  <2>3. first \in valid
    <3>1. \E i \in valid : \A j \in valid : i <= j
      BY <1>2, <2>2, Least
    <3>2. QED
      BY <3>1
  <2> HIDE DEF first
  <2>4. first \in 1 .. Len(queue) /\ Len(queue) \in Nat /\ next \in FollowUp
    BY <2>2, <2>3
  <2>5. behind \in Seq(FollowUp)
    BY <2>4
  <2> HIDE DEF next, behind
  <2>6. next.actor \in Actor /\ next.source \in Actor /\ next.id \in Nat
    BY <2>4 DEF FollowUp
  <2>7. type \in ResolutionType /\ type \notin Strikes
    BY DEF ResolutionType, Strikes
  <2> HIDE DEF type
  <2>8. Opens(q, type, next.source)
    BY <2>6, <2>7, AskTyped
  <2> HIDE DEF q
  <2>9. Opens(r, type, next.source)
    BY <2>6, <2>8, ResolutionFields
  <2> HIDE DEF r
  <2>10. Opens(p, type, next.source)
    BY <2>5, <2>9, ResolutionFields
  <2> HIDE DEF p
  <2>11. v \in World /\ Scene(after, v) /\ v.attack = after.attack /\ v.pending = p
    BY <2>10, AttackFields DEF Opens
  <2> HIDE DEF v
  <2>12. Acting(v, a, inAction)
    BY <2>7, <2>10, <2>11 DEF Acting, Opens
  <2>13. QED
    BY <2>1, <2>11, <2>12
<1>3. QED
  BY <1>1, <1>2

LEMMA FollowUpTyped ==
    ASSUME NEW w \in World, NEW a \in Actor, NEW b \in Actor, NEW x
    PROVE  /\ ConcentrationFollowUp(w, a, x) \in Seq(FollowUp)
           /\ QueuedMasterySave(b, a, x) \in Seq(FollowUp)
<1>1. w.concentration[a] \in Nat
  BY DEF World
<1>2. << >> \in Seq(FollowUp)
  OBVIOUS
<1>3. ConcentrationFollowUp(w, a, x) \in Seq(FollowUp)
  <2> DEFINE q == [type |-> "concentration_save", actor |-> a, source |-> a,
                   id |-> w.concentration[a]]
  <2>1. q \in FollowUp
    BY <1>1 DEF FollowUp
  <2>2. ConcentrationFollowUp(w, a, x) \in {<<q>>, << >>}
    BY Zenon DEF ConcentrationFollowUp
  <2> HIDE DEF q
  <2>3. <<q>> \in Seq(FollowUp)
    BY <2>1
  <2>4. QED
    BY <1>2, <2>2, <2>3
<1>4. QueuedMasterySave(b, a, x) \in Seq(FollowUp)
  <2> DEFINE q == [type |-> "mastery_save", actor |-> a, source |-> b, id |-> 0]
  <2>1. q \in FollowUp
    BY DEF FollowUp
  <2>2. QueuedMasterySave(b, a, x) \in {<<q>>, << >>}
    BY Zenon DEF QueuedMasterySave
  <2> HIDE DEF q
  <2>3. <<q>> \in Seq(FollowUp)
    BY <2>1
  <2>4. QED
    BY <1>2, <2>2, <2>3
<1>5. QED
  BY <1>3, <1>4

-----------------------------------------------------------------------------
(* Effects, concentrations, actions and reactions keep the types. *)

LEMMA UnlinkedTyped ==
    ASSUME NEW effects \in SUBSET Effect, NEW ids
    PROVE  Unlinked(effects, ids) \in SUBSET Effect
  BY DEF Unlinked

LEMMA PaysSteady ==
    ASSUME NEW w \in World, NEW a
    PROVE  Steady(w, Pays(w, a)) /\ Steady(w, Reacts(w, a))
<1> DEFINE x == [w.action EXCEPT ![a] = FALSE]
           y == [w.reaction EXCEPT ![a] = FALSE]
<1>1. x \in [Actor -> BOOLEAN] /\ y \in [Actor -> BOOLEAN]
  BY DEF World
<1>2. Pays(w, a) = [w EXCEPT !.action = x] /\ Reacts(w, a) = [w EXCEPT !.reaction = y]
  BY Zenon DEF Pays, Reacts
<1> HIDE DEF x, y
<1>3. QED
  BY <1>1, <1>2, FieldSteady

LEMMA WroteSteady ==
    ASSUME NEW w \in World, NEW e \in SUBSET Effect, NEW c \in [Actor -> Nat]
    PROVE  Steady(w, Wrote(w, e, c))
<1> DEFINE u == [w EXCEPT !.effects = e]
<1>1. Steady(w, u)
  BY FieldSteady
<1>2. Wrote(w, e, c) = [u EXCEPT !.concentration = c]
  BY DEF Wrote
<1> HIDE DEF u
<1>3. Steady(u, [u EXCEPT !.concentration = c])
  BY <1>1, FieldSteady DEF Steady
<1>4. QED
  BY <1>1, <1>2, <1>3, SteadyTwice

LEMMA ActionStateSteady ==
    ASSUME NEW w \in World, NEW source, NEW touched, NEW gained \in SUBSET Effect, NEW id \in Nat
    PROVE  Steady(w, ActionState(w, source, touched, gained, id))
<1> DEFINE replaced == IF id = 0 THEN {} ELSE {w.concentration[source]}
           after == Unlinked(w.effects \cup gained, replaced)
           ended == {a \in touched : /\ w.concentration[a] \notin {0} \cup replaced
                                     /\ \E e \in after : e.on = a /\ e.incapacitates}
           e2 == Unlinked(after, {w.concentration[a] : a \in ended})
           c2 == [a \in Actor |-> IF a \in ended THEN 0
                                  ELSE IF a = source /\ id # 0 THEN id ELSE w.concentration[a]]
<1>1. ActionState(w, source, touched, gained, id) = Wrote(w, e2, c2)
  BY Zenon DEF ActionState, Wrote
<1>2. w.effects \in SUBSET Effect /\ w.concentration \in [Actor -> Nat]
  BY DEF World
<1> HIDE DEF replaced, ended
<1>3. after \in SUBSET Effect
  BY <1>2, UnlinkedTyped
<1> HIDE DEF after
<1>4. e2 \in SUBSET Effect
  BY <1>3, UnlinkedTyped
<1>5. c2 \in [Actor -> Nat]
  BY <1>2
<1> HIDE DEF e2, c2
<1>6. QED
  BY <1>1, <1>4, <1>5, WroteSteady

LEMMA ClearedSteady ==
    ASSUME NEW w \in World, NEW a
    PROVE  Steady(w, ConcentrationCleared(w, a))
<1> DEFINE e == Unlinked(w.effects, {w.concentration[a]})
           c == [w.concentration EXCEPT ![a] = 0]
<1>1. e \in SUBSET Effect /\ c \in [Actor -> Nat]
  BY UnlinkedTyped DEF World
<1>2. ConcentrationCleared(w, a) = Wrote(w, e, c)
  BY Zenon DEF ConcentrationCleared, Wrote
<1> HIDE DEF e, c
<1>3. QED
  BY <1>1, <1>2, WroteSteady

LEMMA GainedTyped ==
    ASSUME NEW t \in Actor, NEW spell, NEW id \in Nat
    PROVE  Gained(t, spell, id) \in SUBSET Effect
<1>1. (IF spell.concentration THEN id ELSE 0) \in Nat
  OBVIOUS
<1>2. (spell.effect = "incapacitates") \in BOOLEAN
  OBVIOUS
<1>3. QED
  BY <1>1, <1>2 DEF Gained, Effect

-----------------------------------------------------------------------------
(* The scene when a familiar leaves or joins. *)

\* The round goes on.
Course(w, v) == /\ Beside(w, v) /\ v.mode = w.mode /\ v.round = w.round
                /\ v.started = w.started /\ v.swapped = w.swapped

NextActor(w) == w.initiative[(w.active % Len(w.initiative)) + 1]

\* The turn passes only if it was f's, who is gone.
Shifted(w, v, f) ==
    InEncounter(w) =>
        IF CurrentActor(w) # f THEN CurrentActor(v) = CurrentActor(w)
        ELSE /\ CurrentActor(v) = NextActor(w)
             /\ \A i \in DOMAIN v.initiative : v.initiative[i] # f

LEMMA Wraps ==
    ASSUME NEW n \in Nat, NEW k \in 1 .. n
    PROVE  k % n = IF k = n THEN 0 ELSE k
<1>1. n > 0
  OBVIOUS
<1>2. CASE k = n
  <2>1. n % n = 0
    BY <1>1
  <2>2. QED
    BY <1>2, <2>1
<1>3. CASE k # n
  BY <1>1, <1>3
<1>4. QED
  BY <1>2, <1>3

LEMMA LeavesTyped ==
    ASSUME NEW w \in World, Placed(w), NEW f \in Familiar, NEW where \in Presence,
           InEncounter(w) => Len(w.initiative) > 2
    PROVE  LET v == FamiliarLeaves(w, f, where)
           IN Course(w, v) /\ Placed(v) /\ Shifted(w, v, f) /\ v.presence[f] = where
<1> DEFINE x == [w.presence EXCEPT ![f] = where]
           u == [w EXCEPT !.presence = x]
<1>1. /\ Course(w, u) /\ u.initiative = w.initiative /\ u.active = w.active
      /\ u.presence[f] = where
  <2>1. x \in [Familiar -> Presence] /\ x[f] = where
    BY DEF World
  <2> HIDE DEF x
  <2>2. QED
    BY <2>1, PresenceField DEF Course
<1>2. FamiliarLeaves(w, f, where) = SceneWithoutActor(u, f)
  BY Zenon DEF FamiliarLeaves
<1> HIDE DEF x, u
<1>3. /\ u \in World /\ Placed(u) /\ u.attack = w.attack /\ u.pending = w.pending
      /\ InEncounter(u) => Len(u.initiative) > 2
  BY <1>1 DEF Course, Beside, Placed, InEncounter
<1>4. CASE ~InEncounter(u) \/ f \notin {u.initiative[i] : i \in DOMAIN u.initiative}
  <2>1. SceneWithoutActor(u, f) = u
    BY <1>4 DEF SceneWithoutActor
  <2>2. InEncounter(w) => CurrentActor(w) # f
    BY <1>1, <1>3, <1>4 DEF Course, Placed, InEncounter, CurrentActor
  <2>3. Shifted(w, u, f)
    BY <1>1, <2>2 DEF Shifted, CurrentActor
  <2>4. QED
    BY <1>1, <1>2, <1>3, <2>1, <2>3
<1>5. CASE InEncounter(u) /\ f \in {u.initiative[i] : i \in DOMAIN u.initiative}
  <2> DEFINE s == u.initiative
             at == IndexIn(s, f)
             order == SeqWithout(s, f)
             turn == CASE at < u.active -> u.active - 1
                       [] at = u.active /\ at > Len(order) -> 1
                       [] OTHER -> u.active
             u1 == [u EXCEPT !.initiative = order]
             v == [u1 EXCEPT !.active = turn]
  <2>1. SceneWithoutActor(u, f) = v
    BY <1>5 DEF SceneWithoutActor
  <2>2. at \in DOMAIN s /\ s[at] = f
    BY <1>5 DEF IndexIn
  <2>3. /\ s \in Seq(Actor) /\ Distinct(s) /\ u.active \in DOMAIN s /\ Len(s) > 2
    BY <1>3, <1>5 DEF World, Placed
  <2> HIDE DEF at, s
  <2>4. /\ order \in Seq(Actor) /\ Len(order) = Len(s) - 1
        /\ \A k \in 1 .. (Len(s) - 1) : order[k] = IF k < at THEN s[k] ELSE s[k + 1]
    <3> DEFINE T == Actor \ {f}
    <3>1. \A y \in Actor : y \in T <=> y # s[at]
      BY <2>2
    <3> HIDE DEF T
    <3>2. LET r == Filtered(s, T)
          IN /\ r \in Seq(Actor) /\ Len(r) = Len(s) - 1
             /\ \A k \in 1 .. (Len(s) - 1) : r[k] = IF k < at THEN s[k] ELSE s[k + 1]
      BY <2>2, <2>3, <3>1, FilteredOut
    <3>3. QED
      BY <3>2 DEF SeqWithout, T
  <2> HIDE DEF order
  <2>5. Len(s) \in Nat /\ DOMAIN s = 1 .. Len(s) /\ DOMAIN order = 1 .. (Len(s) - 1)
    BY <2>3, <2>4
  <2>6. turn \in 1 .. (Len(s) - 1)
    BY <2>2, <2>3, <2>4, <2>5
  <2> HIDE DEF turn
  <2>7. Distinct(order)
    <3>1. SUFFICES ASSUME NEW i \in 1 .. (Len(s) - 1), NEW j \in 1 .. (Len(s) - 1),
                          order[i] = order[j]
                   PROVE  i = j
      BY <2>5 DEF Distinct
    <3> DEFINE I == IF i < at THEN i ELSE i + 1
               J == IF j < at THEN j ELSE j + 1
    <3>2. s[I] = s[J]
      BY <2>4, <3>1
    <3>3. I \in 1 .. Len(s) /\ J \in 1 .. Len(s) /\ at \in 1 .. Len(s)
      BY <2>2, <2>5
    <3>4. I = J
      <4> HIDE DEF I, J
      <4>1. QED
        BY <2>3, <2>5, <3>2, <3>3 DEF Distinct
    <3>5. QED
      BY <3>3, <3>4, <2>5
  <2>8. Course(u, u1) /\ u1.initiative = order /\ u1.presence = u.presence
    BY <1>3, <2>4, InitiativeField DEF Course
  <2> HIDE DEF u1
  <2>9. /\ Course(u1, v) /\ v.initiative = order /\ v.active = turn
        /\ v.presence = u.presence
    <3>1. turn \in Nat /\ u1 \in World
      BY <2>5, <2>6, <2>8 DEF Course, Beside
    <3>2. QED
      BY <2>8, <3>1, ActiveField DEF Course
  <2> HIDE DEF v
  <2>10. Placed(v)
    BY <2>5, <2>6, <2>7, <2>9 DEF Placed
  <2>11. Course(w, v)
    BY <1>1, <2>8, <2>9, BesideTwice DEF Course
  <2> DEFINE k == u.active
             n == Len(s)
  <2>12. n \in Nat /\ n > 2 /\ at \in 1 .. n /\ k \in 1 .. n /\ DOMAIN s = 1 .. n
    BY <2>2, <2>3, <2>5
  <2>13. turn = IF at < k THEN k - 1 ELSE IF at = k /\ at = n THEN 1 ELSE k
    <3>1. at > Len(order) <=> at = n
      BY <2>4, <2>12
    <3> HIDE DEF k, n
    <3>2. QED
      BY <2>12, <3>1 DEF turn, k
  <2>14. \A j \in 1 .. (n - 1) : order[j] = IF j < at THEN s[j] ELSE s[j + 1]
    BY <2>4
  <2> HIDE DEF k, n
  <2>15. CASE at # k
    <3>1. turn \in 1 .. (n - 1) /\ order[turn] = s[k]
      <4>1. CASE at < k
        <5>1. turn = k - 1 /\ k - 1 \in 1 .. (n - 1) /\ ~(k - 1 < at) /\ (k - 1) + 1 = k
          BY <2>12, <2>13, <4>1
        <5>2. QED
          BY <2>14, <5>1
      <4>2. CASE k < at
        <5>1. turn = k /\ k \in 1 .. (n - 1)
          BY <2>12, <2>13, <4>2
        <5>2. QED
          BY <2>14, <4>2, <5>1
      <4>3. QED
        BY <2>12, <2>15, <4>1, <4>2
    <3>2. s[k] # f
      BY <2>2, <2>3, <2>12, <2>15 DEF Distinct
    <3>3. CurrentActor(w) = s[k] /\ CurrentActor(v) = order[turn]
      BY <1>1, <2>9 DEF CurrentActor, s, k
    <3>4. Shifted(w, v, f)
      BY <3>1, <3>2, <3>3 DEF Shifted
    <3>5. QED
      BY <1>1, <1>2, <2>1, <2>9, <2>10, <2>11, <3>4
  <2>16. CASE at = k
    <3>1. turn \in 1 .. (n - 1) /\ order[turn] = s[(k % n) + 1]
      <4>1. k % n = IF k = n THEN 0 ELSE k
        BY <2>12, Wraps
      <4>2. CASE k = n
        <5>1. turn = 1 /\ 1 \in 1 .. (n - 1) /\ 1 < at /\ (k % n) + 1 = 1
          BY <2>12, <2>13, <2>16, <4>1, <4>2
        <5>2. QED
          BY <2>14, <5>1
      <4>3. CASE k # n
        <5>1. turn = k /\ k \in 1 .. (n - 1) /\ ~(k < at) /\ k % n = k
          BY <2>12, <2>13, <2>16, <4>1, <4>3
        <5>2. QED
          BY <2>14, <5>1
      <4>4. QED
        BY <4>2, <4>3
    <3>2. s[k] = f
      BY <2>2, <2>16
    <3>3. ASSUME NEW i \in 1 .. (n - 1) PROVE order[i] # f
      <4> DEFINE j == IF i < at THEN i ELSE i + 1
      <4>1. j \in 1 .. n /\ j # at /\ order[i] = s[j]
        BY <2>12, <2>14
      <4> HIDE DEF j
      <4>2. QED
        BY <2>2, <2>3, <2>12, <4>1 DEF Distinct
    <3>4. /\ CurrentActor(w) = s[k] /\ CurrentActor(v) = order[turn]
          /\ NextActor(w) = s[(k % n) + 1] /\ v.initiative = order
          /\ DOMAIN order = 1 .. (n - 1)
      BY <1>1, <2>5, <2>9 DEF CurrentActor, NextActor, s, k, n
    <3>5. Shifted(w, v, f)
      BY <3>1, <3>2, <3>3, <3>4 DEF Shifted
    <3>6. QED
      BY <1>1, <1>2, <2>1, <2>9, <2>10, <2>11, <3>5
  <2>17. QED
    BY <2>15, <2>16
<1>6. QED
  BY <1>4, <1>5

LEMMA JoinsTyped ==
    ASSUME NEW w \in World, Placed(w), NEW f \in Familiar,
           InEncounter(w) => CurrentActor(w) = Owner[f]
    PROVE  LET v == SceneWithPresentFamiliar(w, f)
           IN /\ Course(w, v) /\ Placed(v) /\ v.active = w.active
              /\ InEncounter(w) => CurrentActor(v) = CurrentActor(w)
<1>1. CASE ~InEncounter(w) \/ f \in {w.initiative[i] : i \in DOMAIN w.initiative}
  <2>1. SceneWithPresentFamiliar(w, f) = w
    BY <1>1 DEF SceneWithPresentFamiliar
  <2>2. QED
    BY <2>1 DEF Course, Beside
<1>2. CASE InEncounter(w) /\ f \notin {w.initiative[i] : i \in DOMAIN w.initiative}
  <2> DEFINE s == w.initiative
             at == IF Owner[f] \in {s[i] : i \in DOMAIN s} THEN IndexIn(s, Owner[f]) ELSE Len(s)
             order == SubSeq(s, 1, at) \o <<f>> \o SubSeq(s, at + 1, Len(s))
             v == [w EXCEPT !.initiative = order]
  <2>1. SceneWithPresentFamiliar(w, f) = v
    BY <1>2, Zenon DEF SceneWithPresentFamiliar
  <2>2. s \in Seq(Actor) /\ Distinct(s) /\ w.active \in DOMAIN s
    BY <1>2 DEF World, Placed
  <2>3. at \in 1 .. Len(s)
    <3>1. CASE Owner[f] \in {s[i] : i \in DOMAIN s}
      <4>1. IndexIn(s, Owner[f]) \in DOMAIN s
        BY <3>1 DEF IndexIn
      <4> HIDE DEF s
      <4>2. QED
        BY <2>2, <3>1, <4>1
    <3>2. CASE Owner[f] \notin {s[i] : i \in DOMAIN s}
      <4> HIDE DEF s
      <4>1. QED
        BY <2>2, <3>2
    <3>3. QED
      BY <3>1, <3>2
  <2>4. f \in Actor /\ \A i \in DOMAIN s : s[i] # f
    BY <1>2, RulesAssumption
  <2> HIDE DEF at, s
  <2> DEFINE front == SubSeq(s, 1, at)
             back == SubSeq(s, at + 1, Len(s))
  <2>5. /\ front \in Seq(Actor) /\ Len(front) = at /\ \A k \in 1 .. at : front[k] = s[k]
        /\ back \in Seq(Actor) /\ Len(back) = Len(s) - at
        /\ \A k \in 1 .. (Len(s) - at) : back[k] = s[at + k]
        /\ Len(s) \in Nat /\ at \in Nat
    BY <2>2, <2>3
  <2>6. order = (front \o <<f>>) \o back
    OBVIOUS
  <2> HIDE DEF front, back, order
  <2>7. /\ order \in Seq(Actor) /\ Len(order) = Len(s) + 1
        /\ \A k \in 1 .. (Len(s) + 1) :
              order[k] = IF k <= at THEN s[k] ELSE IF k = at + 1 THEN f ELSE s[k - 1]
    <3> DEFINE g == Append(front, f)
    <3>1. front \o <<f>> = g
      BY <2>4, <2>5
    <3>2. /\ g \in Seq(Actor) /\ Len(g) = at + 1 /\ g[at + 1] = f
          /\ \A k \in 1 .. at : g[k] = s[k]
      BY <2>4, <2>5
    <3> HIDE DEF g
    <3>3. order = g \o back
      BY <2>6, <3>1
    <3>4. order \in Seq(Actor) /\ Len(order) = Len(s) + 1
      BY <2>5, <3>2, <3>3
    <3>5. ASSUME NEW k \in 1 .. (Len(s) + 1)
          PROVE  order[k] = IF k <= at THEN s[k] ELSE IF k = at + 1 THEN f ELSE s[k - 1]
      <4>1. CASE k <= at + 1
        <5>1. order[k] = g[k]
          BY <2>5, <3>2, <3>3, <4>1
        <5>2. k \in 1 .. at \/ k = at + 1
          BY <2>5, <4>1
        <5>3. QED
          BY <2>5, <3>2, <5>1, <5>2
      <4>2. CASE k > at + 1
        <5>1. order[k] = back[k - (at + 1)] /\ k - (at + 1) \in 1 .. (Len(s) - at)
          BY <2>5, <3>2, <3>3, <4>2
        <5>2. at + (k - (at + 1)) = k - 1
          BY <2>5
        <5>3. QED
          BY <2>5, <4>2, <5>1, <5>2
      <4>3. QED
        BY <2>5, <4>1, <4>2
    <3>6. QED
      BY <3>4, <3>5
  <2>8. DOMAIN s = 1 .. Len(s) /\ DOMAIN order = 1 .. (Len(s) + 1)
    BY <2>2, <2>7
  <2>9. Distinct(order)
    <3>1. SUFFICES ASSUME NEW i \in 1 .. (Len(s) + 1), NEW j \in 1 .. (Len(s) + 1),
                          order[i] = order[j], i < j
                   PROVE  FALSE
      BY <2>5, <2>8 DEF Distinct
    <3> DEFINE From(k) == IF k <= at THEN k ELSE k - 1
    <3>2. ASSUME NEW k \in 1 .. (Len(s) + 1), k # at + 1
          PROVE  From(k) \in 1 .. Len(s) /\ order[k] = s[From(k)] /\ order[k] # f
      <4>1. From(k) \in 1 .. Len(s) /\ order[k] = s[From(k)]
        BY <2>3, <2>5, <2>7, <3>2
      <4>2. QED
        BY <2>4, <2>8, <4>1
    <3>3. order[at + 1] = f
      BY <2>3, <2>5, <2>7
    <3>4. i # at + 1 /\ j # at + 1
      BY <3>1, <3>2, <3>3
    <3>5. From(i) \in 1 .. Len(s) /\ From(j) \in 1 .. Len(s) /\ s[From(i)] = s[From(j)]
      BY <3>1, <3>2, <3>4
    <3>6. From(i) = From(j)
      <4> HIDE DEF From
      <4>1. QED
        BY <2>2, <2>8, <3>5 DEF Distinct
    <3>7. QED
      BY <2>5, <3>1, <3>4, <3>6
  <2>10. Course(w, v) /\ v.initiative = order /\ v.active = w.active
    BY <2>7, InitiativeField DEF Course
  <2> HIDE DEF v
  <2>11. Placed(v)
    BY <2>2, <2>5, <2>8, <2>9, <2>10 DEF Placed
  <2>12. CurrentActor(v) = CurrentActor(w)
    <3>1. w.active \in 1 .. Len(s) /\ w.active = at
      <4>1. s[w.active] = Owner[f] /\ w.active \in DOMAIN s
        BY <1>2, <2>2 DEF CurrentActor, s
      <4>2. at \in DOMAIN s /\ s[at] = Owner[f]
        BY <4>1 DEF at, IndexIn
      <4>3. QED
        BY <2>2, <2>8, <4>1, <4>2 DEF Distinct
    <3>2. order[w.active] = s[w.active]
      BY <2>5, <2>7, <3>1
    <3>3. QED
      BY <2>10, <3>2 DEF CurrentActor, s
  <2>13. QED
    BY <2>1, <2>10, <2>11, <2>12
<1>3. QED
  BY <1>1, <1>2

-----------------------------------------------------------------------------
(* Post-conditions keep the types, the places and the attacks. *)

LEMMA FallingTyped ==
    ASSUME NEW damaged, NEW fallen \in Falling(world, damaged)
    PROVE  \/ fallen = {}
           \/ /\ fallen \subseteq Familiar \cap damaged
              /\ InEncounter(world) => Len(world.initiative) > 2
              /\ \A f \in fallen : world.presence[f] = "present"
  BY DEF Falling

\* Who falls leaves the scene, and nobody else does.
Fell(w, v, fallen) ==
    IF fallen = {}
    THEN v.initiative = w.initiative /\ v.active = w.active /\ v.presence = w.presence
    ELSE \E f \in fallen : v.presence[f] = "zero_hp" /\ Shifted(w, v, f)

LEMMA PostTyped ==
    ASSUME NEW w \in World, Placed(w), NEW died, NEW fallen,
           \/ fallen = {}
           \/ fallen \subseteq Familiar /\ (InEncounter(w) => Len(w.initiative) > 2)
    PROVE  LET v == PostConditions(w, died, fallen)
           IN Course(w, v) /\ Placed(v) /\ Fell(w, v, fallen)
<1> DEFINE l == w.living \ died
           e == Unlinked(w.effects, {w.concentration[a] : a \in died})
           c == [a \in Actor |-> IF a \in died THEN 0 ELSE w.concentration[a]]
           buried == Buried(w, l, e, c)
           gone == IF fallen = {} THEN buried
                   ELSE FamiliarLeaves(buried, CHOOSE f \in fallen : TRUE, "zero_hp")
           held == {g \in gone.grapples :
                      g.grappler \in gone.living /\ ~Incapacitated(gone, g.grappler)}
           v == PostConditions(w, died, fallen)
<1>1. v = [gone EXCEPT !.grapples = held]
  BY Zenon DEF PostConditions, Buried
<1>2. /\ l \in SUBSET Actor /\ e \in SUBSET Effect /\ c \in [Actor -> Nat]
  BY UnlinkedTyped DEF World
<1> HIDE DEF l, e, c
<1>3. Steady(w, buried)
  <2> DEFINE u == [w EXCEPT !.living = l]
  <2>1. Steady(w, u)
    BY <1>2, FieldSteady
  <2>2. buried = Wrote(u, e, c)
    BY DEF Buried, Wrote
  <2> HIDE DEF u, buried
  <2>3. Steady(u, buried)
    BY <1>2, <2>1, <2>2, WroteSteady DEF Steady
  <2>4. QED
    BY <2>1, <2>3, SteadyTwice
<1> HIDE DEF buried
<1>4. /\ buried \in World /\ Placed(buried) /\ Course(w, buried)
      /\ Fell(w, buried, {})
  <2>1. buried.grapples = w.grapples
    BY DEF World, Buried, buried
  <2>2. buried \in World /\ Placed(buried) /\ Scene(w, buried)
    BY <1>3, ScenePlaced DEF Steady
  <2>3. QED
    BY <1>3, <2>1, <2>2 DEF Steady, Scene, Stage, Course, Beside, Fell
<1>5. Placed(gone) /\ Course(w, gone) /\ Fell(w, gone, fallen)
  <2>1. CASE fallen = {}
    BY <1>4, <2>1
  <2>2. CASE fallen # {}
    <3> DEFINE f == CHOOSE f \in fallen : TRUE
    <3>1. f \in fallen /\ f \in Familiar /\ "zero_hp" \in Presence
      BY <2>2 DEF Presence
    <3>2. InEncounter(buried) => Len(buried.initiative) > 2
      BY <1>4, <2>2 DEF Course, Fell, InEncounter
    <3>3. gone = FamiliarLeaves(buried, f, "zero_hp")
      BY <2>2
    <3> HIDE DEF f, gone
    <3>4. /\ Course(buried, gone) /\ Placed(gone) /\ Shifted(buried, gone, f)
          /\ gone.presence[f] = "zero_hp"
      BY <1>4, <3>1, <3>2, <3>3, LeavesTyped
    <3>5. Course(w, gone)
      BY <1>4, <3>4, BesideTwice DEF Course
    <3>6. Shifted(w, gone, f)
      BY <1>4, <3>4 DEF Course, Fell, Shifted, InEncounter, CurrentActor, NextActor
    <3>7. QED
      BY <2>2, <3>1, <3>4, <3>5, <3>6 DEF Fell
  <2>3. QED
    BY <2>1, <2>2
<1> HIDE DEF gone
<1>6. held \in SUBSET Grapple /\ held \subseteq gone.grapples /\ gone \in World
  BY <1>5 DEF World, Course, Beside
<1> HIDE DEF held, v
<1>7. Steady(gone, v) /\ v.grapples = held
  BY <1>1, <1>6, FieldSteady DEF World
<1>8. Course(gone, v) /\ Fell(gone, v, {}) /\ Placed(v)
  BY <1>5, <1>6, <1>7, ScenePlaced DEF Steady, Scene, Stage, Course, Beside, Fell
<1>9. Course(w, v)
  BY <1>5, <1>8, BesideTwice DEF Course
<1>10. Fell(w, v, fallen)
  BY <1>5, <1>8 DEF Fell, Shifted, CurrentActor
<1>11. QED
  BY <1>8, <1>9, <1>10 DEF v

LEMMA SameBlocked ==
    ASSUME NEW u, NEW v, v.attack = u.attack, v.pending = u.pending, Blocked(u)
    PROVE  Blocked(v)
  BY DEF Blocked

\* What a command commits, whatever it did to the scene.
LEMMA CommittedScene ==
    ASSUME NEW w \in World, Placed(w), Blocked(w), Apart(w),
           w.pending # NoResolution => UnderWay(w), NEW died, NEW fallen,
           \/ fallen = {}
           \/ fallen \subseteq Familiar /\ (InEncounter(w) => Len(w.initiative) > 2),
           Committed(w, died, fallen)
    PROVE  TInv' /\ Course(w, world') /\ Fell(w, world', fallen)
<1> DEFINE v == PostConditions(w, died, fallen)
<1>1. Course(w, v) /\ Placed(v) /\ Fell(w, v, fallen)
  BY PostTyped
<1> HIDE DEF v
<1>2. v \in World /\ Blocked(v) /\ Apart(v) /\ (v.pending # NoResolution => UnderWay(v))
  BY <1>1, SameBlocked DEF Course, Beside, Apart, UnderWay, InEncounter
<1>3. world' = v
  BY DEF Committed, v
<1>4. /\ world' \in World /\ Blocked(world') /\ Placed(world') /\ Apart(world')
      /\ world'.pending # NoResolution => UnderWay(world')
  BY <1>1, <1>2, <1>3
<1>5. QED
  BY <1>1, <1>3, <1>4 DEF TInv

\* The step properties TurnPassesInOrder and AttacksStayUsable.
Turns ==
    InEncounter(world) /\ ~EncounterStarted =>
      \/ CurrentActor(world') = CurrentActor(world)
      \/ ~world.started /\ world'.swapped # world.swapped
      \/ /\ CurrentActor(world') = NextActor(world) /\ world.started
         /\ ~world'.started \/ \A i \in DOMAIN world'.initiative :
                                  world'.initiative[i] # CurrentActor(world)

Lasts ==
    InEncounter(world) /\ world.started =>
      LET a == CurrentActor(world)
      IN Usable(world, a) => \/ Usable(world', a) /\ CurrentActor(world') = a
                             \/ ~world'.attack[a].open
                             \/ world'.attack[a].left < world.attack[a].left
                             \/ FamiliarLeft \/ EncounterStarted

Goes == TInv' /\ Turns /\ Lasts

LEMMA CurrentTyped ==
    ASSUME TInv, InEncounter(world)
    PROVE  CurrentActor(world) \in Actor
<1>1. world.initiative \in Seq(Actor) /\ world.active \in DOMAIN world.initiative
  BY DEF TInv, World, Placed
<1>2. QED
  BY <1>1 DEF CurrentActor

\* The scene stays, and no attack is begun that was open before.
Spent(w, v) ==
    Stage(w, v) /\ \A b \in Actor : w.attack[b].open => Lesser(w.attack[b], v.attack[b])

LEMMA SpentTwice ==
    ASSUME NEW u, NEW v, NEW w, Spent(u, v), Scene(v, w)
    PROVE  Spent(u, w)
<1>1. ASSUME NEW b \in Actor, u.attack[b].open PROVE Lesser(u.attack[b], w.attack[b])
  <2>1. Lesser(u.attack[b], v.attack[b]) /\ Lesser(v.attack[b], w.attack[b])
    BY <1>1 DEF Spent, Scene
  <2>2. QED
    BY <2>1 DEF Lesser
<1>2. QED
  BY <1>1 DEF Spent, Scene, Stage

LEMMA CommittedSpent ==
    ASSUME TInv, NEW w \in World, Spent(world, w), Blocked(w), NEW died, NEW damaged,
           NEW fallen \in Falling(world, damaged), Committed(w, died, fallen),
           fallen # {} \/ w.pending # NoResolution => UnderWay(world)
    PROVE  Goes
<1>1. /\ Placed(w) /\ Apart(w) /\ w.mode = world.mode /\ w.initiative = world.initiative
      /\ w.active = world.active /\ w.round = world.round /\ w.started = world.started
      /\ w.swapped = world.swapped /\ w.presence = world.presence
  BY DEF Spent, Stage, TInv, Placed, InEncounter
<1>2. \/ fallen = {}
      \/ /\ fallen \subseteq Familiar /\ (InEncounter(w) => Len(w.initiative) > 2)
         /\ \A f \in fallen : world.presence[f] = "present"
  BY <1>1, FallingTyped DEF InEncounter
<1>3. w.pending # NoResolution => UnderWay(w)
  BY <1>1 DEF UnderWay, InEncounter
<1>4. TInv' /\ Course(w, world') /\ Fell(w, world', fallen)
  BY <1>1, <1>2, <1>3, CommittedScene
<1>5. /\ world'.mode = world.mode /\ world'.round = world.round
      /\ world'.started = world.started /\ world'.attack = w.attack
  BY <1>1, <1>4 DEF Course, Beside
<1>6. CASE fallen = {}
  <2>1. world'.initiative = world.initiative /\ world'.active = world.active
    BY <1>1, <1>4, <1>6 DEF Fell
  <2>2. CurrentActor(world') = CurrentActor(world)
    BY <2>1 DEF CurrentActor
  <2>3. ASSUME InEncounter(world), NEW a \in Actor, Usable(world, a)
        PROVE  \/ Usable(world', a) \/ ~world'.attack[a].open
               \/ world'.attack[a].left < world.attack[a].left
    <3>1. Lesser(world.attack[a], world'.attack[a]) /\ world.attack[a].open
      BY <1>5, <2>3 DEF Spent, Usable
    <3>2. AttackTurnKey(world') = AttackTurnKey(world) /\ InEncounter(world')
      BY <1>5, <2>1, <2>3 DEF AttackTurnKey, InEncounter
    <3>3. QED
      BY <2>3, <3>1, <3>2 DEF Usable, Lesser
  <2>4. QED
    BY <1>4, <2>2, <2>3, CurrentTyped DEF Goes, Turns, Lasts
<1>7. CASE fallen # {}
  <2>1. PICK f \in fallen : world'.presence[f] = "zero_hp" /\ Shifted(w, world', f)
    BY <1>4, <1>7 DEF Fell
  <2>2. FamiliarLeft
    BY <1>2, <1>7, <2>1 DEF FamiliarLeft
  <2>3. Shifted(world, world', f)
    BY <1>1, <2>1 DEF Shifted, InEncounter, CurrentActor, NextActor
  <2>4. QED
    BY <1>4, <1>7, <2>2, <2>3 DEF Goes, Turns, Lasts, Shifted, UnderWay
<1>8. QED
  BY <1>6, <1>7

LEMMA CommittedTyped ==
    ASSUME TInv, NEW w \in World, Scene(world, w), Blocked(w), NEW died, NEW damaged,
           NEW fallen \in Falling(world, damaged), Committed(w, died, fallen),
           fallen # {} \/ w.pending # NoResolution => UnderWay(world)
    PROVE  Goes
<1>1. Spent(world, w)
  BY DEF Spent, Scene
<1>2. QED
  BY <1>1, CommittedSpent

LEMMA NoneFalls == \A d : {} \in Falling(world, d)
  BY DEF Falling

-----------------------------------------------------------------------------
(* Encounter and turns. *)

LEMMA StartEncounterT == ASSUME TInv, NEW a, StartEncounter(a) PROVE Goes
<1>1. PICK order \in Orders(world) :
         Committed([world EXCEPT !.mode = "encounter", !.initiative = order, !.active = 1,
                                 !.round = 1, !.started = FALSE, !.swapped = {}], {}, {})
  BY DEF StartEncounter
<1>2. order \in Seq(Actor) /\ Len(order) >= 2 /\ Distinct(order)
  <2> DEFINE members == {order[i] : i \in DOMAIN order}
  <2>1. order \in Seq(Actor) /\ Len(order) >= 2 /\ Cardinality(members) = Len(order)
    BY <1>1, RulesAssumption DEF Orders
  <2>2. IsFiniteSet(1 .. Len(order)) /\ Cardinality(1 .. Len(order)) = Len(order)
    <3>1. Len(order) \in Nat
      BY <2>1
    <3> HIDE DEF members
    <3>2. QED
      BY <2>1, <3>1, FS_Interval
  <2>3. order \in Surjection(1 .. Len(order), members)
    BY <2>1 DEF Surjection
  <2> HIDE DEF members
  <2>4. order \in Injection(1 .. Len(order), members)
    BY <2>1, <2>2, <2>3, FS_SurjSameCardinalityImpliesInj
  <2>5. DOMAIN order = 1 .. Len(order)
    BY <2>1
  <2>6. Distinct(order)
    BY <2>4, <2>5 DEF Injection, IsInjective, Distinct
  <2>7. QED
    BY <2>1, <2>6
<1> DEFINE w1 == [world EXCEPT !.mode = "encounter"]
           w2 == [w1 EXCEPT !.initiative = order]
           w3 == [w2 EXCEPT !.active = 1]
           w4 == [w3 EXCEPT !.round = 1]
           w5 == [w4 EXCEPT !.started = FALSE]
           w6 == [w5 EXCEPT !.swapped = {}]
<1>3. Committed(w6, {}, {})
  BY <1>1
<1> HIDE DEF w1, w2, w3, w4, w5, w6
<1> DEFINE one == 1
           none == {}
<1>4. one \in Nat /\ one = 1 /\ none = {} /\ none \in SUBSET Actor /\ FALSE \in BOOLEAN
  OBVIOUS
<1> HIDE DEF one, none
<1>5. /\ world.pending = NoResolution /\ world \in World /\ Blocked(world) /\ Apart(world)
  BY DEF StartEncounter, TInv
<1>6. Beside(world, w1) /\ w1.mode = "encounter"
  BY <1>5, ModeField DEF w1
<1>7. Beside(w1, w2) /\ w2.mode = "encounter" /\ w2.initiative = order
  BY <1>2, <1>6, InitiativeField DEF Beside, w2
<1>8. /\ Beside(w2, w3) /\ w3.mode = "encounter" /\ w3.initiative = order /\ w3.active = 1
  BY <1>4, <1>7, ActiveField DEF Beside, w3
<1>9. /\ Beside(w3, w4) /\ w4.mode = "encounter" /\ w4.initiative = order /\ w4.active = 1
      /\ w4.round = 1
  BY <1>4, <1>8, RoundField DEF Beside, w4
<1>10. /\ Beside(w4, w5) /\ w5.mode = "encounter" /\ w5.initiative = order /\ w5.active = 1
       /\ w5.round = 1 /\ ~w5.started
  BY <1>4, <1>9, StartedField DEF Beside, w5
<1>11. /\ Beside(w5, w6) /\ w6.mode = "encounter" /\ w6.initiative = order /\ w6.active = 1
       /\ w6.round = 1 /\ ~w6.started /\ w6.swapped = {}
  BY <1>4, <1>10, SwappedField DEF Beside, w6
<1>12. Beside(world, w6)
  BY <1>6, <1>7, <1>8, <1>9, <1>10, <1>11, BesideTwice
<1>13. Placed(w6) /\ Apart(w6) /\ Blocked(w6) /\ w6 \in World /\ w6.pending = NoResolution
  BY <1>2, <1>5, <1>11, <1>12, SameBlocked DEF Placed, Beside, Apart
<1>14. TInv' /\ Course(w6, world') /\ Fell(w6, world', {})
  BY <1>3, <1>13, CommittedScene
<1>15. EncounterStarted
  BY <1>11, <1>14 DEF EncounterStarted, Course, Fell
<1>16. QED
  BY <1>14, <1>15 DEF Goes, Turns, Lasts

LEMMA SwapInitiativeT ==
    ASSUME TInv, NEW a \in Actor, NEW ally \in Actor, SwapInitiative(a, ally) PROVE Goes
<1> DEFINE s == world.initiative
           Other(x) == IF x = a THEN ally ELSE IF x = ally THEN a ELSE x
           order == [i \in DOMAIN s |-> Other(s[i])]
           swapped == world.swapped \cup {a}
           u == [world EXCEPT !.initiative = order]
           v == [u EXCEPT !.swapped = swapped]
<1>1. Committed(v, {}, {})
  BY Zenon DEF SwapInitiative
<1>2. /\ s \in Seq(Actor) /\ Distinct(s) /\ swapped \in SUBSET Actor
      /\ InEncounter(world) => world.active \in DOMAIN s
  BY DEF TInv, World, Placed
<1> HIDE DEF s, swapped
<1>3. \A x, y \in Actor : Other(x) \in Actor /\ (Other(x) = Other(y) => x = y)
  OBVIOUS
<1> HIDE DEF Other
<1>4. /\ order \in Seq(Actor) /\ DOMAIN order = DOMAIN s
      /\ \A i \in DOMAIN s : order[i] = Other(s[i])
  <2>1. DOMAIN s = 1 .. Len(s) /\ Len(s) \in Nat /\ \A i \in 1 .. Len(s) : s[i] \in Actor
    BY <1>2
  <2>2. \A i \in 1 .. Len(s) : Other(s[i]) \in Actor
    BY <1>3, <2>1
  <2>3. order \in [1 .. Len(s) -> Actor]
    BY <2>1, <2>2
  <2>4. order \in Seq(Actor)
    BY <2>1, <2>3
  <2>5. QED
    BY <2>4
<1>5. Distinct(order)
  <2>1. \A i \in DOMAIN s : s[i] \in Actor
    BY <1>2
  <2>2. QED
    BY <1>2, <1>3, <1>4, <2>1 DEF Distinct
<1> HIDE DEF order
<1>6. /\ Beside(world, u) /\ u.mode = world.mode /\ u.initiative = order
      /\ u.active = world.active /\ u.started = world.started
  BY <1>4, InitiativeField DEF TInv
<1> HIDE DEF u
<1>7. /\ Beside(u, v) /\ v.mode = world.mode /\ v.initiative = order
      /\ v.active = world.active /\ v.started = world.started /\ v.swapped = swapped
  BY <1>2, <1>6, SwappedField DEF Beside
<1> HIDE DEF v
<1>8. Beside(world, v)
  BY <1>6, <1>7, BesideTwice
<1>9. /\ v \in World /\ Placed(v) /\ Apart(v) /\ Blocked(v)
      /\ v.pending # NoResolution => UnderWay(v)
  <2>1. Placed(v)
    BY <1>2, <1>4, <1>5, <1>7 DEF Placed, InEncounter
  <2>2. QED
    BY <1>7, <1>8, <2>1, SameBlocked DEF Beside, TInv, Apart, UnderWay, InEncounter
<1>10. TInv' /\ Course(v, world')
  BY <1>1, <1>9, CommittedScene
<1>11. ~world.started /\ world'.swapped # world.swapped
  <2>1. ~world.started /\ a \notin world.swapped
    BY DEF SwapInitiative
  <2>2. QED
    BY <1>7, <1>10, <2>1 DEF Course, swapped
<1>12. QED
  BY <1>10, <1>11 DEF Goes, Turns, Lasts

LEMMA StartTurnT == ASSUME TInv, NEW a, StartTurn(a) PROVE Goes
<1> DEFINE d == {g.target : g \in {h \in world.grapples : h.grappler = a}}
           start == InEncounter(world)
           acts == [world.action EXCEPT ![a] = TRUE]
           reacts == [world.reaction EXCEPT ![a] = TRUE]
           w1(kept) == [world EXCEPT !.effects = kept]
           w2(kept) == [w1(kept) EXCEPT !.started = start]
           w3(kept) == [w2(kept) EXCEPT !.action = acts]
           w4(kept) == [w3(kept) EXCEPT !.reaction = reacts]
<1>1. \E kept \in SUBSET world.effects : \E fallen \in Falling(world, d) :
         Committed(w4(kept), {}, fallen)
  BY Zenon DEF StartTurn
<1>2. PICK kept \in SUBSET world.effects :
         \E fallen \in Falling(world, d) : Committed(w4(kept), {}, fallen)
  BY <1>1
<1>3. PICK fallen \in Falling(world, d) : Committed(w4(kept), {}, fallen)
  BY <1>2
<1>4. /\ kept \in SUBSET Effect /\ start \in BOOLEAN /\ start = InEncounter(world)
      /\ acts \in [Actor -> BOOLEAN] /\ reacts \in [Actor -> BOOLEAN]
  BY DEF TInv, World, InEncounter
<1>5. a \notin d
  BY DEF TInv, Apart
<1>6. /\ world.pending = NoResolution
      /\ InEncounter(world) => CurrentActor(world) = a /\ ~world.started
  BY DEF StartTurn
<1> HIDE DEF d, start, acts, reacts, w1, w2, w3, w4
<1>7. Steady(world, w1(kept))
  BY <1>4, FieldSteady DEF TInv, w1
<1> DEFINE v == w4(kept)
<1>8. /\ w2(kept) \in World /\ Apart(w2(kept)) /\ w2(kept).started = start
      /\ w2(kept).mode = world.mode /\ w2(kept).initiative = world.initiative
      /\ w2(kept).active = world.active /\ w2(kept).attack = world.attack
      /\ w2(kept).pending = world.pending
  <2>1. Beside(w1(kept), w2(kept)) /\ w2(kept).started = start
        /\ w2(kept).mode = w1(kept).mode /\ w2(kept).initiative = w1(kept).initiative
        /\ w2(kept).active = w1(kept).active
    BY <1>4, <1>7, StartedField DEF Steady, w2
  <2>2. QED
    BY <1>7, <2>1 DEF Steady, Scene, Stage, Beside, Apart, TInv
<1>9. Steady(w2(kept), v)
  <2>1. Steady(w2(kept), w3(kept))
    BY <1>4, <1>8, FieldSteady DEF w3
  <2>2. Steady(w3(kept), w4(kept))
    BY <1>4, <2>1, FieldSteady DEF Steady, w4
  <2>3. QED
    BY <2>1, <2>2, SteadyTwice
<1> HIDE DEF v
<1>10. /\ v \in World /\ Apart(v) /\ v.started = start /\ v.mode = world.mode
       /\ v.initiative = world.initiative /\ v.active = world.active
       /\ v.attack = world.attack /\ v.pending = world.pending
  BY <1>8, <1>9 DEF Steady, Scene, Stage
<1>11. Placed(v) /\ Blocked(v) /\ v.pending = NoResolution
  BY <1>6, <1>10, SameBlocked DEF Placed, TInv, InEncounter
<1>12. \/ fallen = {}
       \/ /\ fallen \subseteq Familiar \cap d /\ (InEncounter(v) => Len(v.initiative) > 2)
  BY <1>10, FallingTyped DEF InEncounter
<1>13. TInv' /\ Course(v, world') /\ Fell(v, world', fallen)
  BY <1>3, <1>10, <1>11, <1>12, CommittedScene DEF v
<1>14. InEncounter(world) => CurrentActor(world') = CurrentActor(world)
  <2> SUFFICES ASSUME InEncounter(world) PROVE CurrentActor(world') = CurrentActor(world)
    OBVIOUS
  <2>1. CurrentActor(v) = a /\ InEncounter(v)
    BY <1>6, <1>10 DEF CurrentActor, InEncounter
  <2>2. CASE fallen = {}
    BY <1>6, <1>13, <2>1, <2>2 DEF Fell, CurrentActor
  <2>3. CASE fallen # {}
    <3>1. PICK f \in fallen : Shifted(v, world', f)
      BY <1>13, <2>3 DEF Fell
    <3>2. f # a
      BY <1>5, <1>12, <3>1
    <3>3. QED
      BY <1>6, <2>1, <3>1, <3>2 DEF Shifted
  <2>4. QED
    BY <2>2, <2>3
<1>15. QED
  BY <1>6, <1>13, <1>14 DEF Goes, Turns, Lasts

LEMMA EndTurnT == ASSUME TInv, NEW a, EndTurn(a) PROVE Goes
<1> DEFINE last == world.active = Len(world.initiative)
           turn == IF last THEN 1 ELSE world.active + 1
           round == IF last THEN world.round + 1 ELSE world.round
           attack == [world.attack EXCEPT ![a] = NoAttack]
           w1(kept) == [world EXCEPT !.effects = kept]
           w2(kept) == [w1(kept) EXCEPT !.started = FALSE]
           w3(kept) == [w2(kept) EXCEPT !.attack = attack]
           w4(kept) == [w3(kept) EXCEPT !.active = turn]
           w5(kept) == [w4(kept) EXCEPT !.round = round]
<1>1. \E kept \in SUBSET world.effects : Committed(w5(kept), {}, {})
  BY Zenon DEF EndTurn
<1>2. PICK kept \in SUBSET world.effects : Committed(w5(kept), {}, {})
  BY <1>1
<1>3. /\ a \in Actor /\ world.pending = NoResolution /\ InEncounter(world)
      /\ CurrentActor(world) = a /\ world.started
      /\ world \in World /\ Placed(world) /\ Blocked(world) /\ Apart(world)
  BY DEF EndTurn, MayAct, TInv, World
<1>4. /\ world.initiative \in Seq(Actor) /\ world.active \in DOMAIN world.initiative
      /\ world.round \in Nat
  BY <1>3 DEF World, Placed
<1>5. /\ turn \in DOMAIN world.initiative /\ turn \in Nat /\ round \in Nat
      /\ turn = (world.active % Len(world.initiative)) + 1
  <2> DEFINE n == Len(world.initiative)
             k == world.active
  <2>1. DOMAIN world.initiative = 1 .. n /\ n \in Nat /\ k \in 1 .. n
    BY <1>4
  <2>2. turn = IF k = n THEN 1 ELSE k + 1
    OBVIOUS
  <2> HIDE DEF n, k, turn, last
  <2>3. k % n = IF k = n THEN 0 ELSE k
    BY <2>1, Wraps
  <2>4. turn \in 1 .. n /\ turn = (k % n) + 1
    BY <2>1, <2>2, <2>3
  <2>5. round \in Nat
    BY <1>4
  <2>6. QED
    BY <2>1, <2>4, <2>5 DEF n, k
<1>6. kept \in SUBSET Effect
  BY <1>3 DEF World
<1>7. /\ attack \in [Actor -> AttackState]
      /\ \A b \in Actor : attack[b] = IF b = a THEN NoAttack ELSE world.attack[b]
  BY <1>3, AttackTyped, AttackStateFields
<1> HIDE DEF turn, round, attack, w1, w2, w3, w4, w5
<1>8. Steady(world, w1(kept))
  BY <1>3, <1>6, FieldSteady DEF w1
<1>9. /\ w2(kept) \in World /\ ~w2(kept).started /\ w2(kept).mode = world.mode
      /\ w2(kept).initiative = world.initiative
      /\ w2(kept).attack = world.attack /\ w2(kept).pending = NoResolution /\ Apart(w2(kept))
  <2>1. /\ Beside(w1(kept), w2(kept)) /\ ~w2(kept).started
        /\ w2(kept).mode = w1(kept).mode /\ w2(kept).initiative = w1(kept).initiative
    BY <1>8, StartedField DEF Steady, w2
  <2>2. QED
    BY <1>3, <1>8, <2>1 DEF Steady, Scene, Stage, Beside, Apart
<1>10. /\ w3(kept) \in World /\ Stage(w2(kept), w3(kept)) /\ w3(kept).attack = attack
       /\ w3(kept).pending = NoResolution
  BY <1>7, <1>9, AttackFields DEF w3
<1>11. /\ Beside(w3(kept), w4(kept)) /\ w4(kept).active = turn /\ ~w4(kept).started
       /\ w4(kept).mode = world.mode /\ w4(kept).initiative = world.initiative
  BY <1>5, <1>9, <1>10, ActiveField DEF w4, Stage
<1> DEFINE v == w5(kept)
<1>12. /\ Beside(w4(kept), v) /\ v.active = turn /\ ~v.started
       /\ v.mode = world.mode /\ v.initiative = world.initiative
  BY <1>5, <1>11, RoundField DEF w5, Beside
<1> HIDE DEF v
<1>13. /\ v \in World /\ v.attack = attack /\ v.pending = NoResolution /\ Apart(v)
  BY <1>9, <1>10, <1>11, <1>12 DEF Beside, Stage, Apart
<1>14. Placed(v)
  BY <1>3, <1>5, <1>12 DEF Placed
<1>15. Blocked(v)
  BY <1>3, <1>7, <1>13, AttackStateFields DEF Blocked
<1>16. TInv' /\ Course(v, world') /\ Fell(v, world', {})
  BY <1>2, <1>13, <1>14, <1>15, CommittedScene DEF v
<1>17. CurrentActor(world') = NextActor(world) /\ ~world'.started
  BY <1>5, <1>12, <1>16 DEF Course, Fell, CurrentActor, NextActor
<1>18. ~world'.attack[a].open
  BY <1>3, <1>7, <1>13, <1>16, AttackStateFields DEF Course, Beside
<1>19. QED
  BY <1>3, <1>16, <1>17, <1>18 DEF Goes, Turns, Lasts

-----------------------------------------------------------------------------
(* Attacks. *)

LEMMA TInvFacts ==
    ASSUME TInv
    PROVE  /\ world \in World /\ Blocked(world) /\ Placed(world)
           /\ world.living \subseteq Actor /\ Scene(world, world) /\ Steady(world, world)
  BY FieldSteady DEF TInv, World, Steady

\* The world as it is, for a command of `a' while nothing is pending.
LEMMA MayActTyped ==
    ASSUME TInv, NEW a, MayAct(world, a)
    PROVE  /\ a \in Actor /\ world.pending = NoResolution /\ Acting(world, a, FALSE)
           /\ world.attack[a].open => Acting(world, a, TRUE)
  BY TInvFacts, IdleActing DEF MayAct

LEMMA MayAttackTyped ==
    ASSUME TInv, NEW a, MayAttack(world, a)
    PROVE  /\ a \in Actor /\ world.pending = NoResolution
           /\ Acting(world, a, TRUE) /\ world.attack[a].left > 0 /\ world.attack[a].open
  BY MayActTyped DEF MayAttack, Usable

\* What an action that is under way in `w' commits.
LEMMA ActingCommitted ==
    ASSUME TInv, UnderWay(world), NEW w \in World, Scene(world, w), NEW a, Acting(w, a, FALSE),
           NEW died, NEW damaged, NEW fallen \in Falling(world, damaged),
           Committed(w, died, fallen)
    PROVE  Goes
  BY ActingBlocked, CommittedTyped

LEMMA BeginAttackActionT == ASSUME TInv, UnderWay(world), NEW a, BeginAttackAction(a) PROVE Goes
<1>1. /\ MayAct(world, a) /\ Attacks[a] > 0 /\ ~world.attack[a].open
      /\ Committed(AttackActionStarted(world, a), {}, {})
  BY DEF BeginAttackAction, MayBeginAttackAction
<1>2. a \in Actor /\ Acting(world, a, FALSE) /\ world \in World
  BY <1>1, MayActTyped, TInvFacts
<1> DEFINE v == AttackActionStarted(world, a)
<1>3. v \in World /\ Spent(world, v) /\ Acting(v, a, FALSE)
  BY <1>1, <1>2, StartedActing DEF Spent
<1> HIDE DEF v
<1>4. Committed(v, {}, {})
  BY <1>1 DEF v
<1>5. QED
  BY <1>3, <1>4, ActingBlocked, CommittedSpent, NoneFalls

LEMMA ForfeitAttackActionT == ASSUME TInv, UnderWay(world), NEW a, ForfeitAttackAction(a) PROVE Goes
<1> DEFINE v == [world EXCEPT !.attack[a] = NoAttack]
<1>1. MayAttack(world, a) /\ Committed(v, {}, {})
  BY DEF ForfeitAttackAction
<1>2. a \in Actor /\ world \in World /\ Acting(world, a, TRUE)
  BY <1>1, MayAttackTyped, TInvFacts
<1>3. NoAttack \in AttackState /\ ~NoAttack.open /\ ~NoAttack.blocked
  <2>1. world.attack[a] \in AttackState
    BY <1>2, AttackTyped
  <2>2. QED
    BY <2>1, AttackStateFields
<1>4. /\ v \in World /\ Scene(world, v) /\ v.pending = world.pending
      /\ \A b \in Actor : v.attack[b] = IF b = a THEN NoAttack ELSE world.attack[b]
  BY <1>2, <1>3, AttackWritten DEF Lesser
<1> HIDE DEF v
<1>5. Acting(v, a, FALSE)
  BY <1>2, <1>3, <1>4 DEF Acting
<1>6. QED
  BY <1>1, <1>4, <1>5, ActingCommitted, NoneFalls

LEMMA AttackExecutedActing ==
    ASSUME NEW before \in World, NEW w \in World, NEW a \in Actor,
           NEW t \in Actor,
           NEW spell \in Execution, NEW id \in Nat, NEW o, NEW inAction, Acting(w, a, inAction)
    PROVE  LET v == AttackExecuted(before, w, a, t, spell, id, o)
           IN v \in World /\ Scene(w, v) /\ Acting(v, a, inAction)
<1> DEFINE touched == {a} \cup (IF o.touched THEN {t} ELSE {})
           gained == IF o.hit THEN Gained(t, spell, id) ELSE {}
           cid == IF spell.concentration THEN id ELSE 0
           after == ActionState(w, a, touched, gained, cid)
           q1 == QueuedMasterySave(a, t, o.mastery)
           q2 == ConcentrationFollowUp(before, t, o.damage)
           q3 == ConcentrationFollowUp(before, a, o.retaliation)
           queue == q1 \o q2 \o q3
           v == FollowUpOpened(before, after, queue, {})
<1>1. AttackExecuted(before, w, a, t, spell, id, o) = v
  BY Zenon DEF AttackExecuted
<1>2. gained \in SUBSET Effect /\ cid \in Nat
  BY GainedTyped
<1> HIDE DEF touched, gained, cid
<1>3. Steady(w, after)
  BY <1>2, ActionStateSteady
<1> HIDE DEF after
<1>4. q1 \in Seq(FollowUp) /\ q2 \in Seq(FollowUp) /\ q3 \in Seq(FollowUp)
  BY FollowUpTyped
<1> HIDE DEF q1, q2, q3
<1>5. queue \in Seq(FollowUp)
  BY <1>4
<1> HIDE DEF queue
<1>6. after \in World /\ Scene(w, after) /\ Acting(after, a, inAction)
  BY <1>3, SteadyBlocked DEF Steady
<1>7. v \in World /\ Scene(after, v) /\ Acting(v, a, inAction)
  BY <1>5, <1>6, FollowUpActing
<1> HIDE DEF v
<1>8. QED
  BY <1>1, <1>6, <1>7, SceneTwice

LEMMA AttackRolledT ==
    ASSUME TInv, UnderWay(world), NEW w \in World, Scene(world, w), NEW a \in Actor,
           NEW t \in Actor,
           NEW spell \in Execution, NEW id \in Nat, NEW inAction \in BOOLEAN,
           Acting(w, a, inAction), NEW suspended,
           AttackRolled(w, a, t, spell, id, inAction, suspended)
    PROVE  Goes
<1> DEFINE q == Ask("attack_reaction", t, a, t)
           r == [q EXCEPT !.spell = spell]
           p == [r EXCEPT !.id = id]
           asks == Waits([w EXCEPT !.pending = p], a, inAction)
           exec(o) == AttackExecuted(world, w, a, t, spell, id, o)
           done(o) == Done(exec(o), a, inAction)
<1>1. Waits(AttackReactionOpened(w, a, t, spell, id), a, inAction) = asks
  BY Zenon DEF AttackReactionOpened
<1>2. asks \in World /\ Scene(w, asks) /\ Blocked(asks)
  <2>1. Opens(q, "attack_reaction", a)
    BY AskTyped DEF ResolutionType
  <2> HIDE DEF q
  <2>2. Opens(r, "attack_reaction", a)
    BY <2>1, ResolutionFields
  <2> HIDE DEF r
  <2>3. Opens(p, "attack_reaction", a)
    BY <2>2, ResolutionFields
  <2> HIDE DEF p
  <2>4. "attack_reaction" \in Chain \ Strikes
    BY DEF Chain, Strikes
  <2>5. QED
    BY <2>3, <2>4, OpenedBlocked
<1>3. ASSUME NEW o PROVE done(o) \in World /\ Scene(w, done(o)) /\ Acting(done(o), a, FALSE)
  <2>1. exec(o) \in World /\ Scene(w, exec(o)) /\ Acting(exec(o), a, inAction)
    BY AttackExecutedActing, TInvFacts
  <2> HIDE DEF exec
  <2>2. done(o) \in World /\ Scene(exec(o), done(o)) /\ Acting(done(o), a, FALSE)
    BY <2>1, DoneActing
  <2> HIDE DEF done
  <2>3. QED
    BY <2>1, <2>2, SceneTwice
<1>4. \/ Committed(asks, {}, {})
      \/ \E o : \E fallen \in Falling(world, Damaged(a, t, o)) : Committed(done(o), {}, fallen)
  <2> HIDE DEF asks, done
  <2>1. QED
    BY <1>1, Zenon DEF AttackRolled, done, exec
<1> HIDE DEF asks, done
<1>5. CASE Committed(asks, {}, {})
  BY <1>2, <1>5, SceneTwice, CommittedTyped, NoneFalls
<1>6. ASSUME NEW o, NEW fallen \in Falling(world, Damaged(a, t, o)),
             Committed(done(o), {}, fallen)
      PROVE  Goes
  BY <1>3, <1>6, SceneTwice, ActingCommitted
<1>7. QED
  BY <1>4, <1>5, <1>6

LEMMA ProtectionOpenedBlocked ==
    ASSUME NEW w \in World, NEW a \in Actor, NEW t \in Actor, NEW spell \in Execution,
           NEW id \in Nat, NEW inAction \in BOOLEAN, Acting(w, a, inAction),
           NEW queue \in Seq(Actor), queue # << >>
    PROVE  LET v == ProtectionOpened(w, a, t, spell, id, inAction, queue)
           IN v \in World /\ Scene(w, v) /\ Blocked(v)
<1> DEFINE first == Head(queue)
           rest == Tail(queue)
           q == Ask("protection_reaction", first, a, t)
           q1 == [q EXCEPT !.spell = spell]
           q2 == [q1 EXCEPT !.id = id]
           p == [q2 EXCEPT !.rest = rest]
<1>1. ProtectionOpened(w, a, t, spell, id, inAction, queue)
        = Waits([w EXCEPT !.pending = p], a, inAction)
  BY Zenon DEF ProtectionOpened
<1>2. first \in Actor /\ rest \in Seq(Actor)
  OBVIOUS
<1> HIDE DEF first, rest
<1> DEFINE type == "protection_reaction"
<1>3. type \in Chain \ Strikes
  BY DEF Chain, Strikes
<1>4. Opens(q, type, a)
  BY <1>2, AskTyped DEF ResolutionType
<1> HIDE DEF q, type
<1>5. Opens(q1, type, a)
  BY <1>4, ResolutionFields
<1> HIDE DEF q1
<1>6. Opens(q2, type, a)
  BY <1>5, ResolutionFields
<1> HIDE DEF q2
<1>7. Opens(p, type, a)
  BY <1>2, <1>6, ResolutionFields
<1> HIDE DEF p
<1>8. QED
  BY <1>1, <1>3, <1>7, OpenedBlocked

LEMMA QueuedActors ==
    ASSUME NEW S \in SUBSET Actor
    PROVE  SetToSeq(S) \in Seq(Actor)
<1>1. IsFiniteSet(S)
  BY RulesAssumption, FS_Subset
<1> DEFINE n == Cardinality(S)
<1>2. n \in Nat /\ \E f : f \in Bijection(1 .. n, S)
  BY <1>1, FS_CardinalityType DEF ExistsBijection
<1> HIDE DEF n
<1>3. \E f : f \in [1 .. n -> S] /\ IsInjective(f)
  BY <1>2 DEF Bijection, Injection, IsInjective
<1>4. SetToSeq(S) \in [1 .. n -> S]
  BY <1>3 DEF SetToSeq, n
<1>5. QED
  BY <1>2, <1>4

LEMMA AttackDeclaredT ==
    ASSUME TInv, UnderWay(world), NEW w \in World, Scene(world, w), NEW a \in Actor,
           NEW t \in Actor,
           NEW spell \in Execution, NEW id \in Nat, NEW inAction \in BOOLEAN,
           Acting(w, a, inAction), AttackDeclared(w, a, t, spell, id, inAction)
    PROVE  Goes
<1>1. PICK queue \in ProtectionQueues(world, t) :
         IF queue = << >> THEN AttackRolled(w, a, t, spell, id, inAction, FALSE)
         ELSE Committed(ProtectionOpened(w, a, t, spell, id, inAction, queue), {}, {})
  BY DEF AttackDeclared
<1>2. queue \in Seq(Actor)
  <2>1. PICK near \in SUBSET {p \in Protectors \ {t} : MayReact(world, p)} : queue = SetToSeq(near)
    BY DEF ProtectionQueues
  <2>2. near \in SUBSET Actor
    BY RulesAssumption
  <2>3. QED
    BY <2>1, <2>2, QueuedActors
<1>3. CASE queue = << >>
  BY <1>1, <1>3, AttackRolledT
<1>4. CASE queue # << >>
  <2> DEFINE v == ProtectionOpened(w, a, t, spell, id, inAction, queue)
  <2>1. v \in World /\ Scene(w, v) /\ Blocked(v)
    BY <1>2, <1>4, ProtectionOpenedBlocked
  <2>2. Committed(v, {}, {})
    BY <1>1, <1>4
  <2> HIDE DEF v
  <2>3. QED
    BY <2>1, <2>2, SceneTwice, CommittedTyped, NoneFalls
<1>5. QED
  BY <1>3, <1>4

LEMMA PerformWeaponAttackT ==
    ASSUME TInv, UnderWay(world), NEW a, NEW t \in Actor, PerformWeaponAttack(a, t) PROVE Goes
<1> DEFINE w == AttackEntryCommitted(world, a)
<1>1. MayAttack(world, a) /\ AttackDeclared(w, a, t, WeaponAttack, 0, TRUE)
  BY DEF PerformWeaponAttack
<1>2. a \in Actor /\ Acting(world, a, TRUE) /\ world.attack[a].left > 0 /\ world \in World
  BY <1>1, MayAttackTyped, TInvFacts
<1>3. w \in World /\ Scene(world, w) /\ Acting(w, a, TRUE)
  BY <1>2, EntryActing
<1> HIDE DEF w
<1>4. QED
  BY <1>1, <1>2, <1>3, WeaponAttackTyped, AttackDeclaredT

\* A decision that is answered: the world without it.
LEMMA ClosedTyped ==
    ASSUME TInv, world.pending # NoResolution
    PROVE  LET p == world.pending
               v == ResolutionClosed(world)
           IN /\ p \in Resolution /\ v \in World /\ Scene(world, v)
              /\ v.attack = world.attack /\ v.pending = NoResolution
              /\ Acting(v, p.source, p.attack)
              /\ p.type \notin Chain => Acting(v, p.source, FALSE)
<1>1. world \in World /\ Blocked(world)
  BY TInvFacts
<1>2. world.pending \in Resolution
  BY <1>1 DEF World
<1>3. QED
  BY <1>1, <1>2, ClosedActing

LEMMA ResolvePendingProtectionT == ASSUME TInv, UnderWay(world), ResolvePendingProtection PROVE Goes
<1> DEFINE p == world.pending
           closed == ResolutionClosed(world)
<1>1. /\ p \in Resolution /\ closed \in World /\ Scene(world, closed)
      /\ Acting(closed, p.source, p.attack)
  BY ClosedTyped DEF ResolvePendingProtection, MayDecide
<1>2. PICK w : /\ w \in {closed, Reacts(closed, p.decider)}
               /\ \/ /\ p.rest # << >>
                     /\ Committed(ProtectionOpened(w, p.source, p.target, p.spell, p.id,
                                                   p.attack, p.rest), {}, {})
                  \/ AttackRolled(w, p.source, p.target, p.spell, p.id, p.attack, TRUE)
  BY Zenon DEF ResolvePendingProtection
<1> HIDE DEF p, closed
<1>3. w \in World /\ Scene(world, w) /\ Acting(w, p.source, p.attack)
  <2>1. Steady(closed, w)
    BY <1>1, <1>2, FieldSteady, PaysSteady
  <2>2. QED
    BY <1>1, <2>1, SteadyBlocked, SceneTwice DEF Steady
<1>4. /\ p.source \in Actor /\ p.target \in Actor /\ p.spell \in Execution /\ p.id \in Nat
      /\ p.attack \in BOOLEAN /\ p.rest \in Seq(Actor)
  BY <1>1, DecisionTyped
<1>5. CASE AttackRolled(w, p.source, p.target, p.spell, p.id, p.attack, TRUE)
  BY <1>3, <1>4, <1>5, AttackRolledT
<1>6. CASE /\ p.rest # << >>
           /\ Committed(ProtectionOpened(w, p.source, p.target, p.spell, p.id,
                                         p.attack, p.rest), {}, {})
  <2> DEFINE v == ProtectionOpened(w, p.source, p.target, p.spell, p.id, p.attack, p.rest)
  <2>1. v \in World /\ Scene(w, v) /\ Blocked(v)
    BY <1>3, <1>4, <1>6, ProtectionOpenedBlocked
  <2>2. Committed(v, {}, {})
    BY <1>6
  <2> HIDE DEF v
  <2>3. QED
    BY <1>3, <2>1, <2>2, SceneTwice, CommittedTyped, NoneFalls
<1>7. QED
  BY <1>2, <1>5, <1>6

LEMMA ResolvePendingAttackT == ASSUME TInv, UnderWay(world), ResolvePendingAttack PROVE Goes
<1> DEFINE p == world.pending
           closed == ResolutionClosed(world)
<1>1. /\ p \in Resolution /\ closed \in World /\ Scene(world, closed)
      /\ Acting(closed, p.source, p.attack)
  BY ClosedTyped DEF ResolvePendingAttack, MayDecide
<1>2. PICK w, o : /\ w = closed \/ w = Reacts(closed, p.target)
                  /\ \E fallen \in Falling(world, Damaged(p.source, p.target, o)) :
                        Committed(AttackExecuted(world, Done(w, p.source, p.attack), p.source,
                                                 p.target, p.spell, p.id, o), {}, fallen)
  BY Zenon DEF ResolvePendingAttack
<1> HIDE DEF p, closed
<1>3. w \in World /\ Scene(world, w) /\ Acting(w, p.source, p.attack)
  <2>1. Steady(closed, w)
    BY <1>1, <1>2, FieldSteady, PaysSteady
  <2>2. QED
    BY <1>1, <2>1, SteadyBlocked, SceneTwice DEF Steady
<1>4. /\ p.source \in Actor /\ p.target \in Actor /\ p.spell \in Execution /\ p.id \in Nat
      /\ p.attack \in BOOLEAN
  BY <1>1, DecisionTyped
<1> DEFINE u == Done(w, p.source, p.attack)
           v == AttackExecuted(world, u, p.source, p.target, p.spell, p.id, o)
<1>5. u \in World /\ Scene(w, u) /\ Acting(u, p.source, FALSE)
  BY <1>3, <1>4, DoneActing
<1> HIDE DEF u
<1>6. v \in World /\ Scene(u, v) /\ Acting(v, p.source, FALSE)
  BY <1>4, <1>5, AttackExecutedActing, TInvFacts
<1>7. Scene(world, v)
  BY <1>3, <1>5, <1>6, SceneTwice
<1>8. PICK fallen \in Falling(world, Damaged(p.source, p.target, o)) : Committed(v, {}, fallen)
  BY <1>2 DEF u
<1> HIDE DEF v
<1>9. QED
  BY <1>6, <1>7, <1>8, ActingCommitted

-----------------------------------------------------------------------------
(* Spells. *)

\* A saving throw chain ends: its follow-ups are asked.
LEMMA FollowedTyped ==
    ASSUME TInv, UnderWay(world), NEW after \in World, Scene(world, after), NEW a,
           Acting(after, a, FALSE),
           NEW queue \in Seq(FollowUp), NEW invalid,
           NEW died, NEW damaged, NEW fallen \in Falling(world, damaged),
           Committed(FollowUpOpened(world, after, queue, invalid), died, fallen)
    PROVE  Goes
<1> DEFINE v == FollowUpOpened(world, after, queue, invalid)
<1>1. v \in World /\ Scene(after, v) /\ Acting(v, a, FALSE)
  BY FollowUpActing
<1> HIDE DEF v
<1>2. Committed(v, died, fallen)
  BY DEF v
<1>3. QED
  BY <1>1, <1>2, SceneTwice, ActingCommitted

LEMMA DartsStrikeT ==
    ASSUME TInv, UnderWay(world), NEW w \in World, Scene(world, w), NEW a, Acting(w, a, FALSE),
           NEW darts \in Seq(Actor), DartsStrike(w, a, darts)
    PROVE  Goes
<1> DEFINE queues(damaged) == [i \in DOMAIN darts |->
                                 ConcentrationFollowUp(world, darts[i], darts[i] \in damaged)]
           after(touched) == ActionState(w, a, {a} \cup touched, {}, 0)
<1>1. PICK damaged, touched : \E fallen \in Falling(world, damaged) :
         Committed(FollowUpOpened(world, after(touched), FlattenSeq(queues(damaged)), {}),
                   {}, fallen)
  BY Zenon DEF DartsStrike
<1>2. FlattenSeq(queues(damaged)) \in Seq(FollowUp)
  <2> DEFINE n == Len(darts)
  <2>1. n \in Nat /\ DOMAIN darts = 1 .. n /\ \A i \in 1 .. n : darts[i] \in Actor
    OBVIOUS
  <2>2. queues(damaged) \in [1 .. n -> Seq(FollowUp)]
    <3>1. \A i \in 1 .. n :
             ConcentrationFollowUp(world, darts[i], darts[i] \in damaged) \in Seq(FollowUp)
      BY <2>1, TInvFacts, FollowUpTyped
    <3> HIDE DEF n
    <3>2. QED
      BY <2>1, <3>1
  <2> HIDE DEF n, queues
  <2>3. QED
    BY <2>1, <2>2, FlattenType
<1>3. Steady(w, after(touched))
  <2> DEFINE none == {}
             zero == 0
  <2>1. none \in SUBSET Effect /\ zero \in Nat
    OBVIOUS
  <2> HIDE DEF none, zero
  <2>2. Steady(w, ActionState(w, a, {a} \cup touched, none, zero))
    BY <2>1, ActionStateSteady
  <2>3. QED
    BY <2>2 DEF none, zero
<1> HIDE DEF queues, after
<1>4. after(touched) \in World /\ Scene(world, after(touched)) /\ Acting(after(touched), a, FALSE)
  BY <1>3, SteadyBlocked, SceneTwice DEF Steady
<1>5. QED
  BY <1>1, <1>2, <1>4, FollowedTyped

LEMMA MagicMissileOpenedT ==
    ASSUME TInv, UnderWay(world), NEW w \in World, Scene(world, w), NEW a \in Actor,
           Acting(w, a, FALSE),
           NEW spell \in Execution, NEW darts \in Seq(Actor), NEW queue \in Seq(Actor),
           queue # << >>, Committed(MagicMissileOpened(w, a, spell, darts, queue), {}, {})
    PROVE  Goes
<1> DEFINE type == "magic_missile_reaction"
           first == Head(queue)
           rest == Tail(queue)
           q == Ask(type, first, a, first)
           q1 == [q EXCEPT !.spell = spell]
           q2 == [q1 EXCEPT !.darts = darts]
           p == [q2 EXCEPT !.rest = rest]
           v == Waits([w EXCEPT !.pending = p], a, FALSE)
<1>1. MagicMissileOpened(w, a, spell, darts, queue) = v
  BY Zenon DEF MagicMissileOpened, Waits
<1>2. first \in Actor /\ rest \in Seq(Actor)
  OBVIOUS
<1> HIDE DEF first, rest
<1>3. Opens(q, type, a) /\ type \notin Strikes
  BY <1>2, AskTyped DEF ResolutionType, Strikes
<1> HIDE DEF q, type
<1>4. Opens(q1, type, a)
  BY <1>3, ResolutionFields
<1> HIDE DEF q1
<1>5. Opens(q2, type, a)
  BY <1>4, ResolutionFields
<1> HIDE DEF q2
<1>6. Opens(p, type, a)
  BY <1>2, <1>5, ResolutionFields
<1> HIDE DEF p
<1>7. v \in World /\ Scene(w, v) /\ Blocked(v)
  BY <1>3, <1>6, OpenedBlocked
<1> HIDE DEF v
<1>8. QED
  BY <1>1, <1>7, SceneTwice, CommittedTyped, NoneFalls

LEMMA MagicMissileT ==
    ASSUME TInv, UnderWay(world), NEW w \in World, Scene(world, w), NEW a \in Actor,
           Acting(w, a, FALSE),
           NEW spell \in Execution, NEW targets \in Seq(Actor), MagicMissile(w, a, spell, targets)
    PROVE  Goes
<1> DEFINE darts(immune) == Filtered(targets, Actor \ immune)
           queue(immune) == Filtered(darts(immune), {x \in Blockers : MayReact(world, x)})
<1>1. PICK immune :
         IF queue(immune) = << >> THEN DartsStrike(w, a, darts(immune))
         ELSE Committed(MagicMissileOpened(w, a, spell, darts(immune), queue(immune)), {}, {})
  BY Zenon DEF MagicMissile
<1>2. darts(immune) \in Seq(Actor)
  BY FilteredType
<1> HIDE DEF darts
<1>3. queue(immune) \in Seq(Actor)
  BY <1>2, FilteredType
<1> HIDE DEF queue
<1>4. QED
  BY <1>1, <1>2, <1>3, DartsStrikeT, MagicMissileOpenedT

LEMMA ResolveMagicMissileReactionT ==
    ASSUME TInv, UnderWay(world), ResolveMagicMissileReaction PROVE Goes
<1> DEFINE p == world.pending
           closed == ResolutionClosed(world)
<1>1. /\ p \in Resolution /\ closed \in World /\ Scene(world, closed)
      /\ Acting(closed, p.source, FALSE)
  BY ClosedTyped DEF ResolveMagicMissileReaction, MayDecide, Chain
<1>2. PICK w, darts :
         /\ w = closed \/ w = Reacts(closed, p.decider)
         /\ darts = SeqWithout(p.darts, p.decider) \/ darts = p.darts
         /\ IF p.rest = << >> THEN DartsStrike(w, p.source, darts)
            ELSE Committed(MagicMissileOpened(w, p.source, p.spell, darts, p.rest), {}, {})
  BY Zenon DEF ResolveMagicMissileReaction
<1> HIDE DEF p, closed
<1>3. w \in World /\ Scene(world, w) /\ Acting(w, p.source, FALSE)
  <2>1. Steady(closed, w)
    BY <1>1, <1>2, FieldSteady, PaysSteady
  <2>2. QED
    BY <1>1, <2>1, SteadyBlocked, SceneTwice DEF Steady
<1>4. /\ p.source \in Actor /\ p.spell \in Execution
      /\ p.rest \in Seq(Actor) /\ p.darts \in Seq(Actor)
  BY <1>1, DecisionTyped
<1>5. darts \in Seq(Actor)
  BY <1>2, <1>4, FilteredType DEF SeqWithout
<1>6. QED
  BY <1>2, <1>3, <1>4, <1>5, DartsStrikeT, MagicMissileOpenedT

LEMMA TargetSaveOpenedBlocked ==
    ASSUME NEW w \in World, NEW a \in Actor, NEW inAction \in BOOLEAN, Acting(w, a, inAction),
           NEW targets \in Seq(Actor), targets # << >>, NEW spell \in Execution, NEW id \in Nat,
           NEW followUps \in Seq(FollowUp)
    PROVE  LET v == Waits(TargetSaveOpened(w, a, targets, spell, id, followUps), a, inAction)
           IN v \in World /\ Scene(w, v) /\ Blocked(v)
<1> DEFINE type == "target_save"
           first == Head(targets)
           rest == Tail(targets)
           q == Ask(type, first, a, first)
           q1 == [q EXCEPT !.spell = spell]
           q2 == [q1 EXCEPT !.id = id]
           q3 == [q2 EXCEPT !.rest = rest]
           p == [q3 EXCEPT !.followUps = followUps]
<1>1. TargetSaveOpened(w, a, targets, spell, id, followUps) = [w EXCEPT !.pending = p]
  BY Zenon DEF TargetSaveOpened
<1>2. first \in Actor /\ rest \in Seq(Actor)
  OBVIOUS
<1> HIDE DEF first, rest
<1>3. Opens(q, type, a) /\ type \in Chain \ Strikes
  BY <1>2, AskTyped DEF ResolutionType, Chain, Strikes
<1> HIDE DEF q, type
<1>4. Opens(q1, type, a)
  BY <1>3, ResolutionFields
<1> HIDE DEF q1
<1>5. Opens(q2, type, a)
  BY <1>4, ResolutionFields
<1> HIDE DEF q2
<1>6. Opens(q3, type, a)
  BY <1>2, <1>5, ResolutionFields
<1> HIDE DEF q3
<1>7. Opens(p, type, a)
  BY <1>6, ResolutionFields
<1> HIDE DEF p
<1>8. QED
  BY <1>1, <1>3, <1>7, OpenedBlocked

LEMMA UseActionT ==
    ASSUME IInv, TInv, UnderWay(world), NEW a, NEW spell \in Spells[a], NEW targets \in Targets,
           UseAction(a, spell, targets)
    PROVE  Goes
<1> DEFINE w == Pays(world, a)
           id == FreshId(world)
           t == Head(targets)
           cid == IF spell.concentration THEN id ELSE 0
<1>1. MayAct(world, a)
  BY DEF UseAction
<1>2. a \in Actor /\ world.pending = NoResolution /\ Acting(world, a, FALSE) /\ world \in World
  BY <1>1, MayActTyped, TInvFacts
<1>3. spell \in Execution /\ spell.resolution \in {"attack", "save", "darts", "none"}
  BY <1>2, RulesAssumption DEF Execution
<1>4. targets \in Seq(Actor) /\ targets # << >> /\ t \in Actor
  BY RulesAssumption
<1>5. id \in Nat
  BY <1>2, InvFacts, FreshIdFresh DEF Fresh
<1>6. \/ MagicMissile(w, a, spell, targets)
      \/ Committed(TargetSaveOpened(w, a, targets, spell, id, << >>), {}, {})
      \/ AttackDeclared(w, a, t, spell, id, FALSE)
      \/ \E touched : Committed(ActionState(w, a, touched, Gained(t, spell, id), cid), {}, {})
  <2>1. CASE spell.resolution = "darts"
    BY <2>1 DEF UseAction
  <2>2. CASE spell.resolution = "save"
    BY <2>2 DEF UseAction
  <2>3. CASE spell.resolution = "attack"
    BY <2>3 DEF UseAction
  <2>4. CASE spell.resolution = "none"
    BY <2>4 DEF UseAction
  <2>5. QED
    BY <1>3, <2>1, <2>2, <2>3, <2>4
<1>7. Steady(world, w)
  BY <1>2, PaysSteady
<1> HIDE DEF w, id, t
<1>8. w \in World /\ Scene(world, w) /\ Acting(w, a, FALSE)
  BY <1>2, <1>7, SteadyBlocked DEF Steady
<1>9. CASE Committed(TargetSaveOpened(w, a, targets, spell, id, << >>), {}, {})
  <2> DEFINE none == << >>
             v == Waits(TargetSaveOpened(w, a, targets, spell, id, none), a, FALSE)
  <2>1. none \in Seq(FollowUp)
    OBVIOUS
  <2>2. Committed(v, {}, {})
    BY <1>9 DEF Waits
  <2> HIDE DEF none
  <2>3. v \in World /\ Scene(w, v) /\ Blocked(v)
    BY <1>2, <1>3, <1>4, <1>5, <1>8, <2>1, TargetSaveOpenedBlocked
  <2> HIDE DEF v
  <2>4. QED
    BY <1>8, <2>2, <2>3, SceneTwice, CommittedTyped, NoneFalls
<1>10. ASSUME NEW touched, Committed(ActionState(w, a, touched, Gained(t, spell, id), cid), {}, {})
       PROVE  Goes
  <2> DEFINE v == ActionState(w, a, touched, Gained(t, spell, id), cid)
  <2>1. cid \in Nat /\ Gained(t, spell, id) \in SUBSET Effect
    BY <1>4, <1>5, GainedTyped
  <2> HIDE DEF cid
  <2>2. Steady(w, v)
    BY <1>8, <2>1, ActionStateSteady
  <2>3. Committed(v, {}, {})
    BY <1>10
  <2> HIDE DEF v
  <2>4. v \in World /\ Scene(world, v) /\ Acting(v, a, FALSE)
    BY <1>8, <2>2, SteadyBlocked, SceneTwice DEF Steady
  <2>5. QED
    BY <2>3, <2>4, ActingCommitted, NoneFalls
<1>11. QED
  BY <1>2, <1>3, <1>4, <1>5, <1>6, <1>8, <1>9, <1>10, MagicMissileT, AttackDeclaredT

LEMMA UseAttackReplacementT ==
    ASSUME TInv, UnderWay(world), NEW a, NEW action \in Replacements[a], NEW targets \in Targets,
           UseAttackReplacement(a, action, targets)
    PROVE  Goes
<1> DEFINE w == IF world.attack[a].open THEN world ELSE AttackActionStarted(world, a)
           x == [w.attack[a] EXCEPT !.replaced = TRUE]
           u == [w EXCEPT !.attack[a] = x]
           v == AttackEntryCommitted(u, a)
           none == << >>
           z == Waits(TargetSaveOpened(v, a, targets, action, 0, none), a, TRUE)
<1>1. Committed(z, {}, {})
  BY DEF UseAttackReplacement
<1>2. MayBeginAttackAction(world, a) \/ MayAttack(world, a)
  BY DEF UseAttackReplacement
<1>3. a \in Actor /\ world \in World /\ world.pending = NoResolution
  BY <1>2, MayActTyped, MayAttackTyped, TInvFacts DEF MayBeginAttackAction
<1>4. w \in World /\ Spent(world, w) /\ Acting(w, a, TRUE) /\ w.attack[a].left > 0
  <2>1. CASE world.attack[a].open
    BY <1>2, <1>3, <2>1, MayAttackTyped, TInvFacts DEF MayBeginAttackAction, Scene, Spent
  <2>2. CASE ~world.attack[a].open
    <3>1. MayBeginAttackAction(world, a)
      BY <1>2, <2>2, MayAttackTyped
    <3>2. Attacks[a] > 0 /\ Acting(world, a, FALSE)
      BY <3>1, MayActTyped DEF MayBeginAttackAction
    <3>3. QED
      BY <1>3, <2>2, <3>2, StartedActing DEF Spent
  <2>3. QED
    BY <2>1, <2>2
<1>5. action \in Execution /\ targets \in Seq(Actor) /\ targets # << >>
  BY <1>3, RulesAssumption
<1> HIDE DEF w
<1>6. w.attack[a] \in AttackState
  BY <1>3, <1>4, AttackTyped
<1>7. /\ x \in AttackState /\ x.open = w.attack[a].open /\ x.left = w.attack[a].left
      /\ x.key = w.attack[a].key
  BY <1>6, AttackStateFields
<1> HIDE DEF x
<1>8. /\ u \in World /\ Scene(w, u) /\ u.pending = w.pending
      /\ \A b \in Actor : u.attack[b] = IF b = a THEN x ELSE w.attack[b]
  <2>1. Lesser(w.attack[a], x)
    BY <1>6, <1>7 DEF Lesser, AttackState
  <2>2. QED
    BY <1>3, <1>4, <1>7, <2>1, AttackWritten
<1> HIDE DEF u
<1>9. Acting(u, a, TRUE) /\ u.attack[a].left > 0
  BY <1>3, <1>4, <1>7, <1>8 DEF Acting
<1>10. v \in World /\ Scene(u, v) /\ Acting(v, a, TRUE)
  BY <1>3, <1>8, <1>9, EntryActing
<1> HIDE DEF v
<1>11. none \in Seq(FollowUp)
  OBVIOUS
<1> HIDE DEF none
<1>12. z \in World /\ Scene(v, z) /\ Blocked(z)
  BY <1>3, <1>5, <1>10, <1>11, TargetSaveOpenedBlocked
<1> HIDE DEF z
<1>13. Spent(world, z)
  BY <1>4, <1>8, <1>10, <1>12, SceneTwice, SpentTwice
<1>14. QED
  BY <1>1, <1>12, <1>13, CommittedSpent, NoneFalls

LEMMA ResolvePendingSaveT == ASSUME TInv, UnderWay(world), ResolvePendingSave PROVE Goes
<1> DEFINE p == world.pending
           t == p.target
           closed == ResolutionClosed(world)
           final == p.rest = << >>
           queue(damage) == p.followUps \o ConcentrationFollowUp(world, t, damage)
           after(failed, passed) == TargetSaveAnswered(p, failed, passed)
           done(failed, passed) == Done(after(failed, passed), p.source, p.attack)
           asks(failed, passed, damage) ==
             Waits(TargetSaveOpened(after(failed, passed), p.source, p.rest, p.spell, p.id,
                                    queue(damage)), p.source, p.attack)
<1>1. PICK failed, damage, passed \in BOOLEAN :
         \E fallen \in Falling(world, IF damage THEN {t} ELSE {}) :
           LET u == TargetSaveAnswered(p, failed, passed)
               q == p.followUps \o ConcentrationFollowUp(world, t, damage)
           IN Committed(IF final
                        THEN FollowUpOpened(world, Done(u, p.source, p.attack), q, Ended(world, u))
                        ELSE Waits(TargetSaveOpened(u, p.source, p.rest, p.spell, p.id, q),
                                   p.source, p.attack), {}, fallen)
  BY DEF ResolvePendingSave
<1> DEFINE invalid == Ended(world, after(failed, passed))
<1>2. PICK fallen \in Falling(world, IF damage THEN {t} ELSE {}) :
           IF final
           THEN Committed(FollowUpOpened(world, done(failed, passed), queue(damage), invalid),
                          {}, fallen)
           ELSE Committed(asks(failed, passed, damage), {}, fallen)
  BY <1>1
<1> HIDE DEF invalid
<1>3. /\ p \in Resolution /\ closed \in World /\ Scene(world, closed)
      /\ Acting(closed, p.source, p.attack)
  BY ClosedTyped DEF ResolvePendingSave, MayDecide
<1>4. /\ p.source \in Actor /\ t \in Actor /\ p.spell \in Execution /\ p.id \in Nat
      /\ p.attack \in BOOLEAN /\ p.rest \in Seq(Actor) /\ p.followUps \in Seq(FollowUp)
  BY <1>3, DecisionTyped
<1>5. Steady(closed, after(failed, passed))
  <2> DEFINE touched == {p.source} \cup (IF passed THEN {} ELSE {p.target})
             gained == IF failed THEN Gained(p.target, p.spell, p.id) ELSE {}
             cid == IF final /\ p.spell.concentration THEN p.id ELSE 0
  <2>1. gained \in SUBSET Effect /\ cid \in Nat
    <3> HIDE DEF p
    <3>1. QED
      BY <1>4, GainedTyped
  <2>2. after(failed, passed) = ActionState(closed, p.source, touched, gained, cid)
    BY DEF TargetSaveAnswered
  <2> HIDE DEF touched, gained, cid, closed, after, p
  <2>3. QED
    BY <1>3, <2>1, <2>2, ActionStateSteady
<1>6. queue(damage) \in Seq(FollowUp)
  <2> DEFINE q == ConcentrationFollowUp(world, t, damage)
  <2>1. q \in Seq(FollowUp)
    BY <1>4, TInvFacts, FollowUpTyped
  <2> HIDE DEF q, p
  <2>2. p.followUps \o q \in Seq(FollowUp)
    BY <1>4, <2>1
  <2>3. QED
    BY <2>2 DEF q
<1> HIDE DEF queue, after, closed, t, final, p
<1> DEFINE u == after(failed, passed)
<1>7. u \in World /\ Scene(world, u) /\ Acting(u, p.source, p.attack)
  BY <1>3, <1>5, SteadyBlocked, SceneTwice DEF Steady
<1> HIDE DEF u
<1>8. CASE final
  <2> DEFINE v == Done(u, p.source, p.attack)
  <2>1. v \in World /\ Scene(u, v) /\ Acting(v, p.source, FALSE)
    BY <1>4, <1>7, DoneActing
  <2>2. Committed(FollowUpOpened(world, v, queue(damage), invalid), {}, fallen)
    BY <1>2, <1>8 DEF u
  <2> HIDE DEF v
  <2>3. QED
    BY <1>6, <1>7, <2>1, <2>2, SceneTwice, FollowedTyped
<1>9. CASE ~final
  <2> DEFINE v == Waits(TargetSaveOpened(u, p.source, p.rest, p.spell, p.id, queue(damage)),
                        p.source, p.attack)
  <2>1. v \in World /\ Scene(u, v) /\ Blocked(v)
    BY <1>4, <1>6, <1>7, <1>9, TargetSaveOpenedBlocked DEF final
  <2>2. Committed(v, {}, fallen)
    BY <1>2, <1>9 DEF u
  <2> HIDE DEF v
  <2>3. QED
    BY <1>7, <2>1, <2>2, SceneTwice, CommittedTyped
<1>10. QED
  BY <1>8, <1>9

-----------------------------------------------------------------------------
(* Saves that follow an attack or a spell, hazards and death. *)

LEMMA ResolveMasterySaveT == ASSUME TInv, UnderWay(world), ResolveMasterySave PROVE Goes
<1> DEFINE p == world.pending
           closed == ResolutionClosed(world)
           none == {}
           zero == 0
           after(touched) == ActionState(closed, p.source, touched, none, zero)
           queue(damage) == p.followUps \o ConcentrationFollowUp(world, p.target, damage)
<1>1. PICK damage, touched, invalid :
         \E fallen \in Falling(world, IF damage THEN {p.target} ELSE {}) :
            Committed(FollowUpOpened(world, after(touched), queue(damage), invalid), {}, fallen)
  BY Zenon DEF ResolveMasterySave
<1>2. /\ p \in Resolution /\ closed \in World /\ Scene(world, closed)
      /\ Acting(closed, p.source, FALSE)
  BY ClosedTyped DEF ResolveMasterySave, MayDecide, Chain
<1>3. none \in SUBSET Effect /\ zero \in Nat
  OBVIOUS
<1> HIDE DEF p, closed, none, zero
<1>4. Steady(closed, after(touched))
  BY <1>2, <1>3, ActionStateSteady
<1>5. queue(damage) \in Seq(FollowUp)
  <2> DEFINE q == ConcentrationFollowUp(world, p.target, damage)
  <2>1. q \in Seq(FollowUp) /\ p.followUps \in Seq(FollowUp)
    BY <1>2, DecisionTyped, TInvFacts, FollowUpTyped
  <2> HIDE DEF q
  <2>2. p.followUps \o q \in Seq(FollowUp)
    BY <2>1
  <2>3. QED
    BY <2>2 DEF q
<1> HIDE DEF after, queue
<1>6. /\ after(touched) \in World /\ Scene(world, after(touched))
      /\ Acting(after(touched), p.source, FALSE)
  BY <1>2, <1>4, SteadyBlocked, SceneTwice DEF Steady
<1>7. QED
  BY <1>1, <1>5, <1>6, FollowedTyped

LEMMA ResolveConcentrationSaveT == ASSUME TInv, UnderWay(world), ResolveConcentrationSave PROVE Goes
<1> DEFINE p == world.pending
           closed == ResolutionClosed(world)
           cleared == ConcentrationCleared(closed, p.decider)
<1>1. PICK after, invalid :
         /\ after = closed \/ after = cleared
         /\ Committed(FollowUpOpened(world, after, p.followUps, invalid), {}, {})
  BY Zenon DEF ResolveConcentrationSave
<1>2. /\ p \in Resolution /\ closed \in World /\ Scene(world, closed)
      /\ Acting(closed, p.source, FALSE)
  BY ClosedTyped DEF ResolveConcentrationSave, MayDecide, Chain
<1> HIDE DEF p, closed
<1>3. Steady(closed, after)
  <2>1. Steady(closed, closed) /\ Steady(closed, cleared)
    BY <1>2, FieldSteady, ClearedSteady
  <2> HIDE DEF cleared
  <2>2. QED
    BY <1>1, <2>1
<1>4. after \in World /\ Scene(world, after) /\ Acting(after, p.source, FALSE)
  BY <1>2, <1>3, SteadyBlocked, SceneTwice DEF Steady
<1>5. p.followUps \in Seq(FollowUp)
  BY <1>2, DecisionTyped
<1>6. QED
  BY <1>1, <1>4, <1>5, NoneFalls, FollowedTyped

LEMMA TriggerHazardT == ASSUME TInv, UnderWay(world), NEW a, TriggerHazard(a) PROVE Goes
<1> DEFINE p == Ask("hazard_save", a, a, a)
           v == Waits([world EXCEPT !.pending = p], a, FALSE)
<1>1. MayAct(world, a) /\ Committed(v, {}, {})
  BY DEF TriggerHazard, Waits
<1>2. a \in Actor /\ world \in World /\ Acting(world, a, FALSE)
  BY <1>1, MayActTyped, TInvFacts
<1> DEFINE type == "hazard_save"
<1>3. Opens(p, type, a) /\ type \notin Strikes
  BY <1>2, AskTyped DEF ResolutionType, Strikes
<1> HIDE DEF p, type
<1>4. v \in World /\ Scene(world, v) /\ Blocked(v)
  BY <1>2, <1>3, OpenedBlocked
<1> HIDE DEF v
<1>5. QED
  BY <1>1, <1>4, CommittedTyped, NoneFalls

LEMMA ResolveHazardSaveT == ASSUME TInv, UnderWay(world), ResolveHazardSave PROVE Goes
<1> DEFINE p == world.pending
           t == world.pending.target
           closed == ResolutionClosed(world)
           Harm(harmed) == IF harmed THEN {[on |-> t, link |-> 0, incapacitates |-> TRUE]} ELSE {}
           Hurt(harmed) == [closed EXCEPT !.effects = closed.effects \cup Harm(harmed)]
           queue(damage) == ConcentrationFollowUp(world, t, damage)
<1>1. PICK harmed, damage, died : \E fallen \in Falling(world, IF damage THEN {t} ELSE {}) :
         Committed(FollowUpOpened(world, Hurt(harmed), queue(damage), {}), died, fallen)
  BY Zenon DEF ResolveHazardSave
<1>2. /\ p \in Resolution /\ closed \in World /\ Scene(world, closed)
      /\ Acting(closed, p.source, FALSE)
  BY ClosedTyped DEF ResolveHazardSave, MayDecide, Chain
<1>3. t \in Actor
  BY <1>2, DecisionTyped
<1>4. Harm(harmed) \in SUBSET Effect
  <2>1. 0 \in Nat /\ TRUE \in BOOLEAN
    OBVIOUS
  <2> HIDE DEF t
  <2>2. QED
    BY <1>3, <2>1 DEF Effect
<1>5. queue(damage) \in Seq(FollowUp)
  BY <1>3, TInvFacts, FollowUpTyped
<1> HIDE DEF p, t, closed, Harm, queue
<1> DEFINE e == closed.effects \cup Harm(harmed)
           v == [closed EXCEPT !.effects = e]
<1>6. e \in SUBSET Effect
  BY <1>2, <1>4 DEF World
<1>7. Hurt(harmed) = v
  OBVIOUS
<1> HIDE DEF Hurt, e
<1>8. Steady(closed, v)
  BY <1>2, <1>6, FieldSteady
<1> HIDE DEF v
<1>9. v \in World /\ Scene(world, v) /\ Acting(v, p.source, FALSE)
  BY <1>2, <1>8, SteadyBlocked, SceneTwice DEF Steady
<1>10. QED
  BY <1>1, <1>5, <1>7, <1>9, FollowedTyped

LEMMA AdjudicateActorDeathT == ASSUME TInv, NEW a, AdjudicateActorDeath(a) PROVE Goes
<1>1. /\ world.pending = NoResolution /\ Committed(world, {a}, {})
      /\ world \in World /\ Scene(world, world) /\ Blocked(world)
  BY TInvFacts DEF AdjudicateActorDeath
<1>2. QED
  BY <1>1, NoneFalls, CommittedTyped

-----------------------------------------------------------------------------
(* Grapple, Shove and familiars. *)

LEMMA PerformUnarmedStrikeT ==
    ASSUME TInv, UnderWay(world), NEW a, NEW t \in Actor, NEW part,
           PerformUnarmedStrike(a, t, part)
    PROVE  Goes
<1> DEFINE w == AttackEntryCommitted(world, a)
           q == Ask("unarmed_save", t, a, t)
           p == [q EXCEPT !.id = part]
           v == Waits([w EXCEPT !.pending = p], a, TRUE)
<1>1. MayAttack(world, a) /\ Committed(v, {}, {})
  BY DEF PerformUnarmedStrike, Waits
<1>2. a \in Actor /\ Acting(world, a, TRUE) /\ world.attack[a].left > 0 /\ world \in World
  BY <1>1, MayAttackTyped, TInvFacts
<1>3. part \in Nat
  <2>1. Parts[a] \in Nat
    BY <1>2, RulesAssumption
  <2>2. part \in {0} \cup (1 .. Parts[a])
    BY DEF PerformUnarmedStrike, FreeParts
  <2>3. QED
    BY <2>1, <2>2
<1>4. w \in World /\ Scene(world, w) /\ Acting(w, a, TRUE)
  BY <1>2, EntryActing
<1> HIDE DEF w
<1> DEFINE type == "unarmed_save"
<1>5. Opens(q, type, a) /\ type \in Chain
  BY <1>2, AskTyped DEF ResolutionType, Chain
<1>6. Opens(p, type, a) /\ p.target # a
  <2>1. q.target = t /\ p.target = q.target /\ a # t
    BY DEF Ask, PerformUnarmedStrike
  <2> HIDE DEF q, type
  <2>2. QED
    BY <1>3, <1>5, <2>1, ResolutionFields
<1> HIDE DEF q, type
<1> HIDE DEF p
<1>7. v \in World /\ Scene(w, v) /\ Blocked(v)
  BY <1>2, <1>4, <1>5, <1>6, OpenedBlocked
<1> HIDE DEF v
<1>8. QED
  BY <1>1, <1>4, <1>7, SceneTwice, CommittedTyped, NoneFalls

LEMMA StrikeFinished ==
    ASSUME TInv, world.pending # NoResolution, world.pending.type \in Strikes
    PROVE  LET a == world.pending.source
               v == AttackResolutionFinished(ResolutionClosed(world), a)
           IN /\ a \in Actor /\ world.attack[a].open
              /\ v \in World /\ Scene(world, v) /\ Acting(v, a, FALSE)
<1> DEFINE a == world.pending.source
           closed == ResolutionClosed(world)
           v == Done(closed, a, TRUE)
<1>1. /\ world.pending \in Resolution /\ closed \in World /\ Scene(world, closed)
      /\ Acting(closed, a, world.pending.attack) /\ closed.pending = NoResolution
      /\ closed.attack = world.attack
  BY ClosedTyped
<1>2. a \in Actor /\ world.pending.attack
  BY <1>1, DecisionTyped, TInvFacts DEF Blocked
<1>3. Acting(closed, a, TRUE) /\ closed.attack[a].open
  BY <1>1, <1>2 DEF Acting
<1> HIDE DEF a, closed
<1>4. v \in World /\ Scene(closed, v) /\ Acting(v, a, FALSE)
  BY <1>1, <1>2, <1>3, DoneActing
<1>5. v = AttackResolutionFinished(closed, a)
  BY DEF Done
<1> HIDE DEF v
<1>6. QED
  BY <1>1, <1>2, <1>3, <1>4, <1>5, SceneTwice DEF a, closed

LEMMA ResolveUnarmedSaveT == ASSUME TInv, UnderWay(world), ResolveUnarmedSave PROVE Goes
<1> DEFINE p == world.pending
           a == p.source
           finished == AttackResolutionFinished(ResolutionClosed(world), a)
           Held == [grappler |-> a, part |-> p.id, target |-> p.target]
           q == Ask("shove_outcome", a, a, p.target)
           u == [world EXCEPT !.pending = q]
           v == AttackActionBlocked(u, a)
           grapples == finished.grapples \cup {Held}
           taken == [finished EXCEPT !.grapples = grapples]
<1>1. /\ world.pending # NoResolution /\ world.pending.type \in Strikes
      /\ \/ Committed(finished, {}, {})
         \/ Committed(taken, {}, {})
         \/ Committed(v, {}, {})
  BY DEF ResolveUnarmedSave, MayDecide, Strikes
<1>2. /\ a \in Actor /\ world.attack[a].open
      /\ finished \in World /\ Scene(world, finished) /\ Acting(finished, a, FALSE)
  BY <1>1, StrikeFinished
<1>3. p \in Resolution /\ p.target \in Actor /\ p.id \in Nat /\ p.attack /\ a # p.target
  BY <1>1, ClosedTyped, DecisionTyped, TInvFacts DEF Blocked
<1>4. CASE Committed(finished, {}, {})
  BY <1>2, <1>4, ActingCommitted, NoneFalls
<1>5. CASE Committed(taken, {}, {})
  <2>1. Held \in Grapple /\ Held.grappler # Held.target
    BY <1>2, <1>3 DEF Grapple
  <2> HIDE DEF Held, finished
  <2>2. /\ grapples \in SUBSET Grapple
        /\ \A g \in grapples : g \in finished.grapples \/ g.grappler # g.target
    BY <1>2, <2>1 DEF World
  <2> HIDE DEF grapples
  <2>3. Steady(finished, taken)
    BY <1>2, <2>2, FieldSteady
  <2> HIDE DEF taken
  <2>4. taken \in World /\ Scene(world, taken) /\ Acting(taken, a, FALSE)
    BY <1>2, <2>3, SteadyBlocked, SceneTwice DEF Steady
  <2>5. QED
    BY <1>5, <2>4, ActingCommitted, NoneFalls
<1>6. CASE Committed(v, {}, {})
  <2> DEFINE none == NoResolution
             idle == [world EXCEPT !.pending = none]
             w == Waits([idle EXCEPT !.pending = q], a, TRUE)
             type == "shove_outcome"
  <2>1. idle \in World /\ Scene(world, idle) /\ Acting(idle, a, TRUE)
    <3>1. idle = ResolutionClosed(world)
      BY DEF ResolutionClosed
    <3> HIDE DEF idle
    <3>2. Acting(idle, a, p.attack) /\ idle \in World /\ Scene(world, idle)
      BY <1>1, <3>1, ClosedTyped
    <3>3. QED
      BY <1>3, <3>2 DEF Acting
  <2>2. Opens(q, type, a) /\ type \in Chain /\ q.target # a
    <3>1. q.target = p.target
      BY DEF Ask
    <3>2. QED
      BY <1>2, <1>3, <3>1, AskTyped DEF ResolutionType, Chain
  <2>3. v = w
    <3>1. [idle EXCEPT !.pending = q] = u
      BY TInvFacts DEF World
    <3> HIDE DEF idle, u
    <3>2. QED
      BY <3>1 DEF Waits
  <2> HIDE DEF idle, q, type, v, none
  <2>4. w \in World /\ Scene(idle, w) /\ Blocked(w)
    BY <1>2, <2>1, <2>2, OpenedBlocked
  <2> HIDE DEF w
  <2>5. QED
    BY <1>6, <2>1, <2>3, <2>4, SceneTwice, CommittedTyped, NoneFalls
<1>7. QED
  BY <1>1, <1>4, <1>5, <1>6

LEMMA ResolveShoveOutcomeT == ASSUME TInv, UnderWay(world), ResolveShoveOutcome PROVE Goes
<1> DEFINE a == world.pending.source
           v == AttackResolutionFinished(ResolutionClosed(world), a)
<1>1. world.pending # NoResolution /\ world.pending.type \in Strikes /\ Committed(v, {}, {})
  BY DEF ResolveShoveOutcome, MayDecide, Strikes
<1>2. v \in World /\ Scene(world, v) /\ Acting(v, a, FALSE)
  BY <1>1, StrikeFinished
<1> HIDE DEF v
<1>3. QED
  BY <1>1, <1>2, ActingCommitted, NoneFalls

LEMMA EscapeGrappleT ==
    ASSUME TInv, UnderWay(world), NEW a, NEW g \in world.grapples, EscapeGrapple(a, g) PROVE Goes
<1> DEFINE w == Pays(world, a)
           type == "escape_grapple"
           q == Ask(type, a, g.grappler, a)
           p == [q EXCEPT !.id = g.part]
           v == Waits([w EXCEPT !.pending = p], g.grappler, FALSE)
<1>1. MayAct(world, a) /\ Committed(v, {}, {})
  BY DEF EscapeGrapple, Waits
<1>2. a \in Actor /\ Acting(world, a, FALSE) /\ world \in World
  BY <1>1, MayActTyped, TInvFacts
<1>3. g.grappler \in Actor /\ g.part \in Nat
  BY <1>2 DEF World, Grapple
<1>4. Steady(world, w)
  BY <1>2, PaysSteady
<1> HIDE DEF w
<1>5. w \in World /\ Scene(world, w) /\ Acting(w, g.grappler, FALSE)
  BY <1>2, <1>4, SteadyBlocked DEF Steady, Acting
<1>6. Opens(q, type, g.grappler) /\ type \notin Strikes
  BY <1>2, <1>3, AskTyped DEF ResolutionType, Strikes
<1> HIDE DEF q, type
<1>7. Opens(p, type, g.grappler)
  BY <1>3, <1>6, ResolutionFields
<1> HIDE DEF p
<1>8. v \in World /\ Scene(w, v) /\ Blocked(v)
  BY <1>3, <1>5, <1>6, <1>7, OpenedBlocked
<1> HIDE DEF v
<1>9. QED
  BY <1>1, <1>5, <1>8, SceneTwice, CommittedTyped, NoneFalls

LEMMA FewerGrapples ==
    ASSUME TInv, NEW w \in World, Scene(world, w), Blocked(w), NEW left \in SUBSET w.grapples,
           w.pending # NoResolution => UnderWay(world),
           Committed([w EXCEPT !.grapples = left], {}, {})
    PROVE  Goes
<1> DEFINE v == [w EXCEPT !.grapples = left]
<1>1. left \in SUBSET Grapple
  BY DEF World
<1>2. Steady(w, v)
  BY <1>1, FieldSteady
<1> HIDE DEF v
<1>3. v \in World /\ Scene(world, v) /\ Blocked(v) /\ v.pending = w.pending
  BY <1>2, SteadyBlocked, SceneTwice DEF Steady
<1>4. Committed(v, {}, {})
  BY DEF v
<1>5. QED
  BY <1>3, <1>4, CommittedTyped, NoneFalls

\* No escape from a grapple is part of an Attack action.
LEMMA EscapeClosed ==
    ASSUME TInv, world.pending # NoResolution, world.pending.type = "escape_grapple"
    PROVE  LET v == ResolutionClosed(world)
           IN /\ v \in World /\ Scene(world, v) /\ Blocked(v) /\ v.grapples = world.grapples
              /\ v.pending = NoResolution
<1>1. world.pending.type \notin Chain
  BY DEF Chain
<1> DEFINE v == ResolutionClosed(world)
<1>2. /\ v \in World /\ Scene(world, v) /\ Acting(v, world.pending.source, FALSE)
      /\ v.pending = NoResolution
  BY <1>1, ClosedTyped
<1>3. v.grapples = world.grapples
  BY TInvFacts DEF ResolutionClosed, World
<1> HIDE DEF v
<1>4. QED
  BY <1>2, <1>3, ActingBlocked DEF v

LEMMA ResolveEscapeGrappleT == ASSUME TInv, ResolveEscapeGrapple PROVE Goes
<1> DEFINE w == ResolutionClosed(world)
<1>1. /\ world.pending # NoResolution /\ world.pending.type = "escape_grapple"
      /\ \E left \in SUBSET world.grapples : Committed([w EXCEPT !.grapples = left], {}, {})
  BY DEF ResolveEscapeGrapple, MayDecide
<1>2. /\ w \in World /\ Scene(world, w) /\ Blocked(w) /\ w.grapples = world.grapples
      /\ w.pending = NoResolution
  BY <1>1, EscapeClosed
<1> HIDE DEF w
<1>3. QED
  BY <1>1, <1>2, FewerGrapples

LEMMA EndGrappleT == ASSUME TInv, NEW a, NEW g, EndGrapple(a, g) PROVE Goes
<1> DEFINE w == IF EscapeFrom(world, g) THEN ResolutionClosed(world) ELSE world
<1>1. PICK left \in SUBSET w.grapples : Committed([w EXCEPT !.grapples = left], {}, {})
  <2>1. Committed([w EXCEPT !.grapples = w.grapples \ {g}], {}, {})
    BY DEF EndGrapple
  <2> HIDE DEF w
  <2>2. QED
    BY <2>1
<1>2. /\ w \in World /\ Scene(world, w) /\ Blocked(w)
      /\ w.pending # NoResolution => UnderWay(world)
  BY EscapeClosed, TInvFacts DEF EscapeFrom, TInv
<1> HIDE DEF w
<1>3. QED
  BY <1>1, <1>2, FewerGrapples

LEMMA DismissFamiliarT ==
    ASSUME TInv, UnderWay(world), NEW f \in Familiar, DismissFamiliar(f) PROVE Goes
<1> DEFINE w == Pays(world, Owner[f])
           where == "pocket_dimension"
           v == FamiliarLeaves(w, f, where)
<1>1. Committed(v, {}, {}) /\ {f} \in Falling(world, {f}) /\ world.presence[f] = "present"
  BY DEF DismissFamiliar
<1>2. InEncounter(world) => Len(world.initiative) > 2
  BY <1>1, FallingTyped
<1>3. Steady(world, w)
  BY TInvFacts, PaysSteady
<1> HIDE DEF w
<1>4. /\ w \in World /\ Placed(w) /\ Blocked(w) /\ Apart(w)
      /\ w.mode = world.mode /\ w.initiative = world.initiative /\ w.active = world.active
      /\ w.started = world.started
  BY <1>3, TInvFacts, ScenePlaced, SteadyBlocked DEF Steady, Scene, Stage, TInv
<1>5. where \in Presence /\ (InEncounter(w) => Len(w.initiative) > 2)
  BY <1>2, <1>4 DEF Presence, InEncounter
<1>6. where # "present"
  OBVIOUS
<1> HIDE DEF where
<1>7. Course(w, v) /\ Placed(v) /\ Shifted(w, v, f) /\ v.presence[f] = where
  BY <1>4, <1>5, LeavesTyped
<1> HIDE DEF v
<1>8. v \in World /\ Blocked(v) /\ Apart(v) /\ UnderWay(v)
  BY <1>4, <1>7, SameBlocked DEF Course, Beside, Apart, UnderWay, InEncounter
<1>9. TInv' /\ Fell(v, world', {})
  BY <1>1, <1>7, <1>8, CommittedScene
<1>10. Shifted(world, world', f)
  BY <1>4, <1>7, <1>9 DEF Shifted, Fell, InEncounter, CurrentActor, NextActor
<1>11. FamiliarLeft
  BY <1>1, <1>6, <1>7, <1>9 DEF FamiliarLeft, Fell
<1>12. QED
  BY <1>9, <1>10, <1>11 DEF Goes, Turns, Lasts, Shifted, UnderWay

LEMMA ReappearFamiliarT ==
    ASSUME TInv, UnderWay(world), NEW f \in Familiar, ReappearFamiliar(f) PROVE Goes
<1> DEFINE w == Pays(world, Owner[f])
           x == [w.presence EXCEPT ![f] = "present"]
           u == [w EXCEPT !.presence = x]
           v == SceneWithPresentFamiliar(u, f)
<1>1. Committed(v, {}, {}) /\ MayAct(world, Owner[f])
  BY Zenon DEF ReappearFamiliar
<1>2. Steady(world, w)
  BY TInvFacts, PaysSteady
<1> HIDE DEF w
<1>3. x \in [Familiar -> Presence] /\ w \in World
  BY <1>2 DEF Steady, World, Presence
<1> HIDE DEF x
<1>4. Course(w, u) /\ u.initiative = w.initiative /\ u.active = w.active
  BY <1>3, PresenceField DEF Course
<1> HIDE DEF u
<1>5. /\ u \in World /\ Placed(u) /\ Blocked(u) /\ Apart(u)
      /\ u.mode = world.mode /\ u.initiative = world.initiative /\ u.active = world.active
      /\ u.started = world.started /\ u.round = world.round /\ u.attack = world.attack
  BY <1>2, <1>4, TInvFacts, SameBlocked
  DEF Steady, Scene, Stage, Course, Beside, Placed, InEncounter, Apart, TInv
<1>6. InEncounter(u) => CurrentActor(u) = Owner[f]
  BY <1>1, <1>5 DEF MayAct, InEncounter, CurrentActor
<1>7. /\ Course(u, v) /\ Placed(v) /\ v.active = u.active
      /\ InEncounter(u) => CurrentActor(v) = CurrentActor(u)
  BY <1>5, <1>6, JoinsTyped
<1> HIDE DEF v
<1>8. v \in World /\ Blocked(v) /\ Apart(v) /\ UnderWay(v)
  BY <1>5, <1>7, SameBlocked DEF Course, Beside, Apart, UnderWay, InEncounter
<1>9. TInv' /\ Course(v, world') /\ Fell(v, world', {})
  BY <1>1, <1>7, <1>8, CommittedScene
<1>10. /\ world'.mode = world.mode /\ world'.round = world.round
       /\ world'.active = world.active /\ world'.attack = world.attack
       /\ InEncounter(world) => CurrentActor(world') = CurrentActor(world)
  BY <1>5, <1>7, <1>9 DEF Course, Beside, Fell, InEncounter, CurrentActor
<1>11. \A a : Usable(world, a) => Usable(world', a)
  BY <1>10 DEF Usable, InEncounter, AttackTurnKey
<1>12. QED
  BY <1>9, <1>10, <1>11 DEF Goes, Turns, Lasts

-----------------------------------------------------------------------------
(* Types and attacks, in every state. *)

LEMMA InitT == Init => TInv
<1> SUFFICES ASSUME Init PROVE TInv
  OBVIOUS
<1>1. /\ << >> \in Seq(Actor) /\ NoAttack \in AttackState
      /\ ~NoAttack.open /\ ~NoAttack.blocked
  BY DEF NoAttack, AttackState
<1>2. world \in World
  BY <1>1 DEF Init, World, Presence
<1>3. /\ \A a \in Actor : world.attack[a] = NoAttack
      /\ world.pending = NoResolution /\ world.mode = "exploration"
      /\ DOMAIN world.initiative = {}
  BY DEF Init
<1>4. Blocked(world)
  BY <1>1, <1>3 DEF Blocked
<1>5. Placed(world)
  BY <1>3 DEF Placed, Distinct, InEncounter
<1>6. Apart(world)
  BY DEF Init, Apart
<1>7. QED
  BY <1>2, <1>3, <1>4, <1>5, <1>6 DEF TInv

LEMMA MayActUnderWay == ASSUME NEW a, MayAct(world, a) PROVE UnderWay(world)
  BY DEF MayAct, UnderWay

LEMMA DecisionT == ASSUME TInv, ResolveDecision PROVE Goes
<1>1. UnderWay(world)
  BY DEF TInv, ResolveDecision, ResolvePendingProtection, ResolvePendingAttack,
         ResolveMagicMissileReaction, ResolvePendingSave, ResolveMasterySave,
         ResolveConcentrationSave, ResolveHazardSave, ResolveUnarmedSave,
         ResolveShoveOutcome, ResolveEscapeGrapple, MayDecide
<1>2. QED
  BY <1>1, ResolvePendingProtectionT, ResolvePendingAttackT, ResolveMagicMissileReactionT,
     ResolvePendingSaveT, ResolveMasterySaveT, ResolveConcentrationSaveT,
     ResolveHazardSaveT, ResolveUnarmedSaveT, ResolveShoveOutcomeT, ResolveEscapeGrappleT
  DEF ResolveDecision

LEMMA NextT == ASSUME IInv, TInv, [Next]_world PROVE TInv' /\ (Goes \/ UNCHANGED world)
<1>1. CASE ResolveDecision
  BY <1>1, DecisionT DEF Goes
<1>2. ASSUME NEW a \in Actor, \/ StartEncounter(a) \/ StartTurn(a) \/ EndTurn(a)
                             \/ BeginAttackAction(a) \/ ForfeitAttackAction(a)
                             \/ TriggerHazard(a) \/ AdjudicateActorDeath(a)
      PROVE  Goes
  <2>1. BeginAttackAction(a) \/ ForfeitAttackAction(a) \/ TriggerHazard(a) => UnderWay(world)
    BY MayActUnderWay
    DEF BeginAttackAction, MayBeginAttackAction, ForfeitAttackAction, MayAttack, TriggerHazard
  <2>2. QED
    BY <1>2, <2>1, StartEncounterT, StartTurnT, EndTurnT, BeginAttackActionT,
       ForfeitAttackActionT, TriggerHazardT, AdjudicateActorDeathT
<1>3. ASSUME NEW a \in Actor,
           NEW t \in Actor,
             \/ SwapInitiative(a, t) \/ PerformWeaponAttack(a, t)
             \/ \E part \in 0 .. Parts[a] : PerformUnarmedStrike(a, t, part)
      PROVE  Goes
  <2>1. /\ PerformWeaponAttack(a, t) => UnderWay(world)
        /\ \A part : PerformUnarmedStrike(a, t, part) => UnderWay(world)
    BY MayActUnderWay DEF PerformWeaponAttack, PerformUnarmedStrike, MayAttack
  <2>2. QED
    BY <1>3, <2>1, SwapInitiativeT, PerformWeaponAttackT, PerformUnarmedStrikeT
<1>4. ASSUME NEW a \in Actor, NEW spell \in Spells[a], NEW targets \in Targets,
             UseAction(a, spell, targets)
      PROVE  Goes
  <2>1. UnderWay(world)
    BY <1>4, MayActUnderWay DEF UseAction
  <2>2. QED
    BY <1>4, <2>1, UseActionT
<1>5. ASSUME NEW a \in Actor, NEW action \in Replacements[a], NEW targets \in Targets,
             UseAttackReplacement(a, action, targets)
      PROVE  Goes
  <2>1. UnderWay(world)
    BY <1>5, MayActUnderWay DEF UseAttackReplacement, MayBeginAttackAction, MayAttack
  <2>2. QED
    BY <1>5, <2>1, UseAttackReplacementT
<1>6. ASSUME NEW a \in Actor, NEW g \in world.grapples, EscapeGrapple(a, g) \/ EndGrapple(a, g)
      PROVE  Goes
  <2>1. EscapeGrapple(a, g) => UnderWay(world)
    BY MayActUnderWay DEF EscapeGrapple
  <2>2. QED
    BY <1>6, <2>1, EscapeGrappleT, EndGrappleT
<1>7. ASSUME NEW f \in Familiar, DismissFamiliar(f) \/ ReappearFamiliar(f)
      PROVE  Goes
  <2>1. UnderWay(world)
    BY <1>7, MayActUnderWay DEF DismissFamiliar, ReappearFamiliar
  <2>2. QED
    BY <1>7, <2>1, DismissFamiliarT, ReappearFamiliarT
<1>8. CASE UNCHANGED world
  BY <1>8 DEF TInv, Blocked, Placed, InEncounter, Apart, UnderWay
<1>9. Goes => TInv'
  BY DEF Goes
<1>10. QED
  BY <1>1, <1>2, <1>3, <1>4, <1>5, <1>6, <1>7, <1>8, <1>9 DEF Next

\* In every state of any party the world has its types, nobody stands twice in
\* the initiative, and an Attack action and the decision it waits for agree.
THEOREM TypeInvariant == Spec => []TInv
<1>1. (IInv /\ TInv) /\ [Next]_world => TInv'
  BY NextT
<1>2. QED
  BY InitT, Invariant, <1>1, PTL DEF Spec

\* The turn is always somebody's, whoever joins, leaves or falls, and every
\* field keeps the type the reducer gives it (domain.ts WorldState).
THEOREM WorldTyped == Spec => []TypeOK
<1>1. TInv => TypeOK
  <2> SUFFICES ASSUME TInv PROVE TypeOK
    OBVIOUS
  <2>1. world \in World /\ Placed(world)
    BY DEF TInv
  <2>2. InEncounter(world) => world.active \in DOMAIN world.initiative
    BY <2>1 DEF Placed
  <2>3. QED
    BY <2>1, <2>2 DEF TypeOK, World, Presence, Effect, AttackState, Grapple
<1>2. QED
  BY TypeInvariant, <1>1, PTL

\* An Attack action waits exactly for the decision its attack opened, through
\* every chain of reactions and saving throws, and an exhausted one is closed
\* when the chain ends (attackResolutionFinishedEvents).
THEOREM AttackUnblocked == Spec => []BlockedByPending
<1>1. TInv => BlockedByPending
  BY DEF TInv, Blocked, BlockedByPending
<1>2. QED
  BY TypeInvariant, <1>1, PTL

\* The turn passes in the order that was rolled: a familiar that joins, leaves
\* or falls moves the index so that the turn stays whose it was, and only if it
\* leaves on its own turn is the turn the next one's (sceneWithoutActor).
THEOREM TurnInOrder == Spec => TurnPassesInOrder
<1>1. IInv /\ TInv /\ [Next]_world => [Turns]_world
  BY NextT DEF Goes
<1>2. [Turns]_world => [InEncounter(world) /\ ~EncounterStarted =>
         \/ CurrentActor(world') = CurrentActor(world)
         \/ /\ ~world.started /\ world'.swapped # world.swapped
         \/ /\ CurrentActor(world') =
                  world.initiative[(world.active % Len(world.initiative)) + 1]
            /\ world.started
            /\ ~world'.started \/ \A i \in DOMAIN world'.initiative :
                                     world'.initiative[i] # CurrentActor(world)]_world
  BY DEF Turns, NextActor
<1>3. QED
  BY Invariant, TypeInvariant, <1>1, <1>2, PTL DEF Spec, TurnPassesInOrder

\* The attacks that remain to whoever's turn it is stay usable on that turn until
\* one is used or the Attack action is closed: no reaction, saving throw, grapple
\* or turn that begins takes the turn, the key or the last attack from an Attack
\* action it leaves open (handler.ts openAttackAction); only a familiar that
\* leaves the initiative, or a new one, may.
THEOREM AttacksLast == Spec => AttacksStayUsable
<1>1. IInv /\ TInv /\ [Next]_world => [Lasts]_world
  BY NextT DEF Goes
<1>2. QED
  BY Invariant, TypeInvariant, <1>1, PTL DEF Spec, AttacksStayUsable, Lasts

-----------------------------------------------------------------------------
(* Part three: which decisions may follow which. *)

Savings == {"target_save", "mastery_save", "concentration_save"}
Openers == {"protection_reaction", "attack_reaction", "magic_missile_reaction"}

\* Only saving throws let others wait behind them, those that wait are about
\* other concentrations than the declared one, and nobody saves against himself.
Queued(p) ==
    /\ \A i \in DOMAIN p.followUps :
          LET q == p.followUps[i]
          IN /\ p.type \in Savings
             /\ q.type = "concentration_save" => q.id # 0 /\ (Declares(p) => q.id # p.id)
    /\ p.type = "concentration_save" => p.id # 0
    /\ p.type \in Suspending => p.source # p.target
    /\ p.type = "target_save" => \A i \in DOMAIN p.rest : p.rest[i] # p.source

FInv == world.pending # NoResolution => Queued(world.pending)

\* Nobody who concentrates becomes incapacitated.
Fades(w, v) ==
    \A a \in Actor : v.concentration[a] # 0 /\ Incapacitated(v, a) => Incapacitated(w, a)

\* What waited behind p is asked, still waits, or its concentration has ended.
Lasting(p, v) ==
    \A i \in DOMAIN p.followUps :
        LET q == p.followUps[i]
        IN \/ <<q.actor, q.id>> \in Asked(v)
           \/ q.type = "concentration_save" /\ v.concentration[q.actor] # q.id

HazardAnswered == world.pending # NoResolution /\ world.pending.type = "hazard_save"

\* A world a command may leave, but for its post-conditions.
Planned(w) ==
    /\ IsWorld(w) /\ w.living = world.living
    /\ HazardAnswered \/ Fades(world, w)
    /\ w.pending # NoResolution => Queued(w.pending)
    /\ world.pending # NoResolution => Lasting(world.pending, w)
    /\ w.pending # NoResolution /\ w.pending # world.pending =>
          \/ world.pending = NoResolution \/ world.pending.type \in Openers
          \/ w.pending.type = "concentration_save" =>
                w.concentration[w.pending.decider] = w.pending.id

\* The step properties FollowUpsSurvive, UnanswerableOnlyByAttackOrDeath and
\* IncapacitatedLosesConcentration.
Survive == world.pending # NoResolution => Lasting(world.pending, world')

Replies ==
    world'.pending # NoResolution /\ world'.pending # world.pending /\ ~Answerable(world') =>
       \/ world'.pending.decider \notin world'.living
       \/ world.pending = NoResolution \/ world.pending.type \in Openers

Releases == HazardAnswered \/ Fades(world, world')

Heeds == FInv' /\ Survive /\ Replies /\ Releases

LEMMA FollowUpActors ==
    ASSUME TInv, world.pending # NoResolution, NEW i \in DOMAIN world.pending.followUps
    PROVE  /\ world.pending.followUps[i] \in FollowUp
           /\ world.pending.followUps[i].actor \in Actor
<1>1. world.pending.followUps \in Seq(FollowUp)
  BY DEF TInv, World, Resolution
<1>2. world.pending.followUps[i] \in FollowUp
  BY <1>1
<1>3. QED
  BY <1>2 DEF FollowUp

\* The post-conditions only end concentrations and effects.
LEMMA PlannedHeeds ==
    ASSUME TInv, FInv, NEW w, Planned(w), NEW died, NEW fallen, Committed(w, died, fallen)
    PROVE  Heeds
<1>1. /\ world'.living = w.living \ died /\ world'.pending = w.pending
      /\ world'.effects \subseteq w.effects
      /\ \A a \in Actor : world'.concentration[a] = IF a \in died THEN 0 ELSE w.concentration[a]
  <2>1. Buries(w, world', died)
    BY PostFrame DEF Planned, Committed
  <2>2. world'.effects \subseteq w.effects
    BY <2>1 DEF Buries, Unlinked
  <2>3. QED
    BY <2>1, <2>2 DEF Buries
<1>2. FInv'
  BY <1>1 DEF FInv, Planned
<1>3. Survive
  <2> SUFFICES ASSUME world.pending # NoResolution, NEW i \in DOMAIN world.pending.followUps
               PROVE  LET q == world.pending.followUps[i]
                      IN \/ <<q.actor, q.id>> \in Asked(world')
                         \/ q.type = "concentration_save" /\ world'.concentration[q.actor] # q.id
    BY DEF Survive, Lasting
  <2> DEFINE q == world.pending.followUps[i]
  <2>1. q.actor \in Actor
    BY FollowUpActors
  <2>2. q.type = "concentration_save" => q.id # 0
    BY DEF FInv, Queued
  <2>3. \/ <<q.actor, q.id>> \in Asked(w)
        \/ q.type = "concentration_save" /\ w.concentration[q.actor] # q.id
    BY DEF Planned, Lasting
  <2>4. Asked(world') = Asked(w)
    BY <1>1 DEF Asked
  <2> HIDE DEF q
  <2>5. \/ <<q.actor, q.id>> \in Asked(world')
        \/ q.type = "concentration_save" /\ world'.concentration[q.actor] # q.id
    BY <1>1, <2>1, <2>2, <2>3, <2>4
  <2>6. QED
    BY <2>5 DEF q
<1>4. Replies
  <2>1. SUFFICES ASSUME w.pending # NoResolution, w.pending # world.pending,
                        world.pending # NoResolution, world.pending.type \notin Openers,
                        w.pending.decider \in world'.living, ~Answerable(world')
                 PROVE  FALSE
    BY <1>1 DEF Replies
  <2>2. /\ w.pending.type = "concentration_save"
        /\ world'.concentration[w.pending.decider] # w.pending.id
    BY <1>1, <2>1 DEF Answerable
  <2>3. w.concentration[w.pending.decider] = w.pending.id
    BY <2>1, <2>2 DEF Planned
  <2>4. w.pending.decider \in Actor /\ w.pending.decider \notin died
    BY <1>1, <2>1 DEF Planned, TInv, World
  <2>5. QED
    BY <1>1, <2>2, <2>3, <2>4
<1>5. Releases
  <2> SUFFICES ASSUME Fades(world, w), NEW a \in Actor, world'.concentration[a] # 0,
                      Incapacitated(world', a)
               PROVE  Incapacitated(world, a)
    BY DEF Releases, Planned, Fades
  <2>1. w.concentration[a] # 0 /\ Incapacitated(w, a)
    BY <1>1 DEF Incapacitated
  <2>2. QED
    BY <2>1 DEF Fades
<1>6. QED
  BY <1>2, <1>3, <1>4, <1>5 DEF Heeds

LEMMA FewerFades ==
    ASSUME NEW u, NEW v, \/ Fewer(u, v) \/ Frame(u, v)
    PROVE  Fades(u, v)
  BY DEF Fades, Fewer, Frame, Incapacitated

LEMMA PlannedKept ==
    ASSUME NEW u, NEW v, Planned(u), Kept(u, v)
    PROVE  Planned(v)
<1>1. Fades(world, u) => Fades(world, v)
  BY DEF Fades, Kept, Frame, Incapacitated
<1>2. Asked(v) = Asked(u)
  BY DEF Asked, Kept
<1>3. QED
  BY <1>1, <1>2 DEF Planned, Lasting, Kept, Frame

\* A command that asks nothing and closes no decision.
LEMMA TidyHeeds == ASSUME TInv, FInv, Tidy PROVE Heeds
<1>1. PICK w, fallen : Fewer(world, w) /\ Committed(w, {}, fallen)
  BY DEF Tidy
<1>2. ASSUME world.pending # NoResolution, NEW i \in DOMAIN world.pending.followUps
      PROVE  LET q == world.pending.followUps[i] IN <<q.actor, q.id>> \in Asked(w)
  BY <1>1, <1>2 DEF Asked, Fewer
<1>3. Planned(w)
  BY <1>1, <1>2, FewerFades DEF Planned, Lasting, Fewer, FInv
<1>4. QED
  BY <1>1, <1>3, PlannedHeeds

\* A decision behind which nothing waits.
Alone == world.pending = NoResolution \/ world.pending.type \notin Savings

LEMMA AloneFacts ==
    ASSUME FInv, Alone, world.pending # NoResolution
    PROVE  DOMAIN world.pending.followUps = {}
  BY DEF FInv, Alone, Queued

LEMMA ClosedPlanned ==
    ASSUME FInv, Alone, NEW w, Frame(world, w), w.pending = NoResolution
    PROVE  Planned(w)
  BY AloneFacts, FewerFades DEF Planned, Lasting, Frame

\* A runtime is written: what hinders is gained by others than the source, and
\* whoever it is that becomes incapacitated by it is among the touched.
LEMMA ActionStateFades ==
    ASSUME NEW w, IsWorld(w), NEW source, NEW touched, NEW gained, NEW id,
           \A a \in Actor : a # source /\ w.concentration[a] # 0
                              => w.concentration[a] # w.concentration[source],
           \A e \in gained : e.on # source /\ e.on \in touched
    PROVE  LET v == ActionState(w, source, touched, gained, id)
           IN /\ IsWorld(v) /\ v.living = w.living /\ v.pending = w.pending
              /\ Fades(w, v)
              /\ \A a \in Actor : v.concentration[a] \in {0, w.concentration[a]}
                                  \/ (id # 0 /\ v.concentration[a] = id)
<1> DEFINE replaced == IF id = 0 THEN {} ELSE {w.concentration[source]}
           after == Unlinked(w.effects \cup gained, replaced)
           ended == {a \in touched : /\ w.concentration[a] \notin {0} \cup replaced
                                     /\ \E e \in after : e.on = a /\ e.incapacitates}
           kept == Unlinked(after, {w.concentration[a] : a \in ended})
           conc == [a \in Actor |-> IF a \in ended THEN 0
                                    ELSE IF a = source /\ id # 0 THEN id
                                    ELSE w.concentration[a]]
           v == ActionState(w, source, touched, gained, id)
<1>1. v = Wrote(w, kept, conc)
  BY DEF ActionState, Wrote
<1>2. kept \subseteq after /\ after \subseteq w.effects \cup gained
  BY DEF Unlinked
<1> HIDE DEF v, kept, conc, after
<1>3. /\ IsWorld(v) /\ v.living = w.living /\ v.pending = w.pending
      /\ v.effects = kept /\ v.concentration = conc
  BY <1>1, Rewritten
<1>4. \A a \in Actor : conc[a] = IF a \in ended THEN 0
                                 ELSE IF a = source /\ id # 0 THEN id
                                 ELSE w.concentration[a]
  BY DEF conc
<1>5. ASSUME NEW a \in Actor, conc[a] # 0, Incapacitated(v, a), ~Incapacitated(w, a)
      PROVE  FALSE
  <2>1. PICK e \in kept : e.on = a /\ e.incapacitates
    BY <1>3, <1>5 DEF Incapacitated
  <2>2. e \in after /\ e \in gained
    BY <1>2, <1>5, <2>1 DEF Incapacitated
  <2>3. a # source /\ a \in touched
    BY <2>1, <2>2
  <2>4. a \notin ended /\ conc[a] = w.concentration[a]
    BY <1>4, <1>5, <2>3
  <2>5. w.concentration[a] # w.concentration[source] /\ w.concentration[a] # 0
    BY <1>5, <2>3, <2>4
  <2>6. w.concentration[a] \notin {0} \cup replaced
    BY <2>5
  <2>7. QED
    BY <2>1, <2>2, <2>3, <2>4, <2>6
<1>6. Fades(w, v)
  BY <1>3, <1>5 DEF Fades
<1>7. \A a \in Actor : conc[a] \in {0, w.concentration[a]} \/ (id # 0 /\ conc[a] = id)
  BY <1>4
<1>8. QED
  BY <1>3, <1>6, <1>7 DEF v

\* What may wait behind a decision.
Asking == {q \in FollowUp : q.type = "concentration_save" => q.id # 0}

\* One waiting actor is asked: the first whose save is still about something.
LEMMA FollowUpPlanned ==
    ASSUME NEW after, IsWorld(after), after.living = world.living,
           after.pending = NoResolution, HazardAnswered \/ Fades(world, after),
           NEW queue \in Seq(Asking), NEW invalid,
           world.pending # NoResolution =>
              \A i \in DOMAIN world.pending.followUps :
                 LET q == world.pending.followUps[i]
                 IN /\ \E j \in DOMAIN queue : queue[j] = q
                    /\ /\ q.type = "concentration_save"
                       /\ world.concentration[q.actor] # q.id \/ q.id \in invalid
                       => after.concentration[q.actor] # q.id,
           \/ world.pending = NoResolution \/ world.pending.type \in Openers
           \/ \A a \in Actor : world.concentration[a] \notin invalid
                                 => after.concentration[a] = world.concentration[a]
    PROVE  Planned(FollowUpOpened(world, after, queue, invalid))
<1> DEFINE Valid(q) == \/ q.type = "mastery_save"
                       \/ world.concentration[q.actor] = q.id /\ q.id \notin invalid
           valid == {i \in DOMAIN queue : Valid(queue[i])}
           v == FollowUpOpened(world, after, queue, invalid)
<1>1. \A j \in DOMAIN queue : /\ queue[j] \in FollowUp /\ queue[j].actor \in Actor
                              /\ queue[j].type \in {"mastery_save", "concentration_save"}
                              /\ queue[j].type = "concentration_save" => queue[j].id # 0
  <2>1. \A j \in DOMAIN queue : queue[j] \in Asking
    OBVIOUS
  <2>2. QED
    BY <2>1 DEF Asking, FollowUp
<1>2. CASE valid = {}
  <2>1. v = after
    BY <1>2 DEF FollowUpOpened
  <2>2. world.pending # NoResolution => Lasting(world.pending, after)
    BY <1>1, <1>2 DEF Lasting
  <2>3. QED
    BY <2>1, <2>2 DEF Planned
<1>3. CASE valid # {}
  <2> DEFINE first == CHOOSE i \in valid : \A j \in valid : i <= j
             next == queue[first]
             rest == SubSeq(queue, first + 1, Len(queue))
             type == IF next.type = "mastery_save" THEN "mastery_save" ELSE "concentration_save"
             q0 == Ask(type, next.actor, next.source, next.actor)
             q1 == [q0 EXCEPT !.id = next.id]
             p == [q1 EXCEPT !.followUps = rest]
  <2>1. v = [after EXCEPT !.pending = p]
    BY <1>3 DEF FollowUpOpened
  <2>2. first \in valid /\ \A j \in valid : first <= j
    <3>1. valid \subseteq Nat
      OBVIOUS
    <3> HIDE DEF valid
    <3>2. \E i \in valid : \A j \in valid : i <= j
      BY <1>3, <3>1, Least
    <3>3. QED
      BY <3>2
  <2> HIDE DEF first
  <2>3. /\ first \in 1 .. Len(queue) /\ Valid(next) /\ Len(queue) \in Nat
        /\ DOMAIN queue = 1 .. Len(queue)
    BY <2>2
  <2>4. /\ rest \in Seq(Asking) /\ Len(rest) = Len(queue) - first
        /\ \A k \in 1 .. (Len(queue) - first) : rest[k] = queue[first + k]
    BY <2>3
  <2>5. type = next.type
    BY <1>1, <2>3
  <2> HIDE DEF rest, type, next
  <2>6. /\ p.type = next.type /\ p.decider = next.actor /\ p.id = next.id
        /\ p.followUps = rest /\ p.type \notin Suspending
    <3>1. next.type \in {"mastery_save", "concentration_save"}
      BY <1>1, <2>3 DEF next
    <3>2. IsAsked(q0) /\ q0.type = type /\ q0.decider = next.actor
      BY DEF Ask, IsAsked
    <3> HIDE DEF q0
    <3>3. IsAsked(q1) /\ q1.type = type /\ q1.decider = next.actor /\ q1.id = next.id
      BY <3>2 DEF IsAsked
    <3> HIDE DEF q1
    <3>4. p.type = type /\ p.decider = next.actor /\ p.id = next.id /\ p.followUps = rest
      BY <3>3 DEF IsAsked
    <3>5. QED
      BY <2>5, <3>1, <3>4 DEF Suspending
  <2> HIDE DEF p
  <2>7. Frame(after, v) /\ v.pending = p /\ v.pending # NoResolution
    <3>1. Frame(after, v) /\ v.pending = p
      BY <2>1, PendingFrame
    <3>2. p.type # NoResolution.type
      BY <1>1, <2>3, <2>6 DEF NoResolution, next
    <3>3. QED
      BY <3>1, <3>2
  <2> HIDE DEF v
  <2>8. DOMAIN rest = 1 .. (Len(queue) - first)
    BY <2>3, <2>4
  <2>9. ASSUME NEW k \in DOMAIN rest
        PROVE  \E j \in DOMAIN queue : rest[k] = queue[j]
    <3>1. rest[k] = queue[first + k]
      BY <2>4, <2>8
    <3>2. first + k \in DOMAIN queue
      BY <2>3, <2>8
    <3>3. QED
      BY <3>1, <3>2
  <2>10. Queued(p)
    <3>1. p.type \in Savings /\ ~Declares(p)
      BY <1>1, <2>3, <2>6 DEF Savings, Declares, Suspending, next
    <3>2. p.type = "concentration_save" => p.id # 0
      BY <1>1, <2>3, <2>6 DEF next
    <3>3. p.type # "target_save"
      BY <2>6 DEF Suspending
    <3>4. \A k \in DOMAIN rest : rest[k].type = "concentration_save" => rest[k].id # 0
      BY <1>1, <2>9
    <3>5. QED
      BY <2>6, <3>1, <3>2, <3>3, <3>4 DEF Queued
  <2>11. ASSUME world.pending # NoResolution, NEW i \in DOMAIN world.pending.followUps
         PROVE  LET q == world.pending.followUps[i]
                IN \/ <<q.actor, q.id>> \in Asked(v)
                   \/ q.type = "concentration_save" /\ v.concentration[q.actor] # q.id
    <3> DEFINE q == world.pending.followUps[i]
    <3>1. PICK j \in DOMAIN queue : queue[j] = q
      BY <2>11
    <3>2. CASE j < first
      <4>1. ~Valid(q)
        BY <2>2, <2>3, <3>1, <3>2
      <4>2. q.type = "concentration_save" /\ after.concentration[q.actor] # q.id
        BY <1>1, <2>11, <3>1, <4>1
      <4>3. QED
        BY <2>7, <4>2 DEF Frame
    <3>3. CASE j = first
      <4>1. <<p.decider, p.id>> \in Asked(v)
        BY <2>7 DEF Asked
      <4>2. QED
        BY <2>6, <3>1, <3>3, <4>1 DEF next
    <3>4. CASE j > first
      <4>1. j - first \in DOMAIN rest /\ rest[j - first] = q
        BY <2>3, <2>4, <2>8, <3>1, <3>4
      <4> HIDE DEF q
      <4>2. <<q.actor, q.id>> \in Asked(v)
        BY <2>6, <2>7, <4>1 DEF Asked
      <4>3. QED
        BY <4>2 DEF q
    <3>5. QED
      BY <2>3, <3>2, <3>3, <3>4
  <2>12. \/ world.pending = NoResolution \/ world.pending.type \in Openers
         \/ p.type = "concentration_save" => v.concentration[p.decider] = p.id
    BY <1>1, <2>3, <2>6, <2>7 DEF Frame, next
  <2>13. HazardAnswered \/ Fades(world, v)
    BY <2>7 DEF Fades, Frame, Incapacitated
  <2>14. QED
    BY <2>7, <2>10, <2>11, <2>12, <2>13 DEF Planned, Lasting, Frame, v
<1>4. QED
  BY <1>2, <1>3

LEMMA AskingFollowUps ==
    ASSUME TInv, NEW a \in Actor, NEW b \in Actor, NEW x
    PROVE  /\ ConcentrationFollowUp(world, a, x) \in Seq(Asking)
           /\ QueuedMasterySave(b, a, x) \in Seq(Asking)
           /\ \A i \in DOMAIN ConcentrationFollowUp(world, a, x) :
                 LET q == ConcentrationFollowUp(world, a, x)[i]
                 IN q.actor = a /\ q.id = world.concentration[a]
<1>1. world.concentration[a] \in Nat
  BY DEF TInv, World
<1> DEFINE q == [type |-> "concentration_save", actor |-> a, source |-> a,
                 id |-> world.concentration[a]]
           r == [type |-> "mastery_save", actor |-> a, source |-> b, id |-> 0]
<1>2. q \in FollowUp /\ r \in Asking
  BY <1>1 DEF FollowUp, Asking
<1>3. q.id = world.concentration[a] /\ q.actor = a
  OBVIOUS
<1>4. \/ ConcentrationFollowUp(world, a, x) = << >>
      \/ ConcentrationFollowUp(world, a, x) = <<q>> /\ world.concentration[a] # 0
  BY DEF ConcentrationFollowUp
<1>5. \/ QueuedMasterySave(b, a, x) = << >> \/ QueuedMasterySave(b, a, x) = <<r>>
  BY DEF QueuedMasterySave
<1> HIDE DEF q, r
<1>6. q.id # 0 => q \in Asking
  BY <1>2 DEF Asking
<1>7. << >> \in Seq(Asking) /\ \A y \in Asking : <<y>> \in Seq(Asking)
  OBVIOUS
<1>8. DOMAIN << >> = {} /\ DOMAIN <<q>> = {1} /\ <<q>>[1] = q
  OBVIOUS
<1>9. ConcentrationFollowUp(world, a, x) \in Seq(Asking)
  BY <1>3, <1>4, <1>6, <1>7
<1>10. QueuedMasterySave(b, a, x) \in Seq(Asking)
  BY <1>2, <1>5, <1>7
<1>11. \A i \in DOMAIN ConcentrationFollowUp(world, a, x) :
          LET y == ConcentrationFollowUp(world, a, x)[i]
          IN y.actor = a /\ y.id = world.concentration[a]
  BY <1>3, <1>4, <1>8
<1>12. QED
  BY <1>9, <1>10, <1>11

LEMMA Differ ==
    ASSUME IInv, NEW a \in Actor, NEW b \in Actor, a # b, world.concentration[a] # 0
    PROVE  world.concentration[a] # world.concentration[b]
  BY DEF IInv, Sound, Bare

\* An opener is answered, or the turn's actor commands.
Opening ==
    /\ IInv /\ TInv /\ FInv
    /\ world.pending = NoResolution \/ world.pending.type \in Openers

LEMMA OpeningAlone == ASSUME Opening PROVE Alone
  BY DEF Opening, Alone, Openers, Savings

\* A spell or an attack is executed at once.
LEMMA ExecutedPlanned ==
    ASSUME Opening, NEW w, Frame(world, w), w.pending = NoResolution,
           NEW a \in Actor, NEW touched, NEW gained, NEW id,
           \A e \in gained : e.on # a /\ e.on \in touched,
           NEW queue \in Seq(Asking)
    PROVE  /\ Planned(FollowUpOpened(world, ActionState(w, a, touched, gained, id), queue, {}))
           /\ Planned(ActionState(w, a, touched, gained, id))
<1> DEFINE after == ActionState(w, a, touched, gained, id)
<1>1. \A b \in Actor : b # a /\ w.concentration[b] # 0
                         => w.concentration[b] # w.concentration[a]
  BY Differ DEF Frame, Opening
<1>2. /\ IsWorld(after) /\ after.living = w.living /\ after.pending = NoResolution
      /\ Fades(w, after)
  <2>1. IsWorld(w)
    BY DEF Frame
  <2>2. QED
    BY <1>1, <2>1, ActionStateFades
<1> HIDE DEF after
<1>3. Fades(world, after) /\ after.living = world.living
  BY <1>2 DEF Frame, Fades, Incapacitated
<1>4. world.pending # NoResolution => DOMAIN world.pending.followUps = {}
  BY OpeningAlone, AloneFacts DEF Opening
<1>5. Planned(after)
  BY <1>2, <1>3, <1>4 DEF Planned, Lasting
<1> DEFINE none == {}
<1> HIDE DEF none
<1>6. Planned(FollowUpOpened(world, after, queue, none))
  <2>1. world.pending = NoResolution \/ world.pending.type \in Openers
    BY DEF Opening
  <2>2. world.pending # NoResolution =>
           \A i \in DOMAIN world.pending.followUps :
              LET q == world.pending.followUps[i]
              IN /\ \E j \in DOMAIN queue : queue[j] = q
                 /\ /\ q.type = "concentration_save"
                    /\ world.concentration[q.actor] # q.id \/ q.id \in none
                    => after.concentration[q.actor] # q.id
    BY <1>4
  <2>3. QED
    BY <1>2, <1>3, <2>1, <2>2, FollowUpPlanned
<1>7. QED
  BY <1>5, <1>6 DEF after, none

LEMMA GainedOn ==
    ASSUME NEW t, NEW spell, NEW id, NEW e \in Gained(t, spell, id)
    PROVE  e.on = t /\ spell.effect # "none"
  BY DEF Gained

LEMMA AttackExecutedPlanned ==
    ASSUME Opening, NEW w, Frame(world, w), w.pending = NoResolution,
           NEW a \in Actor, NEW t \in Actor, a # t, NEW spell, NEW id, NEW o,
           o.touched \/ MayPassBy(world, t, o.damage \/ (o.hit /\ spell.effect # "none"))
    PROVE  Planned(AttackExecuted(world, w, a, t, spell, id, o))
<1> DEFINE cid == IF spell.concentration THEN id ELSE 0
           gained == IF o.hit THEN Gained(t, spell, id) ELSE {}
           touched == {a} \cup (IF o.touched THEN {t} ELSE {})
           q1 == QueuedMasterySave(a, t, o.mastery)
           q2 == ConcentrationFollowUp(world, t, o.damage)
           q3 == ConcentrationFollowUp(world, a, o.retaliation)
           q12 == q1 \o q2
           queue == q12 \o q3
<1>1. AttackExecuted(world, w, a, t, spell, id, o)
        = FollowUpOpened(world, ActionState(w, a, touched, gained, cid), queue, {})
  BY Zenon DEF AttackExecuted
<1>2. queue \in Seq(Asking)
  <2>1. q1 \in Seq(Asking) /\ q2 \in Seq(Asking) /\ q3 \in Seq(Asking)
    BY AskingFollowUps DEF Opening
  <2> HIDE DEF q1, q2, q3
  <2>2. QED
    BY <2>1
<1>3. \A e \in gained : e.on # a /\ e.on \in touched
  <2>1. \A e \in gained : e.on = t /\ o.hit /\ spell.effect # "none"
    BY GainedOn
  <2>2. (\E e \in gained : TRUE) => o.touched
    BY <2>1 DEF MayPassBy
  <2>3. QED
    BY <2>1, <2>2
<1> HIDE DEF cid, gained, touched, queue
<1>4. QED
  BY <1>1, <1>2, <1>3, ExecutedPlanned


-----------------------------------------------------------------------------
(* Decisions that are opened. *)

Forms(p, type, source, target, id, spell, rest, followUps) ==
    /\ IsAsked(p) /\ p.type = type /\ p.source = source /\ p.target = target
    /\ p.id = id /\ p.spell = spell /\ p.rest = rest /\ p.followUps = followUps

LEMMA AskForms ==
    ASSUME NEW type, NEW decider, NEW source, NEW target
    PROVE  Forms(Ask(type, decider, source, target), type, source, target, 0, WeaponAttack,
                 << >>, << >>)
  BY DEF Ask, Forms, IsAsked

LEMMA FormsFields ==
    ASSUME NEW p, NEW type, NEW source, NEW target, NEW id, NEW spell, NEW rest, NEW followUps,
           Forms(p, type, source, target, id, spell, rest, followUps), NEW x
    PROVE  /\ Forms([p EXCEPT !.id = x], type, source, target, x, spell, rest, followUps)
           /\ Forms([p EXCEPT !.spell = x], type, source, target, id, x, rest, followUps)
           /\ Forms([p EXCEPT !.rest = x], type, source, target, id, spell, x, followUps)
           /\ Forms([p EXCEPT !.darts = x], type, source, target, id, spell, rest, followUps)
           /\ Forms([p EXCEPT !.followUps = x], type, source, target, id, spell, rest, x)
           /\ Forms([p EXCEPT !.attack = x], type, source, target, id, spell, rest, followUps)
<1> USE DEF Forms, IsAsked
<1>1. Forms([p EXCEPT !.id = x], type, source, target, x, spell, rest, followUps)
  OBVIOUS
<1>2. Forms([p EXCEPT !.spell = x], type, source, target, id, x, rest, followUps)
  OBVIOUS
<1>3. Forms([p EXCEPT !.rest = x], type, source, target, id, spell, x, followUps)
  OBVIOUS
<1>4. Forms([p EXCEPT !.darts = x], type, source, target, id, spell, rest, followUps)
  OBVIOUS
<1>5. Forms([p EXCEPT !.followUps = x], type, source, target, id, spell, rest, x)
  OBVIOUS
<1>6. Forms([p EXCEPT !.attack = x], type, source, target, id, spell, rest, followUps)
  OBVIOUS
<1> HIDE DEF Forms, IsAsked
<1>7. QED
  BY <1>1, <1>2, <1>3, <1>4, <1>5, <1>6

\* Blocking the Attack action that asks changes nothing else in what is asked.
LEMMA WaitsForms ==
    ASSUME NEW w, IsWorld(w), NEW type, NEW source, NEW target, NEW id, NEW spell, NEW rest,
           NEW followUps, Forms(w.pending, type, source, target, id, spell, rest, followUps),
           NEW a, NEW inAction
    PROVE  LET v == Waits(w, a, inAction)
           IN /\ Frame(w, v)
              /\ Forms(v.pending, type, source, target, id, spell, rest, followUps)
<1> DEFINE v == Waits(w, a, inAction)
           blocked(x, y) == [[w EXCEPT !.attack = x] EXCEPT !.pending = y]
<1>1. AttackActionBlocked(w, a) = blocked([w.attack EXCEPT ![a].blocked = TRUE],
                                          [w.pending EXCEPT !.attack = TRUE])
  BY DEF IsWorld, AttackActionBlocked
<1>2. ASSUME NEW x, NEW y PROVE Frame(w, blocked(x, y)) /\ blocked(x, y).pending = y
  <2>1. Frame(w, [w EXCEPT !.attack = x])
    BY DEF IsWorld, Frame
  <2>2. QED
    BY <2>1, PendingFrame DEF Frame
<1>3. Forms([w.pending EXCEPT !.attack = TRUE], type, source, target, id, spell, rest, followUps)
  BY FormsFields
<1> HIDE DEF blocked
<1>4. CASE inAction
  BY <1>1, <1>2, <1>3, <1>4 DEF Waits
<1>5. CASE ~inAction
  <2>1. v = w
    BY <1>5 DEF Waits
  <2>2. Frame(w, w)
    BY DEF Frame
  <2>3. QED
    BY <2>1, <2>2
<1>6. QED
  BY <1>4, <1>5

\* A decision is asked behind which everything waits that waited before.
LEMMA OpenedPlanned ==
    ASSUME NEW w, IsWorld(w), w.living = world.living, HazardAnswered \/ Fades(world, w),
           NEW p, NEW type, NEW source, NEW target, NEW id, NEW spell, NEW rest, NEW followUps,
           Forms(p, type, source, target, id, spell, rest, followUps), Queued(p),
           type \in ResolutionType \ {"concentration_save"},
           world.pending # NoResolution =>
              \A i \in DOMAIN world.pending.followUps :
                 \E j \in DOMAIN followUps : followUps[j] = world.pending.followUps[i],
           NEW a, NEW inAction
    PROVE  Planned(Waits([w EXCEPT !.pending = p], a, inAction))
<1> DEFINE u == [w EXCEPT !.pending = p]
           v == Waits(u, a, inAction)
<1>1. Frame(w, u) /\ u.pending = p
  BY PendingFrame
<1> HIDE DEF u
<1>2. Frame(u, v) /\ Forms(v.pending, type, source, target, id, spell, rest, followUps)
  BY <1>1, WaitsForms DEF Frame
<1> HIDE DEF v
<1>3. Frame(w, v)
  BY <1>1, <1>2 DEF Frame
<1>4. HazardAnswered \/ Fades(world, v)
  BY <1>3 DEF Fades, Frame, Incapacitated
<1>5. Queued(v.pending)
  BY <1>2 DEF Forms, Queued, Declares
<1>6. v.pending # NoResolution /\ v.pending.type # "concentration_save"
  BY <1>2 DEF Forms, ResolutionType, NoResolution
<1>7. ASSUME world.pending # NoResolution, NEW i \in DOMAIN world.pending.followUps
      PROVE  LET q == world.pending.followUps[i] IN <<q.actor, q.id>> \in Asked(v)
  <2> DEFINE q == world.pending.followUps[i]
  <2>1. PICK j \in DOMAIN followUps : followUps[j] = q
    BY <1>7
  <2>2. v.pending.followUps = followUps
    BY <1>2 DEF Forms
  <2> HIDE DEF q
  <2>3. <<q.actor, q.id>> \in Asked(v)
    BY <1>6, <2>1, <2>2 DEF Asked
  <2>4. QED
    BY <2>3 DEF q
<1>8. QED
  BY <1>3, <1>4, <1>5, <1>6, <1>7 DEF Planned, Lasting, Frame, u, v

\* A decision behind which nothing waits.
LEMMA QueuedAlone ==
    ASSUME NEW p, NEW type, NEW source, NEW target, NEW id, NEW spell, NEW rest,
           Forms(p, type, source, target, id, spell, rest, << >>),
           type # "concentration_save", type \in Suspending => source # target,
           type = "target_save" => \A i \in DOMAIN rest : rest[i] # source
    PROVE  Queued(p)
  BY DEF Forms, Queued

LEMMA AlonePlanned ==
    ASSUME FInv, Alone, NEW w, Frame(world, w),
           NEW p, NEW type, NEW source, NEW target, NEW id, NEW spell, NEW rest,
           Forms(p, type, source, target, id, spell, rest, << >>),
           type \in ResolutionType \ {"concentration_save"},
           type \in Suspending => source # target,
           type = "target_save" => \A i \in DOMAIN rest : rest[i] # source,
           NEW a, NEW inAction
    PROVE  Planned(Waits([w EXCEPT !.pending = p], a, inAction))
<1> DEFINE none == << >>
<1>1. Queued(p)
  BY QueuedAlone
<1>2. IsWorld(w) /\ w.living = world.living /\ Fades(world, w)
  BY FewerFades DEF Frame
<1>3. world.pending # NoResolution =>
         \A i \in DOMAIN world.pending.followUps :
            \E j \in DOMAIN none : none[j] = world.pending.followUps[i]
  BY AloneFacts
<1>4. Forms(p, type, source, target, id, spell, rest, none)
  OBVIOUS
<1> HIDE DEF none
<1>5. QED
  BY <1>1, <1>2, <1>3, <1>4, OpenedPlanned

LEMMA OpeningDecision ==
    ASSUME Opening
    PROVE  TInv /\ FInv /\ Alone
  BY OpeningAlone DEF Opening

-----------------------------------------------------------------------------
(* Attacks heed. *)

LEMMA AttackRolledHeeds ==
    ASSUME Opening, NEW w, Frame(world, w), w.pending = NoResolution,
           NEW a \in Actor, NEW t \in Actor, a # t, NEW spell, NEW id, NEW inAction,
           NEW suspended, AttackRolled(w, a, t, spell, id, inAction, suspended)
    PROVE  Heeds
<1> DEFINE q == Ask("attack_reaction", t, a, t)
           r == [q EXCEPT !.spell = spell]
           p == [r EXCEPT !.id = id]
           asks == Waits([w EXCEPT !.pending = p], a, inAction)
           exec(o) == AttackExecuted(world, w, a, t, spell, id, o)
           done(o) == Done(exec(o), a, inAction)
<1>1. Waits(AttackReactionOpened(w, a, t, spell, id), a, inAction) = asks
  BY Zenon DEF AttackReactionOpened
<1>2. Planned(asks)
  <2> DEFINE none == << >>
             type == "attack_reaction"
  <2>1. Forms(q, type, a, t, 0, WeaponAttack, none, none)
    BY AskForms
  <2>2. type \in ResolutionType \ {"concentration_save"} /\ type # "target_save"
    BY DEF ResolutionType
  <2> HIDE DEF q, none, type
  <2>3. Forms(r, type, a, t, 0, spell, none, none)
    BY <2>1, FormsFields
  <2> HIDE DEF r
  <2>4. Forms(p, type, a, t, id, spell, none, none)
    BY <2>3, FormsFields
  <2> HIDE DEF p
  <2>5. QED
    BY <2>2, <2>4, OpeningDecision, AlonePlanned DEF none
<1>3. \/ Committed(asks, {}, {})
      \/ \E o \in Outcomes(a, t, spell, suspended) : \E fallen : Committed(done(o), {}, fallen)
  <2> HIDE DEF asks, done
  <2>1. QED
    BY <1>1, Zenon DEF AttackRolled, done, exec
<1>4. CASE Committed(asks, {}, {})
  BY <1>2, <1>4, OpeningDecision, PlannedHeeds
<1>5. ASSUME NEW o \in Outcomes(a, t, spell, suspended), NEW fallen,
             Committed(done(o), {}, fallen)
      PROVE  Heeds
  <2>1. o.touched \/ MayPassBy(world, t, o.damage \/ (o.hit /\ spell.effect # "none"))
    BY DEF Outcomes
  <2>2. Planned(exec(o))
    BY <2>1, AttackExecutedPlanned
  <2> HIDE DEF exec
  <2>3. Planned(done(o))
    BY <2>2, DoneKept, PlannedKept DEF Planned
  <2>4. QED
    BY <1>5, <2>3, OpeningDecision, PlannedHeeds
<1>6. QED
  BY <1>3, <1>4, <1>5

LEMMA ProtectionOpenedPlanned ==
    ASSUME Opening, NEW w, Frame(world, w), NEW a, NEW t, a # t, NEW spell, NEW id,
           NEW inAction, NEW queue
    PROVE  Planned(ProtectionOpened(w, a, t, spell, id, inAction, queue))
<1> DEFINE first == Head(queue)
           rest == Tail(queue)
           none == << >>
           type == "protection_reaction"
           q == Ask(type, first, a, t)
           q1 == [q EXCEPT !.spell = spell]
           q2 == [q1 EXCEPT !.id = id]
           p == [q2 EXCEPT !.rest = rest]
<1>1. ProtectionOpened(w, a, t, spell, id, inAction, queue)
        = Waits([w EXCEPT !.pending = p], a, inAction)
  BY Zenon DEF ProtectionOpened
<1> HIDE DEF first, rest
<1>2. Forms(q, type, a, t, 0, WeaponAttack, none, none)
  BY AskForms
<1>3. type \in ResolutionType \ {"concentration_save"} /\ type # "target_save"
  BY DEF ResolutionType
<1> HIDE DEF q, none, type
<1>4. Forms(q1, type, a, t, 0, spell, none, none)
  BY <1>2, FormsFields
<1> HIDE DEF q1
<1>5. Forms(q2, type, a, t, id, spell, none, none)
  BY <1>4, FormsFields
<1> HIDE DEF q2
<1>6. Forms(p, type, a, t, id, spell, rest, none)
  BY <1>5, FormsFields
<1> HIDE DEF p
<1>7. QED
  BY <1>1, <1>3, <1>6, OpeningDecision, AlonePlanned DEF none

LEMMA AttackDeclaredHeeds ==
    ASSUME Opening, NEW w, Frame(world, w), w.pending = NoResolution,
           NEW a \in Actor, NEW t \in Actor, a # t, NEW spell, NEW id, NEW inAction,
           AttackDeclared(w, a, t, spell, id, inAction)
    PROVE  Heeds
<1>1. CASE AttackRolled(w, a, t, spell, id, inAction, FALSE)
  BY <1>1, AttackRolledHeeds
<1>2. ASSUME NEW queue, Committed(ProtectionOpened(w, a, t, spell, id, inAction, queue), {}, {})
      PROVE  Heeds
  BY <1>2, ProtectionOpenedPlanned, OpeningDecision, PlannedHeeds
<1>3. QED
  BY <1>1, <1>2 DEF AttackDeclared

LEMMA PerformWeaponAttackHeeds ==
    ASSUME IInv, TInv, FInv, NEW a, NEW t \in Actor, PerformWeaponAttack(a, t) PROVE Heeds
<1> DEFINE w == AttackEntryCommitted(world, a)
<1>1. MayAttack(world, a) /\ a # t /\ AttackDeclared(w, a, t, WeaponAttack, 0, TRUE)
  BY DEF PerformWeaponAttack
<1>2. a \in Actor /\ world.pending = NoResolution /\ Opening
  BY <1>1, MayAttackTyped DEF Opening
<1>3. Frame(world, w) /\ w.pending = NoResolution
  BY <1>2, InvFacts, EntryKept DEF Kept
<1> HIDE DEF w
<1>4. QED
  BY <1>1, <1>2, <1>3, AttackDeclaredHeeds

\* An opener is answered, perhaps by a reaction.
LEMMA AnsweredFrame ==
    ASSUME IInv, NEW a, NEW w,
           w = ResolutionClosed(world) \/ w = Reacts(ResolutionClosed(world), a)
    PROVE  Frame(world, w) /\ w.pending = NoResolution
<1> DEFINE closed == ResolutionClosed(world)
<1>1. Frame(world, closed) /\ closed.pending = NoResolution
  BY Answered
<1> HIDE DEF closed
<1>2. Kept(closed, closed) /\ Kept(closed, Reacts(closed, a))
  BY <1>1, FieldKept, ReactsKept DEF Frame
<1>3. Kept(closed, w)
  BY <1>2 DEF closed
<1>4. QED
  BY <1>1, <1>3 DEF Kept, Frame

LEMMA ResolvePendingProtectionHeeds ==
    ASSUME IInv, TInv, FInv, ResolvePendingProtection PROVE Heeds
<1> DEFINE p == world.pending
           closed == ResolutionClosed(world)
<1>1. /\ world.pending # NoResolution /\ p.type = "protection_reaction"
      /\ p.source # p.target /\ Opening
  BY DEF ResolvePendingProtection, MayDecide, FInv, Queued, Suspending, Opening, Openers
<1>2. PICK w : /\ w = closed \/ w = Reacts(closed, p.decider)
               /\ \/ Committed(ProtectionOpened(w, p.source, p.target, p.spell, p.id,
                                                p.attack, p.rest), {}, {})
                  \/ AttackRolled(w, p.source, p.target, p.spell, p.id, p.attack, TRUE)
  BY Zenon DEF ResolvePendingProtection
<1>3. p.source \in Actor /\ p.target \in Actor
  BY <1>1, ClosedTyped, DecisionTyped
<1>4. Frame(world, w) /\ w.pending = NoResolution
  BY <1>2, AnsweredFrame
<1> HIDE DEF p, closed
<1>5. CASE AttackRolled(w, p.source, p.target, p.spell, p.id, p.attack, TRUE)
  BY <1>1, <1>3, <1>4, <1>5, AttackRolledHeeds
<1>6. CASE Committed(ProtectionOpened(w, p.source, p.target, p.spell, p.id,
                                      p.attack, p.rest), {}, {})
  BY <1>1, <1>4, <1>6, ProtectionOpenedPlanned, OpeningDecision, PlannedHeeds
<1>7. QED
  BY <1>2, <1>5, <1>6

LEMMA ResolvePendingAttackHeeds ==
    ASSUME IInv, TInv, FInv, ResolvePendingAttack PROVE Heeds
<1> DEFINE p == world.pending
           closed == ResolutionClosed(world)
<1>1. /\ world.pending # NoResolution /\ p.type = "attack_reaction"
      /\ p.source # p.target /\ Opening
  BY DEF ResolvePendingAttack, MayDecide, FInv, Queued, Suspending, Opening, Openers
<1>2. PICK w, o, fallen :
               /\ w = closed \/ w = Reacts(closed, p.target)
               /\ o \in Outcomes(p.source, p.target, p.spell, FALSE)
               /\ Committed(AttackExecuted(world, Done(w, p.source, p.attack), p.source,
                                           p.target, p.spell, p.id, o), {}, fallen)
  BY Zenon DEF ResolvePendingAttack
<1>3. p.source \in Actor /\ p.target \in Actor
  BY <1>1, ClosedTyped, DecisionTyped
<1>4. Frame(world, w) /\ w.pending = NoResolution
  BY <1>2, AnsweredFrame
<1> HIDE DEF p, closed
<1> DEFINE u == Done(w, p.source, p.attack)
           v == AttackExecuted(world, u, p.source, p.target, p.spell, p.id, o)
<1>5. Frame(world, u) /\ u.pending = NoResolution
  BY <1>4, DoneKept DEF Kept, Frame
<1>6. \/ o.touched
      \/ MayPassBy(world, p.target, o.damage \/ (o.hit /\ p.spell.effect # "none"))
  BY <1>2 DEF Outcomes
<1>7. Committed(v, {}, fallen)
  BY <1>2
<1> HIDE DEF u
<1>8. Planned(v)
  BY <1>1, <1>3, <1>5, <1>6, AttackExecutedPlanned
<1> HIDE DEF v
<1>9. QED
  BY <1>1, <1>7, <1>8, OpeningDecision, PlannedHeeds

-----------------------------------------------------------------------------
(* Spells heed. *)

LEMMA DartsStrikeHeeds ==
    ASSUME Opening, NEW w, Frame(world, w), w.pending = NoResolution, NEW a \in Actor,
           NEW darts \in Seq(Actor), DartsStrike(w, a, darts)
    PROVE  Heeds
<1> DEFINE queues(damaged) == [i \in DOMAIN darts |->
                                 ConcentrationFollowUp(world, darts[i], darts[i] \in damaged)]
           none == {}
           after(touched) == ActionState(w, a, {a} \cup touched, none, 0)
<1>1. PICK damaged, touched, fallen :
         Committed(FollowUpOpened(world, after(touched), FlattenSeq(queues(damaged)), {}),
                   {}, fallen)
  BY Zenon DEF DartsStrike
<1>2. FlattenSeq(queues(damaged)) \in Seq(Asking)
  <2> DEFINE n == Len(darts)
  <2>1. n \in Nat /\ DOMAIN darts = 1 .. n /\ \A i \in 1 .. n : darts[i] \in Actor
    OBVIOUS
  <2>2. queues(damaged) \in [1 .. n -> Seq(Asking)]
    <3>1. \A i \in 1 .. n :
             ConcentrationFollowUp(world, darts[i], darts[i] \in damaged) \in Seq(Asking)
      BY <2>1, OpeningDecision, AskingFollowUps
    <3> HIDE DEF n
    <3>2. QED
      BY <2>1, <3>1
  <2> HIDE DEF n, queues
  <2>3. QED
    BY <2>1, <2>2, FlattenType
<1>3. \A e \in none : e.on # a /\ e.on \in {a} \cup touched
  OBVIOUS
<1> HIDE DEF queues, none
<1>4. Planned(FollowUpOpened(world, after(touched), FlattenSeq(queues(damaged)), {}))
  BY <1>2, <1>3, ExecutedPlanned
<1> HIDE DEF after
<1>5. QED
  BY <1>1, <1>4, OpeningDecision, PlannedHeeds

LEMMA MagicMissileOpenedHeeds ==
    ASSUME Opening, NEW w, Frame(world, w), NEW a, NEW spell, NEW darts, NEW queue,
           Committed(MagicMissileOpened(w, a, spell, darts, queue), {}, {})
    PROVE  Heeds
<1> DEFINE type == "magic_missile_reaction"
           first == Head(queue)
           rest == Tail(queue)
           none == << >>
           q == Ask(type, first, a, first)
           q1 == [q EXCEPT !.spell = spell]
           q2 == [q1 EXCEPT !.darts = darts]
           p == [q2 EXCEPT !.rest = rest]
           v == Waits([w EXCEPT !.pending = p], a, FALSE)
<1>1. MagicMissileOpened(w, a, spell, darts, queue) = v
  BY Zenon DEF MagicMissileOpened, Waits
<1> HIDE DEF first, rest
<1>2. Forms(q, type, a, first, 0, WeaponAttack, none, none)
  BY AskForms
<1>3. /\ type \in ResolutionType \ {"concentration_save"} /\ type # "target_save"
      /\ type \notin Suspending
  BY DEF ResolutionType, Suspending
<1> HIDE DEF q, none, type
<1>4. Forms(q1, type, a, first, 0, spell, none, none)
  BY <1>2, FormsFields
<1> HIDE DEF q1
<1>5. Forms(q2, type, a, first, 0, spell, none, none)
  BY <1>4, FormsFields
<1> HIDE DEF q2
<1>6. Forms(p, type, a, first, 0, spell, rest, none)
  BY <1>5, FormsFields
<1> HIDE DEF p
<1>7. Planned(v)
  BY <1>3, <1>6, OpeningDecision, AlonePlanned DEF none
<1> HIDE DEF v
<1>8. QED
  BY <1>1, <1>7, OpeningDecision, PlannedHeeds

LEMMA MagicMissileHeeds ==
    ASSUME Opening, NEW w, Frame(world, w), w.pending = NoResolution, NEW a \in Actor,
           NEW spell, NEW targets \in Seq(Actor), MagicMissile(w, a, spell, targets)
    PROVE  Heeds
<1>1. PICK immune, queue :
         \/ DartsStrike(w, a, Filtered(targets, Actor \ immune))
         \/ Committed(MagicMissileOpened(w, a, spell, Filtered(targets, Actor \ immune), queue),
                      {}, {})
  BY Zenon DEF MagicMissile
<1> DEFINE darts == Filtered(targets, Actor \ immune)
<1>2. darts \in Seq(Actor)
  BY FilteredType
<1>3. \/ DartsStrike(w, a, darts)
      \/ Committed(MagicMissileOpened(w, a, spell, darts, queue), {}, {})
  BY <1>1
<1> HIDE DEF darts
<1>4. QED
  BY <1>2, <1>3, DartsStrikeHeeds, MagicMissileOpenedHeeds

LEMMA ResolveMagicMissileReactionHeeds ==
    ASSUME IInv, TInv, FInv, ResolveMagicMissileReaction PROVE Heeds
<1> DEFINE p == world.pending
           closed == ResolutionClosed(world)
<1>1. world.pending # NoResolution /\ Opening
  BY DEF ResolveMagicMissileReaction, MayDecide, Opening, Openers
<1>2. PICK w, darts :
         /\ w = closed \/ w = Reacts(closed, p.decider)
         /\ darts = SeqWithout(p.darts, p.decider) \/ darts = p.darts
         /\ \/ DartsStrike(w, p.source, darts)
            \/ Committed(MagicMissileOpened(w, p.source, p.spell, darts, p.rest), {}, {})
  BY Zenon DEF ResolveMagicMissileReaction
<1>3. p.source \in Actor /\ p.darts \in Seq(Actor)
  BY <1>1, ClosedTyped, DecisionTyped
<1>4. Frame(world, w) /\ w.pending = NoResolution
  BY <1>2, AnsweredFrame
<1> HIDE DEF p, closed
<1>5. darts \in Seq(Actor)
  BY <1>2, <1>3, FilteredType DEF SeqWithout
<1>6. QED
  BY <1>1, <1>2, <1>3, <1>4, <1>5, DartsStrikeHeeds, MagicMissileOpenedHeeds

\* The first target is asked; nobody is asked to save against himself.
LEMMA SaveOpenedPlanned ==
    ASSUME NEW w, IsWorld(w), w.living = world.living, HazardAnswered \/ Fades(world, w),
           NEW a, NEW targets \in Seq(Actor), targets # << >>,
           \A i \in DOMAIN targets : targets[i] # a,
           NEW spell, NEW id, NEW followUps,
           \A j \in DOMAIN followUps : followUps[j].type = "concentration_save" =>
              /\ followUps[j].id # 0
              /\ spell.concentration => followUps[j].id # id,
           world.pending # NoResolution =>
              \A i \in DOMAIN world.pending.followUps :
                 \E j \in DOMAIN followUps : followUps[j] = world.pending.followUps[i],
           NEW inAction
    PROVE  Planned(Waits(TargetSaveOpened(w, a, targets, spell, id, followUps), a, inAction))
<1> DEFINE type == "target_save"
           first == Head(targets)
           rest == Tail(targets)
           none == << >>
           q == Ask(type, first, a, first)
           q1 == [q EXCEPT !.spell = spell]
           q2 == [q1 EXCEPT !.id = id]
           q3 == [q2 EXCEPT !.rest = rest]
           p == [q3 EXCEPT !.followUps = followUps]
<1>1. TargetSaveOpened(w, a, targets, spell, id, followUps) = [w EXCEPT !.pending = p]
  BY Zenon DEF TargetSaveOpened
<1>2. first # a /\ \A i \in DOMAIN rest : rest[i] # a
  <2>1. Len(targets) \in Nat /\ DOMAIN targets = 1 .. Len(targets) /\ Len(targets) > 0
    OBVIOUS
  <2>2. first = targets[1] /\ first # a
    BY <2>1
  <2>3. /\ rest \in Seq(Actor) /\ Len(rest) = Len(targets) - 1
        /\ \A i \in 1 .. (Len(targets) - 1) : rest[i] = targets[i + 1]
    BY <2>1
  <2> HIDE DEF rest
  <2>4. DOMAIN rest = 1 .. (Len(targets) - 1)
    BY <2>3
  <2>5. \A i \in DOMAIN rest : i + 1 \in DOMAIN targets /\ rest[i] = targets[i + 1]
    BY <2>1, <2>3, <2>4
  <2>6. QED
    BY <2>2, <2>5
<1> HIDE DEF first, rest
<1>3. Forms(q, type, a, first, 0, WeaponAttack, none, none)
  BY AskForms
<1>4. type \in ResolutionType \ {"concentration_save"} /\ type = "target_save" /\ type \in Savings
  BY DEF ResolutionType, Savings
<1> HIDE DEF q, none, type
<1>5. Forms(q1, type, a, first, 0, spell, none, none)
  BY <1>3, FormsFields
<1> HIDE DEF q1
<1>6. Forms(q2, type, a, first, id, spell, none, none)
  BY <1>5, FormsFields
<1> HIDE DEF q2
<1>7. Forms(q3, type, a, first, id, spell, rest, none)
  BY <1>6, FormsFields
<1> HIDE DEF q3
<1>8. Forms(p, type, a, first, id, spell, rest, followUps)
  BY <1>7, FormsFields
<1> HIDE DEF p
<1>9. Queued(p)
  BY <1>2, <1>4, <1>8 DEF Forms, Queued, Declares
<1>10. Planned(Waits([w EXCEPT !.pending = p], a, inAction))
  BY <1>4, <1>8, <1>9, OpenedPlanned
<1>11. QED
  BY <1>1, <1>10

LEMMA UseActionHeeds ==
    ASSUME IInv, TInv, FInv, NEW a, NEW spell \in Spells[a], NEW targets \in Targets,
           UseAction(a, spell, targets)
    PROVE  Heeds
<1> DEFINE w == Pays(world, a)
           id == FreshId(world)
           t == Head(targets)
           cid == IF spell.concentration THEN id ELSE 0
<1>1. MayAct(world, a) /\ \A i \in DOMAIN targets : targets[i] # a
  BY DEF UseAction
<1>2. a \in Actor /\ world.pending = NoResolution /\ Opening
  BY <1>1, MayActTyped DEF Opening
<1>3. spell.resolution \in {"attack", "save", "darts", "none"}
  BY <1>2, RulesAssumption DEF Execution
<1>4. targets \in Seq(Actor) /\ targets # << >> /\ t \in Actor /\ t # a
  <2>1. targets \in Seq(Actor) /\ targets # << >>
    BY RulesAssumption
  <2>2. 1 \in DOMAIN targets /\ t = targets[1] /\ t \in Actor
    BY <2>1
  <2>3. QED
    BY <1>1, <2>1, <2>2
<1>5. \/ MagicMissile(w, a, spell, targets)
      \/ Committed(TargetSaveOpened(w, a, targets, spell, id, << >>), {}, {})
      \/ AttackDeclared(w, a, t, spell, id, FALSE)
      \/ \E touched : /\ \/ touched = {a, t}
                         \/ touched = {a} /\ MayPassBy(world, t, spell.effect # "none")
                      /\ Committed(ActionState(w, a, touched, Gained(t, spell, id), cid), {}, {})
  <2>1. CASE spell.resolution = "darts"
    BY <2>1 DEF UseAction
  <2>2. CASE spell.resolution = "save"
    BY <2>2 DEF UseAction
  <2>3. CASE spell.resolution = "attack"
    BY <2>3 DEF UseAction
  <2>4. CASE spell.resolution = "none"
    <3>1. PICK touched \in {{a, t}} \cup (IF MayPassBy(world, t, spell.effect # "none")
                                         THEN {{a}} ELSE {}) :
             Committed(ActionState(w, a, touched, Gained(t, spell, id), cid), {}, {})
      BY <2>4 DEF UseAction
    <3> HIDE DEF w, id, t, cid
    <3>2. touched = {a, t} \/ (touched = {a} /\ MayPassBy(world, t, spell.effect # "none"))
      BY <3>1
    <3>3. QED
      BY <3>1, <3>2
  <2>5. QED
    BY <1>3, <2>1, <2>2, <2>3, <2>4
<1>6. Frame(world, w) /\ w.pending = NoResolution
  BY <1>2, InvFacts, PaysKept DEF Kept
<1> HIDE DEF w, id, t
<1>7. CASE Committed(TargetSaveOpened(w, a, targets, spell, id, << >>), {}, {})
  <2> DEFINE none == << >>
             v == Waits(TargetSaveOpened(w, a, targets, spell, id, none), a, FALSE)
  <2>1. Committed(v, {}, {})
    BY <1>7 DEF Waits
  <2>2. \A j \in DOMAIN none : none[j].type = "concentration_save" =>
           none[j].id # 0 /\ (spell.concentration => none[j].id # id)
    OBVIOUS
  <2> HIDE DEF none
  <2>3. IsWorld(w) /\ w.living = world.living /\ Fades(world, w)
    BY <1>6, FewerFades DEF Frame
  <2>4. Planned(v)
    BY <1>1, <1>2, <1>4, <2>2, <2>3, SaveOpenedPlanned
  <2> HIDE DEF v
  <2>5. QED
    BY <2>1, <2>4, PlannedHeeds
<1>8. ASSUME NEW touched,
             touched = {a, t} \/ (touched = {a} /\ MayPassBy(world, t, spell.effect # "none")),
             Committed(ActionState(w, a, touched, Gained(t, spell, id), cid), {}, {})
      PROVE  Heeds
  <2> DEFINE gained == Gained(t, spell, id)
             v == ActionState(w, a, touched, gained, cid)
             none == << >>
  <2>1. \A e \in gained : e.on # a /\ e.on \in touched
    BY <1>4, <1>8, GainedOn DEF MayPassBy
  <2>2. none \in Seq(Asking)
    OBVIOUS
  <2> HIDE DEF gained, none, cid
  <2>3. Planned(v)
    BY <1>2, <1>6, <2>1, <2>2, ExecutedPlanned
  <2>4. Committed(v, {}, {})
    BY <1>8 DEF gained
  <2> HIDE DEF v
  <2>5. QED
    BY <2>3, <2>4, PlannedHeeds
<1>9. QED
  BY <1>2, <1>4, <1>5, <1>6, <1>7, <1>8, MagicMissileHeeds, AttackDeclaredHeeds

LEMMA UseAttackReplacementHeeds ==
    ASSUME IInv, TInv, FInv, NEW a, NEW action \in Replacements[a], NEW targets \in Targets,
           UseAttackReplacement(a, action, targets)
    PROVE  Heeds
<1> DEFINE w == IF world.attack[a].open THEN world ELSE AttackActionStarted(world, a)
           u == [w EXCEPT !.attack[a].replaced = TRUE]
           v == AttackEntryCommitted(u, a)
           none == << >>
           z == Waits(TargetSaveOpened(v, a, targets, action, 0, none), a, TRUE)
<1>1. world.pending = NoResolution
  BY DEF UseAttackReplacement, MayBeginAttackAction, MayAttack, MayAct
<1>2. IsWorld(world)
  BY InvFacts
<1>3. Committed(z, {}, {}) /\ a \notin Range(targets)
  BY DEF UseAttackReplacement
<1>4. targets \in Seq(Actor) /\ targets # << >> /\ \A i \in DOMAIN targets : targets[i] # a
  BY <1>3, RulesAssumption DEF Range
<1>5. Kept(world, w)
  BY <1>2, StartedKept, FieldKept
<1> HIDE DEF w
<1>6. Kept(w, u)
  BY <1>5, KeptWorld, FieldKept
<1> HIDE DEF u
<1>7. Kept(u, v)
  BY <1>6, KeptWorld, EntryKept
<1> HIDE DEF v
<1>8. IsWorld(v) /\ v.living = world.living /\ Fades(world, v)
  BY <1>5, <1>6, <1>7, KeptTwice, FewerFades DEF Kept, Frame
<1>9. \A j \in DOMAIN none : none[j].type = "concentration_save" =>
         none[j].id # 0 /\ (action.concentration => none[j].id # 0)
  OBVIOUS
<1> HIDE DEF none
<1>10. Planned(z)
  BY <1>1, <1>4, <1>8, <1>9, SaveOpenedPlanned
<1> HIDE DEF z
<1>11. QED
  BY <1>3, <1>10, PlannedHeeds

-----------------------------------------------------------------------------
(* Saving throws heed: what waits is asked, or its concentration has ended. *)

LEMMA Appended ==
    ASSUME NEW S, NEW s \in Seq(S), NEW t \in Seq(S)
    PROVE  LET u == s \o t
           IN /\ u \in Seq(S)
              /\ \A i \in DOMAIN s : \E j \in DOMAIN u : u[j] = s[i]
              /\ \A j \in DOMAIN u : \/ \E i \in DOMAIN s : u[j] = s[i]
                                     \/ \E i \in DOMAIN t : u[j] = t[i]
<1> DEFINE u == s \o t
           m == Len(s)
           n == Len(t)
<1>1. /\ u \in Seq(S) /\ m \in Nat /\ n \in Nat /\ Len(u) = m + n
      /\ DOMAIN s = 1 .. m /\ DOMAIN t = 1 .. n
      /\ \A j \in 1 .. (m + n) : u[j] = IF j <= m THEN s[j] ELSE t[j - m]
  OBVIOUS
<1> HIDE DEF u, m, n
<1>2. DOMAIN u = 1 .. (m + n)
  BY <1>1
<1>3. \A i \in DOMAIN s : i \in DOMAIN u /\ u[i] = s[i]
  BY <1>1, <1>2
<1>4. ASSUME NEW j \in DOMAIN u
      PROVE  (j \in DOMAIN s /\ u[j] = s[j]) \/ (j - m \in DOMAIN t /\ u[j] = t[j - m])
  BY <1>1, <1>2
<1>5. QED
  BY <1>1, <1>3, <1>4 DEF u

LEMMA FollowUpsAsking ==
    ASSUME TInv, FInv, world.pending # NoResolution
    PROVE  world.pending.followUps \in Seq(Asking)
<1> DEFINE s == world.pending.followUps
<1>1. s \in Seq(FollowUp)
  BY ClosedTyped, DecisionTyped
<1>2. \A i \in DOMAIN s : s[i].type = "concentration_save" => s[i].id # 0
  BY DEF FInv, Queued
<1> HIDE DEF s
<1>3. \A i \in DOMAIN s : s[i] \in Asking
  BY <1>1, <1>2 DEF Asking
<1>4. s \in Seq(Asking)
  BY <1>1, <1>3
<1>5. QED
  BY <1>4 DEF s

\* A save that is answered: the concentrations it ended are not asked about.
LEMMA SaveAnswered ==
    ASSUME IInv, TInv, FInv, world.pending # NoResolution, NEW cid,
           cid # 0 => Declares(world.pending) /\ cid = world.pending.id,
           NEW after, IsWorld(after), after.living = world.living,
           after.pending = NoResolution, Fades(world, after),
           \A a \in Actor : \/ after.concentration[a] \in {0, world.concentration[a]}
                            \/ cid # 0 /\ after.concentration[a] = cid,
           NEW done, Kept(after, done), NEW queue \in Seq(Asking)
    PROVE  Planned(FollowUpOpened(world, done, world.pending.followUps \o queue,
                                  Ended(world, after)))
<1> DEFINE waiting == world.pending.followUps
           all == waiting \o queue
           invalid == Ended(world, after)
<1>1. /\ all \in Seq(Asking)
      /\ \A i \in DOMAIN waiting : \E j \in DOMAIN all : all[j] = waiting[i]
  <2>1. waiting \in Seq(Asking)
    BY FollowUpsAsking
  <2> HIDE DEF waiting
  <2>2. QED
    BY <2>1, Appended
<1>2. /\ IsWorld(done) /\ done.living = world.living /\ done.pending = NoResolution
      /\ done.concentration = after.concentration
  BY DEF Kept, Frame
<1>3. Fades(world, done)
  BY DEF Kept, Frame, Fades, Incapacitated
<1>4. ASSUME NEW a \in Actor
      PROVE  world.concentration[a] \notin invalid => done.concentration[a] = world.concentration[a]
  BY <1>2 DEF Ended
<1>5. ASSUME NEW i \in DOMAIN waiting, waiting[i].type = "concentration_save",
             \/ world.concentration[waiting[i].actor] # waiting[i].id
             \/ waiting[i].id \in invalid
      PROVE  done.concentration[waiting[i].actor] # waiting[i].id
  <2> DEFINE b == waiting[i].actor
             x == waiting[i].id
  <2>1. b \in Actor
    BY FollowUpActors
  <2>2. x # 0 /\ (cid # 0 => x # cid)
    BY <1>5 DEF FInv, Queued
  <2>3. world.concentration[b] # x \/ x \in invalid
    BY <1>5
  <2> HIDE DEF b, x
  <2>4. SUFFICES ASSUME after.concentration[b] = x PROVE FALSE
    BY <1>2 DEF b, x
  <2>5. world.concentration[b] = x /\ x \in invalid
    BY <2>1, <2>2, <2>3, <2>4
  <2>6. PICK c \in Actor : world.concentration[c] = x /\ after.concentration[c] # x
    BY <2>5 DEF Ended
  <2>7. c # b
    BY <2>4, <2>6
  <2>8. world.concentration[c] # world.concentration[b]
    BY <2>1, <2>2, <2>6, <2>7, Differ
  <2>9. QED
    BY <2>5, <2>6, <2>8
<1> HIDE DEF all, invalid
<1>6. \A i \in DOMAIN world.pending.followUps :
         LET q == world.pending.followUps[i]
         IN /\ \E j \in DOMAIN all : all[j] = q
            /\ /\ q.type = "concentration_save"
               /\ world.concentration[q.actor] # q.id \/ q.id \in invalid
               => done.concentration[q.actor] # q.id
  BY <1>1, <1>5
<1> HIDE DEF waiting
<1>7. Planned(FollowUpOpened(world, done, all, invalid))
  BY <1>1, <1>2, <1>3, <1>4, <1>6, FollowUpPlanned
<1>8. QED
  BY <1>7 DEF all, invalid, waiting

\* The runtime of a decision's source and target is written.
LEMMA AnsweredState ==
    ASSUME IInv, NEW source, source \in Actor, NEW touched, NEW gained, NEW id,
           \A e \in gained : e.on # source /\ e.on \in touched
    PROVE  LET v == ActionState(ResolutionClosed(world), source, touched, gained, id)
           IN /\ IsWorld(v) /\ v.living = world.living /\ v.pending = NoResolution
              /\ Fades(world, v)
              /\ \A a \in Actor : v.concentration[a] \in {0, world.concentration[a]}
                                  \/ (id # 0 /\ v.concentration[a] = id)
<1> DEFINE closed == ResolutionClosed(world)
           v == ActionState(closed, source, touched, gained, id)
<1>1. Frame(world, closed) /\ closed.pending = NoResolution
  BY Answered
<1> HIDE DEF closed
<1>2. IsWorld(closed)
  BY <1>1 DEF Frame
<1>3. \A a \in Actor : a # source /\ closed.concentration[a] # 0
                         => closed.concentration[a] # closed.concentration[source]
  BY <1>1, Differ DEF Frame
<1>4. /\ IsWorld(v) /\ v.living = closed.living /\ v.pending = closed.pending
      /\ Fades(closed, v)
      /\ \A a \in Actor : v.concentration[a] \in {0, closed.concentration[a]}
                          \/ (id # 0 /\ v.concentration[a] = id)
  BY <1>2, <1>3, ActionStateFades
<1> HIDE DEF v
<1>5. Fades(world, v)
  BY <1>1, <1>4 DEF Frame, Fades, Incapacitated
<1>6. QED
  BY <1>1, <1>4, <1>5 DEF Frame, closed, v

LEMMA ResolvePendingSaveHeeds == ASSUME IInv, TInv, FInv, ResolvePendingSave PROVE Heeds
<1> DEFINE p == world.pending
           t == p.target
           final == p.rest = << >>
<1>1. /\ world.pending # NoResolution /\ p.type = "target_save"
      /\ p.source # t /\ \A i \in DOMAIN p.rest : p.rest[i] # p.source
  BY DEF ResolvePendingSave, MayDecide, FInv, Queued, Suspending
<1>2. PICK failed, damage, passed \in BOOLEAN :
         \E fallen \in Falling(world, IF damage THEN {t} ELSE {}) :
           LET u == TargetSaveAnswered(p, failed, passed)
               q == p.followUps \o ConcentrationFollowUp(world, t, damage)
           IN /\ passed => MayPassBy(world, t, damage \/ (failed /\ p.spell.effect # "none"))
              /\ Committed(IF final
                        THEN FollowUpOpened(world, Done(u, p.source, p.attack), q, Ended(world, u))
                        ELSE Waits(TargetSaveOpened(u, p.source, p.rest, p.spell, p.id, q),
                                   p.source, p.attack), {}, fallen)
  BY DEF ResolvePendingSave
<1> DEFINE after == TargetSaveAnswered(p, failed, passed)
           added == ConcentrationFollowUp(world, t, damage)
           queue == p.followUps \o added
           cid == IF final /\ p.spell.concentration THEN p.id ELSE 0
           touched == {p.source} \cup (IF passed THEN {} ELSE {t})
           gained == IF failed THEN Gained(t, p.spell, p.id) ELSE {}
<1>3. PICK fallen :
           Committed(IF final
                     THEN FollowUpOpened(world, Done(after, p.source, p.attack), queue,
                                         Ended(world, after))
                     ELSE Waits(TargetSaveOpened(after, p.source, p.rest, p.spell, p.id, queue),
                                p.source, p.attack), {}, fallen)
  BY <1>2
<1>4. passed => MayPassBy(world, t, damage \/ (failed /\ p.spell.effect # "none"))
  BY <1>2
<1>5. p.source \in Actor /\ t \in Actor /\ p.rest \in Seq(Actor)
  BY <1>1, ClosedTyped, DecisionTyped
<1>6. /\ IsWorld(after) /\ after.living = world.living /\ after.pending = NoResolution
      /\ Fades(world, after)
      /\ \A a \in Actor : \/ after.concentration[a] \in {0, world.concentration[a]}
                          \/ cid # 0 /\ after.concentration[a] = cid
  <2>1. \A e \in gained : e.on # p.source /\ e.on \in touched
    <3>1. \A e \in gained : e.on = t /\ failed /\ p.spell.effect # "none"
      BY GainedOn
    <3>2. (\E e \in gained : TRUE) => ~passed
      BY <1>4, <3>1 DEF MayPassBy
    <3> HIDE DEF gained, p
    <3>3. QED
      BY <1>1, <3>1, <3>2
  <2>2. after = ActionState(ResolutionClosed(world), p.source, touched, gained, cid)
    BY DEF TargetSaveAnswered
  <2> HIDE DEF after, touched, gained, cid, p
  <2>3. QED
    BY <1>5, <2>1, <2>2, AnsweredState
<1>7. /\ added \in Seq(Asking)
      /\ \A i \in DOMAIN added : added[i].id = world.concentration[t]
  BY <1>5, AskingFollowUps
<1>8. cid # 0 => Declares(world.pending) /\ cid = world.pending.id
  BY <1>1 DEF Declares
<1> HIDE DEF after, added, touched, gained
<1>9. CASE final
  <2> DEFINE done == Done(after, p.source, p.attack)
             v == FollowUpOpened(world, done, queue, Ended(world, after))
  <2>1. Kept(after, done)
    BY <1>6, DoneKept
  <2>2. Committed(v, {}, fallen)
    BY <1>3, <1>9
  <2> HIDE DEF done, cid
  <2>3. Planned(v)
    BY <1>1, <1>6, <1>7, <1>8, <2>1, SaveAnswered
  <2> HIDE DEF v
  <2>4. QED
    BY <2>2, <2>3, PlannedHeeds
<1>10. CASE ~final
  <2> DEFINE v == Waits(TargetSaveOpened(after, p.source, p.rest, p.spell, p.id, queue),
                        p.source, p.attack)
  <2>1. /\ queue \in Seq(Asking)
        /\ \A i \in DOMAIN p.followUps : \E j \in DOMAIN queue : queue[j] = p.followUps[i]
        /\ \A j \in DOMAIN queue : \/ \E i \in DOMAIN p.followUps : queue[j] = p.followUps[i]
                                   \/ \E i \in DOMAIN added : queue[j] = added[i]
    <3> DEFINE waiting == p.followUps
    <3>1. waiting \in Seq(Asking)
      BY <1>1, FollowUpsAsking
    <3> HIDE DEF waiting
    <3>2. /\ waiting \o added \in Seq(Asking)
          /\ \A i \in DOMAIN waiting :
                \E j \in DOMAIN (waiting \o added) : (waiting \o added)[j] = waiting[i]
          /\ \A j \in DOMAIN (waiting \o added) :
                \/ \E i \in DOMAIN waiting : (waiting \o added)[j] = waiting[i]
                \/ \E i \in DOMAIN added : (waiting \o added)[j] = added[i]
      BY <1>7, <3>1, Appended
    <3>3. QED
      BY <3>2 DEF waiting
  <2>2. p.spell.concentration => Declares(world.pending) /\ Fresh(world, p.id)
    BY <1>1 DEF IInv, Sound, Declares, Ready
  <2>3. \A i \in DOMAIN p.followUps : p.followUps[i].type = "concentration_save" =>
           /\ p.followUps[i].id # 0
           /\ p.spell.concentration => p.followUps[i].id # p.id
    BY <1>1, <2>2 DEF FInv, Queued
  <2>4. \A i \in DOMAIN added : added[i].type = "concentration_save" =>
           /\ added[i].id # 0
           /\ p.spell.concentration => added[i].id # p.id
    <3>1. \A i \in DOMAIN added : added[i] \in Asking
      BY <1>7
    <3> HIDE DEF p, t
    <3>2. \A i \in DOMAIN added : added[i].type = "concentration_save" => added[i].id # 0
      BY <3>1 DEF Asking
    <3>3. QED
      BY <1>5, <1>7, <2>2, <3>2 DEF Fresh
  <2> HIDE DEF queue
  <2>5. \A j \in DOMAIN queue : queue[j].type = "concentration_save" =>
           /\ queue[j].id # 0
           /\ p.spell.concentration => queue[j].id # p.id
    BY <2>1, <2>3, <2>4
  <2>6. world.pending # NoResolution =>
           \A i \in DOMAIN world.pending.followUps :
              \E j \in DOMAIN queue : queue[j] = world.pending.followUps[i]
    BY <2>1
  <2>7. Committed(v, {}, fallen)
    BY <1>3, <1>10
  <2>8. p.rest # << >>
    BY <1>10
  <2> DEFINE b == p.source
             rest == p.rest
             spell == p.spell
             id == p.id
  <2>9. /\ b \in Actor /\ rest \in Seq(Actor) /\ rest # << >>
        /\ \A i \in DOMAIN rest : rest[i] # b
        /\ \A j \in DOMAIN queue : queue[j].type = "concentration_save" =>
              queue[j].id # 0 /\ (spell.concentration => queue[j].id # id)
    BY <1>1, <1>5, <2>5, <2>8
  <2> HIDE DEF b, rest, spell, id
  <2>10. Planned(Waits(TargetSaveOpened(after, b, rest, spell, id, queue), b, p.attack))
    BY <1>6, <2>6, <2>9, SaveOpenedPlanned
  <2>11. Planned(v)
    BY <2>10 DEF b, rest, spell, id
  <2> HIDE DEF v
  <2>12. QED
    BY <2>7, <2>11, PlannedHeeds
<1>11. QED
  BY <1>9, <1>10

LEMMA ResolveMasterySaveHeeds == ASSUME IInv, TInv, FInv, ResolveMasterySave PROVE Heeds
<1> DEFINE p == world.pending
           none == {}
           zero == 0
           after(touched) == ActionState(ResolutionClosed(world), p.source, touched, none, zero)
           added(damage) == ConcentrationFollowUp(world, p.target, damage)
<1>1. world.pending # NoResolution
  BY DEF ResolveMasterySave, MayDecide
<1>2. PICK damage, touched, fallen :
         Committed(FollowUpOpened(world, after(touched), p.followUps \o added(damage),
                                  Ended(world, after(touched))), {}, fallen)
  BY Zenon DEF ResolveMasterySave
<1>3. p.source \in Actor /\ p.target \in Actor
  BY <1>1, ClosedTyped, DecisionTyped
<1>4. added(damage) \in Seq(Asking)
  BY <1>3, AskingFollowUps
<1>5. (\A e \in none : e.on # p.source /\ e.on \in touched) /\ zero = 0
  OBVIOUS
<1> HIDE DEF p, none, zero, added
<1> DEFINE u == after(touched)
<1>6. /\ IsWorld(u) /\ u.living = world.living /\ u.pending = NoResolution /\ Fades(world, u)
      /\ \A a \in Actor : \/ u.concentration[a] \in {0, world.concentration[a]}
                          \/ zero # 0 /\ u.concentration[a] = zero
  BY <1>3, <1>5, AnsweredState
<1> DEFINE queue == added(damage)
           v == FollowUpOpened(world, u, world.pending.followUps \o queue, Ended(world, u))
<1>7. Committed(v, {}, fallen)
  BY <1>2 DEF p
<1> HIDE DEF u, queue
<1>8. Kept(u, u)
  BY <1>6 DEF Kept, Frame
<1>9. Planned(v)
  BY <1>1, <1>4, <1>5, <1>6, <1>8, SaveAnswered DEF queue
<1> HIDE DEF v
<1>10. QED
  BY <1>7, <1>9, PlannedHeeds

LEMMA ClearedFacts ==
    ASSUME NEW w, IsWorld(w), w.concentration \in [Actor -> Nat], NEW a \in Actor
    PROVE  LET v == ConcentrationCleared(w, a)
           IN /\ IsWorld(v) /\ v.living = w.living /\ v.pending = w.pending
              /\ v.effects \subseteq w.effects
              /\ \A b \in Actor : v.concentration[b] = IF b = a THEN 0 ELSE w.concentration[b]
<1> DEFINE kept == Unlinked(w.effects, {w.concentration[a]})
           conc == [w.concentration EXCEPT ![a] = 0]
           v == ConcentrationCleared(w, a)
<1>1. v = Wrote(w, kept, conc)
  BY DEF ConcentrationCleared, Wrote
<1>2. kept \subseteq w.effects
  BY DEF Unlinked
<1>3. \A b \in Actor : conc[b] = IF b = a THEN 0 ELSE w.concentration[b]
  OBVIOUS
<1> HIDE DEF v, kept, conc
<1>4. /\ IsWorld(v) /\ v.living = w.living /\ v.pending = w.pending
      /\ v.effects = kept /\ v.concentration = conc
  BY <1>1, Rewritten
<1>5. QED
  BY <1>2, <1>3, <1>4 DEF v

LEMMA ResolveConcentrationSaveHeeds ==
    ASSUME IInv, TInv, FInv, ResolveConcentrationSave PROVE Heeds
<1> DEFINE p == world.pending
           a == p.decider
           queue == p.followUps
           closed == ResolutionClosed(world)
           cleared == ConcentrationCleared(closed, a)
<1>1. /\ world.pending # NoResolution /\ p.type = "concentration_save" /\ p.id # 0
      /\ world.concentration[a] = p.id
  BY DEF ResolveConcentrationSave, MayDecide, FInv, Queued
<1>2. PICK after, invalid :
         /\ \/ after = closed /\ invalid = {}
            \/ after = cleared /\ invalid = {p.id}
         /\ Committed(FollowUpOpened(world, after, queue, invalid), {}, {})
  BY DEF ResolveConcentrationSave
<1>3. a \in Actor
  BY <1>1, ClosedTyped, DecisionTyped
<1>4. queue \in Seq(Asking)
  BY <1>1, FollowUpsAsking
<1>5. /\ Frame(world, closed) /\ closed.pending = NoResolution
      /\ closed.concentration \in [Actor -> Nat]
  BY Answered DEF Bare
<1> HIDE DEF closed
<1>6. /\ IsWorld(after) /\ after.living = world.living /\ after.pending = NoResolution
      /\ after.effects \subseteq world.effects
      /\ \A b \in Actor : after.concentration[b]
            = IF after = cleared /\ b = a THEN 0 ELSE world.concentration[b]
  <2> HIDE DEF p, a
  <2>1. CASE after = cleared
    <3>1. /\ IsWorld(cleared) /\ cleared.living = closed.living
          /\ cleared.pending = closed.pending /\ cleared.effects \subseteq closed.effects
          /\ \A b \in Actor : cleared.concentration[b]
                = IF b = a THEN 0 ELSE closed.concentration[b]
      BY <1>3, <1>5, ClearedFacts DEF Frame
    <3> HIDE DEF cleared
    <3>2. QED
      BY <1>5, <2>1, <3>1 DEF Frame
  <2>2. CASE after # cleared
    <3> HIDE DEF cleared
    <3>1. after = closed
      BY <1>2, <2>2
    <3>2. QED
      BY <1>5, <2>2, <3>1 DEF Frame
  <2>3. QED
    BY <2>1, <2>2
<1> HIDE DEF cleared
<1>7. \A b \in Actor : world.concentration[b] \notin invalid
                         => after.concentration[b] = world.concentration[b]
  <2>1. CASE invalid = {p.id}
    BY <1>1, <1>6, <2>1
  <2>2. CASE invalid # {p.id}
    <3>1. after = closed
      BY <1>2, <2>2
    <3>2. QED
      BY <1>5, <3>1 DEF Frame
  <2>3. QED
    BY <2>1, <2>2
<1>8. ASSUME NEW i \in DOMAIN queue, queue[i].type = "concentration_save",
             \/ world.concentration[queue[i].actor] # queue[i].id
             \/ queue[i].id \in invalid
      PROVE  after.concentration[queue[i].actor] # queue[i].id
  <2> DEFINE b == queue[i].actor
             x == queue[i].id
  <2>1. b \in Actor
    BY <1>1, FollowUpActors
  <2>2. x # 0
    BY <1>1, <1>8 DEF FInv, Queued
  <2>3. world.concentration[b] # x \/ x \in invalid
    BY <1>8
  <2> HIDE DEF b, x
  <2>4. SUFFICES ASSUME after.concentration[b] = x PROVE FALSE
    BY DEF b, x
  <2>5. world.concentration[b] = x /\ x \in invalid
    BY <1>6, <2>1, <2>2, <2>3, <2>4
  <2>6. x = p.id /\ after = cleared
    BY <1>2, <2>5
  <2>7. b # a
    BY <1>6, <2>1, <2>2, <2>4, <2>6
  <2>8. world.concentration[b] # world.concentration[a]
    BY <1>3, <2>1, <2>2, <2>5, <2>7, Differ
  <2>9. QED
    BY <1>1, <2>5, <2>6, <2>8
<1>9. Fades(world, after)
  BY <1>6 DEF Fades, Incapacitated
<1>10. world.pending # NoResolution =>
         \A i \in DOMAIN world.pending.followUps :
            LET q == world.pending.followUps[i]
            IN /\ \E j \in DOMAIN queue : queue[j] = q
               /\ /\ q.type = "concentration_save"
                  /\ world.concentration[q.actor] # q.id \/ q.id \in invalid
                  => after.concentration[q.actor] # q.id
  BY <1>8
<1>11. Committed(FollowUpOpened(world, after, queue, invalid), {}, {})
  BY <1>2
<1> HIDE DEF queue, p, a
<1> DEFINE v == FollowUpOpened(world, after, queue, invalid)
<1>12. Planned(v)
  BY <1>4, <1>6, <1>7, <1>9, <1>10, FollowUpPlanned
<1> HIDE DEF v
<1>13. QED
  BY <1>11, <1>12, PlannedHeeds DEF v

-----------------------------------------------------------------------------
(* Hazards, death, grapple and Shove heed. *)

LEMMA TriggerHazardHeeds == ASSUME IInv, TInv, FInv, NEW a, TriggerHazard(a) PROVE Heeds
<1> DEFINE type == "hazard_save"
           none == << >>
           p == Ask(type, a, a, a)
           v == Waits([world EXCEPT !.pending = p], a, FALSE)
<1>1. world.pending = NoResolution /\ Committed(v, {}, {})
  BY DEF TriggerHazard, MayAct, Waits
<1>2. Alone /\ Frame(world, world)
  BY <1>1, InvFacts DEF Alone, Frame
<1>3. Forms(p, type, a, a, 0, WeaponAttack, none, none)
  BY AskForms
<1>4. /\ type \in ResolutionType \ {"concentration_save"} /\ type # "target_save"
      /\ type \notin Suspending
  BY DEF ResolutionType, Suspending
<1> HIDE DEF p, type, none
<1>5. Planned(v)
  BY <1>2, <1>3, <1>4, AlonePlanned DEF none
<1> HIDE DEF v
<1>6. QED
  BY <1>1, <1>5, PlannedHeeds

\* The one command by which somebody who concentrates is incapacitated.
LEMMA ResolveHazardSaveHeeds == ASSUME IInv, TInv, FInv, ResolveHazardSave PROVE Heeds
<1> DEFINE t == world.pending.target
           closed == ResolutionClosed(world)
           Harm(harmed) == IF harmed THEN {[on |-> t, link |-> 0, incapacitates |-> TRUE]} ELSE {}
           Hurt(harmed) == [closed EXCEPT !.effects = closed.effects \cup Harm(harmed)]
           queue(damage) == ConcentrationFollowUp(world, t, damage)
           none == {}
<1>1. world.pending # NoResolution /\ HazardAnswered /\ Alone
  BY DEF ResolveHazardSave, MayDecide, HazardAnswered, Alone, Savings
<1>2. PICK harmed, damage, died, fallen :
         Committed(FollowUpOpened(world, Hurt(harmed), queue(damage), none), died, fallen)
  BY Zenon DEF ResolveHazardSave
<1>3. t \in Actor
  BY <1>1, ClosedTyped, DecisionTyped
<1>4. queue(damage) \in Seq(Asking)
  BY <1>3, AskingFollowUps
<1>5. Frame(world, closed) /\ closed.pending = NoResolution
  BY Answered
<1> HIDE DEF closed, Harm, queue
<1> DEFINE hurt == Hurt(harmed)
<1>6. /\ IsWorld(hurt) /\ hurt.living = world.living /\ hurt.pending = NoResolution
      /\ hurt.concentration = world.concentration
  BY <1>5 DEF Frame, IsWorld
<1> HIDE DEF hurt, Hurt
<1>7. DOMAIN world.pending.followUps = {}
  BY <1>1, AloneFacts
<1>8. \A a \in Actor : world.concentration[a] \notin none
                         => hurt.concentration[a] = world.concentration[a]
  BY <1>6
<1> DEFINE waits == queue(damage)
           v == FollowUpOpened(world, hurt, waits, none)
<1>9. world.pending # NoResolution =>
         \A i \in DOMAIN world.pending.followUps :
            LET q == world.pending.followUps[i]
            IN /\ \E j \in DOMAIN waits : waits[j] = q
               /\ /\ q.type = "concentration_save"
                  /\ world.concentration[q.actor] # q.id \/ q.id \in none
                  => hurt.concentration[q.actor] # q.id
  BY <1>7
<1>10. Committed(v, died, fallen)
  BY <1>2 DEF hurt
<1> HIDE DEF none, waits
<1>11. Planned(v)
  BY <1>1, <1>4, <1>6, <1>8, <1>9, FollowUpPlanned DEF waits
<1> HIDE DEF v
<1>12. QED
  BY <1>10, <1>11, PlannedHeeds

LEMMA AdjudicateActorDeathHeeds ==
    ASSUME IInv, TInv, FInv, NEW a, AdjudicateActorDeath(a) PROVE Heeds
<1>1. world.pending = NoResolution /\ Committed(world, {a}, {})
  BY DEF AdjudicateActorDeath
<1>2. Alone /\ Frame(world, world)
  BY <1>1, InvFacts DEF Alone, Frame
<1>3. QED
  BY <1>1, <1>2, ClosedPlanned, PlannedHeeds

LEMMA PerformUnarmedStrikeHeeds ==
    ASSUME IInv, TInv, FInv, NEW a, NEW t, NEW part, PerformUnarmedStrike(a, t, part)
    PROVE  Heeds
<1> DEFINE type == "unarmed_save"
           none == << >>
           w == AttackEntryCommitted(world, a)
           q == Ask(type, t, a, t)
           p == [q EXCEPT !.id = part]
           v == Waits([w EXCEPT !.pending = p], a, TRUE)
<1>1. world.pending = NoResolution /\ Committed(v, {}, {})
  BY DEF PerformUnarmedStrike, MayAttack, MayAct, Waits
<1>2. Alone /\ Frame(world, w)
  BY <1>1, InvFacts, EntryKept DEF Alone, Kept
<1> HIDE DEF w
<1>3. Forms(q, type, a, t, 0, WeaponAttack, none, none)
  BY AskForms
<1>4. /\ type \in ResolutionType \ {"concentration_save"} /\ type # "target_save"
      /\ type \notin Suspending
  BY DEF ResolutionType, Suspending
<1> HIDE DEF q, type, none
<1>5. Forms(p, type, a, t, part, WeaponAttack, none, none)
  BY <1>3, FormsFields
<1> HIDE DEF p
<1>6. Planned(v)
  BY <1>2, <1>4, <1>5, AlonePlanned DEF none
<1> HIDE DEF v
<1>7. QED
  BY <1>1, <1>6, PlannedHeeds

LEMMA ResolveUnarmedSaveHeeds == ASSUME IInv, TInv, FInv, ResolveUnarmedSave PROVE Heeds
<1> DEFINE p == world.pending
           closed == ResolutionClosed(world)
           finished == AttackResolutionFinished(closed, p.source)
           type == "shove_outcome"
           none == << >>
           shove == Ask(type, p.source, p.source, p.target)
           v == Waits([world EXCEPT !.pending = shove], p.source, TRUE)
<1>1. Alone
  BY DEF ResolveUnarmedSave, MayDecide, Alone, Savings
<1>2. PICK x : \/ Committed(finished, {}, {})
               \/ Committed([finished EXCEPT !.grapples = x], {}, {})
               \/ Committed(v, {}, {})
  BY Zenon DEF ResolveUnarmedSave, Waits
<1>3. Frame(world, closed) /\ closed.pending = NoResolution /\ Frame(world, world)
  BY Answered, InvFacts DEF Frame
<1> HIDE DEF closed
<1>4. Frame(world, finished) /\ finished.pending = NoResolution
  BY <1>3, FinishedKept DEF Kept, Frame
<1> HIDE DEF finished
<1> DEFINE held == [finished EXCEPT !.grapples = x]
<1>5. Frame(world, held) /\ held.pending = NoResolution
  <2>1. Kept(finished, held)
    BY <1>4, FieldKept DEF Frame
  <2> HIDE DEF held
  <2>2. QED
    BY <1>4, <2>1 DEF Kept, Frame
<1>6. Committed(finished, {}, {}) \/ Committed(held, {}, {}) \/ Committed(v, {}, {})
  BY <1>2
<1> HIDE DEF held
<1>7. Planned(finished) /\ Planned(held)
  BY <1>1, <1>4, <1>5, ClosedPlanned
<1>8. Forms(shove, type, p.source, p.target, 0, WeaponAttack, none, none)
  BY AskForms
<1>9. /\ type \in ResolutionType \ {"concentration_save"} /\ type # "target_save"
      /\ type \notin Suspending
  BY DEF ResolutionType, Suspending
<1> HIDE DEF p, shove, type, none
<1>10. Planned(v)
  BY <1>1, <1>3, <1>8, <1>9, AlonePlanned DEF none
<1> HIDE DEF v
<1>11. QED
  BY <1>6, <1>7, <1>10, PlannedHeeds

LEMMA ResolveShoveOutcomeHeeds == ASSUME IInv, TInv, FInv, ResolveShoveOutcome PROVE Heeds
<1> DEFINE closed == ResolutionClosed(world)
           finished == AttackResolutionFinished(closed, world.pending.source)
<1>1. Alone /\ Committed(finished, {}, {})
  BY DEF ResolveShoveOutcome, MayDecide, Alone, Savings
<1>2. Frame(world, closed) /\ closed.pending = NoResolution
  BY Answered
<1> HIDE DEF closed
<1>3. Frame(world, finished) /\ finished.pending = NoResolution
  BY <1>2, FinishedKept DEF Kept, Frame
<1> HIDE DEF finished
<1>4. QED
  BY <1>1, <1>3, ClosedPlanned, PlannedHeeds

LEMMA EscapeGrappleHeeds == ASSUME IInv, TInv, FInv, NEW a, NEW g, EscapeGrapple(a, g) PROVE Heeds
<1> DEFINE type == "escape_grapple"
           none == << >>
           w == Pays(world, a)
           q == Ask(type, a, g.grappler, a)
           p == [q EXCEPT !.id = g.part]
           v == Waits([w EXCEPT !.pending = p], a, FALSE)
<1>1. world.pending = NoResolution /\ Committed(v, {}, {})
  BY DEF EscapeGrapple, MayAct, Waits
<1>2. Alone /\ Frame(world, w)
  BY <1>1, InvFacts, PaysKept DEF Alone, Kept
<1> HIDE DEF w
<1>3. Forms(q, type, g.grappler, a, 0, WeaponAttack, none, none)
  BY AskForms
<1>4. /\ type \in ResolutionType \ {"concentration_save"} /\ type # "target_save"
      /\ type \notin Suspending
  BY DEF ResolutionType, Suspending
<1> HIDE DEF q, type, none
<1>5. Forms(p, type, g.grappler, a, g.part, WeaponAttack, none, none)
  BY <1>3, FormsFields
<1> HIDE DEF p
<1>6. Planned(v)
  BY <1>2, <1>4, <1>5, AlonePlanned DEF none
<1> HIDE DEF v
<1>7. QED
  BY <1>1, <1>6, PlannedHeeds

LEMMA ResolveEscapeGrappleHeeds == ASSUME IInv, TInv, FInv, ResolveEscapeGrapple PROVE Heeds
<1> DEFINE closed == ResolutionClosed(world)
<1>1. PICK left : Committed([closed EXCEPT !.grapples = left], {}, {})
  BY Zenon DEF ResolveEscapeGrapple
<1>2. Alone
  BY DEF ResolveEscapeGrapple, MayDecide, Alone, Savings
<1>3. Frame(world, closed) /\ closed.pending = NoResolution
  BY Answered
<1> HIDE DEF closed
<1> DEFINE v == [closed EXCEPT !.grapples = left]
<1>4. Frame(world, v) /\ v.pending = NoResolution
  <2>1. Kept(closed, v)
    BY <1>3, FieldKept DEF Frame
  <2> HIDE DEF v
  <2>2. QED
    BY <1>3, <2>1 DEF Kept, Frame
<1> HIDE DEF v
<1>5. QED
  BY <1>1, <1>2, <1>4, ClosedPlanned, PlannedHeeds DEF v

LEMMA EndGrappleHeeds == ASSUME IInv, TInv, FInv, NEW a, NEW g, EndGrapple(a, g) PROVE Heeds
<1> DEFINE w == IF EscapeFrom(world, g) THEN ResolutionClosed(world) ELSE world
<1>1. PICK left : Committed([w EXCEPT !.grapples = left], {}, {})
  BY Zenon DEF EndGrapple
<1>2. IsWorld(w) /\ Frame(world, w)
  BY InvFacts, ClosedKept DEF Frame
<1> DEFINE v == [w EXCEPT !.grapples = left]
<1>3. Kept(w, v)
  <2> HIDE DEF w
  <2>1. QED
    BY <1>2, FieldKept
<1>4. CASE EscapeFrom(world, g)
  <2>1. Alone
    BY <1>4 DEF EscapeFrom, Alone, Savings
  <2>2. w.pending = NoResolution
    BY <1>4, InvFacts, ClosedKept
  <2> HIDE DEF w, v
  <2>3. Frame(world, v) /\ v.pending = NoResolution
    BY <1>2, <1>3, <2>2 DEF Kept, Frame
  <2>4. QED
    BY <1>1, <2>1, <2>3, ClosedPlanned, PlannedHeeds DEF v
<1>5. CASE ~EscapeFrom(world, g)
  <2>1. w = world
    BY <1>5
  <2> HIDE DEF w, v
  <2>2. Kept(world, v)
    BY <1>3, <2>1
  <2>3. QED
    BY <1>1, <2>2, KeptTidy, TidyHeeds DEF v
<1>6. QED
  BY <1>4, <1>5

-----------------------------------------------------------------------------
(* Decisions, in every state and step. *)

LEMMA DecisionHeeds == ASSUME IInv, TInv, FInv, ResolveDecision PROVE Heeds
  BY ResolvePendingProtectionHeeds, ResolvePendingAttackHeeds,
     ResolveMagicMissileReactionHeeds, ResolvePendingSaveHeeds, ResolveMasterySaveHeeds,
     ResolveConcentrationSaveHeeds, ResolveHazardSaveHeeds, ResolveUnarmedSaveHeeds,
     ResolveShoveOutcomeHeeds, ResolveEscapeGrappleHeeds
  DEF ResolveDecision

LEMMA NextHeeds ==
    ASSUME IInv, TInv, FInv, [Next]_world
    PROVE  FInv' /\ (Heeds \/ UNCHANGED world)
<1>1. CASE ResolveDecision
  BY <1>1, DecisionHeeds DEF Heeds
<1>2. ASSUME NEW a \in Actor, \/ StartEncounter(a) \/ StartTurn(a) \/ EndTurn(a)
                             \/ BeginAttackAction(a) \/ ForfeitAttackAction(a)
                             \/ TriggerHazard(a) \/ AdjudicateActorDeath(a)
      PROVE  Heeds
  BY <1>2, StartEncounterTidy, StartTurnTidy, EndTurnTidy, BeginAttackActionTidy,
     ForfeitAttackActionTidy, TidyHeeds, TriggerHazardHeeds, AdjudicateActorDeathHeeds
<1>3. ASSUME NEW a \in Actor,
           NEW t \in Actor,
             \/ SwapInitiative(a, t) \/ PerformWeaponAttack(a, t)
             \/ \E part \in 0 .. Parts[a] : PerformUnarmedStrike(a, t, part)
      PROVE  Heeds
  BY <1>3, SwapInitiativeTidy, TidyHeeds, PerformWeaponAttackHeeds, PerformUnarmedStrikeHeeds
<1>4. ASSUME NEW a \in Actor, NEW spell \in Spells[a], NEW targets \in Targets,
             UseAction(a, spell, targets)
      PROVE  Heeds
  BY <1>4, UseActionHeeds
<1>5. ASSUME NEW a \in Actor, NEW action \in Replacements[a], NEW targets \in Targets,
             UseAttackReplacement(a, action, targets)
      PROVE  Heeds
  BY <1>5, UseAttackReplacementHeeds
<1>6. ASSUME NEW a \in Actor, NEW g \in world.grapples, EscapeGrapple(a, g) \/ EndGrapple(a, g)
      PROVE  Heeds
  BY <1>6, EscapeGrappleHeeds, EndGrappleHeeds
<1>7. ASSUME NEW f \in Familiar, DismissFamiliar(f) \/ ReappearFamiliar(f)
      PROVE  Heeds
  BY <1>7, DismissFamiliarTidy, ReappearFamiliarTidy, TidyHeeds
<1>8. CASE UNCHANGED world
  BY <1>8 DEF FInv, Queued, Declares
<1>9. QED
  BY <1>1, <1>2, <1>3, <1>4, <1>5, <1>6, <1>7, <1>8 DEF Next, Heeds

\* In every state, what waits behind a decision is a saving throw behind another
\* saving throw, about a real concentration and never the declared one.
THEOREM QueueInvariant == Spec => []FInv
<1>1. Init => FInv
  BY DEF Init, FInv
<1>2. (IInv /\ TInv /\ FInv) /\ [Next]_world => FInv'
  BY NextHeeds
<1>3. QED
  BY Invariant, TypeInvariant, <1>1, <1>2, PTL DEF Spec

\* A saving throw that waits is asked, goes on waiting, or is about a
\* concentration that has ended: no answer, death or new queue loses one
\* (followUpOpenedEvents).
THEOREM FollowUpsKept == Spec => FollowUpsSurvive
<1> DEFINE waiting == {world.pending.followUps[i] :
                          i \in DOMAIN (IF world.pending = NoResolution THEN << >>
                                        ELSE world.pending.followUps)}
           kept == \A q \in waiting :
                      \/ <<q.actor, q.id>> \in Asked(world')
                      \/ q.type = "concentration_save" /\ world'.concentration[q.actor] # q.id
<1>1. Survive => kept
  BY DEF Survive, Lasting
<1> HIDE DEF kept
<1>2. IInv /\ TInv /\ FInv /\ [Next]_world => [kept]_world
  BY NextHeeds, <1>1 DEF Heeds
<1> USE DEF kept
<1>3. QED
  BY Invariant, TypeInvariant, QueueInvariant, <1>2, PTL DEF Spec, FollowUpsSurvive

\* No chain of saving throws asks somebody to keep a concentration that its
\* own answer ended (the invalid ids of followUpOpenedEvents): whoever cannot
\* answer was killed, or an attack or a Magic Missile asked him.
THEOREM DecisionsAnswerable == Spec => UnanswerableOnlyByAttackOrDeath
<1>1. IInv /\ TInv /\ FInv /\ [Next]_world =>
        [/\ world'.pending # NoResolution
         /\ world'.pending # world.pending
         /\ ~Answerable(world')
         => \/ world'.pending.decider \notin world'.living
            \/ world.pending = NoResolution
            \/ world.pending.type \in {"protection_reaction", "attack_reaction",
                                       "magic_missile_reaction"}]_world
  BY NextHeeds DEF Heeds, Replies, Openers
<1>2. QED
  BY Invariant, TypeInvariant, QueueInvariant, <1>1, PTL
  DEF Spec, UnanswerableOnlyByAttackOrDeath

\* Whoever a command incapacitates stops concentrating in that command
\* (actionStateEvents), but a hazard's victim does not.
THEOREM ConcentrationReleased == Spec => IncapacitatedLosesConcentration
<1>1. IInv /\ TInv /\ FInv /\ [Next]_world =>
        [\A a \in Actor :
            /\ world'.concentration[a] # 0
            /\ ~Incapacitated(world, a) /\ Incapacitated(world', a)
            => world.pending # NoResolution /\ world.pending.type = "hazard_save"]_world
  BY NextHeeds DEF Heeds, Releases, HazardAnswered, Fades
<1>2. QED
  BY Invariant, TypeInvariant, QueueInvariant, <1>1, PTL
  DEF Spec, IncapacitatedLosesConcentration

=============================================================================
