---------------------------- MODULE MCRulesCore ----------------------------
(***************************************************************************)
(* A hero with a familiar against a monster.  The hero casts, may react to *)
(* hits and to Magic Missile, protects and owns Alert; the monster attacks *)
(* twice or breathes instead, grapples, topples, casts Magic Missile and   *)
(* carries temporary hit points that retaliate.                            *)
(***************************************************************************)
EXTENDS RulesCore

CONSTANTS hero, monster, familiar

MCActor == {hero, monster, familiar}
MCOwner == [f \in {familiar} |-> hero]
MCAttacks == [a \in MCActor |-> IF a = monster THEN 2 ELSE 0]
MCParts == [a \in MCActor |-> IF a = monster THEN 1 ELSE 0]

\* The hero: an attack spell it concentrates on.  The monster: a saving throw
\* that damages and incapacitates while it concentrates, and Magic Missile.
MCSpells ==
    [a \in MCActor |->
       CASE a = hero -> {[resolution |-> "attack", concentration |-> TRUE,
                          damages |-> TRUE, effect |-> "none"]}
         [] a = monster -> {[resolution |-> "save", concentration |-> TRUE,
                             damages |-> TRUE, effect |-> "incapacitates"],
                            [resolution |-> "darts", concentration |-> FALSE,
                             damages |-> TRUE, effect |-> "none"]}
         [] OTHER -> {}]

\* The monster's breath in place of an attack.
MCReplacements ==
    [a \in MCActor |->
       IF a = monster THEN {[resolution |-> "save", concentration |-> FALSE,
                             damages |-> TRUE, effect |-> "none"]} ELSE {}]

MCAlert == [a \in {hero} |-> {familiar}]

MCInitiatives == {<<hero, familiar, monster>>, <<monster, hero>>}

MCTargets == {<<monster>>, <<hero>>, <<familiar, hero>>}

MCHazards ==
    [a \in MCActor |->
       CASE a = hero -> {[damages |-> TRUE, incapacitates |-> TRUE, kills |-> FALSE],
                         [damages |-> TRUE, incapacitates |-> FALSE, kills |-> TRUE]}
         [] a = familiar -> {[damages |-> TRUE, incapacitates |-> FALSE, kills |-> FALSE]}
         [] OTHER -> {}]
=============================================================================
