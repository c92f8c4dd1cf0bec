---------------------------- MODULE MCCardBattle ----------------------------
(***************************************************************************)
(* Small battles for TLC.  The templates are the shipped ones with costs,  *)
(* attack and health scaled down so that a few turns reach them.           *)
(***************************************************************************)
EXTENDS CardBattle, TLC

CONSTANTS taunt1, rattle1, rattle2, grunt2, bolt2,
          charge1, blade1, heal1, missiles1, blade2, draw2, storm2

Blank ==
  [type |-> "spell", cost |-> 1, attack |-> 0, health |-> 0, durability |-> 0,
   charge |-> FALSE, taunt |-> FALSE, rattle |-> 0, effect |-> "none",
   target |-> "none", aoe |-> FALSE, value |-> 0]

Minion(attack, health_) ==
  [Blank EXCEPT !.type = "minion", !.attack = attack, !.health = health_]
Weapon(attack, durability_) ==
  [Blank EXCEPT !.type = "weapon", !.attack = attack, !.durability = durability_]
Spell(effect, target, value) ==
  [Blank EXCEPT !.effect = effect, !.target = target, !.value = value]

\* Minions on both sides: taunt, deathrattles on both boards, a fireball.
MinionDecks == {(P1 :> <<taunt1, rattle1>>) @@ (P2 :> <<rattle2, grunt2, bolt2>>)}
MinionCards == {taunt1, rattle1, rattle2, grunt2, bolt2}
MinionOwner == [c \in MinionCards |-> IF c \in {taunt1, rattle1} THEN P1 ELSE P2]
MinionTemplate ==
  (taunt1 :> [Minion(1, 2) EXCEPT !.taunt = TRUE]) @@
  (rattle1 :> [Minion(1, 1) EXCEPT !.rattle = 1]) @@
  (rattle2 :> [Minion(1, 1) EXCEPT !.rattle = 1]) @@
  (grunt2 :> Minion(1, 2)) @@
  (bolt2 :> Spell("damage", "any", 2))

\* Spells, weapons and charge.
SpellDecks == {(P1 :> <<blade1, heal1, missiles1, charge1>>) @@
               (P2 :> <<draw2, storm2, blade2>>)}
SpellCards == {charge1, blade1, heal1, missiles1, blade2, draw2, storm2}
SpellOwner == [c \in SpellCards |->
                 IF c \in {charge1, blade1, heal1, missiles1} THEN P1 ELSE P2]
SpellTemplate ==
  (charge1 :> [Minion(2, 1) EXCEPT !.charge = TRUE]) @@
  (blade1 :> Weapon(1, 2)) @@
  (blade2 :> Weapon(2, 1)) @@
  (heal1 :> Spell("heal", "friendly", 2)) @@
  (missiles1 :> Spell("damage", "enemy", 2)) @@
  (draw2 :> Spell("draw", "none", 2)) @@
  (storm2 :> [Spell("damage", "enemy", 1) EXCEPT !.aoe = TRUE])

\* Either pair of decks, for settled clients.
SettledDecks == MinionDecks \cup SpellDecks
SettledCards == MinionCards \cup SpellCards
SettledOwner == MinionOwner @@ SpellOwner
SettledTemplate == MinionTemplate @@ SpellTemplate

\* A bit of everything, for clients faster than the tick and the frames.
MixedDecks == {(P1 :> <<blade1, rattle1, heal1>>) @@ (P2 :> <<rattle2, draw2, bolt2>>)}
MixedCards == {blade1, rattle1, heal1, rattle2, draw2, bolt2}
MixedOwner == [c \in MixedCards |-> IF c \in {blade1, rattle1, heal1} THEN P1 ELSE P2]
MixedTemplate ==
  [c \in MixedCards |-> IF c \in MinionCards THEN MinionTemplate[c] ELSE SpellTemplate[c]]
=============================================================================
