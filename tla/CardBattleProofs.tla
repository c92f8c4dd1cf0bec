-------------------------- MODULE CardBattleProofs --------------------------
(***************************************************************************)
(* Proofs, for every value of the constants, of properties of CardBattle.  *)
(***************************************************************************)
EXTENDS CardBattle, FiniteSetTheorems, SequenceTheorems, TLAPS

\* A draw is for a player: the calls the engine makes address heroes' decks.
DrawsFor(s) == \A i \in DOMAIN s : s[i].op = "draw" => s[i].who \in Player

TypeInv == TypeOK /\ DrawsFor(calls)

-----------------------------------------------------------------------------
(* The helpers of the model. *)

\* Opponent maps a player to the other one.
LEMMA OpponentType ==
  ASSUME NEW p \in Player
  PROVE  Opponent(p) \in Player /\ Opponent(p) # p
  BY BattleAssumption DEF Opponent, Player

\* Damage leaves health between zero and what it was.
LEMMA ReducedType ==
  ASSUME NEW h \in Nat, NEW damage \in Nat
  PROVE  Reduced(h, damage) \in 0..h
  BY DEF Reduced

\* So damage leaves a hero's health in its range.
LEMMA HurtType ==
  ASSUME NEW h \in 0..MaxHealth, NEW damage \in Nat
  PROVE  Reduced(h, damage) \in 0..MaxHealth
  BY BattleAssumption DEF Reduced

\* Healing stops at the maximum.
LEMMA HealedType ==
  ASSUME NEW a \in Nat, NEW n \in Nat, NEW b \in Nat
  PROVE  Least(a + n, b) \in 0..b /\ Least(a + n, b) \in Nat
  BY DEF Least

\* The shape of a template's numbers.
LEMMA TemplateType ==
  ASSUME NEW c \in Card
  PROVE  /\ Template[c].cost \in Nat /\ Template[c].attack \in Nat
         /\ Template[c].health \in Nat /\ Template[c].durability \in Nat
         /\ Template[c].rattle \in Nat /\ Template[c].value \in Nat
         /\ Template[c].charge \in BOOLEAN /\ Owner[c] \in Player
  <1>1. Template[c] \in TemplateSet
    BY BattleAssumption
  <1> QED
    BY <1>1, BattleAssumption DEF TemplateSet

\* A hit on any entity is a call.
LEMMA HitType ==
  ASSUME NEW target \in Card \cup Player \cup {NoCard},
         NEW damage \in Nat, NEW depth \in Nat
  PROVE  Hit(target, damage, depth) \in Call /\ Hit(target, damage, depth).op = "hit"
  BY DEF Hit, Call

\* HitAll is a sequence of hits.
LEMMA HitAllType ==
  ASSUME NEW minions \in Seq(Card \cup Player), NEW damage \in Nat, NEW depth \in Nat
  PROVE  /\ HitAll(minions, damage, depth) \in Seq(Call)
         /\ \A i \in DOMAIN HitAll(minions, damage, depth) :
              HitAll(minions, damage, depth)[i].op = "hit"
  <1>1. Len(minions) \in Nat /\ \A i \in 1..Len(minions) : minions[i] \in Card \cup Player
    BY LenProperties, ElementOfSeq
  <1>2. \A i \in 1..Len(minions) : /\ Hit(minions[i], damage, depth) \in Call
                                   /\ Hit(minions[i], damage, depth).op = "hit"
    BY <1>1, HitType
  <1> DEFINE hits == [i \in 1..Len(minions) |-> Hit(minions[i], damage, depth)]
  <1>3. hits \in Seq(Call)
    BY <1>1, <1>2, IsASeq
  <1> QED
    BY <1>2, <1>3 DEF HitAll

-----------------------------------------------------------------------------
(* Type correctness. *)

\* Every game starts well typed.
LEMMA TypeInit == Init => TypeInv
  <1> SUFFICES ASSUME Init PROVE TypeInv
    OBVIOUS
  <1> USE BattleAssumption
  <1>1. PICK d \in Decks :
          LET dealt == [p \in Player |-> IF p = P1 THEN Opening1 + 1 ELSE Opening2]
          IN /\ deck = [p \in Player |-> SubSeq(d[p], dealt[p] + 1, Len(d[p]))]
             /\ hand = [p \in Player |-> {d[p][i] : i \in 1..dealt[p]}]
             /\ present = Range(d[P1]) \cup Range(d[P2])
    BY DEF Init
  <1>2. \A p \in Player : d[p] \in Seq(Card)
    BY DecksAreShuffledTemplates DEF DecksAssumption
  <1>3. present \in SUBSET Card
    BY <1>1, <1>2, RangeOfSeq DEF Player
  <1>4. /\ Len(d[P1]) > Opening1 /\ Len(d[P2]) >= Opening2
    BY DecksAreShuffledTemplates DEF DecksAssumption
  <1>5. deck \in [Player -> Seq(Card)]
    <2> SUFFICES ASSUME NEW p \in Player PROVE deck[p] \in Seq(Card)
      BY <1>1
    <2> DEFINE n == IF p = P1 THEN Opening1 + 1 ELSE Opening2
    <2>1. n \in Nat /\ Len(d[p]) \in Nat
      BY <1>2, LenProperties
    <2>2. deck[p] = SubSeq(d[p], n + 1, Len(d[p]))
      BY <1>1
    <2> HIDE DEF n
    <2>3. SubSeq(d[p], n + 1, Len(d[p])) \in Seq(Card)
      BY <1>2, <2>1
    <2> QED
      BY <2>2, <2>3
  <1>6. hand \in [Player -> SUBSET Card]
    <2> SUFFICES ASSUME NEW p \in Player, NEW i \in 1..(IF p = P1 THEN Opening1 + 1 ELSE Opening2)
                 PROVE  d[p][i] \in Card
      BY <1>1
    <2>1. i \in 1..Len(d[p])
      BY <1>2, <1>4, LenProperties DEF Player
    <2> QED
      BY <1>2, <2>1, ElementOfSeq
  <1>7. \A c \in Card : Template[c].health \in Nat /\ Template[c].durability \in Nat
                        /\ Template[c].charge \in BOOLEAN
    BY TemplateType
  <1>8. board \in [Player -> Seq(Card)] /\ calls \in Seq(Call)
    BY DEF Init
  <1>9. DrawsFor(calls)
    BY DEF Init, DrawsFor
  <1>10. ready \in [Card -> BOOLEAN] /\ crashed \in BOOLEAN /\ settled \in BOOLEAN
    BY <1>7, Zenon DEF Init
  <1>11. /\ health \in [Player -> 0..MaxHealth] /\ heroAttack \in [Player -> Nat]
         /\ weapon \in [Player -> Card \cup {NoCard}]
         /\ mana \in [Player -> Nat] /\ maxMana \in [Player -> Nat]
         /\ fatigue \in [Player -> Nat]
    BY DEF Init
  <1>12. /\ hp \in [Card -> Nat] /\ attacks \in [Card -> Nat]
         /\ durability \in [Card -> Int] /\ dying \in SUBSET present
         /\ seen \in [Player -> SUBSET Card]
    BY <1>6, <1>7 DEF Init
  <1>13. /\ turn \in Nat /\ current \in Player /\ phase \in {"begin", "main"}
         /\ status \in {"playing", "finished"} /\ winner \in Player \cup {NoPlayer}
    BY DEF Init, Player
  <1> QED
    BY <1>3, <1>5, <1>6, <1>8, <1>9, <1>10, <1>11, <1>12, <1>13 DEF TypeInv, TypeOK

\* What is left of the calls once the first has returned.
LEMMA FirstCall ==
  ASSUME NEW s \in Seq(Call), DrawsFor(s), s # <<>>
  PROVE  /\ Head(s) \in Call /\ Tail(s) \in Seq(Call) /\ DrawsFor(Tail(s))
         /\ Head(s).op = "draw" => Head(s).who \in Player
  <1>1. /\ Head(s) \in Call /\ Tail(s) \in Seq(Call) /\ Len(Tail(s)) = Len(s) - 1
        /\ \A i \in 1..Len(Tail(s)) : Tail(s)[i] = s[i + 1]
    BY HeadTailProperties
  <1>2. Len(s) \in Nat /\ Len(s) # 0 /\ DOMAIN s = 1..Len(s) /\ Head(s) = s[1]
    BY LenProperties, EmptySeq
  <1>3. DOMAIN Tail(s) = 1..Len(Tail(s))
    BY <1>1, LenProperties
  <1>4. DrawsFor(Tail(s))
    BY <1>1, <1>2, <1>3 DEF DrawsFor
  <1>5. Head(s).op = "draw" => Head(s).who \in Player
    BY <1>2 DEF DrawsFor
  <1> QED
    BY <1>1, <1>4, <1>5

\* Calls made before the remaining ones.
LEMMA MoreCalls ==
  ASSUME NEW s \in Seq(Call), NEW t \in Seq(Call), DrawsFor(s), DrawsFor(t)
  PROVE  s \o t \in Seq(Call) /\ DrawsFor(s \o t)
  <1>1. /\ s \o t \in Seq(Call) /\ Len(s \o t) = Len(s) + Len(t)
        /\ \A i \in 1..Len(s) + Len(t) :
             (s \o t)[i] = IF i <= Len(s) THEN s[i] ELSE t[i - Len(s)]
    BY ConcatProperties
  <1>2. /\ Len(s) \in Nat /\ DOMAIN s = 1..Len(s) /\ Len(t) \in Nat
        /\ DOMAIN t = 1..Len(t) /\ DOMAIN (s \o t) = 1..Len(s \o t)
    BY <1>1, LenProperties
  <1> QED
    BY <1>1, <1>2 DEF DrawsFor

\* Spending no more than one has.
LEMMA MinusType ==
  ASSUME NEW m \in Nat, NEW n \in Nat, n <= m
  PROVE  m - n \in Nat
  OBVIOUS

\* What playing any card changes keeps its type.
LEMMA SpendType ==
  ASSUME TypeInv, NEW p \in Player, NEW c \in Card, Spend(p, c)
  PROVE  /\ mana' \in [Player -> Nat] /\ hand' \in [Player -> SUBSET Card]
         /\ settled' \in BOOLEAN
  <1> USE DEF TypeInv, TypeOK, Spend
  <1>1. mana' \in [Player -> Nat]
    <2>1. mana[p] \in Nat /\ Template[c].cost \in Nat /\ Template[c].cost <= mana[p]
      BY TemplateType
    <2>2. mana[p] - Template[c].cost \in Nat
      BY <2>1, MinusType
    <2> QED
      BY <2>2
  <1>2. hand' \in [Player -> SUBSET Card]
    BY DEF Taken
  <1> QED
    BY <1>1, <1>2

\* Playing a minion keeps the types.
LEMMA MinionType ==
  ASSUME TypeInv, NEW p \in Player, NEW c \in Card, PlayMinion(p, c)
  PROVE  TypeInv'
  <1> USE DEF TypeInv, TypeOK
  <1>1. Spend(p, c) /\ UNCHANGED <<health, heroAttack, weapon, dying, hp, calls>>
    BY DEF PlayMinion
  <1>2. board' \in [Player -> Seq(Card)]
    <2>1. Append(board[p], c) \in Seq(Card)
      BY AppendProperties
    <2> QED
      BY <2>1 DEF PlayMinion
  <1>3. ready' \in [Card -> BOOLEAN]
    BY TemplateType, Zenon DEF PlayMinion
  <1> QED
    BY <1>1, <1>2, <1>3, SpendType DEF Spend, gameVars, DrawsFor

\* So does equipping a weapon.
LEMMA WeaponType ==
  ASSUME TypeInv, NEW p \in Player, NEW c \in Card, PlayWeapon(p, c)
  PROVE  TypeInv'
  <1> USE DEF TypeInv, TypeOK
  <1>1. Spend(p, c) /\ UNCHANGED <<board, health, hp, ready, calls>>
    BY DEF PlayWeapon
  <1>2. /\ dying' \subseteq present /\ weapon' \in [Player -> Card \cup {NoCard}]
        /\ heroAttack' \in [Player -> Nat]
    BY TemplateType DEF PlayWeapon
  <1> QED
    BY <1>1, <1>2, SpendType DEF Spend, gameVars, DrawsFor

\* What the three kinds of spell have in common.
LEMMA SpellType ==
  ASSUME TypeInv, NEW p \in Player, NEW c \in Card, NEW e, PlaySpell(p, c, e),
         hp' \in [Card -> Nat], health' \in [Player -> 0..MaxHealth],
         calls' \in Seq(Call), DrawsFor(calls')
  PROVE  TypeInv'
  <1> USE DEF TypeInv, TypeOK
  <1>1. Spend(p, c) /\ UNCHANGED <<board, heroAttack, weapon, ready>>
    BY DEF PlaySpell
  <1>2. dying' \subseteq present
    BY DEF PlaySpell, Spend
  <1> QED
    BY <1>1, <1>2, SpendType DEF Spend, gameVars

\* What each point of missiles or each card drawn adds to the calls.
LEMMA PickedType ==
  ASSUME NEW n \in Nat, NEW foes \in SUBSET (Card \cup Player),
         NEW pick \in [1..n -> foes]
  PROVE  pick \in Seq(Card \cup Player)
  BY SeqDef

\* So does a damage spell of each kind.
LEMMA DamageSpellType ==
  ASSUME TypeInv, NEW p \in Player, NEW c \in Card, NEW t \in Targets(p),
         PlayDamageSpell(p, c, t)
  PROVE  TypeInv'
  <1> DEFINE enemy == Opponent(p)
             value == Template[c].value
             foes == {enemy} \cup (Range(board[enemy]) \cap present)
  <1>1. enemy \in Player /\ value \in Nat /\ board[enemy] \in Seq(Card)
    BY OpponentType, TemplateType DEF TypeInv, TypeOK
  <1>2. board[enemy] \in Seq(Card \cup Player)
    BY <1>1, SeqMonotonic
  <1>3. foes \in SUBSET (Card \cup Player)
    BY <1>1 DEF TypeInv, TypeOK
  <1>4. t \in Card \cup Player
    BY RangeOfSeq DEF Targets, TypeInv, TypeOK, Player
  <1>5. PlaySpell(p, c, "damage") /\ UNCHANGED <<hp, health>>
    BY DEF PlayDamageSpell
  <1>6. calls' \in Seq(Call) /\ DrawsFor(calls')
    <2>1. CASE calls' = HitAll(board[enemy], value, 0)
      BY <1>1, <1>2, <2>1, HitAllType DEF DrawsFor
    <2>2. CASE \E pick \in [1..value -> foes] : calls' = HitAll(pick, 1, 0)
      <3>1. PICK pick \in [1..value -> foes] : calls' = HitAll(pick, 1, 0)
        BY <2>2
      <3>2. pick \in Seq(Card \cup Player)
        BY <1>1, <1>3, PickedType
      <3> QED
        BY <3>1, <3>2, HitAllType DEF DrawsFor
    <2>3. CASE calls' = <<Hit(t, value, 0)>>
      BY <1>1, <1>4, <2>3, HitType DEF DrawsFor
    <2> QED
      BY <2>1, <2>2, <2>3 DEF PlayDamageSpell
  <1> QED
    BY <1>5, <1>6, SpellType DEF TypeInv, TypeOK

\* So does a healing spell.
LEMMA HealSpellType ==
  ASSUME TypeInv, NEW p \in Player, NEW c \in Card, NEW t,
         PlayHealSpell(p, c, t)
  PROVE  TypeInv'
  <1>1. PlaySpell(p, c, "heal") /\ UNCHANGED calls
    BY DEF PlayHealSpell
  <1>2. Template[c].value \in Nat
    BY TemplateType
  <1>3. hp' \in [Card -> Nat]
    <2>1. ASSUME NEW m \in Card
          PROVE  /\ hp[m] \in Nat
                 /\ Least(hp[m] + Template[c].value, Template[m].health) \in Nat
      <3>1. hp[m] \in Nat /\ Template[m].health \in Nat
        BY TemplateType DEF TypeInv, TypeOK
      <3> QED
        BY <1>2, <3>1, HealedType
    <2> QED
      BY <2>1 DEF PlayHealSpell
  <1>4. health' \in [Player -> 0..MaxHealth]
    <2>1. ASSUME NEW q \in Player
          PROVE  /\ health[q] \in 0..MaxHealth
                 /\ Least(health[q] + Template[c].value, MaxHealth) \in 0..MaxHealth
      <3>1. health[q] \in 0..MaxHealth
        BY DEF TypeInv, TypeOK
      <3>2. health[q] \in Nat /\ MaxHealth \in Nat
        BY <3>1, BattleAssumption
      <3> QED
        BY <1>2, <3>1, <3>2, HealedType
    <2> QED
      BY <2>1 DEF PlayHealSpell
  <1> QED
    BY <1>1, <1>3, <1>4, SpellType DEF TypeInv, TypeOK

\* So does a spell that draws cards.
LEMMA DrawSpellType ==
  ASSUME TypeInv, NEW p \in Player, NEW c \in Card, PlayDrawSpell(p, c)
  PROVE  TypeInv'
  <1>1. PlaySpell(p, c, "draw") /\ UNCHANGED <<hp, health>>
    BY DEF PlayDrawSpell
  <1>2. Draw(p) \in Call /\ Draw(p).who \in Player
    BY DEF Draw, Call
  <1> DEFINE drawn == [i \in 1..Template[c].value |-> Draw(p)]
  <1>3. drawn \in Seq(Call) /\ DrawsFor(drawn)
    BY <1>2, TemplateType, IsASeq DEF DrawsFor
  <1> QED
    BY <1>1, <1>3, SpellType DEF PlayDrawSpell, TypeInv, TypeOK

\* Both hits of an attack.
LEMMA ExchangeType ==
  ASSUME NEW a \in Card \cup Player, NEW power \in Nat, NEW t \in Card \cup Player
  PROVE  Exchange(a, power, t) \in Seq(Call) /\ DrawsFor(Exchange(a, power, t))
  <1>1. /\ <<Hit(t, power, 0)>> \in Seq(Call) /\ DrawsFor(<<Hit(t, power, 0)>>)
    BY HitType DEF DrawsFor
  <1>2. <<>> \in Seq(Call) /\ DrawsFor(<<>>)
    BY DEF DrawsFor
  <1>3. ASSUME t \in Card
        PROVE  /\ <<Hit(a, Template[t].attack, 0)>> \in Seq(Call)
               /\ DrawsFor(<<Hit(a, Template[t].attack, 0)>>)
    BY <1>3, TemplateType, HitType DEF DrawsFor
  <1>4. CASE t \in Card /\ IsMinion(t)
    BY <1>1, <1>3, <1>4, MoreCalls DEF Exchange
  <1>5. CASE ~(t \in Card /\ IsMinion(t))
    BY <1>1, <1>2, <1>5, MoreCalls DEF Exchange
  <1> QED
    BY <1>4, <1>5

\* So does the attack of a minion.
LEMMA MinionAttackType ==
  ASSUME TypeInv, NEW p \in Player, NEW a \in Range(board[p]),
         NEW t \in Card \cup Player, MinionAttack(p, a, t)
  PROVE  TypeInv'
  <1>1. a \in Card
    BY RangeOfSeq DEF TypeInv, TypeOK
  <1>2. calls' \in Seq(Call) /\ DrawsFor(calls')
    BY <1>1, TemplateType, ExchangeType DEF MinionAttack
  <1>3. attacks' \in [Card -> Nat]
    <2>0. attacks \in [Card -> Nat]
      BY DEF TypeInv, TypeOK
    <2>1. attacks[a] \in Nat /\ attacks[a] + 1 \in Nat
      BY <1>1, <2>0
    <2>2. attacks' = [attacks EXCEPT ![a] = attacks[a] + 1]
      BY DEF MinionAttack
    <2>3. ASSUME NEW n \in Nat PROVE [attacks EXCEPT ![a] = n] \in [Card -> Nat]
      BY <2>0
    <2> QED
      BY <2>1, <2>2, <2>3
  <1>4. ready' \in [Card -> BOOLEAN]
    BY <1>1, Zenon DEF MinionAttack, TypeInv, TypeOK
  <1> QED
    BY <1>2, <1>3, <1>4 DEF MinionAttack, TypeInv, TypeOK, gameVars, zoneVars, heroVars

\* So does the attack of a hero, which may break the weapon.
LEMMA HeroAttackType ==
  ASSUME TypeInv, NEW p \in Player, NEW t \in Card \cup Player, HeroAttack(p, t)
  PROVE  TypeInv'
  <1>1. calls' \in Seq(Call) /\ DrawsFor(calls')
    BY ExchangeType DEF HeroAttack, TypeInv, TypeOK
  <1> DEFINE w == weapon[p]
  <1>2. durability' \in [Card -> Int]
    <2>1. durability \in [Card -> Int] /\ present \subseteq Card
      BY DEF TypeInv, TypeOK
    <2>2. CASE w \in present
      <3>1. durability' = [durability EXCEPT ![w] = durability[w] - 1]
        BY <2>2 DEF HeroAttack
      <3>2. durability[w] - 1 \in Int
        BY <2>1, <2>2
      <3>3. ASSUME NEW n \in Int PROVE [durability EXCEPT ![w] = n] \in [Card -> Int]
        BY <2>1
      <3> QED
        BY <3>1, <3>2, <3>3
    <2>3. CASE w \notin present
      BY <2>1, <2>3 DEF HeroAttack
    <2> QED
      BY <2>2, <2>3
  <1>3. /\ dying' \subseteq present /\ weapon' \in [Player -> Card \cup {NoCard}]
        /\ heroAttack' \in [Player -> Nat]
    <2>1. CASE Breaks(w)
      <3>1. w \in present
        BY <2>1 DEF Breaks
      <3>2. dying' = dying \cup {w} /\ weapon' = [weapon EXCEPT ![p] = NoCard]
            /\ heroAttack' = [heroAttack EXCEPT ![p] = 0]
        BY <2>1 DEF HeroAttack
      <3> HIDE DEF w
      <3> QED
        BY <3>1, <3>2 DEF TypeInv, TypeOK
    <2>2. CASE ~Breaks(w)
      BY <2>2 DEF HeroAttack, TypeInv, TypeOK
    <2> QED
      BY <2>1, <2>2
  <1> QED
    BY <1>1, <1>2, <1>3 DEF HeroAttack, TypeInv, TypeOK, gameVars, zoneVars

\* What EndTurn, or a draw spell, has still to do for the player it names.
LEMMA TurnCalls ==
  ASSUME NEW p \in Player
  PROVE  /\ <<Draw(p), EnterMain(p)>> \in Seq(Call)
         /\ DrawsFor(<<Draw(p), EnterMain(p)>>)
  BY DEF Draw, EnterMain, Call, DrawsFor

\* One more crystal, up to the cap.
LEMMA CrystalsType ==
  ASSUME maxMana \in [Player -> Nat], NEW p \in Player
  PROVE  Crystals(p) \in Nat
  BY DEF Crystals

\* Passing the turn keeps the types.
LEMMA EndTurnType ==
  ASSUME TypeInv, NEW p \in Player, EndTurn(p)
  PROVE  TypeInv'
  <1> DEFINE next == Opponent(p)
             most == Crystals(next)
  <1>1. next \in Player /\ most \in Nat
    BY OpponentType, CrystalsType DEF TypeInv, TypeOK
  <1>2. /\ turn' = turn + 1 /\ current' = next /\ phase' = "begin"
        /\ maxMana' = [maxMana EXCEPT ![next] = most]
        /\ mana' = [mana EXCEPT ![next] = most]
        /\ calls' = <<Draw(next), EnterMain(next)>>
        /\ settled' = FALSE
        /\ UNCHANGED <<status, winner, zoneVars, health, heroAttack, weapon,
                       fatigue, present, dying, hp, durability, crashed, seen>>
    BY DEF EndTurn
  <1>3. ready' \in [Card -> BOOLEAN]
    BY Zenon DEF EndTurn
  <1>4. attacks' \in [Card -> Nat]
    BY DEF EndTurn, TypeInv, TypeOK
  <1>5. calls' \in Seq(Call) /\ DrawsFor(calls')
    BY <1>1, <1>2, TurnCalls
  <1>6. turn' \in Nat /\ current' \in Player /\ phase' \in {"begin", "main"}
    BY <1>1, <1>2 DEF TypeInv, TypeOK
  <1> HIDE DEF next, most
  <1>7. mana' \in [Player -> Nat] /\ maxMana' \in [Player -> Nat]
    BY <1>1, <1>2 DEF TypeInv, TypeOK
  <1> QED
    BY <1>2, <1>3, <1>4, <1>5, <1>6, <1>7 DEF TypeInv, TypeOK, zoneVars

\* Conceding keeps the types.
LEMMA ConcedeType ==
  ASSUME TypeInv, NEW p \in Player, Concede(p)
  PROVE  TypeInv'
  <1>1. Opponent(p) \in Player
    BY OpponentType
  <1> QED
    BY <1>1 DEF Concede, TypeInv, TypeOK, zoneVars, heroVars, cardVars, DrawsFor

\* So does a hit on a hero.
LEMMA HitHeroType ==
  ASSUME TypeInv, HitHero
  PROVE  TypeInv'
  <1> DEFINE h == Head(calls)
  <1>1. /\ h \in Call /\ h.who \in Player
        /\ calls' \in Seq(Call) /\ DrawsFor(calls')
    BY FirstCall DEF HitHero, Calling, TypeInv, TypeOK
  <1>2. health[h.who] \in 0..MaxHealth /\ h.amount \in Nat
    BY <1>1 DEF Call, TypeInv, TypeOK
  <1>3. Reduced(health[h.who], h.amount) \in 0..MaxHealth
    BY <1>2, HurtType
  <1>4. health' = [health EXCEPT ![h.who] = Reduced(health[h.who], h.amount)]
    BY DEF HitHero
  <1> HIDE DEF h
  <1>5. health' \in [Player -> 0..MaxHealth]
    BY <1>1, <1>3, <1>4 DEF TypeInv, TypeOK
  <1> QED
    BY <1>1, <1>5 DEF HitHero, TypeInv, TypeOK, gameVars, zoneVars, cardVars

\* So does a hit on a minion, whose deathrattle adds hits to the calls.
LEMMA HitMinionType ==
  ASSUME TypeInv, HitMinion
  PROVE  TypeInv'
  <1> DEFINE h == Head(calls)
             m == h.who
             left == Reduced(hp[m], h.amount)
             echo == HitAll(Echoed(m), Template[m].rattle, h.depth + 1)
  <1>1. /\ h \in Call /\ m \in present
        /\ Tail(calls) \in Seq(Call) /\ DrawsFor(Tail(calls))
    BY FirstCall DEF HitMinion, Calling, TypeInv, TypeOK
  <1>2. m \in Card /\ h.amount \in Nat /\ h.depth \in Nat
    BY <1>1 DEF Call, TypeInv, TypeOK
  <1>3. left \in Nat
    <2>1. hp \in [Card -> Nat]
      BY DEF TypeInv, TypeOK
    <2>2. hp[m] \in Nat
      BY <1>2, <2>1
    <2>3. left \in 0..hp[m]
      BY <1>2, <2>2, ReducedType
    <2> HIDE DEF left
    <2> QED
      BY <2>2, <2>3
  <1>4. echo \in Seq(Call) /\ DrawsFor(echo)
    <2>1. Owner[m] \in Player /\ Template[m].rattle \in Nat
      BY <1>2, TemplateType
    <2>2. Echoed(m) \in Seq(Card)
      BY <2>1, OpponentType DEF Echoed, TypeInv, TypeOK
    <2>3. Echoed(m) \in Seq(Card \cup Player) /\ h.depth + 1 \in Nat
      BY <1>2, <2>2, SeqMonotonic
    <2> QED
      BY <2>1, <2>3, HitAllType DEF DrawsFor
  <1>5. echo \o Tail(calls) \in Seq(Call) /\ DrawsFor(echo \o Tail(calls))
    BY <1>1, <1>4, MoreCalls
  <1>6. calls \in Seq(Call) /\ DrawsFor(calls) /\ crashed \in BOOLEAN
    BY DEF TypeInv, TypeOK
  <1>7. calls' \in Seq(Call) /\ DrawsFor(calls')
    <2>1. calls' = Tail(calls) \/ calls' = echo \o Tail(calls) \/ calls' = calls
      BY DEF HitMinion
    <2> QED
      BY <1>1, <1>5, <1>6, <2>1
  <1>8. crashed' \in BOOLEAN
    <2>1. crashed' = TRUE \/ crashed' = crashed
      BY DEF HitMinion
    <2> QED
      BY <1>6, <2>1
  <1>9. hp' \in [Card -> Nat]
    <2>1. hp' = [hp EXCEPT ![m] = left]
      BY DEF HitMinion
    <2>2. hp \in [Card -> Nat]
      BY DEF TypeInv, TypeOK
    <2> HIDE DEF m, left
    <2> QED
      BY <1>3, <2>1, <2>2
  <1>10. dying' \subseteq present
    <2>1. dying' \subseteq dying \cup {m}
      BY DEF HitMinion, Marked
    <2> QED
      BY <1>1, <2>1 DEF TypeInv, TypeOK
  <1>11. UNCHANGED <<gameVars, zoneVars, heroVars, present, ready, attacks,
                     durability, settled, seen>>
    BY DEF HitMinion
  <1> QED
    BY <1>7, <1>8, <1>9, <1>10, <1>11 DEF TypeInv, TypeOK, gameVars, zoneVars, heroVars

\* So does a hit on what has no health.
LEMMA HitNothingType ==
  ASSUME TypeInv, HitNothing
  PROVE  TypeInv'
  <1>1. calls' \in Seq(Call) /\ DrawsFor(calls')
    BY FirstCall DEF HitNothing, Calling, TypeInv, TypeOK
  <1> QED
    BY <1>1 DEF HitNothing, TypeInv, TypeOK, gameVars, zoneVars, heroVars, cardVars

\* So does drawing a card.
LEMMA DrawCardType ==
  ASSUME TypeInv, DrawCard
  PROVE  TypeInv'
  <1> DEFINE p == Head(calls).who
  <1>1. p \in Player /\ calls' \in Seq(Call) /\ DrawsFor(calls')
    BY FirstCall DEF DrawCard, Calling, TypeInv, TypeOK
  <1>2. UNCHANGED <<gameVars, board, heroAttack, weapon, mana, maxMana, cardVars,
                    crashed, settled, seen>>
    BY DEF DrawCard
  <1>3. /\ health \in [Player -> 0..MaxHealth] /\ fatigue \in [Player -> Nat]
        /\ deck \in [Player -> Seq(Card)] /\ hand \in [Player -> SUBSET Card]
    BY DEF TypeInv, TypeOK
  <1>4. /\ health' \in [Player -> 0..MaxHealth] /\ fatigue' \in [Player -> Nat]
        /\ deck' \in [Player -> Seq(Card)] /\ hand' \in [Player -> SUBSET Card]
    <2>1. CASE deck[p] = <<>>
      <3>1. /\ fatigue' = [fatigue EXCEPT ![p] = fatigue[p] + 1]
            /\ health' = [health EXCEPT ![p] = Reduced(health[p], fatigue[p] + 1)]
            /\ UNCHANGED <<deck, hand>>
        BY <2>1 DEF DrawCard
      <3>2. fatigue[p] + 1 \in Nat /\ health[p] \in 0..MaxHealth
        BY <1>1, <1>3
      <3>3. Reduced(health[p], fatigue[p] + 1) \in 0..MaxHealth
        BY <3>2, HurtType
      <3> HIDE DEF p
      <3> QED
        BY <1>1, <1>3, <3>1, <3>2, <3>3
    <2>2. CASE deck[p] # <<>>
      <3>1. /\ deck' = [deck EXCEPT ![p] = Tail(deck[p])]
            /\ hand' = hand \/ hand' = [hand EXCEPT ![p] = hand[p] \cup {Head(deck[p])}]
            /\ UNCHANGED <<health, fatigue>>
        BY <2>2 DEF DrawCard
      <3>2. Tail(deck[p]) \in Seq(Card) /\ Head(deck[p]) \in Card
        BY <1>1, <1>3, <2>2, HeadTailProperties
      <3> HIDE DEF p
      <3> QED
        BY <1>1, <1>3, <3>1, <3>2
    <2> QED
      BY <2>1, <2>2
  <1> QED
    BY <1>1, <1>2, <1>4 DEF TypeInv, TypeOK, gameVars, cardVars

\* So does the start of the main phase.
LEMMA StartMainPhaseType ==
  ASSUME TypeInv, StartMainPhase
  PROVE  TypeInv'
  <1>1. calls' \in Seq(Call) /\ DrawsFor(calls')
    BY FirstCall DEF StartMainPhase, Calling, TypeInv, TypeOK
  <1> QED
    BY <1>1 DEF StartMainPhase, TypeInv, TypeOK, zoneVars, heroVars, cardVars

\* A tick finds no dying card left for CombatSystem once CardSystem has run, so
\* it touches no zone.
LEMMA NoneDoomed == Doomed = {}
  BY DEF Doomed, AfterCardSystem

\* A tick removes the dying cards and keeps the types.
LEMMA TickType ==
  ASSUME TypeInv, Tick
  PROVE  TypeInv'
  <1>1. /\ present' = present \ dying /\ dying' = {}
        /\ settled' = TRUE
        /\ UNCHANGED <<turn, current, phase, heroVars, hp, ready, attacks,
                       durability, calls, crashed, seen>>
    BY NoneDoomed DEF Tick, AfterCardSystem
  <1>2. UNCHANGED <<deck, board, hand>>
    BY NoneDoomed DEF Tick, TypeInv, TypeOK
  <1>3. status' \in {"playing", "finished"} /\ winner' \in Player \cup {NoPlayer}
    BY OpponentType DEF Tick, Beaten, TypeInv, TypeOK
  <1> QED
    BY <1>1, <1>2, <1>3 DEF TypeInv, TypeOK, heroVars, DrawsFor

\* Showing a frame keeps the types.
LEMMA FrameType ==
  ASSUME TypeInv, NEW p \in Player, Frame(p)
  PROVE  TypeInv'
  BY DEF Frame, TypeInv, TypeOK, gameVars, zoneVars, heroVars, cardVars, DrawsFor
\* Playing a card is playing a minion, a weapon or a spell of one kind.
LEMMA PlayCardCases ==
  ASSUME NEW p \in Player, PlayCard(p)
  PROVE  \E c \in Card : \/ PlayMinion(p, c) \/ PlayWeapon(p, c) \/ PlayDrawSpell(p, c)
                         \/ \E t \in Targets(p) : PlayDamageSpell(p, c, t)
                         \/ \E t \in Targets(p) : PlayHealSpell(p, c, t)
  BY DEF PlayCard

\* Whatever attacks, it attacks a hero or a card on a board.
LEMMA AttackCases ==
  ASSUME TypeInv, NEW p \in Player, Attack(p)
  PROVE  \E t \in Card \cup Player :
           HeroAttack(p, t) \/ \E a \in Range(board[p]) : MinionAttack(p, a, t)
  <1>1. Range(board[P1]) \subseteq Card /\ Range(board[P2]) \subseteq Card
    BY RangeOfSeq DEF TypeInv, TypeOK, Player
  <1> QED
    BY <1>1 DEF Attack

\* No step leaves the types.
LEMMA TypeNext == TypeInv /\ [Next]_vars => TypeInv'
  <1> SUFFICES ASSUME TypeInv, [Next]_vars PROVE TypeInv'
    OBVIOUS
  <1>1. ASSUME NEW p \in Player, PlayCard(p) PROVE TypeInv'
    BY <1>1, PlayCardCases, MinionType, WeaponType, DrawSpellType, DamageSpellType,
       HealSpellType
  <1>2. ASSUME NEW p \in Player, Attack(p) PROVE TypeInv'
    BY <1>2, AttackCases, HeroAttackType, MinionAttackType
  <1>3. ASSUME NEW p \in Player, EndTurn(p) \/ Concede(p) \/ Frame(p) PROVE TypeInv'
    BY <1>3, EndTurnType, ConcedeType, FrameType
  <1>4. CASE Resolve
    BY <1>4, HitHeroType, HitMinionType, HitNothingType, DrawCardType,
       StartMainPhaseType DEF Resolve
  <1>5. CASE Tick
    BY <1>5, TickType
  <1>6. CASE UNCHANGED vars
    BY <1>6 DEF vars, gameVars, zoneVars, heroVars, cardVars, TypeInv, TypeOK, DrawsFor
  <1> QED
    BY <1>1, <1>2, <1>3, <1>4, <1>5, <1>6 DEF Next

\* The types of all state components hold throughout every game, in particular
\* health in 0..MaxHealth, mana never negative, and only cards of the world
\* dying; the calls to make only ever draw for players.
THEOREM TypeCorrect == Spec => []TypeInv
  BY TypeInit, TypeNext, PTL DEF Spec

\* So the type invariant the runs check holds.
COROLLARY TypesHold == Spec => []TypeOK
  BY TypeCorrect, PTL DEF TypeInv

-----------------------------------------------------------------------------
(* What the actions do to a part of the state. *)

\* Playing a card pays its cost, and neither ends the game nor touches the turn.
LEMMA PlayCardPays ==
  ASSUME NEW p \in Player, PlayCard(p)
  PROVE  \E c \in Card : Spend(p, c)
  <1>1. PICK c \in Card : \/ PlayMinion(p, c) \/ PlayWeapon(p, c) \/ PlayDrawSpell(p, c)
                           \/ \E t \in Targets(p) : PlayDamageSpell(p, c, t)
                           \/ \E u \in Targets(p) : PlayHealSpell(p, c, u)
    BY PlayCardCases
  <1> QED
    BY <1>1 DEF PlayMinion, PlayWeapon, PlayDrawSpell, PlayDamageSpell, PlayHealSpell,
                PlaySpell

\* Only playing a card, attacking, ending the turn and conceding are clients'
\* operations; the others leave turn and mana alone.
LEMMA ManaUntouched ==
  ASSUME NEW p \in Player,
         Attack(p) \/ Concede(p) \/ Frame(p) \/ Resolve \/ Tick \/ UNCHANGED vars
  PROVE  UNCHANGED <<turn, current, mana, maxMana>>
  <1>1. Attack(p) => UNCHANGED <<turn, current, mana, maxMana>>
    BY DEF Attack, HeroAttack, MinionAttack, gameVars, heroVars
  <1>2. Concede(p) \/ Frame(p) \/ Tick \/ UNCHANGED vars =>
          UNCHANGED <<turn, current, mana, maxMana>>
    BY DEF Concede, Frame, Tick, vars, gameVars, heroVars
  <1>3. Resolve => UNCHANGED <<turn, current, mana, maxMana>>
    BY DEF Resolve, HitHero, HitMinion, HitNothing, DrawCard, StartMainPhase,
           gameVars, heroVars
  <1> QED
    BY <1>1, <1>2, <1>3
-----------------------------------------------------------------------------
(* Turns and mana. *)

\* Parity and halves from one turn to the next.
LEMMA TurnHalves ==
  ASSUME NEW n \in Nat
  PROVE  /\ n % 2 = 1 => /\ (n + 1) % 2 = 0
                         /\ (n + 1) \div 2 = n \div 2 + 1
                         /\ (n + 2) \div 2 = (n + 1) \div 2
         /\ n % 2 # 1 => /\ (n + 1) % 2 = 1
                         /\ (n + 1) \div 2 = n \div 2
                         /\ (n + 2) \div 2 = (n + 1) \div 2 + 1
         /\ n \div 2 \in Nat /\ (n + 1) \div 2 \in Nat
  OBVIOUS

\* One crystal more is one turn more, up to the cap.
LEMMA OneMoreCrystal ==
  ASSUME NEW n \in Nat, NEW p \in Player, maxMana[p] = Least(n, MaxMana)
  PROVE  Crystals(p) = Least(n + 1, MaxMana)
  BY BattleAssumption DEF Crystals, Least

\* The game starts with P1's first turn.
LEMMA ManaInit == Init => ManaFollowsTurns
  <1> SUFFICES ASSUME Init PROVE ManaFollowsTurns
    OBVIOUS
  <1>1. turn = 1 /\ current = P1 /\ \A p \in Player : maxMana[p] = mana[p] /\ mana[p] = IF p = P1 THEN 1 ELSE 0
    BY DEF Init
  <1>2. Least(1, MaxMana) = 1 /\ Least(0, MaxMana) = 0
    BY BattleAssumption DEF Least
  <1>3. (1 + 1) \div 2 = 1 /\ 1 \div 2 = 0 /\ 1 % 2 = 1
    OBVIOUS
  <1> QED
    BY <1>1, <1>2, <1>3 DEF ManaFollowsTurns, StartedTurns

\* Passing the turn gives the next player one crystal more.
LEMMA ManaEndTurn ==
  ASSUME TypeInv, ManaFollowsTurns, NEW p \in Player, EndTurn(p)
  PROVE  ManaFollowsTurns'
  <1> DEFINE next == Opponent(p)
  <1>1. /\ current = p /\ current' = next /\ turn' = turn + 1 /\ turn \in Nat
        /\ maxMana' = [maxMana EXCEPT ![next] = Crystals(next)]
        /\ mana' = [mana EXCEPT ![next] = Crystals(next)]
        /\ maxMana \in [Player -> Nat] /\ mana \in [Player -> Nat]
    BY DEF EndTurn, TypeInv, TypeOK
  <1>2. next \in Player /\ next # p /\ Crystals(next) \in Nat /\ P1 # P2
    BY <1>1, OpponentType, CrystalsType, BattleAssumption
  <1>3. /\ maxMana'[next] = Crystals(next) /\ mana'[next] = Crystals(next)
        /\ maxMana'[p] = maxMana[p] /\ mana'[p] = mana[p] /\ Player = {p, next}
    <2>1. Player = {p, next}
      BY <1>2 DEF Player
    <2> HIDE DEF next
    <2> QED
      BY <1>1, <1>2, <2>1
  <1>4. /\ turn % 2 = 1 <=> p = P1
        /\ (turn + 1) % 2 = 1 <=> next = P1
    BY <1>1, <1>2, TurnHalves DEF ManaFollowsTurns, Opponent
  <1>5. StartedTurns(p) \in Nat /\ StartedTurns(next) \in Nat
    BY <1>1, TurnHalves DEF StartedTurns
  <1>6. StartedTurns(p)' = StartedTurns(p) /\ StartedTurns(next)' = StartedTurns(next) + 1
    <2>1. turn' + 1 = turn + 2 /\ turn' = turn + 1
      BY <1>1
    <2>2. CASE p = P1
      <3>1. next # P1 /\ turn % 2 = 1
        BY <1>2, <1>4, <2>2
      <3> QED
        BY <1>1, <2>1, <2>2, <3>1, TurnHalves DEF StartedTurns
    <2>3. CASE p # P1
      <3>1. next = P1 /\ turn % 2 # 1
        BY <1>2, <1>4, <2>3 DEF Opponent
      <3> QED
        BY <1>1, <2>1, <2>3, <3>1, TurnHalves DEF StartedTurns
    <2> QED
      BY <2>2, <2>3
  <1>7. Crystals(next) = Least(StartedTurns(next) + 1, MaxMana)
    BY <1>2, <1>5, OneMoreCrystal DEF ManaFollowsTurns
  <1>8. maxMana[p] = Least(StartedTurns(p), MaxMana) /\ mana[p] <= maxMana[p]
    BY DEF ManaFollowsTurns
  <1> HIDE DEF next
  <1>9. \A q \in Player : /\ maxMana'[q] = Least(StartedTurns(q)', MaxMana)
                          /\ mana'[q] <= maxMana'[q]
    BY <1>2, <1>3, <1>6, <1>7, <1>8
  <1> QED
    BY <1>1, <1>4, <1>9 DEF ManaFollowsTurns, StartedTurns

\* Playing a card only spends mana.
LEMMA ManaSpent ==
  ASSUME TypeInv, ManaFollowsTurns, NEW p \in Player, NEW c \in Card, Spend(p, c)
  PROVE  ManaFollowsTurns'
  <1>1. UNCHANGED <<turn, current, maxMana>>
    BY DEF Spend, gameVars
  <1>2. /\ mana \in [Player -> Nat] /\ maxMana \in [Player -> Nat]
        /\ Template[c].cost \in Nat
        /\ mana' = [mana EXCEPT ![p] = mana[p] - Template[c].cost]
    BY TemplateType DEF Spend, TypeInv, TypeOK
  <1>3. \A q \in Player : mana[q] <= maxMana[q]
    BY DEF ManaFollowsTurns
  <1>4. mana[p] - Template[c].cost <= mana[p]
    BY <1>2
  <1>5. ASSUME NEW q \in Player PROVE mana'[q] <= maxMana[q]
    <2>1. mana[q] \in Nat /\ maxMana[q] \in Nat /\ mana[q] <= maxMana[q]
      BY <1>2, <1>3
    <2> QED
      BY <1>2, <1>4, <2>1
  <1> QED
    BY <1>1, <1>5 DEF ManaFollowsTurns, StartedTurns

\* Whatever operations interleave, the players alternate, each one's crystals
\* are the turns it has begun up to the cap, and nobody overspends: the mana
\* accounting of startTurn and PlayCard, for any decks and any number of turns.
THEOREM ManaIsAccounted == Spec => []ManaFollowsTurns
  <1>1. TypeInv /\ ManaFollowsTurns /\ [Next]_vars => ManaFollowsTurns'
    <2> SUFFICES ASSUME TypeInv, ManaFollowsTurns, [Next]_vars PROVE ManaFollowsTurns'
      OBVIOUS
    <2>1. ASSUME NEW p \in Player, PlayCard(p) PROVE ManaFollowsTurns'
      BY <2>1, PlayCardPays, ManaSpent
    <2>2. ASSUME NEW p \in Player, EndTurn(p) PROVE ManaFollowsTurns'
      BY <2>2, ManaEndTurn
    <2>3. ASSUME UNCHANGED <<turn, current, mana, maxMana>> PROVE ManaFollowsTurns'
      BY <2>3 DEF ManaFollowsTurns, StartedTurns
    <2>4. P1 \in Player
      BY DEF Player
    <2> QED
      BY <2>1, <2>2, <2>3, <2>4, ManaUntouched DEF Next
  <1> QED
    BY <1>1, ManaInit, TypeCorrect, PTL DEF Spec

-----------------------------------------------------------------------------
(* The end of the game. *)

\* A game ends only at a tick, for a hero at zero, or by a concession.
THEOREM GameEndsJustly == Spec => GameEndsForAReason
  <1>1. [Next]_vars => (status' # status => \E p \in Player : EndedFor(p))
    <2> SUFFICES ASSUME [Next]_vars, status' # status PROVE \E p \in Player : EndedFor(p)
      OBVIOUS
    <2>1. ASSUME NEW p \in Player, PlayCard(p) PROVE status' = status
      BY <2>1, PlayCardPays DEF Spend, gameVars
    <2>2. ASSUME NEW p \in Player, Attack(p) PROVE status' = status
      BY <2>2 DEF Attack, HeroAttack, MinionAttack, gameVars
    <2>3. ASSUME NEW p \in Player, EndTurn(p) \/ Frame(p) PROVE status' = status
      BY <2>3 DEF EndTurn, Frame, gameVars
    <2>4. ASSUME Resolve PROVE status' = status
      BY <2>4 DEF Resolve, HitHero, HitMinion, HitNothing, DrawCard, StartMainPhase,
                  gameVars
    <2>5. ASSUME NEW p \in Player, Concede(p) PROVE \E q \in Player : EndedFor(q)
      BY <2>5 DEF Concede, EndedFor
    <2>6. ASSUME Tick PROVE \E q \in Player : EndedFor(q)
      BY <2>6 DEF Tick, Beaten, EndedFor
    <2>7. UNCHANGED vars => status' = status
      BY DEF vars, gameVars
    <2> QED
      BY <2>1, <2>2, <2>3, <2>4, <2>5, <2>6, <2>7 DEF Next
  <1> QED
    BY <1>1, PTL DEF Spec, GameEndsForAReason
\* Nothing is left to be hit once a game is finished.
NoHitsLeft == status = "finished" => \A i \in DOMAIN calls : calls[i].op # "hit"

FinalInv == TypeInv /\ NoHitsLeft

\* Whoever acts on cards acts in a game in progress.
LEMMA ActedInPlay ==
  ASSUME NEW p \in Player, PlayCard(p) \/ Attack(p)
  PROVE  status = "playing" /\ status' = "playing"
  <1>1. PlayCard(p) => status = "playing" /\ status' = "playing"
    BY PlayCardPays DEF Spend, CanAct, IsPlayerTurn, gameVars
  <1>2. Attack(p) => status = "playing" /\ status' = "playing"
    BY DEF Attack, HeroAttack, MinionAttack, CanAct, IsPlayerTurn, gameVars
  <1> QED
    BY <1>1, <1>2

\* A step that keeps the status of a game keeps NoHitsLeft when it only takes
\* calls away from the front.
LEMMA NoHitsAfterFirst ==
  ASSUME TypeInv, NoHitsLeft, calls # <<>>, calls' = Tail(calls), status' = status
  PROVE  NoHitsLeft'
  <1>1. calls \in Seq(Call)
    BY DEF TypeInv, TypeOK
  <1>2. /\ Tail(calls) \in Seq(Call) /\ Len(Tail(calls)) = Len(calls) - 1
        /\ \A i \in 1..Len(Tail(calls)) : Tail(calls)[i] = calls[i + 1]
        /\ Len(calls) \in Nat /\ DOMAIN calls = 1..Len(calls)
        /\ DOMAIN Tail(calls) = 1..Len(Tail(calls))
    BY <1>1, HeadTailProperties, LenProperties
  <1> QED
    BY <1>2 DEF NoHitsLeft

\* In a finished game no hit comes first.
LEMMA FirstIsNoHit ==
  ASSUME TypeInv, NoHitsLeft, status = "finished"
  PROVE  ~Calling("hit")
  <1>1. calls # <<>> => Head(calls) = calls[1] /\ 1 \in DOMAIN calls
    BY LenProperties, EmptySeq DEF TypeInv, TypeOK
  <1> QED
    BY <1>1 DEF NoHitsLeft, Calling

\* Every step keeps it so: a game ends with no calls left, and only EndTurn adds
\* calls afterwards.
LEMMA NoHitsNext == FinalInv /\ [Next]_vars => NoHitsLeft'
  <1> SUFFICES ASSUME TypeInv, NoHitsLeft, [Next]_vars, status' = "finished" PROVE NoHitsLeft'
    BY DEF FinalInv, NoHitsLeft
  <1>1. ASSUME NEW p \in Player, PlayCard(p) \/ Attack(p) PROVE NoHitsLeft'
    BY <1>1, ActedInPlay
  <1>2. ASSUME NEW p \in Player, EndTurn(p) PROVE NoHitsLeft'
    BY <1>2 DEF EndTurn, NoHitsLeft, Draw, EnterMain
  <1>3. ASSUME NEW p \in Player, Concede(p) \/ Tick PROVE NoHitsLeft'
    <2>1. calls' = <<>>
      BY <1>3 DEF Concede, Tick, Idle
    <2> QED
      BY <2>1 DEF NoHitsLeft
  <1>4. ASSUME NEW p \in Player, Frame(p) PROVE NoHitsLeft'
    BY <1>4 DEF Frame, gameVars, NoHitsLeft
  <1>5. CASE Resolve
    <2>1. status' = status
      BY <1>5 DEF Resolve, HitHero, HitMinion, HitNothing, DrawCard, StartMainPhase,
                  gameVars
    <2>2. ~Calling("hit")
      BY <2>1, FirstIsNoHit
    <2>3. calls # <<>> /\ calls' = Tail(calls)
      BY <1>5, <2>2 DEF Resolve, HitHero, HitMinion, HitNothing, DrawCard,
                        StartMainPhase, Calling
    <2> QED
      BY <2>1, <2>3, NoHitsAfterFirst
  <1>6. CASE UNCHANGED vars
    BY <1>6 DEF vars, gameVars, NoHitsLeft
  <1>7. P1 \in Player
    BY DEF Player
  <1> QED
    BY <1>1, <1>2, <1>3, <1>4, <1>5, <1>6, <1>7 DEF Next

\* What a finished game keeps.
LEMMA FinalStep ==
  ASSUME FinalInv, [Next]_vars, status = "finished"
  PROVE  UNCHANGED <<status, winner, board, present, dying, hp, weapon, heroAttack,
                     durability>>
  <1>1. ASSUME NEW p \in Player
        PROVE  ~PlayCard(p) /\ ~Attack(p) /\ ~Concede(p) /\ ~Frame(p) /\ ~Tick
    BY ActedInPlay DEF Concede, Frame, Tick
  <1>2. ~HitHero /\ ~HitMinion /\ ~HitNothing
    BY FirstIsNoHit DEF FinalInv, HitHero, HitMinion, HitNothing
  <1>3. ASSUME NEW p \in Player, EndTurn(p)
        PROVE  UNCHANGED <<status, winner, board, present, dying, hp, weapon,
                           heroAttack, durability>>
    BY <1>3 DEF EndTurn, zoneVars
  <1>4. DrawCard \/ StartMainPhase =>
          UNCHANGED <<status, winner, board, present, dying, hp, weapon, heroAttack,
                      durability>>
    BY DEF DrawCard, StartMainPhase, gameVars, zoneVars, heroVars, cardVars
  <1>5. UNCHANGED vars =>
          UNCHANGED <<status, winner, board, present, dying, hp, weapon, heroAttack,
                      durability>>
    BY DEF vars, gameVars, zoneVars, heroVars, cardVars
  <1>6. P1 \in Player
    BY DEF Player
  <1> QED
    BY <1>1, <1>2, <1>3, <1>4, <1>5, <1>6 DEF Next, Resolve

\* Once a game is finished its result and everything on the boards is settled,
\* although EndTurn goes on in it: no damage, death, summoning or equipping.
THEOREM FinishedStaysFinal == Spec => FinishedIsFinal
  <1>1. Init => FinalInv
    BY TypeInit DEF FinalInv, NoHitsLeft, Init
  <1>2. FinalInv /\ [Next]_vars => FinalInv'
    BY TypeNext, NoHitsNext DEF FinalInv
  <1>3. FinalInv /\ [Next]_vars =>
          (status = "finished" =>
             UNCHANGED <<status, winner, board, present, dying, hp, weapon, heroAttack,
                         durability>>)
    BY FinalStep
  <1> QED
    BY <1>1, <1>2, <1>3, PTL DEF Spec, FinishedIsFinal

-----------------------------------------------------------------------------
(* Death. *)

\* The step of any action keeps DeadAreDying when no minion's health changes and
\* no card stops dying without leaving the world.
LEMMA DeathsKept ==
  ASSUME DeadAreDying, present' \subseteq present, hp' = hp, dying \cap present' \subseteq dying'
  PROVE  DeadAreDying'
  BY DEF DeadAreDying, IsMinion

\* A healed minion was already dying if it is left without health.
LEMMA HealKeepsDeaths ==
  ASSUME TypeInv, DeadAreDying, NEW p \in Player, NEW c \in Card, NEW t,
         PlayHealSpell(p, c, t)
  PROVE  DeadAreDying'
  <1>1. present' = present /\ dying \subseteq dying' /\ present \subseteq Card
    BY DEF PlayHealSpell, PlaySpell, Spend, TypeInv, TypeOK
  <1>2. Template[c].value \in Nat /\ hp \in [Card -> Nat]
    BY TemplateType DEF TypeInv, TypeOK
  <1>3. ASSUME NEW m \in present, IsMinion(m), hp'[m] = 0 PROVE hp[m] = 0
    <2>1. m \in Card /\ hp[m] \in Nat /\ Template[m].health \in Nat
      BY <1>1, <1>2, TemplateType
    <2>2. Template[m].health > 0
      BY <1>3, <2>1, BattleAssumption DEF IsMinion
    <2>3. hp'[m] = hp[m] \/ hp'[m] = Least(hp[m] + Template[c].value, Template[m].health)
      BY <2>1 DEF PlayHealSpell
    <2>4. Least(hp[m] + Template[c].value, Template[m].health) = 0 => hp[m] = 0
      BY <1>2, <2>1, <2>2 DEF Least
    <2> QED
      BY <1>3, <2>3, <2>4
  <1> QED
    BY <1>1, <1>3 DEF DeadAreDying, IsMinion

\* A minion a hit leaves without health is marked dying at once.
LEMMA HitMarksDeaths ==
  ASSUME TypeInv, DeadAreDying, HitMinion
  PROVE  DeadAreDying'
  <1> DEFINE m == Head(calls).who
             left == Reduced(hp[m], Head(calls).amount)
  <1>1. /\ present' = present /\ hp' = [hp EXCEPT ![m] = left]
        /\ dying' = Marked(m, left) /\ hp \in [Card -> Nat] /\ present \subseteq Card
    BY DEF HitMinion, TypeInv, TypeOK
  <1>2. dying \subseteq dying' /\ (left = 0 => m \in dying')
    BY <1>1 DEF Marked
  <1> HIDE DEF m, left
  <1> QED
    BY <1>1, <1>2 DEF DeadAreDying, IsMinion

\* However damage, healing, deathrattles and ticks interleave, a minion in the
\* world without health is marked dying: CombatSystem.processDeaths never finds
\* one that is not.
THEOREM DeadAreMarked == Spec => []DeadAreDying
  <1>1. Init => DeadAreDying
    <2> SUFFICES ASSUME Init, NEW c \in Card, IsMinion(c) PROVE hp[c] # 0
      BY TypeInit DEF DeadAreDying, TypeInv, TypeOK
    <2>1. hp[c] = Template[c].health
      BY DEF Init
    <2> QED
      BY <2>1, TemplateType, BattleAssumption DEF IsMinion
  <1>2. TypeInv /\ DeadAreDying /\ [Next]_vars => DeadAreDying'
    <2> SUFFICES ASSUME TypeInv, DeadAreDying, [Next]_vars PROVE DeadAreDying'
      OBVIOUS
    <2> DEFINE Kept == present' \subseteq present /\ hp' = hp /\ dying \cap present' \subseteq dying'
    <2>1. ASSUME NEW p \in Player, NEW c \in Card,
                 \/ PlayMinion(p, c) \/ PlayWeapon(p, c) \/ PlayDrawSpell(p, c)
                 \/ \E t \in Targets(p) : PlayDamageSpell(p, c, t)
          PROVE  Kept
      BY <2>1 DEF PlayMinion, PlayWeapon, PlayDrawSpell, PlayDamageSpell, PlaySpell, Spend
    <2>2. ASSUME NEW p \in Player, PlayCard(p) PROVE DeadAreDying'
      BY <2>1, <2>2, PlayCardCases, DeathsKept, HealKeepsDeaths
    <2>3. ASSUME NEW p \in Player, Attack(p) PROVE Kept
      BY <2>3 DEF Attack, HeroAttack, MinionAttack
    <2>4. ASSUME NEW p \in Player, EndTurn(p) \/ Concede(p) \/ Frame(p) PROVE Kept
      BY <2>4 DEF EndTurn, Concede, Frame, cardVars
    <2>5. CASE Tick
      BY <2>5, NoneDoomed, DeathsKept DEF Tick, AfterCardSystem, TypeInv, TypeOK
    <2>6. CASE HitHero \/ HitNothing \/ DrawCard \/ StartMainPhase \/ UNCHANGED vars
      BY <2>6, DeathsKept DEF HitHero, HitNothing, DrawCard, StartMainPhase, vars, cardVars
    <2>7. CASE HitMinion
      BY <2>7, HitMarksDeaths
    <2> QED
      BY <2>2, <2>3, <2>4, <2>5, <2>6, <2>7, DeathsKept DEF Next, Resolve
  <1> QED
    BY <1>1, <1>2, TypeCorrect, PTL DEF Spec
-----------------------------------------------------------------------------
(* The limits of hand and board. *)

\* Decks, hands, and what a client was shown of a hand hold cards of their player;
\* boards hold minions of theirs.
Owned ==
  \A p \in Player :
    /\ \A c \in Range(deck[p]) \cup hand[p] \cup seen[p] : Owner[c] = p
    /\ \A c \in Range(board[p]) : IsMinion(c) /\ Owner[c] = p

Limited ==
  \A p \in Player : /\ IsFiniteSet(hand[p]) /\ Cardinality(hand[p]) <= MaxHand
                    /\ Len(board[p]) <= MaxBoard

ZonesInv == TypeInv /\ Owned /\ Limited

\* The cards below the top one.
LEMMA RangeOfTail ==
  ASSUME NEW s \in Seq(Card), s # <<>>
  PROVE  /\ Range(Tail(s)) \subseteq Range(s) /\ Head(s) \in Range(s)
  <1>1. /\ Tail(s) \in Seq(Card) /\ Len(Tail(s)) = Len(s) - 1 /\ Head(s) = s[1]
        /\ \A i \in 1..Len(Tail(s)) : Tail(s)[i] = s[i + 1]
        /\ Len(s) \in Nat /\ Len(s) # 0
    BY HeadTailProperties, LenProperties, EmptySeq
  <1>2. Range(s) = {s[i] : i \in 1..Len(s)}
    BY RangeEquality
  <1>3. Range(Tail(s)) = {Tail(s)[i] : i \in 1..Len(Tail(s))}
    BY <1>1, RangeEquality
  <1>4. \A i \in 1..Len(Tail(s)) : i + 1 \in 1..Len(s)
    BY <1>1
  <1> QED
    BY <1>1, <1>2, <1>3, <1>4

\* A minion joins a board at its end.
LEMMA RangeOfAppend ==
  ASSUME NEW s \in Seq(Card), NEW c \in Card
  PROVE  Range(Append(s, c)) \subseteq Range(s) \cup {c}
  <1>1. /\ Append(s, c) \in Seq(Card) /\ Len(Append(s, c)) = Len(s) + 1
        /\ \A i \in 1..Len(s) : Append(s, c)[i] = s[i]
        /\ Append(s, c)[Len(s) + 1] = c /\ Len(s) \in Nat
    BY AppendProperties, LenProperties
  <1>2. Range(s) = {s[i] : i \in 1..Len(s)}
    BY RangeEquality
  <1>3. Range(Append(s, c)) = {Append(s, c)[i] : i \in 1..Len(Append(s, c))}
    BY <1>1, RangeEquality
  <1> QED
    BY <1>1, <1>2, <1>3

\* Dealing n cards gives at most n of them.
LEMMA DealtFew ==
  ASSUME NEW n \in Nat, NEW s \in Seq(Card), n <= Len(s)
  PROVE  /\ IsFiniteSet({s[i] : i \in 1..n})
         /\ Cardinality({s[i] : i \in 1..n}) <= n
  <1> DEFINE T == {s[i] : i \in 1..n}
             f == [i \in 1..n |-> s[i]]
  <1>1. f \in Surjection(1..n, T)
    BY DEF Surjection
  <1>2. IsFiniteSet(1..n) /\ Cardinality(1..n) = n
    BY FS_Interval
  <1> HIDE DEF T, f
  <1>3. IsFiniteSet(T) /\ Cardinality(T) <= Cardinality(1..n)
    BY <1>1, <1>2, FS_Surjection
  <1> QED
    BY <1>2, <1>3 DEF T

\* A game starts within the limits.
LEMMA ZonesInit == Init => Owned /\ Limited
  <1> SUFFICES ASSUME Init PROVE Owned /\ Limited
    OBVIOUS
  <1> DEFINE dealt == [p \in Player |-> IF p = P1 THEN Opening1 + 1 ELSE Opening2]
  <1>1. PICK d \in Decks :
          /\ deck = [p \in Player |-> SubSeq(d[p], dealt[p] + 1, Len(d[p]))]
          /\ hand = [p \in Player |-> {d[p][i] : i \in 1..dealt[p]}]
    BY DEF Init
  <1>2. /\ \A p \in Player : d[p] \in Seq(Card)
        /\ \A p \in Player : \A i \in DOMAIN d[p] : Owner[d[p][i]] = p
        /\ Len(d[P1]) > Opening1 /\ Len(d[P2]) >= Opening2
        /\ Opening1 < MaxHand /\ Opening2 <= MaxHand
    BY DecksAreShuffledTemplates DEF DecksAssumption
  <1>3. ASSUME NEW p \in Player
        PROVE  /\ dealt[p] \in Nat /\ dealt[p] <= Len(d[p]) /\ dealt[p] <= MaxHand
               /\ Len(d[p]) \in Nat /\ DOMAIN d[p] = 1..Len(d[p])
    BY <1>2, BattleAssumption, LenProperties DEF Player
  <1> HIDE DEF dealt
  <1>4. ASSUME NEW p \in Player, NEW c \in hand[p] PROVE Owner[c] = p
    <2>1. PICK i \in 1..dealt[p] : c = d[p][i]
      BY <1>1
    <2>2. i \in DOMAIN d[p]
      BY <1>3
    <2> QED
      BY <1>2, <2>1, <2>2
  <1>5. ASSUME NEW p \in Player, NEW c \in Range(deck[p]) PROVE Owner[c] = p
    <2> DEFINE n == dealt[p] + 1
               rest == SubSeq(d[p], n, Len(d[p]))
    <2>1. n \in 1..Len(d[p]) + 1 /\ deck[p] = rest /\ Len(d[p]) \in Nat
      BY <1>1, <1>3, SMTT(30)
    <2>2. /\ rest \in Seq(Card)
          /\ Len(rest) = IF n <= Len(d[p]) THEN Len(d[p]) - n + 1 ELSE 0
          /\ \A i \in 1..Len(d[p]) - n + 1 : rest[i] = d[p][n + i - 1]
      BY <1>2, <1>3, <2>1, SMTT(30)
    <2>3. PICK i \in 1..Len(rest) : c = rest[i]
      <3>1. c \in Range(rest) /\ rest \in Seq(Card)
        BY <1>5, <2>1, <2>2
      <3> HIDE DEF rest
      <3> QED
        BY <3>1, RangeEquality
    <2>4. n + i - 1 \in 1..Len(d[p]) /\ i \in 1..Len(d[p]) - n + 1
      BY <2>1, <2>2, <2>3
    <2>5. c = d[p][n + i - 1]
      BY <2>2, <2>3, <2>4
    <2> HIDE DEF n, rest
    <2> QED
      BY <1>2, <1>3, <2>4, <2>5
  <1>6. Owned
    <2>1. \A p \in Player : seen[p] = hand[p] /\ Range(board[p]) = {}
      BY DEF Init, Range
    <2> QED
      BY <1>4, <1>5, <2>1 DEF Owned
  <1>7. Limited
    <2> SUFFICES ASSUME NEW p \in Player
                 PROVE  /\ IsFiniteSet(hand[p]) /\ Cardinality(hand[p]) <= MaxHand
                        /\ Len(board[p]) <= MaxBoard
      BY DEF Limited
    <2>1. hand[p] = {d[p][i] : i \in 1..dealt[p]}
      BY <1>1
    <2>2. IsFiniteSet(hand[p]) /\ Cardinality(hand[p]) <= dealt[p]
      <3>1. d[p] \in Seq(Card) /\ dealt[p] \in Nat /\ dealt[p] <= Len(d[p])
        BY <1>2, <1>3
      <3> QED
        BY ONLY <2>1, <3>1, DealtFew
    <2>3. Len(board[p]) = 0
      BY DEF Init
    <2>4. Cardinality(hand[p]) \in Nat
      BY <2>2, FS_CardinalityType
    <2> QED
      BY <1>3, <2>2, <2>3, <2>4, BattleAssumption
  <1> QED
    BY <1>6, <1>7

\* A step that leaves decks, hands, boards and the displays alone.
LEMMA ZonesKept ==
  ASSUME Owned, Limited, UNCHANGED <<deck, hand, board, seen>>
  PROVE  Owned' /\ Limited'
  BY DEF Owned, Limited, IsMinion

\* Playing a card takes it out of the hand, if it is still there.
LEMMA ZonesSpend ==
  ASSUME ZonesInv, NEW p \in Player, NEW c \in Card, Spend(p, c)
  PROVE  /\ \A q \in Player : /\ hand'[q] \subseteq hand[q] /\ IsFiniteSet(hand'[q])
                              /\ Cardinality(hand'[q]) <= MaxHand
         /\ UNCHANGED <<deck, seen>> /\ Owner[c] = p
  <1>1. /\ hand' = [hand EXCEPT ![p] = hand[p] \ {c}] /\ UNCHANGED <<deck, seen>>
        /\ c \in seen[p] /\ hand \in [Player -> SUBSET Card]
    BY DEF Spend, Taken, ZonesInv, TypeInv, TypeOK
  <1>2. ASSUME NEW q \in Player
        PROVE  /\ hand'[q] \subseteq hand[q] /\ IsFiniteSet(hand'[q])
               /\ Cardinality(hand'[q]) <= MaxHand
    <2>1. hand'[q] \subseteq hand[q]
      BY <1>1
    <2>2. IsFiniteSet(hand[q]) /\ Cardinality(hand[q]) <= MaxHand
      BY DEF ZonesInv, Limited
    <2>3. /\ IsFiniteSet(hand'[q]) /\ Cardinality(hand'[q]) <= Cardinality(hand[q])
      BY <2>1, <2>2, FS_Subset
    <2>4. Cardinality(hand[q]) \in Nat /\ Cardinality(hand'[q]) \in Nat
      BY <2>2, <2>3, FS_CardinalityType
    <2> QED
      BY <2>1, <2>2, <2>3, <2>4, BattleAssumption
  <1>3. Owner[c] = p
    BY <1>1 DEF ZonesInv, Owned
  <1> QED
    BY <1>1, <1>2, <1>3

\* Playing a card that summons no minion keeps the limits.
LEMMA ZonesNoSummon ==
  ASSUME ZonesInv, NEW p \in Player, NEW c \in Card, Spend(p, c), board' = board
  PROVE  Owned' /\ Limited'
  <1>1. Limited'
    BY ZonesSpend DEF ZonesInv, Limited
  <1>2. Owned'
    BY ZonesSpend DEF ZonesInv, Owned, IsMinion
  <1> QED
    BY <1>1, <1>2

\* Playing a minion keeps the limits.
LEMMA ZonesMinion ==
  ASSUME ZonesInv, NEW p \in Player, NEW c \in Card, PlayMinion(p, c)
  PROVE  Owned' /\ Limited'
  <1>1. Spend(p, c) /\ IsMinion(c)
    BY DEF PlayMinion
  <1>2. CASE BoardFull(p)
    BY <1>1, <1>2, ZonesNoSummon DEF PlayMinion
  <1>3. CASE ~BoardFull(p)
    <2>1. board' = [board EXCEPT ![p] = Append(board[p], c)]
      BY <1>3 DEF PlayMinion
    <2>2. board \in [Player -> Seq(Card)] /\ board[p] \in Seq(Card)
      BY DEF ZonesInv, TypeInv, TypeOK
    <2>3. ASSUME NEW q \in Player
          PROVE  /\ Len(board'[q]) <= MaxBoard
                 /\ \A m \in Range(board'[q]) : IsMinion(m) /\ Owner[m] = q
      <3>1. CASE q = p
        <4>1. board'[q] = Append(board[p], c)
          BY <2>1, <2>2, <3>1
        <4>2. Len(Append(board[p], c)) = Len(board[p]) + 1 /\ Len(board[p]) \in Nat
          BY <2>2, AppendProperties, LenProperties
        <4>3. Len(board[p]) < MaxBoard
          BY <1>3, <4>2, BattleAssumption DEF BoardFull
        <4>4. Range(board'[q]) \subseteq Range(board[p]) \cup {c}
          BY <2>2, <4>1, RangeOfAppend
        <4>5. \A m \in Range(board[p]) \cup {c} : IsMinion(m) /\ Owner[m] = q
          BY <1>1, <3>1, ZonesSpend DEF ZonesInv, Owned
        <4> QED
          BY <4>1, <4>2, <4>3, <4>4, <4>5, BattleAssumption
      <3>2. CASE q # p
        <4>1. board'[q] = board[q]
          BY <2>1, <2>2, <3>2
        <4> QED
          BY <4>1 DEF ZonesInv, Owned, Limited
      <3> QED
        BY <3>1, <3>2
    <2>4. Limited'
      BY <1>1, <2>3, ZonesSpend DEF Limited
    <2>5. Owned'
      BY <1>1, <2>3, ZonesSpend DEF ZonesInv, Owned, IsMinion
    <2> QED
      BY <2>4, <2>5
  <1> QED
    BY <1>2, <1>3

\* Drawing a card keeps the limits: on a full hand it is burnt.
LEMMA ZonesDraw ==
  ASSUME ZonesInv, DrawCard
  PROVE  Owned' /\ Limited'
  <1> DEFINE p == Head(calls).who
  <1>1. p \in Player /\ UNCHANGED <<board, seen>>
    BY FirstCall DEF DrawCard, Calling, ZonesInv, TypeInv, TypeOK
  <1>2. /\ deck \in [Player -> Seq(Card)] /\ hand \in [Player -> SUBSET Card]
        /\ deck[p] \in Seq(Card)
    BY <1>1 DEF ZonesInv, TypeInv, TypeOK
  <1>3. IsFiniteSet(hand[p]) /\ Cardinality(hand[p]) <= MaxHand /\ Cardinality(hand[p]) \in Nat
    BY <1>1, FS_CardinalityType DEF ZonesInv, Limited
  <1>4. CASE UNCHANGED <<deck, hand>>
    BY <1>1, <1>4, ZonesKept DEF ZonesInv
  <1>5. CASE deck[p] # <<>> /\ deck' = [deck EXCEPT ![p] = Tail(deck[p])]
    <2> DEFINE top == Head(deck[p])
    <2>1. /\ Range(Tail(deck[p])) \subseteq Range(deck[p]) /\ top \in Range(deck[p])
      BY <1>2, <1>5, RangeOfTail
    <2>2. \/ hand' = hand
          \/ Cardinality(hand[p]) < MaxHand /\ hand' = [hand EXCEPT ![p] = hand[p] \cup {top}]
      BY <1>3, <1>5, BattleAssumption DEF DrawCard
    <2> HIDE DEF p, top
    <2>3. ASSUME NEW q \in Player
          PROVE  /\ Range(deck'[q]) \subseteq Range(deck[q])
                 /\ \A c \in hand'[q] : c \in hand[q] \/ c \in Range(deck[q])
      BY <1>1, <1>2, <1>5, <2>1, <2>2
    <2>4. Owned'
      BY <1>1, <2>3 DEF ZonesInv, Owned, IsMinion
    <2>5. IsFiniteSet(hand[p] \cup {top}) /\ Cardinality(hand[p] \cup {top}) <= Cardinality(hand[p]) + 1
      BY <1>3, FS_AddElement, SMTT(30)
    <2>6. Cardinality(hand[p] \cup {top}) \in Nat
      BY <2>5, FS_CardinalityType
    <2>7. ASSUME NEW q \in Player
          PROVE  IsFiniteSet(hand'[q]) /\ Cardinality(hand'[q]) <= MaxHand
      <3>1. CASE hand'[q] = hand[q]
        BY <3>1 DEF ZonesInv, Limited
      <3>2. CASE hand'[q] # hand[q]
        <4>1. q = p /\ hand'[q] = hand[p] \cup {top} /\ Cardinality(hand[p]) < MaxHand
          BY <1>1, <1>2, <2>2, <3>2
        <4> QED
          BY <1>3, <2>5, <2>6, <4>1, BattleAssumption
      <3> QED
        BY <3>1, <3>2
    <2>8. Limited'
      BY <1>1, <2>7 DEF ZonesInv, Limited
    <2> QED
      BY <2>4, <2>8
  <1> QED
    BY <1>4, <1>5 DEF DrawCard

\* A frame shows the player its hand.
LEMMA ZonesFrame ==
  ASSUME ZonesInv, NEW p \in Player, Frame(p)
  PROVE  Owned' /\ Limited'
  <1>1. UNCHANGED <<deck, hand, board>> /\ seen' = [seen EXCEPT ![p] = hand[p]]
        /\ seen \in [Player -> SUBSET Card]
    BY DEF Frame, zoneVars, ZonesInv, TypeInv, TypeOK
  <1> QED
    BY <1>1 DEF ZonesInv, Owned, Limited, IsMinion

\* Every step keeps the owners of the cards and the limits of the zones.
LEMMA ZonesNext == ZonesInv /\ [Next]_vars => ZonesInv'
  <1> SUFFICES ASSUME ZonesInv, [Next]_vars PROVE Owned' /\ Limited'
    BY TypeNext DEF ZonesInv
  <1>1. ASSUME NEW p \in Player, PlayCard(p) PROVE Owned' /\ Limited'
    <2>1. ASSUME NEW c \in Card,
                 \/ PlayWeapon(p, c) \/ PlayDrawSpell(p, c)
                 \/ \E t \in Targets(p) : PlayDamageSpell(p, c, t) \/ PlayHealSpell(p, c, t)
          PROVE  Spend(p, c) /\ board' = board
      BY <2>1 DEF PlayWeapon, PlayDrawSpell, PlayDamageSpell, PlayHealSpell, PlaySpell
    <2> QED
      BY <1>1, <2>1, PlayCardCases, ZonesMinion, ZonesNoSummon
  <1>2. ASSUME NEW p \in Player, Attack(p) \/ EndTurn(p) \/ Concede(p)
        PROVE  UNCHANGED <<deck, hand, board, seen>>
    BY <1>2 DEF Attack, HeroAttack, MinionAttack, EndTurn, Concede, zoneVars
  <1>3. CASE Tick
    BY <1>3, NoneDoomed, ZonesKept DEF Tick, ZonesInv, TypeInv, TypeOK
  <1>4. HitHero \/ HitMinion \/ HitNothing \/ StartMainPhase \/ UNCHANGED vars =>
          UNCHANGED <<deck, hand, board, seen>>
    BY DEF HitHero, HitMinion, HitNothing, StartMainPhase, vars, zoneVars
  <1> QED
    BY <1>1, <1>2, <1>3, <1>4, ZonesKept, ZonesDraw, ZonesFrame DEF Next, Resolve, ZonesInv

\* However many cards are drawn, played, refused and burnt, and even when clients
\* act on outdated hands, no hand exceeds max_hand_size, no board max_board_size,
\* and a board only holds minions of its own player.
THEOREM ZonesStayBounded == Spec => []ZonesBounded
  <1>1. Init => ZonesInv
    BY TypeInit, ZonesInit DEF ZonesInv
  <1>2. ZonesInv => ZonesBounded
    BY DEF ZonesInv, Owned, Limited, ZonesBounded
  <1> QED
    BY <1>1, <1>2, ZonesNext, PTL DEF Spec

\* Types, limits of the zones and marks of the dead survive whatever is played
\* with cards once shown to the player, in the hand or not any more, and whatever
\* attacks with minions of the player's own board, whenever the tick comes
\* (PlayCard, Attack, EndTurn).
THEOREM LimitsHold == Spec => []Inv
  <1>1. TypeOK /\ ZonesBounded /\ DeadAreDying => Inv
    BY DEF Inv
  <1> QED
    BY <1>1, TypesHold, ZonesStayBounded, DeadAreMarked, PTL

-----------------------------------------------------------------------------
(* Who may attack. *)

\* Appending adds one element and loses none.
LEMMA AppendAdds ==
  ASSUME NEW s \in Seq(Card), NEW c \in Card
  PROVE  Range(Append(s, c)) = Range(s) \cup {c}
  <1>1. /\ Append(s, c) \in Seq(Card) /\ Len(Append(s, c)) = Len(s) + 1
        /\ \A i \in 1..Len(s) : Append(s, c)[i] = s[i]
        /\ Append(s, c)[Len(s) + 1] = c /\ Len(s) \in Nat
    BY AppendProperties, LenProperties
  <1>2. Range(s) = {s[i] : i \in 1..Len(s)}
    BY RangeEquality
  <1>3. Range(Append(s, c)) = {Append(s, c)[i] : i \in 1..Len(Append(s, c))}
    BY <1>1, RangeEquality
  <1>4. Range(s) \subseteq Range(Append(s, c))
    BY <1>1, <1>2, <1>3
  <1>5. c \in Range(Append(s, c))
    <2>1. Len(s) + 1 \in 1..Len(Append(s, c))
      BY <1>1
    <2> QED
      BY <1>1, <1>3, <2>1
  <1> QED
    BY <1>4, <1>5, RangeOfAppend

\* A summoned minion joins its player's board; every other board stays.
LEMMA BoardsGrow ==
  ASSUME TypeInv, NEW p \in Player, NEW c \in Card, PlayMinion(p, c), NEW q \in Player
  PROVE  Range(board[q]) \subseteq Range(board'[q])
  <1>1. board \in [Player -> Seq(Card)]
    BY DEF TypeInv, TypeOK
  <1>2. board' = board \/ board' = [board EXCEPT ![p] = Append(board[p], c)]
    BY DEF PlayMinion
  <1>3. Range(board[p]) \subseteq Range(Append(board[p], c))
    BY <1>1, AppendAdds
  <1> QED
    BY <1>1, <1>2, <1>3

\* A step that readies no minion, counts no attack and empties no board.
LEMMA ReadyKept ==
  ASSUME ReadyMinions, attacks' = attacks,
         \A c \in Card : ready'[c] => ready[c],
         \A p \in Player : Range(board[p]) \subseteq Range(board'[p])
  PROVE  ReadyMinions'
  BY DEF ReadyMinions, IsMinion

\* The minion that attacks is not ready any more.
LEMMA ReadyAttack ==
  ASSUME TypeInv, ReadyMinions, NEW p \in Player, NEW t \in Card \cup Player,
         NEW a \in Range(board[p]), MinionAttack(p, a, t)
  PROVE  ReadyMinions'
  <1>1. a \in Card
    BY RangeOfSeq DEF TypeInv, TypeOK
  <1>2. /\ ready' = [ready EXCEPT ![a] = FALSE] /\ attacks' = [attacks EXCEPT ![a] = @ + 1]
        /\ board' = board
    BY DEF MinionAttack, zoneVars
  <1>3. /\ DOMAIN ready = Card /\ DOMAIN attacks = Card
    BY DEF TypeInv, TypeOK
  <1>4. ASSUME NEW c \in Card PROVE IF c = a THEN ~ready'[c] ELSE ready'[c] = ready[c] /\ attacks'[c] = attacks[c]
    BY <1>1, <1>2, <1>3
  <1> QED
    BY <1>2, <1>4 DEF ReadyMinions, IsMinion

\* The minions EndTurn readies are on the next player's board, their attacks
\* counted anew.
LEMMA ReadyEndTurn ==
  ASSUME TypeInv, ReadyMinions, NEW p \in Player, EndTurn(p)
  PROVE  ReadyMinions'
  <1>1. /\ ready' = [c \in Card |-> ready[c] \/ c \in Refreshed(Opponent(p))]
        /\ attacks' = [c \in Card |-> IF c \in Refreshed(Opponent(p)) THEN 0 ELSE attacks[c]]
        /\ board' = board
    BY DEF EndTurn, zoneVars
  <1>2. Opponent(p) \in Player /\ Refreshed(Opponent(p)) \subseteq Range(board[Opponent(p)])
    BY OpponentType DEF Refreshed
  <1> QED
    BY <1>1, <1>2 DEF ReadyMinions, IsMinion

\* Whatever is played, refused, refreshed and attacked with, a minion that may
\* attack has not attacked this turn, and one without charge has begun a turn
\* of its player on the board: summoning sickness, canAttack and
\* attacksThisTurn of CombatSystem.Attack and startTurn.
THEOREM OnlyRestedAttack == Spec => []ReadyMinions
  <1>1. Init => ReadyMinions
    BY DEF Init, ReadyMinions
  <1>2. TypeInv /\ ReadyMinions /\ [Next]_vars => ReadyMinions'
    <2> SUFFICES ASSUME TypeInv, ReadyMinions, [Next]_vars PROVE ReadyMinions'
      OBVIOUS
    <2> DEFINE Same == UNCHANGED <<ready, attacks, board>>
    <2>0. Same => ReadyMinions'
      BY DEF ReadyMinions, IsMinion
    <2>1. ASSUME NEW p \in Player, PlayCard(p) PROVE ReadyMinions'
      <3>1. ASSUME NEW c \in Card,
                   \/ PlayWeapon(p, c) \/ PlayDrawSpell(p, c)
                   \/ \E t \in Targets(p) : PlayDamageSpell(p, c, t) \/ PlayHealSpell(p, c, t)
            PROVE  Same
        BY <3>1 DEF PlayWeapon, PlayDrawSpell, PlayDamageSpell, PlayHealSpell, PlaySpell,
                    Spend
      <3>2. ASSUME NEW c \in Card, PlayMinion(p, c) PROVE ReadyMinions'
        <4>1. attacks' = attacks /\ \A m \in Card : ready'[m] => ready[m]
          BY <3>2 DEF PlayMinion, Spend, TypeInv, TypeOK
        <4> QED
          BY <3>2, <4>1, BoardsGrow, ReadyKept
      <3> QED
        BY <2>0, <2>1, <3>1, <3>2, PlayCardCases
    <2>2. ASSUME NEW p \in Player, Attack(p) PROVE ReadyMinions'
      <3>1. ASSUME NEW t, HeroAttack(p, t) PROVE Same
        BY <3>1 DEF HeroAttack, zoneVars
      <3> QED
        BY <2>0, <2>2, <3>1, AttackCases, ReadyAttack
    <2>3. ASSUME NEW p \in Player, Concede(p) \/ Frame(p) PROVE Same
      BY <2>3 DEF Concede, Frame, zoneVars, cardVars
    <2>4. CASE Tick
      BY <2>0, <2>4, NoneDoomed DEF Tick, TypeInv, TypeOK
    <2>5. Resolve \/ UNCHANGED vars => Same
      BY DEF Resolve, HitHero, HitMinion, HitNothing, DrawCard, StartMainPhase, vars,
             zoneVars, cardVars
    <2> QED
      BY <2>0, <2>1, <2>2, <2>3, <2>4, <2>5, ReadyEndTurn DEF Next
  <1> QED
    BY <1>1, <1>2, TypeCorrect, PTL DEF Spec

-----------------------------------------------------------------------------
(* Deathrattles that set each other off. *)

\* p's board holds a minion whose deathrattle still does damage.
Rattling(p) == \E c \in Range(board[p]) \cap present : Template[c].rattle > 0

\* A hit dealt by a deathrattle is on a minion of its player's board, and one
\* dealt by a deathrattle that another set off comes from a minion of the
\* opponent's board.
Nested(h) ==
  h.op = "hit" /\ h.depth >= 1 =>
    /\ h.who \in Card /\ h.who \in Range(board[Owner[h.who]])
    /\ h.depth >= 2 => Rattling(Opponent(Owner[h.who]))

AllNested(s) == \A i \in DOMAIN s : Nested(s[i])

RunawayInv == ZonesInv /\ AllNested(calls) /\ RunawayNeedsBothBoards

\* What is left of the calls, and the calls made before them.
LEMMA NestedRest ==
  ASSUME NEW s \in Seq(Call), s # <<>>, AllNested(s)
  PROVE  AllNested(Tail(s)) /\ Nested(Head(s))
  <1>1. /\ Tail(s) \in Seq(Call) /\ Len(Tail(s)) = Len(s) - 1
        /\ \A i \in 1..Len(Tail(s)) : Tail(s)[i] = s[i + 1]
    BY HeadTailProperties
  <1>2. Len(s) \in Nat /\ Len(s) # 0 /\ DOMAIN s = 1..Len(s) /\ Head(s) = s[1]
    BY LenProperties, EmptySeq
  <1>3. DOMAIN Tail(s) = 1..Len(Tail(s))
    BY <1>1, LenProperties
  <1>4. \A i \in 1..Len(s) : Nested(s[i])
    BY <1>2 DEF AllNested
  <1>5. ASSUME NEW i \in 1..Len(Tail(s)) PROVE Nested(Tail(s)[i])
    <2>1. Tail(s)[i] = s[i + 1] /\ i + 1 \in 1..Len(s)
      BY <1>1, <1>2
    <2> QED
      BY <1>4, <2>1
  <1>6. Nested(s[1])
    BY <1>2, <1>4
  <1> QED
    BY <1>2, <1>3, <1>5, <1>6 DEF AllNested

\* And of the calls made before the remaining ones.
LEMMA NestedMore ==
  ASSUME NEW s \in Seq(Call), NEW t \in Seq(Call), AllNested(s), AllNested(t)
  PROVE  AllNested(s \o t)
  <1>1. /\ s \o t \in Seq(Call) /\ Len(s \o t) = Len(s) + Len(t)
        /\ \A i \in 1..Len(s) + Len(t) :
             (s \o t)[i] = IF i <= Len(s) THEN s[i] ELSE t[i - Len(s)]
    BY ConcatProperties
  <1>2. /\ Len(s) \in Nat /\ DOMAIN s = 1..Len(s) /\ Len(t) \in Nat
        /\ DOMAIN t = 1..Len(t) /\ DOMAIN (s \o t) = 1..Len(s \o t)
    BY <1>1, LenProperties
  <1>3. ASSUME NEW i \in 1..Len(s \o t) PROVE Nested((s \o t)[i])
    <2>1. CASE i <= Len(s)
      <3>1. i \in DOMAIN s /\ (s \o t)[i] = s[i]
        BY <1>1, <1>2, <2>1
      <3> QED
        BY <3>1 DEF AllNested
    <2>2. CASE ~(i <= Len(s))
      <3>1. i - Len(s) \in DOMAIN t /\ (s \o t)[i] = t[i - Len(s)]
        BY <1>1, <1>2, <2>2
      <3> QED
        BY <3>1 DEF AllNested
    <2> QED
      BY <2>1, <2>2
  <1> QED
    BY <1>2, <1>3 DEF AllNested

\* The hits of an attack or a spell are dealt at depth 0.
LEMMA HitAllShallow ==
  ASSUME NEW minions \in Seq(Card \cup Player), NEW damage
  PROVE  AllNested(HitAll(minions, damage, 0))
  <1>1. Len(minions) \in Nat
    BY LenProperties
  <1>2. \A i \in 1..Len(minions) : HitAll(minions, damage, 0)[i].depth = 0
    BY DEF HitAll, Hit
  <1>3. DOMAIN HitAll(minions, damage, 0) = 1..Len(minions)
    BY DEF HitAll
  <1> QED
    BY <1>2, <1>3 DEF AllNested, Nested

\* A single hit of a spell or an attack is at depth 0.
LEMMA HitShallow ==
  ASSUME NEW t, NEW damage
  PROVE  AllNested(<<Hit(t, damage, 0)>>)
  BY DEF AllNested, Nested, Hit

\* So are the blow and the retaliation.
LEMMA ExchangeShallow ==
  ASSUME NEW a \in Card \cup Player, NEW power \in Nat, NEW t \in Card \cup Player
  PROVE  AllNested(Exchange(a, power, t))
  <1>1. <<Hit(t, power, 0)>> \in Seq(Call) /\ AllNested(<<Hit(t, power, 0)>>)
    BY HitType, HitShallow
  <1>2. <<>> \in Seq(Call) /\ AllNested(<<>>)
    BY DEF AllNested
  <1>3. ASSUME t \in Card
        PROVE  /\ <<Hit(a, Template[t].attack, 0)>> \in Seq(Call)
               /\ AllNested(<<Hit(a, Template[t].attack, 0)>>)
    BY <1>3, TemplateType, HitType, HitShallow
  <1> QED
    BY <1>1, <1>2, <1>3, NestedMore DEF Exchange

\* So is every hit of a damage spell.
LEMMA DamageSpellShallow ==
  ASSUME TypeInv, NEW p \in Player, NEW c \in Card, NEW t \in Targets(p),
         PlayDamageSpell(p, c, t)
  PROVE  AllNested(calls')
  <1> DEFINE enemy == Opponent(p)
             value == Template[c].value
             foes == {enemy} \cup (Range(board[enemy]) \cap present)
  <1>1. enemy \in Player /\ value \in Nat /\ board[enemy] \in Seq(Card)
    BY OpponentType, TemplateType DEF TypeInv, TypeOK
  <1>2. board[enemy] \in Seq(Card \cup Player)
    BY <1>1, SeqMonotonic
  <1>3. foes \in SUBSET (Card \cup Player)
    BY <1>1 DEF TypeInv, TypeOK
  <1>4. CASE calls' = HitAll(board[enemy], value, 0)
    BY <1>2, <1>4, HitAllShallow
  <1>5. CASE \E pick \in [1..value -> foes] : calls' = HitAll(pick, 1, 0)
    <2>1. PICK pick \in [1..value -> foes] : calls' = HitAll(pick, 1, 0)
      BY <1>5
    <2>2. pick \in Seq(Card \cup Player)
      BY <1>1, <1>3, PickedType
    <2> QED
      BY <2>1, <2>2, HitAllShallow
  <1>6. CASE calls' = <<Hit(t, value, 0)>>
    BY <1>6, HitShallow
  <1> QED
    BY <1>4, <1>5, <1>6 DEF PlayDamageSpell

\* The hits a deathrattle deals are nested one deeper than the hit that set it off.
LEMMA EchoNested ==
  ASSUME ZonesInv, HitMinion, Nested(Head(calls)),
         Template[Head(calls).who].rattle > 0
  PROVE  AllNested(HitAll(Echoed(Head(calls).who), Template[Head(calls).who].rattle,
                          Head(calls).depth + 1))
  <1> DEFINE h == Head(calls)
             m == h.who
             q == Opponent(Owner[m])
  <1>1. h \in Call /\ h.op = "hit" /\ m \in present /\ m \in Card
    BY FirstCall DEF HitMinion, Calling, ZonesInv, TypeInv, TypeOK
  <1>2. h.depth \in Nat /\ Owner[m] \in Player /\ q \in Player /\ Opponent(q) = Owner[m]
    BY <1>1, TemplateType, OpponentType DEF Call, Opponent, Player
  <1>3. board[q] \in Seq(Card) /\ Len(board[q]) \in Nat
    BY <1>2, LenProperties DEF ZonesInv, TypeInv, TypeOK
  <1>4. ASSUME NEW i \in 1..Len(board[q])
        PROVE  Nested(Hit(board[q][i], Template[m].rattle, h.depth + 1))
    <2>1. board[q][i] \in Card /\ board[q][i] \in Range(board[q])
      BY <1>3, ElementOfSeq, RangeEquality
    <2>2. Owner[board[q][i]] = q
      BY <1>2, <2>1 DEF ZonesInv, Owned
    <2>3. h.depth + 1 >= 2 => Rattling(Owner[m])
      <3>1. h.depth + 1 >= 2 => h.depth >= 1
        BY <1>2
      <3>2. h.depth >= 1 => m \in Range(board[Owner[m]])
        BY <1>1 DEF Nested
      <3> QED
        BY <1>1, <3>1, <3>2 DEF Rattling
    <2> QED
      BY <1>2, <2>1, <2>2, <2>3 DEF Nested, Hit
  <1>5. Echoed(m) = board[q]
    BY DEF Echoed
  <1> HIDE DEF h, m, q
  <1>6. AllNested(HitAll(board[q], Template[m].rattle, h.depth + 1))
    BY <1>3, <1>4 DEF AllNested, HitAll
  <1> QED
    BY <1>5, <1>6 DEF h, m, q

\* A hit that finds the recursion at its limit is on a minion of a board, set
\* off by one of the other.
LEMMA DeepHitCrashes ==
  ASSUME ZonesInv, HitMinion, Nested(Head(calls)), MaxDepth >= 2,
         Template[Head(calls).who].rattle > 0, Head(calls).depth >= MaxDepth
  PROVE  \A p \in Player : Rattling(p)
  <1> DEFINE h == Head(calls)
             m == h.who
  <1>1. h \in Call /\ h.op = "hit" /\ m \in present /\ m \in Card
    BY FirstCall DEF HitMinion, Calling, ZonesInv, TypeInv, TypeOK
  <1>2. h.depth \in Nat /\ MaxDepth \in Nat
    BY <1>1, BattleAssumption DEF Call
  <1>3. h.depth >= 2 /\ h.depth >= 1
    BY <1>2
  <1>4. m \in Range(board[Owner[m]]) /\ Rattling(Opponent(Owner[m]))
    BY <1>1, <1>3 DEF Nested
  <1>5. Rattling(Owner[m])
    BY <1>1, <1>4 DEF Rattling
  <1>6. Player = {Owner[m], Opponent(Owner[m])}
    BY <1>1, TemplateType DEF Opponent, Player
  <1> QED
    BY <1>4, <1>5, <1>6

\* What becomes of the calls while the boards and the world stay as they are.
LEMMA NestedKept ==
  ASSUME UNCHANGED <<board, present>>, AllNested(calls')
  PROVE  AllNested(calls)'
  BY DEF AllNested, Nested, Rattling

\* An attack or a spell only deals hits at depth 0, a deathrattle hits nested
\* ones, and every other step takes calls away or leaves none.
LEMMA NestedNext == RunawayInv /\ [Next]_vars => AllNested(calls)'
  <1> SUFFICES ASSUME RunawayInv, [Next]_vars PROVE AllNested(calls)'
    OBVIOUS
  <1> DEFINE Same == UNCHANGED <<board, present>>
  <1>0. /\ TypeInv /\ AllNested(calls) /\ calls \in Seq(Call) /\ AllNested(<<>>)
    BY SMTT(30) DEF RunawayInv, ZonesInv, TypeInv, TypeOK, AllNested
  <1>1. ASSUME calls' = <<>> PROVE AllNested(calls)'
    BY <1>1 DEF AllNested
  <1>2. ASSUME NEW p \in Player, PlayCard(p) PROVE AllNested(calls)'
    <2>1. PICK c \in Card : \/ PlayMinion(p, c) \/ PlayWeapon(p, c) \/ PlayDrawSpell(p, c)
                            \/ \E t \in Targets(p) : PlayDamageSpell(p, c, t)
                            \/ \E u \in Targets(p) : PlayHealSpell(p, c, u)
      BY <1>2, PlayCardCases
    <2>2. CASE PlayMinion(p, c) \/ PlayWeapon(p, c) \/ \E u \in Targets(p) : PlayHealSpell(p, c, u)
      <3>1. calls' = <<>>
        BY <2>2 DEF PlayMinion, PlayWeapon, PlayHealSpell, PlaySpell, Spend, CanAct, Idle
      <3> QED
        BY <1>1, <3>1
    <2>3. CASE PlayDrawSpell(p, c)
      BY <2>3 DEF PlayDrawSpell, Draw, AllNested, Nested
    <2>4. ASSUME NEW t \in Targets(p), PlayDamageSpell(p, c, t) PROVE AllNested(calls)'
      <3>1. Same
        BY <2>4 DEF PlayDamageSpell, PlaySpell, Spend
      <3> QED
        BY <1>0, <2>4, <3>1, DamageSpellShallow, NestedKept
    <2> QED
      BY <2>1, <2>2, <2>3, <2>4
  <1>3. ASSUME NEW p \in Player, Attack(p) PROVE AllNested(calls)'
    <2>1. PICK t \in Card \cup Player :
            HeroAttack(p, t) \/ \E a \in Range(board[p]) : MinionAttack(p, a, t)
      BY <1>0, <1>3, AttackCases
    <2>2. Same
      BY <2>1 DEF HeroAttack, MinionAttack, zoneVars
    <2>3. CASE HeroAttack(p, t)
      <3>1. calls' = Exchange(p, heroAttack[p], t) /\ heroAttack[p] \in Nat
        BY <1>0, <2>3 DEF HeroAttack, TypeInv, TypeOK
      <3> QED
        BY <2>2, <3>1, ExchangeShallow, NestedKept
    <2>4. ASSUME NEW a \in Range(board[p]), MinionAttack(p, a, t) PROVE AllNested(calls)'
      <3>1. a \in Card
        BY <1>0, RangeOfSeq DEF TypeInv, TypeOK
      <3>2. calls' = Exchange(a, Template[a].attack, t) /\ Template[a].attack \in Nat
        BY <2>4, <3>1, TemplateType DEF MinionAttack
      <3> QED
        BY <2>2, <3>1, <3>2, ExchangeShallow, NestedKept
    <2> QED
      BY <2>1, <2>3, <2>4
  <1>4. ASSUME NEW p \in Player, EndTurn(p) PROVE AllNested(calls)'
    BY <1>4 DEF EndTurn, Draw, EnterMain, AllNested, Nested
  <1>5. ASSUME NEW p \in Player, Concede(p) \/ Frame(p) \/ Tick PROVE AllNested(calls)'
    BY <1>1, <1>5 DEF Concede, Frame, Tick, Idle
  <1>6. ASSUME UNCHANGED <<board, present>>, calls # <<>>, calls' = Tail(calls)
        PROVE  AllNested(calls)'
    BY <1>0, <1>6, NestedRest, NestedKept
  <1>7. CASE HitHero \/ HitNothing \/ DrawCard \/ StartMainPhase
    BY <1>6, <1>7 DEF HitHero, HitNothing, DrawCard, StartMainPhase, Calling, zoneVars,
                      cardVars
  <1>8. CASE HitMinion
    <2> DEFINE h == Head(calls)
               m == h.who
               echo == HitAll(Echoed(m), Template[m].rattle, h.depth + 1)
    <2>1. Same /\ calls # <<>>
      BY <1>8 DEF HitMinion, Calling, zoneVars
    <2>2. Nested(h) /\ AllNested(Tail(calls)) /\ Tail(calls) \in Seq(Call) /\ h \in Call
      BY <1>0, <2>1, NestedRest, HeadTailProperties
    <2>3. CASE calls' = Tail(calls)
      BY <1>6, <2>1, <2>3
    <2>4. CASE calls' = calls
      BY <1>0, <2>1, <2>4, NestedKept
    <2>5. CASE calls' = echo \o Tail(calls) /\ Template[m].rattle > 0
      <3>1. AllNested(echo)
        BY <1>8, <2>2, <2>5, EchoNested DEF RunawayInv
      <3>2. echo \in Seq(Call)
        <4>1. m \in Card /\ h.depth + 1 \in Nat
          <5>1. m \in present /\ present \subseteq Card
            BY <1>0, <1>8 DEF HitMinion, TypeInv, TypeOK
          <5>2. h.depth \in Nat
            BY <2>2 DEF Call
          <5> HIDE DEF h
          <5> QED
            BY <5>1, <5>2
        <4>2. Owner[m] \in Player /\ Template[m].rattle \in Nat
          BY <4>1, TemplateType
        <4>3. Echoed(m) \in Seq(Card)
          BY <1>0, <4>2, OpponentType DEF Echoed, TypeInv, TypeOK
        <4>4. Echoed(m) \in Seq(Card \cup Player)
          BY <4>3, SeqMonotonic
        <4> QED
          BY <4>1, <4>2, <4>4, HitAllType
      <3> HIDE DEF echo
      <3>3. AllNested(echo \o Tail(calls))
        BY <2>2, <3>1, <3>2, NestedMore
      <3> QED
        BY <2>1, <2>5, <3>3, NestedKept
    <2> QED
      BY <1>8, <2>3, <2>4, <2>5 DEF HitMinion
  <1>9. CASE UNCHANGED vars
    BY <1>0, <1>9, NestedKept DEF vars, zoneVars, cardVars
  <1>10. P1 \in Player
    BY DEF Player
  <1> QED
    BY <1>2, <1>3, <1>4, <1>5, <1>7, <1>8, <1>9, <1>10 DEF Next, Resolve

\* Nothing happens after a crash, and it comes with a hit at the limit of depth.
LEMMA RunawayNext ==
  ASSUME MaxDepth >= 2
  PROVE  RunawayInv /\ [Next]_vars => RunawayNeedsBothBoards'
  <1> SUFFICES ASSUME RunawayInv, [Next]_vars, crashed' PROVE RunawayNeedsBothBoards'
    BY DEF RunawayNeedsBothBoards
  <1>1. CASE crashed
    <2>1. ~Idle /\ \A op : ~Calling(op)
      BY <1>1 DEF Idle, Calling
    <2>2. ASSUME NEW p \in Player PROVE ~PlayCard(p) /\ ~Attack(p)
      BY <2>1, PlayCardPays DEF Attack, HeroAttack, MinionAttack, Spend, CanAct
    <2>3. ASSUME NEW p \in Player PROVE ~EndTurn(p) /\ ~Concede(p) /\ ~Frame(p) /\ ~Tick /\ ~Resolve
      BY <2>1 DEF EndTurn, Concede, Frame, Tick, Resolve, HitHero, HitMinion, HitNothing,
                  DrawCard, StartMainPhase
    <2>4. UNCHANGED <<board, present, crashed>>
      <3>1. P1 \in Player
        BY DEF Player
      <3> QED
        BY <2>2, <2>3, <3>1 DEF Next, vars, zoneVars, cardVars
    <2> QED
      BY <2>4 DEF RunawayInv, RunawayNeedsBothBoards
  <1>2. CASE ~crashed
    <2>1. ASSUME NEW p \in Player, PlayCard(p) PROVE crashed' = crashed
      BY <2>1, PlayCardPays DEF Spend
    <2>2. ASSUME NEW p \in Player, Attack(p) \/ EndTurn(p) \/ Concede(p) \/ Frame(p)
          PROVE  crashed' = crashed
      BY <2>2 DEF Attack, HeroAttack, MinionAttack, EndTurn, Concede, Frame
    <2>3. HitHero \/ HitNothing \/ DrawCard \/ StartMainPhase \/ Tick \/ UNCHANGED vars =>
            crashed' = crashed
      BY DEF HitHero, HitNothing, DrawCard, StartMainPhase, Tick, vars
    <2>4. HitMinion
      BY <1>2, <2>1, <2>2, <2>3 DEF Next, Resolve
    <2>5. /\ Template[Head(calls).who].rattle > 0 /\ Head(calls).depth >= MaxDepth
          /\ UNCHANGED <<board, present>> /\ calls # <<>> /\ calls \in Seq(Call)
      BY <1>2, <2>4 DEF HitMinion, Calling, zoneVars, RunawayInv, ZonesInv, TypeInv, TypeOK
    <2>6. Nested(Head(calls))
      BY <2>5, NestedRest DEF RunawayInv
    <2>7. \A p \in Player : Rattling(p)
      BY <2>4, <2>5, <2>6, DeepHitCrashes DEF RunawayInv
    <2> QED
      BY <2>5, <2>7 DEF RunawayNeedsBothBoards, Rattling
  <1> QED
    BY <1>1, <1>2

\* When the stack holds more than one deathrattle, dealDamage and
\* triggerDeathrattle only recurse without end while both boards hold a minion
\* of the world with a damaging deathrattle, whatever else was played.
THEOREM RunawayTakesTwo ==
  ASSUME MaxDepth >= 2
  PROVE  Spec => []RunawayNeedsBothBoards
  <1>1. Init => RunawayInv
    <2>1. Init => calls = <<>> /\ crashed = FALSE
      BY DEF Init
    <2>2. Init => ZonesInv
      BY TypeInit, ZonesInit DEF ZonesInv
    <2> QED
      BY <2>1, <2>2 DEF RunawayInv, AllNested, RunawayNeedsBothBoards
  <1>2. RunawayInv /\ [Next]_vars => RunawayInv'
    BY ZonesNext, NestedNext, RunawayNext DEF RunawayInv
  <1>3. RunawayInv => RunawayNeedsBothBoards
    BY DEF RunawayInv
  <1> QED
    BY <1>1, <1>2, <1>3, PTL DEF Spec

-----------------------------------------------------------------------------
(* Clients that act on settled, displayed states (Rapid = FALSE). *)

\* A settled state has nothing left to do.
Quiet == settled => calls = <<>> /\ dying = {}

\* The deck, the board and the hand of p hold different cards.
Apart(p) ==
  /\ IsInjective(deck[p]) /\ IsInjective(board[p])
  /\ Range(deck[p]) \cap hand[p] = {} /\ Range(deck[p]) \cap Range(board[p]) = {}
  /\ hand[p] \cap Range(board[p]) = {}
  /\ weapon[p] \notin Range(deck[p]) \cup hand[p]

Held(p) == Range(deck[p]) \cup hand[p] \cup Range(board[p])

\* What a player holds is alive and in the world, or a minion that has died.
Spent(c) == IsMinion(c) /\ hp[c] = 0
Alive(p) == \A c \in Held(p) : c \in present \ dying \/ Spent(c)

\* What is equipped is a weapon of the player's own deck, and the source of the
\* hero's attack.
Equipped(p) ==
  IF weapon[p] = NoCard THEN heroAttack[p] = 0
  ELSE /\ Template[weapon[p]].type = "weapon" /\ Owner[weapon[p]] = p
       /\ weapon[p] \in present \ dying
       /\ durability[weapon[p]] > 0
       /\ heroAttack[p] = Template[weapon[p]].attack

\* A card not yet played has the durability it was created with.
Unworn(p) == \A c \in Range(deck[p]) \cup hand[p] : durability[c] = Template[c].durability

Orderly(p) == Apart(p) /\ Alive(p) /\ Equipped(p) /\ Unworn(p)

SettledInv == ZonesInv /\ Quiet /\ \A p \in Player : Orderly(p)

\* The properties the runs check follow.
LEMMA OrderlyShows == SettledInv => ZonesInOrder /\ WeaponWorks
  <1> SUFFICES ASSUME SettledInv PROVE ZonesInOrder /\ WeaponWorks
    OBVIOUS
  <1>1. \A p \in Player : Apart(p) /\ Alive(p) /\ Equipped(p)
    BY DEF SettledInv, Orderly
  <1>2. OneZone
    BY <1>1 DEF OneZone, Apart
  <1>3. StrayIdsAreDead
    BY <1>1 DEF StrayIdsAreDead, Alive, Held, Spent
  <1>4. WeaponWorks
    BY <1>1 DEF WeaponWorks, Equipped
  <1> QED
    BY <1>2, <1>3, <1>4 DEF ZonesInOrder

\* Drawing from a deck without repetitions.
LEMMA InjectiveTail ==
  ASSUME NEW s \in Seq(Card), s # <<>>, IsInjective(s)
  PROVE  IsInjective(Tail(s)) /\ Head(s) \notin Range(Tail(s))
  <1>1. /\ Tail(s) \in Seq(Card) /\ Len(Tail(s)) = Len(s) - 1 /\ Head(s) = s[1]
        /\ \A i \in 1..Len(Tail(s)) : Tail(s)[i] = s[i + 1]
        /\ Len(s) \in Nat /\ Len(s) # 0 /\ DOMAIN s = 1..Len(s)
    BY HeadTailProperties, LenProperties, EmptySeq
  <1>2. DOMAIN Tail(s) = 1..Len(Tail(s)) /\ Range(Tail(s)) = {Tail(s)[i] : i \in 1..Len(Tail(s))}
    BY <1>1, LenProperties, RangeEquality
  <1>3. \A i, j \in 1..Len(s) : s[i] = s[j] => i = j
    BY <1>1 DEF IsInjective
  <1>4. ASSUME NEW i \in 1..Len(Tail(s)), NEW j \in 1..Len(Tail(s)), Tail(s)[i] = Tail(s)[j]
        PROVE  i = j
    <2>1. i + 1 \in 1..Len(s) /\ j + 1 \in 1..Len(s) /\ s[i + 1] = s[j + 1]
      BY <1>1, <1>4
    <2>2. i + 1 = j + 1
      BY <1>3, <2>1
    <2> QED
      BY <1>1, <2>2
  <1>5. ASSUME NEW i \in 1..Len(Tail(s)) PROVE Tail(s)[i] # s[1]
    <2>1. i + 1 \in 1..Len(s) /\ 1 \in 1..Len(s) /\ i + 1 # 1 /\ Tail(s)[i] = s[i + 1]
      BY <1>1
    <2> QED
      BY <1>3, <2>1
  <1>6. IsInjective(Tail(s))
    BY <1>2, <1>4 DEF IsInjective
  <1> QED
    BY <1>1, <1>2, <1>5, <1>6

\* Appending a new element.
LEMMA InjectiveAppend ==
  ASSUME NEW s \in Seq(Card), NEW c \in Card, IsInjective(s), c \notin Range(s)
  PROVE  IsInjective(Append(s, c))
  <1> DEFINE t == Append(s, c)
  <1>1. /\ t \in Seq(Card) /\ Len(t) = Len(s) + 1 /\ \A i \in 1..Len(s) : t[i] = s[i]
        /\ t[Len(s) + 1] = c /\ Len(s) \in Nat
        /\ DOMAIN s = 1..Len(s) /\ Range(s) = {s[i] : i \in 1..Len(s)}
    BY AppendProperties, LenProperties, RangeEquality
  <1>2. DOMAIN t = 1..Len(t)
    BY <1>1, LenProperties
  <1> HIDE DEF t
  <1>3. \A i, j \in 1..Len(s) : s[i] = s[j] => i = j
    BY <1>1 DEF IsInjective
  <1>4. \A i \in 1..Len(s) : s[i] # c
    BY <1>1
  <1>5. ASSUME NEW i \in 1..Len(t), NEW j \in 1..Len(t), t[i] = t[j] PROVE i = j
    <2>1. i \in 1..Len(s) \/ i = Len(s) + 1
      BY <1>1
    <2>2. j \in 1..Len(s) \/ j = Len(s) + 1
      BY <1>1
    <2> QED
      BY <1>1, <1>3, <1>4, <1>5, <2>1, <2>2
  <1> QED
    BY <1>2, <1>5 DEF IsInjective, t

\* The cards dealt and those left in the deck are different cards of the deck.
LEMMA DealtApart ==
  ASSUME NEW s \in Seq(Card), IsInjective(s), NEW n \in Nat, n <= Len(s)
  PROVE  LET rest == SubSeq(s, n + 1, Len(s))
             dealt == {s[i] : i \in 1..n}
         IN /\ IsInjective(rest) /\ Range(rest) \cap dealt = {}
            /\ Range(rest) \subseteq Range(s) /\ dealt \subseteq Range(s)
  <1> DEFINE rest == SubSeq(s, n + 1, Len(s))
             dealt == {s[i] : i \in 1..n}
  <1>1. Len(s) \in Nat /\ DOMAIN s = 1..Len(s) /\ Range(s) = {s[i] : i \in 1..Len(s)}
    BY LenProperties, RangeEquality
  <1>2. n + 1 \in 1..Len(s) + 1 /\ n + 1 \in Nat
    BY <1>1
  <1>3. /\ rest \in Seq(Card) /\ Len(rest) = Len(s) - n
        /\ \A i \in 1..Len(s) - n : rest[i] = s[n + i]
    <2>1. /\ rest \in Seq(Card)
          /\ Len(rest) = IF n + 1 <= Len(s) THEN Len(s) - (n + 1) + 1 ELSE 0
          /\ \A i \in 1..Len(s) - (n + 1) + 1 : rest[i] = s[(n + 1) + i - 1]
      BY <1>1, <1>2
    <2>2. /\ Len(s) - (n + 1) + 1 = Len(s) - n
          /\ \A i \in 1..Len(s) - n : (n + 1) + i - 1 = n + i
      BY <1>1
    <2>3. Len(rest) = Len(s) - n
      <3>1. CASE n + 1 <= Len(s)
        BY <2>1, <2>2, <3>1
      <3>2. CASE ~(n + 1 <= Len(s))
        <4>1. n = Len(s)
          <5> DEFINE len == Len(s)
          <5>1. len \in Nat /\ n <= len /\ ~(n + 1 <= len)
            BY <1>1, <3>2
          <5> HIDE DEF len, rest, dealt
          <5>2. n = len
            BY ONLY <5>1, n \in Nat
          <5> QED
            BY <5>2 DEF len
        <4>2. Len(rest) = 0
          BY <2>1, <3>2
        <4> HIDE DEF rest
        <4> QED
          BY <1>1, <4>1, <4>2
      <3> QED
        BY <3>1, <3>2
    <2> QED
      BY <2>1, <2>2, <2>3
  <1>4. DOMAIN rest = 1..Len(rest) /\ Range(rest) = {rest[i] : i \in 1..Len(rest)}
    BY <1>3, LenProperties, RangeEquality
  <1>5. \A i, j \in 1..Len(s) : s[i] = s[j] => i = j
    BY <1>1 DEF IsInjective
  <1> HIDE DEF rest
  <1>6. \A i \in 1..Len(rest) : n + i \in 1..Len(s) /\ rest[i] = s[n + i]
    <2> SUFFICES ASSUME NEW i \in 1..Len(rest)
                 PROVE  n + i \in 1..Len(s) /\ rest[i] = s[n + i]
      OBVIOUS
    <2>1. Len(rest) = Len(s) - n /\ rest[i] = s[n + i]
      BY ONLY <1>3, i \in 1..Len(rest)
    <2>2. n + i \in 1..Len(s)
      BY ONLY <1>1, <2>1, i \in 1..Len(rest), n \in Nat
    <2> QED
      BY ONLY <2>1, <2>2
  <1>7. ASSUME NEW i \in 1..Len(rest), NEW j \in 1..Len(rest), rest[i] = rest[j] PROVE i = j
    <2>1. n + i = n + j
      BY <1>5, <1>6, <1>7
    <2> QED
      BY <1>1, <1>3, <2>1
  <1>8. ASSUME NEW i \in 1..Len(rest), NEW j \in 1..n PROVE rest[i] # s[j]
    <2>1. j \in 1..Len(s) /\ n + i # j
      BY <1>1, <1>3
    <2> QED
      BY <1>5, <1>6, <2>1
  <1>9. IsInjective(rest) /\ Range(rest) \cap dealt = {}
    BY <1>4, <1>7, <1>8 DEF IsInjective
  <1>10. \A j \in 1..n : j \in 1..Len(s)
    BY <1>1
  <1>11. Range(rest) \subseteq Range(s) /\ dealt \subseteq Range(s)
    BY <1>1, <1>4, <1>6, <1>10
  <1> QED
    BY <1>9, <1>11 DEF rest

\* A game starts in order.
LEMMA SettledInit == Init => SettledInv
  <1> SUFFICES ASSUME Init PROVE SettledInv
    OBVIOUS
  <1>1. ZonesInv
    BY TypeInit, ZonesInit DEF ZonesInv
  <1>2. Quiet
    BY DEF Quiet, Init
  <1> DEFINE dealt == [p \in Player |-> IF p = P1 THEN Opening1 + 1 ELSE Opening2]
  <1>3. PICK d \in Decks :
          /\ deck = [p \in Player |-> SubSeq(d[p], dealt[p] + 1, Len(d[p]))]
          /\ hand = [p \in Player |-> {d[p][i] : i \in 1..dealt[p]}]
          /\ present = Range(d[P1]) \cup Range(d[P2])
    BY DEF Init
  <1>4. /\ \A p \in Player : d[p] \in Seq(Card) /\ IsInjective(d[p])
        /\ Len(d[P1]) > Opening1 /\ Len(d[P2]) >= Opening2
    BY DecksAreShuffledTemplates DEF DecksAssumption
  <1>5. ASSUME NEW p \in Player PROVE Orderly(p)
    <2>1. dealt[p] \in Nat /\ dealt[p] <= Len(d[p])
      BY <1>4, BattleAssumption, LenProperties DEF Player
    <2>2. deck[p] = SubSeq(d[p], dealt[p] + 1, Len(d[p])) /\ hand[p] = {d[p][i] : i \in 1..dealt[p]}
      BY <1>3
    <2>3. /\ IsInjective(deck[p]) /\ Range(deck[p]) \cap hand[p] = {}
          /\ Range(deck[p]) \subseteq Range(d[p]) /\ hand[p] \subseteq Range(d[p])
      <3> HIDE DEF dealt
      <3> QED
        BY <1>4, <2>1, <2>2, DealtApart
    <2>4. Range(d[p]) \subseteq present
      BY <1>3 DEF Player
    <2>5. /\ board[p] = <<>> /\ weapon[p] = NoCard /\ heroAttack[p] = 0 /\ dying = {}
          /\ durability = [c \in Card |-> Template[c].durability]
      BY DEF Init
    <2>6. Range(board[p]) = {} /\ IsInjective(board[p])
      BY <2>5 DEF Range, IsInjective
    <2>7. Range(deck[p]) \subseteq Card /\ hand[p] \subseteq Card /\ NoCard \notin Card
      BY <1>1, RangeOfSeq, BattleAssumption DEF ZonesInv, TypeInv, TypeOK
    <2>8. Apart(p)
      BY <2>3, <2>5, <2>6, <2>7 DEF Apart
    <2>9. Alive(p)
      BY <2>3, <2>4, <2>5, <2>6 DEF Alive, Held
    <2>10. Equipped(p) /\ Unworn(p)
      BY <2>5, <2>7 DEF Equipped, Unworn
    <2> QED
      BY <2>8, <2>9, <2>10 DEF Orderly
  <1> QED
    BY <1>1, <1>2, <1>5 DEF SettledInv

\* A step that takes at most hand cards from q, and under which what q holds
\* stays in the world or dies as minions die.
LEMMA Untouched ==
  ASSUME NEW q \in Player, Orderly(q),
         deck'[q] = deck[q], hand'[q] \subseteq hand[q], board'[q] = board[q],
         weapon'[q] = weapon[q], heroAttack'[q] = heroAttack[q],
         \A c \in Held(q)' : c \in present \ dying \/ Spent(c) =>
                               c \in present' \ dying' \/ Spent(c)',
         \A c \in Held(q)' \cup {weapon[q]} : durability'[c] = durability[c],
         weapon[q] \in present \ dying => weapon[q] \in present' \ dying'
  PROVE  Orderly(q)'
  <1>1. /\ Apart(q) /\ Alive(q) /\ Equipped(q) /\ Unworn(q)
        /\ Held(q)' = Range(deck[q]) \cup hand'[q] \cup Range(board[q])
        /\ Held(q)' \subseteq Held(q)
    BY DEF Orderly, Held
  <1>2. Apart(q)'
    BY <1>1 DEF Apart
  <1>3. Alive(q)'
    BY <1>1 DEF Alive
  <1>4. Equipped(q)'
    BY <1>1 DEF Equipped
  <1>5. Unworn(q)'
    BY <1>1 DEF Unworn
  <1> QED
    BY <1>2, <1>3, <1>4, <1>5 DEF Orderly

\* So a step that changes nothing of the sort.
LEMMA OrderKept ==
  ASSUME SettledInv,
         UNCHANGED <<deck, hand, board, weapon, heroAttack, present, dying, hp, durability>>
  PROVE  \A q \in Player : Orderly(q)'
  <1> SUFFICES ASSUME NEW q \in Player PROVE Orderly(q)'
    OBVIOUS
  <1>1. \A c : Spent(c)' <=> Spent(c)
    BY DEF Spent, IsMinion
  <1> QED
    BY <1>1, Untouched DEF SettledInv

\* What one player holds or has equipped is never a card of the other's deck.
LEMMA OthersCards ==
  ASSUME SettledInv, NEW p \in Player, NEW q \in Player, q # p,
         NEW x \in Held(q) \cup {weapon[q]}, NEW y \in Card, Owner[y] = p
  PROVE  x # y
  <1>1. CASE x \in Held(q)
    BY <1>1 DEF SettledInv, ZonesInv, Owned, Held
  <1>2. CASE x = weapon[q] /\ weapon[q] # NoCard
    BY <1>2 DEF SettledInv, Orderly, Equipped
  <1>3. CASE x = NoCard
    BY <1>3, BattleAssumption
  <1> QED
    BY <1>1, <1>2, <1>3

\* A settled client plays a card of its hand, in a world without dying cards.
LEMMA SettledSpend ==
  ASSUME SettledInv, Rapid = FALSE, NEW p \in Player, NEW c \in Card, Spend(p, c)
  PROVE  /\ dying = {} /\ c \in present /\ c \in hand[p] /\ Owner[c] = p
         /\ c \notin Range(deck[p]) /\ c \notin Range(board[p]) /\ c # weapon[p]
         /\ hand'[p] = hand[p] \ {c}
         /\ \A q \in Player : q # p => hand'[q] = hand[q]
         /\ UNCHANGED <<deck, present, durability>> /\ settled' = FALSE
  <1>1. settled /\ seen[p] = hand[p] /\ c \in seen[p]
    BY DEF Spend, CanAct, Settled
  <1>2. dying = {} /\ c \in present
    BY <1>1 DEF SettledInv, Quiet, Spend
  <1>3. Apart(p)
    BY DEF SettledInv, Orderly
  <1>4. hand \in [Player -> SUBSET Card] /\ hand' = [hand EXCEPT ![p] = hand[p] \ {c}]
    BY DEF Spend, Taken, SettledInv, ZonesInv, TypeInv, TypeOK
  <1>5. Owner[c] = p
    BY ZonesSpend DEF SettledInv
  <1> QED
    BY <1>1, <1>2, <1>3, <1>4, <1>5 DEF Spend, Apart

\* A summoned minion moves from the hand to the board.
LEMMA SettledMinion ==
  ASSUME SettledInv, Rapid = FALSE, NEW p \in Player, NEW c \in Card, PlayMinion(p, c),
         NEW q \in Player
  PROVE  Orderly(q)'
  <1>1. /\ Spend(p, c) /\ IsMinion(c) /\ Orderly(q)
        /\ UNCHANGED <<heroAttack, weapon, dying, hp>>
    BY DEF PlayMinion, SettledInv
  <1>2. /\ dying = {} /\ c \in present /\ c \in hand[p] /\ Owner[c] = p
        /\ c \notin Range(deck[p]) /\ c \notin Range(board[p]) /\ c # weapon[p]
        /\ hand'[p] = hand[p] \ {c}
        /\ \A r \in Player : r # p => hand'[r] = hand[r]
        /\ UNCHANGED <<deck, present, durability>>
    BY <1>1, SettledSpend
  <1>3. \A x : Spent(x)' <=> Spent(x)
    BY <1>1 DEF Spent, IsMinion
  <1>4. board \in [Player -> Seq(Card)] /\ board[p] \in Seq(Card)
    BY DEF SettledInv, ZonesInv, TypeInv, TypeOK
  <1>5. CASE board'[q] = board[q]
    <2>1. hand'[q] \subseteq hand[q]
      BY <1>2
    <2> QED
      BY <1>1, <1>2, <1>3, <1>5, <2>1, Untouched
  <1>6. CASE board'[q] # board[q]
    <2>1. q = p /\ board'[p] = Append(board[p], c)
      BY <1>4, <1>6 DEF PlayMinion
    <2>2. Apart(p) /\ Alive(p) /\ Equipped(p) /\ Unworn(p)
      BY <1>1, <2>1 DEF Orderly
    <2>3. IsInjective(board'[p]) /\ Range(board'[p]) = Range(board[p]) \cup {c}
      BY <1>2, <1>4, <2>1, <2>2, InjectiveAppend, AppendAdds DEF Apart
    <2>4. Apart(p)'
      BY <1>1, <1>2, <2>2, <2>3 DEF Apart
    <2>5. Alive(p)'
      BY <1>1, <1>2, <1>3, <2>2, <2>3 DEF Alive, Held
    <2>6. Equipped(p)' /\ Unworn(p)'
      BY <1>1, <1>2, <2>2 DEF Equipped, Unworn
    <2> QED
      BY <2>1, <2>4, <2>5, <2>6 DEF Orderly
  <1> QED
    BY <1>5, <1>6

\* The weapon put down dies; the one taken up leaves the hand.
LEMMA SettledWeapon ==
  ASSUME SettledInv, Rapid = FALSE, NEW p \in Player, NEW c \in Card, PlayWeapon(p, c),
         NEW q \in Player
  PROVE  Orderly(q)'
  <1>1. /\ Spend(p, c) /\ Template[c].type = "weapon" /\ Orderly(q)
        /\ UNCHANGED <<board, hp>>
        /\ dying' = dying \cup ({weapon[p]} \cap present)
        /\ weapon' = [weapon EXCEPT ![p] = c]
        /\ heroAttack' = [heroAttack EXCEPT ![p] = Template[c].attack]
    BY DEF PlayWeapon, SettledInv
  <1>2. /\ dying = {} /\ c \in present /\ c \in hand[p] /\ Owner[c] = p
        /\ c \notin Range(deck[p]) /\ c \notin Range(board[p]) /\ c # weapon[p]
        /\ hand'[p] = hand[p] \ {c}
        /\ \A r \in Player : r # p => hand'[r] = hand[r]
        /\ UNCHANGED <<deck, present, durability>>
    BY <1>1, SettledSpend
  <1>3. \A x : Spent(x)' <=> Spent(x)
    BY <1>1 DEF Spent, IsMinion
  <1>4. /\ DOMAIN weapon = Player /\ DOMAIN heroAttack = Player /\ present \subseteq Card
    BY DEF SettledInv, ZonesInv, TypeInv, TypeOK
  <1>5. CASE q # p
    <2>1. /\ weapon'[q] = weapon[q] /\ heroAttack'[q] = heroAttack[q] /\ hand'[q] = hand[q]
          /\ board'[q] = board[q]
      BY <1>1, <1>2, <1>4, <1>5
    <2>2. weapon[p] \in present => Owner[weapon[p]] = p /\ weapon[p] \in Card
      <3>1. weapon[p] \in present => weapon[p] # NoCard /\ weapon[p] \in Card
        BY <1>4, BattleAssumption
      <3> QED
        BY <3>1 DEF SettledInv, Orderly, Equipped
    <2>3. ASSUME NEW x \in Held(q) \cup {weapon[q]} PROVE x \notin dying'
      BY <1>1, <1>2, <1>5, <2>2, OthersCards
    <2>4. Held(q)' = Held(q)
      BY <1>2, <2>1 DEF Held
    <2> QED
      BY <1>1, <1>2, <1>3, <2>1, <2>3, <2>4, Untouched
  <1>6. CASE q = p
    <2>1. Apart(p) /\ Alive(p) /\ Equipped(p) /\ Unworn(p)
      BY <1>1, <1>6 DEF Orderly
    <2>2. weapon'[p] = c /\ heroAttack'[p] = Template[c].attack /\ board'[p] = board[p]
      BY <1>1, <1>4
    <2>3. weapon[p] \notin Held(p) \/ weapon[p] = NoCard
      <3>1. weapon[p] # NoCard => ~IsMinion(weapon[p])
        BY <2>1 DEF Equipped, IsMinion
      <3>2. \A m \in Range(board[p]) : IsMinion(m)
        BY DEF SettledInv, ZonesInv, Owned
      <3> QED
        BY <2>1, <3>1, <3>2 DEF Apart, Held
    <2>4. ASSUME NEW x \in Held(p)' PROVE x \in Held(p) /\ (x \in present => x \notin dying')
      <3>1. x \in Held(p)
        BY <1>2, <2>2 DEF Held
      <3>2. x \in present => x # NoCard
        BY <1>4, BattleAssumption
      <3> QED
        BY <1>1, <1>2, <2>3, <3>1, <3>2
    <2>5. Apart(p)'
      BY <1>1, <1>2, <2>1, <2>2 DEF Apart
    <2>6. Alive(p)'
      BY <1>2, <1>3, <2>1, <2>4 DEF Alive
    <2>7. Unworn(p)'
      BY <1>2, <2>1 DEF Unworn
    <2>8. Equipped(p)'
      <3>1. c \in present' \ dying'
        BY <1>1, <1>2
      <3>2. durability[c] = Template[c].durability /\ Template[c].durability > 0
        BY <1>1, <1>2, <2>1, BattleAssumption DEF Unworn
      <3> QED
        BY <1>1, <1>2, <2>2, <3>1, <3>2, BattleAssumption DEF Equipped
    <2> QED
      BY <1>6, <2>5, <2>6, <2>7, <2>8 DEF Orderly
  <1> QED
    BY <1>5, <1>6

\* A spell dies as it is cast: it is in no zone and is no weapon in use.  What it
\* heals is not dying.
LEMMA SettledSpell ==
  ASSUME SettledInv, Rapid = FALSE, NEW p \in Player, NEW c \in Card,
         NEW effect, PlaySpell(p, c, effect),
         \A m \in Card : hp'[m] = hp[m] \/ (m \in present /\ IsMinion(m)),
         NEW q \in Player
  PROVE  Orderly(q)'
  <1>1. /\ Spend(p, c) /\ Template[c].type = "spell" /\ Orderly(q)
        /\ UNCHANGED <<board, heroAttack, weapon>> /\ dying' = dying \cup {c}
    BY DEF PlaySpell, SettledInv
  <1>2. /\ dying = {} /\ c \in present /\ c \in hand[p] /\ Owner[c] = p
        /\ c \notin Range(deck[p]) /\ c \notin Range(board[p]) /\ c # weapon[p]
        /\ hand'[p] = hand[p] \ {c}
        /\ \A r \in Player : r # p => hand'[r] = hand[r]
        /\ UNCHANGED <<deck, present, durability>>
    BY <1>1, SettledSpend
  <1>3. ASSUME NEW x \in Held(q)' \cup {weapon[q]} PROVE x # c
    <2>1. CASE q # p
      <3>1. Held(q)' = Held(q)
        BY <1>1, <1>2, <2>1 DEF Held
      <3> QED
        BY <1>2, <1>3, <2>1, <3>1, OthersCards
    <2>2. CASE q = p
      BY <1>1, <1>2, <1>3, <2>2 DEF Held
    <2> QED
      BY <2>1, <2>2
  <1>4. hand'[q] \subseteq hand[q]
    BY <1>2
  <1>5. Held(q)' \subseteq Card
    <2>1. /\ deck[q] \in Seq(Card) /\ hand[q] \subseteq Card /\ board[q] \in Seq(Card)
      BY DEF SettledInv, ZonesInv, TypeInv, TypeOK
    <2>2. Range(deck[q]) \subseteq Card /\ Range(board[q]) \subseteq Card
      BY <2>1, RangeOfSeq
    <2> QED
      BY <1>1, <1>2, <1>4, <2>1, <2>2 DEF Held
  <1>6. ASSUME NEW x \in Held(q)', x \in present \ dying \/ Spent(x)
        PROVE  x \in present' \ dying' \/ Spent(x)'
    <2>1. CASE x \in present
      BY <1>1, <1>2, <1>3, <2>1
    <2>2. CASE x \notin present
      <3>1. Spent(x) /\ hp'[x] = hp[x]
        BY <1>5, <1>6, <2>2
      <3> QED
        BY <3>1 DEF Spent, IsMinion
    <2> QED
      BY <2>1, <2>2
  <1>7. weapon[q] \in present \ dying => weapon[q] \in present' \ dying'
    BY <1>1, <1>2, <1>3
  <1> QED
    BY <1>1, <1>2, <1>4, <1>6, <1>7, Untouched

\* So each kind of spell.
LEMMA SettledSpells ==
  ASSUME SettledInv, Rapid = FALSE, NEW p \in Player, NEW c \in Card,
         \/ PlayDrawSpell(p, c)
         \/ \E t \in Targets(p) : PlayDamageSpell(p, c, t)
         \/ \E t \in Targets(p) : PlayHealSpell(p, c, t),
         NEW q \in Player
  PROVE  Orderly(q)'
  <1>1. \E effect : PlaySpell(p, c, effect)
    BY DEF PlayDrawSpell, PlayDamageSpell, PlayHealSpell
  <1>2. \A m \in Card : hp'[m] = hp[m] \/ (m \in present /\ IsMinion(m))
    BY DEF PlayDrawSpell, PlayDamageSpell, PlayHealSpell
  <1> QED
    BY <1>1, <1>2, SettledSpell

\* A hero's weapon wears by one blow, and breaks with the last.
LEMMA SettledHeroAttack ==
  ASSUME SettledInv, NEW p \in Player, NEW t, HeroAttack(p, t), NEW q \in Player
  PROVE  Orderly(q)'
  <1> DEFINE w == weapon[p]
  <1>1. /\ UNCHANGED <<deck, hand, board, present, hp>> /\ Orderly(q) /\ Orderly(p)
        /\ durability' = IF w \in present THEN [durability EXCEPT ![w] = durability[w] - 1] ELSE durability
        /\ dying' = IF Breaks(w) THEN dying \cup {w} ELSE dying
        /\ weapon' = IF Breaks(w) THEN [weapon EXCEPT ![p] = NoCard] ELSE weapon
        /\ heroAttack' = IF Breaks(w) THEN [heroAttack EXCEPT ![p] = 0] ELSE heroAttack
    BY DEF HeroAttack, zoneVars, SettledInv
  <1>2. /\ DOMAIN weapon = Player /\ DOMAIN heroAttack = Player /\ present \subseteq Card
        /\ durability \in [Card -> Int]
    BY DEF SettledInv, ZonesInv, TypeInv, TypeOK
  <1>3. \A x : Spent(x)' <=> Spent(x)
    BY <1>1 DEF Spent, IsMinion
  <1>4. Held(q)' = Held(q)
    BY <1>1 DEF Held
  <1>5. w \in present => /\ w # NoCard /\ w \in Card /\ Owner[w] = p
                         /\ Template[w].type = "weapon"
    <2>1. w \in present => w # NoCard /\ w \in Card
      BY <1>2, BattleAssumption
    <2> QED
      BY <1>1, <2>1 DEF Orderly, Equipped
  <1>6. CASE w \notin present
    <2>1. ~Breaks(w)
      BY <1>6 DEF Breaks
    <2> QED
      BY <1>1, <1>6, <2>1, OrderKept
  <1>7. CASE w \in present /\ q # p
    <2>1. ASSUME NEW x \in Held(q) \cup {weapon[q]} PROVE x # w
      BY <1>5, <1>7, OthersCards
    <2>2. weapon'[q] = weapon[q] /\ heroAttack'[q] = heroAttack[q]
      BY <1>1, <1>2, <1>7
    <2>3. \A x \in Held(q) \cup {weapon[q]} : durability'[x] = durability[x]
      BY <1>1, <1>2, <2>1
    <2>4. \A x \in Held(q) \cup {weapon[q]} : x \in dying' => x \in dying
      BY <1>1, <2>1
    <2> HIDE DEF w
    <2> QED
      BY <1>1, <1>3, <1>4, <2>2, <2>3, <2>4, Untouched
  <1>8. CASE w \in present /\ q = p
    <2>1. Apart(p) /\ Alive(p) /\ Equipped(p) /\ Unworn(p)
      BY <1>1 DEF Orderly
    <2>2. w \in present \ dying /\ durability[w] > 0 /\ heroAttack[p] = Template[w].attack
      BY <1>5, <1>8, <2>1 DEF Equipped
    <2>3. w \notin Held(p)
      <3>1. \A m \in Range(board[p]) : IsMinion(m)
        BY DEF SettledInv, ZonesInv, Owned
      <3> QED
        BY <1>5, <1>8, <2>1, <3>1 DEF Apart, Held, IsMinion
    <2>4. \A x \in Held(p) : durability'[x] = durability[x] /\ (x \in dying' => x \in dying)
      <3> HIDE DEF w
      <3> QED
        BY <1>1, <1>2, <2>3
    <2>5. NoCard \notin Range(deck[p]) \cup hand[p]
      <3>1. deck[p] \in Seq(Card) /\ hand[p] \subseteq Card
        BY DEF SettledInv, ZonesInv, TypeInv, TypeOK
      <3>2. Range(deck[p]) \subseteq Card
        BY <3>1, RangeOfSeq
      <3> QED
        BY <3>1, <3>2, BattleAssumption
    <2>6. weapon'[p] = w \/ weapon'[p] = NoCard
      BY <1>1, <1>2
    <2>7. Apart(p)'
      BY <1>1, <2>1, <2>5, <2>6 DEF Apart
    <2>8. Alive(p)'
      BY <1>1, <1>3, <1>4, <1>8, <2>1, <2>4 DEF Alive
    <2>9. Unworn(p)'
      BY <1>1, <2>1, <2>4 DEF Unworn, Held
    <2>10. Equipped(p)'
      <3>1. CASE Breaks(w)
        <4>1. weapon'[p] = NoCard /\ heroAttack'[p] = 0
          BY <1>1, <1>2, <3>1
        <4> QED
          BY <4>1 DEF Equipped
      <3>2. CASE ~Breaks(w)
        <4>1. weapon'[p] = w /\ heroAttack'[p] = heroAttack[p] /\ dying' = dying
          BY <1>1, <3>2
        <4>2. durability[w] > 1 /\ durability[w] \in Int
          BY <1>2, <1>5, <1>8, <3>2 DEF Breaks
        <4>3. durability'[w] = durability[w] - 1
          <5> HIDE DEF w
          <5> QED
            BY <1>1, <1>2, <1>5, <1>8
        <4>4. durability'[w] > 0
          BY <4>2, <4>3
        <4> HIDE DEF w
        <4> QED
          BY <1>1, <1>5, <1>8, <2>2, <4>1, <4>4 DEF Equipped
      <3> QED
        BY <3>1, <3>2
    <2> QED
      BY <1>8, <2>7, <2>8, <2>9, <2>10 DEF Orderly
  <1> QED
    BY <1>6, <1>7, <1>8

\* A hit leaves a minion alive or spent.
LEMMA SettledHit ==
  ASSUME SettledInv, HitMinion, NEW q \in Player
  PROVE  Orderly(q)'
  <1> DEFINE m == Head(calls).who
             left == Reduced(hp[m], Head(calls).amount)
  <1>1. /\ m \in present /\ IsMinion(m) /\ Orderly(q)
        /\ hp' = [hp EXCEPT ![m] = left] /\ dying' = Marked(m, left)
        /\ UNCHANGED <<deck, hand, board, weapon, heroAttack, present, durability>>
    BY DEF HitMinion, zoneVars, heroVars, SettledInv
  <1>2. calls # <<>> /\ calls \in Seq(Call) /\ hp \in [Card -> Nat] /\ present \subseteq Card
    BY DEF HitMinion, Calling, SettledInv, ZonesInv, TypeInv, TypeOK
  <1>3. hp[m] \in Nat /\ Head(calls).amount \in Nat /\ m \in Card
    <2>1. Head(calls) \in Call
      BY <1>2, HeadTailProperties
    <2>2. m \in Card
      BY <1>1, <1>2
    <2>3. hp[m] \in Nat
      <3> HIDE DEF m
      <3> QED
        BY <1>2, <2>2
    <2> QED
      BY <2>1, <2>2, <2>3 DEF Call
  <1>4. hp[m] = 0 => left = 0
    BY <1>3 DEF Reduced
  <1> HIDE DEF m, left
  <1>5. weapon[q] # m
    <2>1. weapon[q] = NoCard \/ Template[weapon[q]].type = "weapon"
      BY <1>1 DEF Orderly, Equipped
    <2> QED
      BY <1>1, <1>3, <2>1, BattleAssumption DEF IsMinion
  <1>6. hp'[m] = left /\ \A x \in Card : x # m => hp'[x] = hp[x]
    BY <1>1, <1>2, <1>3
  <1>7. dying' = IF left = 0 THEN dying \cup {m} ELSE dying
    BY <1>1 DEF Marked
  <1>8. Held(q)' \subseteq Card
    <2>1. /\ deck[q] \in Seq(Card) /\ hand[q] \subseteq Card /\ board[q] \in Seq(Card)
      BY DEF SettledInv, ZonesInv, TypeInv, TypeOK
    <2>2. Range(deck[q]) \subseteq Card /\ Range(board[q]) \subseteq Card
      BY <2>1, RangeOfSeq
    <2> QED
      BY <1>1, <2>1, <2>2 DEF Held
  <1>9. ASSUME NEW x \in Held(q)', x \in present \ dying \/ Spent(x)
        PROVE  x \in present' \ dying' \/ Spent(x)'
    <2>1. CASE x = m
      <3>1. left = 0 => Spent(x)'
        BY <1>1, <1>6, <2>1 DEF Spent, IsMinion
      <3>2. left # 0 => x \in present' \ dying'
        BY <1>1, <1>4, <1>7, <1>9, <2>1 DEF Spent
      <3> QED
        BY <3>1, <3>2
    <2>2. CASE x # m
      <3>1. hp'[x] = hp[x]
        BY <1>6, <1>8, <2>2
      <3> QED
        BY <1>1, <1>7, <1>9, <2>2, <3>1 DEF Spent, IsMinion
    <2> QED
      BY <2>1, <2>2
  <1> QED
    BY <1>1, <1>5, <1>7, <1>9, Untouched

\* The card drawn moves from the top of the deck to the hand, or is burnt.
LEMMA SettledDraw ==
  ASSUME SettledInv, DrawCard, NEW q \in Player
  PROVE  Orderly(q)'
  <1> DEFINE p == Head(calls).who
             top == Head(deck[p])
  <1>1. p \in Player
    BY FirstCall DEF DrawCard, Calling, SettledInv, ZonesInv, TypeInv, TypeOK
  <1>2. /\ UNCHANGED <<board, weapon, heroAttack, present, dying, hp, durability>>
        /\ Orderly(q)
    BY DEF DrawCard, cardVars, SettledInv
  <1>3. /\ deck \in [Player -> Seq(Card)] /\ hand \in [Player -> SUBSET Card]
    BY DEF SettledInv, ZonesInv, TypeInv, TypeOK
  <1>4. \A x : Spent(x)' <=> Spent(x)
    BY <1>2 DEF Spent, IsMinion
  <1>5. CASE UNCHANGED <<deck, hand>>
    BY <1>2, <1>5, OrderKept
  <1>6. CASE /\ deck[p] # <<>> /\ deck' = [deck EXCEPT ![p] = Tail(deck[p])]
             /\ hand' = hand \/ hand' = [hand EXCEPT ![p] = hand[p] \cup {top}]
    <2>1. CASE q # p
      <3>1. deck'[q] = deck[q] /\ hand'[q] = hand[q]
        BY <1>3, <1>6, <2>1
      <3> HIDE DEF p, top
      <3> QED
        BY <1>2, <1>4, <3>1, Untouched
    <2>2. CASE q = p
      <3>1. Apart(q) /\ Alive(q) /\ Equipped(q) /\ Unworn(q)
        BY <1>2 DEF Orderly
      <3>2. deck[q] \in Seq(Card) /\ deck[q] # <<>> /\ IsInjective(deck[q])
        BY <1>1, <1>3, <1>6, <2>2, <3>1 DEF Apart
      <3>3. /\ IsInjective(Tail(deck[q])) /\ top \notin Range(Tail(deck[q]))
            /\ Range(Tail(deck[q])) \subseteq Range(deck[q]) /\ top \in Range(deck[q])
        BY <2>2, <3>2, InjectiveTail, RangeOfTail
      <3>4. deck'[q] = Tail(deck[q]) /\ (hand'[q] = hand[q] \/ hand'[q] = hand[q] \cup {top})
        BY <1>1, <1>3, <1>6, <2>2
      <3> HIDE DEF p, top
      <3>5. Apart(q)'
        BY <1>2, <3>1, <3>3, <3>4 DEF Apart
      <3>6. Held(q)' \subseteq Held(q)
        BY <1>2, <3>3, <3>4 DEF Held
      <3>7. Alive(q)'
        BY <1>2, <1>4, <3>1, <3>6 DEF Alive
      <3>8. Equipped(q)'
        BY <1>2, <3>1 DEF Equipped
      <3>9. Unworn(q)'
        BY <1>2, <3>1, <3>3, <3>4 DEF Unworn
      <3> QED
        BY <3>5, <3>7, <3>8, <3>9 DEF Orderly
    <2> QED
      BY <2>1, <2>2
  <1> QED
    BY <1>5, <1>6 DEF DrawCard

\* A tick takes the dying cards out of the world: those a player still holds
\* are minions that have died.
LEMMA SettledTick ==
  ASSUME SettledInv, Tick, NEW q \in Player
  PROVE  Orderly(q)'
  <1>1. /\ present' = present \ dying /\ dying' = {}
        /\ UNCHANGED <<weapon, heroAttack, hp, durability>> /\ Orderly(q)
    BY NoneDoomed DEF Tick, AfterCardSystem, heroVars, SettledInv
  <1>2. UNCHANGED <<deck, board, hand>>
    BY NoneDoomed DEF Tick, SettledInv, ZonesInv, TypeInv, TypeOK
  <1>3. \A x : Spent(x)' <=> Spent(x)
    BY <1>1 DEF Spent, IsMinion
  <1> QED
    BY <1>1, <1>2, <1>3, Untouched

\* Only a tick settles the state, and with the lock held nothing else runs.
LEMMA QuietNext ==
  ASSUME SettledInv, [Next]_vars
  PROVE  Quiet'
  <1> SUFFICES ASSUME settled' PROVE calls' = <<>> /\ dying' = {}
    BY DEF Quiet
  <1>1. ASSUME NEW p \in Player PROVE ~PlayCard(p) /\ ~Attack(p) /\ ~EndTurn(p) /\ ~Concede(p)
    BY PlayCardPays DEF Spend, Attack, HeroAttack, MinionAttack, EndTurn, Concede
  <1>2. ~Resolve
    <2>1. Resolve => calls # <<>> /\ settled' = settled
      BY DEF Resolve, HitHero, HitMinion, HitNothing, DrawCard, StartMainPhase, Calling
    <2> QED
      BY <2>1 DEF SettledInv, Quiet
  <1>3. CASE Tick
    BY <1>3, NoneDoomed DEF Tick, Idle, AfterCardSystem
  <1>4. ASSUME NEW p \in Player, Frame(p) PROVE calls' = <<>> /\ dying' = {}
    BY <1>4 DEF Frame, cardVars, SettledInv, Quiet
  <1>5. CASE UNCHANGED vars
    BY <1>5 DEF vars, cardVars, SettledInv, Quiet
  <1> QED
    BY <1>1, <1>2, <1>3, <1>4, <1>5 DEF Next

\* Every step of a game of settled clients keeps it in order.
LEMMA SettledNext ==
  ASSUME Rapid = FALSE
  PROVE  SettledInv /\ [Next]_vars => SettledInv'
  <1> SUFFICES ASSUME SettledInv, [Next]_vars PROVE SettledInv'
    OBVIOUS
  <1> DEFINE Same == UNCHANGED <<deck, hand, board, weapon, heroAttack, present, dying,
                                 hp, durability>>
             Ordered == \A q \in Player : Orderly(q)'
  <1>0. /\ TypeInv /\ (Same => Ordered)
    BY OrderKept DEF SettledInv, ZonesInv
  <1>1. ASSUME NEW p \in Player, PlayCard(p) PROVE Ordered
    BY <1>1, PlayCardCases, SettledMinion, SettledWeapon, SettledSpells
  <1>2. ASSUME NEW p \in Player, Attack(p) PROVE Ordered
    <2>1. ASSUME NEW a, NEW t, MinionAttack(p, a, t) PROVE Same
      BY <2>1 DEF MinionAttack, zoneVars, heroVars
    <2> QED
      BY <1>0, <1>2, <2>1, AttackCases, SettledHeroAttack
  <1>3. ASSUME NEW p \in Player, EndTurn(p) \/ Concede(p) \/ Frame(p) PROVE Same
    BY <1>3 DEF EndTurn, Concede, Frame, zoneVars, heroVars, cardVars
  <1>4. HitHero \/ HitNothing \/ StartMainPhase \/ UNCHANGED vars => Same
    BY DEF HitHero, HitNothing, StartMainPhase, vars, zoneVars, heroVars, cardVars
  <1>5. Tick => Ordered
    BY SettledTick
  <1>6. HitMinion \/ DrawCard => Ordered
    BY SettledHit, SettledDraw
  <1>7. Ordered
    BY <1>0, <1>1, <1>2, <1>3, <1>4, <1>5, <1>6 DEF Next, Resolve
  <1> QED
    BY <1>7, QuietNext, ZonesNext DEF SettledInv

\* The game in order, for clients that wait for the tick and the frame.
THEOREM OrderHolds ==
  ASSUME Rapid = FALSE
  PROVE  Spec => []SettledInv
  BY SettledInit, SettledNext, PTL DEF Spec

\* While clients act on what they see settled, PlayCard, DrawCard, the damage
\* rules and the two removals of CardSystem and CombatSystem keep every card in
\* one place, and an id left behind in a hand or on a board is a dead minion's.
THEOREM CardsStayInOrder ==
  ASSUME Rapid = FALSE
  PROVE  Spec => []ZonesInOrder
  BY OrderHolds, OrderlyShows, PTL

\* For the same clients playWeapon, consumeWeaponDurability and the tick keep an
\* equipped weapon in the world, unbroken and the source of the hero's attack.
THEOREM WeaponsKeepWorking ==
  ASSUME Rapid = FALSE
  PROVE  Spec => []WeaponWorks
  BY OrderHolds, OrderlyShows, PTL
=============================================================================
