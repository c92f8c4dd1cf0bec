----------------------------- MODULE CardBattle -----------------------------
(***************************************************************************)
(* The rules of one battle: backend/internal/game/systems/*.go driven by   *)
(* the apply* handlers of backend/internal/game/game_instance.go.          *)
(*                                                                         *)
(* Every operation runs with GameInstance.mu held.  The damage it causes   *)
(* is recursive in the code (dealDamage -> triggerDeathrattle ->           *)
(* dealDamage); here the calls still to be made before the lock is         *)
(* released are the sequence "calls", taken from its head one small step   *)
(* at a time, and no other operation starts while it is not empty.         *)
(*                                                                         *)
(* Left out, because no shipped card or code path ever produces them:      *)
(* armor (always 0), frozen, windfury, buff spells, draw deathrattles.     *)
(* Event emission, names and descriptions are left out too.                *)
(***************************************************************************)
EXTENDS Integers, Sequences, FiniteSets, Functions

CONSTANTS
  P1, P2,        \* Player1ID, who moves first, and Player2ID
  Card,          \* the card entities of both decks
  Owner,         \* Owner[c]: the player whose deck c was created in
  Template,      \* Template[c]: the components CreateCard gives to c
  Decks,         \* the pairs of shuffled decks a game may start from
  NoCard,        \* entity id 0: no weapon, no target
  NoPlayer,      \* the empty Winner of a game in progress
  MaxHealth, MaxMana, MaxHand, MaxBoard,
  Opening1, Opening2,   \* cards dealt by StartGame before the first turn
  Rapid,         \* FALSE: a client acts only on a settled, displayed state
  MaxTurn,       \* bound: no EndTurn after this turn
  MaxDepth       \* bound: nested deathrattles at which the goroutine's
                 \* stack is taken to be exhausted

Player == {P1, P2}

TemplateSet ==
  [type : {"minion", "spell", "weapon"}, cost : Nat, attack : Nat,
   health : Nat, durability : Nat, charge : BOOLEAN, taunt : BOOLEAN,
   rattle : Nat, effect : {"none", "damage", "heal", "draw"},
   target : {"none", "any", "enemy", "friendly"}, aoe : BOOLEAN, value : Nat]

ASSUME BattleAssumption ==
  /\ P1 # P2
  /\ Player \cap Card = {}
  /\ NoCard \notin Card \cup Player
  /\ NoPlayer \notin Player
  /\ Owner \in [Card -> Player]
  /\ Template \in [Card -> TemplateSet]
  /\ \A c \in Card : /\ Template[c].type = "minion" => Template[c].health > 0
                     /\ Template[c].type = "weapon" => Template[c].durability > 0
  /\ MaxHealth \in Nat \ {0} /\ MaxMana \in Nat \ {0}
  /\ MaxHand \in Nat /\ MaxBoard \in Nat
  /\ Opening1 \in Nat /\ Opening2 \in Nat
  /\ Rapid \in BOOLEAN
  /\ MaxTurn \in Nat /\ MaxDepth \in Nat

DecksAssumption ==
  \A d \in Decks :
    /\ d \in [Player -> Seq(Card)]
    /\ \A p \in Player : /\ IsInjective(d[p])
                         /\ \A i \in DOMAIN d[p] : Owner[d[p][i]] = p
    /\ Len(d[P1]) > Opening1 /\ Len(d[P2]) >= Opening2
    /\ Opening1 < MaxHand /\ Opening2 <= MaxHand

ASSUME DecksAreShuffledTemplates == DecksAssumption

VARIABLES
  turn, current, phase, status, winner,      \* GameStateComponent
  deck, hand, board,                         \* Deck-, Hand-, BoardComponent
  health, heroAttack, weapon,                \* HeroComponent
  mana, maxMana, fatigue,                    \* Mana-, FatigueComponent
  present,       \* World.entities, the cards among them
  dying,         \* cards carrying a DyingComponent
  hp,            \* HealthComponent.CurrentHP = MinionComponent.Health
  ready, attacks,                            \* CanAttack, AttacksThisTurn
  durability,    \* WeaponComponent.Durability
  calls,         \* calls still to be made before mu is released
  crashed,       \* the recursion has exhausted the stack
  settled,       \* a tick has run since the last operation
  seen           \* seen[p]: the hand in the last frame p's client got

gameVars == <<turn, current, phase, status, winner>>
zoneVars == <<deck, hand, board>>
heroVars == <<health, heroAttack, weapon, mana, maxMana, fatigue>>
cardVars == <<present, dying, hp, ready, attacks, durability>>
vars == <<gameVars, zoneVars, heroVars, cardVars, calls, crashed, settled, seen>>

-----------------------------------------------------------------------------
Opponent(p) == IF p = P1 THEN P2 ELSE P1

Least(a, b) == IF a <= b THEN a ELSE b

IsMinion(c) == Template[c].type = "minion"

\* Variants of the operators below, each with one plausible bug, for checking
\* that the properties notice it.
TakenKept(p, c) == hand
BoardFullLate(p) == Len(board[p]) > MaxBoard
BreaksLate(w) == w \in present /\ durability[w] <= 0
CrystalsUncapped(p) == maxMana[p] + 1
RefreshedInHand(p) == (Range(board[p]) \cup hand[p]) \cap present
IsPlayerTurnFinished(p) == current = p
EchoedAtHome(m) == board[Owner[m]]
BeatenWaiting == {p \in Player : health[p] = 0 /\ p # current}
BeatenAtOne == {p \in Player : health[p] <= 1}

\* Health never goes below zero.
Reduced(h, damage) == IF h > damage THEN h - damage ELSE 0

\* The hands once p has played c.
Taken(p, c) == [hand EXCEPT ![p] = @ \ {c}]

BoardFull(p) == Len(board[p]) >= MaxBoard

\* An attack uses up the last durability of weapon w.
Breaks(w) == w \in present /\ durability[w] <= 1

\* p's mana crystals when its turn begins.
Crystals(p) == IF maxMana[p] < MaxMana THEN maxMana[p] + 1 ELSE maxMana[p]

\* The minions that may attack again when p's turn begins.
Refreshed(p) == Range(board[p]) \cap present

\* The minions hit by the deathrattle of m.
Echoed(m) == board[Opponent(Owner[m])]

\* The dying cards once a hit leaves minion m with so much health.
Marked(m, left) == IF left = 0 THEN dying \cup {m} ELSE dying

\* The players TurnSystem.Update finds at zero.
Beaten == {p \in Player : health[p] = 0}

Call == [op : {"hit", "draw", "main"}, who : Card \cup Player \cup {NoCard},
         amount : Nat, depth : Nat]

Hit(target, damage, depth) ==
  [op |-> "hit", who |-> target, amount |-> damage, depth |-> depth]

\* One hit on every minion of a board, in board order.
HitAll(minions, damage, depth) ==
  [i \in 1..Len(minions) |-> Hit(minions[i], damage, depth)]

Draw(p) == [op |-> "draw", who |-> p, amount |-> 1, depth |-> 0]
EnterMain(p) == [op |-> "main", who |-> p, amount |-> 0, depth |-> 0]

\* mu is free and the process has not died.
Idle == calls = <<>> /\ ~crashed

-----------------------------------------------------------------------------
\* StartGame: turn 1 of P1.  P1 is dealt Opening1 cards and draws one more in
\* startTurn, P2 is dealt Opening2.
Init ==
  /\ turn = 1 /\ current = P1 /\ phase = "main"
  /\ status = "playing" /\ winner = NoPlayer
  /\ \E d \in Decks :
       LET dealt == [p \in Player |-> IF p = P1 THEN Opening1 + 1 ELSE Opening2]
       IN /\ deck = [p \in Player |-> SubSeq(d[p], dealt[p] + 1, Len(d[p]))]
          /\ hand = [p \in Player |-> {d[p][i] : i \in 1..dealt[p]}]
          /\ present = Range(d[P1]) \cup Range(d[P2])
  /\ board = [p \in Player |-> <<>>]
  /\ health = [p \in Player |-> MaxHealth]
  /\ heroAttack = [p \in Player |-> 0]
  /\ weapon = [p \in Player |-> NoCard]
  /\ mana = [p \in Player |-> IF p = P1 THEN 1 ELSE 0]
  /\ maxMana = mana
  /\ fatigue = [p \in Player |-> 0]
  /\ dying = {}
  /\ hp = [c \in Card |-> Template[c].health]
  /\ ready = [c \in Card |-> Template[c].charge]
  /\ attacks = [c \in Card |-> 0]
  /\ durability = [c \in Card |-> Template[c].durability]
  /\ calls = <<>> /\ crashed = FALSE
  /\ settled = TRUE
  /\ seen = hand

-----------------------------------------------------------------------------
\* What a client may send.  A settled client has seen the tick and the frame
\* that follow its last operation; a rapid one acts on what it was last shown.
Settled(p) == Rapid \/ (settled /\ seen[p] = hand[p])

IsPlayerTurn(p) == current = p /\ status = "playing"

CanAct(p) == Idle /\ IsPlayerTurn(p) /\ Settled(p)

Targets(p) == Player \cup Range(board[P1]) \cup Range(board[P2]) \cup seen[p]

\* The part of PlayCard every card type shares: mana is spent and the card
\* leaves the hand before the card's own handler may still refuse it.
Spend(p, c) ==
  /\ CanAct(p)
  /\ c \in seen[p] /\ c \in present
  /\ Template[c].cost <= mana[p]
  /\ mana' = [mana EXCEPT ![p] = @ - Template[c].cost]
  /\ hand' = Taken(p, c)
  /\ settled' = FALSE
  /\ UNCHANGED <<gameVars, deck, maxMana, fatigue, present, attacks,
                 durability, crashed, seen>>

\* playMinion returns false on a full board: the card and its mana are lost.
PlayMinion(p, c) ==
  /\ IsMinion(c)
  /\ Spend(p, c)
  /\ IF BoardFull(p)
       THEN UNCHANGED <<board, ready>>
       ELSE /\ board' = [board EXCEPT ![p] = Append(@, c)]
            /\ ready' = [ready EXCEPT ![c] = @ /\ Template[c].charge]
  /\ UNCHANGED <<health, heroAttack, weapon, dying, hp, calls>>

PlayWeapon(p, c) ==
  /\ Template[c].type = "weapon"
  /\ Spend(p, c)
  /\ dying' = dying \cup ({weapon[p]} \cap present)
  /\ weapon' = [weapon EXCEPT ![p] = c]
  /\ heroAttack' = [heroAttack EXCEPT ![p] = Template[c].attack]
  /\ UNCHANGED <<board, health, hp, ready, calls>>

\* playSpell.  The spell's own DyingComponent is added at once instead of
\* after its effect: nothing the effect does reads it.
PlaySpell(p, c, effect) ==
  /\ Template[c].type = "spell" /\ Template[c].effect = effect
  /\ Spend(p, c)
  /\ dying' = dying \cup {c}
  /\ UNCHANGED <<board, heroAttack, weapon, ready>>

\* applySpellDamage.  A missile picks its target anew for each point, among
\* the enemy hero and the minions still in the world.
PlayDamageSpell(p, c, t) ==
  LET enemy == Opponent(p)
      value == Template[c].value
      foes == {enemy} \cup (Range(board[enemy]) \cap present)
  IN /\ PlaySpell(p, c, "damage")
     /\ \/ /\ Template[c].aoe
           /\ calls' = HitAll(board[enemy], value, 0)
        \/ /\ ~Template[c].aoe /\ Template[c].target = "enemy"
           /\ \E pick \in [1..value -> foes] : calls' = HitAll(pick, 1, 0)
        \/ /\ ~Template[c].aoe /\ Template[c].target # "enemy"
           /\ calls' = <<Hit(t, value, 0)>>
     /\ UNCHANGED <<hp, health>>

\* applySpellHeal: a minion up to its MaxHP, a hero up to MaxHealth.
PlayHealSpell(p, c, t) ==
  LET value == Template[c].value
  IN /\ PlaySpell(p, c, "heal")
     /\ hp' = [m \in Card |->
                 IF m = t /\ m \in present /\ IsMinion(m)
                   THEN Least(hp[m] + value, Template[m].health) ELSE hp[m]]
     /\ health' = [q \in Player |->
                     IF q = t THEN Least(health[q] + value, MaxHealth)
                              ELSE health[q]]
     /\ UNCHANGED calls

PlayDrawSpell(p, c) ==
  /\ PlaySpell(p, c, "draw")
  /\ calls' = [i \in 1..Template[c].value |-> Draw(p)]
  /\ UNCHANGED <<hp, health>>

-----------------------------------------------------------------------------
\* Attack.  The retaliation is computed from the target, whatever the first
\* hit does to it, and is dealt even by a minion that hit has killed.
Attackable(p, t) == t \in Player \cup present /\ t # p /\ (t \in Card => Owner[t] # p)

Exchange(a, power, t) ==
  <<Hit(t, power, 0)>> \o
  (IF t \in Card /\ IsMinion(t) THEN <<Hit(a, Template[t].attack, 0)>> ELSE <<>>)

MinionAttack(p, a, t) ==
  /\ CanAct(p)
  /\ a \in Range(board[p]) /\ a \in present /\ IsMinion(a)
  /\ ready[a] /\ attacks[a] < 1
  /\ Attackable(p, t)
  /\ ready' = [ready EXCEPT ![a] = FALSE]
  /\ attacks' = [attacks EXCEPT ![a] = @ + 1]
  /\ calls' = Exchange(a, Template[a].attack, t)
  /\ settled' = FALSE
  /\ UNCHANGED <<gameVars, zoneVars, heroVars, present, dying, hp, durability,
                 crashed, seen>>

\* The power is read before consumeWeaponDurability may break the weapon.
HeroAttack(p, t) ==
  LET w == weapon[p]
      worn == w \in present
      breaks == Breaks(w)
  IN /\ CanAct(p)
     /\ Attackable(p, t)
     /\ calls' = Exchange(p, heroAttack[p], t)
     /\ durability' = IF worn THEN [durability EXCEPT ![w] = @ - 1] ELSE durability
     /\ dying' = IF breaks THEN dying \cup {w} ELSE dying
     /\ weapon' = IF breaks THEN [weapon EXCEPT ![p] = NoCard] ELSE weapon
     /\ heroAttack' = IF breaks THEN [heroAttack EXCEPT ![p] = 0] ELSE heroAttack
     /\ settled' = FALSE
     /\ UNCHANGED <<gameVars, zoneVars, health, mana, maxMana, fatigue, present,
                    hp, ready, attacks, crashed, seen>>

-----------------------------------------------------------------------------
\* EndTurn does not look at status, so it also runs in a finished game.
EndTurn(p) ==
  LET next == Opponent(p)
      fresh == Refreshed(next)
      most == Crystals(next)
  IN /\ Idle /\ (status = "playing" => Settled(p))
     /\ current = p /\ phase = "main"
     /\ turn < MaxTurn
     /\ turn' = turn + 1
     /\ current' = next
     /\ phase' = "begin"
     /\ maxMana' = [maxMana EXCEPT ![next] = most]
     /\ mana' = [mana EXCEPT ![next] = most]
     /\ ready' = [c \in Card |-> ready[c] \/ c \in fresh]
     /\ attacks' = [c \in Card |-> IF c \in fresh THEN 0 ELSE attacks[c]]
     /\ calls' = <<Draw(next), EnterMain(next)>>
     /\ settled' = FALSE
     /\ UNCHANGED <<status, winner, zoneVars, health, heroAttack, weapon, fatigue,
                    present, dying, hp, durability, crashed, seen>>

\* applyConcede: allowed to either player at any moment of a game in progress.
Concede(p) ==
  /\ Idle
  /\ status # "finished"
  /\ status' = "finished"
  /\ winner' = Opponent(p)
  /\ settled' = FALSE
  /\ UNCHANGED <<turn, current, phase, zoneVars, heroVars, cardVars, calls,
                 crashed, seen>>

-----------------------------------------------------------------------------
\* The calls an operation has still to make, one at a time, first to last.
Calling(op) == calls # <<>> /\ Head(calls).op = op /\ ~crashed

HitHero ==
  LET h == Head(calls)
  IN /\ Calling("hit") /\ h.who \in Player
     /\ health' = [health EXCEPT ![h.who] = Reduced(@, h.amount)]
     /\ calls' = Tail(calls)
     /\ UNCHANGED <<gameVars, zoneVars, heroAttack, weapon, mana, maxMana, fatigue,
                    cardVars, crashed, settled, seen>>

\* dealDamage on a minion.  A dead minion triggers its deathrattle again each
\* time it is hit, until the tick removes it.
HitMinion ==
  LET h == Head(calls)
      m == h.who
      left == Reduced(hp[m], h.amount)
      rattles == left = 0 /\ Template[m].rattle > 0
      echo == HitAll(Echoed(m), Template[m].rattle, h.depth + 1)
  IN /\ Calling("hit") /\ m \in present /\ IsMinion(m)
     /\ hp' = [hp EXCEPT ![m] = left]
     /\ dying' = Marked(m, left)
     /\ \/ /\ ~rattles
           /\ calls' = Tail(calls)
           /\ UNCHANGED crashed
        \/ /\ rattles /\ h.depth < MaxDepth
           /\ calls' = echo \o Tail(calls)
           /\ UNCHANGED crashed
        \/ /\ rattles /\ h.depth >= MaxDepth
           /\ crashed' = TRUE
           /\ UNCHANGED calls
     /\ UNCHANGED <<gameVars, zoneVars, heroVars, present, ready, attacks,
                    durability, settled, seen>>

\* No such entity, or one without health: a spell, a weapon, a removed id.
HitNothing ==
  LET m == Head(calls).who
  IN /\ Calling("hit")
     /\ m \notin Player
     /\ m \in Card => m \notin present \/ ~IsMinion(m)
     /\ calls' = Tail(calls)
     /\ UNCHANGED <<gameVars, zoneVars, heroVars, cardVars, crashed, settled, seen>>

\* One iteration of DrawCard: fatigue on an empty deck, a burnt card on a full
\* hand (the entity stays in the world), else the top card goes to the hand.
DrawCard ==
  LET p == Head(calls).who
  IN /\ Calling("draw")
     /\ \/ /\ deck[p] = <<>>
           /\ fatigue' = [fatigue EXCEPT ![p] = @ + 1]
           /\ health' = [health EXCEPT ![p] = Reduced(@, fatigue[p] + 1)]
           /\ UNCHANGED <<deck, hand>>
        \/ /\ deck[p] # <<>>
           /\ deck' = [deck EXCEPT ![p] = Tail(@)]
           /\ hand' = IF Cardinality(hand[p]) >= MaxHand THEN hand
                      ELSE [hand EXCEPT ![p] = @ \cup {Head(deck[p])}]
           /\ UNCHANGED <<health, fatigue>>
     /\ calls' = Tail(calls)
     /\ UNCHANGED <<gameVars, board, heroAttack, weapon, mana, maxMana, cardVars,
                    crashed, settled, seen>>

\* The end of startTurn.
StartMainPhase ==
  /\ Calling("main")
  /\ phase' = "main"
  /\ calls' = Tail(calls)
  /\ UNCHANGED <<turn, current, status, winner, zoneVars, heroVars, cardVars,
                 crashed, settled, seen>>

Resolve == HitHero \/ HitMinion \/ HitNothing \/ DrawCard \/ StartMainPhase

-----------------------------------------------------------------------------
\* World.Update of a game in progress, systems in the order they were added.
\* CardSystem takes the dying cards out of the world and leaves their ids in
\* the zones; CombatSystem clears the zones of the dying cards it still finds
\* in the world.  (Its processDeaths looks for dead minions not yet dying:
\* DeadAreDying says there are none.)  TurnSystem then ends the game for the
\* first hero at zero in map order.
AfterCardSystem == present \ dying
Doomed == AfterCardSystem \cap dying

Tick ==
  /\ Idle /\ status = "playing"
  /\ ~settled
  /\ present' = AfterCardSystem \ Doomed
  /\ dying' = dying \cap present'
  /\ deck' = [p \in Player |-> IF Doomed = {} THEN deck[p]
                               ELSE SelectSeq(deck[p], LAMBDA c : c \notin Doomed)]
  /\ hand' = [p \in Player |-> hand[p] \ Doomed]
  /\ board' = [p \in Player |-> IF Doomed = {} THEN board[p]
                                ELSE SelectSeq(board[p], LAMBDA c : c \notin Doomed)]
  /\ \/ /\ Beaten = {}
        /\ UNCHANGED <<status, winner>>
     \/ /\ status' = "finished"
        /\ \E loser \in Beaten : winner' = Opponent(loser)
  /\ settled' = TRUE
  /\ UNCHANGED <<turn, current, phase, heroVars, hp, ready, attacks, durability,
                 calls, crashed, seen>>

\* A GameFrame reaches p's client and refreshes what it shows.  takeSnapshot
\* sends none once the game is finished.
Frame(p) ==
  /\ Idle /\ status = "playing"
  /\ Rapid \/ settled
  /\ seen' = [seen EXCEPT ![p] = hand[p]]
  /\ UNCHANGED <<gameVars, zoneVars, heroVars, cardVars, calls, crashed, settled>>

-----------------------------------------------------------------------------
PlayCard(p) ==
  \E c \in Card :
    \/ PlayMinion(p, c)
    \/ PlayWeapon(p, c)
    \/ PlayDrawSpell(p, c)
    \/ \E t \in Targets(p) : PlayDamageSpell(p, c, t) \/ PlayHealSpell(p, c, t)

Attack(p) ==
  \E t \in Player \cup Range(board[P1]) \cup Range(board[P2]) :
    \/ HeroAttack(p, t)
    \/ \E a \in Range(board[p]) : MinionAttack(p, a, t)

Next ==
  \/ \E p \in Player : PlayCard(p) \/ Attack(p) \/ EndTurn(p) \/ Concede(p) \/ Frame(p)
  \/ Resolve
  \/ Tick

Spec == Init /\ [][Next]_vars

\* The goroutine that holds mu runs on, and the 30 ms ticker keeps firing.
FairSpec == Spec /\ WF_vars(Resolve) /\ WF_vars(Tick)

-----------------------------------------------------------------------------
\* Type invariant.
TypeOK ==
  /\ turn \in Nat /\ current \in Player /\ phase \in {"begin", "main"}
  /\ status \in {"playing", "finished"} /\ winner \in Player \cup {NoPlayer}
  /\ deck \in [Player -> Seq(Card)]
  /\ hand \in [Player -> SUBSET Card]
  /\ board \in [Player -> Seq(Card)]
  /\ health \in [Player -> 0..MaxHealth] /\ heroAttack \in [Player -> Nat]
  /\ weapon \in [Player -> Card \cup {NoCard}]
  /\ mana \in [Player -> Nat] /\ maxMana \in [Player -> Nat]
  /\ fatigue \in [Player -> Nat]
  /\ present \in SUBSET Card /\ dying \in SUBSET present
  /\ hp \in [Card -> Nat] /\ attacks \in [Card -> Nat]
  /\ ready \in [Card -> BOOLEAN] /\ durability \in [Card -> Int]
  /\ calls \in Seq(Call) /\ crashed \in BOOLEAN
  /\ settled \in BOOLEAN /\ seen \in [Player -> SUBSET Card]

StartedTurns(p) == IF p = P1 THEN (turn + 1) \div 2 ELSE turn \div 2

\* The players strictly alternate and each one's mana crystals are the turns
\* it has begun, up to the cap (MaxMana++ in startTurn), however EndTurn,
\* refused plays and a finished game interleave; nobody spends more than that.
\* This is the code's rule: systems/turn_system_test.go:85-86 expects two
\* crystals of player 2 after the first EndTurn, where startTurn gives one.
ManaFollowsTurns ==
  /\ current = P1 <=> turn % 2 = 1
  /\ \A p \in Player : /\ maxMana[p] = Least(StartedTurns(p), MaxMana)
                       /\ mana[p] <= maxMana[p]

\* The zones stay within the limits of hand and board, and a board only ever
\* holds minions of its player.
ZonesBounded ==
  \A p \in Player :
    /\ Cardinality(hand[p]) <= MaxHand
    /\ Len(board[p]) <= MaxBoard
    /\ \A c \in Range(board[p]) : IsMinion(c) /\ Owner[c] = p

\* A minion without health in the world is already marked dying, so the
\* second look CombatSystem.processDeaths takes never finds one.
DeadAreDying ==
  \A c \in present : IsMinion(c) /\ hp[c] = 0 => c \in dying

\* What outdated hands, refused plays and operations between ticks leave alone:
\* the types, the limits of the zones and the marks of the dead.
Inv == TypeOK /\ ZonesBounded /\ DeadAreDying

\* A minion that may attack has not attacked this turn, and before it has
\* been on the board at the start of a turn only charge lets it.
ReadyMinions ==
  \A c \in Card : ready[c] /\ IsMinion(c) =>
    /\ attacks[c] = 0
    /\ Template[c].charge \/ \E p \in Player : c \in Range(board[p])

\* The recursion dealDamage -> triggerDeathrattle only runs away when both
\* boards hold a minion with a damaging deathrattle.
RunawayNeedsBothBoards ==
  crashed => \A p \in Player :
               \E c \in Range(board[p]) \cap present : Template[c].rattle > 0

\* For clients that act on settled, displayed states: a card is in one place.
OneZone ==
  \A p \in Player :
    LET inDeck == Range(deck[p])  onBoard == Range(board[p])
    IN /\ IsInjective(deck[p]) /\ IsInjective(board[p])
       /\ inDeck \cap hand[p] = {} /\ inDeck \cap onBoard = {}
       /\ hand[p] \cap onBoard = {}
       /\ weapon[p] \notin inDeck \cup hand[p]

\* For the same clients: an equipped weapon is in the world, unbroken, and is
\* the source of the hero's attack; without one the hero has no attack.
WeaponWorks ==
  \A p \in Player :
    IF weapon[p] = NoCard THEN heroAttack[p] = 0
    ELSE /\ weapon[p] \in present \ dying
         /\ durability[weapon[p]] > 0
         /\ heroAttack[p] = Template[weapon[p]].attack

\* For the same clients: an id that a board or a hand keeps after its entity
\* has left the world is that of a minion that died.
StrayIdsAreDead ==
  \A p \in Player : \A c \in (hand[p] \cup Range(board[p])) \ present :
    IsMinion(c) /\ hp[c] = 0

\* Playing, drawing, burning, dying and the early removal of dead entities keep
\* the zones in order for the same clients.
ZonesInOrder == OneZone /\ StrayIdsAreDead

\* p has lost: it is at zero health, or concedes.
EndedFor(p) == winner' = Opponent(p) /\ (health[p] = 0 \/ Concede(p))

\* A game ends only when a hero is at zero health or a player concedes, and it
\* ends in favour of that player's opponent.
GameEndsForAReason == [][status' # status => \E p \in Player : EndedFor(p)]_vars

\* A finished game stays finished with its winner, and no damage is dealt to
\* a minion, no minion summoned and no weapon equipped any more.  (The turn,
\* mana, hands and fatigue may still move: EndTurn does not look at status.)
FinishedIsFinal ==
  [][status = "finished" =>
       UNCHANGED <<status, winner, board, present, dying, hp, weapon,
                   heroAttack, durability>>]_vars

\* For settled clients: a hero at zero health ends the game at a tick.
DeadHeroEndsGame ==
  (\E p \in Player : health[p] = 0) ~> (status = "finished" \/ crashed)

-----------------------------------------------------------------------------
\* A statement of the repository that the rules as coded do not meet.

\* game/card_templates.go:43, "enemies must attack this minion first".
TauntFirst ==
  [][\A p \in Player, t \in Player \cup Card :
       (\E a \in Range(board[p]) : MinionAttack(p, a, t)) =>
         \/ t \in Card /\ Template[t].taunt
         \/ \A c \in Range(board[Opponent(p)]) \cap present : ~Template[c].taunt]_vars
=============================================================================
