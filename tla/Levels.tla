------------------------------- MODULE Levels -------------------------------
(***************************************************************************)
(* What a player has earned (player.cpp, vocation.cpp, iologindata.cpp):   *)
(* experience and the level it gives, with the health and the mana of each *)
(* level; mana spent and the magic level; tries and the level of a skill.  *)
(* Each is kept as a level and what counts towards the next, a death takes *)
(* a part of the whole, and who falls too low starts again as a rookie.    *)
(***************************************************************************)
EXTENDS Integers, FiniteSetsExt

CONSTANTS
  Vocations,          \* without 0, that of a rookie
  Promoted,           \* those of them a promotion leads to
  ExpFor,             \* Player::getExpForLevel, of levels from 1
  ReqMana,            \* Vocation::getReqMana, of vocation and magic level
  ReqTries,           \* Vocation::getReqSkillTries, of vocation and skill level
  HPGain, ManaGain,   \* of a vocation
  BaseOf,             \* the vocation that a promoted one comes from (fromvoc)
  DeathLosePercent,   \* ConfigManager::DEATH_LOSE_PERCENT
  RookingLevel,       \* ConfigManager::ROOKING_LEVEL
  FirstSkill,         \* 10, the least level of a skill
  Blessings,
  Amounts,            \* how much is gained at once
  MaxLevel, MaxMagic, MaxSkill  \* bounds

VARIABLES
  player,   \* the fields of the player, see Rookie
  earned,   \* experience, mana and tries as they should add up
  chosen,   \* the level at which the vocation was chosen
  fell,     \* by a script, somebody with a vocation came below RookingLevel
  spoilt    \* how much is missing to the next level is shown as it was before

vars == <<player, earned, chosen, fell, spoilt>>

Rookie ==
  [voc |-> 0, level |-> 1, exp |-> 0, percent |-> 0, healthMax |-> 150, manaMax |-> 0,
   magic |-> 0, spent |-> 0, magicPercent |-> 0,
   skill |-> FirstSkill, tries |-> 0, skillPercent |-> 0, blessings |-> {}]

\* A loop ends after fewer turns than these; a turn that finds its loop ended does nothing.
Turns == MaxLevel + MaxMagic + MaxSkill - FirstSkill
Repeat(s, Turn(_)) ==
  LET after[n \in 0 .. Turns] == IF n = 0 THEN s ELSE Turn(after[n - 1])
  IN after[Turns]

NonNegative(n) == IF n < 0 THEN 0 ELSE n

\* The result is cut to a byte before it is compared.
GetPercentLevel(count, next) ==
  LET result == IF next = 0 THEN 0 ELSE ((count * 100) \div next) % 256
  IN IF result > 100 THEN 0 ELSE result

-----------------------------------------------------------------------------
(* Magic level and skill.                                                  *)

NextMana(p) == ReqMana[p.voc][p.magic + 1]
MaxMagicReached(p) == ReqMana[p.voc][p.magic] >= NextMana(p)
MagicPercent(p) == IF MaxMagicReached(p) THEN 0 ELSE GetPercentLevel(p.spent, NextMana(p))

MagicUp(s) ==
  IF ~MaxMagicReached(s.p) /\ s.p.spent + s.left >= NextMana(s.p)
  THEN [p |-> [s.p EXCEPT !.magic = @ + 1, !.spent = 0], left |-> s.left - (NextMana(s.p) - s.p.spent)]
  ELSE s
MagicDown(s) ==
  IF s.left > s.p.spent /\ s.p.magic > 0
  THEN [p |-> [s.p EXCEPT !.magic = @ - 1, !.spent = ReqMana[s.p.voc][s.p.magic]], left |-> s.left - s.p.spent]
  ELSE s

\* At the greatest magic level what is left over is lost, and so is the new percentage.
AddManaSpent(p, amount) ==
  LET end == Repeat([p |-> p, left |-> amount], MagicUp)
      q == [end.p EXCEPT !.spent = @ + end.left]
  IN IF MaxMagicReached(p) THEN p
     ELSE IF MaxMagicReached(end.p) THEN end.p
     ELSE [q EXCEPT !.magicPercent = MagicPercent(q)]

RemoveManaSpent(p, amount) ==
  LET end == Repeat([p |-> p, left |-> amount], MagicDown)
      q == [end.p EXCEPT !.spent = @ - end.left]
  IN IF amount = 0 THEN p ELSE [q EXCEPT !.magicPercent = MagicPercent(q)]

NextTries(p) == ReqTries[p.voc][p.skill + 1]
MaxSkillReached(p) == ReqTries[p.voc][p.skill] >= NextTries(p)
SkillPercent(p) == IF MaxSkillReached(p) THEN 0 ELSE GetPercentLevel(p.tries, NextTries(p))

SkillUp(s) ==
  IF ~MaxSkillReached(s.p) /\ s.p.tries + s.left >= NextTries(s.p)
  THEN [p |-> [s.p EXCEPT !.skill = @ + 1, !.tries = 0], left |-> s.left - (NextTries(s.p) - s.p.tries)]
  ELSE s
SkillDown(s) ==
  IF s.left <= s.p.tries THEN s
  ELSE IF s.p.skill <= FirstSkill
  THEN [p |-> [s.p EXCEPT !.skill = FirstSkill, !.tries = 0], left |-> 0]
  ELSE [p |-> [s.p EXCEPT !.skill = @ - 1, !.tries = ReqTries[s.p.voc][s.p.skill]], left |-> s.left - s.p.tries]

AddSkillAdvance(p, count) ==
  LET end == Repeat([p |-> p, left |-> count], SkillUp)
      q == IF MaxSkillReached(end.p) THEN end.p ELSE [end.p EXCEPT !.tries = @ + end.left]
  IN IF MaxSkillReached(p) THEN p ELSE [q EXCEPT !.skillPercent = SkillPercent(q)]

\* The new percentage is one of the tries for the level there is, not of those for the next.
RemoveSkillTries(p, count) ==
  LET end == Repeat([p |-> p, left |-> count], SkillDown)
      q == [end.p EXCEPT !.tries = NonNegative(@ - end.left)]
  IN [q EXCEPT !.skillPercent = GetPercentLevel(q.tries, ReqTries[q.voc][q.skill])]

-----------------------------------------------------------------------------
(* Experience and level.                                                   *)

LevelPercent(p) == GetPercentLevel(p.exp - ExpFor[p.level], ExpFor[p.level + 1] - ExpFor[p.level])

\* Each level needs more than the one before (TablesAssumption), so that the tests for a
\* greatest level never hold.
\* Who loses a level loses what it gave, down to nothing; a mage who reaches level 7
\* again gets no more than what was left to lose.
ManaOfAnyLevel(p) == ManaGain[p.voc]
ManaOf(p) == IF ManaGain[p.voc] > 15 /\ p.level = 6 THEN 5 ELSE ManaGain[p.voc]

LevelUp(p) ==
  IF p.exp >= ExpFor[p.level + 1]
  THEN [p EXCEPT !.level = @ + 1, !.healthMax = @ + HPGain[p.voc], !.manaMax = @ + ManaOf(p)]
  ELSE p
LevelDown(p) ==
  IF p.level > 1 /\ p.exp < ExpFor[p.level]
  THEN [p EXCEPT !.level = @ - 1, !.healthMax = NonNegative(@ - HPGain[p.voc]),
                 !.manaMax = NonNegative(@ - ManaGain[p.voc])]
  ELSE p

AddExperience(p, amount) ==
  LET q == Repeat([p EXCEPT !.exp = @ + amount], LevelUp)
  IN [q EXCEPT !.percent = LevelPercent(q)]

LoseLevels(p, amount) ==
  LET q == Repeat([p EXCEPT !.exp = NonNegative(@ - amount)], LevelDown)
  IN [q EXCEPT !.percent = LevelPercent(q)]

-----------------------------------------------------------------------------
(* Death.  The parts of what is lost are of the whole of mana, tries and   *)
(* experience; that of the tries counts one level too many.                *)

SpentInAll(p) == MapThenSumSet(LAMBDA i : ReqMana[p.voc][i], 1 .. p.magic) + p.spent
TriedSince(p, first) == MapThenSumSet(LAMBDA i : ReqTries[p.voc][i], first .. p.skill) + p.tries
TriedInAll(p) == TriedSince(p, FirstSkill + 1)

GetLostPercent(p) ==
  NonNegative(DeathLosePercent - (IF p.voc \in Promoted THEN 3 ELSE 0) - Cardinality(p.blessings))
LossOf(p, n) == (n * GetLostPercent(p)) \div 100

IsRooked(p) == (p.level <= RookingLevel /\ p.voc # 0) \/ p.healthMax <= 0

\* Like a new player, but for the percentages of level and magic level.
Rooked(p) == [Rookie EXCEPT !.percent = p.percent, !.magicPercent = p.magicPercent]

AfterDeath(p) ==
  LET poorer == RemoveSkillTries(RemoveManaSpent(p, LossOf(p, SpentInAll(p))), LossOf(p, TriedSince(p, FirstSkill)))
      loss == LossOf(p, p.exp)
      q == IF loss = 0 THEN poorer ELSE LoseLevels(poorer, loss)
  IN IF IsRooked(q) THEN Rooked(q) ELSE [q EXCEPT !.blessings = {}]

-----------------------------------------------------------------------------
(* What holds of the vocations and the tables of the program, and of the   *)
(* bounds: no table grows beyond them.  data/XML/vocations.xml has 5 mana  *)
(* a level for rookies and 30, 15 or 5 for the others, and the same for    *)
(* the promoted ones as for those they come from; config.lua has 6 for     *)
(* RookingLevel, and so has configmanager.cpp.                             *)
TablesAssumption ==
  /\ \A v \in Vocations \cup {0} : \A m \in 0 .. MaxMagic + 1 : ReqMana[v][m] \in Nat
  /\ \A v \in Vocations \cup {0} : ReqMana[v][MaxMagic] >= ReqMana[v][MaxMagic + 1]
  /\ \A v \in Vocations \cup {0} : \A n \in FirstSkill .. MaxSkill + 1 : ReqTries[v][n] \in Nat
  /\ \A v \in Vocations \cup {0} : ReqTries[v][MaxSkill] >= ReqTries[v][MaxSkill + 1]
  /\ \A n \in 1 .. MaxLevel + 1 : ExpFor[n] \in Nat
  /\ ExpFor[1] = 0 /\ \A n \in 1 .. MaxLevel : ExpFor[n] < ExpFor[n + 1]
GainsAssumption ==
  /\ \A v \in Vocations \cup {0} : HPGain[v] \in Nat /\ ManaGain[v] \in Nat
  /\ ManaGain[0] <= 15
  /\ \A v \in Vocations :
       IF ManaGain[v] > 15 THEN 7 * ManaGain[0] - ManaGain[v] = 5
       ELSE 7 * ManaGain[0] >= 2 * ManaGain[v]
  /\ \A v \in Promoted : HPGain[v] = HPGain[BaseOf[v]] /\ ManaGain[v] = ManaGain[BaseOf[v]]
LevelsAssumption ==
  /\ Promoted \subseteq Vocations /\ 0 \notin Vocations
  /\ MaxLevel \in Nat /\ MaxMagic \in Nat /\ MaxSkill \in Nat /\ FirstSkill \in Nat
  /\ MaxLevel >= 1 /\ FirstSkill >= 1 /\ FirstSkill <= MaxSkill
  /\ TablesAssumption /\ GainsAssumption
  /\ DeathLosePercent \in 0 .. 100 /\ RookingLevel \in Nat /\ RookingLevel >= 6
  /\ Amounts \subseteq Nat \ {0} /\ IsFiniteSet(Blessings)

Init ==
  /\ player = Rookie
  /\ earned = [exp |-> 0, mana |-> 0, tries |-> 0]
  /\ chosen = 1 /\ fell = FALSE /\ spoilt = FALSE

Becomes(p) == player' = p

GainExperience ==
  \E n \in Amounts :
    /\ player.exp + n < ExpFor[MaxLevel + 1]
    /\ Becomes(AddExperience(player, n))
    /\ earned' = [earned EXCEPT !.exp = @ + n]
    /\ UNCHANGED <<chosen, fell, spoilt>>

GainMana ==
  \E n \in Amounts :
    /\ Becomes(AddManaSpent(player, n))
    /\ earned' = [earned EXCEPT !.mana = IF MaxMagicReached(player') THEN SpentInAll(player') ELSE @ + n]
    /\ UNCHANGED <<chosen, fell, spoilt>>

GainTries ==
  \E n \in Amounts :
    /\ Becomes(AddSkillAdvance(player, n))
    /\ earned' = [earned EXCEPT !.tries = IF MaxSkillReached(player') THEN TriedInAll(player') ELSE @ + n]
    /\ spoilt' = (spoilt /\ MaxSkillReached(player))
    /\ UNCHANGED <<chosen, fell>>

\* Scripts take away, no more than there is.
LoseExperience ==
  \E n \in Amounts :
    /\ player.exp > 0
    /\ Becomes(LoseLevels(player, n))
    /\ earned' = [earned EXCEPT !.exp = NonNegative(@ - n)]
    /\ fell' = (fell \/ (player'.voc # 0 /\ player'.level < RookingLevel))
    /\ UNCHANGED <<chosen, spoilt>>

LoseMana ==
  \E n \in Amounts :
    /\ n <= SpentInAll(player)
    /\ Becomes(RemoveManaSpent(player, n))
    /\ earned' = [earned EXCEPT !.mana = @ - n]
    /\ UNCHANGED <<chosen, fell, spoilt>>

LoseTries ==
  \E n \in Amounts :
    /\ Becomes(RemoveSkillTries(player, n))
    /\ earned' = [earned EXCEPT !.tries = NonNegative(@ - n)]
    /\ spoilt' = TRUE
    /\ UNCHANGED <<chosen, fell>>

Bless ==
  /\ \E b \in Blessings : Becomes([player EXCEPT !.blessings = @ \cup {b}])
  /\ UNCHANGED <<earned, chosen, fell, spoilt>>

\* A rookie of level 8 chooses; promotion changes nothing but the vocation.  The tries
\* become those that the shown percentage is of in the new vocation.
SetVocation(voc) ==
  /\ IF player.voc = 0 THEN player.level >= 8 /\ voc \notin Promoted
     ELSE voc \in Promoted /\ BaseOf[voc] = player.voc
  /\ Becomes([player EXCEPT !.voc = voc,
       !.tries = IF player.voc = 0 THEN (ReqTries[voc][player.skill + 1] * player.skillPercent) \div 100 ELSE @])
  /\ earned' = [earned EXCEPT !.mana = SpentInAll(player'), !.tries = TriedInAll(player')]
  /\ chosen' = IF player.voc = 0 THEN player.level ELSE chosen
  /\ spoilt' = TRUE
  /\ UNCHANGED <<fell>>

\* loadPlayer: what does not fit to its level is cut, and all percentages are new.
Fit(n, next) == IF n > next THEN 0 ELSE n
Loaded(p) ==
  LET q == [p EXCEPT !.exp = IF @ < ExpFor[p.level] \/ @ > ExpFor[p.level + 1] THEN ExpFor[p.level] ELSE @,
                     !.spent = Fit(@, NextMana(p)), !.tries = Fit(@, NextTries(p))]
  IN [q EXCEPT !.percent = LevelPercent(q), !.magicPercent = GetPercentLevel(q.spent, NextMana(q)),
               !.skillPercent = GetPercentLevel(q.tries, NextTries(q))]

\* Who dies is saved and leaves the game, and is loaded when he comes back.
Death ==
  /\ Becomes(Loaded(AfterDeath(player)))
  /\ earned' = IF player'.voc = 0 /\ player.voc # 0
               THEN [exp |-> 0, mana |-> 0, tries |-> 0]
               ELSE [exp |-> earned.exp - LossOf(player, earned.exp),
                     mana |-> IF player'.spent = AfterDeath(player).spent
                              THEN earned.mana - LossOf(player, earned.mana) ELSE SpentInAll(player'),
                     tries |-> IF player'.tries = AfterDeath(player).tries
                               THEN NonNegative(earned.tries - LossOf(player, TriedSince(player, FirstSkill)))
                               ELSE TriedInAll(player')]
  /\ spoilt' = FALSE
  /\ UNCHANGED <<chosen, fell>>

Relog ==
  /\ Becomes(Loaded(player))
  /\ earned' = [earned EXCEPT !.mana = SpentInAll(player'), !.tries = TriedInAll(player')]
  /\ spoilt' = FALSE
  /\ UNCHANGED <<chosen, fell>>

Next ==
  \/ GainExperience \/ GainMana \/ GainTries
  \/ LoseExperience \/ LoseMana \/ LoseTries
  \/ Bless \/ Death \/ Relog
  \/ \E voc \in Vocations : SetVocation(voc)

Spec == Init /\ [][Next]_vars

-----------------------------------------------------------------------------
LevelsTypeOK ==
  /\ player.voc \in Vocations \cup {0} /\ player.level \in 1 .. MaxLevel
  /\ player.magic \in 0 .. MaxMagic /\ player.skill \in FirstSkill .. MaxSkill
  /\ \A n \in {player.exp, player.spent, player.tries, player.healthMax, player.manaMax} : n >= 0
  /\ \A n \in {player.percent, player.magicPercent, player.skillPercent} : n \in 0 .. 100

\* The level is that of the experience, and nothing gained or lost is counted twice or
\* lost on the way from one level to another.
NothingMiscounted ==
  /\ ExpFor[player.level] <= player.exp /\ player.exp < ExpFor[player.level + 1]
  /\ player.exp = earned.exp
  /\ SpentInAll(player) = earned.mana
  /\ TriedInAll(player) = earned.tries

\* What a level gave it takes back: health and mana depend on the levels gained as a
\* rookie and since, on no way there.  A mage may only gain on the way: who chose after
\* level 8 has less mana than the levels take that a death leaves, and who is below level
\* 6 gets more than the 5 that make good what could not be taken.  So may the health of
\* who chose so late that a way down to level 1 would take more of it than there is.
Body(base, gain, level) ==
  base + (IF player.voc = 0 THEN gain[0] * (level - 1)
          ELSE gain[0] * (chosen - 1) + gain[player.voc] * (level - chosen))
BodyOfLevel ==
  /\ player.healthMax >= Body(150, HPGain, player.level)
  /\ Body(150, HPGain, 1) >= 0 => player.healthMax = Body(150, HPGain, player.level)
  /\ player.manaMax >= Body(0, ManaGain, player.level)
  /\ ~fell /\ chosen <= 8 => player.manaMax = NonNegative(Body(0, ManaGain, player.level))

\* The client shows how far it is to the next levels, after a loss of tries or a new
\* vocation only when something is gained again.
ShownRight ==
  /\ player.percent = LevelPercent(player)
  /\ spoilt \/ MaxSkillReached(player) \/ player.skillPercent = SkillPercent(player)

LevelsInv == LevelsTypeOK /\ NothingMiscounted /\ BodyOfLevel /\ ShownRight
=============================================================================
