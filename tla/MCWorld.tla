-------------------------- MODULE MCWorld --------------------------
(* What happens in the world: monsters and whom they see, items that       *)
(* decay, a spawn, a house; the life of a creature object; raids; whom an  *)
(* npc attends. They share no state, so they are checked side by side: a   *)
(* behaviour is one of a single part, and as only one of them moves they   *)
(* use the same variables u1, u2, ... in turn. Two monsters and a player   *)
(* in three places, of which the outer two do not see each other; an item  *)
(* that lives for some rounds of the buckets and then less than one; a     *)
(* spawn of two blocks with three monsters; a house, two who may own it,   *)
(* one of them with money, one with furniture; a player and a monster; a   *)
(* raid of two events that comes again and one that does not; an npc with  *)
(* a customer and two in its queue.                                        *)
EXTENDS Spawns, Integers, TLC

CONSTANTS m1, m2, p1, h1, h2, s1, s2, s3, pl, mo, r1, r2, q1, q2, q3, None,
  Beasts, Foes, Places, SightRange, ViewRange,
  Rotting, Kinds, Decays, Duration, DecayTo, StopTime, Gone, MaxEntries,
  Owners, Money, Things, Rent, WarningLimit, MaxPaid,
  Bodies, Souls, MaxRefs, Names, Events, Repeats, MaxLoads, MaxRuns, Customers, MaxPending

VARIABLES
  part,  \* which of them this behaviour is about
  u1, u2, u3, u4, u5, u6, u7, u8, u9, u10, u11, u12, u13, u14, u15

Symmetry == Permutations(Beasts)

MCDuration == ("young" :> 23) @@ ("old" :> 1)
MCDecayTo == ("young" :> "old") @@ ("old" :> "gone")
MCMoney == (h1 :> 1) @@ (h2 :> 0)
MCThings == (h1 :> 0) @@ (h2 :> 1)
MCEvents == (r1 :> 2) @@ (r2 :> 1)
MCRepeats == (r1 :> TRUE) @@ (r2 :> FALSE)

T == INSTANCE Targets
  WITH Monsters <- Beasts, Players <- Foes, place <- u1, onMap <- u2, removed <-
       u3, dead <- u4, master <- u5, ghosts <- u6, list <- u7, idle <- u8,
       check <- u9, overlooked <- u10
D == INSTANCE Decay
  WITH Items <- Rotting, item <- u1, lastBucket <- u2, phase <- u3
H == INSTANCE Houses
  WITH Players <- Owners, owner <- u1, subowners <- u2, guests <- u3, inside <- u4,
       due <- u5, warnings <- u6, furniture <- u7, online <- u8, stored <-
       u9, held <- u10, bed <- u11, bedSleepers <- u12, kicks <- u13, paid
       <- u14, overwritten <- u15
L == INSTANCE Lives
  WITH Creatures <- Bodies, Players <- Souls, stage <- u1, health <- u2, refs <-
       u3, thinks <- u4, listed <- u5, killed <- u6, leaving <- u7, released
       <- u8, leaves <- u9
R == INSTANCE Raids
  WITH Interval <- Repeats, load <- u1, running <- u2, next <- u3, executed <- u4, due <- u5, checks <-
       u6, pending <- u7, stoppable <- u8, runs <- u9, happened <- u10
N == INSTANCE NpcFocus
  WITH Persons <- Customers, place <- u1, focus <- u2, lockVanish <- u3, queue <-
       u4, pending <- u5, pause <- u6, silent <- u7

ASSUME WorldAssumption ==
  T!TargetsAssumption /\ D!DecayAssumption /\ H!HousesAssumption /\ R!RaidsAssumption

spawn_vars == <<activeMonsters, checkSpawnEvent, pending, ready, monster, lost, returned,
                state>>
all == <<part, spawn_vars, u1, u2, u3, u4, u5, u6, u7, u8, u9, u10, u11, u12, u13, u14, u15>>

\* The step A of one part, which leaves the variables it does not use.
spawn_step(A) == part = "spawn" /\ A /\ UNCHANGED <<part, u1, u2, u3, u4, u5, u6, u7, u8, u9, u10, u11, u12, u13, u14, u15>>
targets_step(A) == part = "targets" /\ A /\ UNCHANGED <<part, spawn_vars, u11, u12, u13, u14, u15>>
decay_step(A) == part = "decay" /\ A /\ UNCHANGED <<part, spawn_vars, u4, u5, u6, u7, u8, u9, u10, u11, u12, u13, u14, u15>>
house_step(A) == part = "house" /\ A /\ UNCHANGED <<part, spawn_vars>>
lives_step(A) == part = "lives" /\ A /\ UNCHANGED <<part, spawn_vars, u10, u11, u12, u13, u14, u15>>
raids_step(A) == part = "raids" /\ A /\ UNCHANGED <<part, spawn_vars, u11, u12, u13, u14, u15>>
npc_step(A) == part = "npc" /\ A /\ UNCHANGED <<part, spawn_vars, u8, u9, u10, u11, u12, u13, u14, u15>>

MCInit ==
  /\ part \in {"spawn", "targets", "decay", "house", "lives", "raids", "npc"}
  /\ Init
  /\ \/ part \in {"spawn"}
        /\ u1 = None /\ u2 = None /\ u3 = None /\ u4 = None /\ u5 = None /\ u6 = None
        /\ u7 = None /\ u8 = None /\ u9 = None /\ u10 = None /\ u11 = None
        /\ u12 = None /\ u13 = None /\ u14 = None /\ u15 = None
     \/ part = "targets" /\ T!Init
        /\ u11 = None /\ u12 = None /\ u13 = None /\ u14 = None /\ u15 = None
     \/ part = "decay" /\ D!Init
        /\ u4 = None /\ u5 = None /\ u6 = None /\ u7 = None /\ u8 = None /\ u9 = None
        /\ u10 = None /\ u11 = None /\ u12 = None /\ u13 = None /\ u14 = None
        /\ u15 = None
     \/ part = "house" /\ H!Init
     \/ part = "lives" /\ L!Init
        /\ u10 = None /\ u11 = None /\ u12 = None /\ u13 = None /\ u14 = None /\ u15 = None
     \/ part = "raids" /\ R!Init
        /\ u11 = None /\ u12 = None /\ u13 = None /\ u14 = None /\ u15 = None
     \/ part = "npc" /\ N!Init
        /\ u8 = None /\ u9 = None /\ u10 = None /\ u11 = None /\ u12 = None /\ u13 = None
        /\ u14 = None /\ u15 = None

MCNext ==
  \/ spawn_step(Next)
  \/ targets_step(T!Next)
  \/ decay_step(D!Next)
  \/ house_step(H!Next)
  \/ lives_step(L!Next)
  \/ raids_step(R!Next)
  \/ npc_step(N!Next)

MCSpec == MCInit /\ [][MCNext]_all

-----------------------------------------------------------------------------
\* A monster's list, its check and its idleness agree with the map: TargetsInv of
\* Targets.
TargetsInv == part = "targets" => T!TargetsInv

\* Each item that decays is in one bucket, and in time: DecayInv of Decay.
DecayInv == part = "decay" => D!DecayInv

\* Who is in a house may be, who sleeps there rests, and no wealth is lost: HouseInv of
\* Houses.
HouseInv == part = "house" => H!HouseInv

\* A creature object lives as long as it is referred to, and dies once: LivesInv of
\* Lives.
LivesInv == part = "lives" => L!LivesInv

\* One raid runs at a time, its events in order; an npc attends one customer, deaf only
\* to the one it attended last: RaidsInv of Raids, NpcInv of NpcFocus.
RaidsAndNpcsInv ==
  /\ part = "raids" => R!RaidsInv
  /\ part = "npc" => N!NpcInv

=============================================================================
