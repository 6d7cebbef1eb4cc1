SPECIFICATION MCSpec
CONSTANTS
  g1 = g1 t1 = t1 y1 = y1 y2 = y2 d1 = d1 f1 = f1 f2 = f2 c1 = c1 c2 = c2
  v1 = v1 v2 = v2 sack = sack chest = chest k1 = k1 k2 = k2 k3 = k3 bag = bag box = box w1 = w1 w2 = w2
  None = None Nowhere = Nowhere Ground = Ground Player = Player
  Grounds = {g1}
  Tops = {t1, y1, y2}
  Downs = {d1, f1, f2}
  Splashes = {y1, y2}
  Fields = {f1, f2}
  Decaying = {f1}
  Harmful = {f1, f2}
  Replaceable = {f1}
  Clearing = {f1, f2, d1}
  Dropped = {d1}
  TileItems = 4
  Blocking = {t1, d1}
  Quest = {d1}
  Walkers = {c1, c2}
  TileMax = 4
  Known = {k1, k2, k3, v1}
  KnownMax = 2
  Vocations = {1}
  Promoted = {}
  DeathLosePercent = 50
  RookingLevel = 6
  FirstSkill = 10
  Blessings = {1}
  Amounts = {1, 3}
  MaxLevel = 9
  MaxMagic = 2
  MaxSkill = 11
  Watchers = {v1, v2}
  Cases = {sack, chest}
  Coins = {}
  Spots = {1, 2, 3}
  Cids = {0, 1}
  MaxLength = 2
  Seers = {c1}
  Tiles <- MCTiles
  Asked <- MCAsked
  Ranges <- MCRanges
  Order <- MCOrder
  Capacity <- MCCapacity
  ExpFor <- MCExpFor
  ReqMana <- MCReqMana
  ReqTries <- MCReqTries
  HPGain <- MCHPGain
  ManaGain <- MCManaGain
  BaseOf <- MCBaseOf
  Stacks = {k1, k2, k3}
  Bags = {bag, box}
  Reduced = {box}
  Slots = {3, 10}
  Backpack = 3
  Full = 2
  TileLimit = 2
  Strength = 50
  Wrap = 1000
  MaxWorth = 4
  MaxDrifts = 1
  Persons = {w1, w2}
  WhiteTime = 2
  RedTime = 2
  KillsRed = 2
  MaxMurders = 2
SYMMETRY Symmetry
INVARIANTS ClientsAgree ItemsInv LevelsInv SkullsInv
CHECK_DEADLOCK FALSE
