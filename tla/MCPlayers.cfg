SPECIFICATION MCSpec
CONSTANTS
  p1 = p1 p2 = p2 p3 = p3 p4 = p4 a = a b = b z = z
  bag = bag box = box coin = coin hut = hut None = None
  w3 = w3 gm = gm k1 = k1 su = su mo = mo Ghost = Ghost
  Players = {p1, p2, p3, p4}
  PartyIds = {a, b}
  Traders = {p1, p2, p3}
  Things = {bag, box, coin}
  Houses = {hut}
  Talkers = {a, b}
  Addresses = {z}
  Slots = {100, 101}
  Normal = {7}
  Hitters = {k1, su, mo}
  Fighters = {k1}
  Leader = k1
  MapSize = 2
  Full = 2
  FullMana = 1
  Worth = 3
  MaxLost = 5
  Outfits = {"o1", "o2"}
  RingSpeed = 5
  MaxConditions = 1
  Clients = {a, b, w3, gm}
  Premium = {w3}
  Always = {gm}
  MaxPlayers = 2
  Timeout = 2
  MaxEntries = 4
SYMMETRY Symmetry
INVARIANTS Inv SharedByActive TradeInv ChannelsInv KillsInv ConditionsInv WaitInv
PROPERTIES CompanyStays TradesAreIntact
CHECK_DEADLOCK FALSE
