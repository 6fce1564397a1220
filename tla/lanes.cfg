\* The lane stress test: two writers, one reader, three keys on one chain.
SPECIFICATION HarnessSpec
CONSTANTS
  p0 = p0
  p1 = p1
  p2 = p2
  p3 = p3
  k1 = k1
  k2 = k2
  k3 = k3
  Procs = {p0, p1, p2, p3}
  Keys = {k1, k2, k3}
  NoKey = NoKey
  Slots = 4
  Home <- Collide
  MaxLen = 2
  Mop = "hybrid"
  SpuriousCAS = FALSE
  Layout <- Bare
  Calls <- Any
  Lens <- Full
  Budget <- Few
  Quiet = {}
  Mortal = {}
  Groups = {}
  Labels = {}
  NoGroup = NoGroup
  BloomWatch <- NoWatch
  WatchGroup <- NoGroups
  WatchLabel <- NoLabels
  Watches = {}
  Tags = {}
  Armed = {}
  Stripe = 1
  Main = p0
  Writers <- Two
  Readers = {p3}
  KeySeq <- Three
INVARIANTS OneSlotPerKey LanesHold
PROPERTY ReadsAdvance
CHECK_DEADLOCK FALSE
