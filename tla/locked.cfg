\* One slot under every operation that takes the seqlock, with a reader.
SPECIFICATION Spec
CONSTANTS
  p1 = p1
  p2 = p2
  p3 = p3
  k1 = k1
  k2 = k2
  g1 = g1
  tag = tag
  Procs = {p1, p2, p3}
  Keys = {k1}
  NoKey = NoKey
  Slots = 1
  Home <- OneKey
  MaxLen = 2
  Mop = "hybrid"
  SpuriousCAS = TRUE
  Layout <- Empty1
  Calls <- LockedCalls
  Lens <- Lens2
  Budget <- LockedBudget
  Quiet = {}
  Mortal = {}
  Groups = {}
  Labels = {}
  NoGroup = NoGroup
  BloomWatch <- NoWatch
  WatchGroup <- NoGroups
  WatchLabel <- NoLabels
  Watches = {}
  Tags = {}
  Armed = {}
  Stripe = 1
INVARIANTS TypeOK SeqlockOwner
PROPERTY Linearizable
CHECK_DEADLOCK FALSE
