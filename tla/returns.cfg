\* Every call returns when no process is killed.
SPECIFICATION FairSpec
CONSTANTS
  p1 = p1
  p2 = p2
  p3 = p3
  k1 = k1
  k2 = k2
  g1 = g1
  tag = tag
  Procs = {p1, p2, p3}
  Keys = {k1}
  NoKey = NoKey
  Slots = 2
  Home <- OneKey
  MaxLen = 2
  Mop = "hybrid"
  SpuriousCAS = FALSE
  Layout <- One2
  Calls <- ReturnCalls
  Lens <- LensB
  Budget <- ReturnBudget
  Quiet = {}
  Mortal = {}
  Groups = {g1}
  Labels = {tag}
  NoGroup = NoGroup
  BloomWatch <- Route
  WatchGroup <- Group1
  WatchLabel <- Tagged
  Watches = {}
  Tags = {}
  Armed = {p3}
  Stripe = 1
INVARIANTS NoStuckSlot
PROPERTIES CallsReturn
CHECK_DEADLOCK FALSE
