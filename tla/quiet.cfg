\* unset and retrain called while the library is quiescent; a writer may be killed.
SPECIFICATION Spec
CONSTANTS
  p1 = p1
  p2 = p2
  p3 = p3
  k1 = k1
  k2 = k2
  g1 = g1
  tag = tag
  Procs = {p1, p2, p3}
  Keys = {k1, k2}
  NoKey = NoKey
  Slots = 2
  Home <- Apart
  MaxLen = 2
  Mop = "hybrid"
  SpuriousCAS = FALSE
  Layout <- One2
  Calls <- QuietCalls
  Lens <- LensA
  Budget <- QuietBudget
  Quiet = {"unset", "retrain"}
  Mortal = {p1}
  Groups = {}
  Labels = {}
  NoGroup = NoGroup
  BloomWatch <- NoWatch
  WatchGroup <- NoGroups
  WatchLabel <- NoLabels
  Watches = {}
  Tags = {}
  Armed = {}
  Stripe = 1
INVARIANTS ReadKeyed IInv
PROPERTIES ReadExact UnsetForgets SetLands
CHECK_DEADLOCK FALSE
