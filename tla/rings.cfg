\* Two armed writers and two consumers that share the work; unset and retrain run alone.
SPECIFICATION BusFair
CONSTANTS
  p1 = p1
  p2 = p2
  c1 = c1
  c2 = c2
  k1 = k1
  k2 = k2
  g1 = g1
  tag = tag
  Procs = {p1, p2}
  Keys = {k1, k2}
  NoKey = NoKey
  Slots = 3
  Home <- Homes
  MaxLen = 2
  Mop = "hybrid"
  SpuriousCAS = FALSE
  Layout <- Both
  Calls <- RingCalls
  Lens <- LensA
  Budget <- Once
  Quiet = {"unset", "retrain"}
  Mortal = {}
  Groups = {g1}
  Labels = {tag}
  NoGroup = NoGroup
  BloomWatch <- Route
  WatchGroup <- Group1
  WatchLabel <- Tagged
  Watches = {}
  Tags = {}
  Armed = {p1, p2}
  Stripe = 2
  Consumers = {c1, c2}
  MaskBits = 2
  WordBits = 1
INVARIANTS BusTypeOK DirtyInMask DirtyRings ChangeReported
PROPERTIES Informed
CHECK_DEADLOCK FALSE
