\* A vector-training daemon beside a client that stores vectors of its own.
SPECIFICATION SidecarFair
CONSTANTS
  p1 = p1
  p2 = p2
  p3 = p3
  k1 = k1
  k2 = k2
  g1 = g1
  g2 = g2
  embed = embed
  waiting = waiting
  exceeded = exceeded
  Procs = {p1, p2, p3}
  Keys = {k1, k2}
  NoKey = NoKey
  Slots = 1
  Home <- Homes
  MaxLen = 2
  Mop = "hybrid"
  SpuriousCAS = FALSE
  Layout <- OneKey
  Calls <- DepositCalls
  Lens <- LensB
  Budget <- Deposits
  Quiet = {}
  Mortal = {}
  Groups = {g1, g2}
  Labels = {embed, waiting, exceeded}
  NoGroup = NoGroup
  BloomWatch <- Route
  WatchGroup <- Group2
  WatchLabel <- Waits
  Watches = {}
  Tags = {embed, waiting}
  Armed = {}
  Stripe = 1
  Sidecar = p3
  Group = g1
  Lane = k2
  Texts = {k1}
  Exceeded = exceeded
  Modes <- Training
PROPERTY WriteOnce
CHECK_DEADLOCK FALSE
