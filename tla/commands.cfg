\* Commands of splinterctl beside one another, other clients and the daemon.
SPECIFICATION CommandsSpec
CONSTANTS
  p1 = p1
  p2 = p2
  p3 = p3
  a = a
  b = b
  q1 = q1
  q2 = q2
  NoKey = NoKey
  Procs = {p1, p2, p3}
  Keys <- SomeKeys
  Slots = 4
  Home <- SomeHome
  Long <- TooMany
  Scenes <- SomeScenes
INVARIANTS IngestOrder ListTrue SearchTrue
CHECK_DEADLOCK FALSE
