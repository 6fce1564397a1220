\* Two counters, one of them promoted while it is used, and a text.
SPECIFICATION ArenaSpec
CONSTANTS
  p1 = p1
  p2 = p2
  p3 = p3
  Procs = {p1, p2, p3}
  Keys <- Three
  Slots = 3
  MaxVal = 4
  Word = 2
  Grain = 2
  Base = 4
  Zero = 2
  Spare = 2
  Calls <- SomeCalls
  Limit = 2
  Scenes <- SomeScenes
INVARIANT OwnCalls
CHECK_DEADLOCK FALSE
