\* The owner, a rival and a consumer; one of them may be killed.
SPECIFICATION LifecycleSpec
CONSTANTS
  Procs <- Three
  Home <- Homes
  Slots = 2
  Calls <- SomeCalls
  Most = 4
  Limits <- SomeLimits
  Kills = 1
INVARIANTS PutsKept AttachTrue HearsOwner
CHECK_DEADLOCK FALSE
