\* Four shards on three records: a protective bid that is renewed, a DONTNEED bid, a late comer.
SPECIFICATION ShardFair
CONSTANTS
  p1 = p1
  p2 = p2
  p3 = p3
  p4 = p4
  forever = forever
  Procs = {p1, p2, p3, p4}
  Id <- Ids
  Pid <- Pids
  Records = 3
  Bids <- SomeBids
  Calls <- SomeCalls
  Timeouts <- SomeWaits
  Forever = forever
  Span = 16
  Latest = 1
  Horizon = 3
  Mortal = {p3}
  Scenes <- SomeScenes
INVARIANTS ShardTypeOK OneRecord TableTrue StillElection Bumper Outbid SovereignLive
PROPERTIES AdviseReturns
CHECK_DEADLOCK FALSE
