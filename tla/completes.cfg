\* Two keys; the daemon is stopped and started again; the model can fail.
SPECIFICATION CompletionFair
CONSTANTS
  Keys = {"k1", "k2"}
  Requests <- SomeRequests
  MaxVal = 5
  PromptLen = 2
  FlushMax = 2
  Wrap = 16
  Stops = 1
  Kills = 1
  Early = FALSE
  Bumps = FALSE
  Clears = TRUE
  Patient = TRUE
  Eager = TRUE
INVARIANTS Exchange WrittenTrue
PROPERTIES ReadyIsFinal Served
CHECK_DEADLOCK FALSE
