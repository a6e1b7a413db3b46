CONSTANTS
  Mode = {"ask", "dev", "med"}
  DefaultMode = "ask"
  Update <- SomeUpdates
  MaxUpdates = 3
  Limit = 2
  MaxStarts = 2
  None = None
SPECIFICATION FairSpec
INVARIANTS
  HandledOnce
  NothingIsForgotten
PROPERTIES
  StaleIsNotRun
  ModeIsSticky
  EveryUpdateIsTaken
