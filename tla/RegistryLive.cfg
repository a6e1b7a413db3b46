CONSTANTS
  t1 = t1
  t2 = t2
  t3 = t3
  None = None
  Task = {t1, t2}
  Key = {"media"}
  KeyOf <- TwoMedia
  AgentKey = {}
  MediaKey = {"media"}
  RepeatCancel = TRUE
SPECIFICATION FairSpec
INVARIANTS
  EndIsReported
PROPERTIES
  EveryTaskIsRetired
  MainLoopReturns
