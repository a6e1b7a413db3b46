CONSTANTS
  TaskId = {1, 2, 3}
  Score <- TwoScores
  Batch <- Batches
  Request <- Requests
SPECIFICATION FairSpec
INVARIANTS
  TypeOK
  HeavyCap
  DependenciesFirst
  WavesMakeProgress
  OnlyCyclesAreLeftOut
PROPERTIES
  PlanEnds
CHECK_DEADLOCK FALSE
