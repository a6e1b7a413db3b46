CONSTANTS
  t1 = t1
  t2 = t2
  t3 = t3
  None = None
  Task = {t1, t2, t3}
  Key = {"dev"}
  KeyOf <- OneMode
  AgentKey = {}
  MediaKey = {}
  RepeatCancel = FALSE
SYMMETRY Symmetry
SPECIFICATION Spec
INVARIANTS
  TypeOK
  OneProcessPerKey
  WorkerOwnsKey
  KeysNeverStall
  IdsAreCurrent
PROPERTIES
  ImplementsExecutor
  CancelledIsSilent
  NoFallbackAfterCancel
