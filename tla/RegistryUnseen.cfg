CONSTANTS
  t1 = t1
  t2 = t2
  t3 = t3
  None = None
  Task = {t1, t2}
  Key = {"dev", "ag"}
  KeyOf <- TwoKeys
  AgentKey = {"ag"}
  MediaKey = {}
  RepeatCancel = FALSE
SPECIFICATION Spec
PROPERTIES
  CancelSeesProcess
