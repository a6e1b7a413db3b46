SPECIFICATION Spec
CONSTANTS
  Words <- MCWords
  Commands <- MCCommands
  Assignments <- MCAssignments
  Wrappers <- MCWrappers
  WrapperFlags <- MCWrapperFlags
  ArgFlags <- MCArgFlags
  Shells = {"sh"}
  IsOpaque <- MCIsOpaque
  Ungrouped <- MCUngrouped
  BaseName <- MCBaseName
  Glue <- MCGlue
  Groups = {"{"}
  SplitFlags = {"-S"}
  DenyRules <- MCDenyRules
  AllowRules <- MCAllowRules
  UnknownPolicy = "ask"
INVARIANTS SegmentsAreTheReading AllowedIsVetted HardRuleDecides InstallsAreListedFirst
