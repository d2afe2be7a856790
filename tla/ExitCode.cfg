SPECIFICATION BundleSpec
CONSTANTS
  Languages = {"python"}
  Callers = {{"set_legal"}}
  TraceValues = {1}
  Datasets = {"tariffs"}
  TsaKinds = {"complete", "blank"}
  DependsLists <- MCDependsLists
  MaxCommitments = 1
  MaxEdits = 0
INVARIANTS
  ExitCodesDocumented
CHECK_DEADLOCK FALSE
