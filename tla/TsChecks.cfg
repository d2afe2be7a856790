SPECIFICATION BundleSpec
CONSTANTS
  Languages = {"typescript"}
  Callers = {{}}
  TraceValues = {1}
  Datasets = {"tariffs"}
  TsaKinds = {"complete"}
  DependsLists <- MCDependsLists
  MaxCommitments = 1
  MaxEdits = 2
INVARIANTS
  StatedChecksMade
CHECK_DEADLOCK FALSE
