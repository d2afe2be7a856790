SPECIFICATION BundleSpec
CONSTANTS
  Languages = {"python", "typescript"}
  Callers <- MCCallers
  TraceValues = {1, 2}
  Datasets = {"tariffs", "cafe_accented"}
  TsaKinds = {"complete", "blank", "keyless", "extended"}
  DependsLists <- MCDependsLists
  MaxCommitments = 2
  MaxEdits = 2
INVARIANTS
  BundleTypeOK
  PythonVerdictsAgree
  DamageDetected
  TypeScriptGapKnown
  WriteOnceVerifies
CHECK_DEADLOCK FALSE
