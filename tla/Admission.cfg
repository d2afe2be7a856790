SPECIFICATION AdmissionSpec
CONSTANTS
  Requests <- MCRequests
  ClientOf <- MCClientOf
  Workloads <- MCWorkloads
  limit = 2
  window_seconds = 2
  max_in_flight = 1
  MaxClock = 2
  DayLength = 2
INVARIANTS
  AdmissionTypeOK
  CountersBalanced
  RateWindowExact
  RuntimeConsistent
  AnswersTellCommit
PROPERTIES
  AdmissionProgress
CHECK_DEADLOCK FALSE
