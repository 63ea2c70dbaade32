\* Insert on two threads; an exception costs one tuple
SPECIFICATION Spec
CONSTANTS
  Threads = {t1, t2}
  Assignments <- MCInsertClause
  Ports = {0, 1}
  AuthMode = "user"
  AuthOutcomes = {"granted", "rejected"}
  AutoReconnect = TRUE
  HasTimeout = TRUE
  FindQueryPort = AnyPort
  FindQueryJson = FALSE
  Profiling = FALSE
  ExceptionEndsPE = FALSE
  MaxTuples = 2
  MaxFaults = 2
  Dbs <- MCDbs
  Requests <- MCRequests
  NoError = NoError
  AnyPort = AnyPort
INVARIANTS ErrorAttribution TupleAccount ErrorTupleTrue MetricExact NoLimbo IInv
