\* Two threads against ResultStream: autoReconnect, an exception costs one tuple
SPECIFICATION FairSpec
CONSTANTS
  Threads = {t1, t2}
  AuthMode = "user"
  AuthOutcomes = {"granted", "rejected"}
  AutoReconnect = TRUE
  HasTimeout = TRUE
  QueryPerTuple = TRUE
  ConversionFails = FALSE
  Profiling = FALSE
  ExceptionEndsPE = FALSE
  MaxTuples = 2
  MaxDocuments = 2
  MaxFaults = 1
  Dbs = {"streams"}
  Db = "streams"
  Requests <- MCRequests
  NoError = 0
INVARIANTS TupleTrue WholeAnswer NoneLeftOpen
PROPERTIES ImplementsResultStream QueryReturns
