\* No autoReconnect; an exception ends the PE
SPECIFICATION Spec
CONSTANTS
  Threads = {t1, t2}
  AuthMode = "params"
  AuthOutcomes = {"granted", "rejected"}
  AutoReconnect = FALSE
  HasTimeout = TRUE
  QueryPerTuple = FALSE
  ConversionFails = TRUE
  Profiling = TRUE
  ExceptionEndsPE = TRUE
  MaxTuples = 2
  MaxDocuments = 2
  MaxFaults = 1
  Dbs = {"streams"}
  Db = "streams"
  Requests <- MCRequests
  NoError = 0
INVARIANTS IInv CursorIsThere
