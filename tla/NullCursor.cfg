\* The link is lost under a query and autoReconnect finds it again
SPECIFICATION Spec
CONSTANTS
  Threads = {t1}
  AuthMode = "none"
  AuthOutcomes = {"granted"}
  AutoReconnect = TRUE
  HasTimeout = TRUE
  QueryPerTuple = FALSE
  ConversionFails = FALSE
  Profiling = FALSE
  ExceptionEndsPE = FALSE
  MaxTuples = 1
  MaxDocuments = 1
  MaxFaults = 1
  Dbs = {"streams"}
  Db = "streams"
  Requests <- MCRequests
  NoError = 0
INVARIANT CursorIsThere
