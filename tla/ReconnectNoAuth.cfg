\* The first connect fails, autoReconnect connects later
SPECIFICATION Spec
CONSTANTS
  Threads = {t1}
  Assignments <- MCDeleteClause
  Ports = {0}
  AuthMode = "user"
  AuthOutcomes = {"granted"}
  AutoReconnect = TRUE
  HasTimeout = TRUE
  FindQueryPort = AnyPort
  FindQueryJson = FALSE
  Profiling = FALSE
  ExceptionEndsPE = FALSE
  MaxTuples = 2
  MaxFaults = 1
  Dbs <- MCDbs
  Requests <- MCRequests
  NoError = NoError
  AnyPort = AnyPort
INVARIANT WritesAuthenticated
