\* Update with findQuery and AsIs, without autoReconnect; the server grants every login
SPECIFICATION FairSpec
CONSTANTS
  Threads = {t1, t2}
  Assignments <- MCAsIsClause
  Ports = {0, 1}
  AuthMode = "params"
  AuthOutcomes = {"granted"}
  AutoReconnect = FALSE
  HasTimeout = TRUE
  FindQueryPort = 0
  FindQueryJson = TRUE
  Profiling = TRUE
  ExceptionEndsPE = FALSE
  MaxTuples = 2
  MaxFaults = 1
  Dbs <- MCDbs
  Requests <- MCRequests
  NoError = NoError
  AnyPort = AnyPort
INVARIANTS WritesAuthenticated
PROPERTIES ImplementsContract Returns
