-------------------------- MODULE DriverConnection --------------------------
(***************************************************************************)
(* The DBClientConnection objects of one operator, and the MongoDB server  *)
(* behind them.                                                            *)
(*                                                                         *)
(* Every operator keeps `static thread_specific_ptr<DBClientConnection>    *)
(* connPtr_` (Common/ThreadCommon_cpp.cgt:2): one connection per thread of *)
(* the processing element, created by the first call the thread makes.     *)
(* The driver itself is linked as a library; what it does is taken from    *)
(* the contracts in impl/include/mongo/client/dbclientinterface.h and from *)
(* the way the operators use it.                                           *)
(***************************************************************************)
EXTENDS Naturals

CONSTANTS
  Threads,        \* threads that call process()
  Dbs,            \* databases named by the output functions
  Requests,       \* identities of the requests a connection can carry
  NoError,        \* the empty string getLastError() returns on success
  AutoReconnect,  \* the autoReconnect parameter
  HasTimeout,     \* the timeout parameter is not 0
  AuthMode,       \* "none", "params" (authentication) or "user" (username)
  AuthOutcomes,   \* what the server may answer to auth()
  MaxFaults       \* bound: server stops and link losses

ASSUME DriverAssumption ==
  /\ AutoReconnect \in BOOLEAN
  /\ HasTimeout \in BOOLEAN
  /\ AuthMode \in {"none", "params", "user"}
  /\ AuthOutcomes \in (SUBSET {"granted", "rejected"}) \ {{}}
  /\ NoError \notin Requests
  /\ MaxFaults \in Nat

VARIABLES
  conn,      \* conn[k]: the connection object of thread k
  serverUp,  \* the mongod process accepts connections
  faults     \* faults so far, bounded by MaxFaults

driverVars == <<conn, serverUp, faults>>

(***************************************************************************)
(* made       the object exists: connPtr_.get() is not null                *)
(* link       "none" before the first connect, "open", or "cut"            *)
(* failed     the _failed flag isFailed() returns                          *)
(* granted    databases the server lets this link use                      *)
(* authCache  databases the driver re-authenticates after a reconnect      *)
(* lastError  the server's error of the last write over this link          *)
(* wire       no request, a request the server has, or its answer          *)
(***************************************************************************)
Connection ==
  [made : BOOLEAN, link : {"none", "open", "cut"}, failed : BOOLEAN,
   granted : SUBSET Dbs, authCache : SUBSET Dbs,
   lastError : Requests \union {NoError},
   wire : {"quiet", "asked", "answered"}]

NoConnection ==
  [made |-> FALSE, link |-> "none", failed |-> FALSE, granted |-> {},
   authCache |-> {}, lastError |-> NoError, wire |-> "quiet"]

DriverTypeOK ==
  /\ conn \in [Threads -> Connection]
  /\ serverUp \in BOOLEAN
  /\ faults \in 0..MaxFaults

DriverInit ==
  /\ conn = [k \in Threads |-> NoConnection]
  /\ serverUp \in BOOLEAN
  /\ faults = 0

----------------------------------------------------------------------------
\* Variant (a plain static pointer): one connection for all threads.
SharedConnFor(t) == CHOOSE k \in Threads : TRUE

\* thread_specific_ptr: the pointer a thread sees is its own.
ConnFor(t) == t

Conn(t) == conn[ConnFor(t)]

SetConn(t, c) == conn' = [conn EXCEPT ![ConnFor(t)] = c]

\* new DBClientConnection(autoReconnect, 0, timeout) and a successful connect
Connected(c) ==
  [c EXCEPT !.made = TRUE, !.link = "open", !.failed = FALSE]

\* ... and a connect that could not reach the server
ConnectFailed(c) == [c EXCEPT !.made = TRUE, !.failed = TRUE]

\* A socket error on a link in use: the driver flags the connection.
Broken(c) == [c EXCEPT !.link = "cut", !.failed = TRUE, !.wire = "quiet"]

\* The databases one call of auth() opens.
AuthScope(db) == IF AuthMode = "params" THEN Dbs ELSE {db}

\* auth() over an open link. With autoReconnect the driver remembers the
\* credentials whatever the answer is.
Authenticated(c, db, answer) ==
  [c EXCEPT
     !.granted = @ \union (IF answer = "granted" THEN AuthScope(db) ELSE {}),
     !.authCache = @ \union (IF AutoReconnect THEN AuthScope(db) ELSE {})]

\* _checkConnection() on a failed connection: connect again and repeat the
\* authentications the driver remembers.
Reconnected(c, answer) ==
  [c EXCEPT !.link = "open", !.failed = FALSE, !.lastError = NoError,
            !.granted = IF answer = "granted" THEN c.authCache ELSE {}]

\* checkConnection() at the start of every call on the connection: `ready`
\* is what it may leave behind when it does not throw.
Ready(c) ==
  IF ~c.failed THEN {c}
  ELSE {Reconnected(c, answer) : answer \in
          {a \in AuthOutcomes : AutoReconnect /\ serverUp}}

\* A call over connection c fails in the driver: the connection is failed and
\* cannot be, or is not yet, reconnected; or the link is lost under the call.
CallFails(c) == c.failed \/ c.link # "open"

\* What a failing call leaves behind.
AfterFailure(c) == IF c.failed THEN c ELSE Broken(c)

\* Access control of the server.
Authorised(c, db) == AuthMode = "none" \/ db \in c.granted

----------------------------------------------------------------------------
CutLink(c) == IF c.link = "open" THEN [c EXCEPT !.link = "cut", !.wire = "quiet"]
              ELSE c

\* The server stops: every open link is lost, which no driver notices before
\* its next call.
ServerStops ==
  /\ serverUp
  /\ faults < MaxFaults
  /\ serverUp' = FALSE
  /\ faults' = faults + 1
  /\ conn' = [k \in Threads |-> CutLink(conn[k])]

ServerStarts ==
  /\ ~serverUp
  /\ serverUp' = TRUE
  /\ UNCHANGED <<conn, faults>>

\* The network drops one link.
LinkLost(k) ==
  /\ conn[k].link = "open"
  /\ faults < MaxFaults
  /\ faults' = faults + 1
  /\ conn' = [conn EXCEPT ![k] = CutLink(@)]
  /\ UNCHANGED serverUp
=============================================================================
