----------------------------- MODULE MongoWriter -----------------------------
(***************************************************************************)
(* The Insert, Update and Delete operators: process() of Insert_cpp.cgt,   *)
(* Update_cpp.cgt and Delete_cpp.cgt, run by several threads of one        *)
(* processing element (PE).                                                *)
(*                                                                         *)
(* The three share one shape. The output clause is a list of assignments:  *)
(* a write function (InsertDocument, UpsertDocuments, RemoveDocument ...)  *)
(* for an attribute that shall receive the error message, or AsIs. For     *)
(* each of them, in order, process() builds the documents, takes the       *)
(* connection of its thread, checks it, writes, asks getLastError(), and   *)
(* counts the write or sets the attribute of an error tuple; the error     *)
(* tuple is submitted once, at the end.                                    *)
(*                                                                         *)
(* store and outcome are history variables: what the server holds, and     *)
(* what became of each write. Bounds: MaxTuples, MaxFaults.                *)
(***************************************************************************)
EXTENDS DriverConnection, Sequences, FiniteSets

CONSTANTS
  Ports,            \* input ports
  AnyPort,          \* guard of an assignment executed for every port
  Assignments,      \* the output clause, in the order of the attributes
  FindQueryPort,    \* port whose attributes findQuery reads; AnyPort if none
  FindQueryJson,    \* findQuery is an rstring, parsed by fromjson
  Profiling,        \* the profiling parameter is slow or all
  ExceptionEndsPE,  \* the runtime ends the PE on an exception of process()
  MaxTuples         \* bound: tuples received

Assignment ==
  [fn : {"AsIs", "Write"}, guard : Ports \union {AnyPort},
   json : BOOLEAN, db : Dbs]

Ids == (1..MaxTuples) \X (DOMAIN Assignments)

ASSUME WriterAssumption ==
  /\ AnyPort \notin Ports
  /\ Assignments \in Seq(Assignment)
  /\ FindQueryPort \in Ports \union {AnyPort}
  /\ FindQueryJson \in BOOLEAN
  /\ Profiling \in BOOLEAN
  /\ ExceptionEndsPE \in BOOLEAN
  /\ MaxTuples \in Nat
  /\ Requests = Ids

VARIABLES
  pc,          \* where each thread is in process()
  cur,         \* the tuple it processes: number and port
  idx,         \* the assignment it executes
  otuple,      \* otuplePtr: null, or the attributes set in the tuple
  errorFound,  \* the local flag errorFound
  msg,         \* the local errorMsg
  metric,      \* nInserts, nUpdates or nDeletes
  taken,       \* tuples received
  pe,          \* "running", "aborted" by an exception, "segfault"
  store,       \* writes the server applied
  outcome      \* what became of each write

localVars == <<pc, cur, idx, otuple, errorFound, msg>>
ledgerVars == <<metric, store, outcome>>
vars == <<driverVars, localVars, ledgerVars, taken, pe>>

Steps == {"idle", "assign", "query", "connect", "auth", "check", "profile",
          "send", "reply", "gle", "count"}

Outcomes == {"none", "pending", "counted", "reported", "abandoned"}

NoTuple == [n |-> 0, port |-> AnyPort]

Null == [made |-> FALSE, set |-> {}]

WriterTypeOK ==
  /\ pc \in [Threads -> Steps]
  /\ cur \in [Threads -> [n : 0..MaxTuples, port : Ports \union {AnyPort}]]
  /\ idx \in [Threads -> 1..(Len(Assignments) + 1)]
  /\ otuple \in [Threads -> [made : BOOLEAN, set : SUBSET Ids]]
  /\ errorFound \in [Threads -> BOOLEAN]
  /\ msg \in [Threads -> Ids \union {NoError}]
  /\ metric \in Nat
  /\ taken \in 0..MaxTuples
  /\ pe \in {"running", "aborted", "segfault"}
  /\ store \subseteq Ids
  /\ outcome \in [Ids -> Outcomes]

\* Every variable, of the connections and of the operator, has its type.
TypeOK == DriverTypeOK /\ WriterTypeOK

Init ==
  /\ DriverInit
  /\ pc = [t \in Threads |-> "idle"]
  /\ cur = [t \in Threads |-> NoTuple]
  /\ idx = [t \in Threads |-> 1]
  /\ otuple = [t \in Threads |-> Null]
  /\ errorFound = [t \in Threads |-> FALSE]
  /\ msg = [t \in Threads |-> NoError]
  /\ metric = 0
  /\ taken = 0
  /\ pe = "running"
  /\ store = {}
  /\ outcome = [w \in Ids |-> "none"]

----------------------------------------------------------------------------
At(t, step) == pe = "running" /\ pc[t] = step

Goto(t, step) == pc' = [pc EXCEPT ![t] = step]

\* The assignment a thread executes, and the identity of its write.
Current(t) == Assignments[idx[t]]

WriteId(t) == <<cur[t].n, idx[t]>>

\* Variant (otuplePtr and errorFound as members): the error tuple of the tuple
\* before is still there.
LocalsKeepTuple(t, step, tuple) ==
  /\ pc' = [pc EXCEPT ![t] = step]
  /\ cur' = [cur EXCEPT ![t] = tuple]
  /\ idx' = [idx EXCEPT ![t] = 1]
  /\ msg' = [msg EXCEPT ![t] = NoError]
  /\ UNCHANGED <<otuple, errorFound>>

\* The locals of process() at its start and, destroyed, after it.
Locals(t, step, tuple) ==
  /\ pc' = [pc EXCEPT ![t] = step]
  /\ cur' = [cur EXCEPT ![t] = tuple]
  /\ idx' = [idx EXCEPT ![t] = 1]
  /\ otuple' = [otuple EXCEPT ![t] = Null]
  /\ errorFound' = [errorFound EXCEPT ![t] = FALSE]
  /\ msg' = [msg EXCEPT ![t] = NoError]

\* The writes nobody will learn the fate of when process() is left early.
Abandon(ws) ==
  outcome' = [w \in Ids |-> IF w \in ws /\ outcome[w] = "pending"
                            THEN "abandoned" ELSE outcome[w]]

\* An exception leaves process(): nothing in it or above it catches.
Throw(t) ==
  /\ Locals(t, "idle", NoTuple)
  /\ pe' = IF ExceptionEndsPE THEN "aborted" ELSE pe
  /\ Abandon(IF ExceptionEndsPE THEN Ids
             ELSE {w \in Ids : w[1] = cur[t].n})
  /\ UNCHANGED <<metric, store, taken>>

\* Undefined behaviour that the operating system turns into a signal.
Crash ==
  /\ pe' = "segfault"
  /\ Abandon(Ids)
  /\ UNCHANGED <<driverVars, localVars, metric, store, taken>>

----------------------------------------------------------------------------
\* Variant (the tuple is not taken off the queue): it is received again.
ReceiveAgain(t) ==
  /\ At(t, "idle")
  /\ taken < MaxTuples
  /\ \E p \in Ports : Locals(t, "assign", [n |-> taken + 1, port |-> p])
  /\ UNCHANGED <<driverVars, ledgerVars, taken, pe>>

\* The runtime calls process(tuple, port).
Receive(t) ==
  /\ At(t, "idle")
  /\ taken < MaxTuples
  /\ \E p \in Ports : Locals(t, "assign", [n |-> taken + 1, port |-> p])
  /\ taken' = taken + 1
  /\ UNCHANGED <<driverVars, ledgerVars, pe>>

NextAssignment(t) ==
  /\ idx' = [idx EXCEPT ![t] = @ + 1]
  /\ Goto(t, "assign")

AtAssignment(t, fn) ==
  /\ At(t, "assign")
  /\ idx[t] <= Len(Assignments)
  /\ Current(t).fn = fn

\* Variant (no port test): every assignment is executed for every tuple.
ForEveryPort(t) == TRUE

\* if(port == <portNumber>), generated only for several input ports and an
\* expression with stream attributes.
ForThisPort(t) == Current(t).guard \in {AnyPort, cur[t].port}

\* An assignment of another port.
Skip(t) ==
  /\ AtAssignment(t, "Write")
  /\ ~ForThisPort(t)
  /\ NextAssignment(t)
  /\ UNCHANGED <<driverVars, cur, otuple, errorFound, msg, ledgerVars, taken, pe>>

\* otuplePtr->set_x(init), with an otuplePtr that is still null until some
\* earlier write of the same call has failed.
SetAsIs(t) ==
  /\ AtAssignment(t, "AsIs")
  /\ \/ /\ otuple[t].made
        /\ otuple' = [otuple EXCEPT ![t].set = @ \union {WriteId(t)}]
        /\ NextAssignment(t)
        /\ UNCHANGED <<driverVars, cur, errorFound, msg, ledgerVars, taken, pe>>
     \/ /\ ~otuple[t].made
        /\ Crash

\* The document is built; fromjson() throws on text that is not JSON.
BuildDocument(t) ==
  /\ AtAssignment(t, "Write")
  /\ ForThisPort(t)
  /\ \/ /\ Goto(t, IF FindQueryPort = AnyPort THEN "connect" ELSE "query")
        /\ UNCHANGED <<driverVars, cur, idx, otuple, errorFound, msg, ledgerVars,
                       taken, pe>>
     \/ /\ Current(t).json
        /\ Throw(t)
        /\ UNCHANGED driverVars

\* buildFindQueryBO(tuple), which casts the tuple to the type of the port
\* whose attributes the query names, whatever port it came from.
BuildFindQuery(t) ==
  /\ At(t, "query")
  /\ \/ /\ Goto(t, "connect")
        /\ UNCHANGED <<driverVars, cur, idx, otuple, errorFound, msg, ledgerVars,
                       taken, pe>>
     \/ /\ FindQueryJson
        /\ Throw(t)
        /\ UNCHANGED driverVars
     \/ /\ FindQueryPort # cur[t].port
        /\ Crash

----------------------------------------------------------------------------
\* catch(const DBException &e) in getDBClientConnection: log, or throw.
Caught(t) ==
  \/ /\ AutoReconnect
     /\ Goto(t, "check")
     /\ UNCHANGED <<cur, idx, otuple, errorFound, msg, ledgerVars, taken, pe>>
  \/ /\ ~AutoReconnect
     /\ Throw(t)

Step(t, from, to) ==
  /\ At(t, from)
  /\ Goto(t, to)
  /\ UNCHANGED <<cur, idx, otuple, errorFound, msg, ledgerVars, taken, pe>>

\* Variant (a retry that returns early): a connection that failed is connected
\* again on its next use, and not authenticated.
GetConnectionRetrying(t) ==
  /\ At(t, "connect")
  /\ \/ /\ Conn(t).made /\ ~Conn(t).failed
        /\ Step(t, "connect", "check")
        /\ UNCHANGED driverVars
     \/ /\ ~Conn(t).made \/ Conn(t).failed
        /\ serverUp
        /\ Step(t, "connect", IF Conn(t).made THEN "check" ELSE "auth")
        /\ SetConn(t, Connected(Conn(t)))
        /\ UNCHANGED <<serverUp, faults>>
     \/ /\ ~Conn(t).made \/ Conn(t).failed
        /\ ~serverUp
        /\ SetConn(t, ConnectFailed(Conn(t)))
        /\ Caught(t)
        /\ UNCHANGED <<serverUp, faults>>

\* getDBClientConnection: the thread has its connection already, or makes it
\* and connects.
GetConnection(t) ==
  \/ /\ Conn(t).made
     /\ Step(t, "connect", "check")
     /\ UNCHANGED driverVars
  \/ /\ ~Conn(t).made
     /\ serverUp
     /\ Step(t, "connect", IF AuthMode = "none" THEN "check" ELSE "auth")
     /\ SetConn(t, Connected(Conn(t)))
     /\ UNCHANGED <<serverUp, faults>>
  \/ /\ At(t, "connect")
     /\ ~Conn(t).made
     /\ ~serverUp
     /\ SetConn(t, ConnectFailed(Conn(t)))
     /\ Caught(t)
     /\ UNCHANGED <<serverUp, faults>>

\* connPtr->auth(...), only right after the connect that made the object.
Authenticate(t) ==
  /\ At(t, "auth")
  /\ UNCHANGED <<serverUp, faults>>
  /\ \/ /\ ~CallFails(Conn(t))
        /\ "granted" \in AuthOutcomes
        /\ SetConn(t, Authenticated(Conn(t), Current(t).db, "granted"))
        /\ Step(t, "auth", "check")
     \/ /\ ~CallFails(Conn(t))
        /\ "rejected" \in AuthOutcomes
        /\ SetConn(t, Authenticated(Conn(t), Current(t).db, "rejected"))
        /\ Caught(t)
     \/ /\ CallFails(Conn(t))
        /\ SetConn(t, Broken(Authenticated(Conn(t), Current(t).db, "rejected")))
        /\ Caught(t)

\* if(connPtr->isFailed()): with autoReconnect the code logs and calls
\* isStillConnected(), which changes nothing.
CheckFailed(t) ==
  \/ /\ ~Conn(t).failed \/ AutoReconnect
     /\ Step(t, "check", IF Profiling THEN "profile" ELSE "send")
     /\ UNCHANGED driverVars
  \/ /\ At(t, "check")
     /\ Conn(t).failed
     /\ ~AutoReconnect
     /\ Throw(t)
     /\ UNCHANGED driverVars

\* A driver call that throws, and with it process().
DriverThrows(t) ==
  /\ CallFails(Conn(t))
  /\ SetConn(t, AfterFailure(Conn(t)))
  /\ Throw(t)

\* setDbProfilingLevel(db, level)
SetProfiling(t) ==
  /\ At(t, "profile")
  /\ UNCHANGED <<serverUp, faults>>
  /\ \/ \E c \in Ready(Conn(t)) :
          /\ c.link = "open"
          /\ SetConn(t, c)
          /\ Step(t, "profile", "send")
     \/ DriverThrows(t)

----------------------------------------------------------------------------
\* connPtr->insert, update or remove: the request leaves.
Send(t) ==
  /\ At(t, "send")
  /\ UNCHANGED <<serverUp, faults>>
  /\ \/ /\ \E c \in Ready(Conn(t)) :
             /\ c.link = "open"
             /\ SetConn(t, [c EXCEPT !.wire = "asked"])
        /\ outcome' = [outcome EXCEPT ![WriteId(t)] = "pending"]
        /\ Goto(t, "reply")
        /\ UNCHANGED <<cur, idx, otuple, errorFound, msg, metric, store, taken, pe>>
     \/ DriverThrows(t)

\* The server executes the request of a thread, or refuses it.
ServerAnswers(t) ==
  /\ At(t, "reply")
  /\ Conn(t).wire = "asked"
  /\ \/ /\ Authorised(Conn(t), Current(t).db)
        /\ store' = store \union {WriteId(t)}
        /\ SetConn(t, [Conn(t) EXCEPT !.wire = "answered", !.lastError = NoError])
     \/ /\ SetConn(t, [Conn(t) EXCEPT !.wire = "answered",
                                      !.lastError = WriteId(t)])
        /\ UNCHANGED store
  /\ UNCHANGED <<serverUp, faults, localVars, metric, outcome, taken, pe>>

\* The answer arrives. A write the server refused may surface as an exception
\* of the driver or only through getLastError().
ReceiveReply(t) ==
  /\ At(t, "reply")
  /\ Conn(t).wire = "answered"
  /\ SetConn(t, [Conn(t) EXCEPT !.wire = "quiet"])
  /\ UNCHANGED <<serverUp, faults>>
  /\ \/ Step(t, "reply", "gle")
     \/ /\ Conn(t).lastError # NoError
        /\ Throw(t)

\* Variant (the timeout is not passed to the constructor).
ReplyLostOnly(t) ==
  /\ At(t, "reply")
  /\ Conn(t).link # "open"
  /\ SetConn(t, Broken(Conn(t)))
  /\ Throw(t)
  /\ UNCHANGED <<serverUp, faults>>

\* The link went down under the request, or the answer takes longer than the
\* timeout: the driver throws, and nobody knows whether the write was applied.
ReplyLost(t) ==
  /\ At(t, "reply")
  /\ \/ Conn(t).link # "open"
     \/ HasTimeout /\ Conn(t).wire = "asked"
  /\ SetConn(t, Broken(Conn(t)))
  /\ Throw(t)
  /\ UNCHANGED <<serverUp, faults>>

\* Variant (the answer of getLastError() is not kept).
GetLastErrorUnread(t) ==
  /\ At(t, "gle")
  /\ UNCHANGED <<serverUp, faults>>
  /\ \/ \E c \in Ready(Conn(t)) :
          /\ c.link = "open"
          /\ SetConn(t, c)
          /\ Goto(t, "count")
          /\ UNCHANGED <<cur, idx, otuple, errorFound, msg, ledgerVars, taken, pe>>
     \/ DriverThrows(t)

\* errorMsg = connPtr->getLastError(), the error of the last write over this
\* connection.
GetLastError(t) ==
  /\ At(t, "gle")
  /\ UNCHANGED <<serverUp, faults>>
  /\ \/ \E c \in Ready(Conn(t)) :
          /\ c.link = "open"
          /\ SetConn(t, c)
          /\ msg' = [msg EXCEPT ![t] = c.lastError]
          /\ Goto(t, "count")
          /\ UNCHANGED <<cur, idx, otuple, errorFound, ledgerVars, taken, pe>>
     \/ DriverThrows(t)

\* Variant (the metric is incremented before the test).
CountAll(t) ==
  /\ At(t, "count")
  /\ metric' = metric + 1
  /\ \/ /\ msg[t] = NoError
        /\ outcome' = [outcome EXCEPT ![WriteId(t)] = "counted"]
        /\ UNCHANGED <<otuple, errorFound>>
     \/ /\ msg[t] # NoError
        /\ errorFound' = [errorFound EXCEPT ![t] = TRUE]
        /\ otuple' = [otuple EXCEPT ![t] = [made |-> TRUE,
                                            set |-> @.set \union {msg[t]}]]
        /\ UNCHANGED outcome
  /\ NextAssignment(t)
  /\ UNCHANGED <<driverVars, cur, msg, store, taken, pe>>

\* errorMsg == "" : the metric is incremented. Otherwise the error tuple is
\* made, by the first error, and its attribute set.
Count(t) ==
  /\ At(t, "count")
  /\ \/ /\ msg[t] = NoError
        /\ metric' = metric + 1
        /\ outcome' = [outcome EXCEPT ![WriteId(t)] = "counted"]
        /\ UNCHANGED <<otuple, errorFound>>
     \/ /\ msg[t] # NoError
        /\ errorFound' = [errorFound EXCEPT ![t] = TRUE]
        /\ otuple' = [otuple EXCEPT ![t] = [made |-> TRUE,
                                            set |-> @.set \union {msg[t]}]]
        /\ UNCHANGED <<metric, outcome>>
  /\ NextAssignment(t)
  /\ UNCHANGED <<driverVars, cur, msg, store, taken, pe>>

\* Attributes of a tuple that carry error messages.
Errors(ws) == {w \in ws : Assignments[w[2]].fn = "Write"}

\* Variant (the submit is forgotten).
FinishSilently(t) ==
  /\ At(t, "assign")
  /\ idx[t] > Len(Assignments)
  /\ Locals(t, "idle", NoTuple)
  /\ UNCHANGED <<driverVars, ledgerVars, taken, pe>>

\* if(errorFound) submit(*otuplePtr, 0); process() returns.
Finish(t) ==
  /\ At(t, "assign")
  /\ idx[t] > Len(Assignments)
  /\ outcome' = [w \in Ids |->
                   IF errorFound[t] /\ w \in Errors(otuple[t].set)
                   THEN "reported" ELSE outcome[w]]
  /\ Locals(t, "idle", NoTuple)
  /\ UNCHANGED <<driverVars, metric, store, taken, pe>>

----------------------------------------------------------------------------
\* process() of one thread.
Process(t) ==
  \/ Skip(t) \/ SetAsIs(t) \/ BuildDocument(t) \/ BuildFindQuery(t)
  \/ GetConnection(t) \/ Authenticate(t) \/ CheckFailed(t) \/ SetProfiling(t)
  \/ Send(t) \/ ReceiveReply(t) \/ ReplyLost(t) \/ GetLastError(t)
  \/ Count(t) \/ Finish(t)

Environment ==
  /\ pe = "running"
  /\ ServerStops \/ ServerStarts \/ \E k \in Threads : LinkLost(k)
  /\ UNCHANGED <<localVars, ledgerVars, taken, pe>>

\* The PE has ended, or no tuple is left.
Terminated ==
  /\ \/ pe # "running"
     \/ taken = MaxTuples /\ \A t \in Threads : pc[t] = "idle"
  /\ UNCHANGED vars

Next ==
  \/ \E t \in Threads : Receive(t) \/ Process(t) \/ ServerAnswers(t)
  \/ Environment
  \/ Terminated

Spec == Init /\ [][Next]_vars

\* A thread inside process() is never kept from running; the server, the
\* network and the source of tuples promise nothing.
FairSpec == Spec /\ \A t \in Threads : WF_vars(Process(t))

----------------------------------------------------------------------------
InProcess(t) == pe = "running" /\ pc[t] # "idle"

WritesForPort(i, p) ==
  Assignments[i].fn = "Write" /\ Assignments[i].guard \in {AnyPort, p}

\* The message process() reads from getLastError() is the outcome of the write
\* the same thread has just made, never that of another thread's write
\* (connPtr_ is thread specific, ThreadCommon_cpp.cgt:2).
ErrorAttribution ==
  \A t \in Threads : At(t, "count") =>
    \/ msg[t] = NoError /\ WriteId(t) \in store
    \/ msg[t] = WriteId(t) /\ WriteId(t) \notin store

\* Half way through a tuple, each write of its port up to the current one is
\* either counted, or pending in the error tuple that Finish will submit; the
\* writes of other ports and the ones to come were never issued. So nothing
\* is lost when process() returns (the loop over the attributes,
\* Insert_cpp.cgt:44-133).
TupleAccount ==
  \A t \in Threads : InProcess(t) =>
    \A i \in DOMAIN Assignments :
      LET w == <<cur[t].n, i>> IN
      /\ i < idx[t] /\ WritesForPort(i, cur[t].port) =>
           \/ outcome[w] = "counted"
           \/ outcome[w] = "pending" /\ errorFound[t] /\ w \in otuple[t].set
      /\ i > idx[t] \/ ~WritesForPort(i, cur[t].port) => outcome[w] = "none"

\* The error tuple exists whenever it is going to be submitted, and carries a
\* message only for an earlier write of this tuple that the server does not hold
\* (errorFound and otuplePtr, Insert_cpp.cgt:121-133).
ErrorTupleTrue ==
  \A t \in Threads : InProcess(t) =>
    /\ errorFound[t] => otuple[t].made
    /\ \A w \in Errors(otuple[t].set) :
         /\ w[1] = cur[t].n /\ w[2] < idx[t]
         /\ outcome[w] = "pending" /\ w \notin store

\* The metric is the number of writes confirmed to the operator, each counted
\* once, and the server holds all of them (nInsertsMetric_.incrementValue()).
MetricExact ==
  LET counted == {w \in Ids : outcome[w] = "counted"} IN
  metric = Cardinality(counted) /\ counted \subseteq store

\* A write is unsettled only while some thread of a running PE is processing
\* its tuple.
NoLimbo ==
  \A w \in Ids : outcome[w] = "pending" =>
    \E t \in Threads : InProcess(t) /\ cur[t].n = w[1]

\* With credentials configured no write reaches the server over a connection
\* that is not authenticated for the database of the write (the auth calls of
\* ThreadCommon_cpp.cgt:14-22).
WritesAuthenticated ==
  \A t \in Threads : pc[t] = "reply" /\ Conn(t).wire = "asked" =>
    Authorised(Conn(t), Current(t).db)

\* Every tuple received is finished, or the PE has ended (the loop terminates
\* and no call blocks for ever, given a timeout).
Returns ==
  \A t \in Threads : InProcess(t) ~> ~InProcess(t)

----------------------------------------------------------------------------
(***************************************************************************)
(* The inductive invariant behind these properties. Each part is what one  *)
(* step of process() relies on from the steps before it.                   *)
(***************************************************************************)
BeforeSend == {"query", "connect", "auth", "check", "profile", "send"}

AfterSend == {"reply", "gle", "count"}

\* A thread inside a write executes a write assignment of its port.
Place ==
  \A t \in Threads : pc[t] \in BeforeSend \union AfterSend =>
    idx[t] <= Len(Assignments) /\ WritesForPort(idx[t], cur[t].port)

\* No two threads process the same tuple, and no tuple is processed before it
\* is received.
Numbers ==
  /\ \A t \in Threads : pc[t] # "idle" =>
       cur[t].n \in 1..taken /\ cur[t].port \in Ports
  /\ \A t, u \in Threads :
       t # u /\ pc[t] # "idle" /\ pc[u] # "idle" => cur[t].n # cur[u].n
  /\ \A w \in Ids : w[1] > taken => outcome[w] = "none"

\* What the operator says of a write is what the server holds.
Held ==
  \A w \in Ids :
    /\ w \in store => outcome[w] \notin {"none", "reported"}
    /\ outcome[w] = "counted" => w \in store

\* m is the outcome of the write thread t is in.
Verdict(t, m) ==
  \/ m = NoError /\ WriteId(t) \in store
  \/ m = WriteId(t) /\ WriteId(t) \notin store

\* The write a thread is in, from the assignment to the metric: not issued,
\* with the server, answered, asked for, read.
InFlight ==
  \A t \in Threads : InProcess(t) =>
    /\ pc[t] \in BeforeSend \union {"assign"} /\ idx[t] <= Len(Assignments)
         => outcome[WriteId(t)] = "none"
    /\ pc[t] \in AfterSend => outcome[WriteId(t)] = "pending"
    /\ pc[t] \in {"reply", "gle"} => ~Conn(t).failed
    /\ pc[t] = "reply" /\ Conn(t).wire = "asked" => WriteId(t) \notin store
    /\ pc[t] = "reply" /\ Conn(t).wire = "answered"
         => Verdict(t, Conn(t).lastError)
    /\ pc[t] = "gle" => Verdict(t, Conn(t).lastError)
    /\ pc[t] = "count" => Verdict(t, msg[t])

IInv ==
  /\ TypeOK
  /\ Place
  /\ Numbers
  /\ Held
  /\ InFlight
  /\ TupleAccount
  /\ ErrorTupleTrue
  /\ NoLimbo

Contract == INSTANCE WriteContract
              WITH Writes <- Ids, held <- store, fate <- outcome

\* The operator keeps the contract of WriteContract.
ImplementsContract == Contract!Spec
=============================================================================
