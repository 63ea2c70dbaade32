----------------------------- MODULE MongoQuery -----------------------------
(***************************************************************************)
(* The Query operator: process() of Query_cpp.cgt, run by several threads  *)
(* of one processing element (PE).                                         *)
(*                                                                         *)
(* For each input tuple a thread fills its template tuple, queries, and    *)
(* goes through the cursor: each document is laid over a copy of the       *)
(* template, and the copy is submitted if that changed it. A window marker *)
(* ends the answer; without documents the template itself is submitted.    *)
(* The connection and the template belong to the thread and outlive        *)
(* process(). A submit is an interval: downstream operators run in it.     *)
(*                                                                         *)
(* phase, settled, delivered and found are history variables: what the     *)
(* output port and the server have seen of each answer. Bounds: MaxTuples, *)
(* MaxDocuments, MaxFaults.                                                *)
(***************************************************************************)
EXTENDS DriverConnection, Sequences

CONSTANTS
  Db,               \* the dbName parameter
  QueryPerTuple,    \* findQuery is an rstring with attributes, parsed per tuple
  ConversionFails,  \* an output attribute whose conversion may throw (xml)
  Profiling,        \* the profiling parameter is slow or all
  ExceptionEndsPE,  \* the runtime ends the PE on an exception of process()
  MaxTuples,        \* bound: tuples received
  MaxDocuments      \* bound: documents that answer one query

Tuples == 1..MaxTuples

ASSUME QueryAssumption ==
  /\ Db \in Dbs
  /\ QueryPerTuple \in BOOLEAN
  /\ ConversionFails \in BOOLEAN
  /\ Profiling \in BOOLEAN
  /\ ExceptionEndsPE \in BOOLEAN
  /\ MaxTuples \in Nat
  /\ MaxDocuments \in Nat
  /\ Requests = Tuples

VARIABLES
  pc,        \* where each thread is in process()
  cur,       \* the tuple it processes
  template,  \* otuplePtr_ of each thread: the tuple whose values it holds
  cursor,    \* the local cursor
  docFound,  \* the local docFound
  out,       \* what it submits
  metric,    \* nQueries
  taken,     \* tuples received
  pe,        \* "running", "aborted" by an exception, "segfault"
  phase, settled, delivered,  \* what the output port has seen of each answer
  found      \* documents the server has for each query

localVars == <<pc, cur, cursor, docFound, out>>
answerVars == <<phase, settled, delivered>>
vars == <<driverVars, localVars, template, metric, taken, pe, answerVars, found>>

Steps == {"idle", "build", "connect", "auth", "check", "profile", "query",
          "reply", "gle", "more", "getmore", "convert", "submit"}

\* A document of the result: it changes the copy of the template, holds the
\* values the copy has already, or has none of the fields; "err" is the
\* document { $err: .. } the server returns for an error.
Documents == {"fills", "matches", "misses", "err"}

\* The cursor: null, or the documents at hand and how many the server has left.
Cursor == [null : BOOLEAN, batch : Seq(Documents), rest : Nat]

NullCursor == [null |-> TRUE, batch |-> <<>>, rest |-> 0]

\* What is submitted: a tuple with the assignments of input tuple `input` and
\* the fields of the documents `docs`, the marker, or the template.
Output == [kind : {"none", "tuple", "marker", "template"},
           input : 0..MaxTuples, docs : SUBSET Nat]

NoOutput == [kind |-> "none", input |-> 0, docs |-> {}]

Stream == INSTANCE ResultStream WITH Queries <- Tuples

QueryTypeOK ==
  /\ pc \in [Threads -> Steps]
  /\ cur \in [Threads -> 0..MaxTuples]
  /\ template \in [Threads -> 0..MaxTuples]
  /\ cursor \in [Threads -> Cursor]
  /\ docFound \in [Threads -> BOOLEAN]
  /\ out \in [Threads -> Output]
  /\ metric \in Nat
  /\ taken \in 0..MaxTuples
  /\ pe \in {"running", "aborted", "segfault"}
  /\ found \in [Tuples -> Nat]
  /\ Stream!TypeOK

\* Every variable, of the connections and of the operator, has its type.
TypeOK == DriverTypeOK /\ QueryTypeOK

Init ==
  /\ DriverInit
  /\ pc = [t \in Threads |-> "idle"]
  /\ cur = [t \in Threads |-> 0]
  /\ template = [t \in Threads |-> 0]
  /\ cursor = [t \in Threads |-> NullCursor]
  /\ docFound = [t \in Threads |-> FALSE]
  /\ out = [t \in Threads |-> NoOutput]
  /\ metric = 0
  /\ taken = 0
  /\ pe = "running"
  /\ found = [n \in Tuples |-> 0]
  /\ Stream!Init

----------------------------------------------------------------------------
At(t, step) == pe = "running" /\ pc[t] = step

Goto(t, step) == pc' = [pc EXCEPT ![t] = step]

\* Variant (a plain static pointer): one template for all threads.
SharedTemplateFor(t) == CHOOSE k \in Threads : TRUE

\* thread_specific_ptr: the template a thread sees is its own.
TemplateFor(t) == t

Template(t) == template[TemplateFor(t)]

\* Variant (docFound as a member): it keeps the value of the tuple before.
LocalsKeepFound(t, step, n) ==
  /\ pc' = [pc EXCEPT ![t] = step]
  /\ cur' = [cur EXCEPT ![t] = n]
  /\ cursor' = [cursor EXCEPT ![t] = NullCursor]
  /\ out' = [out EXCEPT ![t] = NoOutput]
  /\ UNCHANGED docFound

\* The locals of process() at its start and, destroyed, after it.
Locals(t, step, n) ==
  /\ pc' = [pc EXCEPT ![t] = step]
  /\ cur' = [cur EXCEPT ![t] = n]
  /\ cursor' = [cursor EXCEPT ![t] = NullCursor]
  /\ docFound' = [docFound EXCEPT ![t] = FALSE]
  /\ out' = [out EXCEPT ![t] = NoOutput]

\* The answers that will never be finished when process() is left early.
BreakOff(ns) ==
  /\ phase' = [n \in Tuples |->
                 IF n \in ns /\ phase[n] \in {"none", "open"} THEN "broken"
                 ELSE phase[n]]
  /\ UNCHANGED <<settled, delivered>>

\* An exception leaves process(): nothing in it or above it catches.
Throw(t) ==
  /\ Locals(t, "idle", 0)
  /\ pe' = IF ExceptionEndsPE THEN "aborted" ELSE pe
  /\ BreakOff(IF ExceptionEndsPE THEN 1..taken ELSE {cur[t]})
  /\ UNCHANGED <<template, metric, taken, found>>

\* A null cursor is used: the operating system sends a signal.
Crash ==
  /\ pe' = "segfault"
  /\ BreakOff(1..taken)
  /\ UNCHANGED <<driverVars, localVars, template, metric, taken, found>>

\* A step that changes the place of the thread, and perhaps its connection.
Step(t, from, to) ==
  /\ At(t, from)
  /\ Goto(t, to)
  /\ UNCHANGED <<cur, cursor, docFound, out, template, metric, taken, pe,
                 answerVars, found>>

\* A driver call that throws, and with it process().
DriverThrows(t) ==
  /\ CallFails(Conn(t))
  /\ SetConn(t, AfterFailure(Conn(t)))
  /\ Throw(t)

----------------------------------------------------------------------------
\* The runtime calls process(): the template is made by the first call of the
\* thread, and all its assigned attributes are set.
Receive(t) ==
  /\ At(t, "idle")
  /\ taken < MaxTuples
  /\ Locals(t, "build", taken + 1)
  /\ template' = [template EXCEPT ![TemplateFor(t)] = taken + 1]
  /\ taken' = taken + 1
  /\ UNCHANGED <<driverVars, metric, pe, answerVars, found>>

\* findFields and findQuery: built by the constructor, or now.
BuildQuery(t) ==
  /\ UNCHANGED driverVars
  /\ \/ Step(t, "build", "connect")
     \/ At(t, "build") /\ QueryPerTuple /\ Throw(t)

\* catch(const DBException &e) in getDBClientConnection: log, or throw.
Caught(t, from) ==
  \/ AutoReconnect /\ Step(t, from, "check")
  \/ ~AutoReconnect /\ At(t, from) /\ Throw(t)

\* getDBClientConnection: the thread has its connection already, or makes it
\* and connects.
GetConnection(t) ==
  \/ /\ Conn(t).made
     /\ Step(t, "connect", "check")
     /\ UNCHANGED driverVars
  \/ /\ ~Conn(t).made
     /\ serverUp
     /\ SetConn(t, Connected(Conn(t)))
     /\ Step(t, "connect", IF AuthMode = "none" THEN "check" ELSE "auth")
     /\ UNCHANGED <<serverUp, faults>>
  \/ /\ ~Conn(t).made
     /\ ~serverUp
     /\ SetConn(t, ConnectFailed(Conn(t)))
     /\ Caught(t, "connect")
     /\ UNCHANGED <<serverUp, faults>>

\* connPtr->auth(...), only right after the connect that made the object.
Authenticate(t) ==
  /\ UNCHANGED <<serverUp, faults>>
  /\ \/ /\ ~CallFails(Conn(t))
        /\ "granted" \in AuthOutcomes
        /\ SetConn(t, Authenticated(Conn(t), Db, "granted"))
        /\ Step(t, "auth", "check")
     \/ /\ ~CallFails(Conn(t))
        /\ "rejected" \in AuthOutcomes
        /\ SetConn(t, Authenticated(Conn(t), Db, "rejected"))
        /\ Caught(t, "auth")
     \/ /\ CallFails(Conn(t))
        /\ SetConn(t, Broken(Authenticated(Conn(t), Db, "rejected")))
        /\ Caught(t, "auth")

\* if(connPtr->isFailed()): isStillConnected() changes nothing.
CheckFailed(t) ==
  /\ UNCHANGED driverVars
  /\ \/ /\ ~Conn(t).failed \/ AutoReconnect
        /\ Step(t, "check", IF Profiling THEN "profile" ELSE "query")
     \/ /\ At(t, "check")
        /\ Conn(t).failed
        /\ ~AutoReconnect
        /\ Throw(t)

\* setDbProfilingLevel(db, level)
SetProfiling(t) ==
  /\ UNCHANGED <<serverUp, faults>>
  /\ \/ \E c \in Ready(Conn(t)) :
          /\ c.link = "open"
          /\ SetConn(t, c)
          /\ Step(t, "profile", "query")
     \/ At(t, "profile") /\ DriverThrows(t)

----------------------------------------------------------------------------
\* connPtr->query(...): the request leaves, the driver throws or, on a link that
\* breaks under the call, it returns a null cursor.
SendQuery(t) ==
  /\ UNCHANGED <<serverUp, faults>>
  /\ \/ \E c \in Ready(Conn(t)) :
          /\ c.link = "open"
          /\ SetConn(t, [c EXCEPT !.wire = "asked"])
          /\ Step(t, "query", "reply")
     \/ At(t, "query") /\ DriverThrows(t)
     \/ /\ ~Conn(t).failed
        /\ Conn(t).link # "open"
        /\ SetConn(t, Broken(Conn(t)))
        /\ Step(t, "query", "gle")

\* What the server may answer with m documents to go: some of them, not none
\* unless there are none (the cursor is not tailable), or an error.
Answers(t, m) ==
  {[null |-> FALSE, batch |-> b, rest |-> m - Len(b)] :
     b \in {d \in UNION {[1..k -> Documents \ {"err"}] : k \in 0..m} :
              Authorised(Conn(t), Db) /\ (m > 0 => d # <<>>)}}
  \union {[null |-> FALSE, batch |-> <<"err">>, rest |-> 0]}

\* The server's answer reaches the thread that waits for it at `from`. Only an
\* error may be what getLastError() returns next.
AnswerArrives(t, from, to, ms) ==
  /\ At(t, from)
  /\ Conn(t).wire = "asked"
  /\ \E m \in ms : \E c \in Answers(t, m), e \in {NoError, cur[t]} :
       /\ c.batch # <<"err">> => e = NoError
       /\ cursor' = [cursor EXCEPT ![t] = c]
       /\ found' = [found EXCEPT ![cur[t]] = settled[cur[t]] + Len(c.batch) + c.rest]
       /\ SetConn(t, [Conn(t) EXCEPT !.wire = "quiet", !.lastError = e])
  /\ Goto(t, to)
  /\ UNCHANGED <<serverUp, faults, cur, docFound, out, template, metric, taken, pe,
                 answerVars>>

FirstBatch(t) == AnswerArrives(t, "reply", "gle", 0..MaxDocuments)

NextBatch(t) == AnswerArrives(t, "getmore", "more", {cursor[t].rest})

\* Variant (the timeout is not passed to the constructor).
LinkEnds(t) == Conn(t).link # "open"

\* A wait the link or, given a timeout, the clock ends.
WaitEnds(t) == Conn(t).link # "open" \/ HasTimeout

\* The query call fails under way: an exception or a null cursor.
QueryLost(t) ==
  /\ At(t, "reply")
  /\ WaitEnds(t)
  /\ SetConn(t, Broken(Conn(t)))
  /\ UNCHANGED <<serverUp, faults>>
  /\ Throw(t) \/ Step(t, "reply", "gle")

\* Variant (getLastError() is not asked).
NoLastError(t) ==
  /\ phase' = [phase EXCEPT ![cur[t]] = "open"]
  /\ At(t, "gle")
  /\ Goto(t, "more")
  /\ UNCHANGED <<driverVars, cur, cursor, docFound, out, template, metric, taken, pe,
                 settled, delivered, found>>

\* errorMsg = connPtr->getLastError(): an error ends process(), the empty string
\* counts the query.
GetLastError(t) ==
  /\ At(t, "gle")
  /\ UNCHANGED <<serverUp, faults>>
  /\ \/ \E c \in Ready(Conn(t)) :
          /\ c.link = "open"
          /\ SetConn(t, c)
          /\ \/ /\ c.lastError # NoError
                /\ Locals(t, "idle", 0)
                /\ phase' = [phase EXCEPT ![cur[t]] = "refused"]
                /\ UNCHANGED metric
             \/ /\ c.lastError = NoError
                /\ Goto(t, "more")
                /\ phase' = [phase EXCEPT ![cur[t]] = "open"]
                /\ metric' = metric + 1
                /\ UNCHANGED <<cur, cursor, docFound, out>>
          /\ UNCHANGED <<template, taken, pe, settled, delivered, found>>
     \/ DriverThrows(t)

----------------------------------------------------------------------------
\* cursor->more(): a document at hand, a batch to ask for, the end of the answer,
\* or a cursor that is not there, whose use is undefined: a signal, or the
\* driver's exception "connection died". The first call also sets docFound.
More(t) ==
  /\ At(t, "more")
  /\ \/ /\ cursor[t].null
        /\ Crash \/ (Throw(t) /\ UNCHANGED driverVars)
     \/ /\ cursor[t].batch # <<>>
        /\ docFound' = [docFound EXCEPT ![t] = TRUE]
        /\ Goto(t, "convert")
        /\ UNCHANGED <<driverVars, cur, cursor, out, template, metric, taken, pe,
                       answerVars, found>>
     \/ /\ cursor[t].batch = <<>>
        /\ cursor[t].rest > 0
        /\ ~CallFails(Conn(t))
        /\ SetConn(t, [Conn(t) EXCEPT !.wire = "asked"])
        /\ Step(t, "more", "getmore")
        /\ UNCHANGED <<serverUp, faults>>
     \/ /\ cursor[t].batch = <<>>
        /\ cursor[t].rest > 0
        /\ DriverThrows(t)
        /\ UNCHANGED <<serverUp, faults>>

\* The call for the next batch fails under way.
BatchLost(t) ==
  /\ At(t, "getmore")
  /\ WaitEnds(t)
  /\ SetConn(t, Broken(Conn(t)))
  /\ Throw(t)
  /\ UNCHANGED <<serverUp, faults>>

\* The number of the document at hand.
Position(t) == settled[cur[t]] + 1

\* Variant (the copy is made once, before the loop).
CopyOfLast(t) == [kind |-> "tuple", input |-> Template(t),
                  docs |-> out[t].docs \union {Position(t)}]

\* OPort0Type otuple(*otuplePtr), with the fields of the document at hand.
Copy(t) == [kind |-> "tuple", input |-> Template(t), docs |-> {Position(t)}]

\* Whether laying document d over the copy may change it, and may not: an error
\* document has fields only for an attribute that takes the whole document.
Changes(d) == CASE d = "fills" -> {TRUE}
                [] d = "err" -> BOOLEAN
                [] OTHER -> {FALSE}

\* The loop body: next document, copy, conversion, hash test, submit.
Convert(t) ==
  /\ At(t, "convert")
  /\ UNCHANGED driverVars
  /\ \/ /\ settled' = [settled EXCEPT ![cur[t]] = @ + 1]
        /\ cursor' = [cursor EXCEPT ![t].batch = Tail(@)]
        /\ \/ /\ TRUE \in Changes(Head(cursor[t].batch))
              /\ out' = [out EXCEPT ![t] = Copy(t)]
              /\ delivered' = [delivered EXCEPT ![cur[t]] = @ \union {Position(t)}]
              /\ Goto(t, "submit")
           \/ /\ FALSE \in Changes(Head(cursor[t].batch))
              /\ Goto(t, "more")
              /\ UNCHANGED <<out, delivered>>
        /\ UNCHANGED <<cur, docFound, template, metric, taken, pe, phase, found>>
     \/ /\ ConversionFails
        /\ Throw(t)

\* Variant (moreInCurrentBatch() instead of more()).
EndOfBatch(t) == cursor[t].batch = <<>>

\* more() is false: nothing at hand, nothing left at the server.
EndOfAnswer(t) == cursor[t].batch = <<>> /\ cursor[t].rest = 0

\* After the loop: the window marker, or the template itself.
End(t) ==
  /\ At(t, "more")
  /\ ~cursor[t].null
  /\ EndOfAnswer(t)
  /\ Goto(t, "submit")
  /\ \/ /\ docFound[t]
        /\ out' = [out EXCEPT ![t] = [NoOutput EXCEPT !.kind = "marker"]]
        /\ phase' = [phase EXCEPT ![cur[t]] = "window"]
     \/ /\ ~docFound[t]
        /\ out' = [out EXCEPT ![t] = [NoOutput EXCEPT !.kind = "template",
                                                      !.input = Template(t)]]
        /\ phase' = [phase EXCEPT ![cur[t]] = "lone"]
  /\ UNCHANGED <<driverVars, cur, cursor, docFound, template, metric, taken, pe,
                 settled, delivered, found>>

\* Variant (a return after the first tuple).
SubmittedOnce(t) ==
  /\ At(t, "submit")
  /\ Locals(t, "idle", 0)
  /\ UNCHANGED <<driverVars, template, metric, taken, pe, answerVars, found>>

\* submit() returns: back to the loop, or from process().
Submitted(t) ==
  /\ At(t, "submit")
  /\ \/ /\ out[t].kind = "tuple"
        /\ Goto(t, "more")
        /\ UNCHANGED <<cur, cursor, docFound, out>>
     \/ /\ out[t].kind # "tuple"
        /\ Locals(t, "idle", 0)
  /\ UNCHANGED <<driverVars, template, metric, taken, pe, answerVars, found>>

----------------------------------------------------------------------------
\* process() of one thread.
Process(t) ==
  \/ BuildQuery(t) \/ GetConnection(t) \/ Authenticate(t) \/ CheckFailed(t)
  \/ SetProfiling(t) \/ SendQuery(t) \/ QueryLost(t) \/ GetLastError(t)
  \/ More(t) \/ BatchLost(t) \/ Convert(t) \/ End(t) \/ Submitted(t)

Environment ==
  /\ pe = "running"
  /\ ServerStops \/ ServerStarts \/ \E k \in Threads : LinkLost(k)
  /\ UNCHANGED <<localVars, template, metric, taken, pe, answerVars, found>>

\* The PE has ended, or no tuple is left.
Terminated ==
  /\ \/ pe # "running"
     \/ taken = MaxTuples /\ \A t \in Threads : pc[t] = "idle"
  /\ UNCHANGED vars

Next ==
  \/ \E t \in Threads : Receive(t) \/ Process(t) \/ FirstBatch(t) \/ NextBatch(t)
  \/ Environment
  \/ Terminated

Spec == Init /\ [][Next]_vars

\* A thread inside process(), with what runs downstream of it, is never kept from
\* running; the server, the network and the source of tuples promise nothing.
FairSpec == Spec /\ \A t \in Threads : WF_vars(Process(t))

----------------------------------------------------------------------------
InProcess(t) == pe = "running" /\ pc[t] # "idle"

\* A submitted tuple has the assignments of the input tuple that is being
\* answered and the fields of one document of its answer, the last one read:
\* nothing of another document, of an earlier tuple or of another thread's
\* (otuplePtr_ and the copy of line 120, Query_cpp.cgt).
TupleTrue ==
  \A t \in Threads : At(t, "submit") =>
    /\ out[t].kind \in {"tuple", "template"} => out[t].input = cur[t]
    /\ out[t].kind = "tuple" => out[t].docs = {settled[cur[t]]}
    /\ out[t].kind # "tuple" => out[t].docs = {}

\* The end of an answer reaches the output port only after every document the
\* server has for it was gone through, across batches, and it is a window
\* marker exactly when there were any (Query_cpp.cgt:117-157).
WholeAnswer ==
  \A n \in Tuples :
    /\ phase[n] \in {"window", "lone"} => settled[n] = found[n]
    /\ phase[n] = "window" => found[n] > 0
    /\ phase[n] = "lone" => found[n] = 0

\* An answer is open only while some thread of a running PE is giving it.
NoneLeftOpen ==
  \A n \in Tuples : phase[n] = "open" =>
    \E t \in Threads : InProcess(t) /\ cur[t] = n

\* The cursor process() reads is there: query() returns "0 if error (connection
\* failure)", dbclientinterface.h:1494 (used at Query_cpp.cgt:117).
CursorIsThere == \A t \in Threads : At(t, "more") => ~cursor[t].null

\* Every tuple received is answered, refused or given up, or the PE has ended
\* (the loop over the cursor terminates and, given a timeout, no call blocks).
QueryReturns == \A t \in Threads : InProcess(t) ~> ~InProcess(t)

\* The operator keeps the promise of ResultStream on its output port.
ImplementsResultStream == Stream!Spec

----------------------------------------------------------------------------
(***************************************************************************)
(* The inductive invariant behind these properties.                        *)
(***************************************************************************)
Asking == {"build", "connect", "auth", "check", "profile", "query", "reply"}

Reading == {"more", "getmore", "convert"}

\* No two threads answer the same tuple, and none before it is received.
Numbers ==
  /\ \A t \in Threads : pc[t] # "idle" => cur[t] \in 1..taken
  /\ \A t, u \in Threads :
       t # u /\ pc[t] # "idle" /\ pc[u] # "idle" => cur[t] # cur[u]
  /\ \A n \in Tuples : n > taken =>
       phase[n] = "none" /\ settled[n] = 0 /\ found[n] = 0

\* An answer that has not begun has nothing; the rest of an answer that has not
\* ended is at hand or still with the server; docFound says that it has begun.
Reader ==
  \A t \in Threads : InProcess(t) =>
    /\ Template(t) = cur[t]
    /\ pc[t] \in Asking \union {"gle"} =>
         /\ phase[cur[t]] = "none"
         /\ settled[cur[t]] = 0
         /\ ~docFound[t]
    /\ pc[t] \in Asking => cursor[t] = NullCursor
    /\ pc[t] \in Reading => phase[cur[t]] = "open"
    /\ pc[t] = "submit" =>
         phase[cur[t]] = CASE out[t].kind = "tuple" -> "open"
                           [] out[t].kind = "marker" -> "window"
                           [] out[t].kind = "template" -> "lone"
                           [] OTHER -> "none"
    /\ pc[t] \in {"more", "getmore"} => (docFound[t] <=> settled[cur[t]] > 0)
    /\ pc[t] = "convert" => docFound[t] /\ cursor[t].batch # <<>>
    /\ pc[t] = "getmore" => cursor[t].batch = <<>>
    /\ pc[t] = "submit" /\ out[t].kind = "tuple" =>
         docFound[t] /\ settled[cur[t]] > 0
    /\ settled[cur[t]] + Len(cursor[t].batch) + cursor[t].rest = found[cur[t]]

IInv ==
  /\ TypeOK
  /\ Numbers
  /\ Reader
  /\ TupleTrue
  /\ WholeAnswer
  /\ NoneLeftOpen
=============================================================================
