--------------------------- MODULE MongoQueryProofs ---------------------------
(***************************************************************************)
(* Proofs about MongoQuery: the inductive invariant IInv, from it what the *)
(* output port may see, and that the operator implements ResultStream, for *)
(* any number of threads, tuples and documents and any parameters.         *)
(***************************************************************************)
EXTENDS MongoQuery, DriverConnectionProofs, SequenceTheorems, TLAPS

USE DriverAssumption, QueryAssumption

----------------------------------------------------------------------------
(***************************************************************************)
(* What the server answers.                                                *)
(***************************************************************************)

\* An answer with m documents to go is a cursor that is there.
LEMMA AnswerTypes ==
  ASSUME NEW t \in Threads, NEW m \in Nat, NEW c \in Answers(t, m)
  PROVE  c \in Cursor /\ ~c.null
<1>1. CASE c = [null |-> FALSE, batch |-> <<"err">>, rest |-> 0]
  <2>1. <<"err">> \in Seq(Documents)
    BY DEF Documents
  <2> QED
    BY <1>1, <2>1 DEF Cursor
<1>2. CASE \E b \in UNION {[1..k -> Documents \ {"err"}] : k \in 0..m} :
             c = [null |-> FALSE, batch |-> b, rest |-> m - Len(b)]
  <2>1. PICK b \in UNION {[1..k -> Documents \ {"err"}] : k \in 0..m} :
               c = [null |-> FALSE, batch |-> b, rest |-> m - Len(b)]
    BY <1>2
  <2>2. PICK k \in 0..m : b \in [1..k -> Documents \ {"err"}]
    BY <2>1
  <2>3. k \in Nat /\ b \in [1..k -> Documents]
    BY <2>2
  <2>4. b \in Seq(Documents)
    BY <2>3, SeqDef
  <2>5. Len(b) \in Nat /\ 1..Len(b) = 1..k
    BY <2>3, <2>4, LenProperties
  <2>6. Len(b) = k
    BY <2>3, <2>5
  <2>7. m - Len(b) \in Nat
    BY <2>2, <2>6
  <2> QED
    BY <2>1, <2>4, <2>7 DEF Cursor
<1> QED
  BY <1>1, <1>2 DEF Answers

\* The length of the documents at hand, and what next() takes from them.
LEMMA BatchFacts ==
  ASSUME TypeOK, NEW t \in Threads
  PROVE  /\ cursor[t] \in Cursor
         /\ Len(cursor[t].batch) \in Nat /\ cursor[t].rest \in Nat
         /\ cursor[t].batch = <<>> => Len(cursor[t].batch) = 0
         /\ cursor[t].batch # <<>> =>
              /\ Tail(cursor[t].batch) \in Seq(Documents)
              /\ Len(Tail(cursor[t].batch)) = Len(cursor[t].batch) - 1
<1>1. cursor[t] \in Cursor
  BY DEF TypeOK, QueryTypeOK
<1>2. cursor[t].batch \in Seq(Documents) /\ cursor[t].rest \in Nat
  BY <1>1 DEF Cursor
<1> QED
  BY <1>1, <1>2, LenProperties, EmptySeq, HeadTailProperties

----------------------------------------------------------------------------
(***************************************************************************)
(* What a step of one thread leaves alone, and why that is enough.         *)
(***************************************************************************)

\* The locals and the template of the other threads, and the answers to the
\* tuples thread t is not answering.
OthersKept(t) ==
  /\ \A u \in Threads \ {t} :
       /\ pc'[u] = pc[u] /\ cur'[u] = cur[u] /\ cursor'[u] = cursor[u]
       /\ docFound'[u] = docFound[u] /\ out'[u] = out[u]
       /\ template'[u] = template[u]
  /\ \A n \in Tuples : n # cur[t] =>
       phase'[n] = phase[n] /\ settled'[n] = settled[n] /\ found'[n] = found[n]

\* A step of thread t inside process() keeps the invariant if it keeps t's own
\* part of it.
LEMMA ThreadStep ==
  ASSUME IInv, TypeOK', NEW t \in Threads, InProcess(t),
         OthersKept(t),
         UNCHANGED <<pe, taken>>,
         pc'[t] = "idle" \/ cur'[t] = cur[t],
         Reader!(t)', TupleTrue!(t)',
         \A n \in Tuples : n = cur[t] => WholeAnswer!(n)',
         phase'[cur[t]] = "open" => pc'[t] # "idle"
  PROVE  IInv'
<1> USE DEF IInv, OthersKept
<1>1. cur[t] \in 1..taken /\ taken \in Nat /\ cur[t] \in Tuples
  BY DEF Numbers, InProcess, TypeOK, QueryTypeOK, Tuples
<1>2. \A u \in Threads \ {t} : pc[u] # "idle" => cur[u] \in Tuples /\ cur[u] # cur[t]
  BY DEF Numbers, InProcess, TypeOK, QueryTypeOK, Tuples
<1>3. Numbers'
  <2>1. \A u \in Threads : pc'[u] # "idle" =>
          pc[u] # "idle" /\ cur'[u] = cur[u]
    BY DEF InProcess
  <2>2. \A n \in Tuples : n > taken => n # cur[t]
    BY <1>1 DEF Tuples
  <2> QED
    BY <2>1, <2>2 DEF Numbers
<1>4. Reader'
  <2> SUFFICES ASSUME NEW u \in Threads \ {t}, InProcess(u)'
               PROVE  Reader!(u)'
    BY DEF Reader
  <2>1. InProcess(u) /\ Reader!(u)
    BY DEF InProcess, Reader
  <2>2. /\ phase'[cur[u]] = phase[cur[u]]
        /\ settled'[cur[u]] = settled[cur[u]]
        /\ found'[cur[u]] = found[cur[u]]
    BY <1>2, <2>1 DEF InProcess
  <2> QED
    BY <2>1, <2>2 DEF Template, TemplateFor, InProcess
<1>5. TupleTrue'
  <2> SUFFICES ASSUME NEW u \in Threads \ {t}, At(u, "submit")'
               PROVE  TupleTrue!(u)'
    BY DEF TupleTrue
  <2>1. At(u, "submit") /\ TupleTrue!(u) /\ pc[u] # "idle"
    BY DEF At, TupleTrue
  <2> QED
    BY <1>2, <2>1
<1>6. WholeAnswer'
  BY DEF WholeAnswer
<1>7. NoneLeftOpen'
  <2> SUFFICES ASSUME NEW n \in Tuples, phase'[n] = "open"
               PROVE  \E u \in Threads : InProcess(u)' /\ cur'[u] = n
    BY DEF NoneLeftOpen
  <2>1. CASE n = cur[t]
    BY <2>1 DEF InProcess
  <2>2. CASE n # cur[t]
    <3>1. PICK u \in Threads : InProcess(u) /\ cur[u] = n
      BY <2>2 DEF NoneLeftOpen
    <3> QED
      BY <2>2, <3>1 DEF InProcess
  <2> QED
    BY <2>1, <2>2
<1> QED
  BY <1>3, <1>4, <1>5, <1>6, <1>7

\* A step that changes only the place of the thread and the connections: ahead,
\* towards the request and the answer, or to ask for the next batch.
LEMMA StepAhead ==
  ASSUME IInv, DriverTypeOK', NEW t \in Threads, NEW from, NEW to,
         Step(t, from, to),
         \/ from \in Asking /\ to \in Asking \union {"gle"}
         \/ from = "more" /\ to = "getmore" /\ cursor[t].batch = <<>>
  PROVE  IInv'
<1> USE DEF Step, At, Goto, answerVars
<1>1. from \in Steps /\ to \in Steps /\ to \notin {"idle", "submit"} /\ from # "idle"
  BY DEF Asking, Steps
<1>2. /\ InProcess(t) /\ InProcess(t)' /\ pc'[t] = to
      /\ \A u \in Threads \ {t} : pc'[u] = pc[u]
  BY <1>1 DEF InProcess, IInv, TypeOK, QueryTypeOK
<1>3. TypeOK'
  BY <1>1 DEF IInv, TypeOK, QueryTypeOK, Stream!TypeOK
<1>4. OthersKept(t)
  BY <1>2 DEF OthersKept
<1>5. Reader!(t)'
  <2>1. Reader!(t)
    BY DEF IInv, Reader
  <2> QED
    BY <1>1, <1>2, <2>1 DEF Template, TemplateFor, Asking, Reading
<1>6. TupleTrue!(t)'
  BY <1>1, <1>2
<1>7. \A n \in Tuples : WholeAnswer!(n)'
  BY DEF IInv, WholeAnswer
<1> QED
  BY <1>1, <1>2, <1>3, <1>4, <1>5, <1>6, <1>7, ThreadStep

\* A tuple number is of a tuple received, or of one that is not.
LEMMA Received ==
  ASSUME TypeOK, NEW n \in Tuples
  PROVE  /\ n \in 1..taken <=> ~(n > taken)
         /\ taken \in Nat
<1>1. n \in Nat /\ n >= 1 /\ taken \in Nat
  BY DEF Tuples, TypeOK, QueryTypeOK
<1> QED
  BY <1>1

\* What leaving process() early does to the answers.
LEMMA BreakOffFacts ==
  ASSUME TypeOK, NEW ns, BreakOff(ns)
  PROVE  /\ phase' \in [Tuples -> Stream!Phases]
         /\ settled' = settled /\ delivered' = delivered
         /\ \A n \in Tuples :
              /\ phase'[n] = phase[n] \/ (n \in ns /\ phase'[n] = "broken")
              /\ n \in ns => phase'[n] # "open"
BY DEF BreakOff, TypeOK, QueryTypeOK, Stream!TypeOK, Stream!Phases

\* The locals after process() are those of its start.
LEMMA LocalsFacts ==
  ASSUME TypeOK, NEW t \in Threads, NEW step \in Steps, NEW n \in 0..MaxTuples,
         Locals(t, step, n)
  PROVE  /\ pc' \in [Threads -> Steps] /\ cur' \in [Threads -> 0..MaxTuples]
         /\ cursor' \in [Threads -> Cursor] /\ docFound' \in [Threads -> BOOLEAN]
         /\ out' \in [Threads -> Output]
         /\ pc'[t] = step /\ cur'[t] = n /\ cursor'[t] = NullCursor
         /\ docFound'[t] = FALSE
         /\ \A u \in Threads \ {t} :
              /\ pc'[u] = pc[u] /\ cur'[u] = cur[u] /\ cursor'[u] = cursor[u]
              /\ docFound'[u] = docFound[u] /\ out'[u] = out[u]
<1>1. NullCursor \in Cursor
  BY EmptySeq DEF NullCursor, Cursor
<1>2. NoOutput \in Output
  BY DEF NoOutput, Output
<1> QED
  BY <1>1, <1>2 DEF Locals, TypeOK, QueryTypeOK

\* An exception leaves no answer of the thread open, and none at all if it ends
\* the PE.
LEMMA ThrowStep ==
  ASSUME IInv, DriverTypeOK', NEW t \in Threads, InProcess(t), Throw(t)
  PROVE  IInv'
<1> USE DEF IInv, Throw
<1>1. "idle" \in Steps /\ 0 \in 0..MaxTuples
  BY DEF Steps
<1>2. TypeOK'
  <2>1. /\ pc' \in [Threads -> Steps] /\ cur' \in [Threads -> 0..MaxTuples]
        /\ cursor' \in [Threads -> Cursor] /\ docFound' \in [Threads -> BOOLEAN]
        /\ out' \in [Threads -> Output]
    BY <1>1, LocalsFacts
  <2>2. /\ phase' \in [Tuples -> Stream!Phases]
        /\ settled' = settled /\ delivered' = delivered
    BY BreakOffFacts
  <2>3. pe' \in {"running", "aborted", "segfault"}
    BY DEF TypeOK, QueryTypeOK
  <2> QED
    BY <2>1, <2>2, <2>3 DEF TypeOK, QueryTypeOK, Stream!TypeOK
<1>3. /\ pc'[t] = "idle"
      /\ \A u \in Threads \ {t} :
           /\ pc'[u] = pc[u] /\ cur'[u] = cur[u] /\ cursor'[u] = cursor[u]
           /\ docFound'[u] = docFound[u] /\ out'[u] = out[u]
  BY <1>1, LocalsFacts
<1>4. CASE ExceptionEndsPE
  <2>1. pe' = "aborted" /\ BreakOff(1..taken)
    BY <1>4
  <2>2. /\ settled' = settled
        /\ \A n \in Tuples :
             /\ phase'[n] = phase[n] \/ (n \in 1..taken /\ phase'[n] = "broken")
             /\ n \in 1..taken => phase'[n] # "open"
    BY <2>1, BreakOffFacts
  <2>3. Numbers'
    BY <1>3, <2>2, Received DEF Numbers
  <2>4. Reader' /\ TupleTrue'
    BY <2>1 DEF Reader, TupleTrue, InProcess, At
  <2>5. WholeAnswer'
    BY <2>2 DEF WholeAnswer
  <2>6. NoneLeftOpen'
    BY <2>2, Received DEF NoneLeftOpen, Numbers
  <2> QED
    BY <1>2, <2>3, <2>4, <2>5, <2>6
<1>5. CASE ~ExceptionEndsPE
  <2>1. pe' = pe /\ BreakOff({cur[t]})
    BY <1>5
  <2>2. /\ settled' = settled
        /\ \A n \in Tuples :
             /\ phase'[n] = phase[n] \/ (n = cur[t] /\ phase'[n] = "broken")
             /\ n = cur[t] => phase'[n] # "open"
    BY <2>1, BreakOffFacts
  <2>3. OthersKept(t)
    BY <1>3, <2>2 DEF OthersKept
  <2>4. Reader!(t)' /\ TupleTrue!(t)'
    BY <1>3 DEF InProcess, At
  <2>5. \A n \in Tuples : WholeAnswer!(n)'
    BY <2>2 DEF WholeAnswer
  <2>6. phase'[cur[t]] # "open"
    BY <2>2 DEF Numbers, InProcess, Tuples, TypeOK, QueryTypeOK
  <2> QED
    BY <1>2, <1>3, <2>1, <2>3, <2>4, <2>5, <2>6, ThreadStep
<1> QED
  BY <1>4, <1>5

\* A signal ends the PE and breaks every answer off.
LEMMA CrashStep ==
  ASSUME IInv, Crash
  PROVE  IInv'
<1> USE DEF IInv, Crash, driverVars, localVars
<1>1. /\ settled' = settled /\ phase' \in [Tuples -> Stream!Phases]
      /\ delivered' = delivered
      /\ \A n \in Tuples :
           /\ phase'[n] = phase[n] \/ (n \in 1..taken /\ phase'[n] = "broken")
           /\ n \in 1..taken => phase'[n] # "open"
  BY BreakOffFacts
<1>2. TypeOK'
  BY <1>1 DEF TypeOK, DriverTypeOK, QueryTypeOK, Stream!TypeOK
<1>3. Numbers'
  BY <1>1, Received DEF Numbers
<1>4. Reader' /\ TupleTrue'
  BY DEF Reader, TupleTrue, InProcess, At
<1>5. WholeAnswer' /\ NoneLeftOpen'
  BY <1>1, Received DEF WholeAnswer, NoneLeftOpen, Numbers
<1> QED
  BY <1>2, <1>3, <1>4, <1>5

\* A driver call that throws leaves the connection failed.
LEMMA DriverThrowsStep ==
  ASSUME IInv, NEW t \in Threads, InProcess(t), DriverThrows(t),
         UNCHANGED <<serverUp, faults>>
  PROVE  IInv'
<1>1. DriverTypeOK'
  <2>1. conn[t] \in Connection
    BY DEF IInv, TypeOK, DriverTypeOK
  <2>2. AfterFailure(conn[t]) \in Connection
    BY <2>1 DEF AfterFailure, Broken, Connection
  <2> QED
    BY <2>2 DEF DriverThrows, SetConn, Conn, ConnFor, IInv, TypeOK, DriverTypeOK
<1> QED
  BY <1>1, ThrowStep DEF DriverThrows

\* A connection set to a connection keeps the driver's types.
LEMMA SetConnTypes ==
  ASSUME DriverTypeOK, NEW t \in Threads, NEW c \in Connection,
         conn' = [conn EXCEPT ![t] = c], UNCHANGED <<serverUp, faults>>
  PROVE  DriverTypeOK'
BY DEF DriverTypeOK

----------------------------------------------------------------------------
(***************************************************************************)
(* The actions, in the order of process().                                 *)
(***************************************************************************)

\* A thread at a step of a running PE other than "idle" is in process().
LEMMA AtInProcess ==
  ASSUME NEW t \in Threads, NEW step \in Steps \ {"idle"}, At(t, step)
  PROVE  InProcess(t)
BY DEF At, InProcess

LEMMA ReceiveStep ==
  ASSUME IInv, NEW t \in Threads, Receive(t)
  PROVE  IInv'
<1> USE DEF IInv
<1>1. /\ taken \in Nat /\ taken < MaxTuples /\ taken' = taken + 1
      /\ taken + 1 \in Tuples /\ taken + 1 \in 0..MaxTuples /\ pe' = pe
  BY DEF Receive, TypeOK, QueryTypeOK, Tuples
<1>2. "build" \in Steps /\ Locals(t, "build", taken + 1)
  BY DEF Steps, Receive
<1>3. /\ pc'[t] = "build" /\ cur'[t] = taken + 1 /\ cursor'[t] = NullCursor
      /\ docFound'[t] = FALSE /\ template'[t] = taken + 1
      /\ \A u \in Threads \ {t} :
           /\ pc'[u] = pc[u] /\ cur'[u] = cur[u] /\ cursor'[u] = cursor[u]
           /\ docFound'[u] = docFound[u] /\ out'[u] = out[u]
           /\ template'[u] = template[u]
  <2>1. /\ template'[t] = taken + 1
        /\ \A u \in Threads \ {t} : template'[u] = template[u]
    BY DEF Receive, TemplateFor, TypeOK, QueryTypeOK
  <2>2. TypeOK /\ "build" \in Steps /\ taken + 1 \in 0..MaxTuples /\ Locals(t, "build", taken + 1)
    BY <1>1, <1>2
  <2>3. /\ pc'[t] = "build" /\ cur'[t] = taken + 1 /\ cursor'[t] = NullCursor /\ docFound'[t] = FALSE
        /\ \A u \in Threads \ {t} :
             /\ pc'[u] = pc[u] /\ cur'[u] = cur[u] /\ cursor'[u] = cursor[u]
             /\ docFound'[u] = docFound[u] /\ out'[u] = out[u]
    <3> DEFINE n == taken + 1
               step == "build"
    <3>1. TypeOK /\ step \in Steps /\ n \in 0..MaxTuples /\ Locals(t, step, n)
      BY <2>2
    <3> HIDE DEF IInv, n, step
    <3>2. /\ pc' \in [Threads -> Steps] /\ cur' \in [Threads -> 0..MaxTuples]
          /\ cursor' \in [Threads -> Cursor] /\ docFound' \in [Threads -> BOOLEAN]
          /\ out' \in [Threads -> Output]
          /\ pc'[t] = step /\ cur'[t] = n /\ cursor'[t] = NullCursor
          /\ docFound'[t] = FALSE
          /\ \A u \in Threads \ {t} :
               /\ pc'[u] = pc[u] /\ cur'[u] = cur[u] /\ cursor'[u] = cursor[u]
               /\ docFound'[u] = docFound[u] /\ out'[u] = out[u]
      BY <3>1, LocalsFacts
    <3> QED
      BY <3>2 DEF n, step
  <2> QED
    BY <2>1, <2>3
<1>4. UNCHANGED <<answerVars, found>> /\ pe = "running" /\ pc[t] = "idle"
  BY DEF Receive, At
<1>5. TypeOK'
  <2>1. DriverTypeOK'
    BY DEF Receive, driverVars, TypeOK, DriverTypeOK
  <2>2. template' \in [Threads -> 0..MaxTuples]
    BY <1>1 DEF Receive, TemplateFor, TypeOK, QueryTypeOK
  <2>3. /\ pc' \in [Threads -> Steps] /\ cur' \in [Threads -> 0..MaxTuples]
        /\ cursor' \in [Threads -> Cursor] /\ docFound' \in [Threads -> BOOLEAN]
        /\ out' \in [Threads -> Output]
    BY <1>1, <1>2, LocalsFacts
  <2> QED
    BY <1>1, <2>1, <2>2, <2>3 DEF Receive, answerVars, TypeOK, QueryTypeOK, Stream!TypeOK
<1>6. /\ phase[taken + 1] = "none" /\ settled[taken + 1] = 0 /\ found[taken + 1] = 0
  BY <1>1 DEF Numbers
<1>7. \A u \in Threads \ {t} : pc'[u] # "idle" => cur'[u] \in 1..taken
  BY <1>3 DEF Numbers
<1>8. Numbers'
  <2>1. \A u \in Threads : pc'[u] # "idle" => cur'[u] \in 1..taken'
    BY <1>1, <1>3, <1>7
  <2>2. \A u, v \in Threads :
          u # v /\ pc'[u] # "idle" /\ pc'[v] # "idle" => cur'[u] # cur'[v]
    BY <1>1, <1>3, <1>7 DEF Numbers
  <2>3. \A n \in Tuples : n > taken' => n > taken
    BY <1>1 DEF Tuples
  <2> QED
    BY <1>4, <2>1, <2>2, <2>3 DEF Numbers, answerVars
<1>9. Reader'
  <2>1. Reader!(t)'
    BY <1>3, <1>4, <1>6, EmptySeq
       DEF answerVars, Template, TemplateFor, Asking, Reading, NullCursor
  <2>2. ASSUME NEW u \in Threads \ {t}, InProcess(u)'
        PROVE  Reader!(u)'
    <3>1. InProcess(u) /\ Reader!(u)
      BY <1>3, <1>4, <2>2 DEF InProcess, Reader
    <3> QED
      BY <1>3, <1>4, <3>1 DEF answerVars, Template, TemplateFor
  <2> QED
    BY <2>1, <2>2 DEF Reader
<1>10. TupleTrue'
  <2> SUFFICES ASSUME NEW u \in Threads, At(u, "submit")'
               PROVE  TupleTrue!(u)'
    BY DEF TupleTrue
  <2>1. u # t /\ At(u, "submit") /\ TupleTrue!(u)
    BY <1>3, <1>4 DEF At, TupleTrue
  <2> QED
    BY <1>3, <1>4, <2>1 DEF answerVars
<1>11. WholeAnswer'
  BY <1>4 DEF WholeAnswer, answerVars
<1>12. NoneLeftOpen'
  <2> SUFFICES ASSUME NEW n \in Tuples, phase'[n] = "open"
               PROVE  \E u \in Threads : InProcess(u)' /\ cur'[u] = n
    BY DEF NoneLeftOpen
  <2>1. PICK u \in Threads : InProcess(u) /\ cur[u] = n
    BY <1>4 DEF NoneLeftOpen, answerVars
  <2>2. u # t
    BY <1>4, <2>1 DEF InProcess
  <2> QED
    BY <1>1, <1>3, <2>1, <2>2 DEF InProcess
<1> QED
  BY <1>5, <1>8, <1>9, <1>10, <1>11, <1>12

LEMMA BuildQueryStep ==
  ASSUME IInv, NEW t \in Threads, BuildQuery(t)
  PROVE  IInv'
<1>1. DriverTypeOK'
  BY DEF BuildQuery, driverVars, IInv, TypeOK, DriverTypeOK
<1>2. CASE Step(t, "build", "connect")
  BY <1>1, <1>2, StepAhead DEF Asking
<1>3. CASE At(t, "build") /\ Throw(t)
  BY <1>1, <1>3, ThrowStep, AtInProcess DEF Steps
<1> QED
  BY <1>2, <1>3 DEF BuildQuery

LEMMA CaughtStep ==
  ASSUME IInv, DriverTypeOK', NEW t \in Threads, NEW from \in {"connect", "auth"},
         Caught(t, from)
  PROVE  IInv'
<1>1. CASE Step(t, from, "check")
  BY <1>1, StepAhead DEF Asking
<1>2. CASE At(t, from) /\ Throw(t)
  BY <1>2, ThrowStep, AtInProcess DEF Steps
<1> QED
  BY <1>1, <1>2 DEF Caught

LEMMA GetConnectionStep ==
  ASSUME IInv, NEW t \in Threads, GetConnection(t)
  PROVE  IInv'
<1> USE DEF SetConn, Conn, ConnFor
<1>1. conn[t] \in Connection /\ DriverTypeOK
  BY DEF IInv, TypeOK, DriverTypeOK
<1>2. Connected(conn[t]) \in Connection /\ ConnectFailed(conn[t]) \in Connection
  BY <1>1 DEF Connected, ConnectFailed, Connection
<1>3. CASE Step(t, "connect", "check") /\ UNCHANGED driverVars
  <2>1. DriverTypeOK'
    BY <1>1, <1>3 DEF driverVars, DriverTypeOK
  <2> QED
    BY <1>3, <2>1, StepAhead DEF Asking
<1>4. CASE /\ SetConn(t, Connected(Conn(t)))
           /\ Step(t, "connect", IF AuthMode = "none" THEN "check" ELSE "auth")
           /\ UNCHANGED <<serverUp, faults>>
  <2>1. DriverTypeOK'
    BY <1>1, <1>2, <1>4, SetConnTypes
  <2> QED
    BY <1>4, <2>1, StepAhead DEF Asking
<1>5. CASE /\ SetConn(t, ConnectFailed(Conn(t)))
           /\ Caught(t, "connect")
           /\ UNCHANGED <<serverUp, faults>>
  <2>1. DriverTypeOK'
    BY <1>1, <1>2, <1>5, SetConnTypes
  <2> QED
    BY <1>5, <2>1, CaughtStep
<1> QED
  BY <1>3, <1>4, <1>5 DEF GetConnection

LEMMA AuthenticateStep ==
  ASSUME IInv, NEW t \in Threads, Authenticate(t)
  PROVE  IInv'
<1> USE DEF SetConn, Conn, ConnFor, Authenticate
<1>1. conn[t] \in Connection /\ DriverTypeOK
  BY DEF IInv, TypeOK, DriverTypeOK
<1>2. \A a : Authenticated(conn[t], Db, a) \in Connection
  BY <1>1, ConnectionTypes
<1>3. \A a : Broken(Authenticated(conn[t], Db, a)) \in Connection
  BY <1>2, ConnectionTypes
<1>4. DriverTypeOK'
  BY <1>1, <1>2, <1>3, SetConnTypes
<1> QED
  BY <1>4, CaughtStep, StepAhead DEF Asking

LEMMA CheckFailedStep ==
  ASSUME IInv, NEW t \in Threads, CheckFailed(t)
  PROVE  IInv'
<1>1. DriverTypeOK'
  BY DEF CheckFailed, driverVars, IInv, TypeOK, DriverTypeOK
<1>2. CASE Step(t, "check", IF Profiling THEN "profile" ELSE "query")
  BY <1>1, <1>2, StepAhead DEF Asking
<1>3. CASE At(t, "check") /\ Throw(t)
  BY <1>1, <1>3, ThrowStep, AtInProcess DEF Steps
<1> QED
  BY <1>2, <1>3 DEF CheckFailed

LEMMA SetProfilingStep ==
  ASSUME IInv, NEW t \in Threads, SetProfiling(t)
  PROVE  IInv'
<1> USE DEF SetConn, Conn, ConnFor
<1>1. DriverTypeOK /\ Ready(conn[t]) \subseteq Connection
  BY ConnectionTypes DEF IInv, TypeOK, DriverTypeOK
<1>2. CASE \E c \in Ready(Conn(t)) : SetConn(t, c) /\ Step(t, "profile", "query")
  <2>1. DriverTypeOK'
    BY <1>1, <1>2, SetConnTypes DEF SetProfiling
  <2> QED
    BY <1>2, <2>1, StepAhead DEF Asking
<1>3. CASE At(t, "profile") /\ DriverThrows(t)
  BY <1>3, DriverThrowsStep, AtInProcess DEF SetProfiling, Steps
<1> QED
  BY <1>2, <1>3 DEF SetProfiling

LEMMA SendQueryStep ==
  ASSUME IInv, NEW t \in Threads, SendQuery(t)
  PROVE  IInv'
<1> USE DEF SetConn, Conn, ConnFor
<1>1. DriverTypeOK /\ conn[t] \in Connection /\ Ready(conn[t]) \subseteq Connection
  BY ConnectionTypes DEF IInv, TypeOK, DriverTypeOK
<1>2. CASE \E c \in Ready(Conn(t)) :
             SetConn(t, [c EXCEPT !.wire = "asked"]) /\ Step(t, "query", "reply")
  <2>1. \A c \in Connection : [c EXCEPT !.wire = "asked"] \in Connection
    BY DEF Connection
  <2>2. DriverTypeOK'
    BY <1>1, <1>2, <2>1, SetConnTypes DEF SendQuery
  <2> QED
    BY <1>2, <2>2, StepAhead DEF Asking
<1>3. CASE At(t, "query") /\ DriverThrows(t)
  BY <1>3, DriverThrowsStep, AtInProcess DEF SendQuery, Steps
<1>4. CASE SetConn(t, Broken(Conn(t))) /\ Step(t, "query", "gle")
  <2>1. Broken(conn[t]) \in Connection
    BY <1>1 DEF Broken, Connection
  <2>2. DriverTypeOK'
    BY <1>1, <1>4, <2>1, SetConnTypes DEF SendQuery
  <2> QED
    BY <1>4, <2>2, StepAhead DEF Asking
<1> QED
  BY <1>2, <1>3, <1>4 DEF SendQuery

\* The number of the tuple a thread is in process() with.
LEMMA InTuple ==
  ASSUME IInv, NEW t \in Threads, InProcess(t)
  PROVE  /\ cur[t] \in Tuples /\ cur[t] \in Requests
         /\ phase[cur[t]] \in Stream!Phases
         /\ settled[cur[t]] \in Nat /\ found[cur[t]] \in Nat
         /\ template[t] \in 0..MaxTuples
         /\ Reader!(t)
<1>1. cur[t] \in Tuples
  BY DEF IInv, InProcess, Numbers, TypeOK, QueryTypeOK, Tuples
<1> QED
  BY <1>1 DEF IInv, TypeOK, QueryTypeOK, Stream!TypeOK, Reader

\* An answer of the server is at hand and, with what the server keeps, all the
\* thread has yet to read.
LEMMA AnswerArrivesStep ==
  ASSUME IInv, NEW t \in Threads,
         NEW from, NEW to, NEW ms \in SUBSET Nat,
         (from = "reply" /\ to = "gle") \/ (from = "getmore" /\ to = "more"),
         AnswerArrives(t, from, to, ms)
  PROVE  IInv'
<1> USE DEF AnswerArrives, At, Goto, SetConn, Conn, ConnFor, answerVars
<1>1. InProcess(t) /\ from \in Steps /\ to \in Steps \ {"idle", "submit"}
  BY AtInProcess DEF Steps, InProcess
<1>0. PICK m \in ms : \E c \in Answers(t, m), e \in {NoError, cur[t]} :
        /\ cursor' = [cursor EXCEPT ![t] = c]
        /\ found' = [found EXCEPT ![cur[t]] = settled[cur[t]] + Len(c.batch) + c.rest]
        /\ conn' = [conn EXCEPT ![t] = [conn[t] EXCEPT !.wire = "quiet", !.lastError = e]]
  OBVIOUS
<1>2. PICK c \in Answers(t, m), e \in {NoError, cur[t]} :
        /\ cursor' = [cursor EXCEPT ![t] = c]
        /\ found' = [found EXCEPT ![cur[t]] = settled[cur[t]] + Len(c.batch) + c.rest]
        /\ conn' = [conn EXCEPT ![t] = [conn[t] EXCEPT !.wire = "quiet", !.lastError = e]]
  BY <1>0
<1>3. c \in Cursor /\ c.rest \in Nat /\ Len(c.batch) \in Nat
  <2>1. m \in Nat
    BY <1>2
  <2>2. c \in Cursor
    BY <1>2, <2>1, AnswerTypes
  <2>3. c.batch \in Seq(Documents)
    BY <2>2 DEF Cursor
  <2> QED
    BY <2>2, <2>3, LenProperties DEF Cursor
<1>4. DriverTypeOK'
  <2>1. conn[t] \in Connection /\ DriverTypeOK
    BY DEF IInv, TypeOK, DriverTypeOK
  <2>2. e \in Requests \union {NoError}
    BY <1>1, <1>2, InTuple
  <2>3. [conn[t] EXCEPT !.wire = "quiet", !.lastError = e] \in Connection
    BY <2>1, <2>2, AnswerFields
  <2> QED
    BY <1>2, <2>1, <2>3, SetConnTypes
<1>5. /\ pc'[t] = to /\ cursor'[t] = c
      /\ found'[cur[t]] = settled[cur[t]] + Len(c.batch) + c.rest
      /\ found' \in [Tuples -> Nat]
      /\ \A u \in Threads \ {t} : pc'[u] = pc[u] /\ cursor'[u] = cursor[u]
      /\ \A n \in Tuples : n # cur[t] => found'[n] = found[n]
  <2>1. cur[t] \in Tuples /\ settled[cur[t]] \in Nat
    BY <1>1, InTuple
  <2>2. settled[cur[t]] + Len(c.batch) + c.rest \in Nat
    <3> HIDE DEF AnswerArrives, At, Goto, SetConn, Conn, ConnFor, answerVars
    <3> QED
      BY <1>3, <2>1
  <2>3. pc \in [Threads -> Steps] /\ cursor \in [Threads -> Cursor]
        /\ found \in [Tuples -> Nat]
    BY DEF IInv, TypeOK, QueryTypeOK
  <2> QED
    BY <1>2, <2>1, <2>2, <2>3
<1>6. TypeOK'
  BY <1>1, <1>2, <1>3, <1>4, <1>5 DEF IInv, TypeOK, QueryTypeOK, Stream!TypeOK
<1>7. OthersKept(t)
  BY <1>5 DEF OthersKept
<1>8. Reader!(t) /\ phase[cur[t]] \in {"none", "open"}
  BY <1>1, InTuple DEF Asking, Reading
<1>9. Reader!(t)'
  BY <1>1, <1>5, <1>8 DEF Template, TemplateFor, Asking, Reading
<1>10. TupleTrue!(t)'
  BY <1>1, <1>5
<1>11. \A n \in Tuples : n = cur[t] => WholeAnswer!(n)'
  BY <1>8
<1> QED
  BY <1>1, <1>5, <1>6, <1>7, <1>9, <1>10, <1>11, ThreadStep

LEMMA FirstBatchStep ==
  ASSUME IInv, NEW t \in Threads, FirstBatch(t)
  PROVE  IInv'
<1>1. 0..MaxDocuments \in SUBSET Nat
  OBVIOUS
<1> QED
  BY <1>1, AnswerArrivesStep DEF FirstBatch

LEMMA NextBatchStep ==
  ASSUME IInv, NEW t \in Threads, NextBatch(t)
  PROVE  IInv'
<1>1. {cursor[t].rest} \in SUBSET Nat
  BY BatchFacts DEF IInv
<1> QED
  BY <1>1, AnswerArrivesStep DEF NextBatch

LEMMA QueryLostStep ==
  ASSUME IInv, NEW t \in Threads, QueryLost(t)
  PROVE  IInv'
<1>1. DriverTypeOK'
  <2>1. conn[t] \in Connection /\ DriverTypeOK
    BY DEF IInv, TypeOK, DriverTypeOK
  <2>2. Broken(conn[t]) \in Connection
    BY <2>1 DEF Broken, Connection
  <2> QED
    BY <2>1, <2>2, SetConnTypes DEF QueryLost, SetConn, Conn, ConnFor
<1>2. CASE Throw(t)
  BY <1>1, <1>2, ThrowStep, AtInProcess DEF QueryLost, Steps
<1>3. CASE Step(t, "reply", "gle")
  BY <1>1, <1>3, StepAhead DEF Asking
<1> QED
  BY <1>2, <1>3 DEF QueryLost

LEMMA BatchLostStep ==
  ASSUME IInv, NEW t \in Threads, BatchLost(t)
  PROVE  IInv'
<1>1. DriverTypeOK'
  <2>1. conn[t] \in Connection /\ DriverTypeOK
    BY DEF IInv, TypeOK, DriverTypeOK
  <2>2. Broken(conn[t]) \in Connection
    BY <2>1 DEF Broken, Connection
  <2> QED
    BY <2>1, <2>2, SetConnTypes DEF BatchLost, SetConn, Conn, ConnFor
<1> QED
  BY <1>1, ThrowStep, AtInProcess DEF BatchLost, Steps

LEMMA GetLastErrorStep ==
  ASSUME IInv, NEW t \in Threads, GetLastError(t)
  PROVE  IInv'
<1> USE DEF SetConn, Conn, ConnFor, Goto
<1>1. /\ InProcess(t) /\ pc[t] = "gle"
      /\ cur[t] \in Tuples /\ Reader!(t)
  BY AtInProcess, InTuple DEF GetLastError, At, Steps
<1>2. DriverTypeOK /\ Ready(conn[t]) \subseteq Connection
  BY ConnectionTypes DEF IInv, TypeOK, DriverTypeOK
<1>3. CASE /\ \E c \in Ready(Conn(t)) : SetConn(t, c)
           /\ UNCHANGED <<template, taken, pe, settled, delivered, found>>
           /\ Locals(t, "idle", 0)
           /\ phase' = [phase EXCEPT ![cur[t]] = "refused"]
           /\ UNCHANGED metric
  <2>1. DriverTypeOK'
    BY <1>2, <1>3, SetConnTypes DEF GetLastError
  <2>2. "idle" \in Steps /\ 0 \in 0..MaxTuples
    BY DEF Steps
  <2>3. /\ pc' \in [Threads -> Steps] /\ cur' \in [Threads -> 0..MaxTuples]
        /\ cursor' \in [Threads -> Cursor] /\ docFound' \in [Threads -> BOOLEAN]
        /\ out' \in [Threads -> Output] /\ pc'[t] = "idle"
        /\ \A u \in Threads \ {t} :
             /\ pc'[u] = pc[u] /\ cur'[u] = cur[u] /\ cursor'[u] = cursor[u]
             /\ docFound'[u] = docFound[u] /\ out'[u] = out[u]
    BY <1>3, <2>2, LocalsFacts DEF IInv
  <2>4. phase' \in [Tuples -> Stream!Phases] /\ phase'[cur[t]] = "refused"
    BY <1>1, <1>3 DEF IInv, TypeOK, QueryTypeOK, Stream!TypeOK, Stream!Phases
  <2>5. TypeOK'
    BY <1>3, <2>1, <2>3, <2>4 DEF IInv, TypeOK, QueryTypeOK, Stream!TypeOK
  <2>6. OthersKept(t)
    BY <1>3, <2>3 DEF OthersKept, IInv, TypeOK, QueryTypeOK, Stream!TypeOK
  <2>7. Reader!(t)' /\ TupleTrue!(t)'
    BY <2>3 DEF InProcess, At
  <2> QED
    BY <1>1, <1>3, <2>3, <2>4, <2>5, <2>6, <2>7, ThreadStep
<1>4. CASE /\ \E c \in Ready(Conn(t)) : SetConn(t, c)
           /\ UNCHANGED <<template, taken, pe, settled, delivered, found>>
           /\ Goto(t, "more")
           /\ phase' = [phase EXCEPT ![cur[t]] = "open"]
           /\ metric' = metric + 1
           /\ UNCHANGED <<cur, cursor, docFound, out>>
  <2>1. DriverTypeOK'
    BY <1>2, <1>4, SetConnTypes DEF GetLastError
  <2>2. /\ pc' \in [Threads -> Steps] /\ pc'[t] = "more"
        /\ phase' \in [Tuples -> Stream!Phases] /\ phase'[cur[t]] = "open"
        /\ metric' \in Nat
    BY <1>1, <1>4 DEF IInv, TypeOK, QueryTypeOK, Stream!TypeOK, Stream!Phases, Steps
  <2>3. TypeOK'
    BY <1>4, <2>1, <2>2 DEF IInv, TypeOK, QueryTypeOK, Stream!TypeOK
  <2>4. OthersKept(t)
    BY <1>4 DEF OthersKept, IInv, TypeOK, QueryTypeOK, Stream!TypeOK
  <2>5. Reader!(t)' /\ TupleTrue!(t)'
    BY <1>1, <1>4, <2>2 DEF InProcess, At, Template, TemplateFor, Asking, Reading
  <2> QED
    BY <1>1, <1>4, <2>2, <2>3, <2>4, <2>5, ThreadStep
<1>5. CASE DriverThrows(t)
  BY <1>1, <1>5, DriverThrowsStep DEF GetLastError
<1> QED
  BY <1>3, <1>4, <1>5 DEF GetLastError

LEMMA MoreStep ==
  ASSUME IInv, NEW t \in Threads, More(t)
  PROVE  IInv'
<1> USE DEF SetConn, Conn, ConnFor, Goto
<1>1. /\ InProcess(t) /\ pc[t] = "more"
      /\ cur[t] \in Tuples /\ Reader!(t)
  BY AtInProcess, InTuple DEF More, At, Steps
<1>2. CASE Crash \/ (Throw(t) /\ UNCHANGED driverVars)
  <2>1. UNCHANGED driverVars => DriverTypeOK'
    BY DEF driverVars, IInv, TypeOK, DriverTypeOK
  <2> QED
    BY <1>1, <1>2, <2>1, CrashStep, ThrowStep
<1>3. CASE /\ cursor[t].batch # <<>>
           /\ docFound' = [docFound EXCEPT ![t] = TRUE]
           /\ Goto(t, "convert")
           /\ UNCHANGED <<driverVars, cur, cursor, out, template, metric, taken, pe,
                          answerVars, found>>
  <2> USE <1>3 DEF driverVars, answerVars
  <2>1. TypeOK' /\ pc'[t] = "convert" /\ docFound'[t]
    BY DEF IInv, TypeOK, DriverTypeOK, QueryTypeOK, Stream!TypeOK, Steps
  <2>2. OthersKept(t)
    BY DEF OthersKept, IInv, TypeOK, QueryTypeOK
  <2>3. Reader!(t)' /\ TupleTrue!(t)'
    BY <1>1, <2>1 DEF InProcess, At, Template, TemplateFor, Asking, Reading
  <2>4. \A n \in Tuples : WholeAnswer!(n)'
    BY DEF IInv, WholeAnswer
  <2> QED
    BY <1>1, <2>1, <2>2, <2>3, <2>4, ThreadStep
<1>4. CASE /\ cursor[t].batch = <<>>
           /\ SetConn(t, [Conn(t) EXCEPT !.wire = "asked"])
           /\ Step(t, "more", "getmore")
           /\ UNCHANGED <<serverUp, faults>>
  <2>1. DriverTypeOK /\ conn[t] \in Connection
    BY DEF IInv, TypeOK, DriverTypeOK
  <2>2. [conn[t] EXCEPT !.wire = "asked"] \in Connection
    BY <2>1 DEF Connection
  <2>3. DriverTypeOK'
    BY <1>4, <2>1, <2>2, SetConnTypes
  <2> QED
    BY <1>4, <2>3, StepAhead
<1>5. CASE DriverThrows(t) /\ UNCHANGED <<serverUp, faults>>
  BY <1>1, <1>5, DriverThrowsStep
<1> QED
  BY <1>2, <1>3, <1>4, <1>5 DEF More

LEMMA ConvertStep ==
  ASSUME IInv, NEW t \in Threads, Convert(t)
  PROVE  IInv'
<1> USE DEF Goto
<1>1. /\ InProcess(t) /\ pc[t] = "convert"
      /\ cur[t] \in Tuples /\ settled[cur[t]] \in Nat /\ template[t] \in 0..MaxTuples
      /\ Reader!(t)
  BY AtInProcess, InTuple DEF Convert, At, Steps
<1>2. DriverTypeOK'
  BY DEF Convert, driverVars, IInv, TypeOK, DriverTypeOK
<1>3. CASE Throw(t)
  BY <1>1, <1>2, <1>3, ThrowStep
<1>4. CASE /\ settled' = [settled EXCEPT ![cur[t]] = @ + 1]
           /\ cursor' = [cursor EXCEPT ![t].batch = Tail(@)]
           /\ UNCHANGED <<cur, docFound, template, metric, taken, pe, phase, found>>
           /\ \/ /\ out' = [out EXCEPT ![t] = Copy(t)]
                 /\ delivered' = [delivered EXCEPT ![cur[t]] = @ \union {Position(t)}]
                 /\ Goto(t, "submit")
              \/ Goto(t, "more") /\ UNCHANGED <<out, delivered>>
  <2> USE <1>4
  <2>1. /\ cursor[t] \in Cursor /\ Len(cursor[t].batch) \in Nat /\ cursor[t].rest \in Nat
        /\ Tail(cursor[t].batch) \in Seq(Documents)
        /\ Len(Tail(cursor[t].batch)) = Len(cursor[t].batch) - 1
    BY <1>1, BatchFacts DEF IInv
  <2>2. /\ cursor' \in [Threads -> Cursor]
        /\ cursor'[t].batch = Tail(cursor[t].batch) /\ cursor'[t].rest = cursor[t].rest
        /\ \A u \in Threads \ {t} : cursor'[u] = cursor[u]
    BY <2>1 DEF IInv, TypeOK, QueryTypeOK, Cursor
  <2>3. /\ settled' \in [Tuples -> Nat] /\ settled'[cur[t]] = settled[cur[t]] + 1
        /\ \A n \in Tuples : n # cur[t] => settled'[n] = settled[n]
    BY <1>1 DEF IInv, TypeOK, QueryTypeOK, Stream!TypeOK
  <2>4. Position(t) \in Nat /\ Copy(t) \in Output
    BY <1>1 DEF Position, Copy, Output, Template, TemplateFor
  <2>5. /\ pc' \in [Threads -> Steps] /\ out' \in [Threads -> Output]
        /\ delivered' \in [Tuples -> SUBSET Nat]
        /\ pc'[t] \in {"submit", "more"}
        /\ pc'[t] = "submit" => out'[t] = Copy(t)
        /\ \A u \in Threads \ {t} : pc'[u] = pc[u] /\ out'[u] = out[u]
    <3>1. /\ pc \in [Threads -> Steps] /\ out \in [Threads -> Output]
          /\ delivered \in [Tuples -> SUBSET Nat]
      BY DEF IInv, TypeOK, QueryTypeOK, Stream!TypeOK
    <3>2. "submit" \in Steps /\ "more" \in Steps
      BY DEF Steps
    <3>3. delivered[cur[t]] \union {Position(t)} \in SUBSET Nat
      BY <1>1, <2>4, <3>1
    <3> QED
      BY <1>1, <2>4, <3>1, <3>2, <3>3
  <2>6. TypeOK'
    BY <1>2, <2>2, <2>3, <2>5 DEF IInv, TypeOK, QueryTypeOK, Stream!TypeOK
  <2>7. OthersKept(t)
    BY <2>2, <2>3, <2>5 DEF OthersKept
  <2>8. Reader!(t)'
    <3>1. /\ template[t] = cur[t] /\ phase[cur[t]] = "open" /\ docFound[t]
          /\ settled[cur[t]] + Len(cursor[t].batch) + cursor[t].rest = found[cur[t]]
      BY <1>1 DEF Template, TemplateFor, Reading
    <3>2. /\ template'[t] = cur'[t] /\ phase'[cur'[t]] = "open" /\ docFound'[t]
          /\ settled'[cur'[t]] > 0
          /\ settled'[cur'[t]] + Len(cursor'[t].batch) + cursor'[t].rest = found'[cur'[t]]
      <4>1. cur' = cur /\ template' = template /\ phase' = phase /\ docFound' = docFound
            /\ found' = found
        OBVIOUS
      <4>2. settled'[cur[t]] > 0
        BY <1>1, <2>3
      <4>3. settled'[cur[t]] + Len(cursor'[t].batch) + cursor'[t].rest
              = settled[cur[t]] + Len(cursor[t].batch) + cursor[t].rest
        <5>1. Len(cursor'[t].batch) = Len(cursor[t].batch) - 1
              /\ cursor'[t].rest = cursor[t].rest
          BY <2>1, <2>2
        <5>2. settled[cur[t]] \in Nat /\ Len(cursor[t].batch) \in Nat
              /\ cursor[t].rest \in Nat
          BY <1>1, <2>1
        <5>3. settled'[cur[t]] = settled[cur[t]] + 1
          BY <2>3
        <5>4. settled'[cur[t]] + Len(cursor'[t].batch)
                = settled[cur[t]] + Len(cursor[t].batch)
          BY <5>1, <5>2, <5>3
        <5> QED
          BY <5>1, <5>4
      <4> QED
        BY <3>1, <4>1, <4>2, <4>3
    <3>3. pc'[t] = "submit" => out'[t].kind = "tuple"
      BY <2>5 DEF Copy
    <3> QED
      BY <2>5, <3>2, <3>3 DEF Template, TemplateFor, Asking, Reading
  <2>9. TupleTrue!(t)'
    BY <1>1, <2>3, <2>5 DEF Copy, Position, Template, TemplateFor, At, InProcess
  <2>10. \A n \in Tuples : n = cur[t] => WholeAnswer!(n)'
    BY <1>1 DEF Reading
  <2> QED
    BY <1>1, <2>5, <2>6, <2>7, <2>8, <2>9, <2>10, ThreadStep
<1> QED
  BY <1>3, <1>4 DEF Convert

LEMMA EndStep ==
  ASSUME IInv, NEW t \in Threads, End(t)
  PROVE  IInv'
<1> USE DEF Goto, End, driverVars
<1>1. /\ InProcess(t) /\ pc[t] = "more"
      /\ cur[t] \in Tuples /\ settled[cur[t]] \in Nat /\ found[cur[t]] \in Nat
      /\ template[t] \in 0..MaxTuples
      /\ Reader!(t)
  BY AtInProcess, InTuple DEF At, Steps
<1>2. settled[cur[t]] = found[cur[t]] /\ cursor[t].rest = 0 /\ Len(cursor[t].batch) = 0
  BY <1>1, BatchFacts DEF EndOfAnswer, IInv
<1>3. \/ /\ docFound[t]
         /\ out' = [out EXCEPT ![t] = [NoOutput EXCEPT !.kind = "marker"]]
         /\ phase' = [phase EXCEPT ![cur[t]] = "window"]
      \/ /\ ~docFound[t]
         /\ out' = [out EXCEPT ![t] = [NoOutput EXCEPT !.kind = "template",
                                                       !.input = Template(t)]]
         /\ phase' = [phase EXCEPT ![cur[t]] = "lone"]
  OBVIOUS
<1>4. /\ [NoOutput EXCEPT !.kind = "marker"] \in Output
      /\ [NoOutput EXCEPT !.kind = "template", !.input = Template(t)] \in Output
  <2>1. template[t] \in 0..MaxTuples /\ {} \in SUBSET Nat /\ 0 \in 0..MaxTuples
    BY <1>1
  <2> QED
    BY <2>1 DEF NoOutput, Output, Template, TemplateFor
<1>5. /\ pc' \in [Threads -> Steps] /\ pc'[t] = "submit"
      /\ out' \in [Threads -> Output] /\ phase' \in [Tuples -> Stream!Phases]
  BY <1>3, <1>4 DEF IInv, TypeOK, QueryTypeOK, Stream!TypeOK, Stream!Phases, Steps
<1>6. TypeOK'
  BY <1>5 DEF IInv, TypeOK, DriverTypeOK, QueryTypeOK, Stream!TypeOK
<1>7. OthersKept(t)
  BY <1>3 DEF OthersKept, IInv, TypeOK, QueryTypeOK, Stream!TypeOK
<1>8. \/ docFound[t] /\ out'[t].kind = "marker" /\ out'[t].docs = {}
           /\ phase'[cur[t]] = "window"
      \/ ~docFound[t] /\ out'[t].kind = "template" /\ out'[t].docs = {}
           /\ out'[t].input = template[t] /\ phase'[cur[t]] = "lone"
  <2>1. out \in [Threads -> Output] /\ phase \in [Tuples -> Stream!Phases]
    BY DEF IInv, TypeOK, QueryTypeOK, Stream!TypeOK
  <2>2. CASE docFound[t]
    <3>1. out' = [out EXCEPT ![t] = [NoOutput EXCEPT !.kind = "marker"]]
          /\ phase' = [phase EXCEPT ![cur[t]] = "window"]
      BY <1>3, <2>2
    <3> QED
      BY <1>1, <2>1, <2>2, <3>1 DEF NoOutput
  <2>3. CASE ~docFound[t]
    <3>1. out' = [out EXCEPT ![t] = [NoOutput EXCEPT !.kind = "template",
                                                     !.input = Template(t)]]
          /\ phase' = [phase EXCEPT ![cur[t]] = "lone"]
      BY <1>3, <2>3
    <3> QED
      BY <1>1, <2>1, <2>3, <3>1 DEF NoOutput, Template, TemplateFor
  <2> QED
    BY <2>2, <2>3
<1>9. Reader!(t)'
  BY <1>1, <1>5, <1>8 DEF Template, TemplateFor, Asking, Reading, InProcess
<1>10. TupleTrue!(t)'
  BY <1>1, <1>8 DEF At, Template, TemplateFor
<1>11. \A n \in Tuples : n = cur[t] => WholeAnswer!(n)'
  <2>1. docFound[t] <=> settled[cur[t]] > 0
    BY <1>1
  <2>2. settled' = settled /\ found' = found
    OBVIOUS
  <2>3. settled[cur[t]] > 0 <=> settled[cur[t]] # 0
    BY <1>1
  <2>4. /\ phase'[cur[t]] = "window" => settled[cur[t]] > 0
        /\ phase'[cur[t]] = "lone" => settled[cur[t]] = 0
    BY <1>8, <2>1, <2>3
  <2> QED
    BY <1>2, <2>2, <2>4
<1> QED
  BY <1>1, <1>5, <1>6, <1>7, <1>9, <1>10, <1>11, ThreadStep

LEMMA SubmittedStep ==
  ASSUME IInv, NEW t \in Threads, Submitted(t)
  PROVE  IInv'
<1> USE DEF Goto, driverVars, answerVars
<1>1. /\ InProcess(t) /\ pc[t] = "submit"
      /\ cur[t] \in Tuples /\ Reader!(t)
  BY AtInProcess, InTuple DEF Submitted, At, Steps
<1>2. UNCHANGED <<driverVars, template, metric, taken, pe, answerVars, found>>
  BY DEF Submitted
<1>3. \A n \in Tuples : WholeAnswer!(n)'
  BY <1>2 DEF IInv, WholeAnswer
<1>4. CASE /\ out[t].kind = "tuple"
           /\ Goto(t, "more")
           /\ UNCHANGED <<cur, cursor, docFound, out>>
  <2> USE <1>2, <1>4
  <2>1. TypeOK' /\ pc'[t] = "more"
    BY DEF IInv, TypeOK, DriverTypeOK, QueryTypeOK, Stream!TypeOK, Steps
  <2>2. OthersKept(t)
    BY DEF OthersKept, IInv, TypeOK, QueryTypeOK
  <2>3. Reader!(t)' /\ TupleTrue!(t)'
    BY <1>1, <2>1 DEF InProcess, At, Template, TemplateFor, Asking, Reading
  <2> QED
    BY <1>1, <1>3, <2>1, <2>2, <2>3, ThreadStep
<1>5. CASE out[t].kind # "tuple" /\ Locals(t, "idle", 0)
  <2> USE <1>2, <1>5
  <2>1. "idle" \in Steps /\ 0 \in 0..MaxTuples
    BY DEF Steps
  <2>2. /\ pc' \in [Threads -> Steps] /\ cur' \in [Threads -> 0..MaxTuples]
        /\ cursor' \in [Threads -> Cursor] /\ docFound' \in [Threads -> BOOLEAN]
        /\ out' \in [Threads -> Output] /\ pc'[t] = "idle"
        /\ \A u \in Threads \ {t} :
             /\ pc'[u] = pc[u] /\ cur'[u] = cur[u] /\ cursor'[u] = cursor[u]
             /\ docFound'[u] = docFound[u] /\ out'[u] = out[u]
    BY <2>1, LocalsFacts DEF IInv
  <2>3. TypeOK'
    BY <2>2 DEF IInv, TypeOK, DriverTypeOK, QueryTypeOK, Stream!TypeOK
  <2>4. OthersKept(t)
    BY <2>2 DEF OthersKept
  <2>5. Reader!(t)' /\ TupleTrue!(t)'
    BY <2>2 DEF InProcess, At
  <2>6. phase'[cur[t]] # "open"
    BY <1>1 DEF IInv, TypeOK, QueryTypeOK, Output
  <2> QED
    BY <1>1, <1>3, <2>2, <2>3, <2>4, <2>5, <2>6, ThreadStep
<1> QED
  BY <1>4, <1>5 DEF Submitted

\* A step that leaves everything but the connections.
LEMMA QuietStep ==
  ASSUME IInv, DriverTypeOK',
         UNCHANGED <<localVars, template, metric, taken, pe, answerVars, found>>
  PROVE  IInv'
<1> USE DEF IInv, localVars, answerVars
<1>1. TypeOK'
  BY DEF TypeOK, QueryTypeOK, Stream!TypeOK
<1>2. Numbers' /\ TupleTrue' /\ WholeAnswer' /\ NoneLeftOpen'
  BY DEF Numbers, TupleTrue, WholeAnswer, NoneLeftOpen, InProcess, At
<1>3. Reader'
  BY DEF Reader, InProcess, Template, TemplateFor
<1> QED
  BY <1>1, <1>2, <1>3

----------------------------------------------------------------------------
(***************************************************************************)
(* The invariant.                                                          *)
(***************************************************************************)

LEMMA InitIInv ==
  ASSUME Init
  PROVE  IInv
<1> USE DEF Init, DriverInit, Stream!Init
<1>1. NoConnection \in Connection
  BY DEF NoConnection, Connection
<1>2. NullCursor \in Cursor /\ NoOutput \in Output
  BY EmptySeq DEF NullCursor, Cursor, NoOutput, Output
<1>3. TypeOK
  BY <1>1, <1>2 DEF TypeOK, DriverTypeOK, QueryTypeOK, Steps, Stream!TypeOK,
     Stream!Phases
<1>4. Numbers /\ Reader /\ TupleTrue /\ WholeAnswer /\ NoneLeftOpen
  BY DEF Numbers, Reader, TupleTrue, WholeAnswer, NoneLeftOpen, InProcess, At
<1> QED
  BY <1>3, <1>4 DEF IInv

LEMMA NextIInv ==
  ASSUME IInv, [Next]_vars
  PROVE  IInv'
<1>1. CASE UNCHANGED vars
  <2>1. DriverTypeOK'
    BY <1>1 DEF vars, driverVars, IInv, TypeOK, DriverTypeOK
  <2> QED
    BY <1>1, <2>1, QuietStep DEF vars
<1>2. ASSUME NEW t \in Threads,
             Receive(t) \/ Process(t) \/ FirstBatch(t) \/ NextBatch(t)
      PROVE  IInv'
  BY <1>2, ReceiveStep, BuildQueryStep, GetConnectionStep, AuthenticateStep,
     CheckFailedStep, SetProfilingStep, SendQueryStep, QueryLostStep,
     GetLastErrorStep, MoreStep, BatchLostStep, ConvertStep, EndStep, SubmittedStep,
     FirstBatchStep, NextBatchStep DEF Process
<1>3. CASE Environment
  <2>1. DriverTypeOK'
    BY <1>3, FaultTypes DEF Environment, IInv, TypeOK
  <2> QED
    BY <1>3, <2>1, QuietStep DEF Environment
<1>4. CASE Terminated
  BY <1>1, <1>4 DEF Terminated
<1> QED
  BY <1>1, <1>2, <1>3, <1>4 DEF Next

\* IInv holds in every reachable state, whatever the threads, the parameters, the
\* answers of the server and the faults.
THEOREM QueryInvariance == Spec => []IInv
<1>1. Init => IInv
  BY InitIInv
<1>2. IInv /\ [Next]_vars => IInv'
  BY NextIInv
<1> QED
  BY <1>1, <1>2, PTL DEF Spec

\* Every variable has its type in every reachable state.
THEOREM QueryTypeCorrect == Spec => []TypeOK
<1>1. IInv => TypeOK
  BY DEF IInv
<1> QED
  BY <1>1, QueryInvariance, PTL

\* What is submitted for an input tuple has that tuple's assignments and the
\* fields of one document: the per-thread template and the copy are enough.
THEOREM TemplateIsolation == Spec => []TupleTrue
<1>1. IInv => TupleTrue
  BY DEF IInv
<1> QED
  BY <1>1, QueryInvariance, PTL

\* An answer ends after its last document, across batches, with the marker or the
\* template it calls for.
THEOREM AnswerComplete == Spec => []WholeAnswer
<1>1. IInv => WholeAnswer
  BY DEF IInv
<1> QED
  BY <1>1, QueryInvariance, PTL

\* An answer stays open only while a thread gives it: an exception closes it.
THEOREM AnswersClosed == Spec => []NoneLeftOpen
<1>1. IInv => NoneLeftOpen
  BY DEF IInv
<1> QED
  BY <1>1, QueryInvariance, PTL

----------------------------------------------------------------------------
(***************************************************************************)
(* The contract of the output port.                                        *)
(***************************************************************************)

StreamStep == [Stream!Next]_answerVars

\* Leaving process() early breaks answers off that have not ended.
LEMMA BreakOffIsBreakOff ==
  ASSUME TypeOK, NEW ns, BreakOff(ns)
  PROVE  StreamStep
<1> DEFINE ms == {n \in Tuples : n \in ns /\ phase[n] \in {"none", "open"}}
<1>1. phase' = [n \in Tuples |-> IF n \in ms THEN "broken" ELSE phase[n]]
  BY DEF BreakOff
<1>2. ms \in SUBSET Tuples /\ ms \subseteq Stream!Unfinished
  BY DEF Stream!Unfinished
<1>3. Stream!BreakOff(ms)
  BY <1>1, <1>2 DEF Stream!BreakOff, BreakOff
<1> QED
  BY <1>2, <1>3 DEF StreamStep, Stream!Next

LEMMA ThrowIsBreakOff ==
  ASSUME TypeOK, NEW t \in Threads, Throw(t)
  PROVE  StreamStep
BY BreakOffIsBreakOff DEF Throw

\* A step the output port does not see.
LEMMA UnseenStep ==
  ASSUME UNCHANGED answerVars
  PROVE  StreamStep
BY DEF StreamStep

LEMMA StepIsUnseen ==
  ASSUME NEW t \in Threads, NEW from, NEW to, Step(t, from, to)
  PROVE  StreamStep
BY UnseenStep DEF Step

LEMMA GetLastErrorIsBegin ==
  ASSUME IInv, NEW t \in Threads, GetLastError(t)
  PROVE  StreamStep
<1>1. cur[t] \in Tuples /\ phase[cur[t]] = "none"
  BY InTuple, AtInProcess DEF GetLastError, At, Steps
<1>2. CASE DriverThrows(t)
  BY <1>2, ThrowIsBreakOff DEF DriverThrows, IInv
<1>3. CASE /\ UNCHANGED <<settled, delivered>>
           /\ \/ phase' = [phase EXCEPT ![cur[t]] = "refused"]
              \/ phase' = [phase EXCEPT ![cur[t]] = "open"]
  <2>1. Stream!Begin(cur[t])
    BY <1>1, <1>3 DEF Stream!Begin, Stream!Enter
  <2> QED
    BY <1>1, <2>1 DEF StreamStep, Stream!Next
<1> QED
  BY <1>2, <1>3 DEF GetLastError

LEMMA ConvertIsSettle ==
  ASSUME IInv, NEW t \in Threads, Convert(t)
  PROVE  StreamStep
<1>1. cur[t] \in Tuples /\ phase[cur[t]] = "open"
  BY InTuple, AtInProcess DEF Convert, At, Steps, Reading
<1>2. CASE Throw(t)
  BY <1>2, ThrowIsBreakOff DEF IInv
<1>3. CASE /\ settled' = [settled EXCEPT ![cur[t]] = @ + 1]
           /\ UNCHANGED phase
           /\ \/ delivered' = [delivered EXCEPT ![cur[t]] = @ \union {Position(t)}]
              \/ UNCHANGED delivered
  <2>1. settled'[cur[t]] = Position(t)
    BY <1>1, <1>3 DEF Position, IInv, TypeOK, QueryTypeOK, Stream!TypeOK
  <2>2. Stream!Settle(cur[t])
    BY <1>1, <1>3, <2>1 DEF Stream!Settle
  <2> QED
    BY <1>1, <2>2 DEF StreamStep, Stream!Next
<1> QED
  BY <1>2, <1>3 DEF Convert

LEMMA EndIsEnd ==
  ASSUME IInv, NEW t \in Threads, End(t)
  PROVE  StreamStep
<1>1. /\ cur[t] \in Tuples /\ phase[cur[t]] = "open"
      /\ docFound[t] <=> settled[cur[t]] > 0
  BY InTuple, AtInProcess DEF End, At, Steps, Reading
<1>2. Stream!Enter(cur[t], IF settled[cur[t]] > 0 THEN "window" ELSE "lone")
  BY <1>1 DEF End, Stream!Enter
<1>3. Stream!End(cur[t])
  BY <1>1, <1>2 DEF End, Stream!End
<1> QED
  BY <1>1, <1>3 DEF StreamStep, Stream!Next

LEMMA NextIsStreamStep ==
  ASSUME IInv, [Next]_vars
  PROVE  StreamStep
<1> USE ThrowIsBreakOff, UnseenStep, StepIsUnseen DEF IInv
<1>1. CASE UNCHANGED vars
  BY <1>1 DEF vars
<1>2. ASSUME NEW t \in Threads, Process(t)
      PROVE  StreamStep
  <2>1. CASE BuildQuery(t) \/ GetConnection(t)
    BY <2>1 DEF BuildQuery, GetConnection, Caught
  <2>2. CASE Authenticate(t) \/ CheckFailed(t)
    BY <2>2 DEF Authenticate, CheckFailed, Caught
  <2>3. CASE SetProfiling(t) \/ SendQuery(t)
    BY <2>3 DEF SetProfiling, SendQuery, DriverThrows
  <2>4. CASE QueryLost(t) \/ BatchLost(t)
    BY <2>4 DEF QueryLost, BatchLost
  <2>5. CASE GetLastError(t)
    BY <2>5, GetLastErrorIsBegin
  <2>6. CASE More(t)
    BY <2>6, BreakOffIsBreakOff DEF More, Crash, DriverThrows
  <2>7. CASE Convert(t)
    BY <2>7, ConvertIsSettle
  <2>8. CASE End(t)
    BY <2>8, EndIsEnd
  <2>9. CASE Submitted(t)
    BY <2>9 DEF Submitted
  <2> QED
    BY <1>2, <2>1, <2>2, <2>3, <2>4, <2>5, <2>6, <2>7, <2>8, <2>9 DEF Process
<1>3. ASSUME NEW t \in Threads, Receive(t) \/ FirstBatch(t) \/ NextBatch(t)
      PROVE  StreamStep
  BY <1>3 DEF Receive, FirstBatch, NextBatch, AnswerArrives
<1>4. CASE Environment
  BY <1>4 DEF Environment
<1>5. CASE Terminated
  BY <1>1, <1>5 DEF Terminated
<1> QED
  BY <1>1, <1>2, <1>3, <1>4, <1>5 DEF Next

\* The operator implements the contract of its output port: documents in order
\* and once, one end per answer, nothing after it, and an answer that is broken
\* off is never taken up again.
THEOREM StreamRefinement == Spec => ImplementsResultStream
<1>1. Init => Stream!Init
  BY DEF Init
<1>2. IInv /\ [Next]_vars => [Stream!Next]_<<phase, settled, delivered>>
  BY NextIsStreamStep DEF StreamStep, answerVars
<1> QED
  BY <1>1, <1>2, QueryInvariance, PTL DEF Spec, ImplementsResultStream, Stream!Spec

----------------------------------------------------------------------------
(***************************************************************************)
(* The null cursor. Without autoReconnect a cursor is null at getLastError *)
(* only over a failed connection, on which getLastError throws.            *)
(***************************************************************************)
CursorOf(t) ==
  /\ pc[t] = "gle" /\ cursor[t].null => conn[t].failed
  /\ pc[t] \in Reading \union {"submit"} => ~cursor[t].null

CursorInv == \A t \in Threads : CursorOf(t)

\* A step of thread t may change only its own place, cursor and connection.
OwnPart(t) ==
  /\ \E s : pc' = [pc EXCEPT ![t] = s]
  /\ cursor' = cursor \/ \E c : cursor' = [cursor EXCEPT ![t] = c]
  /\ conn' = conn \/ \E c : conn' = [conn EXCEPT ![t] = c]

LEMMA OwnStep ==
  ASSUME TypeOK, CursorInv, NEW t \in Threads, OwnPart(t), CursorOf(t)'
  PROVE  CursorInv'
<1> SUFFICES ASSUME NEW u \in Threads, u # t PROVE CursorOf(u)'
  BY DEF CursorInv
<1>1. pc'[u] = pc[u]
  BY DEF OwnPart, TypeOK, QueryTypeOK
<1>2. cursor'[u] = cursor[u]
  BY DEF OwnPart, TypeOK, QueryTypeOK
<1>3. conn'[u] = conn[u]
  BY DEF OwnPart, TypeOK, DriverTypeOK
<1>4. CursorOf(u)
  BY DEF CursorInv
<1> QED
  BY <1>1, <1>2, <1>3, <1>4 DEF CursorOf

\* Leaving process(), or entering it.
LEMMA LocalsCursor ==
  ASSUME TypeOK, CursorInv, NEW t \in Threads, NEW n,
         NEW step \in {"idle", "build"}, Locals(t, step, n),
         conn' = conn \/ \E c : conn' = [conn EXCEPT ![t] = c]
  PROVE  CursorInv'
<1>1. OwnPart(t)
  BY DEF Locals, OwnPart
<1>2. pc'[t] = step
  BY DEF Locals, TypeOK, QueryTypeOK
<1>3. CursorOf(t)'
  BY <1>2 DEF CursorOf, Reading
<1> QED
  BY <1>1, <1>3, OwnStep

\* Moving on before the answer has come.
LEMMA AskingCursor ==
  ASSUME TypeOK, CursorInv, NEW t \in Threads, NEW from, NEW to \in Asking,
         Step(t, from, to),
         conn' = conn \/ \E c : conn' = [conn EXCEPT ![t] = c]
  PROVE  CursorInv'
<1>1. OwnPart(t)
  BY DEF Step, Goto, OwnPart
<1>2. pc'[t] = to
  BY DEF Step, Goto, TypeOK, QueryTypeOK
<1>3. CursorOf(t)'
  BY <1>2 DEF CursorOf, Asking, Reading
<1> QED
  BY <1>1, <1>3, OwnStep

\* The broken connection a null cursor comes with.
LEMMA BrokenCursor ==
  ASSUME TypeOK, CursorInv, NEW t \in Threads, NEW from,
         Step(t, from, "gle"), conn' = [conn EXCEPT ![t] = Broken(conn[t])]
  PROVE  CursorInv'
<1>1. OwnPart(t)
  BY DEF Step, Goto, OwnPart
<1>2. pc'[t] = "gle"
  BY DEF Step, Goto, TypeOK, QueryTypeOK
<1>3. conn[t] \in Connection /\ conn'[t] = Broken(conn[t])
  BY DEF TypeOK, DriverTypeOK
<1>4. conn'[t].failed
  <2>1. Broken(conn[t]).failed
    BY <1>3 DEF Broken, Connection
  <2> QED
    BY <1>3, <2>1
<1>5. CursorOf(t)'
  BY <1>2, <1>4 DEF CursorOf, Reading
<1> QED
  BY <1>1, <1>5, OwnStep

\* A cursor that is there stays there while its documents are read.
LEMMA KeptCursor ==
  ASSUME TypeOK, CursorInv, NEW t \in Threads, NEW to, Goto(t, to),
         pc[t] \in Reading \union {"submit"}, to \in Reading \union {"submit"},
         cursor' = cursor \/ \E b : cursor' = [cursor EXCEPT ![t].batch = b],
         conn' = conn \/ \E c : conn' = [conn EXCEPT ![t] = c]
  PROVE  CursorInv'
<1>0. cursor[t] \in Cursor
  BY DEF TypeOK, QueryTypeOK
<1>1. OwnPart(t)
  BY DEF Goto, OwnPart
<1>2. pc'[t] = to /\ to # "gle"
  BY DEF Goto, TypeOK, QueryTypeOK, Reading
<1>3. ~cursor[t].null
  BY DEF CursorInv, CursorOf
<1>4. cursor'[t].null = cursor[t].null
  BY <1>0 DEF TypeOK, QueryTypeOK, Cursor
<1>5. CursorOf(t)'
  BY <1>2, <1>3, <1>4 DEF CursorOf
<1> QED
  BY <1>1, <1>5, OwnStep

\* The documents of an answer come with a cursor.
LEMMA AnswerCursor ==
  ASSUME TypeOK, CursorInv, NEW t \in Threads, NEW from, NEW to,
         NEW ms \in SUBSET Nat, AnswerArrives(t, from, to, ms)
  PROVE  CursorInv'
<1>1. PICK m \in ms : \E c \in Answers(t, m) :
             cursor' = [cursor EXCEPT ![t] = c]
  BY DEF AnswerArrives
<1>2. PICK c \in Answers(t, m) : cursor' = [cursor EXCEPT ![t] = c]
  BY <1>1
<1>3. m \in Nat
  BY <1>1
<1>4. ~c.null
  BY <1>3, AnswerTypes
<1>5. ~cursor'[t].null
  BY <1>2, <1>4 DEF TypeOK, QueryTypeOK
<1>6. OwnPart(t)
  BY <1>2 DEF AnswerArrives, SetConn, Goto, ConnFor, OwnPart
<1>7. CursorOf(t)'
  BY <1>5 DEF CursorOf
<1> QED
  BY <1>6, <1>7, OwnStep

\* getLastError() without autoReconnect: a null cursor has a failed connection, and
\* the driver throws.
LEMMA LastErrorCursor ==
  ASSUME ~AutoReconnect, TypeOK, CursorInv, NEW t \in Threads, GetLastError(t)
  PROVE  CursorInv'
<1> USE DEF SetConn, Conn, ConnFor
<1>1. CASE DriverThrows(t)
  BY <1>1, LocalsCursor DEF DriverThrows, Throw
<1>2. CASE \E c \in Ready(conn[t]) :
             /\ SetConn(t, c)
             /\ \/ Locals(t, "idle", 0)
                \/ Goto(t, "more") /\ cursor' = cursor
  <2>1. PICK c \in Ready(conn[t]) :
             /\ conn' = [conn EXCEPT ![t] = c]
             /\ \/ Locals(t, "idle", 0)
                \/ Goto(t, "more") /\ cursor' = cursor
    BY <1>2
  <2>2. CASE Locals(t, "idle", 0)
    BY <2>1, <2>2, LocalsCursor
  <2>3. CASE Goto(t, "more") /\ cursor' = cursor
    <3>1. ~conn[t].failed
      BY DEF Ready
    <3>2. ~cursor[t].null
      BY <3>1 DEF GetLastError, At, CursorInv, CursorOf
    <3>3. OwnPart(t)
      BY <2>1, <2>3 DEF Goto, OwnPart
    <3>4. pc'[t] = "more"
      BY <2>3 DEF Goto, TypeOK, QueryTypeOK
    <3>5. cursor'[t] = cursor[t]
      BY <2>3
    <3>6. CursorOf(t)'
      BY <3>2, <3>4, <3>5 DEF CursorOf
    <3> QED
      BY <3>3, <3>6, OwnStep
  <2> QED
    BY <2>1, <2>2, <2>3
<1> QED
  BY <1>1, <1>2 DEF GetLastError

LEMMA CaughtCursor ==
  ASSUME TypeOK, CursorInv, NEW t \in Threads, NEW from, Caught(t, from),
         conn' = conn \/ \E c : conn' = [conn EXCEPT ![t] = c]
  PROVE  CursorInv'
<1>1. CASE Step(t, from, "check")
  BY <1>1, AskingCursor DEF Asking
<1>2. CASE Throw(t)
  BY <1>2, LocalsCursor DEF Throw
<1> QED
  BY <1>1, <1>2 DEF Caught

\* The steps up to the answer.
LEMMA AskSteps ==
  ASSUME TypeOK, CursorInv, NEW t \in Threads,
         \/ Receive(t) \/ BuildQuery(t) \/ GetConnection(t) \/ Authenticate(t)
         \/ CheckFailed(t) \/ SetProfiling(t) \/ SendQuery(t) \/ QueryLost(t)
  PROVE  CursorInv'
<1> USE DEF SetConn, Conn, ConnFor, driverVars
<1>1. CASE Receive(t)
  BY <1>1, LocalsCursor DEF Receive
<1>2. CASE BuildQuery(t)
  BY <1>2, LocalsCursor, AskingCursor DEF BuildQuery, Throw, Asking
<1>3. CASE GetConnection(t)
  BY <1>3, CaughtCursor, AskingCursor DEF GetConnection, Asking
<1>4. CASE Authenticate(t)
  BY <1>4, CaughtCursor, AskingCursor DEF Authenticate, Asking
<1>5. CASE CheckFailed(t)
  BY <1>5, LocalsCursor, AskingCursor DEF CheckFailed, Throw, Asking
<1>6. CASE SetProfiling(t)
  BY <1>6, LocalsCursor, AskingCursor DEF SetProfiling, DriverThrows, Throw, Asking
<1>7. CASE SendQuery(t)
  BY <1>7, LocalsCursor, AskingCursor, BrokenCursor
     DEF SendQuery, DriverThrows, Throw, Asking
<1>8. CASE QueryLost(t)
  BY <1>8, LocalsCursor, BrokenCursor DEF QueryLost, Throw
<1> QED
  BY <1>1, <1>2, <1>3, <1>4, <1>5, <1>6, <1>7, <1>8

\* The steps over the answer; a null cursor is not used.
LEMMA ReadSteps ==
  ASSUME TypeOK, CursorInv, NEW t \in Threads,
         \/ More(t) \/ BatchLost(t) \/ Convert(t) \/ End(t) \/ Submitted(t)
  PROVE  CursorInv'
<1> USE DEF SetConn, Conn, ConnFor, driverVars
<1>1. CASE More(t)
  <2>1. ~cursor[t].null
    BY <1>1 DEF More, At, CursorInv, CursorOf, Reading
  <2>2. CASE DriverThrows(t)
    BY <2>2, LocalsCursor DEF DriverThrows, Throw
  <2>3. CASE Goto(t, "convert") /\ cursor' = cursor /\ conn' = conn
    BY <1>1, <2>3, KeptCursor DEF More, At, Reading
  <2>4. CASE Step(t, "more", "getmore") /\ \E c : conn' = [conn EXCEPT ![t] = c]
    BY <2>4, KeptCursor DEF Step, At, Reading
  <2> QED
    BY <1>1, <2>1, <2>2, <2>3, <2>4 DEF More
<1>2. CASE BatchLost(t)
  BY <1>2, LocalsCursor DEF BatchLost, Throw
<1>3. CASE Convert(t)
  <2>1. CASE Throw(t)
    BY <1>3, <2>1, LocalsCursor DEF Convert, Throw
  <2>2. CASE /\ cursor' = [cursor EXCEPT ![t].batch = Tail(@)]
             /\ Goto(t, "submit") \/ Goto(t, "more")
    BY <1>3, <2>2, KeptCursor DEF Convert, At, Reading
  <2> QED
    BY <1>3, <2>1, <2>2 DEF Convert
<1>4. CASE End(t)
  BY <1>4, KeptCursor DEF End, At, Reading
<1>5. CASE Submitted(t)
  BY <1>5, KeptCursor, LocalsCursor DEF Submitted, At, Reading
<1> QED
  BY <1>1, <1>2, <1>3, <1>4, <1>5

\* The server and the network change no failed flag.
LEMMA QuietCursor ==
  ASSUME TypeOK, CursorInv, pc' = pc, cursor' = cursor,
         conn' = conn \/ ServerStops \/ \E k \in Threads : LinkLost(k)
  PROVE  CursorInv'
<1>1. \A c \in Connection : CutLink(c).failed = c.failed
  BY DEF CutLink, Connection
<1>2. \A u \in Threads : conn'[u].failed = conn[u].failed
  BY <1>1 DEF TypeOK, DriverTypeOK, ServerStops, LinkLost
<1> QED
  BY <1>2 DEF CursorInv, CursorOf

LEMMA NextCursor ==
  ASSUME ~AutoReconnect, IInv, CursorInv, [Next]_vars
  PROVE  CursorInv'
<1>0. TypeOK
  BY DEF IInv
<1>1. CASE UNCHANGED vars
  BY <1>0, <1>1, QuietCursor DEF vars, driverVars, localVars
<1>2. ASSUME NEW t \in Threads,
             Receive(t) \/ Process(t) \/ FirstBatch(t) \/ NextBatch(t)
      PROVE  CursorInv'
  <2>1. CASE FirstBatch(t)
    <3>1. 0..MaxDocuments \in SUBSET Nat
      OBVIOUS
    <3> QED
      BY <1>0, <2>1, <3>1, AnswerCursor DEF FirstBatch
  <2>2. CASE NextBatch(t)
    <3>1. {cursor[t].rest} \in SUBSET Nat
      BY <1>0, BatchFacts
    <3> QED
      BY <1>0, <2>2, <3>1, AnswerCursor DEF NextBatch
  <2> QED
    BY <1>0, <1>2, <2>1, <2>2, AskSteps, ReadSteps, LastErrorCursor DEF Process
<1>3. CASE Environment
  BY <1>0, <1>3, QuietCursor DEF Environment, ServerStarts, localVars
<1>4. CASE Terminated
  BY <1>1, <1>4 DEF Terminated
<1> QED
  BY <1>1, <1>2, <1>3, <1>4 DEF Next

\* Without autoReconnect the cursor that process() reads is always there, whatever
\* fails between query(), getLastError() and cursor->more().
THEOREM CursorAlwaysThere ==
  ASSUME ~AutoReconnect
  PROVE  Spec => []CursorIsThere
<1>1. Init => CursorInv
  BY DEF Init, CursorInv, CursorOf, Reading
<1>2. IInv /\ CursorInv /\ [Next]_vars => CursorInv'
  BY NextCursor
<1>3. CursorInv => CursorIsThere
  BY DEF CursorInv, CursorOf, CursorIsThere, At, Reading
<1> QED
  BY <1>1, <1>2, <1>3, QueryInvariance, PTL DEF Spec
=============================================================================
