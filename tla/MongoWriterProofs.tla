-------------------------- MODULE MongoWriterProofs --------------------------
(***************************************************************************)
(* Proofs about MongoWriter: the inductive invariant IInv, and from it the *)
(* type invariant and the safety properties, for any number of threads,    *)
(* tuples, ports and assignments and any values of the parameters.         *)
(***************************************************************************)
EXTENDS MongoWriter, DriverConnectionProofs, FiniteSetTheorems, TLAPS

USE DriverAssumption, WriterAssumption

----------------------------------------------------------------------------
(***************************************************************************)
(* Facts about the operators of the model.                                 *)
(***************************************************************************)

\* The assignments of an output clause are numbered from 1 to its length.
LEMMA AssignmentNumbers ==
  /\ Len(Assignments) \in Nat
  /\ DOMAIN Assignments = 1..Len(Assignments)
  /\ \A i \in 1..Len(Assignments) : Assignments[i] \in Assignment
OBVIOUS

\* The write a thread is in has an identity.
LEMMA WriteIdInIds ==
  ASSUME NEW t \in Threads, TypeOK, Numbers, pc[t] # "idle",
         idx[t] <= Len(Assignments)
  PROVE  WriteId(t) \in Ids
BY AssignmentNumbers DEF TypeOK, WriterTypeOK, Numbers, WriteId, Ids

----------------------------------------------------------------------------
(***************************************************************************)
(* Steps that look alike preserve the invariant for the same reason.       *)
(***************************************************************************)

\* A step towards the request: only the place of the thread and its connection
\* change (BuildDocument, BuildFindQuery, GetConnection, Authenticate,
\* CheckFailed and SetProfiling when they do not throw).
LEMMA TowardsSend ==
  ASSUME IInv, NEW t \in Threads, NEW s \in BeforeSend,
         pe = "running",
         pc[t] \in BeforeSend \union {"assign"},
         idx[t] <= Len(Assignments),
         WritesForPort(idx[t], cur[t].port),
         pc' = [pc EXCEPT ![t] = s],
         conn' \in [Threads -> Connection],
         \A u \in Threads \ {t} : conn'[u] = conn[u],
         UNCHANGED <<serverUp, faults, cur, idx, otuple, errorFound, msg,
                     ledgerVars, taken, pe>>
  PROVE  IInv'
<1> USE DEF IInv
<1>1. pc \in [Threads -> Steps]
  BY DEF TypeOK, WriterTypeOK
<1>2. /\ pc'[t] = s
      /\ \A u \in Threads \ {t} : pc'[u] = pc[u]
      /\ pc'[t] \notin {"idle", "assign", "reply", "gle", "count"}
      /\ pc[t] # "idle"
  BY <1>1 DEF BeforeSend
<1>3. TypeOK'
  BY <1>1 DEF TypeOK, WriterTypeOK, DriverTypeOK, ledgerVars, BeforeSend, Steps
<1>4. Place'
  BY <1>2 DEF Place, WritesForPort
<1>5. Numbers'
  BY <1>2 DEF Numbers, ledgerVars
<1>6. Held'
  BY DEF Held, ledgerVars
<1>7. \A u \in Threads : InProcess(u)' <=> InProcess(u)
  BY <1>2 DEF InProcess
<1>8. InFlight'
  BY <1>2, <1>7 DEF InFlight, ledgerVars, AfterSend, BeforeSend, WriteId, Verdict,
     Conn, ConnFor
<1>9. TupleAccount'
  BY <1>7 DEF TupleAccount, ledgerVars, WritesForPort
<1>10. ErrorTupleTrue'
  BY <1>7 DEF ErrorTupleTrue, ledgerVars, Errors
<1>11. NoLimbo'
  BY <1>7 DEF NoLimbo, ledgerVars
<1> QED
  BY <1>3, <1>4, <1>5, <1>6, <1>8, <1>9, <1>10, <1>11

\* The writes of a tuple in process have identities.
LEMMA TupleIds ==
  ASSUME TypeOK, Numbers, NEW t \in Threads, pc[t] # "idle",
         NEW i \in DOMAIN Assignments
  PROVE  <<cur[t].n, i>> \in Ids
BY DEF TypeOK, WriterTypeOK, Numbers, Ids

\* An exception: the thread leaves process(), its pending writes or, when the
\* PE ends, all pending writes are abandoned.
LEMMA ThrowStep ==
  ASSUME IInv, NEW t \in Threads,
         pe = "running", pc[t] # "idle",
         conn' \in [Threads -> Connection],
         \A u \in Threads \ {t} : conn'[u] = conn[u],
         UNCHANGED <<serverUp, faults>>,
         Throw(t)
  PROVE  IInv'
<1> USE DEF IInv
<1>1. TypeOK'
  <2>1. outcome' \in [Ids -> Outcomes]
    BY DEF Throw, Abandon, TypeOK, WriterTypeOK, Outcomes
  <2>2. 0 \in 0..MaxTuples /\ 1 \in 1..(Len(Assignments) + 1)
    BY AssignmentNumbers
  <2> QED
    BY <2>1, <2>2 DEF Throw, Locals, TypeOK, WriterTypeOK, DriverTypeOK, Steps,
       NoTuple, Null
<1>2. /\ pc'[t] = "idle"
      /\ \A u \in Threads \ {t} :
           /\ pc'[u] = pc[u] /\ cur'[u] = cur[u] /\ idx'[u] = idx[u]
           /\ otuple'[u] = otuple[u] /\ errorFound'[u] = errorFound[u]
           /\ msg'[u] = msg[u]
      /\ store' = store /\ taken' = taken
  BY DEF Throw, Locals, TypeOK, WriterTypeOK
<1>3. \A w \in Ids :
        outcome'[w] = outcome[w]
          \/ (outcome[w] = "pending" /\ outcome'[w] = "abandoned")
  BY DEF Throw, Abandon
<1>4. \A u \in Threads : InProcess(u)' => u # t /\ InProcess(u) /\ ~ExceptionEndsPE
  BY <1>2 DEF Throw, InProcess
<1>5. \A u \in Threads, w \in Ids :
        InProcess(u)' /\ w[1] = cur[u].n => outcome'[w] = outcome[w]
  BY <1>4 DEF Throw, Abandon, Numbers, InProcess
<1>6. Place'
  BY <1>2 DEF Place, WritesForPort, BeforeSend, AfterSend
<1>7. Numbers'
  BY <1>2, <1>3 DEF Numbers
<1>8. Held'
  BY <1>2, <1>3 DEF Held
<1>9. \A u \in Threads : InProcess(u)' =>
        \A i \in DOMAIN Assignments : outcome'[<<cur[u].n, i>>] = outcome[<<cur[u].n, i>>]
  BY <1>4, <1>5, TupleIds DEF InProcess
<1>10. InFlight'
  <2> SUFFICES ASSUME NEW u \in Threads, InProcess(u)'
               PROVE  InFlight!(u)'
    BY DEF InFlight
  <2>1. u # t /\ InProcess(u) /\ pc'[u] = pc[u] /\ pc[u] \in Steps
    BY <1>2, <1>4 DEF TypeOK, WriterTypeOK
  <2>2. idx[u] <= Len(Assignments) =>
          outcome'[WriteId(u)] = outcome[WriteId(u)]
    BY <1>9, <2>1, AssignmentNumbers DEF TypeOK, WriterTypeOK, WriteId
  <2>3. pc[u] \in BeforeSend \union AfterSend => idx[u] <= Len(Assignments)
    BY DEF Place
  <2>4. InFlight!(u)
    BY <2>1 DEF InFlight
  <2> QED
    BY <1>2, <2>1, <2>2, <2>3, <2>4 DEF WriteId, Verdict, Conn, ConnFor
<1>11. TupleAccount'
  BY <1>2, <1>4, <1>9 DEF TupleAccount, WritesForPort
<1>12. ErrorTupleTrue'
  <2> SUFFICES ASSUME NEW u \in Threads, InProcess(u)'
               PROVE  ErrorTupleTrue!(u)'
    BY DEF ErrorTupleTrue
  <2>1. otuple[u].set \subseteq Ids
    BY DEF TypeOK, WriterTypeOK
  <2> QED
    BY <1>2, <1>4, <1>5, <2>1 DEF ErrorTupleTrue, Errors
<1>13. NoLimbo'
  BY <1>2, <1>3, <1>4 DEF NoLimbo, Throw, Abandon, InProcess
<1> QED
  BY <1>1, <1>6, <1>7, <1>8, <1>10, <1>11, <1>12, <1>13

\* A signal ends the PE.
LEMMA CrashStep ==
  ASSUME IInv, Crash
  PROVE  IInv'
<1> USE DEF IInv, Crash, driverVars, localVars
<1>1. \A w \in Ids :
        /\ outcome'[w] # "pending"
        /\ outcome'[w] = outcome[w]
             \/ (outcome[w] = "pending" /\ outcome'[w] = "abandoned")
  BY DEF Abandon
<1>2. outcome' \in [Ids -> Outcomes]
  BY DEF Abandon, TypeOK, WriterTypeOK, Outcomes
<1>3. TypeOK'
  BY <1>2 DEF TypeOK, WriterTypeOK, DriverTypeOK
<1>4. \A u \in Threads : ~InProcess(u)'
  BY DEF InProcess
<1>5. Place' /\ Numbers' /\ Held'
  BY <1>1 DEF Place, Numbers, Held, WritesForPort
<1>6. InFlight' /\ TupleAccount' /\ ErrorTupleTrue' /\ NoLimbo'
  BY <1>1, <1>4 DEF InFlight, TupleAccount, ErrorTupleTrue, NoLimbo
<1> QED
  BY <1>3, <1>5, <1>6

\* What a step of one thread leaves true of another one: its locals, its
\* connection and the fate of the writes of its tuple are its own.
LEMMA Others ==
  ASSUME IInv, NEW t \in Threads, NEW u \in Threads \ {t}, InProcess(u),
         /\ pc'[u] = pc[u] /\ cur'[u] = cur[u] /\ idx'[u] = idx[u]
         /\ otuple'[u] = otuple[u] /\ errorFound'[u] = errorFound[u]
         /\ msg'[u] = msg[u] /\ conn'[u] = conn[u],
         \A w \in Ids : w[1] = cur[u].n =>
           outcome'[w] = outcome[w] /\ (w \in store' <=> w \in store)
  PROVE  InFlight!(u)' /\ TupleAccount!(u)' /\ ErrorTupleTrue!(u)'
<1> USE DEF IInv
<1>1. pc[u] # "idle" /\ pc[u] \in Steps /\ idx[u] \in 1..(Len(Assignments) + 1)
  BY DEF InProcess, TypeOK, WriterTypeOK
<1>2. \A i \in DOMAIN Assignments :
        /\ outcome'[<<cur[u].n, i>>] = outcome[<<cur[u].n, i>>]
        /\ <<cur[u].n, i>> \in store' <=> <<cur[u].n, i>> \in store
  BY <1>1, TupleIds
<1>3. InFlight!(u)'
  <2>1. InFlight!(u)
    BY DEF InFlight
  <2>2. idx[u] <= Len(Assignments) =>
          /\ outcome'[WriteId(u)] = outcome[WriteId(u)]
          /\ WriteId(u) \in store' <=> WriteId(u) \in store
    BY <1>1, <1>2, AssignmentNumbers DEF WriteId
  <2>3. pc[u] \in BeforeSend \union AfterSend => idx[u] <= Len(Assignments)
    BY DEF Place
  <2>4. WriteId(u)' = WriteId(u) /\ Conn(u)' = Conn(u)
    BY DEF WriteId, Conn, ConnFor
  <2>5. pc[u] \in {"reply", "gle", "count"} => pc[u] \in AfterSend
    BY DEF AfterSend
  <2> QED
    BY <2>1, <2>2, <2>3, <2>4, <2>5 DEF Verdict
<1>4. TupleAccount!(u)'
  <2>1. TupleAccount!(u)
    BY DEF TupleAccount
  <2> QED
    BY <1>2, <2>1 DEF WritesForPort
<1>5. ErrorTupleTrue!(u)'
  <2>1. ErrorTupleTrue!(u) /\ otuple[u].set \subseteq Ids
    BY DEF ErrorTupleTrue, TypeOK, WriterTypeOK
  <2> QED
    BY <2>1 DEF Errors
<1> QED
  BY <1>3, <1>4, <1>5

\* From the obligations of one thread, and the lemma above for the others, to
\* the parts of the invariant that speak of every thread.
LEMMA AllThreads ==
  ASSUME IInv, NEW t \in Threads, pe' = pe,
         \A u \in Threads \ {t} :
           /\ pc'[u] = pc[u] /\ cur'[u] = cur[u] /\ idx'[u] = idx[u]
           /\ otuple'[u] = otuple[u] /\ errorFound'[u] = errorFound[u]
           /\ msg'[u] = msg[u] /\ conn'[u] = conn[u],
         \A u \in Threads \ {t} : \A w \in Ids :
           InProcess(u) /\ w[1] = cur[u].n =>
             outcome'[w] = outcome[w] /\ (w \in store' <=> w \in store),
         InProcess(t)' => InFlight!(t)' /\ TupleAccount!(t)' /\ ErrorTupleTrue!(t)'
  PROVE  InFlight' /\ TupleAccount' /\ ErrorTupleTrue'
<1>1. ASSUME NEW u \in Threads, InProcess(u)'
      PROVE  InFlight!(u)' /\ TupleAccount!(u)' /\ ErrorTupleTrue!(u)'
  <2>1. CASE u = t
    BY <1>1, <2>1
  <2>2. CASE u # t
    <3>1. InProcess(u)
      BY <1>1, <2>2 DEF InProcess
    <3> QED
      BY <2>2, <3>1, Others
  <2> QED
    BY <2>1, <2>2
<1>2. InFlight'
  BY <1>1 DEF InFlight
<1>3. TupleAccount'
  BY <1>1 DEF TupleAccount
<1>4. ErrorTupleTrue'
  BY <1>1 DEF ErrorTupleTrue
<1> QED
  BY <1>2, <1>3, <1>4

----------------------------------------------------------------------------
(***************************************************************************)
(* One lemma for each action.                                              *)
(***************************************************************************)

LEMMA ReceiveStep ==
  ASSUME IInv, NEW t \in Threads, Receive(t)
  PROVE  IInv'
<1> USE DEF IInv
<1>1. PICK p \in Ports : Locals(t, "assign", [n |-> taken + 1, port |-> p])
  BY DEF Receive
<1>2. /\ pe = "running" /\ pe' = pe /\ pc[t] = "idle" /\ taken < MaxTuples
      /\ taken' = taken + 1 /\ store' = store /\ outcome' = outcome
      /\ conn' = conn
  BY DEF Receive, At, ledgerVars, driverVars
<1>3. /\ pc'[t] = "assign" /\ cur'[t] = [n |-> taken + 1, port |-> p]
      /\ idx'[t] = 1 /\ otuple'[t] = Null /\ errorFound'[t] = FALSE
      /\ \A u \in Threads \ {t} :
           /\ pc'[u] = pc[u] /\ cur'[u] = cur[u] /\ idx'[u] = idx[u]
           /\ otuple'[u] = otuple[u] /\ errorFound'[u] = errorFound[u]
           /\ msg'[u] = msg[u] /\ conn'[u] = conn[u]
  BY <1>1, <1>2 DEF Locals, TypeOK, WriterTypeOK
<1>4. taken + 1 \in 1..MaxTuples
  BY <1>2 DEF TypeOK, WriterTypeOK
<1>5. TypeOK'
  <2>1. 1 \in 1..(Len(Assignments) + 1)
    BY AssignmentNumbers
  <2>2. taken + 1 \in 0..MaxTuples
    BY <1>4
  <2> QED
    BY <1>1, <1>2, <2>1, <2>2 DEF Receive, Locals, TypeOK, WriterTypeOK,
       DriverTypeOK, Steps, Null, driverVars, ledgerVars
<1>6. \A i \in DOMAIN Assignments : outcome[<<taken + 1, i>>] = "none"
  BY <1>4 DEF Numbers, Ids, TypeOK, WriterTypeOK
<1>7. Place'
  BY <1>3 DEF Place, WritesForPort, BeforeSend, AfterSend
<1>8. Numbers'
  <2>1. \A u \in Threads : pc[u] # "idle" => cur[u].n \in 1..taken /\ cur[u].port \in Ports
    BY DEF Numbers
  <2>2. taken \in Nat
    BY DEF TypeOK, WriterTypeOK
  <2>3. \A u \in Threads : pc'[u] # "idle" =>
          cur'[u].n \in 1..(taken + 1) /\ cur'[u].port \in Ports
    BY <1>3, <2>1, <2>2
  <2>4. \A u \in Threads : pc'[u] # "idle" /\ u # t => cur'[u].n # cur'[t].n
    BY <1>3, <2>1, <2>2
  <2>5. \A w \in Ids : w[1] > taken + 1 => outcome'[w] = "none"
    BY <1>2, <2>2 DEF Numbers, Ids
  <2> QED
    BY <1>2, <1>3, <2>3, <2>4, <2>5 DEF Numbers
<1>9. Held'
  BY <1>2 DEF Held
<1>10. NoLimbo'
  BY <1>2, <1>3 DEF NoLimbo, InProcess
<1>11. InFlight!(t)' /\ TupleAccount!(t)' /\ ErrorTupleTrue!(t)'
  BY <1>2, <1>3, <1>6, AssignmentNumbers DEF BeforeSend, AfterSend, WriteId,
     Errors, Null
<1>12. InFlight' /\ TupleAccount' /\ ErrorTupleTrue'
  BY <1>2, <1>3, <1>11, AllThreads
<1> QED
  BY <1>5, <1>7, <1>8, <1>9, <1>10, <1>12

\* An assignment left behind stays behind.
LEMMA Advance ==
  ASSUME TypeOK, ErrorTupleTrue, NEW t \in Threads, InProcess(t),
         NextAssignment(t)
  PROVE  /\ idx'[t] = idx[t] + 1
         /\ WriteId(t)[2] < idx'[t]
         /\ \A w \in Errors(otuple[t].set) : w \in Ids /\ w[2] < idx'[t]
<1>1. idx'[t] = idx[t] + 1 /\ idx[t] \in 1..(Len(Assignments) + 1)
  BY DEF NextAssignment, TypeOK, WriterTypeOK
<1>2. \A w \in Ids : w[2] \in 1..Len(Assignments)
  BY AssignmentNumbers DEF Ids
<1>3. \A w \in Errors(otuple[t].set) : w \in Ids /\ w[2] < idx[t]
  BY DEF ErrorTupleTrue, Errors, TypeOK, WriterTypeOK
<1>4. idx[t] \in Nat /\ idx[t] < idx'[t]
  BY <1>1, AssignmentNumbers
<1>5. \A w \in Ids : w[2] < idx[t] => w[2] < idx'[t]
  BY <1>1, <1>2, AssignmentNumbers
<1> QED
  BY <1>1, <1>3, <1>4, <1>5 DEF WriteId

\* The loop goes on to the next assignment (Skip, SetAsIs with a tuple, Count):
\* the one left behind is counted, flagged in the error tuple, or not for the
\* port of the tuple.
LEMMA LoopStep ==
  ASSUME IInv, NEW t \in Threads,
         pe = "running", pe' = pe, pc[t] # "idle",
         idx[t] <= Len(Assignments),
         NextAssignment(t),
         otuple' \in [Threads -> [made : BOOLEAN, set : SUBSET Ids]],
         errorFound' \in [Threads -> BOOLEAN],
         metric' \in Nat,
         outcome' \in [Ids -> Outcomes],
         \A u \in Threads \ {t} :
           otuple'[u] = otuple[u] /\ errorFound'[u] = errorFound[u],
         \A w \in Ids : w # WriteId(t) => outcome'[w] = outcome[w],
         outcome'[WriteId(t)] = outcome[WriteId(t)]
           \/ (outcome[WriteId(t)] = "pending" /\ outcome'[WriteId(t)] = "counted"
               /\ WriteId(t) \in store),
         IF WritesForPort(idx[t], cur[t].port)
         THEN \/ outcome'[WriteId(t)] = "counted"
              \/ /\ outcome'[WriteId(t)] = "pending"
                 /\ errorFound'[t] /\ WriteId(t) \in otuple'[t].set
         ELSE outcome'[WriteId(t)] = "none",
         ErrorTupleTrue!(t)',
         errorFound[t] => errorFound'[t],
         otuple[t].set \subseteq otuple'[t].set,
         UNCHANGED <<driverVars, cur, msg, store, taken>>
  PROVE  IInv'
<1> USE DEF IInv, driverVars
<1>1. /\ pc'[t] = "assign" /\ idx'[t] = idx[t] + 1 /\ cur'[t] = cur[t]
      /\ \A u \in Threads \ {t} :
           pc'[u] = pc[u] /\ idx'[u] = idx[u]
  BY DEF NextAssignment, Goto, TypeOK, WriterTypeOK
<1>2. /\ WriteId(t) \in Ids /\ idx[t] \in DOMAIN Assignments
      /\ idx[t] \in 1..Len(Assignments) /\ InProcess(t)
  <2>1. idx[t] \in 1..(Len(Assignments) + 1)
    BY DEF TypeOK, WriterTypeOK
  <2>2. idx[t] \in 1..Len(Assignments)
    BY <2>1, AssignmentNumbers
  <2> QED
    BY <2>2, WriteIdInIds, AssignmentNumbers DEF InProcess
<1>3. TypeOK'
  <2>1. idx[t] + 1 \in 1..(Len(Assignments) + 1)
    BY <1>2, AssignmentNumbers
  <2>2. idx' \in [Threads -> 1..(Len(Assignments) + 1)]
    BY <2>1 DEF NextAssignment, TypeOK, WriterTypeOK
  <2>3. pc' \in [Threads -> Steps]
    BY DEF NextAssignment, Goto, TypeOK, WriterTypeOK, Steps
  <2> QED
    BY <2>2, <2>3 DEF TypeOK, WriterTypeOK, DriverTypeOK
<1>4. Place'
  BY <1>1 DEF Place, WritesForPort, BeforeSend, AfterSend
<1>5. Numbers'
  <2>1. \A w \in Ids : w[1] > taken => outcome'[w] = "none"
    <3>1. WriteId(t)[1] = cur[t].n /\ ~(cur[t].n > taken)
      BY DEF WriteId, Numbers, TypeOK, WriterTypeOK
    <3> QED
      BY <3>1 DEF Numbers
  <2> QED
    BY <1>1, <2>1 DEF Numbers
<1>6. Held'
  BY <1>2 DEF Held
<1>7. NoLimbo'
  <2>1. \A u \in Threads : InProcess(u)' <=> InProcess(u)
    BY <1>1, <1>2 DEF InProcess
  <2>2. \A w \in Ids : outcome'[w] = "pending" => outcome[w] = "pending"
    BY <1>2
  <2> QED
    BY <2>1, <2>2 DEF NoLimbo
<1>8. TupleAccount!(t)'
  <2> SUFFICES ASSUME NEW i \in DOMAIN Assignments
               PROVE  TupleAccount!(t)!2!(i)'
    OBVIOUS
  <2>1. TupleAccount!(t)!2!(i)
    BY <1>2 DEF TupleAccount
  <2>2. CASE i = idx[t]
    BY <1>1, <1>2, <2>2 DEF WriteId, WritesForPort
  <2>3. CASE i # idx[t]
    <3>1. /\ <<cur[t].n, i>> \in Ids /\ <<cur[t].n, i>> # WriteId(t)
      BY <1>2, <2>3, TupleIds DEF WriteId, InProcess
    <3>2. outcome'[<<cur[t].n, i>>] = outcome[<<cur[t].n, i>>]
      BY <3>1
    <3>3. i \in 1..Len(Assignments)
      BY AssignmentNumbers
    <3>4. i < idx'[t] <=> i < idx[t]
      BY <1>1, <1>2, <2>3, <3>3, AssignmentNumbers
    <3>5. i > idx'[t] => i > idx[t]
      BY <1>1, <1>2, <3>3, AssignmentNumbers
    <3> QED
      BY <1>1, <2>1, <3>2, <3>4, <3>5 DEF WritesForPort
  <2> QED
    BY <2>2, <2>3
<1>9. InFlight!(t)'
  <2>1. idx'[t] <= Len(Assignments) => outcome'[WriteId(t)'] = "none"
    <3> SUFFICES ASSUME idx'[t] <= Len(Assignments)
                 PROVE  outcome'[WriteId(t)'] = "none"
      OBVIOUS
    <3>1. idx'[t] \in DOMAIN Assignments /\ idx'[t] > idx[t]
      BY <1>1, <1>2, AssignmentNumbers
    <3>2. outcome[<<cur[t].n, idx'[t]>>] = "none"
      BY <1>2, <3>1 DEF TupleAccount
    <3>3. WriteId(t)' = <<cur[t].n, idx'[t]>> /\ WriteId(t)' # WriteId(t)
      BY <1>1, <1>2, <3>1 DEF WriteId
    <3>4. WriteId(t)' \in Ids
      BY <1>2, <3>1, <3>3, TupleIds DEF InProcess
    <3> QED
      BY <3>2, <3>3, <3>4
  <2> QED
    BY <1>1, <2>1 DEF AfterSend
<1>10. InFlight' /\ TupleAccount' /\ ErrorTupleTrue'
  <2>1. \A u \in Threads \ {t} : \A w \in Ids :
          InProcess(u) /\ w[1] = cur[u].n => w # WriteId(t)
    BY <1>2 DEF WriteId, Numbers, InProcess
  <2> QED
    BY <1>1, <1>8, <1>9, <2>1, AllThreads
<1> QED
  BY <1>3, <1>4, <1>5, <1>6, <1>7, <1>10

LEMMA SkipStep ==
  ASSUME IInv, NEW t \in Threads, Skip(t)
  PROVE  IInv'
<1> USE DEF IInv
<1>1. /\ pe = "running" /\ pe' = pe /\ pc[t] # "idle" /\ InProcess(t)
      /\ pc[t] = "assign" /\ idx[t] <= Len(Assignments)
      /\ ~WritesForPort(idx[t], cur[t].port)
  BY DEF Skip, AtAssignment, At, ForThisPort, Current, WritesForPort, InProcess
<1>2. outcome[WriteId(t)] = "none"
  BY <1>1 DEF InFlight
<1>3. ErrorTupleTrue!(t)
  BY <1>1 DEF ErrorTupleTrue
<1>4. ErrorTupleTrue!(t)'
  <2>1. \A w \in Errors(otuple[t].set) : w[2] < idx'[t]
    BY <1>1, Advance DEF Skip
  <2> QED
    BY <1>1, <1>3, <2>1 DEF Skip, Errors, ledgerVars
<1> QED
  BY <1>1, <1>2, <1>4, LoopStep
     DEF Skip, ledgerVars, TypeOK, WriterTypeOK

LEMMA SetAsIsStep ==
  ASSUME IInv, NEW t \in Threads, SetAsIs(t)
  PROVE  IInv'
<1> USE DEF IInv
<1>1. /\ pe = "running" /\ pc[t] # "idle" /\ InProcess(t)
      /\ pc[t] = "assign" /\ idx[t] <= Len(Assignments)
      /\ ~WritesForPort(idx[t], cur[t].port)
      /\ Assignments[idx[t]].fn # "Write"
  BY DEF SetAsIs, AtAssignment, At, Current, WritesForPort, InProcess
<1>2. outcome[WriteId(t)] = "none" /\ WriteId(t) \in Ids
  BY <1>1, WriteIdInIds DEF InFlight
<1>3. CASE Crash
  BY <1>3, CrashStep
<1>4. CASE /\ otuple' = [otuple EXCEPT ![t].set = @ \union {WriteId(t)}]
           /\ NextAssignment(t)
           /\ UNCHANGED <<driverVars, cur, errorFound, msg, ledgerVars, taken, pe>>
  <2>1. ErrorTupleTrue!(t) /\ otuple[t] \in [made : BOOLEAN, set : SUBSET Ids]
    BY <1>1 DEF ErrorTupleTrue, TypeOK, WriterTypeOK
  <2>2. /\ otuple'[t].made = otuple[t].made
        /\ otuple'[t].set = otuple[t].set \union {WriteId(t)}
        /\ otuple' \in [Threads -> [made : BOOLEAN, set : SUBSET Ids]]
        /\ \A u \in Threads \ {t} : otuple'[u] = otuple[u]
    <3>1. otuple \in [Threads -> [made : BOOLEAN, set : SUBSET Ids]]
      BY DEF TypeOK, WriterTypeOK
    <3>2. otuple' = [otuple EXCEPT ![t].set = @ \union {WriteId(t)}]
      BY <1>4
    <3>3. otuple'[t] = [otuple[t] EXCEPT !.set = @ \union {WriteId(t)}]
      BY <3>1, <3>2
    <3>4. otuple'[t].made = otuple[t].made /\ otuple'[t].set = otuple[t].set \union {WriteId(t)}
      BY <2>1, <3>3
    <3>5. otuple'[t] \in [made : BOOLEAN, set : SUBSET Ids]
      BY <1>2, <2>1, <3>3
    <3>6. /\ otuple' \in [Threads -> [made : BOOLEAN, set : SUBSET Ids]]
          /\ \A u \in Threads \ {t} : otuple'[u] = otuple[u]
      BY <3>1, <3>2, <3>5
    <3> QED
      BY <3>4, <3>6
  <2>3. Errors(otuple'[t].set) = Errors(otuple[t].set)
    BY <1>1, <2>2 DEF Errors, WriteId
  <2>4. ErrorTupleTrue!(t)'
    <3>1. \A w \in Errors(otuple[t].set) : w[2] < idx'[t]
      BY <1>1, <1>4, Advance
    <3>2. Errors(otuple[t].set)' = Errors(otuple'[t].set)
      BY DEF Errors
    <3> QED
      BY <1>1, <1>4, <2>1, <2>2, <2>3, <3>1, <3>2 DEF ledgerVars
  <2> QED
    BY <1>1, <1>2, <1>4, <2>2, <2>4, LoopStep DEF ledgerVars, TypeOK, WriterTypeOK
<1> QED
  BY <1>3, <1>4 DEF SetAsIs

LEMMA CountStep ==
  ASSUME IInv, NEW t \in Threads, Count(t)
  PROVE  IInv'
<1> USE DEF IInv
<1>1. /\ pe = "running" /\ pe' = pe /\ pc[t] = "count" /\ InProcess(t)
      /\ idx[t] <= Len(Assignments)
      /\ WritesForPort(idx[t], cur[t].port)
  BY DEF Count, At, InProcess, Place, AfterSend
<1>2. /\ outcome[WriteId(t)] = "pending" /\ Verdict(t, msg[t])
      /\ WriteId(t) \in Ids
  BY <1>1, WriteIdInIds DEF InFlight, AfterSend
<1>3. ErrorTupleTrue!(t) /\ otuple[t] \in [made : BOOLEAN, set : SUBSET Ids]
  BY <1>1 DEF ErrorTupleTrue, TypeOK, WriterTypeOK
<1>4. WriteId(t) # NoError
  BY <1>2
<1>5. CASE /\ msg[t] = NoError
           /\ metric' = metric + 1
           /\ outcome' = [outcome EXCEPT ![WriteId(t)] = "counted"]
           /\ UNCHANGED <<otuple, errorFound>>
  <2>1. WriteId(t) \in store
    BY <1>2, <1>4, <1>5 DEF Verdict
  <2>2. /\ outcome'[WriteId(t)] = "counted"
        /\ \A w \in Ids : w # WriteId(t) => outcome'[w] = outcome[w]
        /\ outcome' \in [Ids -> Outcomes]
        /\ metric' \in Nat
    BY <1>2, <1>5 DEF TypeOK, WriterTypeOK, Outcomes
  <2>3. ErrorTupleTrue!(t)'
    <3>1. Errors(otuple[t].set)' = Errors(otuple[t].set) /\ cur' = cur
      BY <1>5 DEF Errors, Count
    <3>2. \A w \in Errors(otuple[t].set) : w \in Ids /\ w # WriteId(t)
      BY <1>1, <1>3, <2>1 DEF Errors
    <3>3. \A w \in Errors(otuple[t].set) : w[2] < idx'[t]
      BY <1>1, Advance DEF Count
    <3> QED
      BY <1>1, <1>3, <1>5, <2>2, <3>1, <3>2, <3>3 DEF Count
  <2> QED
    BY <1>1, <1>2, <1>5, <2>1, <2>2, <2>3, LoopStep
       DEF Count, TypeOK, WriterTypeOK
<1>6. CASE /\ msg[t] # NoError
           /\ errorFound' = [errorFound EXCEPT ![t] = TRUE]
           /\ otuple' = [otuple EXCEPT ![t] = [made |-> TRUE,
                                               set |-> @.set \union {msg[t]}]]
           /\ UNCHANGED <<metric, outcome>>
  <2>1. msg[t] = WriteId(t) /\ WriteId(t) \notin store
    BY <1>2, <1>6 DEF Verdict
  <2>2. /\ otuple'[t].made /\ errorFound'[t]
        /\ otuple'[t].set = otuple[t].set \union {WriteId(t)}
        /\ otuple' \in [Threads -> [made : BOOLEAN, set : SUBSET Ids]]
        /\ errorFound' \in [Threads -> BOOLEAN]
        /\ \A u \in Threads \ {t} :
             otuple'[u] = otuple[u] /\ errorFound'[u] = errorFound[u]
    BY <1>2, <1>3, <1>6, <2>1 DEF TypeOK, WriterTypeOK
  <2>3. ErrorTupleTrue!(t)'
    <3>1. WriteId(t)[1] = cur[t].n /\ cur' = cur /\ store' = store
      BY DEF WriteId, Count
    <3>2. /\ WriteId(t)[2] < idx'[t]
          /\ \A w \in Errors(otuple[t].set) : w[2] < idx'[t]
      BY <1>1, Advance DEF Count
    <3>3. \A w \in Errors(otuple[t].set)' :
            w \in Errors(otuple[t].set) \/ w = WriteId(t)
      BY <2>2 DEF Errors
    <3> QED
      BY <1>1, <1>2, <1>3, <1>6, <2>1, <2>2, <3>1, <3>2, <3>3
  <2> QED
    BY <1>1, <1>2, <1>6, <2>2, <2>3, LoopStep
       DEF Count, TypeOK, WriterTypeOK
<1> QED
  BY <1>5, <1>6 DEF Count

\* What SetConn does to the connections.
LEMMA SetConnType ==
  ASSUME conn \in [Threads -> Connection], NEW t \in Threads,
         NEW c \in Connection, SetConn(t, c)
  PROVE  /\ conn' \in [Threads -> Connection]
         /\ conn'[t] = c
         /\ \A u \in Threads \ {t} : conn'[u] = conn[u]
BY DEF SetConn, ConnFor

\* The place of a thread inside a write.
LEMMA InWrite ==
  ASSUME IInv, NEW t \in Threads, pe = "running",
         pc[t] \in BeforeSend \union AfterSend
  PROVE  /\ idx[t] <= Len(Assignments)
         /\ WritesForPort(idx[t], cur[t].port)
         /\ pc[t] # "idle" /\ InProcess(t)
         /\ Conn(t) = conn[t] /\ Conn(t) \in Connection
         /\ Current(t).db \in Dbs
<1> USE DEF IInv
<1>1. idx[t] <= Len(Assignments) /\ WritesForPort(idx[t], cur[t].port)
  BY DEF Place
<1>2. idx[t] \in 1..(Len(Assignments) + 1)
  BY DEF TypeOK, WriterTypeOK
<1>3. Current(t) \in Assignment
  BY <1>1, <1>2, AssignmentNumbers DEF Current
<1>4. Conn(t) = conn[t] /\ Conn(t) \in Connection
  BY DEF Conn, ConnFor, TypeOK, DriverTypeOK
<1> QED
  BY <1>1, <1>3, <1>4 DEF Assignment, BeforeSend, AfterSend, InProcess

LEMMA BuildDocumentStep ==
  ASSUME IInv, NEW t \in Threads, BuildDocument(t)
  PROVE  IInv'
<1>1. /\ pe = "running" /\ pc[t] = "assign" /\ pc[t] # "idle"
      /\ idx[t] <= Len(Assignments) /\ WritesForPort(idx[t], cur[t].port)
  BY DEF BuildDocument, AtAssignment, At, ForThisPort, Current, WritesForPort
<1>2. conn \in [Threads -> Connection]
  BY DEF IInv, TypeOK, DriverTypeOK
<1>3. CASE Throw(t) /\ UNCHANGED driverVars
  BY <1>1, <1>2, <1>3, ThrowStep DEF driverVars
<1>4. CASE /\ Goto(t, IF FindQueryPort = AnyPort THEN "connect" ELSE "query")
           /\ UNCHANGED <<driverVars, cur, idx, otuple, errorFound, msg, ledgerVars,
                          taken, pe>>
  <2>1. PICK s \in BeforeSend : Goto(t, s)
    BY <1>4 DEF BeforeSend
  <2> QED
    BY <1>1, <1>2, <1>4, <2>1, TowardsSend DEF Goto, driverVars
<1> QED
  BY <1>3, <1>4 DEF BuildDocument

LEMMA BuildFindQueryStep ==
  ASSUME IInv, NEW t \in Threads, BuildFindQuery(t)
  PROVE  IInv'
<1>1. pe = "running" /\ pc[t] = "query" /\ pc[t] \in BeforeSend
  BY DEF BuildFindQuery, At, BeforeSend
<1>2. conn \in [Threads -> Connection]
  BY DEF IInv, TypeOK, DriverTypeOK
<1>3. CASE Throw(t) /\ UNCHANGED driverVars
  BY <1>1, <1>2, <1>3, ThrowStep DEF driverVars
<1>4. CASE Crash
  BY <1>4, CrashStep
<1>5. CASE /\ Goto(t, "connect")
           /\ UNCHANGED <<driverVars, cur, idx, otuple, errorFound, msg, ledgerVars,
                          taken, pe>>
  <2>1. "connect" \in BeforeSend
    BY DEF BeforeSend
  <2> QED
    BY <1>1, <1>2, <1>5, <2>1, InWrite, TowardsSend DEF Goto, driverVars
<1> QED
  BY <1>3, <1>4, <1>5 DEF BuildFindQuery

\* A step inside getDBClientConnection, isFailed or setDbProfilingLevel: the
\* thread goes on, with whatever connection, towards the request, or throws.
LEMMA ConnectionStep ==
  ASSUME IInv, NEW t \in Threads, pe = "running", pc[t] \in BeforeSend,
         conn' \in [Threads -> Connection],
         \A u \in Threads \ {t} : conn'[u] = conn[u],
         UNCHANGED <<serverUp, faults>>,
         \/ Throw(t)
         \/ /\ \E s \in BeforeSend : Goto(t, s)
            /\ UNCHANGED <<cur, idx, otuple, errorFound, msg, ledgerVars, taken, pe>>
  PROVE  IInv'
<1>1. CASE Throw(t)
  BY <1>1, InWrite, ThrowStep
<1>2. CASE /\ \E s \in BeforeSend : Goto(t, s)
           /\ UNCHANGED <<cur, idx, otuple, errorFound, msg, ledgerVars, taken, pe>>
  <2>1. PICK s \in BeforeSend : Goto(t, s)
    BY <1>2
  <2> QED
    BY <1>2, <2>1, InWrite, TowardsSend DEF Goto
<1> QED
  BY <1>1, <1>2

LEMMA GetConnectionStep ==
  ASSUME IInv, NEW t \in Threads, GetConnection(t)
  PROVE  IInv'
<1>1. pe = "running" /\ pc[t] = "connect" /\ pc[t] \in BeforeSend
  BY DEF GetConnection, Step, At, BeforeSend
<1>2. Conn(t) \in Connection /\ conn \in [Threads -> Connection]
  BY <1>1, InWrite DEF IInv, TypeOK, DriverTypeOK
<1>3. Connected(Conn(t)) \in Connection /\ ConnectFailed(Conn(t)) \in Connection
  BY <1>1, <1>2, InWrite, ConnectionTypes
<1>4. \/ Throw(t)
      \/ /\ \E s \in BeforeSend : Goto(t, s)
         /\ UNCHANGED <<cur, idx, otuple, errorFound, msg, ledgerVars, taken, pe>>
  BY DEF GetConnection, Step, Caught, BeforeSend
<1>5. UNCHANGED driverVars \/ SetConn(t, Connected(Conn(t)))
        \/ SetConn(t, ConnectFailed(Conn(t)))
  BY DEF GetConnection
<1>6. /\ conn' \in [Threads -> Connection]
      /\ \A u \in Threads \ {t} : conn'[u] = conn[u]
  BY <1>2, <1>3, <1>5, SetConnType DEF driverVars
<1>7. UNCHANGED <<serverUp, faults>>
  BY DEF GetConnection, driverVars
<1> QED
  BY <1>1, <1>4, <1>6, <1>7, ConnectionStep

LEMMA AuthenticateStep ==
  ASSUME IInv, NEW t \in Threads, Authenticate(t)
  PROVE  IInv'
<1>1. pe = "running" /\ pc[t] = "auth" /\ pc[t] \in BeforeSend
  BY DEF Authenticate, At, BeforeSend
<1>2. Conn(t) \in Connection /\ conn \in [Threads -> Connection]
  BY <1>1, InWrite DEF IInv, TypeOK, DriverTypeOK
<1>3. \A a : Authenticated(Conn(t), Current(t).db, a) \in Connection
  BY <1>1, <1>2, InWrite, ConnectionTypes
<1>4. Broken(Authenticated(Conn(t), Current(t).db, "rejected")) \in Connection
  BY <1>1, <1>3, InWrite, ConnectionTypes
<1>5. \/ Throw(t)
      \/ /\ \E s \in BeforeSend : Goto(t, s)
         /\ UNCHANGED <<cur, idx, otuple, errorFound, msg, ledgerVars, taken, pe>>
  BY DEF Authenticate, Step, Caught, BeforeSend
<1>6. PICK c \in Connection : SetConn(t, c)
  BY <1>3, <1>4 DEF Authenticate
<1> QED
  BY <1>1, <1>2, <1>5, <1>6, SetConnType, ConnectionStep DEF Authenticate

LEMMA CheckFailedStep ==
  ASSUME IInv, NEW t \in Threads, CheckFailed(t)
  PROVE  IInv'
<1>1. pe = "running" /\ pc[t] = "check" /\ pc[t] \in BeforeSend
  BY DEF CheckFailed, Step, At, BeforeSend
<1>2. conn \in [Threads -> Connection] /\ UNCHANGED driverVars
  BY DEF CheckFailed, IInv, TypeOK, DriverTypeOK
<1>3. \/ Throw(t)
      \/ /\ \E s \in BeforeSend : Goto(t, s)
         /\ UNCHANGED <<cur, idx, otuple, errorFound, msg, ledgerVars, taken, pe>>
  BY DEF CheckFailed, Step, BeforeSend
<1> QED
  BY <1>1, <1>2, <1>3, ConnectionStep DEF driverVars

LEMMA SetProfilingStep ==
  ASSUME IInv, NEW t \in Threads, SetProfiling(t)
  PROVE  IInv'
<1>1. pe = "running" /\ pc[t] = "profile" /\ pc[t] \in BeforeSend
  BY DEF SetProfiling, At, BeforeSend
<1>2. Conn(t) \in Connection /\ conn \in [Threads -> Connection]
  BY <1>1, InWrite DEF IInv, TypeOK, DriverTypeOK
<1>3. Ready(Conn(t)) \subseteq Connection /\ AfterFailure(Conn(t)) \in Connection
  BY <1>1, <1>2, InWrite, ConnectionTypes
<1>4. \/ Throw(t)
      \/ /\ \E s \in BeforeSend : Goto(t, s)
         /\ UNCHANGED <<cur, idx, otuple, errorFound, msg, ledgerVars, taken, pe>>
  BY DEF SetProfiling, Step, DriverThrows, BeforeSend
<1>5. PICK c \in Connection : SetConn(t, c)
  BY <1>3 DEF SetProfiling, DriverThrows
<1> QED
  BY <1>1, <1>2, <1>4, <1>5, SetConnType, ConnectionStep DEF SetProfiling

\* A step inside a write, from the request to the message read: the write of
\* the thread is pending, and the server may come to hold it.
LEMMA WriteStep ==
  ASSUME IInv, NEW t \in Threads, NEW s \in AfterSend,
         pe = "running", pe' = pe,
         pc[t] \in BeforeSend \union AfterSend,
         pc' = [pc EXCEPT ![t] = s],
         conn' \in [Threads -> Connection],
         \A u \in Threads \ {t} : conn'[u] = conn[u] /\ msg'[u] = msg[u],
         msg' \in [Threads -> Ids \union {NoError}],
         outcome' = [outcome EXCEPT ![WriteId(t)] = "pending"],
         outcome[WriteId(t)] \in {"none", "pending"},
         store' = store \/ (store' = store \union {WriteId(t)}),
         InFlight!(t)',
         UNCHANGED <<serverUp, faults, cur, idx, otuple, errorFound, metric, taken>>
  PROVE  IInv'
<1> USE DEF IInv
<1>1. /\ idx[t] <= Len(Assignments) /\ WritesForPort(idx[t], cur[t].port)
      /\ pc[t] # "idle" /\ InProcess(t) /\ WriteId(t) \in Ids
  BY InWrite, WriteIdInIds
<1>2. /\ pc'[t] = s /\ s # "idle" /\ pc'[t] # "idle"
      /\ \A u \in Threads \ {t} : pc'[u] = pc[u]
      /\ outcome'[WriteId(t)] = "pending"
      /\ \A w \in Ids : w # WriteId(t) =>
           outcome'[w] = outcome[w] /\ (w \in store' <=> w \in store)
  BY <1>1 DEF TypeOK, WriterTypeOK, AfterSend
<1>3. TypeOK'
  <2>1. outcome' \in [Ids -> Outcomes] /\ store' \subseteq Ids
    BY <1>1 DEF TypeOK, WriterTypeOK, Outcomes
  <2>2. pc' \in [Threads -> Steps]
    BY DEF TypeOK, WriterTypeOK, Steps, AfterSend
  <2> QED
    BY <2>1, <2>2 DEF TypeOK, WriterTypeOK, DriverTypeOK
<1>4. Place'
  BY <1>1, <1>2 DEF Place, WritesForPort
<1>5. Numbers'
  <2>1. WriteId(t)[1] = cur[t].n /\ ~(cur[t].n > taken)
    BY <1>1 DEF WriteId, Numbers, TypeOK, WriterTypeOK
  <2>2. \A w \in Ids : w[1] > taken => outcome'[w] = "none"
    BY <1>2, <2>1 DEF Numbers
  <2> QED
    BY <1>1, <1>2, <2>2 DEF Numbers
<1>6. Held'
  BY <1>1, <1>2 DEF Held
<1>7. \A u \in Threads : InProcess(u)' <=> InProcess(u)
  BY <1>1, <1>2 DEF InProcess
<1>8. NoLimbo'
  <2>1. WriteId(t)[1] = cur[t].n
    BY DEF WriteId
  <2> QED
    BY <1>1, <1>2, <1>7, <2>1 DEF NoLimbo
<1>9. TupleAccount!(t)'
  <2> SUFFICES ASSUME NEW i \in DOMAIN Assignments
               PROVE  TupleAccount!(t)!2!(i)'
    OBVIOUS
  <2>1. TupleAccount!(t)!2!(i) /\ <<cur[t].n, i>> \in Ids
    BY <1>1, TupleIds DEF TupleAccount
  <2>2. CASE i = idx[t]
    BY <1>1, <2>2, AssignmentNumbers DEF WritesForPort, TypeOK, WriterTypeOK
  <2>3. CASE i # idx[t]
    <3>1. <<cur[t].n, i>> # WriteId(t)
      BY <2>3 DEF WriteId
    <3> QED
      BY <1>2, <2>1, <3>1 DEF WritesForPort
  <2> QED
    BY <2>2, <2>3
<1>10. ErrorTupleTrue!(t)'
  <2>1. ErrorTupleTrue!(t) /\ Errors(otuple[t].set)' = Errors(otuple[t].set)
    BY DEF ErrorTupleTrue, Errors
  <2>2. \A w \in Errors(otuple[t].set) : w \in Ids /\ w # WriteId(t)
    <3>1. ~(idx[t] < idx[t])
      BY AssignmentNumbers DEF TypeOK, WriterTypeOK
    <3>2. \A w \in Errors(otuple[t].set) : w \in Ids /\ w[2] < idx[t]
      BY <1>1 DEF ErrorTupleTrue, Errors, TypeOK, WriterTypeOK
    <3> QED
      BY <3>1, <3>2 DEF WriteId
  <2> QED
    BY <1>1, <1>2, <2>1, <2>2
<1>11. InFlight' /\ TupleAccount' /\ ErrorTupleTrue'
  <2>1. \A u \in Threads \ {t} : \A w \in Ids :
          InProcess(u) /\ w[1] = cur[u].n => w # WriteId(t)
    BY <1>1 DEF WriteId, Numbers, InProcess
  <2> QED
    BY <1>2, <1>9, <1>10, <2>1, AllThreads
<1> QED
  BY <1>3, <1>4, <1>5, <1>6, <1>8, <1>11

LEMMA SendStep ==
  ASSUME IInv, NEW t \in Threads, Send(t)
  PROVE  IInv'
<1> USE DEF IInv
<1>1. pe = "running" /\ pc[t] = "send" /\ pc[t] \in BeforeSend
  BY DEF Send, At, BeforeSend
<1>2. /\ conn[t] \in Connection /\ Conn(t) = conn[t] /\ conn \in [Threads -> Connection]
      /\ InProcess(t) /\ pc[t] # "idle" /\ idx[t] <= Len(Assignments)
  BY <1>1, InWrite DEF TypeOK, DriverTypeOK
<1>3. /\ outcome[WriteId(t)] = "none" /\ WriteId(t) \in Ids /\ WriteId(t) \notin store
  BY <1>1, <1>2, WriteIdInIds DEF InFlight, Held
<1>4. CASE DriverThrows(t)
  <2>1. AfterFailure(Conn(t)) \in Connection
    BY <1>1, <1>2, InWrite, ConnectionTypes
  <2> QED
    BY <1>1, <1>2, <1>4, <2>1, SetConnType, ThrowStep DEF DriverThrows, Send
<1>5. ASSUME NEW c \in Ready(Conn(t)),
             SetConn(t, [c EXCEPT !.wire = "asked"]),
             outcome' = [outcome EXCEPT ![WriteId(t)] = "pending"],
             Goto(t, "reply"),
             UNCHANGED <<serverUp, faults, cur, idx, otuple, errorFound, msg, metric,
                         store, taken, pe>>
      PROVE  IInv'
  <2>1. c \in Connection /\ ~c.failed
    BY <1>1, <1>2, InWrite, ConnectionTypes, ReadyIsNotFailed
  <2>2. [c EXCEPT !.wire = "asked"] \in Connection
    BY <2>1 DEF Connection
  <2>3. /\ conn' \in [Threads -> Connection]
        /\ conn'[t] = [c EXCEPT !.wire = "asked"]
        /\ \A u \in Threads \ {t} : conn'[u] = conn[u]
    BY <1>2, <1>5, <2>2, SetConnType
  <2>4. conn'[t].wire = "asked" /\ ~conn'[t].failed
    BY <2>1, <2>3 DEF Connection
  <2>5. pc'[t] = "reply" /\ "reply" \in AfterSend /\ "reply" \notin BeforeSend
    BY <1>5 DEF Goto, AfterSend, BeforeSend, TypeOK, WriterTypeOK
  <2>6. WriteId(t)' = WriteId(t) /\ outcome'[WriteId(t)] = "pending" /\ pe' = pe
    BY <1>3, <1>5 DEF WriteId, TypeOK, WriterTypeOK
  <2>7. InFlight!(t)'
    BY <1>3, <1>5, <2>4, <2>5, <2>6 DEF Conn, ConnFor
  <2> QED
    BY <1>1, <1>3, <1>5, <2>3, <2>5, <2>6, <2>7, WriteStep
       DEF Goto, TypeOK, WriterTypeOK
<1> QED
  BY <1>4, <1>5 DEF Send

LEMMA ServerAnswersStep ==
  ASSUME IInv, NEW t \in Threads, ServerAnswers(t)
  PROVE  IInv'
<1> USE DEF IInv
<1>1. pe = "running" /\ pe' = pe /\ pc[t] = "reply" /\ pc[t] \in AfterSend
  BY DEF ServerAnswers, At, AfterSend
<1>2. /\ conn[t] \in Connection /\ Conn(t) = conn[t] /\ conn \in [Threads -> Connection]
      /\ InProcess(t) /\ pc[t] # "idle" /\ idx[t] <= Len(Assignments)
  BY <1>1, InWrite DEF TypeOK, DriverTypeOK
<1>3. /\ outcome[WriteId(t)] = "pending" /\ WriteId(t) \in Ids
      /\ ~conn[t].failed /\ WriteId(t) \notin store
  BY <1>1, <1>2, WriteIdInIds DEF InFlight, ServerAnswers
<1>4. PICK m \in {NoError, WriteId(t)} :
        /\ SetConn(t, [Conn(t) EXCEPT !.wire = "answered", !.lastError = m])
        /\ IF m = NoError THEN store' = store \union {WriteId(t)} ELSE store' = store
  BY <1>3 DEF ServerAnswers
<1>5. [conn[t] EXCEPT !.wire = "answered", !.lastError = m] \in Connection
  <2>1. m \in Requests \union {NoError}
    BY <1>3, WriterAssumption
  <2> QED
    BY <1>2, <2>1, AnswerFields
<1>6. /\ conn' \in [Threads -> Connection]
      /\ conn'[t] = [conn[t] EXCEPT !.wire = "answered", !.lastError = m]
      /\ \A u \in Threads \ {t} : conn'[u] = conn[u]
  BY <1>2, <1>4, <1>5, SetConnType
<1>7. conn'[t].wire = "answered" /\ conn'[t].lastError = m /\ ~conn'[t].failed
  BY <1>2, <1>3, <1>6 DEF Connection
<1>8. NoError # WriteId(t)
  BY <1>3
<1>9. /\ WriteId(t)' = WriteId(t) /\ pc'[t] = "reply" /\ outcome' = outcome
      /\ "reply" \notin BeforeSend
  BY <1>1 DEF ServerAnswers, localVars, WriteId, BeforeSend
<1>10. InFlight!(t)'
  BY <1>3, <1>4, <1>7, <1>8, <1>9 DEF Conn, ConnFor, Verdict
<1>11. outcome' = [outcome EXCEPT ![WriteId(t)] = "pending"]
       /\ pc' = [pc EXCEPT ![t] = "reply"]
  BY <1>1, <1>3, <1>9 DEF ServerAnswers, localVars, TypeOK, WriterTypeOK
<1>12. /\ UNCHANGED <<serverUp, faults, cur, idx, otuple, errorFound, metric, taken>>
       /\ msg' \in [Threads -> Ids \union {NoError}]
       /\ \A u \in Threads \ {t} : msg'[u] = msg[u]
       /\ store' = store \/ (store' = store \union {WriteId(t)})
  BY <1>4 DEF ServerAnswers, localVars, TypeOK, WriterTypeOK
<1> QED
  BY <1>1, <1>3, <1>6, <1>10, <1>11, <1>12, WriteStep

LEMMA ReceiveReplyStep ==
  ASSUME IInv, NEW t \in Threads, ReceiveReply(t)
  PROVE  IInv'
<1> USE DEF IInv
<1>1. pe = "running" /\ pc[t] = "reply" /\ pc[t] \in AfterSend
  BY DEF ReceiveReply, At, AfterSend
<1>2. /\ conn[t] \in Connection /\ Conn(t) = conn[t] /\ conn \in [Threads -> Connection]
      /\ InProcess(t) /\ pc[t] # "idle" /\ idx[t] <= Len(Assignments)
  BY <1>1, InWrite DEF TypeOK, DriverTypeOK
<1>3. /\ outcome[WriteId(t)] = "pending" /\ WriteId(t) \in Ids
      /\ ~conn[t].failed /\ Verdict(t, conn[t].lastError)
  BY <1>1, <1>2, WriteIdInIds DEF InFlight, ReceiveReply
<1>4. [conn[t] EXCEPT !.wire = "quiet"] \in Connection
  BY <1>2 DEF Connection
<1>5. /\ conn' \in [Threads -> Connection]
      /\ conn'[t] = [conn[t] EXCEPT !.wire = "quiet"]
      /\ \A u \in Threads \ {t} : conn'[u] = conn[u]
  BY <1>2, <1>4, SetConnType DEF ReceiveReply
<1>6. CASE Throw(t)
  BY <1>1, <1>2, <1>5, <1>6, ThrowStep DEF ReceiveReply
<1>7. CASE Step(t, "reply", "gle")
  <2>1. /\ pc' = [pc EXCEPT ![t] = "gle"] /\ "gle" \in AfterSend
        /\ pc'[t] = "gle" /\ "gle" \notin BeforeSend
        /\ outcome' = outcome /\ store' = store
        /\ WriteId(t)' = WriteId(t)
        /\ UNCHANGED <<cur, idx, otuple, errorFound, msg, metric, taken, pe>>
    BY <1>7 DEF Step, Goto, ledgerVars, WriteId, AfterSend, BeforeSend, TypeOK,
       WriterTypeOK
  <2>2. conn'[t].lastError = conn[t].lastError /\ ~conn'[t].failed
    BY <1>2, <1>3, <1>5 DEF Connection
  <2>3. InFlight!(t)'
    BY <1>3, <2>1, <2>2 DEF Conn, ConnFor, Verdict
  <2>4. outcome' = [outcome EXCEPT ![WriteId(t)] = "pending"]
    BY <1>3, <2>1 DEF TypeOK, WriterTypeOK
  <2> QED
    BY <1>1, <1>3, <1>5, <2>1, <2>3, <2>4, WriteStep
       DEF ReceiveReply, TypeOK, WriterTypeOK
<1> QED
  BY <1>6, <1>7 DEF ReceiveReply

LEMMA ReplyLostStep ==
  ASSUME IInv, NEW t \in Threads, ReplyLost(t)
  PROVE  IInv'
<1>1. pe = "running" /\ pc[t] = "reply" /\ pc[t] \in AfterSend
  BY DEF ReplyLost, At, AfterSend
<1>2. /\ Conn(t) \in Connection /\ conn \in [Threads -> Connection]
      /\ pc[t] # "idle" /\ Current(t).db \in Dbs
  BY <1>1, InWrite DEF IInv, TypeOK, DriverTypeOK
<1>3. Broken(Conn(t)) \in Connection
  BY <1>2, ConnectionTypes
<1> QED
  BY <1>1, <1>2, <1>3, SetConnType, ThrowStep DEF ReplyLost

LEMMA GetLastErrorStep ==
  ASSUME IInv, NEW t \in Threads, GetLastError(t)
  PROVE  IInv'
<1> USE DEF IInv
<1>1. pe = "running" /\ pc[t] = "gle" /\ pc[t] \in AfterSend
  BY DEF GetLastError, At, AfterSend
<1>2. /\ conn[t] \in Connection /\ Conn(t) = conn[t] /\ conn \in [Threads -> Connection]
      /\ InProcess(t) /\ pc[t] # "idle" /\ idx[t] <= Len(Assignments)
      /\ Current(t).db \in Dbs
  BY <1>1, InWrite DEF TypeOK, DriverTypeOK
<1>3. /\ outcome[WriteId(t)] = "pending" /\ WriteId(t) \in Ids
      /\ ~conn[t].failed /\ Verdict(t, conn[t].lastError)
  BY <1>1, <1>2, WriteIdInIds DEF InFlight
<1>4. CASE DriverThrows(t)
  <2>1. AfterFailure(Conn(t)) \in Connection
    BY <1>2, ConnectionTypes
  <2> QED
    BY <1>1, <1>2, <1>4, <2>1, SetConnType, ThrowStep DEF DriverThrows, GetLastError
<1>5. ASSUME NEW c \in Ready(Conn(t)),
             SetConn(t, c),
             msg' = [msg EXCEPT ![t] = c.lastError],
             Goto(t, "count"),
             UNCHANGED <<serverUp, faults, cur, idx, otuple, errorFound, ledgerVars,
                         taken, pe>>
      PROVE  IInv'
  <2>1. c = conn[t]
    BY <1>2, <1>3 DEF Ready
  <2>2. /\ conn' \in [Threads -> Connection]
        /\ \A u \in Threads \ {t} : conn'[u] = conn[u]
    BY <1>2, <1>5, <2>1, SetConnType
  <2>3. conn[t].lastError \in Ids \union {NoError}
    BY <1>2 DEF Connection
  <2>4. /\ pc' = [pc EXCEPT ![t] = "count"] /\ "count" \in AfterSend
        /\ pc'[t] = "count" /\ "count" \notin BeforeSend
        /\ outcome' = outcome /\ store' = store /\ metric' = metric
        /\ msg'[t] = conn[t].lastError
        /\ \A u \in Threads \ {t} : msg'[u] = msg[u]
        /\ msg' \in [Threads -> Ids \union {NoError}]
        /\ WriteId(t)' = WriteId(t)
    BY <1>5, <2>1, <2>3 DEF Goto, ledgerVars, WriteId, AfterSend, BeforeSend, TypeOK,
       WriterTypeOK
  <2>5. InFlight!(t)'
    BY <1>3, <2>4 DEF Verdict
  <2>6. outcome' = [outcome EXCEPT ![WriteId(t)] = "pending"]
    BY <1>3, <2>4 DEF TypeOK, WriterTypeOK
  <2> QED
    BY <1>1, <1>3, <1>5, <2>2, <2>4, <2>5, <2>6, WriteStep
<1> QED
  BY <1>4, <1>5 DEF GetLastError

LEMMA FinishStep ==
  ASSUME IInv, NEW t \in Threads, Finish(t)
  PROVE  IInv'
<1> USE DEF IInv
<1>1. /\ pe = "running" /\ pe' = pe /\ pc[t] = "assign" /\ InProcess(t)
      /\ idx[t] > Len(Assignments) /\ pc[t] # "idle"
      /\ store' = store /\ taken' = taken /\ conn' = conn
  BY DEF Finish, At, InProcess, driverVars
<1>2. /\ pc'[t] = "idle"
      /\ \A u \in Threads \ {t} :
           /\ pc'[u] = pc[u] /\ cur'[u] = cur[u] /\ idx'[u] = idx[u]
           /\ otuple'[u] = otuple[u] /\ errorFound'[u] = errorFound[u]
           /\ msg'[u] = msg[u] /\ conn'[u] = conn[u]
  BY <1>1 DEF Finish, Locals, TypeOK, WriterTypeOK
<1>3. \A w \in Ids :
        \/ outcome'[w] = outcome[w]
        \/ /\ outcome[w] = "pending" /\ outcome'[w] = "reported"
           /\ w \notin store /\ w[1] = cur[t].n
  <2>1. ErrorTupleTrue!(t)
    BY DEF ErrorTupleTrue
  <2> QED
    BY <1>1, <2>1 DEF Finish
<1>4. TypeOK'
  <2>1. outcome' \in [Ids -> Outcomes]
    BY DEF Finish, TypeOK, WriterTypeOK, Outcomes
  <2>2. 0 \in 0..MaxTuples /\ 1 \in 1..(Len(Assignments) + 1)
    BY AssignmentNumbers
  <2> QED
    BY <2>1, <2>2 DEF Finish, Locals, TypeOK, WriterTypeOK, DriverTypeOK, driverVars,
       Steps, NoTuple, Null
<1>5. Place'
  BY <1>2 DEF Place, WritesForPort, BeforeSend, AfterSend
<1>6. Numbers'
  BY <1>1, <1>2, <1>3 DEF Numbers
<1>7. Held'
  BY <1>1, <1>3 DEF Held
<1>8. NoLimbo'
  <2> SUFFICES ASSUME NEW w \in Ids, outcome'[w] = "pending"
               PROVE  \E u \in Threads : InProcess(u)' /\ cur'[u].n = w[1]
    BY DEF NoLimbo
  <2>1. outcome[w] = "pending"
    BY <1>3
  <2>2. PICK u \in Threads : InProcess(u) /\ cur[u].n = w[1]
    BY <2>1 DEF NoLimbo
  <2>3. CASE u = t
    <3>1. w = <<cur[t].n, w[2]>> /\ w[2] \in DOMAIN Assignments /\ w[2] < idx[t]
      BY <1>1, <2>2, <2>3, AssignmentNumbers DEF Ids, TypeOK, WriterTypeOK
    <3>2. errorFound[t] /\ w \in otuple[t].set /\ Assignments[w[2]].fn = "Write"
      BY <1>1, <2>1, <3>1 DEF TupleAccount, WritesForPort
    <3> QED
      BY <2>1, <3>2 DEF Finish, Errors
  <2>4. CASE u # t
    BY <1>1, <1>2, <2>2, <2>4 DEF InProcess
  <2> QED
    BY <2>3, <2>4
<1>9. InFlight' /\ TupleAccount' /\ ErrorTupleTrue'
  <2>1. \A u \in Threads \ {t} : \A w \in Ids :
          InProcess(u) /\ w[1] = cur[u].n => w[1] # cur[t].n
    BY <1>1 DEF Numbers, InProcess
  <2>2. \A u \in Threads \ {t} : \A w \in Ids :
          InProcess(u) /\ w[1] = cur[u].n =>
            outcome'[w] = outcome[w] /\ (w \in store' <=> w \in store)
    BY <1>1, <1>3, <2>1
  <2>3. ~InProcess(t)'
    BY <1>2 DEF InProcess
  <2> QED
    BY <1>1, <1>2, <2>2, <2>3, AllThreads
<1> QED
  BY <1>4, <1>5, <1>6, <1>7, <1>8, <1>9

\* The server and the network touch the connections only, and no flag or
\* answer a thread will use without looking at the link again.
LEMMA EnvironmentStep ==
  ASSUME IInv, Environment
  PROVE  IInv'
<1> USE DEF IInv, Environment, localVars, ledgerVars
<1>1. \A k \in Threads : conn'[k] = conn[k] \/ conn'[k] = CutLink(conn[k])
  BY DEF ServerStops, ServerStarts, LinkLost, TypeOK, DriverTypeOK
<1>2. \A k \in Threads : CutLink(conn[k]) \in Connection
  <2>1. \A k \in Threads : conn[k] \in Connection
    BY DEF TypeOK, DriverTypeOK
  <2> QED
    BY <2>1, CutFields
<1>3. /\ conn' \in [Threads -> Connection]
      /\ serverUp' \in BOOLEAN /\ faults' \in 0..MaxFaults
  <2>1. conn' \in [Threads -> Connection]
    BY <1>2 DEF ServerStops, ServerStarts, LinkLost, TypeOK, DriverTypeOK
  <2>2. serverUp' \in BOOLEAN
    BY DEF ServerStops, ServerStarts, LinkLost, TypeOK, DriverTypeOK
  <2>3. faults \in 0..MaxFaults /\ MaxFaults \in Nat
    BY DEF TypeOK, DriverTypeOK
  <2>4. faults' = faults \/ (faults < MaxFaults /\ faults' = faults + 1)
    BY DEF ServerStops, ServerStarts, LinkLost
  <2> QED
    BY <2>1, <2>2, <2>3, <2>4
<1>4. TypeOK'
  BY <1>3 DEF TypeOK, WriterTypeOK, DriverTypeOK
<1>5. \A k \in Threads :
        /\ conn'[k].failed = conn[k].failed
        /\ conn'[k].lastError = conn[k].lastError
        /\ conn'[k].wire = conn[k].wire \/ conn'[k].wire = "quiet"
  <2> SUFFICES ASSUME NEW k \in Threads
               PROVE  /\ conn'[k].failed = conn[k].failed
                      /\ conn'[k].lastError = conn[k].lastError
                      /\ conn'[k].wire = conn[k].wire \/ conn'[k].wire = "quiet"
    OBVIOUS
  <2>1. conn[k] \in Connection
    BY DEF TypeOK, DriverTypeOK
  <2>2. CASE conn'[k] = conn[k]
    BY <2>2
  <2>3. CASE conn'[k] = CutLink(conn[k])
    BY <2>1, <2>3, CutFields
  <2> QED
    BY <1>1, <2>2, <2>3
<1>6. Place' /\ Numbers' /\ Held' /\ NoLimbo' /\ TupleAccount' /\ ErrorTupleTrue'
  BY DEF Place, Numbers, Held, NoLimbo, TupleAccount, ErrorTupleTrue, InProcess,
     WritesForPort, Errors
<1>7. InFlight'
  <2> SUFFICES ASSUME NEW t \in Threads, InProcess(t)'
               PROVE  InFlight!(t)'
    BY DEF InFlight
  <2>1. InFlight!(t) /\ InProcess(t)
    BY DEF InFlight, InProcess
  <2> QED
    BY <1>5, <2>1 DEF Conn, ConnFor, WriteId, Verdict
<1> QED
  BY <1>4, <1>6, <1>7

----------------------------------------------------------------------------
(***************************************************************************)
(* The invariant.                                                          *)
(***************************************************************************)

LEMMA InitIInv ==
  ASSUME Init
  PROVE  IInv
<1> USE DEF Init, DriverInit
<1>1. NoConnection \in Connection
  BY DEF NoConnection, Connection
<1>2. 1 \in 1..(Len(Assignments) + 1) /\ 0 \in 0..MaxTuples /\ 0 \in 0..MaxFaults
  BY AssignmentNumbers
<1>3. TypeOK
  BY <1>1, <1>2 DEF TypeOK, WriterTypeOK, DriverTypeOK, Steps, Outcomes, NoTuple, Null
<1>4. Place /\ Numbers /\ Held /\ NoLimbo
  BY DEF Place, Numbers, Held, NoLimbo, BeforeSend, AfterSend
<1>5. InFlight /\ TupleAccount /\ ErrorTupleTrue
  BY DEF InFlight, TupleAccount, ErrorTupleTrue, InProcess
<1> QED
  BY <1>3, <1>4, <1>5 DEF IInv

LEMMA NextIInv ==
  ASSUME IInv, [Next]_vars
  PROVE  IInv'
<1>1. CASE UNCHANGED vars
  <2> USE <1>1 DEF vars, driverVars, localVars, ledgerVars
  <2>1. TypeOK'
    BY DEF IInv, TypeOK, WriterTypeOK, DriverTypeOK
  <2>2. Place' /\ Numbers' /\ Held' /\ NoLimbo'
    BY DEF IInv, Place, Numbers, Held, NoLimbo, InProcess, WritesForPort
  <2>3. InFlight'
    BY DEF IInv, InFlight, InProcess, WriteId, Verdict, Conn, ConnFor
  <2>4. TupleAccount' /\ ErrorTupleTrue'
    BY DEF IInv, TupleAccount, ErrorTupleTrue, InProcess, WritesForPort, Errors
  <2> QED
    BY <2>1, <2>2, <2>3, <2>4 DEF IInv
<1>2. ASSUME NEW t \in Threads, Receive(t) \/ Process(t) \/ ServerAnswers(t)
      PROVE  IInv'
  BY <1>2, ReceiveStep, SkipStep, SetAsIsStep, BuildDocumentStep, BuildFindQueryStep,
     GetConnectionStep, AuthenticateStep, CheckFailedStep, SetProfilingStep, SendStep,
     ReceiveReplyStep, ReplyLostStep, GetLastErrorStep, CountStep, FinishStep,
     ServerAnswersStep DEF Process
<1>3. CASE Environment
  BY <1>3, EnvironmentStep
<1>4. CASE Terminated
  BY <1>1, <1>4 DEF Terminated
<1> QED
  BY <1>1, <1>2, <1>3, <1>4 DEF Next

\* IInv holds in every reachable state, whatever the threads, the output clause,
\* the ports, the parameters and the faults.
THEOREM Invariance == Spec => []IInv
<1>1. Init => IInv
  BY InitIInv
<1>2. IInv /\ [Next]_vars => IInv'
  BY NextIInv
<1> QED
  BY <1>1, <1>2, PTL DEF Spec

\* Every variable has its type in every reachable state; in particular the loop
\* over the assignments never leaves the output clause.
THEOREM TypeCorrect == Spec => []TypeOK
<1>1. IInv => TypeOK
  BY DEF IInv
<1> QED
  BY <1>1, Invariance, PTL

\* The error message a thread reads is the outcome of the write it has just
\* made: the per-thread connection is enough, no lock is needed.
THEOREM Attribution == Spec => []ErrorAttribution
<1>1. IInv => ErrorAttribution
  BY DEF IInv, ErrorAttribution, InFlight, InProcess, At, Verdict
<1> QED
  BY <1>1, Invariance, PTL

\* When process() returns, every write of the tuple is counted or in the error
\* tuple that is submitted: no failed write goes unnoticed on that path.
THEOREM Accounting == Spec => []TupleAccount
<1>1. IInv => TupleAccount
  BY DEF IInv
<1> QED
  BY <1>1, Invariance, PTL

\* The error tuple speaks only of writes of this tuple that the server does not
\* hold, and is there when errorFound says so.
THEOREM ErrorTuples == Spec => []ErrorTupleTrue
<1>1. IInv => ErrorTupleTrue
  BY DEF IInv
<1> QED
  BY <1>1, Invariance, PTL

\* No write stays unsettled once no thread processes its tuple, exceptions
\* included.
THEOREM Settled == Spec => []NoLimbo
<1>1. IInv => NoLimbo
  BY DEF IInv
<1> QED
  BY <1>1, Invariance, PTL

----------------------------------------------------------------------------
(***************************************************************************)
(* The contract. Every step of the operator is a step of WriteContract or  *)
(* changes nothing the contract speaks of, and the metric moves with       *)
(* Contract!Confirm only.                                                  *)
(***************************************************************************)

\* The steps of the contract that leave the metric alone.
Uncounted ==
  \/ \E w \in Ids : Contract!Issue(w) \/ Contract!Apply(w)
  \/ \E ws \in SUBSET Ids : Contract!Report(ws) \/ Contract!Abandon(ws)
  \/ UNCHANGED <<store, outcome>>

ContractStep ==
  \/ metric' = metric + 1 /\ \E w \in Ids : Contract!Confirm(w)
  \/ metric' = metric /\ Uncounted

\* Leaving process() early abandons what is pending.
LEMMA AbandonIsAbandon ==
  ASSUME TypeOK, NEW ws, Abandon(ws), store' = store, metric' = metric
  PROVE  ContractStep
<1> DEFINE ps == {w \in Ids : w \in ws /\ outcome[w] = "pending"}
<1>1. outcome' = [w \in Ids |-> IF w \in ps THEN "abandoned" ELSE outcome[w]]
  BY DEF Abandon
<1>2. ps \in SUBSET Ids /\ ps \subseteq Contract!Pending
  BY DEF Contract!Pending
<1>3. Contract!Abandon(ps)
  BY <1>1, <1>2 DEF Contract!Abandon, Contract!Settle
<1> QED
  BY <1>2, <1>3 DEF ContractStep, Uncounted

LEMMA ThrowIsAbandon ==
  ASSUME TypeOK, NEW t \in Threads, Throw(t)
  PROVE  ContractStep
BY AbandonIsAbandon DEF Throw

LEMMA CrashIsAbandon ==
  ASSUME TypeOK, Crash
  PROVE  ContractStep
BY AbandonIsAbandon DEF Crash

LEMMA SendIsIssue ==
  ASSUME IInv, NEW t \in Threads, Send(t)
  PROVE  ContractStep
<1>1. CASE DriverThrows(t)
  BY <1>1, ThrowIsAbandon DEF DriverThrows, IInv
<1>2. CASE /\ outcome' = [outcome EXCEPT ![WriteId(t)] = "pending"]
           /\ store' = store /\ metric' = metric
  <2>1. pe = "running" /\ pc[t] = "send" /\ pc[t] \in BeforeSend
    BY DEF Send, At, BeforeSend
  <2>2. WriteId(t) \in Ids /\ outcome[WriteId(t)] = "none"
    BY <2>1, InWrite, WriteIdInIds DEF IInv, InFlight
  <2>3. Contract!Issue(WriteId(t))
    BY <1>2, <2>2 DEF Contract!Issue, Contract!Settle, IInv, TypeOK, WriterTypeOK
  <2> QED
    BY <1>2, <2>2, <2>3 DEF ContractStep, Uncounted
<1> QED
  BY <1>1, <1>2 DEF Send

LEMMA ServerAnswersIsApply ==
  ASSUME IInv, NEW t \in Threads, ServerAnswers(t)
  PROVE  ContractStep
<1>1. pe = "running" /\ pc[t] = "reply" /\ pc[t] \in AfterSend
  BY DEF ServerAnswers, At, AfterSend
<1>2. WriteId(t) \in Ids /\ outcome[WriteId(t)] = "pending"
  BY <1>1, InWrite, WriteIdInIds DEF IInv, InFlight
<1>3. CASE store' = store \union {WriteId(t)}
  <2>1. Contract!Apply(WriteId(t))
    BY <1>2, <1>3 DEF Contract!Apply, Contract!Pending, ServerAnswers
  <2> QED
    BY <1>2, <2>1 DEF ContractStep, Uncounted, ServerAnswers
<1>4. CASE store' = store
  BY <1>4 DEF ContractStep, Uncounted, ServerAnswers
<1> QED
  BY <1>3, <1>4 DEF ServerAnswers

LEMMA CountIsConfirm ==
  ASSUME IInv, NEW t \in Threads, Count(t)
  PROVE  ContractStep
<1>1. pe = "running" /\ pc[t] = "count" /\ pc[t] \in AfterSend
  BY DEF Count, At, AfterSend
<1>2. /\ WriteId(t) \in Ids /\ outcome[WriteId(t)] = "pending"
      /\ Verdict(t, msg[t]) /\ WriteId(t) # NoError
  BY <1>1, InWrite, WriteIdInIds DEF IInv, InFlight
<1>3. CASE /\ msg[t] = NoError
           /\ metric' = metric + 1
           /\ outcome' = [outcome EXCEPT ![WriteId(t)] = "counted"]
  <2>1. WriteId(t) \in Contract!Pending \intersect store
    BY <1>2, <1>3 DEF Verdict, Contract!Pending
  <2>2. Contract!Confirm(WriteId(t))
    BY <1>3, <2>1 DEF Contract!Confirm, Contract!Settle, Count, IInv, TypeOK,
       WriterTypeOK
  <2> QED
    BY <1>2, <1>3, <2>2 DEF ContractStep
<1>4. CASE UNCHANGED <<metric, outcome>>
  BY <1>4 DEF ContractStep, Uncounted, Count
<1> QED
  BY <1>3, <1>4 DEF Count

LEMMA FinishIsReport ==
  ASSUME IInv, NEW t \in Threads, Finish(t)
  PROVE  ContractStep
<1> DEFINE ws == IF errorFound[t] THEN Errors(otuple[t].set) ELSE {}
<1>1. ErrorTupleTrue!(t) /\ InProcess(t)
  BY DEF IInv, ErrorTupleTrue, Finish, At, InProcess
<1>2. ws \in SUBSET Ids /\ ws \subseteq Contract!Pending \ store
  BY <1>1 DEF Errors, Contract!Pending, IInv, TypeOK, WriterTypeOK
<1>3. outcome' = [w \in Ids |-> IF w \in ws THEN "reported" ELSE outcome[w]]
  BY DEF Finish
<1>4. Contract!Report(ws)
  BY <1>2, <1>3 DEF Contract!Report, Contract!Settle, Finish
<1> QED
  BY <1>2, <1>4 DEF ContractStep, Uncounted, Finish

\* A step that touches neither the server's writes, nor their fate, nor the
\* metric.
LEMMA QuietStep ==
  ASSUME UNCHANGED ledgerVars
  PROVE  ContractStep
BY DEF ledgerVars, ContractStep, Uncounted

LEMMA NextIsContractStep ==
  ASSUME IInv, [Next]_vars
  PROVE  ContractStep
<1> USE ThrowIsAbandon, CrashIsAbandon, QuietStep DEF IInv
<1>1. CASE UNCHANGED vars
  BY <1>1 DEF vars
<1>2. ASSUME NEW t \in Threads, Process(t)
      PROVE  ContractStep
  <2>1. CASE Skip(t) \/ SetAsIs(t)
    BY <2>1 DEF Skip, SetAsIs
  <2>2. CASE BuildDocument(t) \/ BuildFindQuery(t)
    BY <2>2 DEF BuildDocument, BuildFindQuery
  <2>3. CASE GetConnection(t) \/ Authenticate(t)
    BY <2>3 DEF GetConnection, Authenticate, Caught, Step
  <2>4. CASE CheckFailed(t) \/ SetProfiling(t)
    BY <2>4 DEF CheckFailed, SetProfiling, DriverThrows, Step
  <2>5. CASE Send(t)
    BY <2>5, SendIsIssue
  <2>6. CASE ReceiveReply(t) \/ ReplyLost(t)
    BY <2>6 DEF ReceiveReply, ReplyLost, Step
  <2>7. CASE GetLastError(t)
    BY <2>7 DEF GetLastError, DriverThrows
  <2>8. CASE Count(t)
    BY <2>8, CountIsConfirm
  <2>9. CASE Finish(t)
    BY <2>9, FinishIsReport
  <2> QED
    BY <1>2, <2>1, <2>2, <2>3, <2>4, <2>5, <2>6, <2>7, <2>8, <2>9 DEF Process
<1>3. ASSUME NEW t \in Threads, Receive(t)
      PROVE  ContractStep
  BY <1>3 DEF Receive
<1>4. ASSUME NEW t \in Threads, ServerAnswers(t)
      PROVE  ContractStep
  BY <1>4, ServerAnswersIsApply
<1>5. CASE Environment
  BY <1>5 DEF Environment
<1>6. CASE Terminated
  BY <1>1, <1>6 DEF Terminated
<1> QED
  BY <1>1, <1>2, <1>3, <1>4, <1>5, <1>6 DEF Next

\* The operator implements the contract: a write is issued once, is settled
\* once, and what is said of it when it is settled is what the server holds.
THEOREM Refinement == Spec => ImplementsContract
<1>1. Init => Contract!Init
  BY DEF Init, Contract!Init
<1>2. IInv /\ [Next]_vars => [Contract!Next]_<<store, outcome>>
  <2>1. ContractStep => [Contract!Next]_<<store, outcome>>
    BY DEF ContractStep, Uncounted, Contract!Next
  <2> QED
    BY <2>1, NextIsContractStep
<1> QED
  BY <1>1, <1>2, Invariance, PTL DEF Spec, ImplementsContract, Contract!Spec

----------------------------------------------------------------------------
(***************************************************************************)
(* The metric.                                                             *)
(***************************************************************************)

CountedWrites == {w \in Ids : outcome[w] = "counted"}

LEMMA IdsFinite == IsFiniteSet(Ids)
<1>1. IsFiniteSet(1..MaxTuples)
  BY FS_Interval
<1>2. IsFiniteSet(DOMAIN Assignments)
  BY AssignmentNumbers, FS_Interval
<1> QED
  BY <1>1, <1>2, FS_Product DEF Ids

LEMMA CountedFinite == IsFiniteSet(CountedWrites)
<1>1. CountedWrites \in SUBSET Ids
  BY DEF CountedWrites
<1> QED
  BY <1>1, IdsFinite, FS_Subset

\* A confirmed write joins the counted ones; no other step of the contract adds
\* to them or takes from them.
LEMMA MetricStep ==
  ASSUME IInv, ContractStep, metric = Cardinality(CountedWrites)
  PROVE  metric' = Cardinality(CountedWrites')
<1>1. CASE metric' = metric + 1 /\ \E w \in Ids : Contract!Confirm(w)
  <2>1. PICK w \in Ids : Contract!Confirm(w)
    BY <1>1
  <2>2. outcome[w] = "pending"
        /\ outcome' = [x \in Ids |-> IF x \in {w} THEN "counted" ELSE outcome[x]]
    BY <2>1 DEF Contract!Confirm, Contract!Pending, Contract!Settle
  <2>3. w \notin CountedWrites /\ CountedWrites' = CountedWrites \union {w}
    BY <2>2 DEF CountedWrites
  <2> QED
    BY <1>1, <2>3, CountedFinite, FS_AddElement
<1>2. CASE metric' = metric /\ Uncounted
  <2>1. CountedWrites' = CountedWrites
    <3>1. CASE \E w \in Ids : Contract!Issue(w)
      BY <3>1 DEF Contract!Issue, Contract!Settle, CountedWrites
    <3>2. CASE UNCHANGED outcome
      BY <3>2 DEF CountedWrites
    <3>3. CASE \E ws \in SUBSET Ids : Contract!Report(ws)
      BY <3>3 DEF Contract!Report, Contract!Settle, Contract!Pending, CountedWrites
    <3>4. CASE \E ws \in SUBSET Ids : Contract!Abandon(ws)
      BY <3>4 DEF Contract!Abandon, Contract!Settle, Contract!Pending, CountedWrites
    <3>5. \A w : Contract!Apply(w) => UNCHANGED outcome
      BY DEF Contract!Apply
    <3> QED
      BY <1>2, <3>1, <3>2, <3>3, <3>4, <3>5 DEF Uncounted
  <2> QED
    BY <1>2, <2>1
<1> QED
  BY <1>1, <1>2 DEF ContractStep

\* The metric is the number of writes that were confirmed, and the server holds
\* each of them: no increment is lost and none is made twice.
THEOREM MetricCorrect == Spec => []MetricExact
<1> DEFINE J == metric = Cardinality(CountedWrites)
<1>1. Init => J
  <2> SUFFICES ASSUME Init PROVE J
    OBVIOUS
  <2>1. CountedWrites = {}
    BY DEF Init, CountedWrites
  <2> QED
    BY <2>1, FS_EmptySet DEF Init
<1>2. IInv /\ J /\ [Next]_vars => J'
  BY NextIsContractStep, MetricStep
<1>3. IInv /\ J => MetricExact
  BY DEF IInv, Held, MetricExact, CountedWrites
<1> HIDE DEF J
<1> QED
  BY <1>1, <1>2, <1>3, Invariance, PTL DEF Spec

----------------------------------------------------------------------------
(***************************************************************************)
(* Authentication. It happens once, after the connect; it covers every     *)
(* write if the credentials are for all databases or the writes name one.  *)
(* A connect or a login that is cut short leaves a connection isFailed()   *)
(* refuses for good; one that is rejected leaves a sound connection, which *)
(* is not used again only if the exception ends the PE.                    *)
(***************************************************************************)
OneLogin ==
  AuthMode = "user" => \A i, j \in DOMAIN Assignments :
    Assignments[i].fn = "Write" /\ Assignments[j].fn = "Write"
      => Assignments[i].db = Assignments[j].db

RejectionIsFinal == ExceptionEndsPE \/ "rejected" \notin AuthOutcomes

Allowed(c) ==
  \A i \in DOMAIN Assignments :
    Assignments[i].fn = "Write" => Authorised(c, Assignments[i].db)

LoggedIn == {"check", "profile", "send", "reply", "gle"}

\* Every call of the driver over such a connection is allowed, or throws.
Harmless(c) == Allowed(c) \/ c.failed

AuthOf(t) ==
  /\ pc[t] \in LoggedIn => Harmless(conn[t])
  /\ pc[t] = "reply" => Allowed(conn[t])
  /\ pe = "running" /\ conn[t].made /\ pc[t] # "auth" => Harmless(conn[t])

AuthInv == \A t \in Threads : AuthOf(t)

\* A step of thread t may change only its own place and connection.
OwnPart(t) ==
  /\ pc' = pc \/ \E s : pc' = [pc EXCEPT ![t] = s]
  /\ conn' = conn \/ \E c : conn' = [conn EXCEPT ![t] = c]
  /\ pe' = "running" => pe = "running"

LEMMA OwnAuth ==
  ASSUME TypeOK, AuthInv, NEW t \in Threads, OwnPart(t), AuthOf(t)'
  PROVE  AuthInv'
<1> SUFFICES ASSUME NEW u \in Threads, u # t PROVE AuthOf(u)'
  BY DEF AuthInv
<1>1. pc'[u] = pc[u]
  BY DEF OwnPart, TypeOK, WriterTypeOK
<1>2. conn'[u] = conn[u]
  BY DEF OwnPart, TypeOK, DriverTypeOK
<1>3. AuthOf(u) /\ (pe' = "running" => pe = "running")
  BY DEF AuthInv, OwnPart
<1> QED
  BY <1>1, <1>2, <1>3 DEF AuthOf, Harmless, Allowed, Authorised

\* An exception ends the PE, or leaves behind a connection that is not used unallowed.
LEMMA ThrowAuth ==
  ASSUME TypeOK, AuthInv, NEW t \in Threads, Throw(t), pe = "running",
         conn' = conn \/ \E c : conn' = [conn EXCEPT ![t] = c],
         ExceptionEndsPE \/ (conn'[t].made => Harmless(conn'[t]))
  PROVE  AuthInv'
<1>1. /\ pe' = IF ExceptionEndsPE THEN "aborted" ELSE pe
      /\ pc' = [pc EXCEPT ![t] = "idle"]
  BY DEF Throw, Locals
<1>2. OwnPart(t)
  BY <1>1 DEF OwnPart
<1>3. pc'[t] = "idle"
  BY <1>1 DEF TypeOK, WriterTypeOK
<1>4. AuthOf(t)'
  BY <1>1, <1>3 DEF AuthOf, LoggedIn, Harmless, Allowed, Authorised
<1> QED
  BY <1>2, <1>4, OwnAuth

LEMMA SameAuth ==
  ASSUME TypeOK, AuthInv, pc' = pc, pe' = "running" => pe = "running",
         \A u \in Threads : /\ conn'[u].granted = conn[u].granted
                            /\ conn'[u].made = conn[u].made
                            /\ conn'[u].failed = conn[u].failed
  PROVE  AuthInv'
BY DEF AuthInv, AuthOf, Harmless, Allowed, Authorised

\* A step of a thread that leaves the permissions of its connection alone.
LEMMA KeepAuth ==
  ASSUME TypeOK, AuthInv, NEW t \in Threads, NEW to, pe' = pe, pe = "running",
         pc' = [pc EXCEPT ![t] = to], pc[t] # "auth",
         pc[t] \in LoggedIn \/ conn[t].made \/ to \notin LoggedIn,
         conn' = conn \/ \E c : conn' = [conn EXCEPT ![t] = c],
         conn'[t].granted = conn[t].granted, conn'[t].made = conn[t].made,
         conn'[t].failed = conn[t].failed,
         to = "reply" => ~conn[t].failed
  PROVE  AuthInv'
<1>1. OwnPart(t)
  BY DEF OwnPart
<1>2. pc'[t] = to
  BY DEF TypeOK, WriterTypeOK
<1>3. AuthOf(t)
  BY DEF AuthInv
<1>4. /\ Allowed(conn[t]) => Allowed(conn[t])'
      /\ Harmless(conn[t]) => Harmless(conn[t])'
  BY DEF Harmless, Allowed, Authorised
<1>5. AuthOf(t)'
  BY <1>2, <1>3, <1>4 DEF AuthOf, Harmless, LoggedIn
<1> QED
  BY <1>1, <1>5, OwnAuth

SamePermissions(c, d) ==
  d.granted = c.granted /\ d.made = c.made /\ d.failed = c.failed

\* What the driver does to a connection on its way leaves its permissions alone.
LEMMA Permissions ==
  ASSUME ~AutoReconnect, NEW c \in Connection
  PROVE  /\ Ready(c) \subseteq {c} /\ (c.failed => Ready(c) = {})
         /\ \A w : SamePermissions(c, [c EXCEPT !.wire = w])
         /\ \A w, e : SamePermissions(c, [c EXCEPT !.wire = w, !.lastError = e])
         /\ SamePermissions(c, CutLink(c))
<1>1. Ready(c) \subseteq {c} /\ (c.failed => Ready(c) = {})
  BY DEF Ready
<1>2. \A w : SamePermissions(c, [c EXCEPT !.wire = w])
  BY DEF Connection, SamePermissions
<1>3. \A w, e : SamePermissions(c, [c EXCEPT !.wire = w, !.lastError = e])
  BY DEF Connection, SamePermissions
<1>4. SamePermissions(c, CutLink(c))
  BY DEF CutLink, Connection, SamePermissions
<1> QED
  BY <1>1, <1>2, <1>3, <1>4

\* A call that fails and a connect that fails leave the connection failed.
LEMMA FailedLeft ==
  ASSUME NEW c \in Connection
  PROVE  AfterFailure(c).failed /\ Broken(c).failed /\ ConnectFailed(c).failed
BY DEF AfterFailure, Broken, ConnectFailed, Connection

LEMMA DriverThrowsAuth ==
  ASSUME TypeOK, AuthInv, NEW t \in Threads, DriverThrows(t), pe = "running"
  PROVE  AuthInv'
<1>1. conn[t] \in Connection /\ conn' = [conn EXCEPT ![t] = AfterFailure(conn[t])]
  BY DEF DriverThrows, SetConn, Conn, ConnFor, TypeOK, DriverTypeOK
<1>2. Harmless(conn'[t])
  BY <1>1, FailedLeft DEF Harmless, TypeOK, DriverTypeOK
<1> QED
  BY <1>1, <1>2, ThrowAuth DEF DriverThrows

\* Without autoReconnect the catch block throws on.
LEMMA CaughtAuth ==
  ASSUME ~AutoReconnect, TypeOK, AuthInv, NEW t \in Threads, Caught(t),
         pe = "running", NEW c, conn' = [conn EXCEPT ![t] = c],
         ExceptionEndsPE \/ c.failed
  PROVE  AuthInv'
<1>1. Throw(t) /\ conn'[t] = c
  BY DEF Caught, TypeOK, DriverTypeOK
<1> QED
  BY <1>1, ThrowAuth DEF Harmless

\* The steps that make a connection and log in.
LEMMA LoginAuth ==
  ASSUME ~AutoReconnect, RejectionIsFinal, OneLogin, IInv, AuthInv,
         NEW t \in Threads, GetConnection(t) \/ Authenticate(t)
  PROVE  AuthInv'
<1> USE DEF SetConn, Conn, ConnFor
<1>0. TypeOK /\ conn[t] \in Connection /\ pe = "running"
  BY DEF IInv, TypeOK, DriverTypeOK, GetConnection, Authenticate, Step, At
<1>1. CASE GetConnection(t)
  <2>1. CASE conn[t].made /\ Step(t, "connect", "check") /\ conn' = conn
    BY <1>0, <2>1, KeepAuth DEF Step, At, Goto
  <2>2. CASE /\ Step(t, "connect", IF AuthMode = "none" THEN "check" ELSE "auth")
             /\ conn' = [conn EXCEPT ![t] = Connected(conn[t])]
    <3>1. OwnPart(t)
      BY <2>2 DEF Step, Goto, OwnPart
    <3>2. pc'[t] = "auth" \/ AuthMode = "none"
      BY <1>0, <2>2 DEF Step, Goto, TypeOK, WriterTypeOK
    <3>3. AuthOf(t)'
      BY <3>2 DEF AuthOf, Harmless, Allowed, Authorised, LoggedIn
    <3> QED
      BY <1>0, <3>1, <3>3, OwnAuth
  <2>3. CASE Caught(t) /\ conn' = [conn EXCEPT ![t] = ConnectFailed(conn[t])]
    BY <1>0, <2>3, FailedLeft, CaughtAuth
  <2> QED
    BY <1>1, <2>1, <2>2, <2>3 DEF GetConnection, driverVars
<1>2. CASE Authenticate(t)
  <2>1. CASE /\ Caught(t) /\ "rejected" \in AuthOutcomes
             /\ \E c : conn' = [conn EXCEPT ![t] = c]
    BY <1>0, <2>1, CaughtAuth DEF RejectionIsFinal
  <2>4. CASE /\ Caught(t)
             /\ conn' = [conn EXCEPT ![t] =
                           Broken(Authenticated(conn[t], Current(t).db, "rejected"))]
    <3>1. Broken(Authenticated(conn[t], Current(t).db, "rejected")).failed
      BY <1>0 DEF Broken, Authenticated, Connection
    <3> QED
      BY <1>0, <2>4, <3>1, CaughtAuth
  <2>2. CASE /\ Step(t, "auth", "check")
             /\ conn' = [conn EXCEPT ![t] =
                           Authenticated(conn[t], Current(t).db, "granted")]
    <3>1. OwnPart(t)
      BY <2>2 DEF Step, Goto, OwnPart
    <3>2. idx[t] \in DOMAIN Assignments /\ Current(t).fn = "Write"
      BY <2>2, AssignmentNumbers
         DEF Step, At, IInv, Place, BeforeSend, WritesForPort, Current, TypeOK,
             WriterTypeOK
    <3>3. conn'[t] = Authenticated(conn[t], Current(t).db, "granted")
      BY <1>0, <2>2 DEF TypeOK, DriverTypeOK
    <3>4. AuthScope(Current(t).db) \subseteq conn'[t].granted
      BY <1>0, <3>3 DEF Authenticated, Connection
    <3>5. ASSUME NEW i \in DOMAIN Assignments, Assignments[i].fn = "Write",
                 AuthMode # "none"
          PROVE  Assignments[i].db \in AuthScope(Current(t).db)
      <4>1. Assignments[i].db \in Dbs
        BY AssignmentNumbers DEF Assignment
      <4>2. CASE AuthMode = "params"
        BY <4>1, <4>2 DEF AuthScope
      <4>3. CASE AuthMode = "user"
        BY <3>2, <3>5, <4>3 DEF AuthScope, OneLogin, Current
      <4> QED
        BY <3>5, <4>2, <4>3 DEF DriverAssumption
    <3>6. Allowed(conn[t])'
      BY <3>4, <3>5 DEF Allowed, Authorised
    <3>7. AuthOf(t)'
      BY <3>6 DEF AuthOf, Harmless, Allowed, Authorised
    <3> QED
      BY <1>0, <3>1, <3>7, OwnAuth
  <2> QED
    BY <1>2, <2>1, <2>2, <2>4 DEF Authenticate
<1> QED
  BY <1>1, <1>2

\* The steps outside the calls of the driver.
LEMMA LocalAuth ==
  ASSUME TypeOK, AuthInv, NEW t \in Threads,
         \/ Receive(t) \/ Skip(t) \/ SetAsIs(t) \/ BuildDocument(t)
         \/ BuildFindQuery(t) \/ CheckFailed(t) \/ Count(t) \/ Finish(t)
  PROVE  AuthInv'
<1> USE DEF driverVars, At, Goto
<1>0. pe = "running" /\ (pc[t] # "auth" /\ conn[t].made => Harmless(conn[t]))
  BY DEF AuthInv, AuthOf, Receive, Skip, SetAsIs, BuildDocument, BuildFindQuery,
         CheckFailed, Step, Count, Finish, AtAssignment
<1>1. CASE Throw(t) /\ conn' = conn /\ pc[t] # "auth"
  BY <1>0, <1>1, ThrowAuth
<1>2. CASE Crash
  <2>1. pc' = pc /\ conn' = conn /\ pe' = "segfault"
    BY <1>2 DEF Crash, localVars
  <2> QED
    BY <2>1, SameAuth
<1>3. CASE Receive(t)
  BY <1>3, KeepAuth DEF Receive, Locals, LoggedIn
<1>4. CASE Finish(t)
  BY <1>4, KeepAuth DEF Finish, Locals, LoggedIn
<1>5. CASE Skip(t)
  BY <1>5, KeepAuth DEF Skip, AtAssignment, NextAssignment, LoggedIn
<1>6. CASE SetAsIs(t)
  BY <1>2, <1>6, KeepAuth DEF SetAsIs, AtAssignment, NextAssignment, LoggedIn
<1>7. CASE BuildDocument(t)
  BY <1>1, <1>7, KeepAuth DEF BuildDocument, AtAssignment, LoggedIn
<1>8. CASE BuildFindQuery(t)
  BY <1>1, <1>2, <1>8, KeepAuth DEF BuildFindQuery, LoggedIn
<1>9. CASE CheckFailed(t)
  BY <1>1, <1>9, KeepAuth DEF CheckFailed, Step, LoggedIn
<1>10. CASE Count(t)
  BY <1>10, KeepAuth DEF Count, NextAssignment, LoggedIn
<1> QED
  BY <1>3, <1>4, <1>5, <1>6, <1>7, <1>8, <1>9, <1>10

\* A driver call over a connection that is ready moves the thread on.
LEMMA CallAuth ==
  ASSUME TypeOK, AuthInv, NEW t \in Threads, NEW from \in LoggedIn, NEW to,
         At(t, from), Goto(t, to), pe' = pe, NEW c \in Connection,
         conn' = [conn EXCEPT ![t] = c], SamePermissions(conn[t], c),
         to = "reply" => ~conn[t].failed
  PROVE  AuthInv'
<1>1. conn'[t] = c
  BY DEF TypeOK, DriverTypeOK
<1>2. pc[t] # "auth" /\ pc[t] \in LoggedIn
  BY DEF At, LoggedIn
<1> QED
  BY <1>1, <1>2, KeepAuth DEF At, Goto, SamePermissions

LEMMA DriverAuth ==
  ASSUME ~AutoReconnect, TypeOK, AuthInv, NEW t \in Threads,
         \/ SetProfiling(t) \/ Send(t) \/ ReceiveReply(t) \/ ReplyLost(t)
         \/ GetLastError(t)
  PROVE  AuthInv'
<1> USE DEF SetConn, Conn, ConnFor
<1>0. /\ conn[t] \in Connection /\ Ready(conn[t]) \subseteq {conn[t]}
      /\ conn[t].failed => Ready(conn[t]) = {}
      /\ SamePermissions(conn[t], conn[t]) /\ pe = "running"
  BY Permissions DEF TypeOK, DriverTypeOK, SamePermissions, SetProfiling, Send,
     ReceiveReply, ReplyLost, GetLastError, Step, At
<1>a. \A w : SamePermissions(conn[t], [conn[t] EXCEPT !.wire = w])
  BY <1>0, Permissions
<1>b. /\ [conn[t] EXCEPT !.wire = "asked"] \in Connection
      /\ [conn[t] EXCEPT !.wire = "quiet"] \in Connection
  BY <1>0 DEF Connection
<1>c. "send" # "reply" /\ "gle" # "reply" /\ "count" # "reply"
  OBVIOUS
<1>1. CASE DriverThrows(t)
  BY <1>0, <1>1, DriverThrowsAuth
<1>3. CASE SetProfiling(t)
  <2>1. CASE Step(t, "profile", "send") /\ conn' = [conn EXCEPT ![t] = conn[t]]
    BY <1>0, <1>c, <2>1, CallAuth DEF Step, LoggedIn
  <2> QED
    BY <1>0, <1>1, <1>3, <2>1 DEF SetProfiling
<1>4. CASE Send(t)
  <2>1. CASE /\ conn' = [conn EXCEPT ![t] = [conn[t] EXCEPT !.wire = "asked"]]
             /\ At(t, "send") /\ Goto(t, "reply") /\ pe' = pe /\ ~conn[t].failed
    BY <1>a, <1>b, <2>1, CallAuth DEF LoggedIn
  <2> QED
    BY <1>0, <1>1, <1>4, <2>1 DEF Send
<1>5. CASE ReceiveReply(t)
  <2>1. CASE /\ conn' = [conn EXCEPT ![t] = [conn[t] EXCEPT !.wire = "quiet"]]
             /\ Step(t, "reply", "gle")
    BY <1>a, <1>b, <1>c, <2>1, CallAuth DEF Step, LoggedIn
  <2>2. CASE /\ conn' = [conn EXCEPT ![t] = [conn[t] EXCEPT !.wire = "quiet"]]
             /\ Throw(t) /\ At(t, "reply")
    <3>1. Allowed(conn[t])
      BY <2>2 DEF AuthInv, AuthOf, At
    <3>2. conn'[t] = [conn[t] EXCEPT !.wire = "quiet"]
      BY <1>0, <2>2 DEF TypeOK, DriverTypeOK
    <3>3. Harmless(conn'[t])
      BY <1>a, <3>1, <3>2 DEF Harmless, Allowed, Authorised, SamePermissions
    <3> QED
      BY <1>0, <2>2, <3>3, ThrowAuth
  <2> QED
    BY <1>5, <2>1, <2>2 DEF ReceiveReply
<1>6. CASE ReplyLost(t)
  <2>1. Throw(t) /\ conn' = [conn EXCEPT ![t] = Broken(conn[t])]
    BY <1>6 DEF ReplyLost
  <2>2. Harmless(conn'[t])
    BY <1>0, <2>1, FailedLeft DEF Harmless, TypeOK, DriverTypeOK
  <2> QED
    BY <1>0, <2>1, <2>2, ThrowAuth
<1>7. CASE GetLastError(t)
  <2>1. CASE /\ conn' = [conn EXCEPT ![t] = conn[t]]
             /\ At(t, "gle") /\ Goto(t, "count") /\ pe' = pe
    BY <1>0, <1>c, <2>1, CallAuth DEF LoggedIn
  <2> QED
    BY <1>0, <1>1, <1>7, <2>1 DEF GetLastError
<1> QED
  BY <1>3, <1>4, <1>5, <1>6, <1>7

\* The server's answer, and its faults, give and take no permission.
LEMMA ServerAuth ==
  ASSUME ~AutoReconnect, TypeOK, AuthInv,
         \/ \E t \in Threads : ServerAnswers(t)
         \/ Environment
  PROVE  AuthInv'
<1>0. \A u \in Threads : conn[u] \in Connection
  BY DEF TypeOK, DriverTypeOK
<1>1. CASE Environment
  <2>1. \A u \in Threads : conn'[u] = conn[u] \/ conn'[u] = CutLink(conn[u])
    BY <1>1 DEF Environment, ServerStops, ServerStarts, LinkLost, TypeOK,
       DriverTypeOK
  <2>2. \A u \in Threads : SamePermissions(conn[u], conn'[u])
    BY <1>0, <2>1, Permissions DEF SamePermissions
  <2> QED
    BY <1>1, <2>2, SameAuth DEF Environment, localVars, SamePermissions
<1>2. ASSUME NEW t \in Threads, ServerAnswers(t) PROVE AuthInv'
  <2>1. PICK e : conn' = [conn EXCEPT ![t] = [conn[t] EXCEPT !.wire = "answered",
                                                             !.lastError = e]]
    BY <1>2 DEF ServerAnswers, SetConn, Conn, ConnFor
  <2>2. \A u \in Threads : SamePermissions(conn[u], conn'[u])
    BY <1>0, <2>1, Permissions DEF TypeOK, DriverTypeOK, SamePermissions
  <2> QED
    BY <1>2, <2>2, SameAuth DEF ServerAnswers, localVars, SamePermissions
<1> QED
  BY <1>1, <1>2

LEMMA NextAuth ==
  ASSUME ~AutoReconnect, RejectionIsFinal, OneLogin, IInv, AuthInv, [Next]_vars
  PROVE  AuthInv'
<1>0. TypeOK
  BY DEF IInv
<1>1. CASE UNCHANGED vars
  BY <1>0, <1>1, SameAuth DEF vars, driverVars, localVars
<1>2. ASSUME NEW t \in Threads, Receive(t) \/ Process(t) PROVE AuthInv'
  BY <1>0, <1>2, LoginAuth, LocalAuth, DriverAuth DEF Process
<1>3. CASE Environment \/ \E t \in Threads : ServerAnswers(t)
  BY <1>0, <1>3, ServerAuth
<1>4. CASE Terminated
  BY <1>1, <1>4 DEF Terminated
<1> QED
  BY <1>1, <1>2, <1>3, <1>4 DEF Next

\* Without autoReconnect, when the server rejects no login or the exception of a rejected
\* one ends the PE, and when one login covers the databases written to, no write reaches
\* the server over a connection that is not authenticated for it: a connection whose
\* connect or login was cut short is refused by isFailed() in every later tuple.
\* (Each of the three conditions is needed.)
THEOREM Authentication ==
  ASSUME ~AutoReconnect, RejectionIsFinal, OneLogin
  PROVE  Spec => []WritesAuthenticated
<1>1. Init => AuthInv
  <2> SUFFICES ASSUME Init, NEW t \in Threads PROVE AuthOf(t)
    BY DEF AuthInv
  <2>1. pc[t] = "idle" /\ conn[t] = NoConnection
    BY DEF Init, DriverInit
  <2>2. NoConnection.made = FALSE
    BY DEF NoConnection
  <2>3. conn[t].made = FALSE
    BY <2>1, <2>2
  <2> QED
    BY <2>1, <2>3 DEF AuthOf, LoggedIn
<1>2. IInv /\ AuthInv /\ [Next]_vars => AuthInv'
  BY NextAuth
<1>3. IInv /\ AuthInv => WritesAuthenticated
  <2> SUFFICES ASSUME IInv, AuthInv, NEW t \in Threads, pc[t] = "reply"
               PROVE  Authorised(Conn(t), Current(t).db)
    BY DEF WritesAuthenticated
  <2>1. idx[t] \in DOMAIN Assignments /\ Current(t).fn = "Write"
    BY AssignmentNumbers
       DEF IInv, Place, AfterSend, WritesForPort, Current, TypeOK, WriterTypeOK
  <2>2. Allowed(conn[t])
    BY DEF AuthInv, AuthOf
  <2> QED
    BY <2>1, <2>2 DEF Allowed, Current, Conn, ConnFor
<1> QED
  BY <1>1, <1>2, <1>3, Invariance, PTL DEF Spec
=============================================================================
