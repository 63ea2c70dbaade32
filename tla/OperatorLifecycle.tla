-------------------------- MODULE OperatorLifecycle --------------------------
(***************************************************************************)
(* The operators of a processing element from start to shutdown: the       *)
(* driver's static initialisation (Common/MongoInit_h.cgt), construction,  *)
(* allPortsReady(), process() on several threads, prepareToShutdown() and  *)
(* destruction (Common/MongoOperator_cpp.cgt).                             *)
(*                                                                         *)
(* An operator keeps its findQuery document in a member that process()     *)
(* uses through a reference; the driver copies it into locals.  Their      *)
(* memory is counted as module RefCount says.                              *)
(***************************************************************************)
EXTENDS RefCount

CONSTANTS Ops,             \* the operators of the PE, each the handle of its findQueryBO_
          Threads,
          Locals,          \* the BSONObj locals of each thread
          AutoReconnect,   \* parameter autoReconnect
          MaxCopies        \* bound: copies, assignments and moves of one call of process()

ASSUME LifecycleAssumption ==
    /\ Ops \subseteq Handle /\ Locals \in [Threads -> SUBSET Handle]
    /\ \A t \in Threads : Locals[t] \cap Ops = {}
    /\ \A t, u \in Threads : t # u => Locals[t] \cap Locals[u] = {}
    /\ NULL \notin Ops /\ AutoReconnect \in BOOLEAN /\ MaxCopies \in Nat

VARIABLES status,          \* MongoInit<void>::status_: "none" before the initialiser has run
          driver,          \* "up" between initialize() and shutdown()
          op,              \* phase of each operator
          at,              \* the operator whose process() a thread is in
          copies           \* copies the call has made

vars == <<counts, status, driver, op, at, copies>>

Init ==
    /\ CountInit
    /\ status = "none" /\ driver = "off"
    /\ op = [o \in Ops |-> "none"]
    /\ at = [t \in Threads |-> NULL] /\ copies = [t \in Threads |-> 0]

\* MongoInit<void>::status_ = init(): client::initialize() succeeds or does not.
StaticInit(ok) ==
    /\ status = "none"
    /\ status' = IF ok THEN "ok" ELSE "failed"
    /\ driver' = IF ok THEN "up" ELSE "off"
    /\ UNCHANGED <<counts, op, at, copies>>

\* The constructor's member initialisers: findQueryBO_(buildFindQueryBO()).
BuildMembers(o, b) ==
    /\ status # "none" /\ op[o] = "none"
    /\ Take(o, b)
    /\ op' = [op EXCEPT ![o] = "constructing"]
    /\ UNCHANGED <<status, driver, at, copies>>

\* The constructor's body: an exception destroys the members.
CheckStatus(o) ==
    /\ op[o] = "constructing"
    /\ IF status = "ok"
       THEN op' = [op EXCEPT ![o] = "constructed"] /\ UNCHANGED counts
       ELSE op' = [op EXCEPT ![o] = "gone"] /\ Destroy(o)
    /\ UNCHANGED <<status, driver, at, copies>>

\* allPortsReady(): a connection is tried; without autoReconnect a failure ends the operator.
AllPortsReady(o) ==
    /\ op[o] = "constructed"
    /\ \/ op' = [op EXCEPT ![o] = "ready"]
       \/ ~AutoReconnect /\ op' = [op EXCEPT ![o] = "stopping"]
    /\ UNCHANGED <<counts, status, driver, at, copies>>

\* A tuple arrives on thread t.
Enter(t, o) ==
    /\ at[t] = NULL /\ op[o] = "ready"
    /\ at' = [at EXCEPT ![t] = o]
    /\ copies' = [copies EXCEPT ![t] = 0]
    /\ UNCHANGED <<counts, status, driver, op>>

\* query(), update(), remove(): the driver copies the document, hands copies on and drops them.
InProcess(t) ==
    /\ at[t] # NULL
    /\ \E h \in Locals[t] :
          \/ /\ copies[t] < MaxCopies
             /\ \/ \E g \in Locals[t] \cup {at[t]} : Copy(h, g) \/ Assign(h, g)
                \/ \E g \in Locals[t] : Move(h, g)
             /\ copies' = [copies EXCEPT ![t] = @ + 1]
          \/ Destroy(h) /\ UNCHANGED copies
    /\ UNCHANGED <<status, driver, op, at>>

\* Any operation on a handle runs on.
CountStep(h) == Continue(h) /\ UNCHANGED <<status, driver, op, at, copies>>

\* process() returns, its locals destroyed.
Leave(t) ==
    /\ at[t] # NULL
    /\ \A h \in Locals[t] : pc[h] = "idle" /\ p[ptr(h)] = NULL
    /\ at' = [at EXCEPT ![t] = NULL]
    /\ copies' = [copies EXCEPT ![t] = 0]
    /\ UNCHANGED <<counts, status, driver, op>>

\* Variant: prepareToShutdown() also drops the query document.
PrepareToShutdownResets(o) ==
    /\ op[o] = "ready"
    /\ op' = [op EXCEPT ![o] = "stopping"]
    /\ driver' = "down"
    /\ Destroy(o)
    /\ UNCHANGED <<status, at, copies>>

\* prepareToShutdown(): client::shutdown(), with threads still in process().
PrepareToShutdown(o) ==
    /\ op[o] = "ready"
    /\ op' = [op EXCEPT ![o] = "stopping"]
    /\ driver' = "down"
    /\ UNCHANGED <<counts, status, at, copies>>

\* ~MY_OPERATOR(). The runtime calls it once no thread is in process() of the operator.
Destruct(o) ==
    /\ op[o] = "stopping" /\ \A t \in Threads : at[t] # o
    /\ op' = [op EXCEPT ![o] = "gone"]
    /\ Destroy(o)
    /\ UNCHANGED <<status, driver, at, copies>>

Next ==
    \/ \E ok \in BOOLEAN : StaticInit(ok)
    \/ \E o \in Ops : \/ \E b \in Block : BuildMembers(o, b)
                      \/ CheckStatus(o) \/ AllPortsReady(o) \/ PrepareToShutdown(o) \/ Destruct(o)
    \/ \E t \in Threads : InProcess(t) \/ Leave(t) \/ \E o \in Ops : Enter(t, o)
    \/ \E h \in Handle : CountStep(h)

Spec == Init /\ [][Next]_vars

-----------------------------------------------------------------------------
(* Properties *)

Phases == {"none", "constructing", "constructed", "ready", "stopping", "gone"}

\* Every handle, count, operator and thread has its type.
TypeOK ==
    /\ CountTypeOK
    /\ status \in {"none", "ok", "failed"} /\ driver \in {"off", "up", "down"}
    /\ op \in [Ops -> Phases] /\ at \in [Threads -> Ops \cup {NULL}]
    /\ copies \in [Threads -> 0..MaxCopies]

\* process() runs only in an operator whose constructor found the driver initialised, and the
\* document it refers to by a plain reference outlives it, whatever copies of it come and go.
MemberAlive ==
    \A t \in Threads : at[t] # NULL =>
        /\ status = "ok" /\ op[at[t]] \in {"ready", "stopping"}
        /\ pc[at[t]] = "idle" /\ p[ptr(at[t])] # NULL /\ mem[p[ptr(at[t])]] = "live"
=============================================================================
