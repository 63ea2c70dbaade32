------------------------------ MODULE AtomicWord ------------------------------
(***************************************************************************)
(* AtomicWord, the counter behind every BSONObj, Status and OID of the     *)
(* driver, over the five families of intrinsics it can be built with       *)
(* (platform/atomic_word_*.h, atomic_intrinsics_*.h).                      *)
(*                                                                         *)
(* An operation is one locked instruction, or a loop around                *)
(* compareAndSwap.  A word wider than a pointer cannot be read by one      *)
(* instruction: a plain read of it gets its halves at two moments.         *)
(* Only one word is looked at, so the fences around load and store, which  *)
(* order it against other memory, are left out.                            *)
(***************************************************************************)
EXTENDS Integers

CONSTANTS Threads,
          Half,            \* values of half a word
          Inputs,          \* operations the threads call, a set of records [f, a, b]
          MaxCalls         \* bound: calls in all

WordSize == Half * Half
Word == 0..(WordSize - 1)

Functions == {"load", "loadRelaxed", "store", "swap", "compareAndSwap", "fetchAndAdd",
              "fetchAndSubtract", "addAndFetch", "subtractAndFetch"}

ASSUME AtomicAssumption ==
    Half \in Nat \ {0} /\ MaxCalls \in Nat /\ Inputs \subseteq [f : Functions, a : Word, b : Word]

VARIABLES impl,            \* the intrinsics of the build
          mem,             \* _value
          pc, call, res,   \* per thread: place in the operation, the operation, what it returned
          expected,        \* the loops' local: expected, currentValue
          calls

vars == <<impl, mem, pc, call, res, expected, calls>>

-----------------------------------------------------------------------------
(* The intrinsics: how each implements the operations.                     *)
(*   once: one instruction       cas: compareAndSwap(0, 0)                 *)
(*   swap: as swap does it       reread: loop, *dest read in every round   *)
(*   keep: loop, *dest read once, then what compareAndSwap returned        *)
(*   load: loop, load() in every round                                     *)
(* wide: *dest takes two loads.  relaxed: loadRelaxed() exists; elsewhere   *)
(* a program that calls it does not compile.                               *)

\* std::atomic: every operation of the C++11 implementation.
cxx11 == [swap |-> "once", load |-> "once", store |-> "once", add |-> "once", wide |-> FALSE,
          relaxed |-> TRUE]

\* __atomic_*: the same, wide or not.
gcc_atomic == [swap |-> "once", load |-> "once", store |-> "once", add |-> "once", wide |-> FALSE,
               relaxed |-> TRUE]

\* lock cmpxchg, xchg, mov, lock xadd; cmpxchg8b only for a wide word.
gcc_intel == [swap |-> "once", load |-> "once", store |-> "once", add |-> "once", wide |-> FALSE,
              relaxed |-> TRUE]
gcc_intel_wide == [swap |-> "reread", load |-> "cas", store |-> "swap", add |-> "load",
                   wide |-> TRUE, relaxed |-> FALSE]

\* __sync_*: there is no exchange.
gcc_sync == [swap |-> "keep", load |-> "once", store |-> "once", add |-> "once", wide |-> FALSE,
             relaxed |-> TRUE]
gcc_sync_wide == [swap |-> "keep", load |-> "cas", store |-> "swap", add |-> "once",
                  wide |-> TRUE, relaxed |-> FALSE]

\* Interlocked*; 64 bits with the API's operations, or with the one intrinsic Windows XP has;
\* load and store of 64 bits natively, or on a 32-bit system by way of the others.
win32 == [swap |-> "once", load |-> "once", store |-> "once", add |-> "once", wide |-> FALSE,
          relaxed |-> TRUE]
InterlockedImpl64 == [swap |-> "once", add |-> "once"]
InterlockedImpl64_xp == [swap |-> "keep", add |-> "keep"]
LoadStoreImpl == [load |-> "once", store |-> "once"]
LoadStoreImpl_wide == [load |-> "cas", store |-> "swap"]
win64(i, ls, wide) == [swap |-> i.swap, load |-> ls.load, store |-> ls.store, add |-> i.add,
                       wide |-> wide, relaxed |-> FALSE]

Impls == {cxx11, gcc_atomic, gcc_intel, gcc_intel_wide, gcc_sync, gcc_sync_wide, win32,
          win64(InterlockedImpl64, LoadStoreImpl, FALSE),
          win64(InterlockedImpl64_xp, LoadStoreImpl, FALSE),
          win64(InterlockedImpl64, LoadStoreImpl_wide, TRUE),
          win64(InterlockedImpl64_xp, LoadStoreImpl_wide, TRUE)}

\* AtomicWord's operations by way of the intrinsics: fetchAndSubtract() adds 0 - decrement, and
\* the other two are computed from what was fetched.
increment(op) == IF op.f \in {"fetchAndSubtract", "subtractAndFetch"} THEN (0 - op.a) % WordSize
                 ELSE op.a
Adds(op) == op.f \in {"fetchAndAdd", "fetchAndSubtract", "addAndFetch", "subtractAndFetch"}
newValue(op, old) == CASE Adds(op) -> (old + increment(op)) % WordSize
                       [] op.f \in {"store", "swap"} -> op.a
                       [] op.f \in {"load", "loadRelaxed"} -> old
                       [] op.f = "compareAndSwap" -> IF old = op.a THEN op.b ELSE old
Result(op, old) == CASE op.f = "addAndFetch" -> (old + op.a) % WordSize
                     [] op.f = "subtractAndFetch" -> (old - op.a) % WordSize
                     [] op.f = "store" -> 0
                     [] OTHER -> old

How(op) == CASE op.f \in {"compareAndSwap", "loadRelaxed"} -> "once"
             [] op.f = "load" -> IF impl.load = "cas" THEN "once" ELSE impl.load
             [] op.f = "store" -> IF impl.store = "swap" THEN impl.swap ELSE impl.store
             [] op.f = "swap" -> impl.swap
             [] Adds(op) -> impl.add

-----------------------------------------------------------------------------
(* The state machine *)

Init ==
    /\ impl \in Impls
    /\ mem \in Word
    /\ pc = [t \in Threads |-> "idle"]
    /\ call \in [Threads -> {[f |-> "load", a |-> 0, b |-> 0]}]
    /\ res = [t \in Threads |-> 0]
    /\ expected = [t \in Threads |-> 0]
    /\ calls = 0

Call(t, op) ==
    /\ pc[t] = "idle" /\ calls < MaxCalls
    /\ op.f = "loadRelaxed" => impl.relaxed
    /\ calls' = calls + 1
    /\ call' = [call EXCEPT ![t] = op]
    /\ pc' = [pc EXCEPT ![t] = IF How(op) = "once" THEN "once" ELSE "read"]
    /\ UNCHANGED <<impl, mem, res, expected>>

\* The moment an operation takes effect on the word, and what it will return.
TakeEffect(t) ==
    /\ mem' = newValue(call[t], mem)
    /\ res' = [res EXCEPT ![t] = Result(call[t], mem)]
    /\ pc' = [pc EXCEPT ![t] = "done"]

\* One locked instruction, or a plain read or write of a narrow word.  A load that is a
\* compareAndSwap(0, 0) writes 0 over 0 at most.
Once(t) ==
    /\ pc[t] = "once"
    /\ TakeEffect(t)
    /\ UNCHANGED <<impl, call, expected, calls>>

\* expected = load(dest), or expected = *dest of a word that is read at once.
Read(t) ==
    /\ pc[t] = "read" /\ (How(call[t]) = "load" \/ ~impl.wide)
    /\ expected' = [expected EXCEPT ![t] = mem]
    /\ pc' = [pc EXCEPT ![t] = "cas"]
    /\ UNCHANGED <<impl, mem, call, res, calls>>

\* expected = *dest of a wide word: one half, then the other, whatever is stored in between.
ReadHalf(t) ==
    /\ pc[t] = "read" /\ How(call[t]) # "load" /\ impl.wide
    /\ expected' = [expected EXCEPT ![t] = mem % Half]
    /\ pc' = [pc EXCEPT ![t] = "half"]
    /\ UNCHANGED <<impl, mem, call, res, calls>>
ReadOtherHalf(t) ==
    /\ pc[t] = "half"
    /\ expected' = [expected EXCEPT ![t] = @ + Half * (mem \div Half)]
    /\ pc' = [pc EXCEPT ![t] = "cas"]
    /\ UNCHANGED <<impl, mem, call, res, calls>>

\* Variants: the value computed from what was read is stored whatever is there now; the loop
\* compares with what it read first.
CasLoopBlind(t) ==
    /\ pc[t] = "cas"
    /\ mem' = newValue(call[t], expected[t])
    /\ res' = [res EXCEPT ![t] = Result(call[t], expected[t])]
    /\ pc' = [pc EXCEPT ![t] = "done"]
    /\ UNCHANGED <<impl, call, expected, calls>>
CasLoopStale(t) ==
    /\ pc[t] = "cas"
    /\ \/ mem = expected[t] /\ TakeEffect(t) /\ UNCHANGED expected
       \/ /\ mem # expected[t]
          /\ UNCHANGED <<mem, res, pc, expected>>
    /\ UNCHANGED <<impl, call, calls>>

\* actual = compareAndSwap(dest, expected, newValue): the loop ends when they agree.
CasLoop(t) ==
    /\ pc[t] = "cas"
    /\ \/ mem = expected[t] /\ TakeEffect(t) /\ UNCHANGED expected
       \/ /\ mem # expected[t]
          /\ IF How(call[t]) = "keep"
             THEN expected' = [expected EXCEPT ![t] = mem] /\ UNCHANGED pc
             ELSE pc' = [pc EXCEPT ![t] = "read"] /\ UNCHANGED expected
          /\ UNCHANGED <<mem, res>>
    /\ UNCHANGED <<impl, call, calls>>

Return(t) ==
    /\ pc[t] = "done"
    /\ pc' = [pc EXCEPT ![t] = "idle"]
    /\ UNCHANGED <<impl, mem, call, res, expected, calls>>

Step(t) == Once(t) \/ Read(t) \/ ReadHalf(t) \/ ReadOtherHalf(t) \/ CasLoop(t) \/ Return(t)

Next == \E t \in Threads : Step(t) \/ \E op \in Inputs : Call(t, op)

Spec == Init /\ [][Next]_vars

\* A thread in an operation goes on with it.
FairSpec == Spec /\ \A t \in Threads : WF_vars(Step(t))

-----------------------------------------------------------------------------
(* Properties *)

\* The phase of each call as AtomicRegister sees it.
phase == [t \in Threads |-> CASE pc[t] \in {"idle", "done"} -> pc[t] [] OTHER -> "called"]
Register == INSTANCE AtomicRegister WITH word <- mem

\* "Atomically ..." (the comments of AtomicWord): on every build each operation behaves as if it
\* took effect at one moment, although it spins, and although what it read of a wide word may be
\* halves of two values.
ImplementsRegister == Register!RSpec

\* "the implementations of swap, store and fetchAndAdd spin until they succeed"
\* (atomic_intrinsics_gcc_intel.h): a round is lost only to an operation that succeeded, so with
\* finitely many calls every one returns.
SpinsEnd == \A t \in Threads : pc[t] # "idle" ~> pc[t] = "idle"
=============================================================================
