---------------------------- MODULE AtomicRegister ----------------------------
(***************************************************************************)
(* What the comments of AtomicWord promise: every operation takes effect   *)
(* at one moment between its call and its return.                          *)
(***************************************************************************)
EXTENDS Integers

CONSTANTS Threads, WordSize      \* the word counts modulo WordSize

VARIABLES word, phase, call, res

rvars == <<word, phase, call, res>>

Word == 0..(WordSize - 1)
Ops == [f : {"load", "loadRelaxed", "store", "swap", "compareAndSwap", "fetchAndAdd",
             "fetchAndSubtract", "addAndFetch", "subtractAndFetch"}, a : Word, b : Word]

\* The word after an operation, and what the operation returns.
After(op, w) ==
    CASE op.f \in {"load", "loadRelaxed"} -> w
      [] op.f \in {"store", "swap"} -> op.a
      [] op.f = "compareAndSwap" -> IF w = op.a THEN op.b ELSE w
      [] op.f \in {"fetchAndAdd", "addAndFetch"} -> (w + op.a) % WordSize
      [] op.f \in {"fetchAndSubtract", "subtractAndFetch"} -> (w - op.a) % WordSize
Returned(op, w) ==
    CASE op.f = "store" -> 0
      [] op.f \in {"addAndFetch", "subtractAndFetch"} -> After(op, w)
      [] OTHER -> w

RInit ==
    /\ word \in Word
    /\ phase = [t \in Threads |-> "idle"]
    /\ call \in [Threads -> Ops]
    /\ res = [t \in Threads |-> 0]

Invoke(t) ==
    /\ phase[t] = "idle"
    /\ phase' = [phase EXCEPT ![t] = "called"]
    /\ \E op \in Ops : call' = [call EXCEPT ![t] = op]
    /\ UNCHANGED <<word, res>>

Effect(t) ==
    /\ phase[t] = "called"
    /\ phase' = [phase EXCEPT ![t] = "done"]
    /\ word' = After(call[t], word)
    /\ res' = [res EXCEPT ![t] = Returned(call[t], word)]
    /\ UNCHANGED call

Return(t) ==
    /\ phase[t] = "done"
    /\ phase' = [phase EXCEPT ![t] = "idle"]
    /\ UNCHANGED <<word, call, res>>

RNext == \E t \in Threads : Invoke(t) \/ Effect(t) \/ Return(t)

RSpec == RInit /\ [][RNext]_rvars
=============================================================================
