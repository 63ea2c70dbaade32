--------------------------- MODULE AtomicWordProofs ---------------------------
(***************************************************************************)
(* AtomicWord implements AtomicRegister, for every number of threads, every *)
(* size of the word, every set of calls and each of the builds: an          *)
(* operation takes effect at one moment.                                    *)
(***************************************************************************)
EXTENDS AtomicWord, TLAPS

----------------------------------------------------------------------------
(* Arithmetic modulo the size of the word *)

LEMMA ModIs ==
  ASSUME NEW n \in Nat \ {0}, NEW q \in Int, NEW r \in 0..(n - 1)
  PROVE  (q * n + r) % n = r
BY SMT

LEMMA Modulo ==
  ASSUME NEW n \in Nat \ {0}, NEW x \in Int
  PROVE  x % n \in 0..(n - 1)
BY SMT

\* Adding 0 - a, as fetchAndSubtract() does, is subtracting a.
LEMMA SubtractIsAdd ==
  ASSUME NEW n \in Nat \ {0}, NEW w \in 0..(n - 1), NEW a \in 0..(n - 1)
  PROVE  (w + ((0 - a) % n)) % n = (w - a) % n
<1>1. CASE a = 0
  <2>1. (0 - a) % n = 0
    <3>1. (0 * n + 0) % n = 0
      BY ModIs
    <3> QED
      BY <1>1, <3>1
  <2> QED
    BY <1>1, <2>1
<1>2. CASE a # 0
  <2>1. (0 - a) % n = n - a
    <3>1. n - a \in 0..(n - 1) /\ (-1) * n + (n - a) = 0 - a
      BY <1>2
    <3>2. ((-1) * n + (n - a)) % n = n - a
      BY <3>1, ModIs
    <3> QED
      BY <3>1, <3>2
  <2>2. CASE a <= w
    <3>1. w - a \in 0..(n - 1) /\ 1 * n + (w - a) = w + (n - a) /\ 0 * n + (w - a) = w - a
      BY <2>2
    <3>2. (1 * n + (w - a)) % n = w - a /\ (0 * n + (w - a)) % n = w - a
      BY <3>1, ModIs
    <3> QED
      BY <2>1, <3>1, <3>2
  <2>3. CASE ~(a <= w)
    <3>1. w + (n - a) \in 0..(n - 1) /\ (-1) * n + (w + (n - a)) = w - a
      BY <2>3
    <3>2. 0 * n + (w + (n - a)) = w + (n - a)
      BY <3>1
    <3>3. ((-1) * n + (w + (n - a))) % n = w + (n - a)
      BY <3>1, ModIs
    <3>4. (0 * n + (w + (n - a))) % n = w + (n - a)
      BY <3>1, ModIs
    <3> QED
      BY <2>1, <3>1, <3>2, <3>3, <3>4
  <2> QED
    BY <2>2, <2>3
<1> QED
  BY <1>1, <1>2

LEMMA WordSizePositive == WordSize \in Nat \ {0}
<1>1. Half \in Nat \ {0}
  BY AtomicAssumption
<1>2. Half * Half \in Nat /\ Half * Half >= 1
  BY <1>1
<1> QED
  BY <1>2 DEF WordSize

----------------------------------------------------------------------------
(* Types *)

Place == {"idle", "once", "read", "half", "cas", "done"}

WordTypeOK ==
  /\ mem \in Word
  /\ pc \in [Threads -> Place]
  /\ call \in [Threads -> Register!Ops]
  /\ DOMAIN res = Threads

\* What an operation computes is a word, and what the abstract register computes.
LEMMA Computes ==
  ASSUME NEW op \in Register!Ops, NEW w \in Word
  PROVE  /\ newValue(op, w) \in Word
         /\ newValue(op, w) = Register!After(op, w)
         /\ Result(op, w) = Register!Returned(op, w)
<1>1. op.a \in Word /\ op.b \in Word
  BY DEF Register!Ops, Register!Word, Word
<1>2. CASE Adds(op)
  <2>a. WordSize \in Nat \ {0} /\ w \in 0..(WordSize - 1) /\ op.a \in 0..(WordSize - 1)
    BY <1>1, WordSizePositive DEF Word
  <2>b. w + op.a \in Int /\ w - op.a \in Int
    BY <2>a
  <2>c. (w + op.a) % WordSize \in Word
    BY <2>a, <2>b, Modulo DEF Word
  <2>d. (w - op.a) % WordSize \in Word
    BY <2>a, <2>b, Modulo DEF Word
  <2>1. (w + ((0 - op.a) % WordSize)) % WordSize = (w - op.a) % WordSize
    BY <2>a, SubtractIsAdd
  <2>2. newValue(op, w) = (w + increment(op)) % WordSize
    BY <1>2 DEF newValue, Adds
  <2>3. CASE op.f \in {"fetchAndAdd", "addAndFetch"}
    <3>1. increment(op) = op.a /\ Register!After(op, w) = (w + op.a) % WordSize
      BY <2>3 DEF increment, Register!After
    <3>2. Result(op, w) = Register!Returned(op, w)
      BY <2>3, <3>1 DEF Result, Register!Returned
    <3> QED
      BY <2>1, <2>2, <2>c, <2>d, <3>1, <3>2
  <2>4. CASE op.f \in {"fetchAndSubtract", "subtractAndFetch"}
    <3>1. /\ increment(op) = (0 - op.a) % WordSize
          /\ Register!After(op, w) = (w - op.a) % WordSize
      BY <2>4 DEF increment, Register!After
    <3>2. Result(op, w) = Register!Returned(op, w)
      BY <2>4, <3>1 DEF Result, Register!Returned
    <3> QED
      BY <2>1, <2>2, <2>c, <2>d, <3>1, <3>2
  <2> QED
    BY <1>2, <2>3, <2>4 DEF Adds
<1>3. CASE ~Adds(op)
  <2>1. op.f \in {"load", "loadRelaxed", "store", "swap", "compareAndSwap"}
    BY <1>3 DEF Adds, Register!Ops
  <2> QED
    BY <1>1, <1>3, <2>1 DEF newValue, Result, Register!After, Register!Returned, Adds
<1> QED
  BY <1>2, <1>3

LEMMA CallsAreOps == Inputs \subseteq Register!Ops
BY AtomicAssumption DEF Register!Ops, Register!Word, Word, Functions

----------------------------------------------------------------------------
(* Each step is one of the register's, or leaves it alone *)

\* The only step that moves the word is the one that takes effect.
LEMMA EffectStep ==
  ASSUME WordTypeOK, NEW t \in Threads, pc[t] \in {"once", "cas"}, TakeEffect(t),
         UNCHANGED call
  PROVE  WordTypeOK' /\ Register!Effect(t)
<1>1. call[t] \in Register!Ops
  BY DEF WordTypeOK
<1>2. /\ newValue(call[t], mem) \in Word
      /\ newValue(call[t], mem) = Register!After(call[t], mem)
      /\ Result(call[t], mem) = Register!Returned(call[t], mem)
  BY <1>1, Computes DEF WordTypeOK
<1>3. WordTypeOK'
  BY <1>2 DEF WordTypeOK, TakeEffect, Place
<1>4. phase[t] = "called" /\ phase' = [phase EXCEPT ![t] = "done"]
  BY DEF phase, TakeEffect, WordTypeOK
<1> QED
  BY <1>2, <1>3, <1>4 DEF Register!Effect, TakeEffect

\* A step that stays inside an operation is not seen.
LEMMA HiddenStep ==
  ASSUME WordTypeOK, NEW t \in Threads, UNCHANGED <<mem, call, res>>,
         pc[t] \in {"once", "read", "half", "cas"},
         pc' = pc \/ \E to \in {"once", "read", "half", "cas"} : pc' = [pc EXCEPT ![t] = to]
  PROVE  WordTypeOK' /\ UNCHANGED Register!rvars
<1>1. WordTypeOK'
  BY DEF WordTypeOK, Place
<1>2. phase' = phase
  BY DEF phase, WordTypeOK
<1> QED
  BY <1>1, <1>2 DEF Register!rvars

LEMMA RegisterStep ==
  ASSUME WordTypeOK, [Next]_vars
  PROVE  WordTypeOK' /\ [Register!RNext]_(Register!rvars)
<1>1. CASE UNCHANGED vars
  BY <1>1 DEF vars, WordTypeOK, phase, Register!rvars
<1>2. ASSUME NEW t \in Threads, NEW op \in Inputs, Call(t, op)
      PROVE  WordTypeOK' /\ Register!Invoke(t)
  <2>1. PICK to \in {"once", "read"} : pc' = [pc EXCEPT ![t] = to]
    BY <1>2 DEF Call
  <2>2. op \in Register!Ops
    BY CallsAreOps
  <2>3. WordTypeOK'
    BY <1>2, <2>1, <2>2 DEF Call, WordTypeOK, Place
  <2>4. phase[t] = "idle" /\ phase' = [phase EXCEPT ![t] = "called"]
    BY <1>2, <2>1 DEF Call, phase, WordTypeOK
  <2> QED
    BY <1>2, <2>2, <2>3, <2>4 DEF Call, Register!Invoke
<1>3. ASSUME NEW t \in Threads, Step(t)
      PROVE  WordTypeOK' /\ [Register!RNext]_(Register!rvars)
  <2>1. CASE Once(t)
    BY <2>1, EffectStep DEF Once, Register!RNext
  <2>2. CASE Read(t) \/ ReadHalf(t) \/ ReadOtherHalf(t)
    BY <2>2, HiddenStep DEF Read, ReadHalf, ReadOtherHalf
  <2>3. CASE CasLoop(t)
    <3>1. CASE TakeEffect(t)
      BY <2>3, <3>1, EffectStep DEF CasLoop, Register!RNext
    <3>2. CASE UNCHANGED <<mem, res>> /\ (pc' = pc \/ pc' = [pc EXCEPT ![t] = "read"])
      BY <2>3, <3>2, HiddenStep DEF CasLoop
    <3> QED
      BY <2>3, <3>1, <3>2 DEF CasLoop
  <2>4. CASE Return(t)
    <3>1. WordTypeOK'
      BY <2>4 DEF Return, WordTypeOK, Place
    <3>2. phase[t] = "done" /\ phase' = [phase EXCEPT ![t] = "idle"]
      BY <2>4 DEF Return, phase, WordTypeOK
    <3> QED
      BY <2>4, <3>1, <3>2 DEF Return, Register!Return, Register!RNext
  <2> QED
    BY <1>3, <2>1, <2>2, <2>3, <2>4 DEF Step
<1> QED
  BY <1>1, <1>2, <1>3 DEF Next, Register!RNext

LEMMA RegisterInit == Init => WordTypeOK /\ Register!RInit
<1> SUFFICES ASSUME Init PROVE WordTypeOK /\ Register!RInit
  OBVIOUS
<1>1. 0 \in Word
  BY WordSizePositive DEF Word
<1>2. [f |-> "load", a |-> 0, b |-> 0] \in Register!Ops
  BY <1>1 DEF Register!Ops, Register!Word, Word
<1>3. call \in [Threads -> Register!Ops]
  BY <1>2 DEF Init
<1>4. WordTypeOK
  BY <1>3 DEF Init, WordTypeOK, Place
<1>5. phase = [t \in Threads |-> "idle"]
  BY DEF Init, phase
<1> QED
  BY <1>3, <1>4, <1>5 DEF Init, Register!RInit, Register!Word, Word

\* On every build of AtomicWord each operation takes effect at one moment between its call
\* and its return, however often it spins and whatever halves it read of a wide word.
THEOREM RegisterRefinement == Spec => ImplementsRegister
BY RegisterInit, RegisterStep, PTL DEF Spec, ImplementsRegister, Register!RSpec
=============================================================================
