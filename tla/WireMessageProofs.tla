-------------------------- MODULE WireMessageProofs --------------------------
(***************************************************************************)
(* Theorems about WireMessage: who frees which block, for any number of    *)
(* blocks, any byte base, builds, sizes and number of replies; and that a  *)
(* message is sent whole, for all sizes that a signed length can count.    *)
(*                                                                         *)
(* What FlattenSeq and SizeOf compute is shown by induction on the set of  *)
(* the numbers for which it holds (the lemma Induction).                   *)
(***************************************************************************)
EXTENDS WireMessage, ByteOrderProofs, FiniteSetTheorems, SequenceTheorems, WellFoundedInduction, TLAPS

-----------------------------------------------------------------------------
(* Sequences of anything *)

IsSequence(s) == Len(s) \in Nat /\ s = [i \in 1..Len(s) |-> s[i]]

LEMMA SequenceOf ==
  ASSUME NEW s, IsSequence(s), NEW S, \A i \in 1..Len(s) : s[i] \in S
  PROVE  s \in Seq(S)
BY IsASeq DEF IsSequence

LEMMA SequenceIs ==
  ASSUME NEW S, NEW s \in Seq(S)
  PROVE  IsSequence(s)
BY LenProperties DEF IsSequence

LEMMA SameSequence ==
  ASSUME NEW s, IsSequence(s), NEW t, IsSequence(t), Len(s) = Len(t), \A i \in 1..Len(s) : s[i] = t[i]
  PROVE  s = t
BY DEF IsSequence

LEMMA Concatenation ==
  ASSUME NEW s, IsSequence(s), NEW t, IsSequence(t)
  PROVE  /\ IsSequence(s \o t) /\ Len(s \o t) = Len(s) + Len(t)
         /\ \A i \in 1..Len(s) : (s \o t)[i] = s[i]
         /\ \A i \in (Len(s) + 1)..(Len(s) + Len(t)) : (s \o t)[i] = t[i - Len(s)]
<1> DEFINE S == {s[i] : i \in 1..Len(s)} \cup {t[i] : i \in 1..Len(t)}
<1>1. s \in Seq(S) /\ t \in Seq(S)
  BY SequenceOf
<1> HIDE DEF S
<1>2. Len(s) \in Nat /\ Len(t) \in Nat
  BY DEF IsSequence
<1>3. /\ s \o t \in Seq(S) /\ Len(s \o t) = Len(s) + Len(t)
      /\ \A i \in 1..(Len(s) + Len(t)) : (s \o t)[i] = IF i <= Len(s) THEN s[i] ELSE t[i - Len(s)]
  BY <1>1, ConcatProperties
<1>4. IsSequence(s \o t)
  BY <1>3, SequenceIs
<1> QED
  BY <1>2, <1>3, <1>4

LEMMA Associativity ==
  ASSUME NEW s, IsSequence(s), NEW t, IsSequence(t), NEW u, IsSequence(u)
  PROVE  (s \o t) \o u = s \o (t \o u)
<1> DEFINE S == {s[i] : i \in 1..Len(s)} \cup {t[i] : i \in 1..Len(t)} \cup {u[i] : i \in 1..Len(u)}
<1>1. s \in Seq(S) /\ t \in Seq(S) /\ u \in Seq(S)
  BY SequenceOf
<1> HIDE DEF S
<1> QED
  BY <1>1, ConcatAssociative

LEMMA AllAssociate ==
  \A t, u : IsSequence(t) /\ IsSequence(u) =>
     \A s : IsSequence(s) => (s \o t) \o u = s \o (t \o u)
  BY Associativity

LEMMA NothingAfter ==
  ASSUME NEW s, IsSequence(s)
  PROVE  s \o <<>> = s /\ <<>> \o s = s /\ IsSequence(<<>>) /\ Len(<<>>) = 0
<1> DEFINE S == {s[i] : i \in 1..Len(s)}
<1>1. s \in Seq(S)
  BY SequenceOf
<1> HIDE DEF S
<1> QED
  BY <1>1, ConcatEmptySeq DEF IsSequence

LEMMA Part ==
  ASSUME NEW s, IsSequence(s), NEW m \in 1..(Len(s) + 1), NEW n \in (m - 1)..Len(s)
  PROVE  /\ IsSequence(SubSeq(s, m, n)) /\ Len(SubSeq(s, m, n)) = n - m + 1
         /\ \A i \in 1..(n - m + 1) : SubSeq(s, m, n)[i] = s[m + i - 1]
<1> DEFINE S == {s[i] : i \in 1..Len(s)}
<1>1. s \in Seq(S)
  BY SequenceOf
<1> HIDE DEF S
<1>2. Len(s) \in Nat /\ \A i \in m..n : s[i] \in S
  BY <1>1, ElementOfSeq DEF IsSequence
<1>3. /\ SubSeq(s, m, n) \in Seq(S)
      /\ Len(SubSeq(s, m, n)) = IF m <= n THEN n - m + 1 ELSE 0
      /\ \A i \in 1..(n - m + 1) : SubSeq(s, m, n)[i] = s[m + i - 1]
  BY <1>2, SubSeqProperties
<1>4. IsSequence(SubSeq(s, m, n))
  BY <1>3, SequenceIs
<1> QED
  BY <1>2, <1>3, <1>4

LEMMA AppendOne ==
  ASSUME NEW s, IsSequence(s), NEW e
  PROVE  /\ IsSequence(Append(s, e)) /\ Len(Append(s, e)) = Len(s) + 1 /\ Append(s, e) # <<>>
         /\ \A i \in 1..Len(s) : Append(s, e)[i] = s[i]
         /\ Append(s, e)[Len(s) + 1] = e
<1> DEFINE S == {s[i] : i \in 1..Len(s)} \cup {e}
<1>1. s \in Seq(S) /\ e \in S
  BY SequenceOf
<1> HIDE DEF S
<1>2. /\ Append(s, e) \in Seq(S) /\ Append(s, e) # <<>> /\ Len(Append(s, e)) = Len(s) + 1
      /\ \A i \in 1..Len(s) : Append(s, e)[i] = s[i]
      /\ Append(s, e)[Len(s) + 1] = e
  BY <1>1, AppendProperties
<1>3. IsSequence(Append(s, e))
  BY <1>2, SequenceIs
<1> QED
  BY <1>2, <1>3

-----------------------------------------------------------------------------
(* FlattenSeq() *)

\* What the first i pieces of ss are together.
Joins(ss, n, f) == f = [i \in 1..n |-> IF i = 1 THEN ss[i] ELSE f[i - 1] \o ss[i]]
Pieces(ss) == IsSequence(ss) /\ \A i \in 1..Len(ss) : IsSequence(ss[i])

LEMMA JoinsExist == ASSUME NEW ss PROVE \A n \in Nat : \E f : Joins(ss, n, f)
<1> DEFINE S == {n \in Nat : \E f : Joins(ss, n, f)}
<1>1. 0 \in S
  <2>1. Joins(ss, 0, [i \in 1..0 |-> 0])
    BY DEF Joins
  <2> QED
    BY <2>1
<1>2. ASSUME NEW n \in Nat, n \in S PROVE n + 1 \in S
  <2>1. PICK f : Joins(ss, n, f)
    BY <1>2
  <2> DEFINE g == [i \in 1..(n + 1) |-> IF i = n + 1 THEN (IF i = 1 THEN ss[i] ELSE f[n] \o ss[i]) ELSE f[i]]
  <2>2. ASSUME NEW i \in 1..(n + 1) PROVE g[i] = IF i = 1 THEN ss[i] ELSE g[i - 1] \o ss[i]
    <3>1. CASE i = n + 1
      <4>1. i # 1 => i - 1 = n /\ g[i - 1] = f[n]
        BY <3>1
      <4> QED
        BY <3>1, <4>1
    <3>2. CASE i # n + 1
      <4>1. i \in 1..n /\ g[i] = f[i] /\ (i # 1 => g[i - 1] = f[i - 1])
        BY <3>2
      <4> HIDE DEF g
      <4> QED
        BY <2>1, <4>1 DEF Joins
    <3> QED
      BY <3>1, <3>2
  <2>3. Joins(ss, n + 1, g)
    <3>1. g = [i \in 1..(n + 1) |-> g[i]]
      OBVIOUS
    <3> HIDE DEF g
    <3> QED
      BY <2>2, <3>1 DEF Joins
  <2> QED
    BY <2>3
<1>3. \A n \in Nat : n \in S
  <2> HIDE DEF S
  <2> QED
    BY <1>1, <1>2, Induction
<1> QED
  BY <1>3

LEMMA JoinsStep ==
  ASSUME NEW ss, NEW n, NEW f, Joins(ss, n, f)
  PROVE  \A i \in 1..n : f[i] = IF i = 1 THEN ss[i] ELSE f[i - 1] \o ss[i]
<1> DEFINE e(j) == IF j = 1 THEN ss[j] ELSE f[j - 1] \o ss[j]
<1>1. f = [j \in 1..n |-> e(j)]
  BY DEF Joins
<1> HIDE DEF e
<1>2. \A i \in 1..n : f[i] = e(i)
  BY <1>1
<1> QED
  BY <1>2 DEF e

LEMMA Flattened ==
  ASSUME NEW ss, Len(ss) \in Nat, Len(ss) # 0
  PROVE  \E f : Joins(ss, Len(ss), f) /\ FlattenSeq(ss) = f[Len(ss)]
<1> DEFINE f == CHOOSE f : Joins(ss, Len(ss), f)
<1>1. Joins(ss, Len(ss), f)
  BY JoinsExist
<1>2. FlattenSeq(ss) = f[Len(ss)]
  BY DEF FlattenSeq, Joins
<1> QED
  BY <1>1, <1>2

\* Sequences of pieces that begin alike are joined alike.
LEMMA JoinsAlike ==
  ASSUME NEW ss, NEW tt, NEW n \in Nat, NEW m \in Nat, n <= m, NEW f, NEW g,
         Joins(ss, n, f), Joins(tt, m, g), \A i \in 1..n : ss[i] = tt[i]
  PROVE  \A i \in 1..n : f[i] = g[i]
<1> DEFINE S == {i \in Nat : i \in 1..n => f[i] = g[i]}
<1>1. 0 \in S
  OBVIOUS
<1>2. ASSUME NEW i \in Nat, i \in S PROVE i + 1 \in S
  <2> SUFFICES ASSUME i + 1 \in 1..n PROVE f[i + 1] = g[i + 1]
    OBVIOUS
  <2>1. /\ f[i + 1] = IF i + 1 = 1 THEN ss[i + 1] ELSE f[(i + 1) - 1] \o ss[i + 1]
        /\ g[i + 1] = IF i + 1 = 1 THEN tt[i + 1] ELSE g[(i + 1) - 1] \o tt[i + 1]
    BY JoinsStep
  <2>2. (i + 1) - 1 = i /\ (i + 1 # 1 => i \in 1..n)
    OBVIOUS
  <2> QED
    BY <1>2, <2>1, <2>2
<1>3. \A i \in Nat : i \in S
  <2> HIDE DEF S
  <2> QED
    BY <1>1, <1>2, Induction
<1> QED
  BY <1>3

LEMMA FlattenOne ==
  ASSUME NEW ss, Len(ss) = 1
  PROVE  FlattenSeq(ss) = ss[1]
<1>0. Len(ss) \in Nat /\ Len(ss) # 0
  OBVIOUS
<1>1. PICK f : Joins(ss, Len(ss), f) /\ FlattenSeq(ss) = f[Len(ss)]
  BY <1>0, Flattened
<1>2. 1 \in 1..Len(ss)
  OBVIOUS
<1>3. f[1] = IF 1 = 1 THEN ss[1] ELSE f[1 - 1] \o ss[1]
  BY <1>1, <1>2, JoinsStep
<1> QED
  BY <1>1, <1>3

LEMMA FlattenAppend ==
  ASSUME NEW ss, IsSequence(ss), Len(ss) # 0, NEW s
  PROVE  FlattenSeq(Append(ss, s)) = FlattenSeq(ss) \o s
<1> DEFINE n == Len(ss)
           tt == Append(ss, s)
<1>1. n \in Nat \ {0} /\ Len(tt) = n + 1 /\ tt[n + 1] = s /\ \A i \in 1..n : tt[i] = ss[i]
  BY AppendOne DEF IsSequence
<1> HIDE DEF n, tt
<1>2. PICK f : Joins(ss, n, f) /\ FlattenSeq(ss) = f[n]
  BY <1>1, Flattened DEF n
<1>3. PICK g : Joins(tt, n + 1, g) /\ FlattenSeq(tt) = g[n + 1]
  BY <1>1, Flattened
<1>4. g[n + 1] = g[n] \o tt[n + 1]
  <2>1. n + 1 \in 1..(n + 1) /\ n + 1 # 1 /\ (n + 1) - 1 = n
    BY <1>1
  <2>2. \A i \in 1..(n + 1) : g[i] = IF i = 1 THEN tt[i] ELSE g[i - 1] \o tt[i]
    BY <1>3, JoinsStep
  <2> QED
    BY <2>1, <2>2
<1>5. f[n] = g[n]
  BY <1>1, <1>2, <1>3, JoinsAlike
<1> QED
  BY <1>1, <1>2, <1>3, <1>4, <1>5 DEF tt

\* Joined pieces are a sequence, and what comes after the first piece does not depend on it.
SameTail(ss, tt) == Len(ss) = Len(tt) /\ \A i \in 2..Len(ss) : ss[i] = tt[i]

CommonEnd(ss, tt) ==
    \E r : IsSequence(r) /\ FlattenSeq(ss) = ss[1] \o r /\ FlattenSeq(tt) = tt[1] \o r

LEMMA FlattenHead ==
  ASSUME NEW ss, Pieces(ss), NEW tt, Pieces(tt), Len(ss) # 0, SameTail(ss, tt)
  PROVE  CommonEnd(ss, tt)
<1> DEFINE n == Len(ss)
<1> USE DEF SameTail
<1>0. n \in Nat
  <2>1. IsSequence(ss)
    BY DEF Pieces
  <2> QED
    BY <2>1 DEF IsSequence
<1>1. n \in Nat /\ n # 0 /\ Len(tt) = n /\ IsSequence(ss[1]) /\ IsSequence(tt[1])
  BY <1>0 DEF Pieces
<1>2. PICK f : Joins(ss, n, f) /\ FlattenSeq(ss) = f[n]
  BY <1>1, Flattened
<1>3. PICK g : Joins(tt, n, g) /\ FlattenSeq(tt) = g[n]
  BY <1>1, Flattened
<1>7. \A i \in 1..n : IsSequence(ss[i])
  BY DEF Pieces
<1>8. \A i \in 2..n : ss[i] = tt[i]
  OBVIOUS
<1> HIDE DEF n
<1> DEFINE S == {i \in Nat : i \in 1..n => \E r : IsSequence(r) /\ f[i] = ss[1] \o r /\ g[i] = tt[1] \o r}
<1>4. 0 \in S
  OBVIOUS
<1>5. ASSUME NEW i \in Nat, i \in S PROVE i + 1 \in S
  <2> DEFINE Alike(j, r) == IsSequence(r) /\ f[j] = ss[1] \o r /\ g[j] = tt[1] \o r
  <2>0. i + 1 \in Nat
    OBVIOUS
  <2> SUFFICES ASSUME i + 1 \in 1..n PROVE \E r : Alike(i + 1, r)
    BY <2>0
  <2>1. /\ f[i + 1] = IF i + 1 = 1 THEN ss[i + 1] ELSE f[(i + 1) - 1] \o ss[i + 1]
        /\ g[i + 1] = IF i + 1 = 1 THEN tt[i + 1] ELSE g[(i + 1) - 1] \o tt[i + 1]
    BY <1>2, <1>3, JoinsStep
  <2>2. (i + 1) - 1 = i
    OBVIOUS
  <2>3. CASE i = 0
    <3>1. f[i + 1] = ss[1] \o <<>> /\ g[i + 1] = tt[1] \o <<>> /\ IsSequence(<<>>)
      BY <1>1, <2>1, <2>3, NothingAfter
    <3> QED
      BY <3>1
  <2>4. CASE i # 0
    <3>1. i \in 1..n /\ i + 1 \in 2..n /\ i + 1 # 1
      BY <1>1, <2>4
    <3>2. PICK r : IsSequence(r) /\ f[i] = ss[1] \o r /\ g[i] = tt[1] \o r
      BY <1>5, <3>1
    <3>3. f[i + 1] = (ss[1] \o r) \o ss[i + 1] /\ g[i + 1] = (tt[1] \o r) \o ss[i + 1]
      BY <1>8, <2>1, <2>2, <3>1, <3>2
    <3>4. IsSequence(ss[i + 1]) /\ IsSequence(r \o ss[i + 1])
      BY <1>7, <3>1, <3>2, Concatenation
    <3>5. IsSequence(ss[1]) /\ IsSequence(tt[1]) /\ IsSequence(r)
      BY <1>1, <3>2
    <3>6. \A h : IsSequence(h) => (h \o r) \o ss[i + 1] = h \o (r \o ss[i + 1])
      BY <3>4, <3>5, AllAssociate, Zenon
    <3>7. f[i + 1] = ss[1] \o (r \o ss[i + 1])
      BY <3>3, <3>5, <3>6, Zenon
    <3>8. g[i + 1] = tt[1] \o (r \o ss[i + 1])
      BY <3>3, <3>5, <3>6, Zenon
    <3> QED
      BY <3>4, <3>7, <3>8, Zenon
  <2> QED
    BY <2>3, <2>4
<1>6. \A i \in Nat : i \in S
  <2> HIDE DEF S
  <2> QED
    BY <1>4, <1>5, Induction
<1>9. n \in 1..n
  BY <1>1
<1>10. PICK r : IsSequence(r) /\ f[n] = ss[1] \o r /\ g[n] = tt[1] \o r
  <2> HIDE DEF S, n
  <2>1. n \in S
    BY <1>0, <1>6
  <2> QED
    BY <1>9, <2>1 DEF S
<1>11. FlattenSeq(ss) = f[n] /\ FlattenSeq(tt) = g[n]
  BY <1>2, <1>3
<1> QED
  BY <1>10, <1>11 DEF CommonEnd

\* Pieces of one length.
LEMMA FlattenLength ==
  ASSUME NEW ss, Pieces(ss), NEW k \in Nat, \A i \in 1..Len(ss) : Len(ss[i]) = k
  PROVE  IsSequence(FlattenSeq(ss)) /\ Len(FlattenSeq(ss)) = k * Len(ss)
<1> DEFINE n == Len(ss)
<1>1. n \in Nat /\ \A i \in 1..n : IsSequence(ss[i]) /\ Len(ss[i]) = k
  BY DEF Pieces, IsSequence
<1>2. CASE n = 0
  <2>1. FlattenSeq(ss) = ss
    BY <1>2 DEF FlattenSeq
  <2> QED
    BY <1>2, <2>1 DEF Pieces
<1>3. CASE n # 0
  <2>1. PICK f : Joins(ss, n, f) /\ FlattenSeq(ss) = f[n]
    BY <1>1, <1>3, Flattened
  <2> HIDE DEF n
  <2> DEFINE S == {i \in Nat : i \in 1..n => IsSequence(f[i]) /\ Len(f[i]) = k * i}
  <2>2. 0 \in S
    OBVIOUS
  <2>3. ASSUME NEW i \in Nat, i \in S PROVE i + 1 \in S
    <3> SUFFICES ASSUME i + 1 \in 1..n PROVE IsSequence(f[i + 1]) /\ Len(f[i + 1]) = k * (i + 1)
      OBVIOUS
    <3>1. f[i + 1] = IF i + 1 = 1 THEN ss[i + 1] ELSE f[(i + 1) - 1] \o ss[i + 1]
      BY <2>1, JoinsStep
    <3>2. (i + 1) - 1 = i /\ k * (i + 1) = k * i + k /\ k * i \in Nat
      OBVIOUS
    <3>3. CASE i = 0
      <4>1. f[i + 1] = ss[1] /\ k * (i + 1) = k /\ 1 \in 1..n
        BY <3>1, <3>3
      <4> QED
        BY <1>1, <4>1
    <3>4. CASE i # 0
      <4>1. i \in 1..n /\ i + 1 # 1
        BY <1>1, <3>4
      <4>2. IsSequence(f[i]) /\ Len(f[i]) = k * i /\ f[i + 1] = f[i] \o ss[i + 1]
        BY <2>3, <3>1, <3>2, <4>1
      <4>3. IsSequence(ss[i + 1]) /\ Len(ss[i + 1]) = k
        BY <1>1
      <4>a. IsSequence(f[i] \o ss[i + 1]) /\ Len(f[i] \o ss[i + 1]) = Len(f[i]) + Len(ss[i + 1])
        BY <4>2, <4>3, Concatenation
      <4>4. IsSequence(f[i + 1]) /\ Len(f[i + 1]) = Len(f[i]) + Len(ss[i + 1])
        BY <4>2, <4>a
      <4>5. Len(f[i + 1]) = k * i + k
        BY <4>2, <4>3, <4>4
      <4> QED
        BY <3>2, <4>4, <4>5
    <3> QED
      BY <3>3, <3>4
  <2>4. \A i \in Nat : i \in S
    <3> HIDE DEF S
    <3> QED
      BY <2>2, <2>3, Induction
  <2>5. n \in 1..n
    BY <1>1, <1>3
  <2> QED
    BY <1>1, <2>1, <2>4, <2>5 DEF n
<1> QED
  BY <1>2, <1>3

-----------------------------------------------------------------------------
(* The inductive invariant *)

\* The buffers of a sequence of buffers and sizes.
Firsts(d) == {d[i][1] : i \in DOMAIN d}

\* A Message has one buffer or a sequence of them.
IsMessage(m) ==
    /\ m = [buf |-> m.buf, data |-> m.data, freeIt |-> m.freeIt]
    /\ IsSequence(m.data) /\ m.freeIt \in BOOLEAN
    /\ m.buf = NULL \/ m.data = <<>>

\* What it points to is allocated.
Allocated == \A m \in Msgs : buffers(msg[m]) \subseteq DOMAIN heap

\* A buffer it does not free is the caller's, one it frees is nobody else's.
Exclusive ==
    /\ \A m \in Msgs : ~msg[m].freeIt => buffers(msg[m]) \subseteq caller
    /\ \A m \in Msgs : Frees(msg[m]) \cap caller = {}
    /\ \A m, r \in Msgs : m # r => Frees(msg[m]) \cap Frees(msg[r]) = {}

\* No block leaks.
Accounted == \A b \in DOMAIN heap : b \in caller \/ \E m \in Msgs : b \in Frees(msg[m])

\* What moreInCurrentBatch() relies on.
CursorTypeOK ==
    /\ DOMAIN cursor = {"nReturned", "pos", "data", "putBack", "view", "id", "batches", "due"}
    /\ cursor.nReturned \in Nat /\ cursor.pos \in 0..cursor.nReturned

Ownership ==
    /\ host \in Hosts
    /\ DOMAIN heap \subseteq Block /\ caller \subseteq DOMAIN heap
    /\ DOMAIN msg = Msgs /\ msg = [m \in Msgs |-> msg[m]] /\ \A m \in Msgs : IsMessage(msg[m])
    /\ Allocated /\ Exclusive /\ Accounted /\ CursorTypeOK

-----------------------------------------------------------------------------
(* Lemmas about messages and the heap *)

LEMMA NonEmptySequence ==
  ASSUME NEW s, IsSequence(s), s # <<>>
  PROVE  1 \in DOMAIN s
<1>1. DOMAIN s = 1..Len(s) /\ Len(s) \in Nat
  BY DEF IsSequence
<1>2. Len(s) # 0
  <2>1. SUFFICES ASSUME Len(s) = 0 PROVE FALSE
    OBVIOUS
  <2>2. s \in Seq({})
    BY <2>1, SequenceOf
  <2> QED
    BY <2>1, <2>2, EmptySeq
<1> QED
  BY <1>1, <1>2

LEMMA AppendBuffer ==
  ASSUME NEW s, IsSequence(s), NEW e
  PROVE  /\ IsSequence(Append(s, e)) /\ Append(s, e) # <<>>
         /\ Firsts(Append(s, e)) = Firsts(s) \cup {e[1]}
<1> DEFINE S == {s[i] : i \in 1..Len(s)} \cup {e}
           t == Append(s, e)
<1>1. s \in Seq(S) /\ e \in S
  BY SequenceOf
<1>2. /\ t \in Seq(S) /\ Len(t) = Len(s) + 1
      /\ \A i \in 1..Len(s) : t[i] = s[i]
      /\ t[Len(s) + 1] = e
  BY <1>1, AppendProperties
<1>3. DOMAIN s = 1..Len(s) /\ Len(s) \in Nat /\ DOMAIN t = 1..(Len(s) + 1)
  BY <1>1, <1>2, LenProperties
<1>4. IsSequence(t) /\ t # <<>>
  <2>1. t = [i \in 1..Len(t) |-> t[i]] /\ Len(t) \in Nat
    BY <1>2, LenProperties
  <2>2. t # <<>>
    BY <1>1, AppendProperties
  <2> QED
    BY <2>1, <2>2 DEF IsSequence
<1>5. Firsts(t) = Firsts(s) \cup {e[1]}
  <2>1. DOMAIN t = DOMAIN s \cup {Len(s) + 1}
    BY <1>3
  <2> HIDE DEF t, S
  <2> QED
    BY <1>2, <1>3, <2>1 DEF Firsts
<1> QED
  BY <1>4, <1>5

LEMMA NothingToFree == buffers(NoMessage) = {} /\ IsMessage(NoMessage) /\ ~NoMessage.freeIt
<1>1. NoMessage.data = <<>> /\ NoMessage.buf = NULL /\ ~NoMessage.freeIt
  BY DEF NoMessage
<1>2. IsSequence(<<>>) /\ DOMAIN <<>> = {}
  BY DEF IsSequence
<1> QED
  BY <1>1, <1>2 DEF buffers, IsMessage, NoMessage

LEMMA OneBuffer ==
  ASSUME NEW b, b # NULL, NEW f \in BOOLEAN, NEW m, m = [buf |-> b, data |-> <<>>, freeIt |-> f]
  PROVE  IsMessage(m) /\ buffers(m) = {b} /\ m.freeIt = f
<1>1. IsSequence(<<>>) /\ DOMAIN <<>> = {}
  BY DEF IsSequence
<1> QED
  BY <1>1 DEF buffers, IsMessage

LEMMA FreesBuffers ==
  ASSUME NEW m
  PROVE  (m.freeIt => Frees(m) = buffers(m)) /\ (~m.freeIt => Frees(m) = {})
BY DEF Frees

LEMMA EmptyMessage ==
  ASSUME NEW m, IsMessage(m), empty(m)
  PROVE  buffers(m) = {} /\ m.buf = NULL /\ m.data = <<>>
<1>1. DOMAIN <<>> = {}
  OBVIOUS
<1> QED
  BY <1>1 DEF empty, buffers

LEMMA FirstBuffer ==
  ASSUME NEW m, IsMessage(m), ~empty(m)
  PROVE  First(m) \in buffers(m)
<1>1. CASE m.buf # NULL
  BY <1>1 DEF First, buffers
<1>2. CASE m.buf = NULL
  <2>1. 1 \in DOMAIN m.data
    BY <1>2, NonEmptySequence DEF IsMessage, empty
  <2> QED
    BY <1>2, <2>1 DEF First, buffers
<1> QED
  BY <1>1, <1>2

LEMMA DomainWith ==
  ASSUME NEW h, NEW b, NEW bytes
  PROVE  DOMAIN With(h, b, bytes) = DOMAIN h \cup {b}
BY DEF With

LEMMA DomainWithout ==
  ASSUME NEW blocks
  PROVE  DOMAIN Without(blocks) = DOMAIN heap \ blocks
BY DEF Without

-----------------------------------------------------------------------------
(* Each action keeps the ownership of the blocks *)

LEMMA InitOwnership == Init => Ownership
<1> SUFFICES ASSUME Init PROVE Ownership
  OBVIOUS
<1>1. host \in Hosts /\ heap = <<>> /\ caller = {} /\ msg = [m \in Msgs |-> NoMessage]
  BY DEF Init
<1>2. DOMAIN heap = {}
  BY <1>1
<1>3. \A m \in Msgs : IsMessage(msg[m]) /\ buffers(msg[m]) = {} /\ Frees(msg[m]) = {}
  BY <1>1, NothingToFree, FreesBuffers
<1>4. DOMAIN msg = Msgs /\ msg = [m \in Msgs |-> msg[m]]
  BY <1>1
<1>5. CursorTypeOK
  BY DEF Init, CursorTypeOK
<1> QED
  BY <1>1, <1>2, <1>3, <1>4, <1>5 DEF Ownership, Allocated, Exclusive, Accounted

\* The bytes of a buffer change, and the cursor: nothing changes hands.
LEMMA SameOwners ==
  ASSUME Ownership, DOMAIN heap' = DOMAIN heap, UNCHANGED <<host, caller, msg>>, CursorTypeOK'
  PROVE  Ownership'
<1>1. host' = host /\ caller' = caller /\ msg' = msg
  OBVIOUS
<1> QED
  BY <1>1 DEF Ownership, Allocated, Exclusive, Accounted

LEMMA SameCursor ==
  ASSUME Ownership, UNCHANGED cursor
  PROVE  CursorTypeOK'
BY DEF Ownership, CursorTypeOK

LEMMA BuildOwnership ==
  ASSUME Ownership, NEW n, NEW first, Build(n, first)
  PROVE  Ownership'
<1>1. PICK b \in Free : DOMAIN heap' = DOMAIN heap \cup {b} /\ caller' = caller \cup {b}
  BY DEF Build, With
<1>2. host' = host /\ msg' = msg /\ CursorTypeOK'
  BY SameCursor DEF Build
<1>3. \A m \in Msgs : Frees(msg[m]) \subseteq DOMAIN heap
  BY FreesBuffers DEF Ownership, Allocated, IsMessage
<1>4. b \in Block /\ b \notin DOMAIN heap
  BY DEF Free
<1> QED
  BY <1>1, <1>2, <1>3, <1>4 DEF Ownership, Allocated, Exclusive, Accounted

LEMMA SetDataOwnership ==
  ASSUME Ownership, NEW m \in Msgs, NEW b, NEW freeIt \in BOOLEAN, SetData(m, b, freeIt)
  PROVE  Ownership'
<1>1. b \in caller /\ b # NULL /\ b \in DOMAIN heap /\ \A r \in Msgs : b \notin buffers(msg[r])
  BY MessageAssumption DEF SetData, Unlent, Ownership
<1>2. /\ msg' = [msg EXCEPT ![m].buf = b, ![m].freeIt = freeIt]
      /\ caller' = IF freeIt THEN caller \ {b} ELSE caller
      /\ host' = host /\ heap' = heap /\ CursorTypeOK'
  BY SameCursor DEF SetData
<1>3. empty(msg[m]) /\ IsMessage(msg[m])
  BY DEF SetData, Ownership
<1>4. msg'[m] = [buf |-> b, data |-> <<>>, freeIt |-> freeIt] /\ \A r \in Msgs \ {m} : msg'[r] = msg[r]
  <2>1. msg[m].data = <<>> /\ msg[m] = [buf |-> msg[m].buf, data |-> msg[m].data, freeIt |-> msg[m].freeIt]
    BY <1>3, EmptyMessage DEF IsMessage
  <2> QED
    BY <1>2, <2>1 DEF Ownership
<1>5. DOMAIN msg' = Msgs /\ msg' = [r \in Msgs |-> msg'[r]]
  BY <1>2 DEF Ownership
<1>6. IsMessage(msg'[m]) /\ buffers(msg'[m]) = {b} /\ msg'[m].freeIt = freeIt
  BY <1>1, <1>4, OneBuffer
<1>7. Frees(msg'[m]) = IF freeIt THEN {b} ELSE {}
  BY <1>6, FreesBuffers
<1>8. \A r \in Msgs : Frees(msg[r]) \subseteq buffers(msg[r])
  BY FreesBuffers DEF Ownership, IsMessage
<1>9. Frees(msg[m]) = {}
  BY <1>3, <1>8, EmptyMessage
<1>10. Allocated'
  BY <1>1, <1>2, <1>4, <1>6 DEF Ownership, Allocated
<1>11. Exclusive'
  BY <1>1, <1>2, <1>4, <1>6, <1>7, <1>8 DEF Ownership, Exclusive
<1>12. Accounted'
  BY <1>1, <1>2, <1>4, <1>7, <1>9 DEF Ownership, Accounted
<1> QED
  BY <1>2, <1>4, <1>5, <1>6, <1>10, <1>11, <1>12 DEF Ownership

\* A message gets buffers S of its own, new ones; those it freed before are gone.
LEMMA RenewedOwnership ==
  ASSUME Ownership, NEW m \in Msgs, NEW S, S \subseteq Free,
         UNCHANGED <<host, caller>>, CursorTypeOK',
         DOMAIN heap' = (DOMAIN heap \ Frees(msg[m])) \cup S,
         DOMAIN msg' = Msgs, msg' = [r \in Msgs |-> msg'[r]],
         \A r \in Msgs \ {m} : msg'[r] = msg[r],
         IsMessage(msg'[m]), buffers(msg'[m]) = S, Frees(msg'[m]) = S
  PROVE  Ownership'
<1>1. S \subseteq Block /\ S \cap DOMAIN heap = {}
  BY DEF Free
<1>2. \A r \in Msgs : Frees(msg[r]) \subseteq DOMAIN heap
  BY FreesBuffers DEF Ownership, Allocated, IsMessage
<1>3. caller' = caller /\ host' = host /\ caller \subseteq DOMAIN heap /\ Frees(msg[m]) \cap caller = {}
  BY DEF Ownership, Exclusive
<1>4. \A r \in Msgs \ {m} : buffers(msg[r]) \cap Frees(msg[m]) = {}
  <2>1. TAKE r \in Msgs \ {m}
  <2>2. CASE msg[r].freeIt
    BY <2>2, FreesBuffers DEF Ownership, Exclusive
  <2>3. CASE ~msg[r].freeIt
    BY <1>3, <2>3 DEF Ownership, Exclusive
  <2> QED
    BY <2>2, <2>3
<1>5. Allocated'
  BY <1>4 DEF Ownership, Allocated
<1>6. Exclusive'
  <2>1. \A r \in Msgs : ~msg'[r].freeIt => buffers(msg'[r]) \subseteq caller'
    <3>1. ~msg'[m].freeIt => S = {}
      BY FreesBuffers
    <3> QED
      BY <1>3, <3>1 DEF Ownership, Exclusive
  <2>2. \A r \in Msgs : Frees(msg'[r]) \cap caller' = {}
    BY <1>1, <1>3 DEF Ownership, Exclusive
  <2>3. \A q, r \in Msgs : q # r => Frees(msg'[q]) \cap Frees(msg'[r]) = {}
    BY <1>1, <1>2 DEF Ownership, Exclusive
  <2> QED
    BY <2>1, <2>2, <2>3 DEF Exclusive
<1>7. Accounted'
  <2> SUFFICES ASSUME NEW b \in DOMAIN heap' PROVE b \in caller' \/ \E r \in Msgs : b \in Frees(msg'[r])
    BY DEF Accounted
  <2>1. CASE b \in S
    BY <2>1
  <2>2. CASE b \notin S
    <3>1. b \in DOMAIN heap /\ b \notin Frees(msg[m])
      BY <2>2
    <3>2. b \in caller \/ \E r \in Msgs : b \in Frees(msg[r])
      BY <3>1 DEF Ownership, Accounted
    <3>3. \A r \in Msgs : b \in Frees(msg[r]) => r \in Msgs \ {m}
      BY <3>1
    <3>4. \A r \in Msgs \ {m} : Frees(msg'[r]) = Frees(msg[r])
      OBVIOUS
    <3> QED
      BY <1>3, <3>2, <3>3, <3>4
  <2> QED
    BY <2>1, <2>2
<1> QED
  BY <1>1, <1>3, <1>5, <1>6, <1>7 DEF Ownership

\* One new buffer.
LEMMA ReplacedOwnership ==
  ASSUME Ownership, NEW m \in Msgs, NEW b \in Free,
         UNCHANGED <<host, caller>>, CursorTypeOK',
         DOMAIN heap' = (DOMAIN heap \ Frees(msg[m])) \cup {b},
         msg' = [msg EXCEPT ![m] = [buf |-> b, data |-> <<>>, freeIt |-> TRUE]]
  PROVE  Ownership'
<1>1. b # NULL /\ {b} \subseteq Free
  BY MessageAssumption DEF Free
<1>2. DOMAIN msg' = Msgs /\ msg' = [r \in Msgs |-> msg'[r]]
  BY DEF Ownership
<1>3. msg'[m] = [buf |-> b, data |-> <<>>, freeIt |-> TRUE] /\ \A r \in Msgs \ {m} : msg'[r] = msg[r]
  BY DEF Ownership
<1>4. IsMessage(msg'[m]) /\ buffers(msg'[m]) = {b} /\ Frees(msg'[m]) = {b}
  BY <1>1, <1>3, OneBuffer, FreesBuffers
<1> DEFINE S == {b}
<1>5. S \subseteq Free /\ DOMAIN heap' = (DOMAIN heap \ Frees(msg[m])) \cup S
  BY <1>1
<1>6. buffers(msg'[m]) = S /\ Frees(msg'[m]) = S
  BY <1>4
<1>7. \A r \in Msgs \ {m} : msg'[r] = msg[r]
  BY <1>3
<1> HIDE DEF S
<1> QED
  BY <1>2, <1>4, <1>5, <1>6, <1>7, RenewedOwnership

LEMMA SetDataOperationOwnership ==
  ASSUME Ownership, NEW m \in Msgs, NEW op, NEW len, SetDataOperation(m, op, len)
  PROVE  Ownership'
<1>1. PICK b \in Free : /\ DOMAIN heap' = DOMAIN heap \cup {b}
                        /\ msg' = [msg EXCEPT ![m].buf = b, ![m].freeIt = TRUE]
  BY DEF SetDataOperation, With
<1>2. UNCHANGED <<host, caller>> /\ CursorTypeOK'
  BY SameCursor DEF SetDataOperation
<1>3. empty(msg[m]) /\ IsMessage(msg[m])
  BY DEF SetDataOperation, Ownership
<1>4. msg[m].data = <<>> /\ Frees(msg[m]) = {}
  BY <1>3, EmptyMessage, FreesBuffers DEF IsMessage
<1>5. b # NULL /\ {b} \subseteq Free
  BY MessageAssumption DEF Free
<1>6. msg'[m] = [buf |-> b, data |-> <<>>, freeIt |-> TRUE] /\ \A r \in Msgs \ {m} : msg'[r] = msg[r]
  <2>1. msg[m].data = <<>> /\ msg[m] = [buf |-> msg[m].buf, data |-> msg[m].data, freeIt |-> msg[m].freeIt]
    BY <1>3, <1>4 DEF IsMessage
  <2> QED
    BY <1>1, <2>1 DEF Ownership
<1>7. DOMAIN msg' = Msgs /\ msg' = [r \in Msgs |-> msg'[r]]
  BY <1>1 DEF Ownership
<1>8. IsMessage(msg'[m]) /\ buffers(msg'[m]) = {b} /\ Frees(msg'[m]) = {b}
  BY <1>5, <1>6, OneBuffer, FreesBuffers
<1>9. DOMAIN heap' = (DOMAIN heap \ Frees(msg[m])) \cup {b}
  BY <1>1, <1>4
<1> QED
  BY <1>2, <1>5, <1>6, <1>7, <1>8, <1>9, RenewedOwnership

LEMMA AppendDataOwnership ==
  ASSUME Ownership, NEW m \in Msgs, NEW b, NEW n, AppendData(m, b, n)
  PROVE  Ownership'
<1>1. b \in caller /\ b # NULL /\ b \in DOMAIN heap /\ \A r \in Msgs : b \notin buffers(msg[r])
  BY MessageAssumption DEF AppendData, Unlent, Ownership
<1>2. host' = host /\ CursorTypeOK'
  BY SameCursor DEF AppendData
<1> DEFINE old == msg[m]
           vec == IF old.buf # NULL THEN Append(old.data, <<old.buf, getMessageLength(heap[old.buf])>>)
                                    ELSE old.data
<1>3. CASE UNCHANGED <<heap, caller, msg, text>>
  BY <1>2, <1>3, SameOwners
\* The buffer becomes the message's, alone or after those it has.
<1>4. ASSUME IsMessage(msg'[m]), buffers(msg'[m]) = buffers(old) \cup {b}, msg'[m].freeIt,
             DOMAIN msg' = Msgs, msg' = [r \in Msgs |-> msg'[r]],
             \A r \in Msgs \ {m} : msg'[r] = msg[r],
             caller' = caller \ {b}, DOMAIN heap' = DOMAIN heap,
             Frees(old) = buffers(old)
      PROVE  Ownership'
  <2>1. Frees(msg'[m]) = Frees(old) \cup {b}
    BY <1>4, FreesBuffers
  <2>2. \A r \in Msgs : Frees(msg[r]) \subseteq buffers(msg[r])
    BY FreesBuffers DEF Ownership, IsMessage
  <2>3. Allocated'
    BY <1>1, <1>4 DEF Ownership, Allocated
  <2>4. Exclusive'
    <3>1. \A r \in Msgs : ~msg'[r].freeIt => buffers(msg'[r]) \subseteq caller'
      BY <1>1, <1>4 DEF Ownership, Exclusive
    <3>2. \A r \in Msgs : Frees(msg'[r]) \cap caller' = {}
      BY <1>1, <1>4, <2>1 DEF Ownership, Exclusive
    <3>3. \A q, r \in Msgs : q # r => Frees(msg'[q]) \cap Frees(msg'[r]) = {}
      BY <1>1, <1>4, <2>1, <2>2 DEF Ownership, Exclusive
    <3> QED
      BY <3>1, <3>2, <3>3 DEF Exclusive
  <2>5. Accounted'
    BY <1>1, <1>4, <2>1 DEF Ownership, Accounted
  <2> QED
    BY <1>1, <1>2, <1>4, <2>3, <2>4, <2>5 DEF Ownership
<1>5. ASSUME empty(old), msg' = [msg EXCEPT ![m].buf = b, ![m].freeIt = TRUE],
             DOMAIN heap' = DOMAIN heap \cup {b}, caller' = caller \ {b}
      PROVE  Ownership'
  <2>1. IsMessage(old) /\ old.data = <<>> /\ buffers(old) = {}
    BY <1>5, EmptyMessage DEF Ownership
  <2>2. msg'[m] = [buf |-> b, data |-> <<>>, freeIt |-> TRUE] /\ \A r \in Msgs \ {m} : msg'[r] = msg[r]
    <3>1. old = [buf |-> old.buf, data |-> old.data, freeIt |-> old.freeIt]
      BY <2>1 DEF IsMessage
    <3> QED
      BY <1>5, <2>1, <3>1 DEF Ownership
  <2>3. IsMessage(msg'[m]) /\ buffers(msg'[m]) = {b} /\ msg'[m].freeIt
    BY <1>1, <2>2, OneBuffer
  <2>4. DOMAIN msg' = Msgs /\ msg' = [r \in Msgs |-> msg'[r]]
    BY <1>5 DEF Ownership
  <2>5. Frees(old) = {}
    BY <2>1, FreesBuffers DEF IsMessage
  <2> QED
    BY <1>1, <1>4, <1>5, <2>1, <2>2, <2>3, <2>4, <2>5
<1>6. ASSUME ~empty(old), old.freeIt,
             msg' = [msg EXCEPT ![m].buf = NULL, ![m].data = Append(vec, <<b, n>>)],
             DOMAIN heap' = DOMAIN heap \cup {First(old)}, caller' = caller \ {b}
      PROVE  Ownership'
  <2>1. IsMessage(old) /\ First(old) \in buffers(old) /\ DOMAIN heap' = DOMAIN heap
    BY <1>6, FirstBuffer DEF Ownership, Allocated
  <2>2. IsSequence(vec) /\ buffers(old) = Firsts(vec)
    <3>1. CASE old.buf # NULL
      <4>1. old.data = <<>> /\ IsSequence(old.data) /\ DOMAIN <<>> = {}
        BY <2>1, <3>1 DEF IsMessage
      <4> DEFINE e == <<old.buf, getMessageLength(heap[old.buf])>>
      <4>2. vec = Append(old.data, e) /\ e[1] = old.buf
        BY <3>1
      <4> HIDE DEF e, vec
      <4>3. IsSequence(vec) /\ Firsts(vec) = Firsts(old.data) \cup {e[1]}
        BY <4>1, <4>2, AppendBuffer
      <4> QED
        BY <3>1, <4>1, <4>2, <4>3 DEF buffers, Firsts
    <3>2. CASE old.buf = NULL
      BY <2>1, <3>2 DEF IsMessage, buffers, Firsts
    <3> QED
      BY <3>1, <3>2
  <2> DEFINE e == <<b, n>>
             d == Append(vec, e)
  <2>3. IsSequence(d) /\ Firsts(d) = buffers(old) \cup {b}
    <3>1. e[1] = b
      OBVIOUS
    <3> HIDE DEF e, vec
    <3> QED
      BY <2>2, <3>1, AppendBuffer
  <2>4. msg'[m] = [buf |-> NULL, data |-> d, freeIt |-> TRUE] /\ \A r \in Msgs \ {m} : msg'[r] = msg[r]
    <3>1. old = [buf |-> old.buf, data |-> old.data, freeIt |-> old.freeIt]
      BY <2>1 DEF IsMessage
    <3> HIDE DEF d, vec
    <3>2. msg' = [msg EXCEPT ![m].buf = NULL, ![m].data = d]
      BY <1>6 DEF d
    <3>3. old.freeIt = TRUE
      BY <1>6, <2>1 DEF IsMessage
    <3> QED
      BY <3>1, <3>2, <3>3 DEF Ownership
  <2>5. IsMessage(msg'[m]) /\ buffers(msg'[m]) = buffers(old) \cup {b} /\ msg'[m].freeIt
    <3> HIDE DEF d
    <3> QED
      BY <2>3, <2>4 DEF IsMessage, buffers, Firsts
  <2>6. DOMAIN msg' = Msgs /\ msg' = [r \in Msgs |-> msg'[r]]
    <3> HIDE DEF vec
    <3> QED
      BY <1>6 DEF Ownership
  <2>7. Frees(old) = buffers(old)
    BY <1>6, FreesBuffers
  <2> QED
    BY <1>4, <1>6, <2>1, <2>4, <2>5, <2>6, <2>7
<1>7. \/ UNCHANGED <<heap, caller, msg, text>>
      \/ /\ empty(old) /\ msg' = [msg EXCEPT ![m].buf = b, ![m].freeIt = TRUE]
         /\ DOMAIN heap' = DOMAIN heap \cup {b} /\ caller' = caller \ {b}
      \/ /\ ~empty(old) /\ old.freeIt
         /\ msg' = [msg EXCEPT ![m].buf = NULL, ![m].data = Append(vec, <<b, n>>)]
         /\ DOMAIN heap' = DOMAIN heap \cup {First(old)} /\ caller' = caller \ {b}
  BY DEF AppendData, With
<1> QED
  BY <1>3, <1>5, <1>6, <1>7

\* A message lets go of its buffers, and those it owns are freed.
LEMMA ResetOwnership ==
  ASSUME Ownership, NEW m \in Msgs, Reset(m)
  PROVE  Ownership'
<1>1. DOMAIN heap' = (DOMAIN heap \ Frees(msg[m])) \cup {} /\ msg' = [msg EXCEPT ![m] = NoMessage]
  BY DomainWithout DEF Reset
<1>2. UNCHANGED <<host, caller>> /\ CursorTypeOK'
  BY SameCursor DEF Reset
<1>3. msg'[m] = NoMessage /\ \A r \in Msgs \ {m} : msg'[r] = msg[r]
  BY <1>1 DEF Ownership
<1>4. DOMAIN msg' = Msgs /\ msg' = [r \in Msgs |-> msg'[r]]
  BY <1>1 DEF Ownership
<1>5. IsMessage(msg'[m]) /\ buffers(msg'[m]) = {} /\ Frees(msg'[m]) = {}
  BY <1>3, NothingToFree, FreesBuffers
<1> QED
  BY <1>1, <1>2, <1>3, <1>4, <1>5, RenewedOwnership

LEMMA ConcatOwnership ==
  ASSUME Ownership, NEW m \in Msgs, Concat(m)
  PROVE  Ownership'
<1>1. PICK b \in Free :
         /\ DOMAIN heap' = DOMAIN Without(Frees(msg[m])) \cup {b}
         /\ msg' = [msg EXCEPT ![m] = [buf |-> b, data |-> <<>>, freeIt |-> TRUE]]
  BY DEF Concat, With
<1>2. UNCHANGED <<host, caller>> /\ CursorTypeOK'
  BY SameCursor DEF Concat
<1> QED
  BY <1>1, <1>2, DomainWithout, ReplacedOwnership

\* The buffers of r become those of m, which had none.
LEMMA AssignOwnership ==
  ASSUME Ownership, NEW m \in Msgs, NEW r \in Msgs, m # r, Assign(m, r)
  PROVE  Ownership'
<1>1. /\ empty(msg[m]) /\ msg[r].freeIt
      /\ msg' = [msg EXCEPT ![m] = [buf |-> msg[r].buf, data |-> msg[r].data, freeIt |-> TRUE],
                            ![r] = NoMessage]
      /\ host' = host /\ heap' = heap /\ caller' = caller /\ CursorTypeOK'
  BY SameCursor DEF Assign
<1>2. msg'[m] = msg[r] /\ msg'[r] = NoMessage
  <2>1. msg[r] = [buf |-> msg[r].buf, data |-> msg[r].data, freeIt |-> msg[r].freeIt] /\ msg[r].freeIt = TRUE
    BY <1>1 DEF Ownership, IsMessage
  <2> QED
    BY <1>1, <2>1 DEF Ownership
<1>3. \A q \in Msgs \ {m, r} : msg'[q] = msg[q]
  BY <1>1 DEF Ownership
<1>4. DOMAIN msg' = Msgs /\ msg' = [q \in Msgs |-> msg'[q]]
  BY <1>1 DEF Ownership
<1>5. IsMessage(NoMessage) /\ buffers(NoMessage) = {} /\ Frees(NoMessage) = {}
  BY NothingToFree, FreesBuffers
<1>6. Frees(msg[m]) = {}
  BY <1>1, EmptyMessage, FreesBuffers DEF Ownership, IsMessage
<1>7. Allocated'
  BY <1>1, <1>2, <1>3, <1>5 DEF Ownership, Allocated
<1>8. caller' = caller
  BY <1>1
<1>9. Exclusive'
  BY <1>2, <1>3, <1>5, <1>8 DEF Ownership, Exclusive
<1>10. Accounted'
  <2>1. \A b \in DOMAIN heap : b \in caller \/ \E q \in Msgs : b \in Frees(msg[q])
    BY DEF Ownership, Accounted
  <2>2. heap' = heap /\ caller' = caller
    BY <1>1
  <2>3. \A q \in Msgs \ {m, r} : Frees(msg'[q]) = Frees(msg[q])
    BY <1>3
  <2>4. Frees(msg'[m]) = Frees(msg[r])
    BY <1>2
  <2>5. \A b : \A q \in Msgs : b \in Frees(msg[q]) => \E s \in Msgs : b \in Frees(msg'[s])
    <3> SUFFICES ASSUME NEW b, NEW q \in Msgs, b \in Frees(msg[q])
                 PROVE  \E s \in Msgs : b \in Frees(msg'[s])
      OBVIOUS
    <3>1. CASE q = r
      BY <3>1, <2>4
    <3>2. CASE q # r
      BY <3>2, <1>6, <2>3
    <3> QED
      BY <3>1, <3>2
  <2>6. \A b \in DOMAIN heap' : b \in caller' \/ \E q \in Msgs : b \in Frees(msg'[q])
    BY <2>1, <2>2, <2>5, Zenon
  <2> QED
    BY <2>6 DEF Accounted
<1>11. \A q \in Msgs : IsMessage(msg'[q])
  BY <1>2, <1>3, <1>5 DEF Ownership
<1>12. host' \in Hosts /\ DOMAIN heap' \subseteq Block /\ caller' \subseteq DOMAIN heap' /\ CursorTypeOK'
  BY <1>1 DEF Ownership
<1> QED
  BY <1>4, <1>7, <1>9, <1>10, <1>11, <1>12 DEF Ownership

LEMMA CallerFreesOwnership ==
  ASSUME Ownership, NEW b, CallerFrees(b)
  PROVE  Ownership'
<1>1. b \in caller /\ \A m \in Msgs : b \notin buffers(msg[m])
  BY DEF CallerFrees, Unlent
<1>2. /\ DOMAIN heap' = DOMAIN heap \ {b} /\ caller' = caller \ {b}
      /\ host' = host /\ msg' = msg /\ CursorTypeOK'
  BY SameCursor, DomainWithout DEF CallerFrees
<1> QED
  BY <1>1, <1>2 DEF Ownership, Allocated, Exclusive, Accounted

LEMMA SayOwnership ==
  ASSUME Ownership, NEW m \in Msgs, NEW id, Say(m, id)
  PROVE  Ownership'
<1>1. First(msg[m]) \in DOMAIN heap
  BY FirstBuffer DEF Say, Ownership, Allocated
<1>2. DOMAIN heap' = DOMAIN heap \cup {First(msg[m])}
  BY DEF Say, With
<1>3. UNCHANGED <<host, caller, msg>> /\ CursorTypeOK'
  BY SameCursor DEF Say
<1> QED
  BY <1>1, <1>2, <1>3, SameOwners

LEMMA DataReceivedOwnership ==
  ASSUME Ownership, NEW tags, Len(tags) \in Nat, NEW cursorId, DataReceived(tags, cursorId)
  PROVE  Ownership'
<1>1. PICK b \in Free :
         /\ DOMAIN heap' = DOMAIN Without(Frees(msg["batch"])) \cup {b}
         /\ msg' = [msg EXCEPT !["batch"] = [buf |-> b, data |-> <<>>, freeIt |-> TRUE]]
  BY DEF DataReceived, With
<1>2. CursorTypeOK'
  BY DEF DataReceived, CursorTypeOK, Ownership
<1>3. UNCHANGED <<host, caller>> /\ "batch" \in Msgs
  BY DEF DataReceived, Msgs
<1> QED
  BY <1>1, <1>2, <1>3, DomainWithout, ReplacedOwnership

\* The objects of the batch are not more than it counts.
LEMMA NextObjectOwnership ==
  ASSUME Ownership, NextObject
  PROVE  Ownership'
<1>1. CursorTypeOK'
  <2>1. CASE cursor.putBack # <<>>
    BY <2>1 DEF NextObject, Ownership, CursorTypeOK
  <2>2. CASE cursor.putBack = <<>>
    <3>1. cursor.pos < cursor.nReturned
      BY <2>2 DEF NextObject, moreInCurrentBatch, objsLeftInBatch, Ownership, CursorTypeOK
    <3> QED
      BY <2>2, <3>1 DEF NextObject, Ownership, CursorTypeOK
  <2> QED
    BY <2>1, <2>2
<1> QED
  BY <1>1, SameOwners DEF NextObject

LEMMA PutBackOwnership ==
  ASSUME Ownership, PutBack
  PROVE  Ownership'
<1>1. CursorTypeOK'
  BY DEF PutBack, Ownership, CursorTypeOK
<1> QED
  BY <1>1, SameOwners DEF PutBack

LEMMA ConsumeOwnership ==
  ASSUME Ownership, Consume
  PROVE  Ownership'
<1>1. CursorTypeOK'
  BY DEF Consume, Ownership, CursorTypeOK
<1> QED
  BY <1>1, SameOwners DEF Consume

-----------------------------------------------------------------------------
(* The theorems *)

LEMMA NextOwnership == Ownership /\ [Next]_vars => Ownership'
<1> SUFFICES ASSUME Ownership, [Next]_vars PROVE Ownership'
  OBVIOUS
<1>0. /\ "toSend" \in Msgs /\ "response" \in Msgs /\ "response" # "toSend"
      /\ {"toSend", "response"} \subseteq Msgs
  BY DEF Msgs
<1>1. CASE UNCHANGED vars
  BY <1>1, SameOwners, SameCursor DEF vars
<1>2. CASE \E n \in Tails, first \in BOOLEAN : Build(n, first)
  BY <1>2, BuildOwnership
<1>3. CASE \E b \in caller, freeIt \in BOOLEAN : SetData("toSend", b, freeIt)
  BY <1>0, <1>3, SetDataOwnership
<1>4. CASE \E n \in Tails : SetDataOperation("toSend", dbQuery, n)
  BY <1>0, <1>4, SetDataOperationOwnership
<1>5. CASE \E m \in {"toSend", "response"} : \E b \in caller : \E n \in {0, Len(heap[b])} : AppendData(m, b, n)
  <2>1. PICK m \in Msgs, b \in caller : \E n \in {0, Len(heap[b])} : AppendData(m, b, n)
    BY <1>0, <1>5
  <2> QED
    BY <2>1, AppendDataOwnership
<1>6. CASE \E m \in {"toSend", "response"} : Concat(m) \/ Reset(m) \/ Say(m, 1)
  BY <1>0, <1>6, ConcatOwnership, ResetOwnership, SayOwnership
<1>7. CASE Assign("response", "toSend")
  BY <1>0, <1>7, AssignOwnership
<1>8. CASE \E b \in caller : CallerFrees(b)
  BY <1>8, CallerFreesOwnership
<1>9. CASE \E k \in 0..MaxDocs, id \in 0..1 : DataReceived([i \in 1..k |-> 10 * cursor.batches + i], id)
  <2>1. PICK k \in 0..MaxDocs, id \in 0..1 : DataReceived([i \in 1..k |-> 10 * cursor.batches + i], id)
    BY <1>9
  <2> DEFINE tags == [i \in 1..k |-> 10 * cursor.batches + i]
  <2>2. k \in Nat
    BY <2>1, MessageAssumption
  <2>3. Len(tags) \in Nat
    BY <2>2
  <2> HIDE DEF tags
  <2>4. DataReceived(tags, id)
    BY <2>1 DEF tags
  <2> QED
    BY <2>3, <2>4, DataReceivedOwnership
<1>10. CASE NextObject \/ PutBack \/ Consume
  BY <1>10, NextObjectOwnership, PutBackOwnership, ConsumeOwnership
<1> QED
  BY <1>1, <1>2, <1>3, <1>4, <1>5, <1>6, <1>7, <1>8, <1>9, <1>10 DEF Next

\* A block has one of the messages or the caller to free it.
LEMMA OwnersCounted == Ownership => OwnedOnce
<1> SUFFICES ASSUME Ownership PROVE OwnedOnce
  OBVIOUS
<1>1. TypeOK
  BY DEF Ownership, Allocated, CursorTypeOK, TypeOK
<1>2. ASSUME NEW b \in DOMAIN heap
      PROVE  Cardinality({m \in Msgs : b \in Frees(msg[m])}) + (IF b \in caller THEN 1 ELSE 0) = 1
  <2> DEFINE Owners == {m \in Msgs : b \in Frees(msg[m])}
  <2>1. CASE b \in caller
    <3>1. Owners = {}
      BY <2>1 DEF Ownership, Exclusive
    <3>2. Cardinality(Owners) = 0
      BY <3>1, FS_EmptySet
    <3> QED
      BY <2>1, <3>2
  <2>2. CASE b \notin caller
    <3>1. PICK m \in Msgs : b \in Frees(msg[m])
      BY <1>2, <2>2 DEF Ownership, Accounted
    <3>2. Owners = {m}
      BY <3>1 DEF Ownership, Exclusive
    <3>3. Cardinality(Owners) = 1
      BY <3>2, FS_Singleton
    <3> QED
      BY <2>2, <3>3
  <2> QED
    BY <2>1, <2>2
<1>3. \A m \in Msgs : ~(msg[m].buf # NULL /\ msg[m].data # <<>>)
  BY DEF Ownership, IsMessage
<1> QED
  BY <1>1, <1>2, <1>3 DEF OwnedOnce

\* Who owns which block is an invariant, of any number of blocks and replies.
THEOREM OwnershipInvariant == Spec => []Ownership
BY InitOwnership, NextOwnership, PTL DEF Spec

\* OwnedOnce: whatever the order of setData(), appendData(), concat(), assignment, reset() and
\* new replies, every block is freed once and no message points to a freed one.
THEOREM MessageOwnership == Spec => []OwnedOnce
BY OwnershipInvariant, OwnersCounted, PTL

-----------------------------------------------------------------------------
(* The invariant behind MessageWhole *)

Heading(b) == SubSeq(b, 1, HeaderSize)
lengthIn(ho, b) == readLE(ho, b, messageLength, INT)

\* The buffers of m, as they are in a heap h.
Held(h, m) == IF m.buf # NULL THEN <<h[m.buf]>> ELSE [i \in 1..Len(m.data) |-> h[m.data[i][1]]]

\* The buffers of m are a header and the text t, and the first one, whose header is the
\* message's, is not among the others.
Carries(h, m, t) ==
    /\ IsSequence(t)
    /\ Len(h[First(m)]) >= HeaderSize
    /\ FlattenSeq(Held(h, m)) = Heading(h[First(m)]) \o t
    /\ m.buf = NULL => SizeOf(m.data) = HeaderSize + Len(t)
    /\ \A i \in 1..Len(m.data) : m.data[i][2] = Len(h[m.data[i][1]])
    /\ \A i \in 2..Len(m.data) : m.data[i][1] # m.data[1][1]

\* No two messages share a buffer, not even one they only look at.
Apart == \A m, r \in Msgs : m # r => buffers(msg[m]) \cap buffers(msg[r]) = {}

Contents ==
    /\ \A b \in DOMAIN heap : IsSequence(heap[b])
    /\ \A b \in caller : Len(heap[b]) < LengthLimit
    /\ Apart
    /\ DOMAIN text = Msgs
    /\ \A m \in Msgs : ~empty(msg[m]) =>
          /\ Carries(heap, msg[m], text[m])
          /\ lengthIn(host, heap[First(msg[m])]) = HeaderSize + Len(text[m])

-----------------------------------------------------------------------------
(* Sequences cut and put together *)

LEMMA CutAt ==
  ASSUME NEW s, IsSequence(s), NEW k \in 0..Len(s)
  PROVE  /\ s = SubSeq(s, 1, k) \o SubSeq(s, k + 1, Len(s))
         /\ IsSequence(SubSeq(s, 1, k)) /\ Len(SubSeq(s, 1, k)) = k
         /\ IsSequence(SubSeq(s, k + 1, Len(s))) /\ Len(SubSeq(s, k + 1, Len(s))) = Len(s) - k
<1> DEFINE a == SubSeq(s, 1, k)
           b == SubSeq(s, k + 1, Len(s))
<1>1. Len(s) \in Nat /\ 1 \in 1..(Len(s) + 1) /\ k \in (1 - 1)..Len(s) /\ k - 1 + 1 = k
  BY DEF IsSequence
<1>2. IsSequence(a) /\ Len(a) = k /\ \A i \in 1..k : a[i] = s[1 + i - 1]
  BY <1>1, Part
<1>3. k + 1 \in 1..(Len(s) + 1) /\ Len(s) \in ((k + 1) - 1)..Len(s) /\ Len(s) - (k + 1) + 1 = Len(s) - k
  BY <1>1
<1>4. IsSequence(b) /\ Len(b) = Len(s) - k /\ \A i \in 1..(Len(s) - k) : b[i] = s[(k + 1) + i - 1]
  <2>1. /\ IsSequence(b) /\ Len(b) = Len(s) - (k + 1) + 1
        /\ \A i \in 1..(Len(s) - (k + 1) + 1) : b[i] = s[(k + 1) + i - 1]
    BY <1>3, Part
  <2> HIDE DEF b
  <2> QED
    BY <1>3, <2>1, Zenon
<1> HIDE DEF a, b
<1>5. IsSequence(a \o b) /\ Len(a \o b) = Len(a) + Len(b)
      /\ (\A i \in 1..Len(a) : (a \o b)[i] = a[i])
      /\ (\A i \in (Len(a) + 1)..(Len(a) + Len(b)) : (a \o b)[i] = b[i - Len(a)])
  BY <1>2, <1>4, Concatenation
<1>6. ASSUME NEW i \in 1..Len(s) PROVE s[i] = (a \o b)[i]
  <2>1. CASE i <= k
    <3>1. i \in 1..k /\ 1 + i - 1 = i
      BY <1>1, <2>1
    <3> QED
      BY <1>2, <1>5, <3>1
  <2>2. CASE ~(i <= k)
    <3>1. i \in (k + 1)..(k + (Len(s) - k)) /\ i - k \in 1..(Len(s) - k) /\ (k + 1) + (i - k) - 1 = i
      BY <1>1, <2>2
    <3>2. b[i - k] = s[i]
      BY <1>4, <3>1
    <3>3. (a \o b)[i] = b[i - k]
      BY <1>2, <1>4, <1>5, <3>1
    <3> QED
      BY <3>2, <3>3
  <2> QED
    BY <2>1, <2>2
<1>7. Len(a \o b) = Len(s)
  BY <1>1, <1>2, <1>4, <1>5
<1>8. s = a \o b
  BY <1>5, <1>6, <1>7, SameSequence
<1> QED
  BY <1>2, <1>4, <1>8 DEF a, b

\* What was put together comes apart again.
LEMMA Behind ==
  ASSUME NEW s, IsSequence(s), NEW t, IsSequence(t)
  PROVE  SubSeq(s \o t, Len(s) + 1, Len(s \o t)) = t
<1> DEFINE u == s \o t
           b == SubSeq(u, Len(s) + 1, Len(u))
<1>1. IsSequence(u) /\ Len(u) = Len(s) + Len(t)
      /\ (\A i \in (Len(s) + 1)..(Len(s) + Len(t)) : u[i] = t[i - Len(s)])
  BY Concatenation
<1>2. Len(s) \in Nat /\ Len(t) \in Nat
  BY DEF IsSequence
<1> HIDE DEF u
<1>3. /\ Len(s) + 1 \in 1..(Len(u) + 1) /\ Len(u) \in ((Len(s) + 1) - 1)..Len(u)
      /\ Len(u) - (Len(s) + 1) + 1 = Len(t)
  BY <1>1, <1>2
<1>4. IsSequence(b) /\ Len(b) = Len(t) /\ \A i \in 1..Len(t) : b[i] = u[(Len(s) + 1) + i - 1]
  BY <1>1, <1>3, Part
<1> HIDE DEF b
<1>5. ASSUME NEW i \in 1..Len(t) PROVE b[i] = t[i]
  <2>1. /\ (Len(s) + 1) + i - 1 \in (Len(s) + 1)..(Len(s) + Len(t))
        /\ ((Len(s) + 1) + i - 1) - Len(s) = i
    BY <1>2
  <2> QED
    BY <1>1, <1>4, <2>1
<1>6. b = t
  BY <1>4, <1>5, SameSequence
<1> QED
  BY <1>6 DEF b, u

LEMMA Cancel ==
  ASSUME NEW s, IsSequence(s), NEW t, IsSequence(t), NEW u, IsSequence(u), s \o t = s \o u
  PROVE  t = u
BY Behind

\* The same elements make the same part.
LEMMA SamePart ==
  ASSUME NEW s, IsSequence(s), NEW t, IsSequence(t),
         NEW m \in Nat \ {0}, NEW n \in Nat, m <= n + 1, n <= Len(s), n <= Len(t),
         \A i \in m..n : s[i] = t[i]
  PROVE  SubSeq(s, m, n) = SubSeq(t, m, n)
<1> DEFINE a == SubSeq(s, m, n)
           b == SubSeq(t, m, n)
<1>1. Len(s) \in Nat /\ Len(t) \in Nat
  BY DEF IsSequence
<1>2. m \in 1..(Len(s) + 1) /\ n \in (m - 1)..Len(s) /\ m \in 1..(Len(t) + 1) /\ n \in (m - 1)..Len(t)
  BY <1>1
<1>3. IsSequence(a) /\ Len(a) = n - m + 1 /\ \A i \in 1..(n - m + 1) : a[i] = s[m + i - 1]
  BY <1>2, Part
<1>4. IsSequence(b) /\ Len(b) = n - m + 1 /\ \A i \in 1..(n - m + 1) : b[i] = t[m + i - 1]
  BY <1>2, Part
<1> HIDE DEF a, b
<1>5. \A i \in 1..Len(a) : a[i] = b[i]
  <2> SUFFICES ASSUME NEW i \in 1..Len(a) PROVE a[i] = b[i]
    OBVIOUS
  <2>1. i \in 1..(n - m + 1) /\ m + i - 1 \in m..n
    BY <1>3
  <2> QED
    BY <1>3, <1>4, <2>1
<1>6. a = b
  BY <1>3, <1>4, <1>5, SameSequence
<1> QED
  BY <1>6 DEF a, b

LEMMA Overwritten ==
  ASSUME NEW b, IsSequence(b), NEW d, IsSequence(d), NEW off \in Nat, off + Len(d) <= Len(b)
  PROVE  LET o == Overwrite(b, off, d)
         IN  /\ IsSequence(o) /\ Len(o) = Len(b)
             /\ SubSeq(o, off + 1, off + Len(d)) = d
             /\ \A i \in 1..Len(b) : i <= off \/ i > off + Len(d) => o[i] = b[i]
<1> DEFINE n == Len(d)
           x == SubSeq(b, 1, off)
           y == SubSeq(b, off + n + 1, Len(b))
           u == x \o d
           o == u \o y
<1>1. Len(b) \in Nat /\ n \in Nat
  BY DEF IsSequence
<1>0. off + n <= Len(b)
  OBVIOUS
<1>2. off \in 0..Len(b)
  BY <1>1
<1>3. IsSequence(x) /\ Len(x) = off
  BY <1>2, CutAt
<1>4. \A i \in 1..off : x[i] = b[i]
  <2>1. 1 \in 1..(Len(b) + 1) /\ off \in (1 - 1)..Len(b)
    BY <1>1
  <2>2. \A i \in 1..(off - 1 + 1) : x[i] = b[1 + i - 1]
    BY <2>1, Part
  <2>3. off - 1 + 1 = off /\ \A i \in 1..off : 1 + i - 1 = i
    OBVIOUS
  <2> HIDE DEF x
  <2> QED
    BY <2>2, <2>3
<1>5. /\ IsSequence(y) /\ Len(y) = Len(b) - (off + n)
      /\ \A i \in 1..(Len(b) - (off + n)) : y[i] = b[(off + n + 1) + i - 1]
  <2>1. /\ off + n + 1 \in 1..(Len(b) + 1) /\ Len(b) \in ((off + n + 1) - 1)..Len(b)
        /\ Len(b) - (off + n + 1) + 1 = Len(b) - (off + n)
    BY <1>1
  <2>2. /\ IsSequence(y) /\ Len(y) = Len(b) - (off + n + 1) + 1
        /\ \A i \in 1..(Len(b) - (off + n + 1) + 1) : y[i] = b[(off + n + 1) + i - 1]
    BY <2>1, Part
  <2> HIDE DEF y
  <2> QED
    BY <2>1, <2>2, Zenon
<1> HIDE DEF n, x, y
<1>6. /\ IsSequence(u) /\ Len(u) = off + n
      /\ (\A i \in 1..off : u[i] = x[i]) /\ (\A i \in (off + 1)..(off + n) : u[i] = d[i - off])
  BY <1>3, Concatenation DEF n
<1> HIDE DEF u
<1>7. /\ IsSequence(o) /\ Len(o) = (off + n) + Len(y)
      /\ (\A i \in 1..(off + n) : o[i] = u[i])
      /\ (\A i \in (off + n + 1)..((off + n) + Len(y)) : o[i] = y[i - (off + n)])
  <2>1. /\ IsSequence(o) /\ Len(o) = Len(u) + Len(y)
        /\ (\A i \in 1..Len(u) : o[i] = u[i])
        /\ (\A i \in (Len(u) + 1)..(Len(u) + Len(y)) : o[i] = y[i - Len(u)])
    BY <1>5, <1>6, Concatenation
  <2> HIDE DEF o
  <2> QED
    BY <1>6, <2>1
<1> HIDE DEF o
<1>8. Len(o) = Len(b)
  <2>1. Len(o) = (off + n) + (Len(b) - (off + n))
    BY <1>5, <1>7
  <2> QED
    BY <1>1, <2>1
<1>9. SubSeq(o, off + 1, off + n) = d
  <2> DEFINE p == SubSeq(o, off + 1, off + n)
  <2>1. /\ off + 1 \in 1..(Len(o) + 1) /\ off + n \in ((off + 1) - 1)..Len(o)
        /\ (off + n) - (off + 1) + 1 = n
    BY <1>1, <1>8, <1>0
  <2>2. IsSequence(p) /\ Len(p) = n /\ \A i \in 1..n : p[i] = o[(off + 1) + i - 1]
    <3>1. /\ IsSequence(p) /\ Len(p) = (off + n) - (off + 1) + 1
          /\ \A i \in 1..((off + n) - (off + 1) + 1) : p[i] = o[(off + 1) + i - 1]
      BY <1>7, <2>1, Part
    <3> HIDE DEF p
    <3> QED
      BY <2>1, <3>1
  <2> HIDE DEF p
  <2>3. ASSUME NEW i \in 1..n PROVE p[i] = d[i]
    <3>1. /\ (off + 1) + i - 1 \in 1..(off + n) /\ (off + 1) + i - 1 \in (off + 1)..(off + n)
          /\ ((off + 1) + i - 1) - off = i
      BY <1>1
    <3> QED
      BY <1>6, <1>7, <2>2, <3>1
  <2> QED
    BY <2>2, <2>3, SameSequence DEF n, p
<1>10. ASSUME NEW i \in 1..Len(b), i <= off \/ i > off + n PROVE o[i] = b[i]
  <2>1. CASE i <= off
    <3>1. i \in 1..off /\ i \in 1..(off + n)
      BY <1>1, <2>1
    <3> QED
      BY <1>4, <1>6, <1>7, <3>1
  <2>2. CASE i > off + n
    <3>1. /\ i \in (off + n + 1)..((off + n) + Len(y))
          /\ i - (off + n) \in 1..(Len(b) - (off + n))
          /\ (off + n + 1) + (i - (off + n)) - 1 = i
      BY <1>1, <1>5, <2>2
    <3>2. o[i] = y[i - (off + n)] /\ y[i - (off + n)] = b[(off + n + 1) + (i - (off + n)) - 1]
      BY <1>5, <1>7, <3>1
    <3> QED
      BY <3>1, <3>2
  <2> QED
    BY <1>10, <2>1, <2>2
<1>11. Overwrite(b, off, d) = o
  BY DEF Overwrite, o, u, x, y, n
<1> QED
  BY <1>7, <1>8, <1>9, <1>10, <1>11 DEF n

-----------------------------------------------------------------------------
(* Headers *)

LEMMA Offsets ==
    /\ INT.w = 4 /\ LL.w = 8 /\ HeaderSize = 16 /\ ReplyHeader = 36
    /\ messageLength = 0 /\ requestID = 4 /\ responseTo = 8 /\ opCode = 12
BY DEF INT, LL, Ty, HeaderSize, ReplyHeader, messageLength, requestID, responseTo, opCode

LEMMA SequenceFrom ==
  ASSUME NEW n \in Nat, NEW f, f = [i \in 1..n |-> f[i]]
  PROVE  IsSequence(f) /\ Len(f) = n
<1> DEFINE S == {f[i] : i \in 1..n}
<1>1. \A i \in 1..n : f[i] \in S
  OBVIOUS
<1> HIDE DEF S
<1>2. [i \in 1..n |-> f[i]] \in Seq(S)
  BY <1>1, IsASeq
<1>3. f \in Seq(S) /\ DOMAIN f = 1..n
  BY <1>2
<1>4. Len(f) \in Nat /\ DOMAIN f = 1..Len(f)
  BY <1>3, LenProperties
<1>5. Len(f) = n
  BY <1>3, <1>4
<1> QED
  BY <1>3, <1>5, SequenceIs

LEMMA BytesWritten ==
  ASSUME NEW ho, NEW v, NEW ty, ty.w \in Nat
  PROVE  IsSequence(writeLE(ho, v, ty)) /\ Len(writeLE(ho, v, ty)) = ty.w
<1> DEFINE x == Convert(ho, "little", v, ty)
           w == ty.w
           d == Digits(Unsigned(x, w), w)
           r == Reverse(d)
<1>1. d = [i \in 1..w |-> d[i]]
  BY DEF Digits
<1> HIDE DEF d
<1>2. IsSequence(d) /\ Len(d) = w
  BY <1>1, SequenceFrom
<1>3. r = [i \in 1..w |-> r[i]]
  BY <1>2 DEF Reverse
<1> HIDE DEF r
<1>4. IsSequence(r) /\ Len(r) = w
  BY <1>3, SequenceFrom
<1>5. writeLE(ho, v, ty) = IF ho.order = "little" THEN d ELSE r
  BY DEF writeLE, writeNative, d, r
<1> QED
  BY <1>2, <1>4, <1>5

LEMMA LimitInt == LengthLimit \in Nat /\ 0..(LengthLimit - 1) \subseteq RangeOf(INT) /\ INT \in Types
<1>1. INT.w = 4 /\ INT.k = "signed" /\ INT \in Types
  BY DEF INT, Ty, Types
<1>2. PICK h \in Nat \ {0} : Power(4) = 2 * h /\ Power(4) \div 2 = h
  BY Halves
<1>3. LengthLimit = h /\ RangeOf(INT) = (-h)..(h - 1)
  <2>1. "signed" # "unsigned"
    OBVIOUS
  <2> QED
    BY <1>1, <1>2, <2>1 DEF LengthLimit, RangeOf
<1> QED
  BY <1>1, <1>2, <1>3

\* What a build wrote it reads, wherever it is.
LEMMA ReadWritten ==
  ASSUME NEW ho \in Builds, NEW v \in 0..(LengthLimit - 1), NEW b, NEW off,
         SubSeq(b, off + 1, off + 4) = writeLE(ho, v, INT)
  PROVE  readLE(ho, b, off, INT) = v
<1>1. v \in RangeOf(INT) /\ INT \in Types /\ INT.w = 4
  BY LimitInt DEF INT, Ty
<1>2. writeLE(ho, v, INT) = Ordered("little", Digits(Unsigned(v, INT.w), INT.w))
  BY <1>1, WrittenBytes DEF writeLE
<1>3. SubSeq(b, off + 1, off + INT.w) = Ordered("little", Digits(Unsigned(v, INT.w), INT.w))
  BY <1>1, <1>2
<1>4. Convert(ho, "little", readNative(ho, b, off, INT), INT) = v
  BY <1>1, <1>3, ReadBytes
<1> QED
  BY <1>4 DEF readLE

LEMMA ReadAlike ==
  ASSUME NEW ho, NEW b, NEW c, NEW off, SubSeq(b, off + 1, off + 4) = SubSeq(c, off + 1, off + 4)
  PROVE  readLE(ho, b, off, INT) = readLE(ho, c, off, INT)
<1>1. readNative(ho, b, off, INT) = readNative(ho, c, off, INT)
  BY Offsets DEF readNative
<1> QED
  BY <1>1 DEF readLE

\* What follows the header.
Rest(b) == SubSeq(b, HeaderSize + 1, Len(b))

LEMMA HeadingRest ==
  ASSUME NEW b, IsSequence(b), Len(b) >= HeaderSize
  PROVE  /\ b = Heading(b) \o Rest(b)
         /\ IsSequence(Heading(b)) /\ Len(Heading(b)) = HeaderSize
         /\ IsSequence(Rest(b)) /\ Len(Rest(b)) = Len(b) - HeaderSize
<1>1. HeaderSize \in 0..Len(b)
  BY Offsets DEF IsSequence
<1> QED
  BY <1>1, CutAt DEF Heading, Rest

\* The length is read from the header alone.
LEMMA LengthInHeading ==
  ASSUME NEW b, IsSequence(b), Len(b) >= HeaderSize,
         NEW c, IsSequence(c), Len(c) >= HeaderSize, \A i \in 1..4 : b[i] = c[i]
  PROVE  \A ho : lengthIn(ho, b) = lengthIn(ho, c)
<1>1. 4 <= Len(b) /\ 4 <= Len(c) /\ 0 + 1 = 1 /\ 0 + 4 = 4 /\ messageLength = 0
  BY Offsets DEF IsSequence
<1>2. SubSeq(b, 1, 4) = SubSeq(c, 1, 4)
  BY <1>1, SamePart
<1> QED
  BY <1>1, <1>2, ReadAlike DEF lengthIn

LEMMA LengthBefore ==
  ASSUME NEW b, IsSequence(b), Len(b) >= HeaderSize, NEW t, IsSequence(t)
  PROVE  /\ IsSequence(Heading(b) \o t) /\ Len(Heading(b) \o t) = HeaderSize + Len(t)
         /\ \A ho : lengthIn(ho, Heading(b) \o t) = lengthIn(ho, b)
         /\ Heading(Heading(b) \o t) = Heading(b) /\ Rest(Heading(b) \o t) = t
<1> DEFINE h == Heading(b)
           u == h \o t
<1>0. HeaderSize = 16 /\ Len(b) \in Nat /\ Len(t) \in Nat
  BY Offsets DEF IsSequence
<1>1. IsSequence(h) /\ Len(h) = HeaderSize
  BY HeadingRest
<1>2. \A i \in 1..HeaderSize : h[i] = b[i]
  <2>1. 1 \in 1..(Len(b) + 1) /\ 16 \in (1 - 1)..Len(b)
    BY <1>0
  <2>2. \A i \in 1..(16 - 1 + 1) : SubSeq(b, 1, 16)[i] = b[1 + i - 1]
    BY <2>1, Part
  <2>3. \A i \in 1..16 : SubSeq(b, 1, 16)[i] = b[i]
    BY <2>2
  <2> QED
    BY <1>0, <2>3 DEF Heading
<1> HIDE DEF h
<1>3. IsSequence(u) /\ Len(u) = Len(h) + Len(t) /\ \A i \in 1..Len(h) : u[i] = h[i]
  BY <1>1, Concatenation
<1>4. SubSeq(u, Len(h) + 1, Len(u)) = t
  BY <1>1, Behind
<1> HIDE DEF u
<1>5. Rest(u) = t
  BY <1>1, <1>4 DEF Rest
<1>6. Len(u) = HeaderSize + Len(t) /\ \A i \in 1..HeaderSize : u[i] = b[i]
  <2>1. Len(u) = HeaderSize + Len(t) /\ \A i \in 1..HeaderSize : u[i] = h[i]
    BY <1>1, <1>3
  <2> QED
    BY <1>2, <2>1
<1>7. \A ho : lengthIn(ho, u) = lengthIn(ho, b)
  <2>1. Len(u) >= HeaderSize /\ \A i \in 1..4 : u[i] = b[i]
    BY <1>0, <1>6
  <2> QED
    BY <1>3, <2>1, LengthInHeading
<1>8. Heading(u) = Heading(b)
  <2>1. 16 <= Len(u) /\ 16 <= Len(b) /\ \A i \in 1..16 : u[i] = b[i]
    BY <1>0, <1>6
  <2>2. SubSeq(u, 1, 16) = SubSeq(b, 1, 16)
    BY <1>3, <2>1, SamePart
  <2> QED
    BY <1>0, <2>2 DEF Heading
<1> QED
  BY <1>3, <1>5, <1>6, <1>7, <1>8 DEF u, h

\* Writing a field of the header changes nothing behind it, and the length only if it is that.
LEMMA FieldSet ==
  ASSUME NEW ho \in Builds, NEW v \in 0..(LengthLimit - 1),
         NEW b, IsSequence(b), Len(b) >= HeaderSize,
         NEW off \in {messageLength, requestID, responseTo, opCode}
  PROVE  LET c == Overwrite(b, off, writeLE(ho, v, INT))
         IN  /\ IsSequence(c) /\ Len(c) = Len(b) /\ Rest(c) = Rest(b)
             /\ lengthIn(ho, c) = IF off = messageLength THEN v ELSE lengthIn(ho, b)
<1> DEFINE d == writeLE(ho, v, INT)
           c == Overwrite(b, off, d)
<1>1. IsSequence(d) /\ Len(d) = 4
  <2>1. INT.w = 4 /\ INT.w \in Nat
    BY Offsets
  <2>2. IsSequence(d) /\ Len(d) = INT.w
    BY <2>1, BytesWritten
  <2> QED
    BY <2>1, <2>2
<1> HIDE DEF d
<1>2. off \in {0, 4, 8, 12} /\ HeaderSize = 16 /\ Len(b) \in Nat /\ messageLength = 0
  BY Offsets DEF IsSequence
<1>3. off \in Nat /\ off + Len(d) <= Len(b)
  BY <1>1, <1>2
<1>4. /\ IsSequence(c) /\ Len(c) = Len(b)
      /\ SubSeq(c, off + 1, off + Len(d)) = d
      /\ \A i \in 1..Len(b) : i <= off \/ i > off + Len(d) => c[i] = b[i]
  BY <1>1, <1>3, Overwritten
<1> HIDE DEF c
<1>5. Rest(c) = Rest(b)
  <2>1. \A i \in 17..Len(b) : c[i] = b[i]
    BY <1>1, <1>2, <1>4
  <2>2. 17 \in Nat \ {0} /\ 17 <= Len(b) + 1 /\ Len(b) <= Len(c) /\ Len(b) <= Len(b)
    BY <1>2, <1>4
  <2>3. SubSeq(c, 17, Len(b)) = SubSeq(b, 17, Len(b))
    BY <1>2, <1>4, <2>1, <2>2, SamePart
  <2> QED
    BY <1>2, <1>4, <2>3 DEF Rest
<1>6. CASE off = messageLength
  <2>1. SubSeq(c, off + 1, off + 4) = writeLE(ho, v, INT)
    BY <1>1, <1>4 DEF d
  <2>2. readLE(ho, c, off, INT) = v
    BY <2>1, ReadWritten
  <2> QED
    BY <1>4, <1>5, <1>6, <2>2 DEF lengthIn, c, d
<1>7. CASE off # messageLength
  <2>1. \A i \in 1..4 : c[i] = b[i]
    BY <1>1, <1>2, <1>4, <1>7
  <2>2. lengthIn(ho, c) = lengthIn(ho, b)
    BY <1>4, <2>1, LengthInHeading
  <2> QED
    BY <1>4, <1>5, <1>7, <2>2 DEF c, d
<1> QED
  BY <1>6, <1>7

-----------------------------------------------------------------------------
(* SizeOf() *)

Sums(d, n, f) == f = [i \in 0..n |-> IF i = 0 THEN 0 ELSE f[i - 1] + d[i][2]]

LEMMA SumsExist == ASSUME NEW d PROVE \A n \in Nat : \E f : Sums(d, n, f)
<1> DEFINE S == {n \in Nat : \E f : Sums(d, n, f)}
<1>1. 0 \in S
  <2> DEFINE g == [i \in 0..0 |-> 0]
  <2>1. g = [i \in 0..0 |-> IF i = 0 THEN 0 ELSE g[i - 1] + d[i][2]]
    OBVIOUS
  <2> QED
    BY <2>1 DEF Sums
<1>2. ASSUME NEW n \in Nat, n \in S PROVE n + 1 \in S
  <2>1. PICK f : Sums(d, n, f)
    BY <1>2
  <2> DEFINE g == [i \in 0..(n + 1) |-> IF i = n + 1 THEN f[n] + d[i][2] ELSE f[i]]
  <2>2. ASSUME NEW i \in 0..(n + 1) PROVE g[i] = IF i = 0 THEN 0 ELSE g[i - 1] + d[i][2]
    <3>1. CASE i = n + 1
      <4>1. i # 0 /\ i - 1 = n /\ g[i - 1] = f[n] /\ g[i] = f[n] + d[i][2]
        BY <3>1
      <4> HIDE DEF g
      <4> QED
        BY <4>1
    <3>2. CASE i # n + 1
      <4>1. i \in 0..n /\ g[i] = f[i] /\ (i # 0 => g[i - 1] = f[i - 1])
        BY <3>2
      <4> HIDE DEF g
      <4> QED
        BY <2>1, <4>1 DEF Sums
    <3> QED
      BY <3>1, <3>2
  <2>3. Sums(d, n + 1, g)
    <3>1. g = [i \in 0..(n + 1) |-> g[i]]
      OBVIOUS
    <3> HIDE DEF g
    <3> QED
      BY <2>2, <3>1 DEF Sums
  <2> QED
    BY <2>3
<1>3. \A n \in Nat : n \in S
  <2> HIDE DEF S
  <2> QED
    BY <1>1, <1>2, Induction
<1> QED
  BY <1>3

LEMMA SumsStep ==
  ASSUME NEW d, NEW n \in Nat, NEW f, Sums(d, n, f)
  PROVE  f[0] = 0 /\ \A i \in 1..n : f[i] = f[i - 1] + d[i][2]
<1> DEFINE e(j) == IF j = 0 THEN 0 ELSE f[j - 1] + d[j][2]
<1>1. f = [j \in 0..n |-> e(j)]
  BY DEF Sums
<1> HIDE DEF e
<1>2. \A i \in 0..n : f[i] = e(i)
  BY <1>1
<1>3. 0 \in 0..n /\ \A i \in 1..n : i \in 0..n /\ i # 0
  OBVIOUS
<1> QED
  BY <1>2, <1>3 DEF e

LEMMA SumsAlike ==
  ASSUME NEW d, NEW e, NEW n \in Nat, NEW m \in Nat, n <= m, NEW f, NEW g,
         Sums(d, n, f), Sums(e, m, g), \A i \in 1..n : d[i] = e[i]
  PROVE  \A i \in 0..n : f[i] = g[i]
<1> DEFINE S == {i \in Nat : i \in 0..n => f[i] = g[i]}
<1>1. 0 \in S
  BY SumsStep
<1>2. ASSUME NEW i \in Nat, i \in S PROVE i + 1 \in S
  <2> SUFFICES ASSUME i + 1 \in 0..n PROVE f[i + 1] = g[i + 1]
    OBVIOUS
  <2>1. i + 1 \in 1..n /\ i + 1 \in 1..m /\ i \in 0..n /\ (i + 1) - 1 = i
    OBVIOUS
  <2>2. /\ f[i + 1] = f[(i + 1) - 1] + d[i + 1][2]
        /\ g[i + 1] = g[(i + 1) - 1] + e[i + 1][2]
    BY <2>1, SumsStep
  <2> QED
    BY <1>2, <2>1, <2>2
<1>3. \A i \in Nat : i \in S
  <2> HIDE DEF S
  <2> QED
    BY <1>1, <1>2, Induction
<1> QED
  BY <1>3

LEMMA Summed ==
  ASSUME NEW d, Len(d) \in Nat
  PROVE  \E f : Sums(d, Len(d), f) /\ SizeOf(d) = f[Len(d)]
<1> DEFINE f == CHOOSE f : Sums(d, Len(d), f)
<1>1. Sums(d, Len(d), f)
  BY SumsExist
<1>2. SizeOf(d) = f[Len(d)]
  BY DEF SizeOf, Sums
<1> QED
  BY <1>1, <1>2

LEMMA SizeOfNone == SizeOf(<<>>) = 0
<1>1. Len(<<>>) = 0 /\ 0 \in Nat
  OBVIOUS
<1>2. PICK f : Sums(<<>>, 0, f) /\ SizeOf(<<>>) = f[0]
  BY <1>1, Summed
<1> QED
  BY <1>1, <1>2, SumsStep

LEMMA SizeOfAppend ==
  ASSUME NEW d, IsSequence(d), NEW e
  PROVE  SizeOf(Append(d, e)) = SizeOf(d) + e[2]
<1> DEFINE n == Len(d)
           t == Append(d, e)
<1>1. n \in Nat /\ Len(t) = n + 1 /\ t[n + 1] = e /\ \A i \in 1..n : t[i] = d[i]
  BY AppendOne DEF IsSequence
<1> HIDE DEF n, t
<1>2. PICK f : Sums(d, n, f) /\ SizeOf(d) = f[n]
  BY <1>1, Summed DEF n
<1>3. n + 1 \in Nat
  BY <1>1
<1>4. PICK g : Sums(t, n + 1, g) /\ SizeOf(t) = g[n + 1]
  BY <1>1, <1>3, Summed
<1>5. g[n + 1] = g[n] + e[2]
  <2>1. n + 1 \in 1..(n + 1) /\ (n + 1) - 1 = n
    BY <1>1
  <2>2. g[n + 1] = g[(n + 1) - 1] + t[n + 1][2]
    BY <1>3, <1>4, <2>1, SumsStep
  <2> QED
    BY <1>1, <2>1, <2>2
<1>6. f[n] = g[n]
  <2>1. n \in 0..n /\ n <= n + 1
    BY <1>1
  <2> QED
    BY <1>1, <1>2, <1>3, <1>4, <2>1, SumsAlike
<1> QED
  BY <1>2, <1>4, <1>5, <1>6 DEF t

-----------------------------------------------------------------------------
(* What a message carries *)

LEMMA HeldPieces ==
  ASSUME NEW h, NEW m, IsMessage(m), ~empty(m), \A b \in buffers(m) : IsSequence(h[b])
  PROVE  /\ Pieces(Held(h, m)) /\ IsSequence(Held(h, m))
         /\ Len(Held(h, m)) = (IF m.buf # NULL THEN 1 ELSE Len(m.data)) /\ Len(Held(h, m)) # 0
         /\ Held(h, m)[1] = h[First(m)]
<1>1. CASE m.buf # NULL
  <2> DEFINE s == <<h[m.buf]>>
  <2>1. Held(h, m) = s /\ First(m) = m.buf /\ m.buf \in buffers(m)
    BY <1>1 DEF Held, First, buffers
  <2>2. Len(s) = 1 /\ s[1] = h[m.buf] /\ s = [i \in 1..1 |-> s[i]]
    OBVIOUS
  <2> HIDE DEF s
  <2>3. IsSequence(s)
    BY <2>2 DEF IsSequence
  <2>4. \A i \in 1..Len(s) : IsSequence(s[i])
    BY <2>1, <2>2
  <2> QED
    BY <1>1, <2>1, <2>2, <2>3, <2>4 DEF Pieces
<1>2. CASE m.buf = NULL
  <2> DEFINE s == [i \in 1..Len(m.data) |-> h[m.data[i][1]]]
             n == Len(m.data)
  <2>1. Held(h, m) = s /\ First(m) = m.data[1][1]
    BY <1>2 DEF Held, First
  <2>2. IsSequence(m.data) /\ m.data # <<>>
    BY <1>2 DEF IsMessage, empty
  <2>3. 1 \in DOMAIN m.data /\ DOMAIN m.data = 1..n /\ n \in Nat
    BY <2>2, NonEmptySequence DEF IsSequence
  <2>4. \A i \in 1..n : s[i] = h[m.data[i][1]] /\ m.data[i][1] \in buffers(m)
    BY <2>3 DEF buffers
  <2>5. s = [i \in 1..n |-> s[i]]
    OBVIOUS
  <2> HIDE DEF s, n
  <2>6. IsSequence(s) /\ Len(s) = n
    BY <2>3, <2>5, SequenceFrom
  <2>7. 1 \in 1..n /\ n # 0
    BY <2>3
  <2> QED
    BY <1>2, <2>1, <2>4, <2>6, <2>7 DEF Pieces, n
<1> QED
  BY <1>1, <1>2

\* A buffer alone carries what follows its header.
LEMMA CarriesAlone ==
  ASSUME NEW h, NEW m, m.buf # NULL, m.data = <<>>, IsSequence(h[m.buf]), Len(h[m.buf]) >= HeaderSize
  PROVE  Carries(h, m, Rest(h[m.buf]))
<1>1. First(m) = m.buf /\ Held(h, m) = <<h[m.buf]>> /\ Len(m.data) = 0
  BY DEF First, Held
<1>2. FlattenSeq(<<h[m.buf]>>) = h[m.buf]
  BY FlattenOne
<1>3. IsSequence(Rest(h[m.buf])) /\ h[m.buf] = Heading(h[m.buf]) \o Rest(h[m.buf])
  BY HeadingRest
<1>4. 1..Len(m.data) = {} /\ 2..Len(m.data) = {}
  BY <1>1
<1> QED
  BY <1>1, <1>2, <1>3, <1>4 DEF Carries

\* Only the message's own buffers matter.
LEMMA CarriesStill ==
  ASSUME NEW h, NEW m, NEW t, Carries(h, m, t), IsMessage(m), ~empty(m),
         NEW k, \A b \in buffers(m) : k[b] = h[b]
  PROVE  Carries(k, m, t)
<1>1. First(m) \in buffers(m)
  BY FirstBuffer
<1>2. m.buf # NULL => m.buf \in buffers(m)
  BY DEF buffers
<1>3. \A i \in 1..Len(m.data) : m.data[i][1] \in buffers(m)
  <2>1. DOMAIN m.data = 1..Len(m.data)
    BY DEF IsMessage, IsSequence
  <2> QED
    BY <2>1 DEF buffers
<1>4. Held(k, m) = Held(h, m)
  <2>1. [i \in 1..Len(m.data) |-> k[m.data[i][1]]] = [i \in 1..Len(m.data) |-> h[m.data[i][1]]]
    BY <1>3
  <2> QED
    BY <1>2, <2>1 DEF Held
<1> QED
  BY <1>1, <1>3, <1>4 DEF Carries

\* A new header in the first buffer changes nothing of what is carried.
LEMMA CarriesReheaded ==
  ASSUME NEW h, NEW m, NEW t, Carries(h, m, t), IsMessage(m), ~empty(m),
         \A b \in buffers(m) : IsSequence(h[b]),
         NEW k, \A b \in buffers(m) : b # First(m) => k[b] = h[b],
         IsSequence(k[First(m)]), Len(k[First(m)]) = Len(h[First(m)]),
         Rest(k[First(m)]) = Rest(h[First(m)])
  PROVE  Carries(k, m, t)
<1> DEFINE b == h[First(m)]
           c == k[First(m)]
           ss == Held(h, m)
           tt == Held(k, m)
<1>1. First(m) \in buffers(m)
  BY FirstBuffer
<1>2. \A x \in buffers(m) : IsSequence(k[x])
  OBVIOUS
<1>3. /\ Pieces(ss) /\ Len(ss) # 0 /\ ss[1] = b
      /\ Len(ss) = IF m.buf # NULL THEN 1 ELSE Len(m.data)
  BY HeldPieces
<1>4. /\ Pieces(tt) /\ Len(tt) # 0 /\ tt[1] = c
      /\ Len(tt) = IF m.buf # NULL THEN 1 ELSE Len(m.data)
  BY <1>2, HeldPieces
<1>5. \A i \in 2..Len(ss) : ss[i] = tt[i]
  <2>1. CASE m.buf # NULL
    <3>1. 2..Len(ss) = {}
      BY <1>3, <2>1
    <3> QED
      BY <3>1
  <2>2. CASE m.buf = NULL
    <3> SUFFICES ASSUME NEW i \in 2..Len(ss) PROVE ss[i] = tt[i]
      OBVIOUS
    <3>1. Len(ss) = Len(m.data) /\ DOMAIN m.data = 1..Len(m.data) /\ Len(m.data) \in Nat
      BY <1>3, <2>2 DEF IsMessage, IsSequence
    <3>2. i \in 1..Len(m.data) /\ i \in 2..Len(m.data)
      BY <3>1
    <3>3. ss[i] = h[m.data[i][1]] /\ tt[i] = k[m.data[i][1]]
      BY <2>2, <3>2 DEF Held
    <3>4. m.data[i][1] \in buffers(m) /\ m.data[i][1] # First(m)
      BY <2>2, <3>1, <3>2 DEF Carries, buffers, First
    <3> HIDE DEF ss, tt
    <3> QED
      BY <3>3, <3>4
  <2> QED
    BY <2>1, <2>2
<1> HIDE DEF ss, tt
<1>6. CommonEnd(ss, tt)
  <2>1. Len(ss) = Len(tt) /\ Len(ss) # 0 /\ Pieces(ss) /\ Pieces(tt)
    BY <1>3, <1>4
  <2>2. SameTail(ss, tt)
    BY <1>5, <2>1 DEF SameTail
  <2> QED
    BY <2>1, <2>2, FlattenHead
<1>0. PICK r : IsSequence(r) /\ FlattenSeq(ss) = ss[1] \o r /\ FlattenSeq(tt) = tt[1] \o r
  BY <1>6 DEF CommonEnd
<1>7. IsSequence(b) /\ IsSequence(c) /\ Len(b) >= HeaderSize /\ Len(c) >= HeaderSize /\ IsSequence(t)
  BY <1>1, <1>2 DEF Carries
<1>8. Rest(c) = Rest(b)
  OBVIOUS
<1>9. FlattenSeq(ss) = Heading(b) \o t
  BY DEF Carries, ss
<1> HIDE DEF b, c
<1>10. /\ b = Heading(b) \o Rest(b) /\ IsSequence(Heading(b)) /\ IsSequence(Rest(b))
       /\ c = Heading(c) \o Rest(c) /\ IsSequence(Heading(c))
  BY <1>7, HeadingRest
<1>11. \A x : IsSequence(x) => (x \o Rest(b)) \o r = x \o (Rest(b) \o r)
  <2> DEFINE rest == Rest(b)
  <2>1. IsSequence(rest) /\ IsSequence(r)
    BY <1>0, <1>10
  <2> HIDE DEF rest
  <2>2. \A x : IsSequence(x) => (x \o rest) \o r = x \o (rest \o r)
    BY <2>1, AllAssociate, Zenon
  <2> QED
    BY <2>2 DEF rest
<1>12. Rest(b) \o r = t
  <2>1. Heading(b) \o (Rest(b) \o r) = Heading(b) \o t
    BY <1>3, <1>0, <1>9, <1>10, <1>11
  <2>2. IsSequence(Rest(b) \o r)
    BY <1>0, <1>10, Concatenation
  <2> QED
    BY <1>7, <1>10, <2>1, <2>2, Cancel
<1>13. FlattenSeq(tt) = Heading(c) \o t
  BY <1>4, <1>0, <1>8, <1>10, <1>11, <1>12
<1>14. \A i \in 1..Len(m.data) : m.data[i][2] = Len(k[m.data[i][1]])
  <2>1. \A i \in 1..Len(m.data) : m.data[i][1] \in buffers(m)
    BY DEF IsMessage, IsSequence, buffers
  <2> QED
    BY <2>1 DEF Carries
<1> QED
  BY <1>7, <1>13, <1>14 DEF Carries, b, c, tt

\* The same buffer as a vector of one.
LEMMA CarriesListed ==
  ASSUME NEW h, NEW m, NEW t, Carries(h, m, t), m.buf # NULL, IsSequence(h[m.buf]),
         NEW v, v.buf = NULL, v.data = Append(<<>>, <<m.buf, Len(h[m.buf])>>)
  PROVE  Carries(h, v, t)
<1> DEFINE b == m.buf
           d == Append(<<>>, <<b, Len(h[b])>>)
<1>1. IsSequence(<<>>) /\ Len(<<>>) = 0
  BY DEF IsSequence
<1>2. Len(d) = 1 /\ d[1] = <<b, Len(h[b])>>
  OBVIOUS
<1>3. SizeOf(d) = SizeOf(<<>>) + <<b, Len(h[b])>>[2]
  BY <1>1, SizeOfAppend
<1> HIDE DEF d
<1>4. First(m) = b /\ First(v) = b /\ d[1][1] = b /\ d[1][2] = Len(h[b])
  BY <1>2 DEF First, d
<1>5. Held(h, m) = <<h[b]>> /\ Held(h, v) = [i \in 1..1 |-> h[d[i][1]]]
  BY <1>2 DEF Held, d
<1>6. Held(h, v) = <<h[b]>>
  BY <1>4, <1>5
<1>7. Len(h[b]) \in Nat /\ SizeOf(d) = Len(h[b])
  BY <1>3, SizeOfNone DEF IsSequence
<1>8. h[b] = Heading(h[b]) \o t
  <2>1. FlattenSeq(<<h[b]>>) = h[b]
    BY FlattenOne
  <2> QED
    BY <1>4, <1>5, <2>1 DEF Carries
<1>9. Len(h[b]) = HeaderSize + Len(t)
  <2>1. Len(Heading(h[b]) \o t) = HeaderSize + Len(t)
    BY <1>4, LengthBefore DEF Carries
  <2> QED
    BY <1>8, <2>1
<1>10. /\ \A i \in 1..Len(v.data) : v.data[i][2] = Len(h[v.data[i][1]])
       /\ \A i \in 2..Len(v.data) : v.data[i][1] # v.data[1][1]
  BY <1>2, <1>4 DEF d
<1> QED
  BY <1>4, <1>5, <1>6, <1>7, <1>9, <1>10 DEF Carries, d

\* One more buffer at the end.
LEMMA CarriesMore ==
  ASSUME NEW h, NEW m, NEW t, Carries(h, m, t), IsMessage(m), ~empty(m), m.buf = NULL,
         \A x \in buffers(m) : IsSequence(h[x]),
         NEW b, b \notin buffers(m), IsSequence(h[b]),
         NEW v, v.buf = NULL, v.data = Append(m.data, <<b, Len(h[b])>>)
  PROVE  Carries(h, v, t \o h[b])
<1> DEFINE d == m.data
           n == Len(d)
           e == <<b, Len(h[b])>>
           a == Append(d, e)
           s == Held(h, m)
<1>1. IsSequence(d) /\ n \in Nat /\ DOMAIN d = 1..n
  BY DEF IsMessage, IsSequence
<1>2. Len(a) = n + 1 /\ (\A i \in 1..n : a[i] = d[i]) /\ a[n + 1] = e
  BY <1>1, AppendOne
<1>3. SizeOf(a) = SizeOf(d) + Len(h[b])
  <2>1. e[2] = Len(h[b])
    OBVIOUS
  <2> HIDE DEF e
  <2> QED
    BY <1>1, <2>1, SizeOfAppend
<1>4. IsSequence(s) /\ Len(s) = n /\ n # 0
  BY HeldPieces
<1>5. s = [i \in 1..n |-> h[d[i][1]]]
  BY DEF Held
<1>6. v.data = a /\ e[1] = b /\ e[2] = Len(h[b])
  OBVIOUS
<1> HIDE DEF a, e, s, d, n
<1>7. Held(h, v) = [i \in 1..(n + 1) |-> h[a[i][1]]]
  BY <1>2, <1>6 DEF Held
<1>8. Held(h, v) = Append(s, h[b])
  <2> DEFINE p == Held(h, v)
             q == Append(s, h[b])
  <2>1. p = [i \in 1..(n + 1) |-> p[i]]
    BY <1>7
  <2>2. \A i \in 1..(n + 1) : p[i] = h[a[i][1]]
    BY <1>7
  <2> HIDE DEF p
  <2>3. IsSequence(p) /\ Len(p) = n + 1
    BY <1>1, <2>1, SequenceFrom
  <2>4. IsSequence(q) /\ Len(q) = n + 1 /\ (\A i \in 1..n : q[i] = s[i]) /\ q[n + 1] = h[b]
    BY <1>4, AppendOne
  <2> HIDE DEF q
  <2>5. ASSUME NEW i \in 1..(n + 1) PROVE p[i] = q[i]
    <3>1. CASE i = n + 1
      BY <1>2, <1>6, <2>2, <2>4, <3>1
    <3>2. CASE i # n + 1
      <4>1. i \in 1..n
        BY <1>1, <3>2
      <4> QED
        BY <1>2, <1>5, <2>2, <2>4, <4>1
    <3> QED
      BY <3>1, <3>2
  <2>6. p = q
    BY <2>3, <2>4, <2>5, SameSequence
  <2> QED
    BY <2>6 DEF p, q
<1>9. First(v) = First(m)
  <2>1. 1 \in 1..n
    BY <1>1, <1>4
  <2> QED
    BY <1>2, <1>6, <2>1 DEF First, d
<1>10. FlattenSeq(Held(h, v)) = FlattenSeq(s) \o h[b]
  BY <1>4, <1>8, FlattenAppend
<1> DEFINE f == Heading(h[First(m)])
<1>11. /\ IsSequence(t) /\ FlattenSeq(s) = f \o t /\ Len(h[First(m)]) >= HeaderSize
       /\ SizeOf(d) = HeaderSize + Len(t)
  BY DEF Carries, s, d
<1>12. IsSequence(f)
  <2>1. First(m) \in buffers(m)
    BY FirstBuffer
  <2> QED
    BY <1>11, <2>1, HeadingRest
<1>13. FlattenSeq(Held(h, v)) = f \o (t \o h[b])
  <2> DEFINE g == h[b]
  <2>1. IsSequence(g)
    OBVIOUS
  <2> HIDE DEF g
  <2>2. IsSequence(t)
    BY <1>11
  <2>3. \A x : IsSequence(x) => (x \o t) \o g = x \o (t \o g)
    BY <2>1, <2>2, AllAssociate, Zenon
  <2> HIDE DEF f
  <2> QED
    BY <1>10, <1>11, <1>12, <2>3 DEF g
<1>14. IsSequence(t \o h[b]) /\ SizeOf(a) = HeaderSize + Len(t \o h[b])
  <2>1. IsSequence(t \o h[b]) /\ Len(t \o h[b]) = Len(t) + Len(h[b])
    BY <1>11, Concatenation
  <2>2. Len(t) \in Nat /\ Len(h[b]) \in Nat
    BY <1>11 DEF IsSequence
  <2>3. \A x, y \in Nat : (HeaderSize + x) + y = HeaderSize + (x + y)
    BY Offsets
  <2> QED
    BY <1>3, <1>11, <2>1, <2>2, <2>3
<1>15. \A i \in 1..(n + 1) : a[i][2] = Len(h[a[i][1]])
  <2> SUFFICES ASSUME NEW i \in 1..(n + 1) PROVE a[i][2] = Len(h[a[i][1]])
    OBVIOUS
  <2>1. CASE i = n + 1
    BY <1>2, <1>6, <2>1
  <2>2. CASE i # n + 1
    <3>1. i \in 1..n
      BY <1>1, <2>2
    <3> QED
      BY <1>2, <3>1 DEF Carries, d, n
  <2> QED
    BY <2>1, <2>2
<1>16. \A i \in 2..(n + 1) : a[i][1] # a[1][1]
  <2> SUFFICES ASSUME NEW i \in 2..(n + 1) PROVE a[i][1] # a[1][1]
    OBVIOUS
  <2>1. 1 \in 1..n /\ a[1] = d[1] /\ d[1][1] \in buffers(m)
    BY <1>1, <1>2, <1>4 DEF buffers, d
  <2>2. CASE i = n + 1
    BY <1>2, <1>6, <2>1, <2>2
  <2>3. CASE i # n + 1
    <3>1. i \in 1..n /\ i \in 2..n
      BY <1>1, <2>3
    <3> QED
      BY <1>2, <2>1, <3>1 DEF Carries, d, n
  <2> QED
    BY <2>2, <2>3
<1> QED
  BY <1>2, <1>6, <1>9, <1>11, <1>13, <1>14, <1>15, <1>16 DEF Carries

-----------------------------------------------------------------------------
(* Each action keeps the messages whole *)

LEMMA WithIs ==
  ASSUME NEW h, NEW b, NEW bytes
  PROVE  /\ DOMAIN With(h, b, bytes) = DOMAIN h \cup {b} /\ With(h, b, bytes)[b] = bytes
         /\ \A x \in DOMAIN h : x # b => With(h, b, bytes)[x] = h[x]
BY DEF With

LEMMA WithoutIs ==
  ASSUME NEW blocks
  PROVE  /\ DOMAIN Without(blocks) = DOMAIN heap \ blocks
         /\ \A x \in DOMAIN heap \ blocks : Without(blocks)[x] = heap[x]
BY DEF Without

LEMMA HostBuilds == Ownership => host \in Builds
BY ByteOrderAssumption DEF Ownership

LEMMA InitContents == Init => Contents
<1> SUFFICES ASSUME Init PROVE Contents
  OBVIOUS
<1>1. DOMAIN heap = {} /\ caller = {} /\ msg = [m \in Msgs |-> NoMessage] /\ DOMAIN text = Msgs
  BY DEF Init
<1>2. \A m \in Msgs : msg[m] = NoMessage
  BY <1>1
<1>3. \A m \in Msgs : buffers(msg[m]) = {} /\ empty(msg[m])
  <2>1. empty(NoMessage)
    BY DEF empty, NoMessage
  <2> QED
    BY <1>2, <2>1, NothingToFree
<1> QED
  BY <1>1, <1>3 DEF Contents, Apart

\* The messages that are not in C keep what they have.
LEMMA ContentsAfter ==
  ASSUME Ownership, Contents, host' = host, NEW C, C \subseteq Msgs,
         \A r \in Msgs \ C : /\ msg'[r] = msg[r] /\ text'[r] = text[r]
                             /\ \A b \in buffers(msg[r]) : heap'[b] = heap[b],
         \A m \in C, r \in Msgs : m # r => buffers(msg'[m]) \cap buffers(msg'[r]) = {},
         \A m \in C : ~empty(msg'[m]) =>
            /\ Carries(heap', msg'[m], text'[m])
            /\ lengthIn(host, heap'[First(msg'[m])]) = HeaderSize + Len(text'[m]),
         DOMAIN text' = Msgs,
         \A b \in DOMAIN heap' : IsSequence(heap'[b]),
         \A b \in caller' : Len(heap'[b]) < LengthLimit
  PROVE  Contents'
<1>1. Apart'
  <2> SUFFICES ASSUME NEW m \in Msgs, NEW r \in Msgs, m # r
               PROVE  buffers(msg'[m]) \cap buffers(msg'[r]) = {}
    BY DEF Apart
  <2>1. CASE m \in C
    BY <2>1
  <2>2. CASE r \in C
    BY <2>2
  <2>3. CASE m \notin C /\ r \notin C
    BY <2>3 DEF Contents, Apart
  <2> QED
    BY <2>1, <2>2, <2>3
<1>2. ASSUME NEW m \in Msgs, ~empty(msg'[m])
      PROVE  /\ Carries(heap', msg'[m], text'[m])
             /\ lengthIn(host', heap'[First(msg'[m])]) = HeaderSize + Len(text'[m])
  <2>1. CASE m \in C
    BY <1>2, <2>1
  <2>2. CASE m \notin C
    <3>1. /\ msg'[m] = msg[m] /\ text'[m] = text[m] /\ ~empty(msg[m]) /\ IsMessage(msg[m])
          /\ \A b \in buffers(msg[m]) : heap'[b] = heap[b]
      BY <1>2, <2>2 DEF Ownership
    <3>2. /\ Carries(heap, msg[m], text[m])
          /\ lengthIn(host, heap[First(msg[m])]) = HeaderSize + Len(text[m])
      BY <3>1 DEF Contents
    <3>3. Carries(heap', msg[m], text[m])
      BY <3>1, <3>2, CarriesStill
    <3>4. heap'[First(msg[m])] = heap[First(msg[m])]
      BY <3>1, FirstBuffer
    <3> QED
      BY <3>1, <3>2, <3>3, <3>4
  <2> QED
    BY <2>1, <2>2
<1> QED
  BY <1>1, <1>2 DEF Contents

LEMMA NoneAfter ==
  ASSUME Ownership, Contents, UNCHANGED <<host, msg, text>>,
         \A r \in Msgs : \A b \in buffers(msg[r]) : heap'[b] = heap[b],
         \A b \in DOMAIN heap' : IsSequence(heap'[b]),
         \A b \in caller' : Len(heap'[b]) < LengthLimit
  PROVE  Contents'
<1> DEFINE C == {}
<1>1. host' = host /\ msg' = msg /\ text' = text /\ DOMAIN text' = Msgs
  BY DEF Contents
<1>2. /\ C \subseteq Msgs /\ \A r \in Msgs \ C : /\ msg'[r] = msg[r] /\ text'[r] = text[r]
                                /\ \A b \in buffers(msg[r]) : heap'[b] = heap[b]
  BY <1>1
<1>3. \A m \in C : FALSE
  OBVIOUS
<1> HIDE DEF C
<1>4. \A m \in C, r \in Msgs : m # r => buffers(msg'[m]) \cap buffers(msg'[r]) = {}
  BY <1>3, Zenon
<1>5. \A m \in C : ~empty(msg'[m]) =>
         /\ Carries(heap', msg'[m], text'[m])
         /\ lengthIn(host, heap'[First(msg'[m])]) = HeaderSize + Len(text'[m])
  BY <1>3, Zenon
<1> QED
  BY <1>1, <1>2, <1>4, <1>5, ContentsAfter

\* Only the message m changes hands or bytes.
LEMMA OneAfter ==
  ASSUME Ownership, Contents, host' = host, NEW m \in Msgs,
         \A r \in Msgs : r # m =>
            /\ msg'[r] = msg[r] /\ text'[r] = text[r]
            /\ \A b \in buffers(msg[r]) : heap'[b] = heap[b]
            /\ buffers(msg'[m]) \cap buffers(msg[r]) = {},
         ~empty(msg'[m]) =>
            /\ Carries(heap', msg'[m], text'[m])
            /\ lengthIn(host, heap'[First(msg'[m])]) = HeaderSize + Len(text'[m]),
         DOMAIN text' = Msgs,
         \A b \in DOMAIN heap' : IsSequence(heap'[b]),
         \A b \in caller' : Len(heap'[b]) < LengthLimit
  PROVE  Contents'
<1> DEFINE C == {m}
<1>1. /\ C \subseteq Msgs /\ \A r \in Msgs \ C : /\ msg'[r] = msg[r] /\ text'[r] = text[r]
                                /\ \A b \in buffers(msg[r]) : heap'[b] = heap[b]
  OBVIOUS
<1>2. \A s \in C : s = m
  OBVIOUS
<1>3. \A s \in C, r \in Msgs : s # r => buffers(msg'[s]) \cap buffers(msg'[r]) = {}
  BY <1>2
<1>4. \A s \in C : ~empty(msg'[s]) =>
         /\ Carries(heap', msg'[s], text'[s])
         /\ lengthIn(host, heap'[First(msg'[s])]) = HeaderSize + Len(text'[s])
  BY <1>2
<1>5. C \subseteq Msgs
  BY <1>1
<1>6. \A r \in Msgs \ C : /\ msg'[r] = msg[r] /\ text'[r] = text[r]
                          /\ \A b \in buffers(msg[r]) : heap'[b] = heap[b]
  BY <1>1
<1> HIDE DEF C
<1> HIDE <1>1, <1>2
<1> QED
  BY <1>3, <1>4, <1>5, <1>6, ContentsAfter

LEMMA SameContents ==
  ASSUME Contents, UNCHANGED <<host, heap, caller, msg, text>>
  PROVE  Contents'
<1>1. host' = host /\ heap' = heap /\ caller' = caller /\ msg' = msg /\ text' = text
  OBVIOUS
<1> QED
  BY <1>1 DEF Contents, Apart

LEMMA BodyIs == ASSUME NEW n \in Nat PROVE IsSequence(Body(n)) /\ Len(Body(n)) = n
<1> DEFINE f == Body(n)
<1>1. f = [i \in 1..n |-> f[i]]
  BY DEF Body
<1> HIDE DEF f
<1>2. IsSequence(f) /\ Len(f) = n
  BY <1>1, SequenceFrom
<1> QED
  BY <1>2 DEF f

\* The bytes of an int.
IsField(a) == IsSequence(a) /\ Len(a) = 4

LEMMA FieldBytes == \A ho, v : IsField(writeLE(ho, v, INT))
<1>1. INT.w = 4 /\ INT.w \in Nat
  BY Offsets
<1>2. \A ho, v : IsSequence(writeLE(ho, v, INT)) /\ Len(writeLE(ho, v, INT)) = INT.w
  BY <1>1, BytesWritten
<1> QED
  BY <1>1, <1>2 DEF IsField

\* Four fields make a header that begins with the first.
IsHeader(h, a) == IsSequence(h) /\ Len(h) = HeaderSize /\ \A i \in 1..4 : h[i] = a[i]

LEMMA FourFields ==
  ASSUME NEW a, IsField(a), NEW b, IsField(b), NEW c, IsField(c), NEW d, IsField(d)
  PROVE  IsHeader(a \o b \o c \o d, a)
<1> DEFINE x == a \o b
           y == x \o c
           h == y \o d
<1>0. /\ IsSequence(a) /\ IsSequence(b) /\ IsSequence(c) /\ IsSequence(d)
      /\ Len(a) = 4 /\ Len(b) = 4 /\ Len(c) = 4 /\ Len(d) = 4
  BY DEF IsField
<1>1. IsSequence(x) /\ Len(x) = Len(a) + Len(b) /\ \A i \in 1..Len(a) : x[i] = a[i]
  BY <1>0, Concatenation
<1> HIDE DEF x
<1>2. Len(x) = 8 /\ \A i \in 1..4 : x[i] = a[i]
  <2>1. Len(x) = 8
    BY <1>0, <1>1
  <2>2. 1..Len(a) = 1..4
    BY <1>0
  <2> QED
    BY <1>1, <2>1, <2>2, Zenon
<1>3. IsSequence(y) /\ Len(y) = Len(x) + Len(c) /\ \A i \in 1..Len(x) : y[i] = x[i]
  <2>1. IsSequence(x) /\ IsSequence(c)
    BY <1>0, <1>1
  <2> QED
    BY <2>1, Concatenation
<1> HIDE DEF y
<1>4. Len(y) = 12
  BY <1>0, <1>2, <1>3
<1>5. \A i \in 1..4 : y[i] = a[i]
  <2>1. 1..Len(x) = 1..8
    BY <1>2
  <2>2. \A i \in 1..4 : i \in 1..8
    OBVIOUS
  <2>3. \A i \in 1..4 : y[i] = x[i]
    BY <1>3, <2>1, <2>2, Zenon
  <2> QED
    BY <1>2, <2>3, Zenon
<1>6. IsSequence(h) /\ Len(h) = Len(y) + Len(d) /\ \A i \in 1..Len(y) : h[i] = y[i]
  <2>1. IsSequence(y) /\ IsSequence(d)
    BY <1>0, <1>3
  <2> QED
    BY <2>1, Concatenation
<1> HIDE DEF h
<1>7. Len(h) = 16
  BY <1>0, <1>4, <1>6
<1>8. \A i \in 1..4 : h[i] = a[i]
  <2>1. 1..Len(y) = 1..12
    BY <1>4
  <2>2. \A i \in 1..4 : i \in 1..12
    OBVIOUS
  <2>3. \A i \in 1..4 : h[i] = y[i]
    BY <1>6, <2>1, <2>2, Zenon
  <2> QED
    BY <1>5, <2>3, Zenon
<1>9. IsHeader(h, a)
  BY <1>6, <1>7, <1>8, Offsets DEF IsHeader
<1> QED
  BY <1>9 DEF h, x, y

LEMMA BuildContents ==
  ASSUME SizesFit, Ownership, Contents, NEW n \in Tails, NEW first, Build(n, first)
  PROVE  Contents'
<1> DEFINE header == writeLE(host, HeaderSize + n, INT) \o writeLE(host, 0, INT)
                     \o writeLE(host, 0, INT) \o writeLE(host, dbQuery, INT)
           bytes == (IF first THEN header ELSE <<>>) \o Body(n)
<1>1. PICK b \in Free : heap' = With(heap, b, bytes) /\ caller' = caller \cup {b}
  BY DEF Build
<1>2. host' = host /\ msg' = msg /\ text' = text /\ b \notin DOMAIN heap
  BY DEF Build, Free
<1>3. n \in Nat
  BY MessageAssumption
<1>4. IsSequence(header) /\ Len(header) = HeaderSize
  BY FieldBytes, FourFields DEF IsHeader
<1> HIDE DEF header
<1>5. IsSequence(bytes) /\ Len(bytes) < LengthLimit
  <2> DEFINE x == IF first THEN header ELSE <<>>
  <2>1. IsSequence(x) /\ (Len(x) = HeaderSize \/ Len(x) = 0)
    <3>1. IsSequence(<<>>) /\ Len(<<>>) = 0
      BY DEF IsSequence
    <3> QED
      BY <1>4, <3>1
  <2>2. IsSequence(Body(n)) /\ Len(Body(n)) = n
    BY <1>3, BodyIs
  <2> HIDE DEF x
  <2>3. IsSequence(x \o Body(n)) /\ Len(x \o Body(n)) = Len(x) + Len(Body(n))
    BY <2>1, <2>2, Concatenation
  <2>4. LengthLimit \in Nat /\ HeaderSize + n < LengthLimit /\ HeaderSize = 16
    BY LimitInt, Offsets DEF SizesFit
  <2>5. Len(x) + n < LengthLimit
    <3>1. 16 + n < LengthLimit /\ 0 + n < LengthLimit
      BY <1>3, <2>4
    <3> QED
      BY <2>1, <2>4, <3>1
  <2> QED
    BY <2>2, <2>3, <2>5 DEF x
<1> HIDE DEF bytes
<1>6. /\ DOMAIN heap' = DOMAIN heap \cup {b} /\ heap'[b] = bytes
      /\ \A x \in DOMAIN heap : x # b => heap'[x] = heap[x]
  <2>1. /\ DOMAIN With(heap, b, bytes) = DOMAIN heap \cup {b} /\ With(heap, b, bytes)[b] = bytes
        /\ \A x \in DOMAIN heap : x # b => With(heap, b, bytes)[x] = heap[x]
    BY DEF With
  <2> QED
    BY <1>1, <2>1
<1>8. \A x \in DOMAIN heap' : IsSequence(heap'[x])
  BY <1>5, <1>6 DEF Contents
<1>9. \A x \in caller' : Len(heap'[x]) < LengthLimit
  BY <1>1, <1>2, <1>5, <1>6 DEF Contents, Ownership
<1>10. \A r \in Msgs : \A x \in buffers(msg[r]) : heap'[x] = heap[x]
  BY <1>2, <1>6 DEF Ownership, Allocated
<1> QED
  BY <1>2, <1>8, <1>9, <1>10, NoneAfter

LEMMA SetDataContents ==
  ASSUME SizesFit, Ownership, Contents, NEW m \in Msgs, NEW b, NEW freeIt \in BOOLEAN, SetData(m, b, freeIt)
  PROVE  Contents'
<1>1. b \in caller /\ b # NULL /\ b \in DOMAIN heap /\ \A r \in Msgs : b \notin buffers(msg[r])
  BY MessageAssumption DEF SetData, Unlent, Ownership
<1>2. /\ msg' = [msg EXCEPT ![m].buf = b, ![m].freeIt = freeIt] /\ caller' \subseteq caller
      /\ text' = [text EXCEPT ![m] = Rest(heap[b])] /\ host' = host /\ heap' = heap
  BY DEF SetData, Rest
<1>3. DOMAIN msg = Msgs /\ DOMAIN text = Msgs /\ IsMessage(msg[m]) /\ msg[m].data = <<>>
  BY EmptyMessage DEF SetData, Ownership, Contents
<1>4. msg'[m] = [buf |-> b, data |-> <<>>, freeIt |-> freeIt] /\ text'[m] = Rest(heap[b])
  <2>1. msg[m] = [buf |-> msg[m].buf, data |-> <<>>, freeIt |-> msg[m].freeIt]
    BY <1>3 DEF IsMessage
  <2> QED
    BY <1>2, <1>3, <2>1
<1>5. \A r \in Msgs \ {m} : msg'[r] = msg[r] /\ text'[r] = text[r]
  BY <1>2, <1>3
<1>6. buffers(msg'[m]) = {b}
  BY <1>1, <1>4, OneBuffer
<1>7. IsSequence(heap[b]) /\ Len(heap[b]) > HeaderSize /\ lengthIn(host, heap[b]) = Len(heap[b])
  BY <1>1 DEF SetData, Whole, Headed, getMessageLength, getInt, lengthIn, Contents
<1>8. Len(heap[b]) \in Nat
  BY <1>7 DEF IsSequence
<1>9. Carries(heap', msg'[m], text'[m])
  <2>1. Len(heap[b]) >= HeaderSize
    BY <1>7, <1>8, Offsets
  <2>2. Carries(heap, [buf |-> b, data |-> <<>>, freeIt |-> freeIt], Rest(heap[b]))
    BY <1>1, <1>7, <2>1, CarriesAlone
  <2> QED
    BY <1>2, <1>4, <2>2
<1>10. First(msg'[m]) = b /\ HeaderSize + Len(Rest(heap[b])) = Len(heap[b])
  <2>1. Len(Rest(heap[b])) = Len(heap[b]) - HeaderSize
    BY <1>7, <1>8, HeadingRest, Offsets
  <2> QED
    BY <1>1, <1>4, <1>8, <2>1, Offsets DEF First
<1>11. DOMAIN text' = Msgs /\ \A x \in caller' : Len(heap'[x]) < LengthLimit
  BY <1>2, <1>3 DEF Contents
<1>12. \A x \in DOMAIN heap' : IsSequence(heap'[x])
  BY <1>2 DEF Contents
<1>13. \A r \in Msgs : r # m =>
          /\ msg'[r] = msg[r] /\ text'[r] = text[r]
          /\ \A x \in buffers(msg[r]) : heap'[x] = heap[x]
          /\ buffers(msg'[m]) \cap buffers(msg[r]) = {}
  BY <1>1, <1>2, <1>5, <1>6
<1>14. lengthIn(host, heap'[First(msg'[m])]) = HeaderSize + Len(text'[m])
  BY <1>2, <1>4, <1>7, <1>10
<1> QED
  BY <1>2, <1>9, <1>11, <1>12, <1>13, <1>14, OneAfter

LEMMA SetDataOperationContents ==
  ASSUME SizesFit, Ownership, Contents, NEW m \in Msgs, NEW op \in 0..(LengthLimit - 1),
         NEW len \in Tails, SetDataOperation(m, op, len)
  PROVE  Contents'
<1> DEFINE c(g) == setInt(setInt(g, messageLength, len + HeaderSize), opCode, op)
<1>1. PICK b \in Free : /\ \E g \in Garbage(HeaderSize) : heap' = With(heap, b, c(g) \o Body(len))
                        /\ msg' = [msg EXCEPT ![m].buf = b, ![m].freeIt = TRUE]
                        /\ text' = [text EXCEPT ![m] = Body(len)]
  BY DEF SetDataOperation
<1>2. host' = host /\ caller' = caller /\ empty(msg[m]) /\ b \notin DOMAIN heap /\ b # NULL
  BY MessageAssumption DEF SetDataOperation, Free
<1>3. DOMAIN msg = Msgs /\ DOMAIN text = Msgs /\ IsMessage(msg[m]) /\ msg[m].data = <<>>
  BY <1>2, EmptyMessage DEF Ownership, Contents
<1>4. msg'[m] = [buf |-> b, data |-> <<>>, freeIt |-> TRUE] /\ text'[m] = Body(len)
  <2>1. msg[m] = [buf |-> msg[m].buf, data |-> <<>>, freeIt |-> msg[m].freeIt]
    BY <1>3 DEF IsMessage
  <2> QED
    BY <1>1, <1>3, <2>1
<1>5. DOMAIN text' = Msgs /\ \A r \in Msgs : r # m => msg'[r] = msg[r] /\ text'[r] = text[r]
  BY <1>1, <1>3
<1>6. len \in Nat /\ HeaderSize = 16
  BY MessageAssumption, Offsets
<1>7. IsSequence(Body(len)) /\ Len(Body(len)) = len
  BY <1>6, BodyIs
<1>8. PICK x : /\ heap' = With(heap, b, x \o Body(len))
               /\ IsSequence(x) /\ Len(x) = HeaderSize /\ lengthIn(host, x) = len + HeaderSize
  <2>1. PICK g \in Garbage(HeaderSize) : heap' = With(heap, b, c(g) \o Body(len))
    BY <1>1
  <2> DEFINE y == setInt(g, messageLength, len + HeaderSize)
             x == setInt(y, opCode, op)
  <2>2. IsSequence(g) /\ Len(g) = HeaderSize
    <3>1. g = [i \in 1..16 |-> g[i]]
      BY <1>6 DEF Garbage
    <3> QED
      BY <1>6, <3>1, SequenceFrom
  <2>3. host \in Builds /\ len + HeaderSize \in 0..(LengthLimit - 1)
    <3>1. HeaderSize + len < LengthLimit /\ LengthLimit \in Nat
      BY LimitInt DEF SizesFit
    <3> QED
      BY <1>6, <3>1, HostBuilds DEF SizesFit
  <2>4. Len(g) >= HeaderSize
    BY <1>6, <2>2
  <2>5. IsSequence(y) /\ Len(y) = Len(g) /\ lengthIn(host, y) = len + HeaderSize
    BY <2>2, <2>3, <2>4, FieldSet DEF setInt
  <2> HIDE DEF y
  <2>6. opCode # messageLength
    BY Offsets
  <2>7. IsSequence(x) /\ Len(x) = Len(y) /\ lengthIn(host, x) = lengthIn(host, y)
    BY <2>2, <2>3, <2>4, <2>5, <2>6, FieldSet DEF setInt
  <2>8. c(g) = x
    BY DEF y
  <2> HIDE DEF x, c
  <2> QED
    BY <2>1, <2>2, <2>5, <2>7, <2>8
<1> DEFINE bytes == x \o Body(len)
<1>9. IsSequence(bytes) /\ Len(bytes) = Len(x) + Len(Body(len)) /\ \A i \in 1..Len(x) : bytes[i] = x[i]
  BY <1>7, <1>8, Concatenation
<1>10. Rest(bytes) = Body(len)
  BY <1>7, <1>8, Behind DEF Rest
<1> HIDE DEF bytes
<1>11. lengthIn(host, bytes) = HeaderSize + len /\ Len(bytes) >= HeaderSize
  <2>1. \A i \in 1..4 : bytes[i] = x[i]
    BY <1>6, <1>8, <1>9
  <2>2. Len(bytes) = 16 + len /\ Len(bytes) >= HeaderSize /\ Len(x) >= HeaderSize
    BY <1>6, <1>7, <1>8, <1>9
  <2>3. lengthIn(host, bytes) = lengthIn(host, x)
    BY <1>8, <1>9, <2>1, <2>2, LengthInHeading
  <2> QED
    BY <1>6, <1>8, <2>2, <2>3
<1>12. /\ DOMAIN heap' = DOMAIN heap \cup {b} /\ heap'[b] = bytes
       /\ \A z \in DOMAIN heap : z # b => heap'[z] = heap[z]
  <2>1. heap' = With(heap, b, bytes)
    BY <1>8 DEF bytes
  <2> QED
    BY <2>1 DEF With
<1>13. \A r \in Msgs : r # m =>
          /\ msg'[r] = msg[r] /\ text'[r] = text[r]
          /\ \A z \in buffers(msg[r]) : heap'[z] = heap[z]
          /\ buffers(msg'[m]) \cap buffers(msg[r]) = {}
  <2>1. buffers(msg'[m]) = {b}
    BY <1>2, <1>4, OneBuffer
  <2>2. \A r \in Msgs : buffers(msg[r]) \subseteq DOMAIN heap
    BY DEF Ownership, Allocated
  <2> QED
    BY <1>2, <1>5, <1>12, <2>1, <2>2
<1>14. /\ Carries(heap', msg'[m], text'[m])
       /\ lengthIn(host, heap'[First(msg'[m])]) = HeaderSize + Len(text'[m])
  <2>1. msg'[m].buf = b /\ msg'[m].data = <<>> /\ First(msg'[m]) = b
    BY <1>2, <1>4 DEF First
  <2>2. Carries(heap', msg'[m], Rest(heap'[b]))
    BY <1>2, <1>9, <1>11, <1>12, <2>1, CarriesAlone
  <2> QED
    BY <1>4, <1>7, <1>10, <1>11, <1>12, <2>1, <2>2
<1>15. (\A z \in DOMAIN heap' : IsSequence(heap'[z])) /\ \A z \in caller' : Len(heap'[z]) < LengthLimit
  BY <1>2, <1>9, <1>12 DEF Contents, Ownership
<1> QED
  BY <1>2, <1>5, <1>13, <1>14, <1>15, OneAfter

\* What a message points to, and what send() makes of it.
LEMMA WholeMessage ==
  ASSUME Ownership, Contents, NEW m \in Msgs, ~empty(msg[m])
  PROVE  /\ IsMessage(msg[m]) /\ First(msg[m]) \in buffers(msg[m])
         /\ \A b \in buffers(msg[m]) : b \in DOMAIN heap /\ IsSequence(heap[b])
         /\ Carries(heap, msg[m], text[m])
         /\ lengthIn(host, heap[First(msg[m])]) = HeaderSize + Len(text[m])
         /\ IsSequence(heap[First(msg[m])]) /\ Len(heap[First(msg[m])]) >= HeaderSize
         /\ IsSequence(text[m])
<1>1. IsMessage(msg[m]) /\ buffers(msg[m]) \subseteq DOMAIN heap
  BY DEF Ownership, Allocated
<1>2. First(msg[m]) \in buffers(msg[m])
  BY <1>1, FirstBuffer
<1>3. \A b \in buffers(msg[m]) : b \in DOMAIN heap /\ IsSequence(heap[b])
  BY <1>1 DEF Contents
<1>4. /\ Carries(heap, msg[m], text[m])
      /\ lengthIn(host, heap[First(msg[m])]) = HeaderSize + Len(text[m])
  BY DEF Contents
<1>5. Len(heap[First(msg[m])]) >= HeaderSize /\ IsSequence(text[m])
  BY <1>4 DEF Carries
<1> QED
  BY <1>1, <1>2, <1>3, <1>4, <1>5

\* A buffer alone is as long as its header says.
LEMMA AloneLength ==
  ASSUME Ownership, Contents, NEW m \in Msgs, msg[m].buf # NULL
  PROVE  /\ heap[msg[m].buf] = Heading(heap[msg[m].buf]) \o text[m]
         /\ Len(heap[msg[m].buf]) = HeaderSize + Len(text[m])
         /\ getMessageLength(heap[msg[m].buf]) = Len(heap[msg[m].buf])
<1>1. ~empty(msg[m]) /\ First(msg[m]) = msg[m].buf /\ Held(heap, msg[m]) = <<heap[msg[m].buf]>>
  BY DEF empty, First, Held
<1>2. FlattenSeq(<<heap[msg[m].buf]>>) = heap[msg[m].buf]
  BY FlattenOne
<1> DEFINE b == heap[msg[m].buf]
<1>3. /\ Carries(heap, msg[m], text[m]) /\ lengthIn(host, b) = HeaderSize + Len(text[m])
      /\ IsSequence(b) /\ Len(b) >= HeaderSize /\ IsSequence(text[m])
  BY <1>1, WholeMessage
<1>4. b = Heading(b) \o text[m]
  BY <1>1, <1>2, <1>3 DEF Carries
<1>5. Len(Heading(b) \o text[m]) = HeaderSize + Len(text[m])
  BY <1>3, LengthBefore
<1>6. getMessageLength(b) = lengthIn(host, b)
  BY DEF getMessageLength, getInt, lengthIn
<1> HIDE DEF b
<1>7. Len(b) = HeaderSize + Len(text[m])
  BY <1>4, <1>5
<1> QED
  BY <1>3, <1>4, <1>6, <1>7 DEF b

LEMMA BytesSent ==
  ASSUME Ownership, Contents, NEW m \in Msgs, ~empty(msg[m])
  PROVE  /\ Bytes(msg[m]) = Heading(heap[First(msg[m])]) \o text[m]
         /\ size(msg[m]) = HeaderSize + Len(text[m])
<1>1. /\ IsMessage(msg[m]) /\ Carries(heap, msg[m], text[m])
      /\ \A b \in buffers(msg[m]) : IsSequence(heap[b])
  BY WholeMessage
<1>2. \A s : IsSequence(s) => SubSeq(s, 1, Len(s)) = s
  <2> SUFFICES ASSUME NEW s, IsSequence(s) PROVE SubSeq(s, 1, Len(s)) = s
    OBVIOUS
  <2> DEFINE S == {s[i] : i \in 1..Len(s)}
  <2>1. s \in Seq(S)
    BY SequenceOf
  <2> HIDE DEF S
  <2> QED
    BY <2>1, SubSeqFull
<1>3. CASE msg[m].buf # NULL
  <2> DEFINE b == heap[msg[m].buf]
  <2>1. /\ b = Heading(b) \o text[m] /\ Len(b) = HeaderSize + Len(text[m]) /\ getMessageLength(b) = Len(b)
    BY <1>3, AloneLength
  <2>2. First(msg[m]) = msg[m].buf /\ msg[m].buf \in buffers(msg[m])
    BY <1>3 DEF First, buffers
  <2>3. size(msg[m]) = Len(b)
    BY <1>3, <2>1 DEF size
  <2>4. Bytes(msg[m]) = SubSeq(b, 1, Len(b))
    BY <1>3, <2>3 DEF Bytes
  <2>5. SubSeq(b, 1, Len(b)) = b
    BY <1>1, <1>2, <2>2
  <2>6. Bytes(msg[m]) = b
    BY <2>4, <2>5
  <2> QED
    BY <2>1, <2>2, <2>3, <2>6
<1>4. CASE msg[m].buf = NULL
  <2> DEFINE d == msg[m].data
             n == Len(d)
  <2>1. DOMAIN d = 1..n /\ n \in Nat
    BY <1>1 DEF IsMessage, IsSequence
  <2>2. \A i \in 1..n : IsSequence(heap[d[i][1]]) /\ d[i][2] = Len(heap[d[i][1]])
    BY <1>1, <2>1 DEF Carries, buffers
  <2>3. \A i \in 1..n : SubSeq(heap[d[i][1]], 1, d[i][2]) = heap[d[i][1]]
    BY <1>2, <2>2
  <2>4. [i \in DOMAIN d |-> SubSeq(heap[d[i][1]], 1, d[i][2])] = Held(heap, msg[m])
    BY <1>4, <2>1, <2>3 DEF Held
  <2>5. Bytes(msg[m]) = FlattenSeq(Held(heap, msg[m]))
    BY <1>4, <2>4 DEF Bytes
  <2>6. size(msg[m]) = SizeOf(d)
    BY <1>4 DEF size
  <2> QED
    BY <1>1, <1>4, <2>5, <2>6 DEF Carries
<1> QED
  BY <1>3, <1>4

LEMMA SayContents ==
  ASSUME SizesFit, Ownership, Contents, NEW m \in Msgs, NEW id \in 0..(LengthLimit - 1), Say(m, id)
  PROVE  Contents'
<1> DEFINE b == First(msg[m])
           y == setInt(heap[b], requestID, id)
           x == setInt(y, responseTo, 0)
<1>1. ~empty(msg[m]) /\ heap' = With(heap, b, x) /\ UNCHANGED <<host, caller, msg, text>>
  BY DEF Say
<1>2. /\ IsMessage(msg[m]) /\ b \in buffers(msg[m]) /\ Carries(heap, msg[m], text[m])
      /\ \A z \in buffers(msg[m]) : z \in DOMAIN heap /\ IsSequence(heap[z])
      /\ lengthIn(host, heap[b]) = HeaderSize + Len(text[m])
      /\ IsSequence(heap[b]) /\ Len(heap[b]) >= HeaderSize
  BY <1>1, WholeMessage
<1>3. host \in Builds /\ 0 \in 0..(LengthLimit - 1)
  BY HostBuilds, LimitInt DEF SizesFit
<1>4. requestID # messageLength /\ responseTo # messageLength
  BY Offsets
<1> HIDE DEF b
<1>5. /\ IsSequence(y) /\ Len(y) = Len(heap[b]) /\ Rest(y) = Rest(heap[b])
      /\ lengthIn(host, y) = lengthIn(host, heap[b])
  BY <1>2, <1>3, <1>4, FieldSet DEF setInt
<1> HIDE DEF y
<1>6. /\ IsSequence(x) /\ Len(x) = Len(y) /\ Rest(x) = Rest(y)
      /\ lengthIn(host, x) = lengthIn(host, y)
  <2>1. IsSequence(y) /\ Len(y) >= HeaderSize
    BY <1>2, <1>5
  <2>2. x = Overwrite(y, responseTo, writeLE(host, 0, INT))
    BY DEF setInt
  <2> HIDE DEF x
  <2> QED
    BY <1>3, <1>4, <2>1, <2>2, FieldSet
<1> HIDE DEF x
<1>7. /\ DOMAIN heap' = DOMAIN heap /\ heap'[b] = x
      /\ \A z \in DOMAIN heap : z # b => heap'[z] = heap[z]
  BY <1>1, <1>2 DEF With
<1>8. Carries(heap', msg[m], text[m])
  BY <1>1, <1>2, <1>5, <1>6, <1>7, CarriesReheaded DEF b
<1>9. \A r \in Msgs : r # m =>
         /\ msg'[r] = msg[r] /\ text'[r] = text[r]
         /\ \A z \in buffers(msg[r]) : heap'[z] = heap[z]
         /\ buffers(msg'[m]) \cap buffers(msg[r]) = {}
  <2>1. \A r \in Msgs : buffers(msg[r]) \subseteq DOMAIN heap
    BY DEF Ownership, Allocated
  <2>2. \A r \in Msgs : r # m => buffers(msg[m]) \cap buffers(msg[r]) = {}
    BY DEF Contents, Apart
  <2> QED
    BY <1>1, <1>2, <1>7, <2>1, <2>2
<1>10. /\ DOMAIN text' = Msgs /\ \A z \in DOMAIN heap' : IsSequence(heap'[z])
       /\ \A z \in caller' : Len(heap'[z]) < LengthLimit
  BY <1>1, <1>5, <1>6, <1>7 DEF Contents, Ownership
<1>11. lengthIn(host, heap'[First(msg'[m])]) = HeaderSize + Len(text'[m])
  BY <1>1, <1>2, <1>5, <1>6, <1>7 DEF b
<1> QED
  BY <1>1, <1>8, <1>9, <1>10, <1>11, OneAfter

LEMMA ResetContents ==
  ASSUME Ownership, Contents, NEW m \in Msgs, Reset(m)
  PROVE  Contents'
<1>1. /\ heap' = Without(Frees(msg[m])) /\ msg' = [msg EXCEPT ![m] = NoMessage]
      /\ text' = [text EXCEPT ![m] = <<>>] /\ host' = host /\ caller' = caller
  BY DEF Reset
<1>2. DOMAIN msg = Msgs /\ DOMAIN text = Msgs
  BY DEF Ownership, Contents
<1>3. /\ DOMAIN heap' = DOMAIN heap \ Frees(msg[m])
      /\ \A b \in DOMAIN heap \ Frees(msg[m]) : heap'[b] = heap[b]
  BY <1>1, WithoutIs
<1>4. empty(msg'[m]) /\ buffers(msg'[m]) = {}
  <2>1. msg'[m] = NoMessage /\ empty(NoMessage)
    BY <1>1, <1>2 DEF empty, NoMessage
  <2> QED
    BY <2>1, NothingToFree
<1>5. \A r \in Msgs : r # m =>
         /\ msg'[r] = msg[r] /\ text'[r] = text[r]
         /\ \A b \in buffers(msg[r]) : heap'[b] = heap[b]
         /\ buffers(msg'[m]) \cap buffers(msg[r]) = {}
  <2>1. \A r \in Msgs : buffers(msg[r]) \subseteq DOMAIN heap
    BY DEF Ownership, Allocated
  <2>2. \A r \in Msgs : r # m => buffers(msg[r]) \cap Frees(msg[m]) = {}
    BY DEF Contents, Apart, Frees
  <2> QED
    BY <1>1, <1>2, <1>3, <1>4, <2>1, <2>2
<1>6. DOMAIN text' = Msgs /\ \A b \in DOMAIN heap' : IsSequence(heap'[b])
  BY <1>1, <1>2, <1>3 DEF Contents
<1>7. \A b \in caller' : Len(heap'[b]) < LengthLimit
  <2>1. caller \subseteq DOMAIN heap \ Frees(msg[m])
    BY DEF Ownership, Exclusive
  <2> QED
    BY <1>1, <1>3, <2>1 DEF Contents
<1> QED
  BY <1>1, <1>4, <1>5, <1>6, <1>7, OneAfter

LEMMA CallerFreesContents ==
  ASSUME Ownership, Contents, NEW b, CallerFrees(b)
  PROVE  Contents'
<1>1. /\ heap' = Without({b}) /\ caller' = caller \ {b} /\ UNCHANGED <<host, msg, text>>
      /\ \A r \in Msgs : b \notin buffers(msg[r])
  BY DEF CallerFrees, Unlent
<1>2. DOMAIN heap' = DOMAIN heap \ {b} /\ \A x \in DOMAIN heap \ {b} : heap'[x] = heap[x]
  BY <1>1, WithoutIs
<1>3. \A r \in Msgs : \A x \in buffers(msg[r]) : heap'[x] = heap[x]
  BY <1>1, <1>2 DEF Ownership, Allocated
<1>4. (\A x \in DOMAIN heap' : IsSequence(heap'[x])) /\ \A x \in caller' : Len(heap'[x]) < LengthLimit
  BY <1>1, <1>2 DEF Contents, Ownership
<1> QED
  BY <1>1, <1>3, <1>4, NoneAfter

\* A message of one new buffer in the place of another, whose buffers are freed.
LEMMA ReplacedContents ==
  ASSUME Ownership, Contents, UNCHANGED <<host, caller>>, NEW m \in Msgs, NEW b \in Free, NEW bytes,
         IsSequence(bytes), Len(bytes) >= HeaderSize, lengthIn(host, bytes) = Len(bytes),
         heap' = With(Without(Frees(msg[m])), b, bytes),
         msg' = [msg EXCEPT ![m] = [buf |-> b, data |-> <<>>, freeIt |-> TRUE]],
         DOMAIN text' = Msgs, text'[m] = Rest(bytes), \A r \in Msgs : r # m => text'[r] = text[r]
  PROVE  Contents'
<1>1. b \notin DOMAIN heap /\ b # NULL
  BY MessageAssumption DEF Free
<1>2. msg'[m] = [buf |-> b, data |-> <<>>, freeIt |-> TRUE] /\ \A r \in Msgs : r # m => msg'[r] = msg[r]
  BY DEF Ownership
<1> DEFINE kept == Without(Frees(msg[m]))
<1>3. DOMAIN kept = DOMAIN heap \ Frees(msg[m]) /\ \A x \in DOMAIN heap \ Frees(msg[m]) : kept[x] = heap[x]
  BY WithoutIs
<1>4. /\ DOMAIN heap' = DOMAIN kept \cup {b} /\ heap'[b] = bytes
      /\ \A x \in DOMAIN kept : x # b => heap'[x] = kept[x]
  <2> HIDE DEF kept
  <2>1. heap' = With(kept, b, bytes)
    BY DEF kept
  <2> QED
    BY <2>1 DEF With
<1> HIDE DEF kept
<1>5. \A x \in DOMAIN heap \ Frees(msg[m]) : heap'[x] = heap[x]
  BY <1>1, <1>3, <1>4
<1>6. \A r \in Msgs : r # m =>
         /\ msg'[r] = msg[r] /\ text'[r] = text[r]
         /\ \A x \in buffers(msg[r]) : heap'[x] = heap[x]
         /\ buffers(msg'[m]) \cap buffers(msg[r]) = {}
  <2>1. \A r \in Msgs : buffers(msg[r]) \subseteq DOMAIN heap
    BY DEF Ownership, Allocated
  <2>2. \A r \in Msgs : r # m => buffers(msg[r]) \cap Frees(msg[m]) = {}
    BY DEF Contents, Apart, Frees
  <2>3. buffers(msg'[m]) = {b}
    BY <1>1, <1>2, OneBuffer
  <2> QED
    BY <1>1, <1>2, <1>5, <2>1, <2>2, <2>3
<1>7. \A x \in DOMAIN heap' : IsSequence(heap'[x])
  BY <1>3, <1>4, <1>5 DEF Contents
<1>8. \A x \in caller' : Len(heap'[x]) < LengthLimit
  <2>1. caller \subseteq DOMAIN heap \ Frees(msg[m])
    BY DEF Ownership, Exclusive
  <2> QED
    BY <1>5, <2>1 DEF Contents
<1>9. /\ Carries(heap', msg'[m], text'[m])
      /\ lengthIn(host, heap'[First(msg'[m])]) = HeaderSize + Len(text'[m])
  <2>1. msg'[m].buf = b /\ msg'[m].data = <<>> /\ First(msg'[m]) = b
    BY <1>1, <1>2 DEF First
  <2>2. Carries(heap', msg'[m], Rest(heap'[b]))
    BY <1>1, <1>4, <2>1, CarriesAlone
  <2>3. Len(Rest(bytes)) = Len(bytes) - HeaderSize /\ Len(bytes) \in Nat
    BY HeadingRest DEF IsSequence
  <2>4. HeaderSize + Len(Rest(bytes)) = Len(bytes)
    BY <2>3, Offsets
  <2> QED
    BY <1>4, <2>1, <2>2, <2>4
<1> QED
  BY <1>6, <1>7, <1>8, <1>9, OneAfter

LEMMA ConcatContents ==
  ASSUME Ownership, Contents, NEW m \in Msgs, Concat(m)
  PROVE  Contents'
<1> DEFINE bytes == Bytes(msg[m])
           b1 == heap[First(msg[m])]
<1>1. PICK b \in Free :
         /\ heap' = With(Without(Frees(msg[m])), b, bytes)
         /\ msg' = [msg EXCEPT ![m] = [buf |-> b, data |-> <<>>, freeIt |-> TRUE]]
  BY DEF Concat
<1>2. ~empty(msg[m]) /\ UNCHANGED <<host, caller, text>> /\ DOMAIN text' = Msgs
  BY DEF Concat, Contents
<1>3. bytes = Heading(b1) \o text[m]
  BY <1>2, BytesSent
<1>4. /\ IsSequence(b1) /\ Len(b1) >= HeaderSize /\ IsSequence(text[m])
      /\ lengthIn(host, b1) = HeaderSize + Len(text[m])
  BY <1>2, WholeMessage
<1> HIDE DEF bytes, b1
<1> DEFINE u == Heading(b1) \o text[m]
<1>5. /\ IsSequence(u) /\ Len(u) = HeaderSize + Len(text[m])
      /\ lengthIn(host, u) = lengthIn(host, b1) /\ Rest(u) = text[m]
  BY <1>4, LengthBefore
<1>6. bytes = u
  BY <1>3
<1> HIDE DEF u
<1>7. /\ IsSequence(bytes) /\ Len(bytes) = HeaderSize + Len(text[m])
      /\ lengthIn(host, bytes) = Len(bytes) /\ Rest(bytes) = text[m]
  BY <1>4, <1>5, <1>6
<1>8. Len(bytes) >= HeaderSize
  <2>1. Len(text[m]) \in Nat
    BY <1>4 DEF IsSequence
  <2> QED
    BY <1>7, <2>1, Offsets
<1>9. text'[m] = Rest(bytes) /\ \A r \in Msgs : r # m => text'[r] = text[r]
  BY <1>2, <1>7
<1> QED
  BY <1>1, <1>2, <1>7, <1>8, <1>9, ReplacedContents

LEMMA AssignContents ==
  ASSUME Ownership, Contents, NEW m \in Msgs, NEW r \in Msgs, m # r, Assign(m, r)
  PROVE  Contents'
<1>1. /\ msg' = [msg EXCEPT ![m] = [buf |-> msg[r].buf, data |-> msg[r].data, freeIt |-> TRUE],
                            ![r] = NoMessage]
      /\ text' = [text EXCEPT ![m] = text[r], ![r] = <<>>]
      /\ msg[r].freeIt /\ host' = host /\ heap' = heap /\ caller' = caller
  BY DEF Assign
<1>2. DOMAIN msg = Msgs /\ DOMAIN text = Msgs /\ IsMessage(msg[r])
  BY DEF Ownership, Contents
<1>3. msg'[m] = msg[r] /\ msg'[r] = NoMessage /\ text'[m] = text[r] /\ DOMAIN text' = Msgs
  BY <1>1, <1>2 DEF IsMessage
<1>4. \A s \in Msgs \ {m, r} : msg'[s] = msg[s] /\ text'[s] = text[s]
  BY <1>1, <1>2
<1>5. empty(msg'[r]) /\ buffers(msg'[r]) = {}
  <2>1. empty(NoMessage)
    BY DEF empty, NoMessage
  <2> QED
    BY <1>3, <2>1, NothingToFree
<1> DEFINE C == {m, r}
<1>6. /\ C \subseteq Msgs
      /\ \A s \in Msgs \ C : /\ msg'[s] = msg[s] /\ text'[s] = text[s]
                             /\ \A b \in buffers(msg[s]) : heap'[b] = heap[b]
  BY <1>1, <1>4
<1>7. \A s \in C, q \in Msgs : s # q => buffers(msg'[s]) \cap buffers(msg'[q]) = {}
  BY <1>3, <1>4, <1>5 DEF Contents, Apart
<1>8. \A s \in C : ~empty(msg'[s]) =>
         /\ Carries(heap', msg'[s], text'[s])
         /\ lengthIn(host, heap'[First(msg'[s])]) = HeaderSize + Len(text'[s])
  BY <1>1, <1>3, <1>5 DEF Contents
<1>9. (\A b \in DOMAIN heap' : IsSequence(heap'[b])) /\ \A b \in caller' : Len(heap'[b]) < LengthLimit
  BY <1>1 DEF Contents
<1> HIDE DEF C
<1> QED
  BY <1>1, <1>3, <1>6, <1>7, <1>8, <1>9, ContentsAfter

\* A message without buffers takes one nobody looks at, with a new length in its header.
LEMMA AppendFirstContents ==
  ASSUME SizesFit, Ownership, Contents, NEW m \in Msgs, empty(msg[m]), host' = host,
         NEW b \in caller, \A r \in Msgs : b \notin buffers(msg[r]), Headed(b),
         heap' = With(heap, b, setInt(heap[b], messageLength, Len(heap[b]))),
         msg'[m] = [buf |-> b, data |-> <<>>, freeIt |-> TRUE], text'[m] = Rest(heap[b]),
         \A r \in Msgs : r # m => msg'[r] = msg[r] /\ text'[r] = text[r],
         DOMAIN text' = Msgs, caller' = caller \ {b}
  PROVE  Contents'
<1> DEFINE n == Len(heap[b])
           x == setInt(heap[b], messageLength, n)
<1>1. b # NULL /\ b \in DOMAIN heap /\ IsSequence(heap[b]) /\ n < LengthLimit
  BY MessageAssumption DEF Ownership, Contents
<1>2. n \in Nat /\ n >= HeaderSize /\ n \in 0..(LengthLimit - 1)
  <2>1. n \in Nat /\ n > HeaderSize /\ HeaderSize = 16
    BY <1>1, Offsets DEF IsSequence, Headed
  <2>2. LengthLimit \in Nat
    BY LimitInt DEF SizesFit
  <2> QED
    BY <1>1, <2>1, <2>2
<1>3. IsSequence(x) /\ Len(x) = n /\ Rest(x) = Rest(heap[b]) /\ lengthIn(host, x) = n
  <2>1. x = Overwrite(heap[b], messageLength, writeLE(host, n, INT))
    BY DEF setInt
  <2>2. host \in Builds
    BY HostBuilds
  <2> HIDE DEF x
  <2> QED
    BY <1>1, <1>2, <2>1, <2>2, FieldSet
<1>4. /\ DOMAIN heap' = DOMAIN heap /\ heap'[b] = x
      /\ \A z \in DOMAIN heap : z # b => heap'[z] = heap[z]
  <2> HIDE DEF x
  <2>1. heap' = With(heap, b, x)
    BY DEF x
  <2> QED
    BY <1>1, <2>1 DEF With
<1> HIDE DEF x
<1>5. First(msg'[m]) = b /\ msg'[m].buf = b /\ msg'[m].data = <<>> /\ buffers(msg'[m]) = {b}
  <2>1. msg'[m].buf = b /\ msg'[m].data = <<>>
    OBVIOUS
  <2>2. First(msg'[m]) = b
    BY <1>1, <2>1 DEF First
  <2>3. \A v : v = [buf |-> b, data |-> <<>>, freeIt |-> TRUE] => buffers(v) = {b}
    BY <1>1, OneBuffer
  <2> QED
    BY <2>1, <2>2, <2>3
<1>6. Carries(heap', msg'[m], text'[m])
  <2>1. Carries(heap', msg'[m], Rest(heap'[b]))
    BY <1>1, <1>2, <1>3, <1>4, <1>5, CarriesAlone
  <2> QED
    BY <1>3, <1>4, <2>1
<1>7. lengthIn(host, heap'[First(msg'[m])]) = HeaderSize + Len(text'[m])
  <2>1. Len(Rest(heap[b])) = n - HeaderSize
    BY <1>1, <1>2, HeadingRest
  <2>2. HeaderSize + (n - HeaderSize) = n
    BY <1>2, Offsets
  <2> QED
    BY <1>3, <1>4, <1>5, <2>1, <2>2
<1>8. \A r \in Msgs : r # m =>
         /\ msg'[r] = msg[r] /\ text'[r] = text[r]
         /\ \A z \in buffers(msg[r]) : heap'[z] = heap[z]
         /\ buffers(msg'[m]) \cap buffers(msg[r]) = {}
  <2>1. \A r \in Msgs : buffers(msg[r]) \subseteq DOMAIN heap
    BY DEF Ownership, Allocated
  <2> QED
    BY <1>4, <1>5, <2>1
<1>9. /\ DOMAIN text' = Msgs /\ \A z \in DOMAIN heap' : IsSequence(heap'[z])
      /\ \A z \in caller' : Len(heap'[z]) < LengthLimit
  BY <1>3, <1>4 DEF Contents, Ownership
<1> QED
  BY <1>6, <1>7, <1>8, <1>9, OneAfter

\* The buffers of a message, as the vector that appendData() makes of them.
Vector(m) == IF m.buf # NULL THEN Append(m.data, <<m.buf, getMessageLength(heap[m.buf])>>) ELSE m.data

LEMMA VectorIs ==
  ASSUME Ownership, Contents, NEW m \in Msgs, ~empty(msg[m]),
         NEW h, Carries(h, msg[m], text[m]), \A b \in buffers(msg[m]) : IsSequence(h[b]),
         Len(h[First(msg[m])]) = Len(heap[First(msg[m])]),
         NEW w, w = [buf |-> NULL, data |-> Vector(msg[m]), freeIt |-> TRUE]
  PROVE  /\ IsMessage(w) /\ ~empty(w) /\ buffers(w) = buffers(msg[m])
         /\ First(w) = First(msg[m]) /\ Carries(h, w, text[m])
<1> DEFINE old == msg[m]
<1>1. IsMessage(old) /\ w.buf = NULL /\ w.data = Vector(old) /\ w.freeIt
  BY DEF Ownership
<1>2. CASE old.buf # NULL
  <2> DEFINE b == old.buf
             e == <<b, Len(h[b])>>
             d == Append(<<>>, e)
  <2>1. First(old) = b /\ old.data = <<>> /\ b \in buffers(old)
    BY <1>1, <1>2 DEF First, IsMessage, buffers
  <2>2. getMessageLength(heap[b]) = Len(heap[b])
    BY <1>2, AloneLength
  <2>3. Len(h[b]) = Len(heap[b])
    BY <2>1
  <2>4. w.data = d
    BY <1>1, <1>2, <2>1, <2>2, <2>3 DEF Vector
  <2>5. IsSequence(<<>>) /\ DOMAIN <<>> = {} /\ Firsts(<<>>) = {} /\ Len(<<>>) = 0
    BY DEF IsSequence, Firsts
  <2>6. e[1] = b /\ d[1] = e
    OBVIOUS
  <2>7. IsSequence(d) /\ d # <<>> /\ Firsts(d) = {b}
    <3> DEFINE z == <<>>
    <3>1. IsSequence(z) /\ Firsts(z) = {} /\ d = Append(z, e)
      BY <2>5
    <3> HIDE DEF e, z, d
    <3>2. IsSequence(Append(z, e)) /\ Append(z, e) # <<>> /\ Firsts(Append(z, e)) = Firsts(z) \cup {e[1]}
      BY <3>1, AppendBuffer
    <3> QED
      BY <2>6, <3>1, <3>2
  <2>8. Carries(h, w, text[m])
    <3>1. IsSequence(h[b])
      BY <2>1
    <3> QED
      BY <1>1, <1>2, <2>4, <3>1, CarriesListed
  <2> HIDE DEF d, e
  <2>9. buffers(old) = {b}
    <3>1. {old.data[i][1] : i \in DOMAIN old.data} = {}
      BY <2>1, <2>5
    <3> QED
      BY <1>2, <3>1 DEF buffers
  <2>10. buffers(w) = {b} /\ First(w) = b /\ ~empty(w)
    <3>1. buffers(w) = {w.data[i][1] : i \in DOMAIN w.data} /\ First(w) = w.data[1][1]
      BY <1>1 DEF buffers, First
    <3>2. {d[i][1] : i \in DOMAIN d} = {b}
      BY <2>7 DEF Firsts
    <3>3. ~empty(w)
      BY <1>1, <2>4, <2>7 DEF empty
    <3>4. w.data[1][1] = b
      BY <2>4, <2>6
    <3>5. buffers(w) = {b}
      BY <2>4, <3>1, <3>2
    <3> QED
      BY <3>1, <3>3, <3>4, <3>5
  <2>11. IsMessage(w)
    BY <1>1, <2>4, <2>7 DEF IsMessage
  <2> QED
    BY <2>1, <2>8, <2>9, <2>10, <2>11
<1>3. CASE old.buf = NULL
  <2>1. w.data = old.data /\ w.buf = old.buf
    BY <1>1, <1>3 DEF Vector
  <2>2. IsMessage(w)
    BY <1>1, <2>1 DEF IsMessage
  <2>3. ~empty(w) /\ buffers(w) = buffers(old) /\ First(w) = First(old)
    BY <2>1 DEF empty, buffers, First
  <2>4. Held(h, w) = Held(h, old)
    BY <2>1 DEF Held
  <2>5. Carries(h, w, text[m])
    BY <2>1, <2>3, <2>4 DEF Carries
  <2> QED
    BY <2>2, <2>3, <2>5
<1> QED
  BY <1>2, <1>3

\* A message that frees its buffers takes one more, and its first header counts it.
LEMMA AppendMoreContents ==
  ASSUME SizesFit, Ownership, Contents, NEW m \in Msgs, ~empty(msg[m]), host' = host,
         NEW b \in caller, \A r \in Msgs : b \notin buffers(msg[r]),
         Len(text[m]) + Len(heap[b]) <= MaxText,
         heap' = With(heap, First(msg[m]), setInt(heap[First(msg[m])], messageLength,
                                 getMessageLength(heap[First(msg[m])]) + Len(heap[b]))),
         msg'[m] = [buf |-> NULL, data |-> Append(Vector(msg[m]), <<b, Len(heap[b])>>), freeIt |-> TRUE],
         caller' = caller \ {b}, text'[m] = text[m] \o SubSeq(heap[b], 1, Len(heap[b])),
         \A r \in Msgs : r # m => msg'[r] = msg[r] /\ text'[r] = text[r],
         DOMAIN text' = Msgs
  PROVE  Contents'
<1> DEFINE old == msg[m]
           f == First(msg[m])
           n == Len(heap[b])
           c == setInt(heap[f], messageLength, getMessageLength(heap[f]) + n)
           len == lengthIn(host, heap[f]) + n
           w == [buf |-> NULL, data |-> Vector(msg[m]), freeIt |-> TRUE]
           v == [buf |-> NULL, data |-> Append(w.data, <<b, n>>), freeIt |-> TRUE]
<1>0. /\ f = First(msg[m]) /\ n = Len(heap[b]) /\ Len(text[m]) + n <= MaxText
      /\ c = setInt(heap[f], messageLength, getMessageLength(heap[f]) + n)
      /\ heap' = With(heap, f, c)
      /\ w = [buf |-> NULL, data |-> Vector(msg[m]), freeIt |-> TRUE]
      /\ v = [buf |-> NULL, data |-> Append(w.data, <<b, n>>), freeIt |-> TRUE]
      /\ msg'[m] = v
      /\ text'[m] = text[m] \o SubSeq(heap[b], 1, n)
  OBVIOUS
<1> HIDE DEF f, n, c, w, v
<1> USE <1>0
<1>1. b \in DOMAIN heap /\ IsSequence(heap[b]) /\ n \in Nat
  BY DEF Ownership, Contents, IsSequence
<1>2. /\ IsMessage(old) /\ f \in buffers(old) /\ f \in DOMAIN heap /\ f # b
      /\ \A z \in buffers(old) : z \in DOMAIN heap /\ IsSequence(heap[z])
      /\ Carries(heap, old, text[m]) /\ lengthIn(host, heap[f]) = HeaderSize + Len(text[m])
      /\ IsSequence(heap[f]) /\ Len(heap[f]) >= HeaderSize /\ IsSequence(text[m])
  BY WholeMessage
<1>3. len = (HeaderSize + Len(text[m])) + n /\ len \in 0..(LengthLimit - 1)
  <2>1. Len(text[m]) \in Nat /\ MaxText \in Nat /\ HeaderSize = 16
    BY <1>2, MessageAssumption, Offsets DEF IsSequence
  <2>2. LengthLimit \in Nat /\ HeaderSize + MaxText < LengthLimit
    BY LimitInt DEF SizesFit
  <2>3. len = (HeaderSize + Len(text[m])) + n
    BY <1>2
  <2> HIDE DEF len
  <2> QED
    BY <1>1, <2>1, <2>2, <2>3
<1>4. /\ IsSequence(c) /\ Len(c) = Len(heap[f]) /\ Rest(c) = Rest(heap[f])
      /\ lengthIn(host, c) = (HeaderSize + Len(text[m])) + n
  <2>1. c = Overwrite(heap[f], messageLength, writeLE(host, len, INT))
    BY DEF setInt, getMessageLength, getInt, lengthIn
  <2>2. host \in Builds
    BY HostBuilds
  <2> HIDE DEF len
  <2> QED
    BY <1>2, <1>3, <2>1, <2>2, FieldSet
<1>5. /\ DOMAIN heap' = DOMAIN heap /\ heap'[f] = c
      /\ \A z \in DOMAIN heap : z # f => heap'[z] = heap[z]
  BY <1>2 DEF With
<1>6. Carries(heap', old, text[m])
  <2>1. f = First(old)
    BY <1>0
  <2>2. /\ \A z \in buffers(old) : z # First(old) => heap'[z] = heap[z]
        /\ IsSequence(heap'[First(old)]) /\ Len(heap'[First(old)]) = Len(heap[First(old)])
        /\ Rest(heap'[First(old)]) = Rest(heap[First(old)])
    BY <1>2, <1>4, <1>5, <2>1
  <2> HIDE <1>0
  <2> QED
    BY <1>2, <2>2, CarriesReheaded
<1>7. \A z \in DOMAIN heap : IsSequence(heap'[z]) /\ Len(heap'[z]) = Len(heap[z])
  BY <1>4, <1>5 DEF Contents
<1>8. /\ IsMessage(w) /\ ~empty(w) /\ buffers(w) = buffers(old) /\ First(w) = f
      /\ Carries(heap', w, text[m])
  BY <1>2, <1>6, <1>7, VectorIs
<1>9. w.buf = NULL /\ v.buf = NULL /\ v.data = Append(w.data, <<b, n>>) /\ IsSequence(w.data)
  BY <1>8 DEF IsMessage
<1>10. heap'[b] = heap[b] /\ n = Len(heap'[b]) /\ IsSequence(heap'[b]) /\ b \notin buffers(w)
  BY <1>1, <1>2, <1>5, <1>8
<1>11. Carries(heap', v, text[m] \o heap'[b])
  <2>1. \A x \in buffers(w) : IsSequence(heap'[x])
    BY <1>2, <1>7, <1>8
  <2>2. v.data = Append(w.data, <<b, Len(heap'[b])>>)
    BY <1>9, <1>10
  <2> QED
    BY <1>8, <1>9, <1>10, <2>1, <2>2, CarriesMore
<1>12. buffers(v) = buffers(old) \cup {b} /\ First(v) = f
  <2> DEFINE e == <<b, n>>
             d == w.data
             a == Append(d, e)
  <2>1. e[1] = b /\ v.data = a
    BY <1>9
  <2>2. IsSequence(d) /\ d # <<>>
    BY <1>8, <1>9 DEF empty
  <2>3. buffers(v) = Firsts(v.data) /\ buffers(w) = Firsts(d) /\ First(v) = v.data[1][1] /\ First(w) = d[1][1]
    <3> HIDE <1>0
    <3>1. \A z : z.buf = NULL => buffers(z) = Firsts(z.data) /\ First(z) = z.data[1][1]
      BY DEF buffers, Firsts, First
    <3> QED
      BY <1>9, <3>1
  <2> HIDE DEF e, d
  <2>4. Firsts(a) = Firsts(d) \cup {e[1]} /\ \A i \in 1..Len(d) : a[i] = d[i]
    BY <2>2, AppendBuffer, AppendOne
  <2>5. 1 \in 1..Len(d)
    BY <2>2, NonEmptySequence DEF IsSequence
  <2>6. a[1] = d[1]
    BY <2>4, <2>5
  <2> HIDE DEF a
  <2>7. First(v) = f
    BY <1>8, <2>1, <2>3, <2>6
  <2> QED
    BY <1>8, <2>1, <2>3, <2>4, <2>7
<1>13. text'[m] = text[m] \o heap[b] /\ Len(text'[m]) = Len(text[m]) + n
  <2> DEFINE g == heap[b]
             S == {g[i] : i \in 1..Len(g)}
  <2>1. g \in Seq(S)
    BY <1>1, SequenceOf
  <2> HIDE DEF S
  <2>2. SubSeq(g, 1, Len(g)) = g
    BY <2>1, SubSeqFull
  <2>3. Len(text[m] \o g) = Len(text[m]) + Len(g)
    BY <1>1, <1>2, Concatenation
  <2> QED
    BY <2>2, <2>3
<1>14. ASSUME NEW r \in Msgs, r # m
       PROVE  /\ msg'[r] = msg[r] /\ text'[r] = text[r]
              /\ \A z \in buffers(msg[r]) : heap'[z] = heap[z]
              /\ buffers(msg'[m]) \cap buffers(msg[r]) = {}
  <2>1. buffers(msg[r]) \subseteq DOMAIN heap /\ buffers(old) \cap buffers(msg[r]) = {}
    BY <1>14 DEF Ownership, Allocated, Contents, Apart
  <2> QED
    BY <1>2, <1>5, <1>12, <1>14, <2>1
<1>15. lengthIn(host, heap'[First(msg'[m])]) = HeaderSize + Len(text'[m])
  <2>1. Len(text[m]) \in Nat /\ HeaderSize = 16
    BY <1>2, Offsets DEF IsSequence
  <2>2. (HeaderSize + Len(text[m])) + n = HeaderSize + (Len(text[m]) + n)
    BY <1>1, <2>1
  <2> QED
    BY <1>4, <1>5, <1>12, <1>13, <2>2
<1>16. Carries(heap', msg'[m], text'[m])
  BY <1>10, <1>11, <1>13
<1>17. (\A z \in DOMAIN heap' : IsSequence(heap'[z])) /\ \A z \in caller' : Len(heap'[z]) < LengthLimit
  BY <1>5, <1>7 DEF Contents, Ownership
<1> QED
  BY <1>14, <1>15, <1>16, <1>17, OneAfter

LEMMA AppendDataContents ==
  ASSUME SizesFit, Ownership, Contents, NEW m \in Msgs, NEW b, NEW n, AppendData(m, b, n)
  PROVE  Contents'
<1> DEFINE old == msg[m]
           vec == Vector(old)
           f == First(old)
           c == setInt(heap[f], messageLength, getMessageLength(heap[f]) + n)
<1>1. b \in caller /\ (\A r \in Msgs : b \notin buffers(msg[r])) /\ n \in {0, Len(heap[b])} /\ host' = host
  BY DEF AppendData, Unlent
<1>2. DOMAIN msg = Msgs /\ DOMAIN text = Msgs /\ IsMessage(old)
  BY DEF Ownership, Contents
<1>3. old = [buf |-> old.buf, data |-> old.data, freeIt |-> old.freeIt]
  BY <1>2 DEF IsMessage
<1>4. CASE UNCHANGED <<heap, caller, msg, text>>
  <2>1. UNCHANGED <<host, heap, caller, msg, text>>
    BY <1>1, <1>4
  <2> QED
    BY <2>1, SameContents
<1>5. ASSUME n > 0, empty(old), Headed(b),
             heap' = With(heap, b, setInt(heap[b], messageLength, n)),
             msg' = [msg EXCEPT ![m].buf = b, ![m].freeIt = TRUE], caller' = caller \ {b},
             text' = [text EXCEPT ![m] = SubSeq(heap[b], HeaderSize + 1, n)]
      PROVE  Contents'
  <2>1. n = Len(heap[b])
    BY <1>1, <1>5
  <2>2. text' = [text EXCEPT ![m] = Rest(heap[b])]
    BY <1>5, <2>1 DEF Rest
  <2>3. old.data = <<>>
    BY <1>2, <1>5, EmptyMessage
  <2>4. msg'[m] = [buf |-> b, data |-> <<>>, freeIt |-> TRUE]
    BY <1>2, <1>3, <1>5, <2>3
  <2>5. text'[m] = Rest(heap[b]) /\ DOMAIN text' = Msgs
    BY <1>2, <2>2
  <2>6. \A r \in Msgs : r # m => msg'[r] = msg[r] /\ text'[r] = text[r]
    BY <1>2, <1>5, <2>2
  <2> QED
    BY <1>1, <1>5, <2>1, <2>4, <2>5, <2>6, AppendFirstContents
<1>6. ASSUME n > 0, ~empty(old), old.freeIt, Len(text[m]) + n <= MaxText,
             msg' = [msg EXCEPT ![m].buf = NULL, ![m].data = Append(vec, <<b, n>>)],
             heap' = With(heap, f, c), caller' = caller \ {b},
             text' = [text EXCEPT ![m] = text[m] \o SubSeq(heap[b], 1, n)]
      PROVE  Contents'
  <2>1. n = Len(heap[b])
    BY <1>1, <1>6
  <2>2. old.freeIt = TRUE
    BY <1>2, <1>6 DEF IsMessage
  <2>3. DOMAIN text' = Msgs /\ \A r \in Msgs : r # m => msg'[r] = msg[r] /\ text'[r] = text[r]
    BY <1>2, <1>6
  <2>4. heap' = With(heap, f, setInt(heap[f], messageLength, getMessageLength(heap[f]) + Len(heap[b])))
    BY <1>6, <2>1
  <2> HIDE DEF f, vec
  <2>5. msg'[m] = [buf |-> NULL, data |-> Append(vec, <<b, Len(heap[b])>>), freeIt |-> TRUE]
    BY <1>2, <1>3, <1>6, <2>1, <2>2
  <2>6. text'[m] = text[m] \o SubSeq(heap[b], 1, Len(heap[b]))
    BY <1>2, <1>6, <2>1
  <2>7. ~empty(old) /\ Len(text[m]) + Len(heap[b]) <= MaxText /\ caller' = caller \ {b}
    BY <1>6, <2>1
  <2> QED
    BY <1>1, <2>3, <2>4, <2>5, <2>6, <2>7, AppendMoreContents DEF f, vec
<1>7. \/ UNCHANGED <<heap, caller, msg, text>>
      \/ /\ n > 0 /\ empty(old) /\ Headed(b)
         /\ heap' = With(heap, b, setInt(heap[b], messageLength, n))
         /\ msg' = [msg EXCEPT ![m].buf = b, ![m].freeIt = TRUE]
         /\ caller' = caller \ {b}
         /\ text' = [text EXCEPT ![m] = SubSeq(heap[b], HeaderSize + 1, n)]
      \/ /\ n > 0 /\ ~empty(old) /\ old.freeIt /\ Len(text[m]) + n <= MaxText
         /\ msg' = [msg EXCEPT ![m].buf = NULL, ![m].data = Append(vec, <<b, n>>)]
         /\ heap' = With(heap, f, c)
         /\ caller' = caller \ {b}
         /\ text' = [text EXCEPT ![m] = text[m] \o SubSeq(heap[b], 1, n)]
  BY DEF AppendData, Vector
<1> QED
  BY <1>4, <1>5, <1>6, <1>7

LEMMA DocIs == \A h, tag : IsSequence(Doc(h, tag)) /\ Len(Doc(h, tag)) = 6
<1> SUFFICES ASSUME NEW h, NEW tag PROVE IsSequence(Doc(h, tag)) /\ Len(Doc(h, tag)) = 6
  OBVIOUS
<1> DEFINE x == writeLE(h, INT.w + 2, INT)
           y == <<tag, 0>>
<1>1. IsSequence(x) /\ Len(x) = 4
  BY FieldBytes DEF IsField
<1>2. IsSequence(y) /\ Len(y) = 2
  <2>1. Len(y) = 2 /\ y = [i \in 1..2 |-> y[i]]
    OBVIOUS
  <2> HIDE DEF y
  <2> QED
    BY <2>1 DEF IsSequence
<1>3. Doc(h, tag) = x \o y
  BY DEF Doc
<1> HIDE DEF x, y
<1>4. IsSequence(x \o y) /\ Len(x \o y) = Len(x) + Len(y)
  BY <1>1, <1>2, Concatenation
<1> QED
  BY <1>1, <1>2, <1>3, <1>4

\* An answer is 36 bytes and the documents.
AnswerOf(reply, docs) == \E h : IsSequence(h) /\ Len(h) = 36 /\ reply = h \o FlattenSeq(docs)

\* The header of an answer counts its documents.
LEMMA ReplyIs ==
  ASSUME SizesFit, Ownership, NEW k \in 0..MaxDocs, NEW tags, tags = [i \in 1..k |-> tags[i]],
         NEW cursorId, NEW id
  PROVE  /\ IsSequence(Reply(tags, cursorId, id)) /\ Len(Reply(tags, cursorId, id)) >= HeaderSize
         /\ lengthIn(host, Reply(tags, cursorId, id)) = Len(Reply(tags, cursorId, id))
         /\ AnswerOf(Reply(tags, cursorId, id), [i \in DOMAIN tags |-> Doc(host, tags[i])])
<1> DEFINE docs == [i \in DOMAIN tags |-> Doc(host, tags[i])]
           b1 == writeLE(host, 0, INT)
           b2 == writeLE(host, cursorId, LL)
           b4 == writeLE(host, Len(tags), INT)
           x1 == b1 \o b2
           x2 == x1 \o b1
           x3 == x2 \o b4
           flat == FlattenSeq(docs)
           body == x3 \o flat
           length == writeLE(host, HeaderSize + Len(body), INT)
           i4 == writeLE(host, id, INT)
           o4 == writeLE(host, opReply, INT)
           header == length \o i4 \o i4 \o o4
           reply == Reply(tags, cursorId, id)
<1>1. k \in Nat /\ MaxDocs \in Nat /\ k <= MaxDocs
  BY MessageAssumption
<1>2. DOMAIN tags = 1..k /\ docs = [i \in 1..k |-> Doc(host, tags[i])]
  <2>1. DOMAIN tags = 1..k
    OBVIOUS
  <2> QED
    BY <2>1
<1>3. reply = header \o body
  BY DEF Reply
<1> HIDE DEF reply
<1>4. IsSequence(flat) /\ Len(flat) = 6 * k
  <2>1. docs = [i \in 1..k |-> docs[i]] /\ \A i \in 1..k : IsSequence(docs[i]) /\ Len(docs[i]) = 6
    BY <1>2, DocIs
  <2> HIDE DEF docs
  <2>2. IsSequence(docs) /\ Len(docs) = k
    BY <1>1, <2>1, SequenceFrom
  <2>3. Pieces(docs) /\ \A i \in 1..Len(docs) : Len(docs[i]) = 6
    BY <2>1, <2>2 DEF Pieces
  <2>4. IsSequence(flat) /\ Len(flat) = 6 * Len(docs)
    BY <2>3, FlattenLength
  <2> QED
    BY <2>2, <2>4
<1> HIDE DEF flat
<1>5. IsSequence(b1) /\ Len(b1) = 4 /\ IsSequence(b4) /\ Len(b4) = 4
  BY FieldBytes DEF IsField
<1>6. IsSequence(b2) /\ Len(b2) = 8
  <2>1. LL.w = 8 /\ LL.w \in Nat
    BY Offsets
  <2> QED
    BY <2>1, BytesWritten
<1> HIDE DEF b1, b2, b4
<1>7. IsSequence(x1) /\ Len(x1) = 12
  <2>1. IsSequence(x1) /\ Len(x1) = Len(b1) + Len(b2)
    BY <1>5, <1>6, Concatenation
  <2> HIDE DEF x1
  <2> QED
    BY <1>5, <1>6, <2>1
<1> HIDE DEF x1
<1>8. IsSequence(x2) /\ Len(x2) = 16
  <2>1. IsSequence(x2) /\ Len(x2) = Len(x1) + Len(b1)
    BY <1>5, <1>7, Concatenation
  <2> HIDE DEF x2
  <2> QED
    BY <1>5, <1>7, <2>1
<1> HIDE DEF x2
<1>9. IsSequence(x3) /\ Len(x3) = 20
  <2>1. IsSequence(x3) /\ Len(x3) = Len(x2) + Len(b4)
    BY <1>5, <1>8, Concatenation
  <2> HIDE DEF x3
  <2> QED
    BY <1>5, <1>8, <2>1
<1> HIDE DEF x3
<1>10. IsSequence(body) /\ Len(body) = 20 + 6 * k
  <2>1. IsSequence(body) /\ Len(body) = Len(x3) + Len(flat)
    BY <1>4, <1>9, Concatenation
  <2> HIDE DEF body
  <2> QED
    BY <1>4, <1>9, <2>1
<1> HIDE DEF body
<1>11. IsSequence(length) /\ Len(length) = 4
  BY FieldBytes DEF IsField
<1>12. IsSequence(header) /\ Len(header) = HeaderSize /\ \A i \in 1..4 : header[i] = length[i]
  <2>1. IsField(length) /\ IsField(i4) /\ IsField(o4)
    BY FieldBytes DEF IsField
  <2> HIDE DEF length, i4, o4
  <2>2. IsHeader(length \o i4 \o i4 \o o4, length)
    BY <2>1, FourFields
  <2> HIDE DEF header
  <2>3. IsHeader(header, length)
    BY <2>2 DEF header
  <2> QED
    BY <2>3 DEF IsHeader
<1> HIDE DEF header
<1>13. HeaderSize + Len(body) \in 0..(LengthLimit - 1)
  <2>1. LengthLimit \in Nat
    BY LimitInt DEF SizesFit
  <2>2. INT.w + 2 = 6 /\ ReplyHeader = 36 /\ HeaderSize = 16
    BY Offsets
  <2>3. 36 + 6 * MaxDocs < LengthLimit
    BY <2>2 DEF SizesFit
  <2>4. 6 * k <= 6 * MaxDocs /\ 6 * k \in Nat
    BY <1>1
  <2>5. HeaderSize + Len(body) = 36 + 6 * k
    BY <1>10, <2>2, <2>4
  <2>6. 36 + 6 * k \in 0..(LengthLimit - 1)
    BY <1>1, <2>1, <2>3, <2>4
  <2> QED
    BY <2>5, <2>6, Zenon
<1>14. /\ IsSequence(reply) /\ Len(reply) = HeaderSize + Len(body)
       /\ \A i \in 1..HeaderSize : reply[i] = header[i]
  BY <1>3, <1>10, <1>12, Concatenation
<1>15. HeaderSize = 16 /\ Len(body) \in Nat
  BY <1>10, Offsets DEF IsSequence
<1>16. SubSeq(reply, 1, 4) = length
  <2>1. \A i \in 1..4 : reply[i] = length[i]
    <3>1. \A i \in 1..4 : i \in 1..HeaderSize
      BY <1>15
    <3>2. \A i \in 1..4 : reply[i] = header[i]
      BY <1>14, <3>1, Zenon
    <3> QED
      BY <1>12, <3>2, Zenon
  <2>2. Len(reply) >= 4
    BY <1>14, <1>15
  <2> HIDE DEF length
  <2>3. SubSeq(reply, 1, 4) = SubSeq(length, 1, 4)
    BY <1>11, <1>14, <2>1, <2>2, SamePart
  <2> DEFINE S == {length[i] : i \in 1..Len(length)}
  <2>4. length \in Seq(S)
    BY <1>11, SequenceOf
  <2> HIDE DEF S
  <2>5. SubSeq(length, 1, Len(length)) = length
    BY <2>4, SubSeqFull
  <2> QED
    BY <1>11, <2>3, <2>5
<1>17. lengthIn(host, reply) = HeaderSize + Len(body)
  <2> DEFINE v == HeaderSize + Len(body)
  <2>1. v \in 0..(LengthLimit - 1) /\ SubSeq(reply, 0 + 1, 0 + 4) = writeLE(host, v, INT)
    BY <1>13, <1>16
  <2>2. host \in Builds
    BY HostBuilds
  <2> HIDE DEF v
  <2>3. readLE(host, reply, 0, INT) = v
    BY <2>1, <2>2, ReadWritten
  <2> QED
    BY <2>3, Offsets DEF lengthIn, v
<1>18. AnswerOf(reply, docs)
  <2> DEFINE h == header \o x3
  <2>1. IsSequence(header) /\ IsSequence(x3)
    BY <1>9, <1>12
  <2>2. IsSequence(h) /\ Len(h) = Len(header) + Len(x3)
    BY <2>1, Concatenation
  <2>3. (header \o x3) \o flat = header \o (x3 \o flat)
    BY <1>4, <2>1, AllAssociate, Zenon
  <2>4. reply = h \o flat
    BY <1>3, <2>3 DEF body
  <2> HIDE DEF h
  <2>5. Len(h) = 36
    BY <1>9, <1>12, <1>15, <2>2
  <2>6. \E g : IsSequence(g) /\ Len(g) = 36 /\ reply = g \o flat
    BY <2>2, <2>4, <2>5, Zenon
  <2> QED
    BY <2>6, Zenon DEF AnswerOf, flat
<1>19. IsSequence(reply) /\ Len(reply) >= HeaderSize /\ lengthIn(host, reply) = Len(reply)
  BY <1>14, <1>15, <1>17
<1> QED
  BY <1>18, <1>19 DEF reply, docs

LEMMA DataReceivedContents ==
  ASSUME SizesFit, Ownership, Contents, NEW k \in 0..MaxDocs, NEW tags, tags = [i \in 1..k |-> tags[i]],
         NEW cursorId, DataReceived(tags, cursorId)
  PROVE  Contents'
<1> DEFINE reply == Reply(tags, cursorId, 1)
<1>1. PICK b \in Free :
         /\ heap' = With(Without(Frees(msg["batch"])), b, reply)
         /\ msg' = [msg EXCEPT !["batch"] = [buf |-> b, data |-> <<>>, freeIt |-> TRUE]]
         /\ text' = [text EXCEPT !["batch"] = Rest(reply)]
  BY DEF DataReceived, Rest
<1>2. UNCHANGED <<host, caller>> /\ "batch" \in Msgs /\ DOMAIN text = Msgs
  BY DEF DataReceived, Msgs, Contents
<1>3. DOMAIN text' = Msgs /\ text'["batch"] = Rest(reply) /\ \A r \in Msgs : r # "batch" => text'[r] = text[r]
  BY <1>1, <1>2
<1>4. IsSequence(reply) /\ Len(reply) >= HeaderSize /\ lengthIn(host, reply) = Len(reply)
  BY ReplyIs
<1> HIDE DEF reply
<1> QED
  BY <1>1, <1>2, <1>3, <1>4, ReplacedContents

LEMMA NextContents ==
  ASSUME SizesFit, Ownership, Contents, [Next]_vars
  PROVE  Contents'
<1>1. 1 \in 0..(LengthLimit - 1) /\ dbQuery \in 0..(LengthLimit - 1)
  <2>1. LengthLimit \in Nat /\ 36 < LengthLimit
    <3>1. LengthLimit \in Nat
      BY LimitInt DEF SizesFit
    <3>2. MaxText \in Nat /\ HeaderSize = 16 /\ ReplyHeader = 36 /\ INT.w + 2 = 6 /\ MaxDocs \in Nat
      BY MessageAssumption, Offsets
    <3>3. 36 + 6 * MaxDocs < LengthLimit
      BY <3>2 DEF SizesFit
    <3> QED
      BY <3>1, <3>2, <3>3
  <2> QED
    BY <2>1 DEF dbQuery
<1>2. ASSUME NEW n \in Tails, NEW first \in BOOLEAN, Build(n, first) PROVE Contents'
  BY <1>2, BuildContents
<1>3. ASSUME NEW b \in caller, NEW freeIt \in BOOLEAN, SetData("toSend", b, freeIt) PROVE Contents'
  <2>1. "toSend" \in Msgs
    BY DEF Msgs
  <2> QED
    BY <1>3, <2>1, SetDataContents
<1>4. ASSUME NEW n \in Tails, SetDataOperation("toSend", dbQuery, n) PROVE Contents'
  <2>1. "toSend" \in Msgs
    BY DEF Msgs
  <2> QED
    BY <1>1, <1>4, <2>1, SetDataOperationContents
<1>5. ASSUME NEW m \in {"toSend", "response"},
             \/ \E b \in caller : \E n \in {0, Len(heap[b])} : AppendData(m, b, n)
             \/ Concat(m) \/ Reset(m) \/ Say(m, 1)
      PROVE  Contents'
  <2>1. m \in Msgs
    BY DEF Msgs
  <2>2. CASE \E b \in caller : \E n \in {0, Len(heap[b])} : AppendData(m, b, n)
    BY <2>1, <2>2, AppendDataContents
  <2>3. CASE Concat(m)
    BY <2>1, <2>3, ConcatContents
  <2>4. CASE Reset(m)
    BY <2>1, <2>4, ResetContents
  <2>5. CASE Say(m, 1)
    BY <1>1, <2>1, <2>5, SayContents
  <2> QED
    BY <1>5, <2>2, <2>3, <2>4, <2>5
<1>6. CASE Assign("response", "toSend")
  <2>1. "toSend" \in Msgs /\ "response" \in Msgs /\ "response" # "toSend"
    BY DEF Msgs
  <2> QED
    BY <1>6, <2>1, AssignContents
<1>7. ASSUME NEW b \in caller, CallerFrees(b) PROVE Contents'
  BY <1>7, CallerFreesContents
<1>8. ASSUME NEW k \in 0..MaxDocs, NEW id \in 0..1,
             DataReceived([i \in 1..k |-> 10 * cursor.batches + i], id)
      PROVE  Contents'
  <2> DEFINE tags == [i \in 1..k |-> 10 * cursor.batches + i]
  <2>1. tags = [i \in 1..k |-> tags[i]]
    OBVIOUS
  <2>2. DataReceived(tags, id)
    BY <1>8
  <2> HIDE DEF tags
  <2> QED
    BY <2>1, <2>2, DataReceivedContents
<1>9. CASE NextObject \/ PutBack \/ Consume
  <2>1. UNCHANGED <<host, heap, caller, msg, text>>
    BY <1>9 DEF NextObject, PutBack, Consume
  <2> QED
    BY <2>1, SameContents
<1>10. CASE UNCHANGED vars
  <2>1. UNCHANGED <<host, heap, caller, msg, text>>
    BY <1>10 DEF vars
  <2> QED
    BY <2>1, SameContents
<1> QED
  BY <1>2, <1>3, <1>4, <1>5, <1>6, <1>7, <1>8, <1>9, <1>10 DEF Next

LEMMA WholeWhenContents == Ownership /\ Contents => MessageWhole
<1> SUFFICES ASSUME Ownership, Contents, NEW m \in Msgs, ~empty(msg[m])
             PROVE  LET bytes == Bytes(msg[m])
                    IN  /\ getMessageLength(bytes) = Len(bytes) /\ size(msg[m]) = Len(bytes)
                        /\ SubSeq(bytes, HeaderSize + 1, Len(bytes)) = text[m]
  BY DEF MessageWhole
<1> DEFINE b == heap[First(msg[m])]
           u == Heading(b) \o text[m]
<1>1. Bytes(msg[m]) = u /\ size(msg[m]) = HeaderSize + Len(text[m])
  BY BytesSent
<1>2. /\ IsSequence(b) /\ Len(b) >= HeaderSize /\ IsSequence(text[m])
      /\ lengthIn(host, b) = HeaderSize + Len(text[m])
  BY WholeMessage
<1> HIDE DEF b
<1>3. Len(u) = HeaderSize + Len(text[m]) /\ lengthIn(host, u) = lengthIn(host, b) /\ Rest(u) = text[m]
  BY <1>2, LengthBefore
<1> HIDE DEF u
<1>4. getMessageLength(u) = lengthIn(host, u) /\ Rest(u) = SubSeq(u, HeaderSize + 1, Len(u))
  BY DEF getMessageLength, getInt, lengthIn, Rest
<1> QED
  BY <1>1, <1>2, <1>3, <1>4

\* Every message is sent with the length in its header and the bytes it was given, in their order.
THEOREM WholeMessages == Spec => []MessageWhole
<1>0. SizesFit
  BY SizesAssumption
<1>1. Init => Ownership /\ Contents
  BY InitOwnership, InitContents
<1>2. Ownership /\ Contents /\ [Next]_vars => (Ownership /\ Contents)'
  BY <1>0, NextOwnership, NextContents
<1> QED
  BY <1>1, <1>2, WholeWhenContents, PTL DEF Spec

-----------------------------------------------------------------------------
(* The invariant behind ObjectsInOrder *)

\* The document tag of the build ho lies at off in the bytes B.
DocIn(B, ho, off, tag) ==
    /\ off \in Nat /\ off + 6 <= Len(B)
    /\ SubSeq(B, off + 1, off + 6) = Doc(ho, tag)

\* The object o shows the document tag: a copy of its own, or its place in the batch, block b
\* with the bytes B.
Shows(o, tag, b, B, ho) ==
    IF o.own THEN o.bytes = Doc(ho, tag) ELSE o.block = b /\ DocIn(B, ho, o.off, tag)

\* The objects v held, the ones p put back, last one first, and the ones left from data on show
\* the documents d.
Delivered(v, p, d, left, data, b, B, ho) ==
    /\ IsSequence(v) /\ IsSequence(p) /\ IsSequence(d)
    /\ left \in Nat /\ data \in Nat /\ Len(v) + Len(p) + left = Len(d)
    /\ Len(d) > 0 => b # NULL
    /\ \A i \in 1..Len(v) : Shows(v[i], d[i], b, B, ho)
    /\ \A i \in 1..Len(p) : Shows(p[i], d[Len(v) + Len(p) + 1 - i], b, B, ho)
    /\ \A j \in 1..left : DocIn(B, ho, data + 6 * (j - 1), d[Len(v) + Len(p) + j])

Deliveries ==
    Delivered(cursor.view, cursor.putBack, cursor.due, cursor.nReturned - cursor.pos, cursor.data,
              msg["batch"].buf, heap[msg["batch"].buf], host)

\* The size read at the beginning of a document is its own.
LEMMA DocSize ==
  ASSUME SizesFit, NEW ho \in Builds, NEW B, IsSequence(B), NEW off, NEW tag, DocIn(B, ho, off, tag)
  PROVE  readLE(ho, B, off, INT) = 6
<1> DEFINE x == writeLE(ho, 6, INT)
           y == <<tag, 0>>
           m == SubSeq(B, off + 1, off + 6)
           p == SubSeq(B, off + 1, off + 4)
<1>1. off \in Nat /\ off + 6 <= Len(B) /\ Len(B) \in Nat /\ m = Doc(ho, tag)
  BY DEF DocIn, IsSequence
<1>2. Doc(ho, tag) = x \o y
  <2>1. INT.w + 2 = 6
    BY Offsets
  <2> QED
    BY <2>1 DEF Doc
<1>3. IsSequence(x) /\ Len(x) = 4
  BY FieldBytes DEF IsField
<1>4. IsSequence(y)
  <2>1. Len(y) = 2 /\ y = [i \in 1..2 |-> y[i]]
    OBVIOUS
  <2> HIDE DEF y
  <2> QED
    BY <2>1 DEF IsSequence
<1>5. \A i \in 1..6 : m[i] = B[(off + 1) + i - 1]
  <2>1. off + 1 \in 1..(Len(B) + 1) /\ off + 6 \in ((off + 1) - 1)..Len(B) /\ (off + 6) - (off + 1) + 1 = 6
    BY <1>1
  <2>2. \A i \in 1..((off + 6) - (off + 1) + 1) : m[i] = B[(off + 1) + i - 1]
    BY <2>1, Part
  <2> QED
    BY <2>1, <2>2, Zenon
<1>6. IsSequence(p) /\ Len(p) = 4 /\ \A i \in 1..4 : p[i] = B[(off + 1) + i - 1]
  <2>1. off + 1 \in 1..(Len(B) + 1) /\ off + 4 \in ((off + 1) - 1)..Len(B) /\ (off + 4) - (off + 1) + 1 = 4
    BY <1>1
  <2>2. /\ IsSequence(p) /\ Len(p) = (off + 4) - (off + 1) + 1
        /\ \A i \in 1..((off + 4) - (off + 1) + 1) : p[i] = B[(off + 1) + i - 1]
    BY <2>1, Part
  <2> HIDE DEF p
  <2> QED
    BY <2>1, <2>2, Zenon
<1> HIDE DEF m, p, x, y
<1>7. \A i \in 1..4 : m[i] = x[i]
  <2>1. \A i \in 1..Len(x) : (x \o y)[i] = x[i]
    BY <1>3, <1>4, Concatenation
  <2>2. 1..Len(x) = 1..4
    BY <1>3
  <2> QED
    BY <1>1, <1>2, <2>1, <2>2, Zenon
<1>8. p = x
  <2>1. \A i \in 1..4 : i \in 1..6
    OBVIOUS
  <2>2. \A i \in 1..4 : p[i] = x[i]
    BY <1>5, <1>6, <1>7, <2>1, Zenon
  <2>3. Len(p) = Len(x) /\ \A i \in 1..Len(p) : p[i] = x[i]
    BY <1>3, <1>6, <2>2
  <2> QED
    BY <1>3, <1>6, <2>3, SameSequence
<1>9. 6 \in 0..(LengthLimit - 1)
  <2>1. LengthLimit \in Nat
    BY LimitInt DEF SizesFit
  <2>2. INT.w + 2 = 6 /\ ReplyHeader = 36 /\ MaxDocs \in Nat
    BY Offsets, MessageAssumption
  <2>3. 36 + 6 * MaxDocs < LengthLimit
    BY <2>2 DEF SizesFit
  <2> QED
    BY <2>1, <2>2, <2>3
<1> DEFINE v == 6
<1>10. v \in 0..(LengthLimit - 1) /\ SubSeq(B, off + 1, off + 4) = writeLE(ho, v, INT)
  BY <1>8, <1>9 DEF SizesFit, p, x
<1> HIDE DEF v
<1>11. readLE(ho, B, off, INT) = v
  BY <1>10, ReadWritten
<1> QED
  BY <1>11 DEF v

\* Joined pieces of six bytes: each is where it belongs.
LEMMA SixBytesEach ==
  ASSUME NEW ss, Pieces(ss), \A i \in 1..Len(ss) : Len(ss[i]) = 6
  PROVE  /\ IsSequence(FlattenSeq(ss)) /\ Len(FlattenSeq(ss)) = 6 * Len(ss)
         /\ \A j \in 1..Len(ss), q \in 1..6 : FlattenSeq(ss)[6 * (j - 1) + q] = ss[j][q]
<1> DEFINE n == Len(ss)
<1>1. n \in Nat /\ \A i \in 1..n : IsSequence(ss[i]) /\ Len(ss[i]) = 6
  BY DEF Pieces, IsSequence
<1>2. IsSequence(FlattenSeq(ss)) /\ Len(FlattenSeq(ss)) = 6 * n
  BY FlattenLength
<1>3. CASE n = 0
  BY <1>2, <1>3
<1>4. CASE n # 0
  <2>1. PICK f : Joins(ss, n, f) /\ FlattenSeq(ss) = f[n]
    BY <1>1, <1>4, Flattened
  <2> HIDE DEF n
  <2> DEFINE Placed(i) == /\ IsSequence(f[i]) /\ Len(f[i]) = 6 * i
                          /\ \A j \in 1..i, q \in 1..6 : f[i][6 * (j - 1) + q] = ss[j][q]
             S == {i \in Nat : i \in 1..n => Placed(i)}
  <2>2. 0 \in S
    <3> HIDE DEF Placed
    <3>1. 0 \notin 1..n
      BY <1>1
    <3> QED
      BY <3>1
  <2>3. ASSUME NEW i \in Nat, i \in S PROVE i + 1 \in S
    <3> HIDE DEF Placed
    <3> SUFFICES ASSUME i + 1 \in 1..n PROVE Placed(i + 1)
      OBVIOUS
    <3> USE DEF Placed
    <3>1. f[i + 1] = IF i + 1 = 1 THEN ss[i + 1] ELSE f[(i + 1) - 1] \o ss[i + 1]
      BY <2>1, JoinsStep
    <3>2. (i + 1) - 1 = i
      OBVIOUS
    <3>3. IsSequence(ss[i + 1]) /\ Len(ss[i + 1]) = 6
      BY <1>1
    <3>4. CASE i = 0
      <4>1. f[i + 1] = ss[1] /\ i + 1 = 1
        BY <3>1, <3>4
      <4>2. \A j \in 1..1, q \in 1..6 : j = 1 /\ 6 * (j - 1) + q = q
        OBVIOUS
      <4>3. IsSequence(f[i + 1]) /\ Len(f[i + 1]) = 6 * (i + 1)
        BY <3>3, <3>4, <4>1
      <4>4. \A j \in 1..(i + 1), q \in 1..6 : f[i + 1][6 * (j - 1) + q] = ss[j][q]
        <5> TAKE j \in 1..(i + 1), q \in 1..6
        <5>1. j = 1 /\ 6 * (j - 1) + q = q
          BY <3>4
        <5> QED
          BY <4>1, <5>1
      <4> QED
        BY <4>3, <4>4
    <3>5. CASE i # 0
      <4>1. i \in 1..n /\ i + 1 # 1
        BY <1>1, <3>5
      <4>2. Placed(i)
        BY <2>3, <4>1
      <4>3. f[i + 1] = f[i] \o ss[i + 1]
        BY <3>1, <3>2, <4>1
      <4> DEFINE a == f[i]
                 b == ss[i + 1]
      <4>4. /\ IsSequence(a) /\ Len(a) = 6 * i /\ IsSequence(b) /\ Len(b) = 6
            /\ \A j \in 1..i, q \in 1..6 : a[6 * (j - 1) + q] = ss[j][q]
        BY <3>3, <4>2
      <4> HIDE DEF a, b
      <4>5. IsSequence(a) /\ IsSequence(b)
        BY <4>4
      <4>6. /\ IsSequence(a \o b) /\ Len(a \o b) = Len(a) + Len(b)
            /\ \A k \in 1..Len(a) : (a \o b)[k] = a[k]
            /\ \A k \in (Len(a) + 1)..(Len(a) + Len(b)) : (a \o b)[k] = b[k - Len(a)]
        BY <4>5, Concatenation
      <4> DEFINE c == a \o b
      <4> HIDE DEF c
      <4>7. /\ IsSequence(c) /\ Len(c) = 6 * (i + 1)
            /\ \A k \in 1..(6 * i) : c[k] = a[k]
            /\ \A k \in (6 * i + 1)..(6 * i + 6) : c[k] = b[k - 6 * i]
        BY <4>4, <4>6 DEF c
      <4>8. ASSUME NEW j \in 1..(i + 1), NEW q \in 1..6 PROVE c[6 * (j - 1) + q] = ss[j][q]
        <5>1. CASE j = i + 1
          <6>1. 6 * (j - 1) + q \in (6 * i + 1)..(6 * i + 6) /\ (6 * (j - 1) + q) - 6 * i = q
            BY <5>1
          <6>2. c[6 * (j - 1) + q] = b[q]
            BY <4>7, <6>1
          <6> QED
            BY <5>1, <6>2 DEF b
        <5>2. CASE j # i + 1
          <6>1. j \in 1..i /\ 6 * (j - 1) + q \in 1..(6 * i)
            BY <5>2
          <6>2. c[6 * (j - 1) + q] = a[6 * (j - 1) + q]
            BY <4>7, <6>1
          <6>3. a[6 * (j - 1) + q] = ss[j][q]
            BY <4>4, <6>1
          <6> QED
            BY <6>2, <6>3
        <5> QED
          BY <5>1, <5>2
      <4>9. c = f[i + 1]
        BY <4>3 DEF a, b, c
      <4> QED
        BY <4>7, <4>8, <4>9
    <3> QED
      BY <3>4, <3>5
  <2>4. n \in S
    <3> HIDE DEF S
    <3> QED
      BY <1>1, <2>2, <2>3, Induction
  <2>5. n \in 1..n
    BY <1>1, <1>4
  <2>6. \A j \in 1..n, q \in 1..6 : f[n][6 * (j - 1) + q] = ss[j][q]
    BY <2>4, <2>5
  <2> QED
    BY <1>2, <2>1, <2>6 DEF n
<1> QED
  BY <1>3, <1>4

\* The j-th document of an answer.
LEMMA ReplyDocs ==
  ASSUME SizesFit, Ownership, NEW k \in 0..MaxDocs, NEW tags, tags = [i \in 1..k |-> tags[i]],
         NEW cursorId, NEW id, NEW j \in 1..k
  PROVE  DocIn(Reply(tags, cursorId, id), host, 36 + 6 * (j - 1), tags[j])
<1> DEFINE docs == [i \in DOMAIN tags |-> Doc(host, tags[i])]
           flat == FlattenSeq(docs)
           reply == Reply(tags, cursorId, id)
           off == 36 + 6 * (j - 1)
           doc == Doc(host, tags[j])
           m == SubSeq(reply, off + 1, off + 6)
<1>1. k \in Nat /\ j \in 1..k
  BY MessageAssumption
<1>2. docs = [i \in 1..k |-> Doc(host, tags[i])]
  <2>1. DOMAIN tags = 1..k
    OBVIOUS
  <2> QED
    BY <2>1
<1>3. Pieces(docs) /\ Len(docs) = k /\ (\A i \in 1..k : Len(docs[i]) = 6) /\ docs[j] = doc
  <2>1. docs = [i \in 1..k |-> docs[i]] /\ \A i \in 1..k : IsSequence(docs[i]) /\ Len(docs[i]) = 6
    BY <1>2, DocIs
  <2>2. docs[j] = doc
    BY <1>2
  <2> HIDE DEF docs, doc
  <2>3. IsSequence(docs) /\ Len(docs) = k
    BY <1>1, <2>1, SequenceFrom
  <2> QED
    BY <2>1, <2>2, <2>3 DEF Pieces
<1>4. AnswerOf(reply, docs)
  BY ReplyIs
<1>5. IsSequence(doc) /\ Len(doc) = 6
  BY DocIs
<1> HIDE DEF docs, reply, doc
<1>6. IsSequence(flat) /\ Len(flat) = 6 * k /\ \A q \in 1..6 : flat[6 * (j - 1) + q] = doc[q]
  <2>1. /\ IsSequence(flat) /\ Len(flat) = 6 * Len(docs)
        /\ \A i \in 1..Len(docs), q \in 1..6 : flat[6 * (i - 1) + q] = docs[i][q]
    BY <1>3, SixBytesEach
  <2> HIDE DEF flat
  <2> QED
    BY <1>1, <1>3, <2>1
<1>7. PICK h : IsSequence(h) /\ Len(h) = 36 /\ reply = h \o flat
  BY <1>4 DEF AnswerOf
<1> HIDE DEF flat
<1>8. /\ IsSequence(reply) /\ Len(reply) = 36 + 6 * k
      /\ \A i \in 37..(36 + 6 * k) : reply[i] = flat[i - 36]
  <2>1. IsSequence(h) /\ IsSequence(flat)
    BY <1>6, <1>7
  <2>2. /\ IsSequence(h \o flat) /\ Len(h \o flat) = Len(h) + Len(flat)
        /\ \A i \in (Len(h) + 1)..(Len(h) + Len(flat)) : (h \o flat)[i] = flat[i - Len(h)]
    BY <2>1, Concatenation
  <2>3. /\ IsSequence(reply) /\ Len(reply) = Len(h) + Len(flat)
        /\ \A i \in (Len(h) + 1)..(Len(h) + Len(flat)) : reply[i] = flat[i - Len(h)]
    BY <1>7, <2>2
  <2>4. Len(h) = 36 /\ Len(flat) = 6 * k
    BY <1>6, <1>7
  <2> HIDE <1>7, <1>6
  <2> QED
    BY <2>3, <2>4
<1>9. off \in Nat /\ off + 6 <= 36 + 6 * k
  BY <1>1
<1>10. \A q \in 1..6 : off + q \in 37..(36 + 6 * k) /\ (off + q) - 36 = 6 * (j - 1) + q
  <2> TAKE q \in 1..6
  <2> DEFINE z == 6 * (j - 1)
             w == 6 * k
  <2>1. z \in Nat /\ w \in Nat /\ z + 6 <= w
    BY <1>1
  <2>2. off = 36 + z
    OBVIOUS
  <2> HIDE DEF off, z, w
  <2>3. off + q \in 37..(36 + w) /\ (off + q) - 36 = z + q
    BY <2>1, <2>2
  <2> QED
    BY <2>3 DEF z, w
<1>11. \A q \in 1..6 : reply[off + q] = doc[q]
  <2>1. \A i \in 37..(36 + 6 * k) : reply[i] = flat[i - 36]
    BY <1>8
  <2>2. \A q \in 1..6 : flat[6 * (j - 1) + q] = doc[q]
    BY <1>6
  <2> HIDE DEF off
  <2> TAKE q \in 1..6
  <2>3. off + q \in 37..(36 + 6 * k) /\ (off + q) - 36 = 6 * (j - 1) + q
    BY <1>10
  <2>4. reply[off + q] = flat[(off + q) - 36]
    BY <2>1, <2>3, Zenon
  <2> QED
    BY <2>2, <2>3, <2>4, Zenon
<1> HIDE DEF off
<1>12. IsSequence(m) /\ Len(m) = 6 /\ \A q \in 1..6 : m[q] = reply[off + q]
  <2>1. off + 1 \in 1..(Len(reply) + 1) /\ off + 6 \in ((off + 1) - 1)..Len(reply) /\ (off + 6) - (off + 1) + 1 = 6
    BY <1>1, <1>8, <1>9
  <2>2. /\ IsSequence(m) /\ Len(m) = (off + 6) - (off + 1) + 1
        /\ \A q \in 1..((off + 6) - (off + 1) + 1) : m[q] = reply[(off + 1) + q - 1]
    <3>1. IsSequence(reply)
      BY <1>8
    <3> QED
      BY <2>1, <3>1, Part
  <2> HIDE DEF m
  <2>3. \A q \in 1..6 : (off + 1) + q - 1 = off + q
    BY <1>9
  <2> QED
    BY <2>1, <2>2, <2>3, Zenon
<1> HIDE DEF m
<1>13. m = doc
  <2>1. \A q \in 1..6 : m[q] = doc[q]
    BY <1>11, <1>12, Zenon
  <2>2. Len(m) = Len(doc) /\ 1..Len(m) = 1..6
    BY <1>5, <1>12
  <2>3. \A q \in 1..Len(m) : m[q] = doc[q]
    BY <2>1, <2>2, Zenon
  <2> QED
    BY <1>5, <1>12, <2>2, <2>3, SameSequence
<1>14. off \in Nat /\ off + 6 <= Len(reply)
  BY <1>8, <1>9
<1> QED
  BY <1>13, <1>14 DEF DocIn, m, doc, reply, off

LEMMA EmptySequence ==
  ASSUME NEW s, IsSequence(s)
  PROVE  Len(s) \in Nat /\ (s = <<>> <=> Len(s) = 0)
<1>1. IsSequence(<<>>) /\ Len(<<>>) = 0 /\ Len(s) \in Nat
  BY DEF IsSequence
<1>2. ASSUME Len(s) = 0 PROVE s = <<>>
  <2>1. \A i \in 1..Len(s) : s[i] = <<>>[i]
    BY <1>2
  <2> QED
    BY <1>1, <1>2, <2>1, SameSequence
<1> QED
  BY <1>1, <1>2

LEMMA FrontOf ==
  ASSUME NEW s, IsSequence(s), Len(s) # 0
  PROVE  /\ IsSequence(Front(s)) /\ Len(Front(s)) = Len(s) - 1
         /\ \A i \in 1..(Len(s) - 1) : Front(s)[i] = s[i]
<1> DEFINE n == Len(s)
           t == SubSeq(s, 1, n - 1)
<1>1. n \in Nat /\ n # 0 /\ 1 \in 1..(n + 1) /\ n - 1 \in (1 - 1)..n /\ (n - 1) - 1 + 1 = n - 1
  BY DEF IsSequence
<1>2. IsSequence(t) /\ Len(t) = (n - 1) - 1 + 1 /\ \A i \in 1..((n - 1) - 1 + 1) : t[i] = s[1 + i - 1]
  BY <1>1, Part
<1>3. Front(s) = t
  BY DEF Front
<1> HIDE DEF t, n
<1>4. \A i \in 1..(n - 1) : 1 + i - 1 = i
  OBVIOUS
<1>5. IsSequence(t) /\ Len(t) = n - 1 /\ \A i \in 1..(n - 1) : t[i] = s[i]
  BY <1>1, <1>2, <1>4, Zenon
<1> QED
  BY <1>3, <1>5 DEF n

LEMMA TailOf ==
  ASSUME NEW s, IsSequence(s), Len(s) # 0
  PROVE  /\ IsSequence(Tail(s)) /\ Len(Tail(s)) = Len(s) - 1
         /\ \A i \in 1..(Len(s) - 1) : Tail(s)[i] = s[i + 1]
<1> DEFINE S == {s[i] : i \in 1..Len(s)}
<1>1. s \in Seq(S)
  BY SequenceOf
<1>2. s # <<>>
  BY EmptySequence
<1> HIDE DEF S
<1>3. /\ Tail(s) \in Seq(S) /\ Len(Tail(s)) = Len(s) - 1
      /\ \A i \in 1..Len(Tail(s)) : Tail(s)[i] = s[i + 1]
  BY <1>1, <1>2, HeadTailProperties
<1>4. IsSequence(Tail(s))
  BY <1>3, SequenceIs
<1> QED
  BY <1>3, <1>4

\* Where an object of the batch or of its own is, does not matter to what was delivered before
\* a document is due.
LEMMA NothingDelivered ==
  ASSUME NEW v, NEW p, NEW d, NEW left, NEW data, NEW b, NEW B, NEW ho,
         Delivered(v, p, d, left, data, b, B, ho), b = NULL,
         NEW C
  PROVE  Delivered(v, p, d, left, data, b, C, ho)
<1>1. /\ IsSequence(v) /\ IsSequence(p) /\ IsSequence(d) /\ left \in Nat /\ data \in Nat /\ Len(v) + Len(p) + left = Len(d)
      /\ ~(Len(d) > 0)
  BY DEF Delivered
<1>2. Len(v) \in Nat /\ Len(p) \in Nat /\ Len(d) \in Nat
  BY <1>1 DEF IsSequence
<1>3. Len(v) = 0 /\ Len(p) = 0 /\ left = 0
  BY <1>1, <1>2
<1>4. 1..Len(v) = {} /\ 1..Len(p) = {} /\ 1..left = {}
  BY <1>3
<1> QED
  BY <1>1, <1>4, Zenon DEF Delivered

\* next(): what was put back last is held again.
LEMMA TakenAgain ==
  ASSUME NEW v, NEW p, NEW d, NEW left, NEW data, NEW b, NEW B, NEW ho,
         Delivered(v, p, d, left, data, b, B, ho), p # <<>>
  PROVE  Delivered(Append(v, Last(p)), Front(p), d, left, data, b, B, ho)
<1> DEFINE n == Len(v)
           r == Len(p)
           w == Append(v, Last(p))
           q == Front(p)
<1>1. /\ IsSequence(v) /\ IsSequence(p) /\ IsSequence(d)
      /\ left \in Nat /\ data \in Nat /\ n + r + left = Len(d) /\ (Len(d) > 0 => b # NULL)
  BY DEF Delivered
<1>2. \A i \in 1..n : Shows(v[i], d[i], b, B, ho)
  BY DEF Delivered
<1>3. \A i \in 1..r : Shows(p[i], d[n + r + 1 - i], b, B, ho)
  BY DEF Delivered
<1>4. \A j \in 1..left : DocIn(B, ho, data + 6 * (j - 1), d[n + r + j])
  BY DEF Delivered
<1>5. n \in Nat /\ r \in Nat /\ r # 0
  BY <1>1, EmptySequence
<1>6. /\ IsSequence(w) /\ Len(w) = n + 1 /\ w[n + 1] = p[r]
      /\ \A i \in 1..n : w[i] = v[i]
  BY <1>1, AppendOne DEF Last
<1>7. IsSequence(q) /\ Len(q) = r - 1 /\ \A i \in 1..(r - 1) : q[i] = p[i]
  BY <1>1, <1>5, FrontOf
<1> HIDE DEF n, r, w, q
<1>8. Len(w) + Len(q) + left = Len(d) /\ Len(w) + Len(q) = n + r
  BY <1>1, <1>5, <1>6, <1>7
<1>9. ASSUME NEW i \in 1..(n + 1) PROVE Shows(w[i], d[i], b, B, ho)
  <2>1. CASE i = n + 1
    <3>1. r \in 1..r /\ n + r + 1 - r = n + 1
      BY <1>5
    <3>2. Shows(p[r], d[n + r + 1 - r], b, B, ho)
      BY <1>3, <3>1
    <3> QED
      BY <1>6, <2>1, <3>1, <3>2, Zenon
  <2>2. CASE i # n + 1
    <3>1. i \in 1..n
      BY <1>5, <2>2
    <3> QED
      BY <1>2, <1>6, <3>1, Zenon
  <2> QED
    BY <2>1, <2>2
<1>10. ASSUME NEW i \in 1..(r - 1) PROVE Shows(q[i], d[n + r + 1 - i], b, B, ho)
  <2>1. i \in 1..r
    BY <1>5
  <2> QED
    BY <1>3, <1>7, <2>1, Zenon
<1>11. 1..Len(w) = 1..(n + 1) /\ 1..Len(q) = 1..(r - 1)
  BY <1>6, <1>7
<1>12. Delivered(w, q, d, left, data, b, B, ho)
  BY <1>1, <1>4, <1>6, <1>7, <1>8, <1>9, <1>10, <1>11, Zenon DEF Delivered
<1> QED
  BY <1>12 DEF w, q

\* next(): the next document of the batch is held.
LEMMA TakenFromBatch ==
  ASSUME NEW v, NEW p, NEW d, NEW left, NEW data, NEW b, NEW B, NEW ho,
         Delivered(v, p, d, left, data, b, B, ho), p = <<>>, left # 0,
         NEW o, ~o.own, o.block = b, o.off = data
  PROVE  /\ DocIn(B, ho, data, d[Len(v) + 1])
         /\ Delivered(Append(v, o), p, d, left - 1, data + 6, b, B, ho)
<1> DEFINE n == Len(v)
           w == Append(v, o)
<1>1. /\ IsSequence(v) /\ IsSequence(p) /\ IsSequence(d)
      /\ left \in Nat /\ data \in Nat /\ n + Len(p) + left = Len(d) /\ (Len(d) > 0 => b # NULL)
  BY DEF Delivered
<1>2. \A i \in 1..n : Shows(v[i], d[i], b, B, ho)
  BY DEF Delivered
<1>3. \A j \in 1..left : DocIn(B, ho, data + 6 * (j - 1), d[n + Len(p) + j])
  BY DEF Delivered
<1>4. n \in Nat /\ Len(p) = 0 /\ left \in Nat \ {0}
  BY <1>1, EmptySequence
<1>5. /\ IsSequence(w) /\ Len(w) = n + 1 /\ w[n + 1] = o
      /\ \A i \in 1..n : w[i] = v[i]
  BY <1>1, AppendOne
<1> HIDE DEF n, w
<1>6. DocIn(B, ho, data + 6 * (1 - 1), d[n + 0 + 1])
  <2>1. 1 \in 1..left
    BY <1>4
  <2> QED
    BY <1>3, <1>4, <2>1, Zenon
<1>7. data \in Nat
  BY <1>1
<1>8. DocIn(B, ho, data, d[n + 1])
  <2>1. data + 6 * (1 - 1) = data /\ n + 0 + 1 = n + 1
    BY <1>4, <1>7
  <2> QED
    BY <1>6, <2>1, Zenon
<1>9. ASSUME NEW i \in 1..(n + 1) PROVE Shows(w[i], d[i], b, B, ho)
  <2>1. CASE i = n + 1
    BY <1>5, <1>8, <2>1, Zenon DEF Shows
  <2>2. CASE i # n + 1
    <3>1. i \in 1..n
      BY <1>4, <2>2
    <3> QED
      BY <1>2, <1>5, <3>1, Zenon
  <2> QED
    BY <2>1, <2>2
<1>10. ASSUME NEW j \in 1..(left - 1)
       PROVE  DocIn(B, ho, (data + 6) + 6 * (j - 1), d[Len(w) + Len(p) + j])
  <2>1. j + 1 \in 1..left /\ (data + 6) + 6 * (j - 1) = data + 6 * ((j + 1) - 1)
        /\ Len(w) + Len(p) + j = n + Len(p) + (j + 1)
    BY <1>4, <1>5, <1>7
  <2>2. DocIn(B, ho, data + 6 * ((j + 1) - 1), d[n + Len(p) + (j + 1)])
    BY <1>3, <2>1, Zenon
  <2> QED
    BY <2>1, <2>2, Zenon
<1>11. /\ 1..Len(w) = 1..(n + 1) /\ 1..Len(p) = {} /\ left - 1 \in Nat /\ data + 6 \in Nat
       /\ Len(w) + Len(p) + (left - 1) = Len(d)
  BY <1>1, <1>4, <1>5, <1>7
<1>12. Delivered(w, p, d, left - 1, data + 6, b, B, ho)
  BY <1>1, <1>5, <1>9, <1>10, <1>11, Zenon DEF Delivered
<1> QED
  BY <1>8, <1>12 DEF n, w

\* putBack(): a copy of the object held last goes on the stack.
LEMMA Returned ==
  ASSUME NEW v, NEW p, NEW d, NEW left, NEW data, NEW b, NEW B, NEW ho,
         Delivered(v, p, d, left, data, b, B, ho), Len(v) # 0,
         NEW o, o.own, o.bytes = Doc(ho, d[Len(v)])
  PROVE  Delivered(Front(v), Append(p, o), d, left, data, b, B, ho)
<1> DEFINE n == Len(v)
           r == Len(p)
           w == Front(v)
           q == Append(p, o)
<1>1. /\ IsSequence(v) /\ IsSequence(p) /\ IsSequence(d)
      /\ left \in Nat /\ data \in Nat /\ n + r + left = Len(d) /\ (Len(d) > 0 => b # NULL)
  BY DEF Delivered
<1>2. \A i \in 1..n : Shows(v[i], d[i], b, B, ho)
  BY DEF Delivered
<1>3. \A i \in 1..r : Shows(p[i], d[n + r + 1 - i], b, B, ho)
  BY DEF Delivered
<1>4. \A j \in 1..left : DocIn(B, ho, data + 6 * (j - 1), d[n + r + j])
  BY DEF Delivered
<1>5. n \in Nat /\ r \in Nat /\ n # 0
  BY <1>1, EmptySequence
<1>6. /\ IsSequence(q) /\ Len(q) = r + 1 /\ q[r + 1] = o
      /\ \A i \in 1..r : q[i] = p[i]
  BY <1>1, AppendOne
<1>7. IsSequence(w) /\ Len(w) = n - 1 /\ \A i \in 1..(n - 1) : w[i] = v[i]
  BY <1>1, <1>5, FrontOf
<1>0. Shows(o, d[n], b, B, ho)
  BY DEF Shows
<1> HIDE DEF n, r, w, q
<1>8. Len(w) + Len(q) + left = Len(d) /\ Len(w) + Len(q) = n + r
  BY <1>1, <1>5, <1>6, <1>7
<1>9. ASSUME NEW i \in 1..(n - 1) PROVE Shows(w[i], d[i], b, B, ho)
  <2>1. i \in 1..n
    BY <1>5
  <2> QED
    BY <1>2, <1>7, <2>1, Zenon
<1>10. ASSUME NEW i \in 1..(r + 1) PROVE Shows(q[i], d[n + r + 1 - i], b, B, ho)
  <2>1. CASE i = r + 1
    <3>1. n + r + 1 - (r + 1) = n
      BY <1>5
    <3> QED
      BY <1>0, <1>6, <2>1, <3>1, Zenon
  <2>2. CASE i # r + 1
    <3>1. i \in 1..r
      BY <1>5, <2>2
    <3> QED
      BY <1>3, <1>6, <3>1, Zenon
  <2> QED
    BY <2>1, <2>2
<1>11. 1..Len(w) = 1..(n - 1) /\ 1..Len(q) = 1..(r + 1)
  BY <1>6, <1>7
<1>12. Delivered(w, q, d, left, data, b, B, ho)
  BY <1>1, <1>4, <1>6, <1>7, <1>8, <1>9, <1>10, <1>11, Zenon DEF Delivered
<1> QED
  BY <1>12 DEF w, q

\* The object held longest is done with, and the document that was due first with it.
LEMMA Consumed ==
  ASSUME NEW v, NEW p, NEW d, NEW left, NEW data, NEW b, NEW B, NEW ho,
         Delivered(v, p, d, left, data, b, B, ho), Len(v) # 0
  PROVE  Delivered(Tail(v), p, Tail(d), left, data, b, B, ho)
<1> DEFINE n == Len(v)
           r == Len(p)
           k == Len(d)
           w == Tail(v)
           e == Tail(d)
<1>1. /\ IsSequence(v) /\ IsSequence(p) /\ IsSequence(d)
      /\ left \in Nat /\ data \in Nat /\ n + r + left = k /\ (k > 0 => b # NULL)
  BY DEF Delivered
<1>2. \A i \in 1..n : Shows(v[i], d[i], b, B, ho)
  BY DEF Delivered
<1>3. \A i \in 1..r : Shows(p[i], d[n + r + 1 - i], b, B, ho)
  BY DEF Delivered
<1>4. \A j \in 1..left : DocIn(B, ho, data + 6 * (j - 1), d[n + r + j])
  BY DEF Delivered
<1>5. n \in Nat /\ r \in Nat /\ k \in Nat /\ n # 0
  BY <1>1, EmptySequence
<1>6. k # 0 /\ k > 0
  BY <1>1, <1>5
<1>7. IsSequence(w) /\ Len(w) = n - 1 /\ \A i \in 1..(n - 1) : w[i] = v[i + 1]
  BY <1>1, <1>5, TailOf
<1>8. IsSequence(e) /\ Len(e) = k - 1 /\ \A i \in 1..(k - 1) : e[i] = d[i + 1]
  BY <1>1, <1>6, TailOf
<1> HIDE DEF n, r, k, w, e
<1>9. ASSUME NEW i \in 1..(n - 1) PROVE Shows(w[i], e[i], b, B, ho)
  <2>1. i + 1 \in 1..n /\ i \in 1..(k - 1)
    BY <1>1, <1>5
  <2> QED
    BY <1>2, <1>7, <1>8, <2>1, Zenon
<1>10. ASSUME NEW i \in 1..r PROVE Shows(p[i], e[Len(w) + r + 1 - i], b, B, ho)
  <2>1. Len(w) + r + 1 - i \in 1..(k - 1) /\ (Len(w) + r + 1 - i) + 1 = n + r + 1 - i
    BY <1>1, <1>5, <1>7
  <2> QED
    BY <1>3, <1>8, <2>1, Zenon
<1>11. ASSUME NEW j \in 1..left PROVE DocIn(B, ho, data + 6 * (j - 1), e[Len(w) + r + j])
  <2>1. Len(w) + r + j \in 1..(k - 1) /\ (Len(w) + r + j) + 1 = n + r + j
    BY <1>1, <1>5, <1>7
  <2> QED
    BY <1>4, <1>8, <2>1, Zenon
<1>12. 1..Len(w) = 1..(n - 1) /\ Len(w) + r + left = Len(e)
  BY <1>1, <1>5, <1>7, <1>8
<1>13. Delivered(w, p, e, left, data, b, B, ho)
  BY <1>1, <1>6, <1>7, <1>8, <1>9, <1>10, <1>11, <1>12, Zenon DEF Delivered, r
<1> QED
  BY <1>13 DEF w, e

-----------------------------------------------------------------------------
(* What the actions do to the deliveries *)

\* The batch and the cursor are left alone.
BatchKept ==
    /\ host' = host /\ cursor' = cursor /\ msg'["batch"] = msg["batch"]
    /\ \A x \in buffers(msg["batch"]) : heap'[x] = heap[x]

LEMMA DeliveriesKept ==
  ASSUME Deliveries, BatchKept
  PROVE  Deliveries'
<1> DEFINE v == cursor.view
           p == cursor.putBack
           d == cursor.due
           left == cursor.nReturned - cursor.pos
           data == cursor.data
           b == msg["batch"].buf
           B == heap[b]
           C == heap'[b]
<1>1. Delivered(v, p, d, left, data, b, B, host)
  BY DEF Deliveries
<1>2. /\ cursor'.view = v /\ cursor'.putBack = p /\ cursor'.due = d /\ cursor'.data = data
      /\ cursor'.nReturned - cursor'.pos = left /\ msg'["batch"].buf = b /\ host' = host
  BY DEF BatchKept
<1>3. b # NULL => b \in buffers(msg["batch"])
  BY DEF buffers
<1>4. b # NULL => C = B
  BY <1>3 DEF BatchKept
<1> HIDE DEF v, p, d, left, data, B, C
<1>5. Delivered(v, p, d, left, data, b, C, host)
  <2>1. CASE b = NULL
    BY <1>1, <2>1, NothingDelivered
  <2>2. CASE b # NULL
    BY <1>1, <1>4, <2>2
  <2> QED
    BY <2>1, <2>2
<1>6. Delivered(cursor'.view, cursor'.putBack, cursor'.due, cursor'.nReturned - cursor'.pos, cursor'.data,
                msg'["batch"].buf, heap'[msg'["batch"].buf], host')
  BY <1>2, <1>5 DEF C
<1> QED
  BY <1>6 DEF Deliveries

\* The batch shares no block with another message, the caller's loose blocks or free memory.
LEMMA BatchAlone ==
  ASSUME Ownership, Contents
  PROVE  /\ "batch" \in Msgs /\ DOMAIN msg = Msgs /\ buffers(msg["batch"]) \subseteq DOMAIN heap
         /\ \A m \in {"toSend", "response"} :
              /\ m \in Msgs /\ m # "batch" /\ IsMessage(msg[m])
              /\ buffers(msg[m]) \cap buffers(msg["batch"]) = {}
              /\ Frees(msg[m]) \cap buffers(msg["batch"]) = {}
         /\ \A b \in Free : b \notin buffers(msg["batch"])
         /\ \A b : Unlent(b) => b \notin buffers(msg["batch"])
<1>1. "batch" \in Msgs /\ \A m \in {"toSend", "response"} : m \in Msgs /\ m # "batch"
  BY DEF Msgs
<1>2. DOMAIN msg = Msgs /\ \A m \in Msgs : IsMessage(msg[m]) /\ buffers(msg[m]) \subseteq DOMAIN heap
  BY DEF Ownership, Allocated
<1>3. \A m \in {"toSend", "response"} : buffers(msg[m]) \cap buffers(msg["batch"]) = {}
  BY <1>1 DEF Contents, Apart
<1>4. \A m \in {"toSend", "response"} : Frees(msg[m]) \cap buffers(msg["batch"]) = {}
  BY <1>3 DEF Frees
<1>5. \A b \in Free : b \notin buffers(msg["batch"])
  BY <1>1, <1>2 DEF Free
<1>6. \A b : Unlent(b) => b \notin buffers(msg["batch"])
  BY <1>1 DEF Unlent
<1> QED
  BY <1>1, <1>2, <1>3, <1>4, <1>5, <1>6

LEMMA OtherBlock ==
  ASSUME NEW S, S \subseteq DOMAIN heap, NEW b, b \notin S, NEW bytes
  PROVE  \A x \in S : With(heap, b, bytes)[x] = heap[x]
BY DEF With

LEMMA OtherFreed ==
  ASSUME NEW S, S \subseteq DOMAIN heap, NEW F, F \cap S = {}
  PROVE  \A x \in S : Without(F)[x] = heap[x]
BY DEF Without

LEMMA OtherReplaced ==
  ASSUME NEW S, S \subseteq DOMAIN heap, NEW F, F \cap S = {}, NEW b, b \notin S, NEW bytes
  PROVE  \A x \in S : With(Without(F), b, bytes)[x] = heap[x]
BY DEF With, Without

\* The messages and the caller do what they like with their own blocks.
LEMMA AppendDataKept ==
  ASSUME Ownership, Contents, NEW m \in {"toSend", "response"}, NEW b, NEW n, AppendData(m, b, n)
  PROVE  BatchKept
<1> DEFINE S == buffers(msg["batch"])
           old == msg[m]
           f == First(old)
<1>1. /\ m \in Msgs /\ m # "batch" /\ DOMAIN msg = Msgs /\ "batch" \in Msgs /\ IsMessage(old)
      /\ S \subseteq DOMAIN heap /\ buffers(old) \cap S = {} /\ (Unlent(b) => b \notin S)
  BY BatchAlone
<1>2. b \notin S /\ host' = host /\ cursor' = cursor
  BY <1>1 DEF AppendData
<1>3. msg'["batch"] = msg["batch"]
  BY <1>1 DEF AppendData
<1>4. \/ heap' = heap
      \/ \E bytes : heap' = With(heap, b, bytes)
      \/ ~empty(old) /\ \E bytes : heap' = With(heap, f, bytes)
  BY DEF AppendData
<1>5. ~empty(old) => f \notin S
  BY <1>1, FirstBuffer
<1> HIDE DEF S, old, f
<1>6. \A x \in S : heap'[x] = heap[x]
  <2>1. S \subseteq DOMAIN heap
    BY <1>1
  <2>2. CASE heap' = heap
    BY <2>2
  <2>3. CASE \E bytes : heap' = With(heap, b, bytes)
    BY <1>2, <2>1, <2>3, OtherBlock
  <2>4. CASE ~empty(old) /\ \E bytes : heap' = With(heap, f, bytes)
    BY <1>5, <2>1, <2>4, OtherBlock
  <2> QED
    BY <1>4, <2>2, <2>3, <2>4
<1> QED
  BY <1>2, <1>3, <1>6 DEF BatchKept, S

LEMMA MessageKept ==
  ASSUME Ownership, Contents, NEW m \in {"toSend", "response"}, Concat(m) \/ Reset(m) \/ Say(m, 1)
  PROVE  BatchKept
<1> DEFINE S == buffers(msg["batch"])
           F == Frees(msg[m])
<1>1. /\ m \in Msgs /\ m # "batch" /\ DOMAIN msg = Msgs /\ "batch" \in Msgs /\ IsMessage(msg[m])
      /\ S \subseteq DOMAIN heap /\ buffers(msg[m]) \cap S = {} /\ F \cap S = {}
      /\ \A b \in Free : b \notin S
  BY BatchAlone
<1>2. host' = host /\ cursor' = cursor
  BY DEF Concat, Reset, Say
<1>3. msg'["batch"] = msg["batch"]
  BY <1>1 DEF Concat, Reset, Say
<1>4. CASE Concat(m)
  <2>1. PICK b \in Free : heap' = With(Without(F), b, Bytes(msg[m]))
    BY <1>4 DEF Concat
  <2> HIDE DEF S, F
  <2>2. \A x \in S : heap'[x] = heap[x]
    BY <1>1, <2>1, OtherReplaced
  <2> QED
    BY <1>2, <1>3, <2>2 DEF BatchKept, S
<1>5. CASE Reset(m)
  <2>1. heap' = Without(F)
    BY <1>5 DEF Reset
  <2> HIDE DEF S, F
  <2>2. \A x \in S : heap'[x] = heap[x]
    BY <1>1, <2>1, OtherFreed
  <2> QED
    BY <1>2, <1>3, <2>2 DEF BatchKept, S
<1>6. CASE Say(m, 1)
  <2>1. ~empty(msg[m]) /\ \E bytes : heap' = With(heap, First(msg[m]), bytes)
    BY <1>6 DEF Say
  <2>2. First(msg[m]) \notin S
    BY <1>1, <2>1, FirstBuffer
  <2> HIDE DEF S, F
  <2>3. \A x \in S : heap'[x] = heap[x]
    BY <1>1, <2>1, <2>2, OtherBlock
  <2> QED
    BY <1>2, <1>3, <2>3 DEF BatchKept, S
<1> QED
  BY <1>4, <1>5, <1>6

LEMMA CallerKept ==
  ASSUME Ownership, Contents,
         \/ \E n, first : Build(n, first)
         \/ \E b, freeIt : SetData("toSend", b, freeIt)
         \/ \E n : SetDataOperation("toSend", dbQuery, n)
         \/ \E b : CallerFrees(b)
         \/ Assign("response", "toSend")
         \/ UNCHANGED vars
  PROVE  BatchKept
<1> DEFINE S == buffers(msg["batch"])
<1>1. /\ "batch" \in Msgs /\ DOMAIN msg = Msgs /\ S \subseteq DOMAIN heap
      /\ (\A b \in Free : b \notin S) /\ (\A b : Unlent(b) => b \notin S)
  BY BatchAlone
<1>2. host' = host /\ cursor' = cursor
  BY DEF Build, SetData, SetDataOperation, CallerFrees, Assign, vars
<1>3. "toSend" # "batch" /\ "response" # "batch"
  OBVIOUS
<1>4. msg'["batch"] = msg["batch"]
  BY <1>1, <1>3 DEF Build, SetData, SetDataOperation, CallerFrees, Assign, vars
<1>5. \/ heap' = heap
      \/ \E b \in Free : \E bytes : heap' = With(heap, b, bytes)
      \/ \E b : Unlent(b) /\ heap' = Without({b})
  BY DEF Build, SetData, SetDataOperation, CallerFrees, Assign, vars
<1> HIDE DEF S
<1>6. \A x \in S : heap'[x] = heap[x]
  <2>1. CASE heap' = heap
    BY <2>1
  <2>2. CASE \E b \in Free : \E bytes : heap' = With(heap, b, bytes)
    BY <1>1, <2>2, OtherBlock
  <2>3. CASE \E b : Unlent(b) /\ heap' = Without({b})
    <3>1. PICK b : Unlent(b) /\ heap' = Without({b})
      BY <2>3
    <3>2. {b} \cap S = {}
      BY <1>1, <3>1
    <3> QED
      BY <1>1, <3>1, <3>2, OtherFreed
  <2> QED
    BY <1>5, <2>1, <2>2, <2>3
<1> QED
  BY <1>2, <1>4, <1>6 DEF BatchKept, S

\* The bytes the cursor reads from: a sequence, when anything is left to read.
LEMMA BatchBytes ==
  ASSUME Ownership, Contents, msg["batch"].buf # NULL
  PROVE  /\ msg["batch"].buf \in DOMAIN heap /\ IsSequence(heap[msg["batch"].buf])
         /\ host \in Builds
<1>1. "batch" \in Msgs
  BY DEF Msgs
<1>2. msg["batch"].buf \in buffers(msg["batch"])
  BY DEF buffers
<1>3. msg["batch"].buf \in DOMAIN heap
  BY <1>1, <1>2 DEF Ownership, Allocated
<1> QED
  BY <1>3, HostBuilds DEF Contents

\* dataReceived(): nothing is due any more when the next batch comes.
LEMMA NewBatch ==
  ASSUME NEW v, NEW p, NEW d, NEW left, NEW data, NEW b, NEW B, NEW ho,
         Delivered(v, p, d, left, data, b, B, ho), v = <<>>, ~(Len(p) + left > 0),
         NEW k \in Nat, NEW tags, tags = [i \in 1..k |-> tags[i]],
         NEW c, c # NULL, NEW C, \A j \in 1..k : DocIn(C, ho, 36 + 6 * (j - 1), tags[j])
  PROVE  Delivered(v, p, d \o tags, k, 36, c, C, ho)
<1>1. /\ IsSequence(v) /\ IsSequence(p) /\ IsSequence(d)
      /\ left \in Nat /\ Len(v) + Len(p) + left = Len(d)
  BY DEF Delivered
<1>2. Len(v) = 0 /\ Len(p) \in Nat /\ Len(d) \in Nat
  BY <1>1, EmptySequence
<1>3. Len(p) = 0 /\ Len(d) = 0
  BY <1>1, <1>2
<1>4. d = <<>>
  BY <1>1, <1>3, EmptySequence
<1>5. IsSequence(tags) /\ Len(tags) = k
  BY SequenceFrom
<1>6. d \o tags = tags
  BY <1>4, <1>5, NothingAfter
<1>7. 1..Len(v) = {} /\ 1..Len(p) = {}
  BY <1>2, <1>3
<1>8. \A j \in 1..k : DocIn(C, ho, 36 + 6 * (j - 1), tags[Len(v) + Len(p) + j])
  <2>1. \A j \in 1..k : Len(v) + Len(p) + j = j
    BY <1>2, <1>3
  <2> QED
    BY <2>1, Zenon
<1>9. 36 \in Nat /\ Len(v) + Len(p) + k = Len(tags)
  BY <1>2, <1>3, <1>5
<1>10. Delivered(v, p, tags, k, 36, c, C, ho)
  BY <1>1, <1>5, <1>7, <1>8, <1>9, Zenon DEF Delivered
<1> QED
  BY <1>6, <1>10

LEMMA DataReceivedDeliveries ==
  ASSUME SizesFit, Ownership, Contents, Deliveries, NEW k \in 0..MaxDocs,
         NEW tags, tags = [i \in 1..k |-> tags[i]], NEW cursorId, DataReceived(tags, cursorId)
  PROVE  Deliveries'
<1> DEFINE v == cursor.view
           p == cursor.putBack
           d == cursor.due
           left == cursor.nReturned - cursor.pos
           reply == Reply(tags, cursorId, 1)
           a == msg["batch"].buf
           A == heap[a]
<1>1. Delivered(v, p, d, left, cursor.data, a, A, host)
  BY DEF Deliveries
<1>2. k \in Nat
  BY MessageAssumption
<1>3. IsSequence(tags) /\ Len(tags) = k
  BY <1>2, SequenceFrom
<1>4. v = <<>> /\ ~(Len(p) + left > 0)
  <2>1. v = <<>> /\ ~(Len(p) + cursor.nReturned - cursor.pos > 0)
    BY DEF DataReceived, moreInCurrentBatch, objsLeftInBatch
  <2>2. cursor.nReturned \in Nat /\ cursor.pos \in Nat
    BY DEF Ownership, CursorTypeOK
  <2>3. IsSequence(p)
    BY <1>1 DEF Delivered
  <2>4. Len(p) \in Nat
    BY <2>3, EmptySequence
  <2> HIDE DEF v, p
  <2> QED
    BY <2>1, <2>2, <2>4
<1>5. \A j \in 1..k : DocIn(reply, host, 36 + 6 * (j - 1), tags[j])
  BY ReplyDocs
<1>6. PICK b \in Free :
         /\ heap' = With(Without(Frees(msg["batch"])), b, reply)
         /\ msg' = [msg EXCEPT !["batch"] = [buf |-> b, data |-> <<>>, freeIt |-> TRUE]]
  BY DEF DataReceived
<1>7. b # NULL
  BY MessageAssumption DEF Free
<1>8. msg'["batch"].buf = b
  <2>1. "batch" \in DOMAIN msg
    BY DEF Ownership, Msgs
  <2> QED
    BY <1>6, <2>1
<1>9. heap'[b] = reply
  BY <1>6 DEF With
<1>10. /\ cursor'.view = v /\ cursor'.putBack = p /\ cursor'.due = d \o tags /\ cursor'.data = ReplyHeader
       /\ cursor'.nReturned = Len(tags) /\ cursor'.pos = 0 /\ host' = host
  BY DEF DataReceived, Ownership, CursorTypeOK
<1>11. cursor'.data = 36 /\ cursor'.nReturned - cursor'.pos = k
  BY <1>2, <1>3, <1>10, Offsets
<1> HIDE DEF v, p, d, left, reply, a, A
<1>12. Delivered(v, p, d \o tags, k, 36, b, reply, host)
  BY <1>1, <1>2, <1>4, <1>5, <1>7, NewBatch
<1> QED
  BY <1>8, <1>9, <1>10, <1>11, <1>12, Zenon DEF Deliveries

\* next()
LEMMA NextObjectDeliveries ==
  ASSUME SizesFit, Ownership, Contents, Deliveries, NextObject
  PROVE  Deliveries'
<1> DEFINE v == cursor.view
           p == cursor.putBack
           d == cursor.due
           left == cursor.nReturned - cursor.pos
           data == cursor.data
           b == msg["batch"].buf
           B == heap[b]
<1>1. Delivered(v, p, d, left, data, b, B, host)
  BY DEF Deliveries
<1>2. heap' = heap /\ msg' = msg /\ host' = host
  BY DEF NextObject
<1>3. /\ DOMAIN cursor = {"nReturned", "pos", "data", "putBack", "view", "id", "batches", "due"}
      /\ cursor.nReturned \in Nat /\ cursor.pos \in Nat
  BY DEF Ownership, CursorTypeOK
<1>4. /\ IsSequence(v) /\ IsSequence(p) /\ IsSequence(d) /\ left \in Nat /\ data \in Nat
      /\ Len(v) + Len(p) + left = Len(d) /\ (Len(d) > 0 => b # NULL)
  BY <1>1 DEF Delivered
<1>5. CASE p # <<>>
  <2>1. /\ cursor'.view = Append(v, Last(p)) /\ cursor'.putBack = Front(p) /\ cursor'.due = d
        /\ cursor'.nReturned = cursor.nReturned /\ cursor'.pos = cursor.pos /\ cursor'.data = data
    BY <1>3, <1>5 DEF NextObject
  <2>2. cursor'.nReturned - cursor'.pos = left
    BY <2>1
  <2> HIDE DEF v, p, d, left, data, B, b
  <2>3. Delivered(Append(v, Last(p)), Front(p), d, left, data, b, B, host)
    BY <1>1, <1>5, TakenAgain
  <2>4. msg'["batch"].buf = b /\ heap'[msg'["batch"].buf] = B
    BY <1>2 DEF b, B
  <2> QED
    BY <1>2, <2>1, <2>2, <2>3, <2>4, Zenon DEF Deliveries
<1>6. CASE p = <<>>
  <2> DEFINE o == [own |-> FALSE, block |-> b, off |-> data, bytes |-> <<>>]
  <2>1. /\ cursor'.view = Append(v, o) /\ cursor'.putBack = p /\ cursor'.due = d
        /\ cursor'.nReturned = cursor.nReturned /\ cursor'.pos = cursor.pos + 1
        /\ cursor'.data = data + objsize(B, data)
    BY <1>3, <1>6 DEF NextObject
  <2>2. cursor'.nReturned - cursor'.pos = left - 1
    BY <1>3, <2>1
  <2>3. ~o.own /\ o.block = b /\ o.off = data
    OBVIOUS
  <2>4. Len(p) + cursor.nReturned - cursor.pos > 0
    BY DEF NextObject, moreInCurrentBatch, objsLeftInBatch
  <2>5. Len(p) = 0
    BY <1>4, <1>6, EmptySequence
  <2>6. left # 0
    BY <1>3, <2>4, <2>5
  <2> HIDE DEF v, p, d, left, data, B, b, o
  <2>7. DocIn(B, host, data, d[Len(v) + 1]) /\ Delivered(Append(v, o), p, d, left - 1, data + 6, b, B, host)
    BY <1>1, <1>6, <2>3, <2>6, TakenFromBatch
  <2>8. b # NULL
    <3>1. Len(v) \in Nat
      BY <1>4, EmptySequence
    <3> QED
      BY <1>4, <2>5, <2>6, <3>1
  <2>9. IsSequence(B) /\ host \in Builds
    BY <2>8, BatchBytes DEF b, B
  <2>10. objsize(B, data) = 6
    BY <2>7, <2>9, DocSize DEF objsize, getInt
  <2>11. msg'["batch"].buf = b /\ heap'[msg'["batch"].buf] = B
    BY <1>2 DEF b, B
  <2> QED
    BY <1>2, <2>1, <2>2, <2>7, <2>10, <2>11, Zenon DEF Deliveries
<1> QED
  BY <1>5, <1>6

\* What an object shows is the document it is about.
LEMMA ShownIs ==
  ASSUME SizesFit, Ownership, Contents, msg["batch"].buf # NULL,
         NEW o, NEW tag, Shows(o, tag, msg["batch"].buf, heap[msg["batch"].buf], host)
  PROVE  Readable(o) /\ Shown(o) = Doc(host, tag)
<1> DEFINE b == msg["batch"].buf
           B == heap[b]
<1>1. CASE o.own
  BY <1>1 DEF Shows, Readable, Shown
<1>2. CASE ~o.own
  <2>1. o.block = b /\ DocIn(B, host, o.off, tag)
    BY <1>2 DEF Shows
  <2>2. b \in DOMAIN heap /\ IsSequence(B) /\ host \in Builds
    BY BatchBytes
  <2> HIDE DEF b
  <2>3. objsize(B, o.off) = 6
    BY <2>1, <2>2, DocSize DEF objsize, getInt
  <2>4. SubSeq(B, o.off + 1, o.off + 6) = Doc(host, tag)
    BY <2>1 DEF DocIn
  <2>5. Shown(o) = Doc(host, tag)
    BY <1>2, <2>1, <2>3, <2>4, Zenon DEF Shown
  <2> QED
    BY <1>2, <2>1, <2>2, <2>5 DEF Readable
<1> QED
  BY <1>1, <1>2

\* putBack()
LEMMA PutBackDeliveries ==
  ASSUME SizesFit, Ownership, Contents, Deliveries, PutBack
  PROVE  Deliveries'
<1> DEFINE v == cursor.view
           p == cursor.putBack
           d == cursor.due
           left == cursor.nReturned - cursor.pos
           data == cursor.data
           b == msg["batch"].buf
           B == heap[b]
           o == [own |-> TRUE, block |-> NULL, off |-> 0, bytes |-> Shown(Last(v))]
<1>1. Delivered(v, p, d, left, data, b, B, host)
  BY DEF Deliveries
<1>2. heap' = heap /\ msg' = msg /\ host' = host
  BY DEF PutBack
<1>3. DOMAIN cursor = {"nReturned", "pos", "data", "putBack", "view", "id", "batches", "due"}
  BY DEF Ownership, CursorTypeOK
<1>4. /\ IsSequence(v) /\ IsSequence(p) /\ IsSequence(d) /\ left \in Nat
      /\ Len(v) + Len(p) + left = Len(d) /\ (Len(d) > 0 => b # NULL)
      /\ \A i \in 1..Len(v) : Shows(v[i], d[i], b, B, host)
  BY <1>1 DEF Delivered
<1>5. /\ v # <<>> /\ cursor'.view = Front(v) /\ cursor'.putBack = Append(p, o) /\ cursor'.due = d
      /\ cursor'.nReturned = cursor.nReturned /\ cursor'.pos = cursor.pos /\ cursor'.data = data
  BY <1>3 DEF PutBack
<1>6. cursor'.nReturned - cursor'.pos = left
  BY <1>5
<1>7. o.own /\ o.bytes = Shown(Last(v)) /\ Last(v) = v[Len(v)]
  BY DEF Last
<1>8. msg'["batch"].buf = b /\ heap'[msg'["batch"].buf] = B
  BY <1>2
<1> HIDE DEF v, p, d, left, data, o
<1>9. Len(v) \in Nat /\ Len(v) # 0 /\ Len(p) \in Nat /\ Len(v) \in 1..Len(v)
  BY <1>4, <1>5, EmptySequence
<1>10. b # NULL
  BY <1>4, <1>9
<1>11. Shows(v[Len(v)], d[Len(v)], b, B, host)
  BY <1>4, <1>9
<1>12. Shown(v[Len(v)]) = Doc(host, d[Len(v)])
  BY <1>10, <1>11, ShownIs
<1> HIDE DEF b, B
<1>13. Delivered(Front(v), Append(p, o), d, left, data, b, B, host)
  <2>1. o.own /\ o.bytes = Doc(host, d[Len(v)])
    BY <1>7, <1>12
  <2> QED
    BY <1>1, <1>9, <2>1, Returned
<1> QED
  BY <1>2, <1>5, <1>6, <1>8, <1>13, Zenon DEF Deliveries

\* The caller is done with an object.
LEMMA ConsumeDeliveries ==
  ASSUME Ownership, Deliveries, Consume
  PROVE  Deliveries'
<1> DEFINE v == cursor.view
           p == cursor.putBack
           d == cursor.due
           left == cursor.nReturned - cursor.pos
           data == cursor.data
           b == msg["batch"].buf
           B == heap[b]
<1>1. Delivered(v, p, d, left, data, b, B, host)
  BY DEF Deliveries
<1>2. heap' = heap /\ msg' = msg /\ host' = host
  BY DEF Consume
<1>3. DOMAIN cursor = {"nReturned", "pos", "data", "putBack", "view", "id", "batches", "due"}
  BY DEF Ownership, CursorTypeOK
<1>4. /\ v # <<>> /\ cursor'.view = Tail(v) /\ cursor'.putBack = p /\ cursor'.due = Tail(d)
      /\ cursor'.nReturned = cursor.nReturned /\ cursor'.pos = cursor.pos /\ cursor'.data = data
  BY <1>3 DEF Consume
<1>5. cursor'.nReturned - cursor'.pos = left
  BY <1>4
<1>6. msg'["batch"].buf = b /\ heap'[msg'["batch"].buf] = B
  BY <1>2
<1>7. Len(v) # 0
  <2>1. IsSequence(v)
    BY <1>1 DEF Delivered
  <2> QED
    BY <1>4, <2>1, EmptySequence
<1> HIDE DEF v, p, d, left, data, b, B
<1>8. Delivered(Tail(v), p, Tail(d), left, data, b, B, host)
  BY <1>1, <1>7, Consumed
<1> QED
  BY <1>2, <1>4, <1>5, <1>6, <1>8, Zenon DEF Deliveries

LEMMA InitDeliveries == Init => Deliveries
<1> SUFFICES ASSUME Init PROVE Deliveries
  OBVIOUS
<1>1. /\ cursor.view = <<>> /\ cursor.putBack = <<>> /\ cursor.due = <<>> /\ cursor.data = 0
      /\ cursor.nReturned = 0 /\ cursor.pos = 0
  BY DEF Init
<1>2. cursor.nReturned - cursor.pos = 0
  BY <1>1
<1>3. IsSequence(<<>>) /\ Len(<<>>) = 0 /\ 0 \in Nat /\ 0 + 0 + 0 = 0 /\ ~(0 > 0) /\ 1..0 = {}
  BY DEF IsSequence
<1> DEFINE b == msg["batch"].buf
           B == heap[b]
<1> HIDE DEF b, B
<1>4. Delivered(<<>>, <<>>, <<>>, 0, 0, b, B, host)
  BY <1>3, Zenon DEF Delivered
<1> QED
  BY <1>1, <1>2, <1>4, Zenon DEF Deliveries, b, B

LEMMA NextDeliveries ==
  ASSUME SizesFit, Ownership, Contents, Deliveries, [Next]_vars
  PROVE  Deliveries'
<1>1. CASE \/ \E n \in Tails, first \in BOOLEAN : Build(n, first)
           \/ \E b \in caller, freeIt \in BOOLEAN : SetData("toSend", b, freeIt)
           \/ \E n \in Tails : SetDataOperation("toSend", dbQuery, n)
           \/ \E b \in caller : CallerFrees(b)
           \/ Assign("response", "toSend")
           \/ UNCHANGED vars
  <2>1. BatchKept
    BY <1>1, CallerKept
  <2> QED
    BY <2>1, DeliveriesKept
<1>2. CASE \E m \in {"toSend", "response"} :
              \/ \E b \in caller : \E n \in {0, Len(heap[b])} : AppendData(m, b, n)
              \/ Concat(m) \/ Reset(m) \/ Say(m, 1)
  <2>1. PICK m \in {"toSend", "response"} :
              \/ \E b \in caller : \E n \in {0, Len(heap[b])} : AppendData(m, b, n)
              \/ Concat(m) \/ Reset(m) \/ Say(m, 1)
    BY <1>2
  <2>2. CASE \E b \in caller : \E n \in {0, Len(heap[b])} : AppendData(m, b, n)
    <3>1. BatchKept
      BY <2>2, AppendDataKept
    <3> QED
      BY <3>1, DeliveriesKept
  <2>3. CASE Concat(m) \/ Reset(m) \/ Say(m, 1)
    <3>1. BatchKept
      BY <2>3, MessageKept
    <3> QED
      BY <3>1, DeliveriesKept
  <2> QED
    BY <2>1, <2>2, <2>3
<1>3. ASSUME NEW k \in 0..MaxDocs, NEW id \in 0..1,
             DataReceived([i \in 1..k |-> 10 * cursor.batches + i], id)
      PROVE  Deliveries'
  <2> DEFINE tags == [i \in 1..k |-> 10 * cursor.batches + i]
  <2>1. tags = [i \in 1..k |-> tags[i]]
    OBVIOUS
  <2>2. DataReceived(tags, id)
    BY <1>3
  <2> HIDE DEF tags
  <2> QED
    BY <2>1, <2>2, DataReceivedDeliveries
<1>4. CASE NextObject
  BY <1>4, NextObjectDeliveries
<1>5. CASE PutBack
  BY <1>5, PutBackDeliveries
<1>6. CASE Consume
  BY <1>6, ConsumeDeliveries
<1> QED
  BY <1>1, <1>2, <1>3, <1>4, <1>5, <1>6 DEF Next

\* The stack read from its top.
LEMMA Reversed ==
  ASSUME NEW s, IsSequence(s)
  PROVE  /\ IsSequence(Reverse(s)) /\ Len(Reverse(s)) = Len(s)
         /\ \A i \in 1..Len(s) : Reverse(s)[i] = s[Len(s) + 1 - i]
<1> DEFINE n == Len(s)
           t == [i \in 1..n |-> s[(n - i) + 1]]
<1>1. Reverse(s) = t
  BY DEF Reverse
<1>2. n \in Nat
  BY DEF IsSequence
<1>3. t = [i \in 1..n |-> t[i]] /\ \A i \in 1..n : t[i] = s[(n - i) + 1]
  OBVIOUS
<1> HIDE DEF t, n
<1>4. IsSequence(t) /\ Len(t) = n
  BY <1>2, <1>3, SequenceFrom
<1>5. \A i \in 1..n : (n - i) + 1 = n + 1 - i
  BY <1>2
<1>6. \A i \in 1..n : t[i] = s[n + 1 - i]
  BY <1>3, <1>5, Zenon
<1> QED
  BY <1>1, <1>4, <1>6 DEF n

LEMMA OrderWhenDelivered ==
  ASSUME SizesFit, Ownership, Contents, Deliveries
  PROVE  ObjectsInOrder
<1> DEFINE v == cursor.view
           p == cursor.putBack
           d == cursor.due
           left == cursor.nReturned - cursor.pos
           data == cursor.data
           b == msg["batch"].buf
           B == heap[b]
           back == Reverse(p)
           seen == v \o back
           n == Len(v)
           r == Len(p)
<1>1. Delivered(v, p, d, left, data, b, B, host)
  BY DEF Deliveries
<1>2. /\ IsSequence(v) /\ IsSequence(p) /\ IsSequence(d) /\ left \in Nat /\ data \in Nat
      /\ n + r + left = Len(d) /\ (Len(d) > 0 => b # NULL)
  BY <1>1 DEF Delivered
<1>3. \A i \in 1..n : Shows(v[i], d[i], b, B, host)
  BY <1>1 DEF Delivered
<1>4. \A i \in 1..r : Shows(p[i], d[n + r + 1 - i], b, B, host)
  BY <1>1 DEF Delivered
<1>5. \A j \in 1..left : DocIn(B, host, data + 6 * (j - 1), d[n + r + j])
  BY <1>1 DEF Delivered
<1>6. n \in Nat /\ r \in Nat /\ cursor.nReturned \in Nat /\ cursor.pos \in Nat
  BY <1>2, EmptySequence DEF Ownership, CursorTypeOK
<1>7. n + objsLeftInBatch = Len(d)
  <2>1. objsLeftInBatch = r + cursor.nReturned - cursor.pos
    BY DEF objsLeftInBatch
  <2>2. left = cursor.nReturned - cursor.pos /\ n + r + left = Len(d)
    BY <1>2
  <2> HIDE DEF left, n, r, d
  <2> QED
    BY <1>6, <2>1, <2>2
<1>8. IsSequence(back) /\ Len(back) = r /\ \A i \in 1..r : back[i] = p[r + 1 - i]
  BY <1>2, Reversed
<1> HIDE DEF v, p, d, left, data, b, B, n, r, back
<1>9. /\ IsSequence(seen) /\ Len(seen) = n + r
      /\ \A i \in 1..n : seen[i] = v[i]
      /\ \A i \in (n + 1)..(n + r) : seen[i] = back[i - n]
  <2>1. IsSequence(v) /\ IsSequence(back)
    BY <1>2, <1>8
  <2>2. /\ IsSequence(v \o back) /\ Len(v \o back) = Len(v) + Len(back)
        /\ \A i \in 1..Len(v) : (v \o back)[i] = v[i]
        /\ \A i \in (Len(v) + 1)..(Len(v) + Len(back)) : (v \o back)[i] = back[i - Len(v)]
    BY <2>1, Concatenation
  <2>3. Len(v) = n /\ Len(back) = r
    BY <1>8 DEF n
  <2> QED
    BY <2>2, <2>3, Zenon
<1> HIDE DEF seen
<1>10. DOMAIN seen = 1..(n + r)
  BY <1>9 DEF IsSequence
<1>11. ASSUME NEW i \in 1..(n + r) PROVE Shows(seen[i], d[i], b, B, host)
  <2>1. CASE i \in 1..n
    BY <1>3, <1>9, <2>1, Zenon
  <2>2. CASE i \notin 1..n
    <3>1. i \in (n + 1)..(n + r) /\ i - n \in 1..r /\ r + 1 - (i - n) \in 1..r
          /\ n + r + 1 - (r + 1 - (i - n)) = i
      BY <1>6, <2>2
    <3>2. seen[i] = p[r + 1 - (i - n)]
      BY <1>8, <1>9, <3>1, Zenon
    <3>3. Shows(p[r + 1 - (i - n)], d[n + r + 1 - (r + 1 - (i - n))], b, B, host)
      BY <1>4, <3>1, Zenon
    <3> QED
      BY <3>1, <3>2, <3>3, Zenon
  <2> QED
    BY <2>1, <2>2
<1>12. ASSUME NEW i \in DOMAIN seen PROVE Readable(seen[i]) /\ Shown(seen[i]) = Doc(host, d[i])
  <2>1. i \in 1..(n + r)
    BY <1>10
  <2>2. Len(d) > 0
    BY <1>2, <1>6, <2>1
  <2>3. b # NULL /\ Shows(seen[i], d[i], b, B, host)
    BY <1>2, <1>11, <2>1, <2>2
  <2> QED
    BY <2>3, ShownIs DEF b, B
<1>13. ASSUME left > 0
       PROVE  SubSeq(B, data + 1, data + INT.w + 2) = Doc(host, d[Len(seen) + 1])
  <2>1. 1 \in 1..left /\ data + 6 * (1 - 1) = data /\ Len(seen) + 1 = n + r + 1
    BY <1>2, <1>9, <1>13
  <2>2. DocIn(B, host, data, d[n + r + 1])
    BY <1>5, <2>1, Zenon
  <2>3. SubSeq(B, data + 1, data + 6) = Doc(host, d[n + r + 1])
    BY <2>2 DEF DocIn
  <2>4. data + INT.w + 2 = data + 6
    BY <1>2, Offsets
  <2> QED
    BY <2>1, <2>3, <2>4, Zenon
<1> QED
  BY <1>7, <1>12, <1>13, Zenon DEF ObjectsInOrder, v, p, d, left, data, b, B, back, seen, n

\* next() hands out the documents the server sent, in the order it sent them and each of them
\* once, however often the caller puts one back: what it holds, what was put back and the rest
\* of the batch are what is due, objsLeftInBatch() counts the latter two, and every object held
\* can still be read.
THEOREM DocumentsInOrder == Spec => []ObjectsInOrder
<1>0. SizesFit
  BY SizesAssumption
<1>1. Init => Ownership /\ Contents /\ Deliveries
  BY InitOwnership, InitContents, InitDeliveries
<1>2. Ownership /\ Contents /\ Deliveries /\ [Next]_vars => (Ownership /\ Contents /\ Deliveries)'
  BY <1>0, NextOwnership, NextContents, NextDeliveries
<1>3. Ownership /\ Contents /\ Deliveries => ObjectsInOrder
  BY <1>0, OrderWhenDelivered
<1> QED
  BY <1>1, <1>2, <1>3, PTL DEF Spec

=============================================================================
