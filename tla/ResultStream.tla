----------------------------- MODULE ResultStream -----------------------------
(***************************************************************************)
(* What the Query operator promises of the answer to each input tuple, as  *)
(* seen on the output port, said without threads, connections or cursors.  *)
(*                                                                         *)
(* The documents found are gone through in order, each once; each gives    *)
(* one tuple or none. Then comes one window marker or, when nothing was    *)
(* found, one tuple without documents, and nothing after it. An answer may *)
(* also be refused before it begins, or broken off anywhere by an          *)
(* exception.                                                              *)
(***************************************************************************)
EXTENDS Naturals

CONSTANT Queries

VARIABLES phase, settled, delivered

Phases == {"none", "open", "window", "lone", "refused", "broken"}

TypeOK ==
  /\ phase \in [Queries -> Phases]
  /\ settled \in [Queries -> Nat]
  /\ delivered \in [Queries -> SUBSET Nat]

Init ==
  /\ phase = [n \in Queries |-> "none"]
  /\ settled = [n \in Queries |-> 0]
  /\ delivered = [n \in Queries |-> {}]

Enter(n, p) == phase' = [phase EXCEPT ![n] = p]

Begin(n) ==
  /\ phase[n] = "none"
  /\ Enter(n, "open") \/ Enter(n, "refused")
  /\ UNCHANGED <<settled, delivered>>

\* The next document, with or without a tuple.
Settle(n) ==
  /\ phase[n] = "open"
  /\ settled' = [settled EXCEPT ![n] = @ + 1]
  /\ \/ delivered' = [delivered EXCEPT ![n] = @ \union {settled'[n]}]
     \/ UNCHANGED delivered
  /\ UNCHANGED phase

End(n) ==
  /\ phase[n] = "open"
  /\ Enter(n, IF settled[n] > 0 THEN "window" ELSE "lone")
  /\ UNCHANGED <<settled, delivered>>

Unfinished == {n \in Queries : phase[n] \in {"none", "open"}}

BreakOff(ns) ==
  /\ ns \subseteq Unfinished
  /\ phase' = [n \in Queries |-> IF n \in ns THEN "broken" ELSE phase[n]]
  /\ UNCHANGED <<settled, delivered>>

Next ==
  \/ \E n \in Queries : Begin(n) \/ Settle(n) \/ End(n)
  \/ \E ns \in SUBSET Queries : BreakOff(ns)

Spec == Init /\ [][Next]_<<phase, settled, delivered>>
=============================================================================
