---------------------------- MODULE WriteContract ----------------------------
(***************************************************************************)
(* What the Insert, Update and Delete operators promise of each write,     *)
(* said without threads, connections or messages.                          *)
(*                                                                         *)
(* A write is issued at most once. The server may come to hold it while it *)
(* is pending. It is then settled, once and for all, in one of three ways: *)
(* counted by the metric, which says that the server holds it; reported in *)
(* an error tuple, which says that it does not; or abandoned, because      *)
(* process() was left by an exception or the PE ended, which says nothing. *)
(***************************************************************************)
CONSTANT Writes

VARIABLES held, fate

Fates == {"none", "pending", "counted", "reported", "abandoned"}

TypeOK == held \subseteq Writes /\ fate \in [Writes -> Fates]

Init == held = {} /\ fate = [w \in Writes |-> "none"]

Settle(ws, f) == fate' = [w \in Writes |-> IF w \in ws THEN f ELSE fate[w]]

Pending == {w \in Writes : fate[w] = "pending"}

Issue(w) ==
  /\ fate[w] = "none"
  /\ Settle({w}, "pending")
  /\ UNCHANGED held

Apply(w) ==
  /\ w \in Pending
  /\ held' = held \union {w}
  /\ UNCHANGED fate

Confirm(w) ==
  /\ w \in Pending \intersect held
  /\ Settle({w}, "counted")
  /\ UNCHANGED held

Report(ws) ==
  /\ ws \subseteq Pending \ held
  /\ Settle(ws, "reported")
  /\ UNCHANGED held

Abandon(ws) ==
  /\ ws \subseteq Pending
  /\ Settle(ws, "abandoned")
  /\ UNCHANGED held

Next ==
  \/ \E w \in Writes : Issue(w) \/ Apply(w) \/ Confirm(w)
  \/ \E ws \in SUBSET Writes : Report(ws) \/ Abandon(ws)

Spec == Init /\ [][Next]_<<held, fate>>
=============================================================================
