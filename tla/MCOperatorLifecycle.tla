------------------------- MODULE MCOperatorLifecycle -------------------------
(***************************************************************************)
(* Two operators in one PE, a thread with two locals and one with one.     *)
(***************************************************************************)
EXTENDS OperatorLifecycle, TLC

CONSTANTS o1, o2, t1, t2, l1, l2, l3

MCHandle == {o1, o2, l1, l2, l3}
MCLocals == (t1 :> {l1, l2}) @@ (t2 :> {l3})
=============================================================================
