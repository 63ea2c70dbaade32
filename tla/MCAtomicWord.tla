----------------------------- MODULE MCAtomicWord -----------------------------
(* Words of two halves of two values, and calls that collide. *)
EXTENDS AtomicWord

Op(f, a, b) == [f |-> f, a |-> a, b |-> b]
MCInputs == {Op("load", 0, 0), Op("loadRelaxed", 0, 0), Op("store", 2, 0), Op("swap", 1, 0),
             Op("compareAndSwap", 1, 3), Op("fetchAndAdd", 1, 0), Op("fetchAndSubtract", 3, 0),
             Op("addAndFetch", 3, 0), Op("subtractAndFetch", 1, 0)}
=============================================================================
