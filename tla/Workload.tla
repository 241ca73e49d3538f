------------------------------ MODULE Workload ------------------------------
(***************************************************************************)
(* A workload is the set of operations that take part in one behaviour.    *)
(* It is chosen in the initial state and never changes, so one run of TLC  *)
(* explores several mixes of operations without multiplying them.          *)
(***************************************************************************)

CONSTANT Workloads      \* the mixes of operations to explore

VARIABLE work           \* the mix of this behaviour

Does(op) == op \in work
=============================================================================
