------------------------------- MODULE MCSched -------------------------------
(***************************************************************************)
(* Instances of the scheduler, and of its refinement, for TLC, with model  *)
(* values for its structures.                                              *)
(***************************************************************************)
EXTENDS SchedInv, TLC

CONSTANTS kt, t1, t2, kp, p1, p2, kv, v1, v2

MCTasks2 == {kt, t1}
MCTasks3 == {kt, t1, t2}
MCProc1  == {kp}
MCProc2  == {kp, p1}
MCProc3  == {kp, p1, p2}
MCVmm1   == {kv}
MCVmm3   == {kv, v1, v2}

\* Task structures other than the kernel's, processes and page directories are
\* interchangeable.
MCSymmetry == Permutations({t1, t2}) \union Permutations({p1, p2})
                \union Permutations({v1, v2})
=============================================================================
