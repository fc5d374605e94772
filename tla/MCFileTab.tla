------------------------------ MODULE MCFileTab ------------------------------
(***************************************************************************)
(* Instances of the file table for TLC.                                    *)
(***************************************************************************)
EXTENDS FileTab, TLC

CONSTANTS kp, p1, p2, k, a, b, con, x

MCProc2 == {kp, p1}
MCProc3 == {kp, p1, p2}
MCNode1 == {con}
MCNode2 == {con, x}

\* One thread in each process.
MCThread1 == {k, a, b}
MCOwner1  == (k :> kp) @@ (a :> p1) @@ (b :> p2)
MCThread2 == {k, a}
MCOwner2  == (k :> kp) @@ (a :> p1)
=============================================================================
