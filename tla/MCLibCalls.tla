------------------------------- MODULE MCLibCalls -------------------------------
(***************************************************************************)
(* What the library functions are called with.                             *)
(***************************************************************************)
EXTENDS Lib, TLC

MCNumbers == UNION {[1..n -> {-1, -3, 0, 2, 5, 9}] : n \in 0..3} \union {<<-3, -1>> \o s : s \in [1..2 -> {0, 2, 33, 15}]}
  \union {<<-2, 0, 33>> \o s : s \in [1..3 -> {0, 8, 15}]} \union {<<-3>> \o s : s \in [1..3 -> {1, 2, 8, 9}]}
MCBlocks == {m \in [1..6 -> 0..3] : m[6] = 0 /\ m[1] = 1 /\ m[5] = 2}
MCStrings == {s \o <<0>> : s \in UNION {[1..n -> {-1, 1, 2}] : n \in 0..2}}
MCLines == UNION {[1..n -> {-1, -4, 1, 2, 5}] : n \in 0..5}
=============================================================================
