------------------------------ MODULE MCKeyboard ------------------------------
(***************************************************************************)
(* Instances of the keyboard for TLC.                                      *)
(***************************************************************************)
EXTENDS Keyboard, TLC

CONSTANTS r1, r2

MCReaders1 == {r1}
MCReaders2 == {r1, r2}
=============================================================================
