------------------------------- MODULE MCCapture -------------------------------
(* A small instance of Capture for TLC: one transcript. *)
EXTENDS Capture

CONSTANT f1
OneFile == {f1}
=============================================================================
