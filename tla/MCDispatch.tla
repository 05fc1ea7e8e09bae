----------------------------- MODULE MCDispatch -----------------------------
(* Instances of Dispatch for TLC. *)
EXTENDS Dispatch

(* What atoi returns for a text that is no number, and an interval. *)
Positive == {0, 10}
=============================================================================
