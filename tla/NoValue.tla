------------------------------ MODULE NoValue -------------------------------
(* What the code writes null or undefined for, shared by the parts.         *)
CONSTANT None
=============================================================================
