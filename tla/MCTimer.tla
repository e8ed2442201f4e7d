------------------------------ MODULE MCTimer ------------------------------
(* Model of Timer for TLC.                                                 *)
EXTENDS Timer

DeadlineValues == {-1, 0, 1}
=============================================================================
