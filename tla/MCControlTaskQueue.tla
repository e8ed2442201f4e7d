------------------------- MODULE MCControlTaskQueue -------------------------
(* Model of ControlTaskQueue for TLC.                                      *)
EXTENDS ControlTaskQueue, TLC

UserSymmetry == Permutations(Users)

Workload(k, b, n) == [kind |-> k, completer |-> b, calls |-> n]

\* Four calls for the plainest tasks, three for the others.
AllKinds ==
    {Workload("plain", FALSE, 4), Workload("plain", TRUE, 3),
     Workload("pausing", FALSE, 3), Workload("pausing", TRUE, 3)}

TwoCalls == {Workload("plain", FALSE, 2)}

FourCalls == {Workload("plain", FALSE, 4)}
=============================================================================
