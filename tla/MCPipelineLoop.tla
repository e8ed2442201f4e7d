--------------------------- MODULE MCPipelineLoop ---------------------------
(* Model of PipelineLoop for TLC.                                          *)
EXTENDS PipelineLoop, TLC

UserSymmetry == Permutations(Waiters) \cup Permutations(Users \ Waiters)
=============================================================================
