---------------------------- MODULE MCFecStream ----------------------------
(* Model of FecStream for TLC.                                             *)
EXTENDS FecStream

\* Three repair packets are the fewest that let a Reed-Solomon block be repaired
\* in part and be tried again.
MCBlockSizes == {<<2, 1>>, <<1, 1>>, <<3, 3>>}
MCFirstSizes == {<<2, 1>>, <<3, 3>>}
MCMaxPackets == <<4, 4, 3>>
=============================================================================
