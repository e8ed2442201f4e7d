---------------------------- MODULE PacketUnits ----------------------------
(* Unsigned counters that start anywhere and wrap: seqnum_t and blknum_t    *)
(* (16 bits), stream_timestamp_t (32 bits).  m is the number of values of   *)
(* the type; the instances use small even m.                                *)
EXTENDS Integers

\* The signed difference of two unsigned values: the subtraction wraps, the
\* cast reads its upper half as negative.
unit_diff(a, b, m) == LET d == (a - b) % m IN IF 2 * d < m THEN d ELSE d - m

unit_lt(a, b, m) == unit_diff(a, b, m) < 0

unit_le(a, b, m) == unit_diff(a, b, m) <= 0

\* "if (dist < 0) dist = -dist; (size_t)dist": the distance of two values. The
\* most negative difference has no negation in its type and becomes a huge
\* size_t, which m stands for.
unit_dist(a, b, m) ==
    LET d == unit_diff(a, b, m)
    IN  IF 2 * d = -m THEN m ELSE IF d < 0 THEN -d ELSE d
=============================================================================
