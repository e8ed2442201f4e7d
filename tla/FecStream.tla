----------------------------- MODULE FecStream -----------------------------
(* fec::Writer and fec::Reader joined by a network that loses, reorders and *)
(* duplicates packets.  A packet that stays in the network is lost.         *)
EXTENDS FecReader

vars == <<scheme, writer, blocks, net, n_packets, events,
          source_in, repair_in, reader, returned, seen>>

Init == WriterInit /\ ReaderInit

\* packet::Router and the session's queues: a packet that arrives is put in the
\* queue of its kind. The network may still hold another copy of it.
Deliver(p) ==
    /\ \/ net' = net \ {p} /\ Count(0)
       \/ net' = net /\ Count(1)
    /\ source_in' = IF p.kind = "source"
                    THEN Sorted!Write(source_in, p, 0) ELSE source_in
    /\ repair_in' = IF p.kind = "repair"
                    THEN Sorted!Write(repair_in, p, 0) ELSE repair_in
    /\ returned' = NoPacket
    /\ UNCHANGED <<writer_vars, reader, seen>>

Send ==
    /\ WriterNext
    /\ returned' = NoPacket
    /\ UNCHANGED <<source_in, repair_in, reader, seen>>

Receive ==
    \E nomem \in BOOLEAN, missed \in SUBSET (1 .. Max({s[1] : s \in BlockSizes})) :
        /\ missed # {} => reader.started /\ ~nomem
        /\ Count(IF nomem \/ (scheme = "rs8m" /\ missed # {}) THEN 1 ELSE 0)
        /\ Read(missed, nomem)
        /\ UNCHANGED <<writer_vars, net>>

Next == Send \/ Receive \/ \E p \in net : Deliver(p)

Spec == Init /\ [][Next]_vars

----------------------------------------------------------------------------
Block(b) == blocks[b].first .. blocks[b].first + blocks[b].sblen - 1

\* The stream position that the reader returns next.
Cursor(r) ==
    IF r.blk \in DOMAIN blocks THEN blocks[r.blk].first + r.next_packet ELSE n_packets

\* The reader keeps to its bookkeeping: whatever the order, the loss and the resizing,
\* its block number is that of the block it is in, and it trips none of its own
\* assertions and none of the decoder's. One place fails: when some lost packets of
\* the current block were restored and others were not, the next attempt
\* dereferences the FEC header that a restored packet does not have.
OnlyRepairAgainPanics ==
    /\ reader.panic # "assert"
    /\ reader.panic = "null" =>
         /\ \E i \in DOMAIN reader.source_block : reader.source_block[i] = NoPacket
         /\ \E p \in Range(reader.source_block) \ {NoPacket} : p.restored
    /\ reader.started => reader.cur_sbn = (FirstSbn + reader.blk - 1) % SbnMod

\* Once decoding has started, packets come out in the order of the stream, none
\* of them twice, and a restored packet is the very packet that was lost.
InOrder ==
    [][reader.started /\ reader'.alive /\ returned' # NoPacket =>
        /\ returned'.id >= Cursor(reader)
        /\ returned'.id < Cursor(reader')]_vars

\* The reader passes over a packet only when it neither has it nor has as many
\* packets of the block as Reed-Solomon needs to restore it (and memory for it).
SkipsOnlyLost ==
    [][(/\ reader.started /\ reader'.alive
        /\ scheme = "rs8m" /\ ~reader'.unrestored) =>
        \A b \in (reader.blk .. reader'.blk) \cap DOMAIN blocks : \A id \in Block(b) :
            LET skipped == /\ id >= Cursor(reader)
                           /\ b < reader'.blk \/ id < Cursor(reader')
                           /\ \/ returned' = NoPacket
                              \/ returned'.id # id
                at_hand == {p \in seen' : p.blk = b}
            IN  skipped => /\ \A p \in at_hand : p.id # id
                           /\ Cardinality(at_hand) < blocks[b].sblen]_vars

\* read() comes back without a packet only when none is queued: the reader never
\* waits for a block while packets of later blocks pile up behind it.
NoDataMeansEmpty ==
    [][reader' # reader /\ reader'.alive /\ returned' = NoPacket =>
        reader'.source_queue = <<>>]_vars
=============================================================================
