----------------------------- MODULE FecReader -----------------------------
(* fec::Reader over two sorted queues, with the OpenFEC decoder it drives.  *)
(* One call of read() is one step: the pipeline thread is its only caller.  *)
(* Its loops are folds and recursions over a record of the members, named   *)
(* as in the code; blk is the position in the stream of the block cur_sbn   *)
(* numbers, panic is "assert" where the code calls roc_panic and "null"     *)
(* where it dereferences a null FEC header, and unrestored is set once a    *)
(* packet that Reed-Solomon decoded was dropped for want of memory.         *)
EXTENDS FecWriter, PacketUnits, SequencesExt, FiniteSetsExt

CONSTANT
    MaxSbnJump      \* ReaderConfig::max_sbn_jump

VARIABLES
    source_in, repair_in,   \* the queues behind source_reader_ and repair_reader_
    reader,                 \* the members of fec::Reader
    returned,               \* the packet that read() returns in this step
    seen                    \* packets a started reader has had at hand

NoPacket == [kind |-> "none"]

blknum_lt(a, b) == unit_lt(a, b, SbnMod)

blknum_le(a, b) == unit_le(a, b, SbnMod)

\* RTP::compare for source packets, FEC::compare for repair packets
RtpCompare(p, q) ==
    IF unit_lt(p.sn, q.sn, SnMod) THEN -1 ELSE IF p.sn = q.sn THEN 0 ELSE 1

FecCompare(p, q) ==
    IF blknum_lt(p.sbn, q.sbn) THEN -1
    ELSE IF p.sbn # q.sbn THEN 1
    ELSE IF p.esi < q.esi THEN -1 ELSE IF p.esi = q.esi THEN 0 ELSE 1

\* Packet::compare: repair packets have no RTP header.
PacketCompare(p, q) ==
    IF p.kind = "source" /\ q.kind = "source" THEN RtpCompare(p, q) ELSE FecCompare(p, q)

Sorted == INSTANCE SortedQueue WITH compare <- PacketCompare

\* Reader::Reader
ReaderInit ==
    /\ source_in = <<>> /\ repair_in = <<>>
    /\ reader = [alive |-> TRUE, started |-> FALSE, can_repair |-> FALSE,
                 next_packet |-> 0, cur_sbn |-> 0, payload_size |-> 0,
                 source_block |-> <<>>, repair_block |-> <<>>,
                 source_block_resized |-> FALSE, repair_block_resized |-> FALSE,
                 payload_resized |-> FALSE,
                 source_queue |-> <<>>, repair_queue |-> <<>>,
                 blk |-> 0, panic |-> "no", unrestored |-> FALSE]
    /\ returned = NoPacket
    /\ seen = {}

\* core::Array::resize: a prefix is kept, new elements are null
ResizeArray(a, n) == [i \in 1 .. n |-> IF i <= Len(a) THEN a[i] ELSE NoPacket]

PanicAs(r, what) == [r EXCEPT !.panic = what, !.alive = FALSE]

Panic(r) == PanicAs(r, "assert")

Die(r) == [r EXCEPT !.alive = FALSE]

\* Reader::validate_incoming_source_packet_
validate_incoming_source_packet_(p) ==
    /\ p.esi < p.sblen
    /\ p.sblen # 0
    /\ p.blen # 0 => p.sblen <= p.blen
    /\ p.size # 0

\* Reader::validate_incoming_repair_packet_
validate_incoming_repair_packet_(p) ==
    /\ p.esi >= p.sblen
    /\ p.sblen # 0
    /\ p.blen # 0 => p.esi < p.blen /\ p.sblen <= p.blen
    /\ p.size # 0

\* Reader::can_update_payload_size_
can_update_payload_size_(r, size) == r.payload_size = size \/ ~r.payload_resized

\* Another size than the present one, above the maximum: the reader shuts down.
TooLong(cur, new) == cur # new /\ new > MaxBlockLength

\* Reader::can_update_source_block_size_, without the check of the maximum
can_update_source_block_size_(r, sblen) ==
    Len(r.source_block) = sblen \/ ~r.source_block_resized

\* Reader::can_update_repair_block_size_, without the check of the maximum
can_update_repair_block_size_(r, blen) ==
    Len(r.source_block) + Len(r.repair_block) = blen \/ ~r.repair_block_resized

\* Reader::update_payload_size_
update_payload_size_(r, size) ==
    [r EXCEPT !.payload_size = size, !.payload_resized = TRUE]

\* Seeded fault: the array only grows.
update_source_block_size_grow(r, sblen, nomem) ==
    [ok |-> TRUE,
     r |-> [r EXCEPT !.source_block_resized = TRUE,
                     !.source_block = IF sblen > Len(@) THEN ResizeArray(@, sblen) ELSE @]]

\* Reader::update_source_block_size_: its result, and the reader after it.
\* nomem says whether the allocations of arrays fail in this call of read().
update_source_block_size_(r, sblen, nomem) ==
    IF sblen > Len(r.source_block) /\ nomem THEN [ok |-> FALSE, r |-> Die(r)]
    ELSE [ok |-> TRUE,
          r |-> [r EXCEPT !.source_block = ResizeArray(@, sblen),
                          !.source_block_resized = TRUE]]

\* Reader::update_repair_block_size_
update_repair_block_size_(r, blen, nomem) ==
    LET rblen == blen - Len(r.source_block)
    IN  IF rblen = Len(r.repair_block)
        THEN [ok |-> TRUE, r |-> [r EXCEPT !.repair_block_resized = TRUE]]
        ELSE IF rblen <= 0 THEN [ok |-> FALSE, r |-> Panic(r)]
        ELSE IF rblen > Len(r.repair_block) /\ nomem THEN [ok |-> FALSE, r |-> Die(r)]
        ELSE [ok |-> TRUE,
              r |-> [r EXCEPT !.repair_block = ResizeArray(@, rblen),
                              !.repair_block_resized = TRUE]]

\* Reader::process_source_packet_: its result, and the reader after it
process_source_packet_(r, p, nomem) ==
    IF \/ ~validate_incoming_source_packet_(p)
       \/ ~can_update_payload_size_(r, p.size)
       \/ ~can_update_source_block_size_(r, p.sblen)
    THEN [ok |-> FALSE, r |-> r]
    ELSE IF TooLong(Len(r.source_block), p.sblen)
    THEN [ok |-> FALSE, r |-> Die(r)]
    ELSE update_source_block_size_(update_payload_size_(r, p.size), p.sblen, nomem)

\* Reader::process_repair_packet_
process_repair_packet_(r, p, nomem) ==
    LET sized == update_source_block_size_(update_payload_size_(r, p.size),
                                           p.sblen, nomem)
    IN  IF \/ ~validate_incoming_repair_packet_(p)
           \/ ~can_update_payload_size_(r, p.size)
           \/ ~can_update_source_block_size_(r, p.sblen)
        THEN [ok |-> FALSE, r |-> r]
        ELSE IF TooLong(Len(r.source_block), p.sblen) THEN [ok |-> FALSE, r |-> Die(r)]
        ELSE IF ~can_update_repair_block_size_(r, p.blen) THEN [ok |-> FALSE, r |-> r]
        ELSE IF TooLong(Len(r.source_block) + Len(r.repair_block), p.blen)
        THEN [ok |-> FALSE, r |-> Die(r)]
        ELSE IF ~sized.ok THEN sized
        ELSE update_repair_block_size_(sized.r, p.blen, nomem)

\* Reader::validate_sbn_sequence_
validate_sbn_sequence_(r, p) == unit_dist(p.sbn, r.cur_sbn, SbnMod) <= MaxSbnJump

\* A packet of the current block is put in its place, unless the place is taken.
PutSource(r, p) ==
    IF p.sblen # Len(r.source_block) \/ p.esi >= Len(r.source_block) THEN Panic(r)
    ELSE IF r.source_block[p.esi + 1] # NoPacket THEN r
    ELSE [r EXCEPT !.can_repair = TRUE, !.source_block[p.esi + 1] = p]

\* Seeded fault: a new repair packet does not call for another attempt.
PutRepair_once(r, p) ==
    LET pos == p.esi - p.sblen + 1
    IN  IF \/ p.esi < Len(r.source_block)
           \/ p.esi >= Len(r.source_block) + Len(r.repair_block) THEN Panic(r)
        ELSE [r EXCEPT !.repair_block[pos] = p]

PutRepair(r, p) ==
    LET pos == p.esi - p.sblen + 1
    IN  IF \/ p.sblen # Len(r.source_block)
           \/ p.esi < Len(r.source_block)
           \/ p.esi >= Len(r.source_block) + Len(r.repair_block) THEN Panic(r)
        ELSE IF r.repair_block[pos] # NoPacket THEN r
        ELSE [r EXCEPT !.can_repair = TRUE, !.repair_block[pos] = p]

\* Reader::fill_source_block_: from the head of the queue, packets of earlier
\* blocks are dropped and packets of this block are placed; a packet of a later
\* block ends the loop, and a block number too far away shuts the reader down.
fill_source_block_(r0, nomem) ==
    LET Take(acc, p) ==
            LET r == acc.r
                popped == [r EXCEPT !.source_queue = Tail(@)]
                processed == process_source_packet_(popped, p, nomem)
            IN  IF acc.stop THEN acc
                ELSE IF ~validate_sbn_sequence_(r, p)
                THEN [r |-> Die(r), stop |-> TRUE]
                ELSE IF ~blknum_le(p.sbn, r.cur_sbn) THEN [r |-> r, stop |-> TRUE]
                ELSE IF blknum_lt(p.sbn, r.cur_sbn)
                THEN [r |-> popped, stop |-> FALSE]
                ELSE [r |-> IF processed.ok THEN PutSource(processed.r, p)
                                            ELSE processed.r,
                      stop |-> FALSE]
    IN  FoldLeft(Take, [r |-> r0, stop |-> FALSE], r0.source_queue).r

\* Reader::fill_repair_block_
fill_repair_block_(r0, nomem) ==
    LET Take(acc, p) ==
            LET r == acc.r
                popped == [r EXCEPT !.repair_queue = Tail(@)]
                processed == process_repair_packet_(popped, p, nomem)
            IN  IF acc.stop THEN acc
                ELSE IF ~validate_sbn_sequence_(r, p)
                THEN [r |-> Die(r), stop |-> TRUE]
                ELSE IF ~blknum_le(p.sbn, r.cur_sbn) THEN [r |-> r, stop |-> TRUE]
                ELSE IF blknum_lt(p.sbn, r.cur_sbn)
                THEN [r |-> popped, stop |-> FALSE]
                ELSE [r |-> IF processed.ok THEN PutRepair(processed.r, p)
                                            ELSE processed.r,
                      stop |-> FALSE]
    IN  FoldLeft(Take, [r |-> r0, stop |-> FALSE], r0.repair_queue).r

\* Reader::fill_block_
fill_block_(r, nomem) == fill_repair_block_(fill_source_block_(r, nomem), nomem)

\* Seeded fault: the repair packets of the last block stay.
next_block_keep(r, nomem) ==
    LET cleared ==
            [r EXCEPT !.source_block = [i \in DOMAIN @ |-> NoPacket],
                      !.cur_sbn = (@ + 1) % SbnMod, !.blk = @ + 1,
                      !.next_packet = 0, !.can_repair = FALSE,
                      !.source_block_resized = FALSE,
                      !.repair_block_resized = FALSE, !.payload_resized = FALSE]
    IN  fill_block_(cleared, nomem)

\* Reader::next_block_
next_block_(r, nomem) ==
    LET cleared ==
            [r EXCEPT !.source_block = [i \in DOMAIN @ |-> NoPacket],
                      !.repair_block = [i \in DOMAIN @ |-> NoPacket],
                      !.cur_sbn = (@ + 1) % SbnMod, !.blk = @ + 1,
                      !.next_packet = 0, !.can_repair = FALSE,
                      !.source_block_resized = FALSE,
                      !.repair_block_resized = FALSE, !.payload_resized = FALSE]
    IN  fill_block_(cleared, nomem)

\* Positions of the lost packets that the OpenFEC decoder gives back. Reed-Solomon
\* restores all of them once it has as many packets as the block has source packets.
\* LDPC restores what its equations yield, which may be some of them or none, all
\* but those in `missed`; each repair packet yields at most one.
Repaired(symbols, sblen, lost, missed) ==
    IF scheme = "rs8m" THEN IF Cardinality(symbols) >= sblen THEN lost ELSE {}
    ELSE IF Cardinality(lost \ missed) <= Cardinality({p \in symbols : p.kind = "repair"})
    THEN lost \ missed ELSE {}

\* A restored packet, parsed from the decoder's buffer: the RTP parser finds the
\* header of the lost packet, and the packet has no FEC header. Symbols of two
\* blocks decode to nothing that was sent.
RestoredPacket(symbols, pos) ==
    LET from == {p.blk : p \in symbols}
        id == IF Cardinality(from) = 1
              THEN blocks[CHOOSE b \in from : TRUE].first + pos - 1 ELSE -1
    IN  [kind |-> "source", restored |-> TRUE, id |-> id,
         sn |-> (FirstSn + id) % SnMod]

\* Reader::try_repair_ with OpenfecDecoder::begin, set, repair and end, and
\* parse_repaired_packet_, which fails for each packet on its own: `missed` are the
\* positions for which it finds no packet to fill. A packet that an earlier attempt
\* restored is handed to the decoder too, by the FEC header that it does not have.
try_repair_(r, missed, nomem) ==
    LET symbols == (Range(r.source_block) \cup Range(r.repair_block)) \ {NoPacket}
        lost == {i \in DOMAIN r.source_block : r.source_block[i] = NoPacket}
        decoded == Repaired(symbols, Len(r.source_block), lost, missed)
        filled == [i \in DOMAIN r.source_block |->
                    IF i \in decoded \ missed THEN RestoredPacket(symbols, i)
                    ELSE r.source_block[i]]
    IN  IF \/ ~r.can_repair
           \/ ~r.source_block_resized \/ ~r.repair_block_resized \/ ~r.payload_resized
        THEN r
        ELSE IF nomem THEN Die(r)
        ELSE IF \E p \in symbols : ~p.restored /\ p.size # r.payload_size THEN Panic(r)
        ELSE IF \E p \in symbols : p.restored THEN PanicAs(r, "null")
        ELSE [r EXCEPT !.can_repair = FALSE, !.source_block = filled,
                       !.unrestored = @ \/ decoded \cap missed # {}]

\* The first place from next_packet_ on that is filled, or one past the end.
NextFilled(r) ==
    LET filled == {i \in r.next_packet + 1 .. Len(r.source_block) :
                        r.source_block[i] # NoPacket}
    IN  IF filled = {} THEN Len(r.source_block) + 1 ELSE Min(filled)

\* The do-while loop of Reader::get_next_packet_: a missing packet is repaired or
\* skipped; a block with nothing left is left only when a later packet waits.
RECURSIVE NextPacketLoop(_, _, _, _)
NextPacketLoop(r, pp, missed, nomem) ==
    LET t == try_repair_(r, missed, nomem)
        pos == NextFilled(t)
        size == Len(t.source_block)
        MoveTo(s, n) == LET moved == [s EXCEPT !.next_packet = n]
                        IN  IF n = size THEN next_block_(moved, nomem) ELSE moved
    IN  IF ~r.alive THEN [r |-> r, ptr |-> pp]
        ELSE IF pp # NoPacket THEN [r |-> MoveTo(r, r.next_packet + 1), ptr |-> pp]
        ELSE IF t.panic # "no" THEN [r |-> t, ptr |-> NoPacket]
        ELSE IF pos <= size THEN [r |-> MoveTo(t, pos), ptr |-> t.source_block[pos]]
        ELSE IF t.source_queue = <<>> THEN [r |-> t, ptr |-> NoPacket]
        ELSE NextPacketLoop(MoveTo(t, size), NoPacket, missed, nomem)

\* Seeded fault: a block with nothing left is waited for, whatever is queued.
get_next_packet_stuck(r, missed, nomem) ==
    LET filled == fill_block_(r, nomem)
        t == try_repair_(filled, missed, nomem)
    IN  IF NextFilled(t) > Len(t.source_block) THEN [r |-> t, ptr |-> NoPacket]
        ELSE NextPacketLoop(filled, filled.source_block[filled.next_packet + 1],
                            missed, nomem)

\* Reader::get_next_packet_
get_next_packet_(r, missed, nomem) ==
    LET filled == fill_block_(r, nomem)
    IN  NextPacketLoop(filled, filled.source_block[filled.next_packet + 1],
                       missed, nomem)

\* Reader::drop_repair_packets_from_prev_blocks_
drop_repair_packets_from_prev_blocks_(r) ==
    LET kept == {i \in DOMAIN r.repair_queue :
                    ~blknum_lt(r.repair_queue[i].sbn, r.cur_sbn)}
    IN  [r EXCEPT !.repair_queue =
            IF kept = {} THEN <<>> ELSE SubSeq(@, Min(kept), Len(@))]

\* Reader::try_start_: decoding starts with the first packet of some block.
try_start_(r, nomem) ==
    LET pp == Head(r.source_queue)
        processed == process_source_packet_(r, pp, nomem)
        moved == drop_repair_packets_from_prev_blocks_(
                    [processed.r EXCEPT !.cur_sbn = pp.sbn, !.blk = pp.blk])
    IN  IF r.source_queue = <<>> THEN r
        ELSE IF ~processed.ok THEN processed.r
        ELSE [moved EXCEPT !.started = pp.esi = 0]

\* SortedQueue::read, for the packets forwarded before decoding starts
ReadQueue(r) ==
    IF r.source_queue = <<>> THEN [r |-> r, ptr |-> NoPacket]
    ELSE [r |-> [r EXCEPT !.source_queue = Tail(@)], ptr |-> Head(r.source_queue)]

\* Reader::fetch_packets_: everything that has arrived moves to the own queues.
fetch_all_packets_(r) ==
    [r EXCEPT
        !.source_queue =
            FoldLeft(LAMBDA q, p : Sorted!Write(q, p, 0), @, source_in),
        !.repair_queue =
            FoldLeft(LAMBDA q, p : Sorted!Write(q, p, 0), @, repair_in)]

\* Reader::read_
read_(r, missed, nomem) ==
    LET s == IF r.started THEN r ELSE try_start_(r, nomem)
    IN  IF s.started THEN get_next_packet_(s, missed, nomem) ELSE ReadQueue(s)

\* Reader::read. A reader that is dead, or dies in the call, returns no packet.
Read(missed, nomem) ==
    LET fetched == fetch_all_packets_(reader)
        result == read_(fetched, missed, nomem)
    IN  /\ reader.alive
        /\ reader' = result.r
        /\ returned' = IF result.r.alive THEN result.ptr ELSE NoPacket
        /\ source_in' = <<>> /\ repair_in' = <<>>
        /\ seen' = IF ~result.r.started THEN {}
                   ELSE {p \in seen \cup ToSet(fetched.source_queue)
                                    \cup ToSet(fetched.repair_queue) :
                            p.blk >= reader.blk}
=============================================================================
