----------------------------- MODULE FecWriter -----------------------------
(* fec::Writer: source packets pass through and are numbered within blocks, *)
(* and every finished block is followed by its repair packets.              *)
(*                                                                          *)
(* A packet carries the fields the receiver tells it by (sn, sbn, esi,      *)
(* sblen, blen, size) and two that only the properties read: id, the        *)
(* position of the source packet in the stream, and blk, the position of    *)
(* its block.  sn, the RTP sequence number, is the packetizer's.            *)
EXTENDS Integers, Sequences, FiniteSets

CONSTANTS
    Schemes,        \* FEC schemes the session may use: "rs8m", "ldpc"
    SnMod, SbnMod,  \* number of values of seqnum_t and blknum_t
    FirstSn, FirstSbn,  \* fast_random_range() in the constructors
    MaxBlockLength, \* max_block_length() of the codec
    BlockSizes,     \* <<sblen, rblen>> the sender asks for; the first of FirstSizes
    FirstSizes,
    PayloadSizes, FirstPayload,     \* sizes of packets, and of the first one
    MaxPackets,     \* bound on the source packets written, for each length of the
                    \* first block
    MaxEvents       \* bound on resizes, size changes, failed allocations and
                    \* duplicated packets, together

ASSUME WriterAssumption ==
    /\ FirstSizes \subseteq BlockSizes
    /\ \A s \in BlockSizes : s[1] \in Nat /\ s[2] \in Nat
    /\ \A s \in FirstSizes : s[1] > 0 /\ s[1] + s[2] <= MaxBlockLength

VARIABLES
    scheme,
    writer,     \* the members of fec::Writer
    blocks,     \* for each block begun: id of its first packet, and its length
    net,        \* packets sent and still in the network
    n_packets,  \* source packets written so far
    events      \* what MaxEvents bounds

writer_vars == <<scheme, writer, blocks, n_packets>>

\* Writer::Writer. first_packet_ and cur_block_repair_sn_ are assigned and never
\* read; the block lengths take effect when a block begins.
WriterInit ==
    /\ scheme \in Schemes
    /\ \E s \in FirstSizes :
         writer = [alive |-> TRUE, cur_sblen |-> 0, cur_rblen |-> 0,
                   cur_payload_size |-> 0, cur_sbn |-> FirstSbn, cur_packet |-> 0,
                   next_sblen |-> s[1], next_rblen |-> s[2]]
    /\ blocks = <<>>
    /\ net = {}
    /\ n_packets = 0
    /\ events = 0

\* n more unusual events, within the bound
Count(n) == events + n <= MaxEvents /\ events' = events + n

\* The bound on the source packets is not reached.
MayWrite ==
    n_packets < MaxPackets[IF blocks = <<>> THEN writer.next_sblen ELSE blocks[1].sblen]

\* Writer::resize
Resize(sblen, rblen) ==
    /\ <<sblen, rblen>> # <<writer.next_sblen, writer.next_rblen>>
    /\ sblen # 0
    /\ sblen + rblen <= MaxBlockLength
    /\ writer' = [writer EXCEPT !.next_sblen = sblen, !.next_rblen = rblen]
    /\ Count(1)
    /\ UNCHANGED <<scheme, blocks, net, n_packets>>

\* What the parser on the other side reads: RS8M headers have no room for the
\* block length and report the largest one, LDPC source headers report zero.
OnWire(p) ==
    [p EXCEPT !.blen = CASE scheme = "rs8m" -> MaxBlockLength
                         [] scheme = "ldpc" /\ p.kind = "source" -> 0
                         [] OTHER -> @]

\* Writer::fill_packet_fec_fields_
FecPacket(w, kind, esi) ==
    [kind |-> kind, esi |-> esi, sbn |-> w.cur_sbn, sblen |-> w.cur_sblen,
     blen |-> w.cur_sblen + w.cur_rblen, size |-> w.cur_payload_size,
     id |-> IF kind = "source" THEN n_packets ELSE -1,
     sn |-> IF kind = "source" THEN (FirstSn + n_packets) % SnMod ELSE 0,
     blk |-> Len(blocks'), restored |-> FALSE]

\* Writer::apply_sizes_
apply_sizes_(w, size) ==
    [w EXCEPT !.cur_sblen = w.next_sblen, !.cur_rblen = w.next_rblen,
              !.cur_payload_size = size]

\* Writer::begin_block_, called for the first packet of a block
begin_block_(w, size) == IF w.cur_packet = 0 THEN apply_sizes_(w, size) ELSE w

\* Writer::next_block_
next_block_w(w) ==
    [w EXCEPT !.cur_sbn = (@ + 1) % SbnMod, !.cur_packet = 0]

\* Writer::end_block_: the repair packets that could be allocated are encoded
\* from the whole block, composed and written; the rest are left out.
RepairPackets(w, made) ==
    {OnWire(FecPacket(w, "repair", w.cur_sblen + i)) : i \in made}

\* Writer::write, the packet is sent
Write(size) ==
    LET w == begin_block_(writer, size)
        last == w.cur_packet + 1 = w.cur_sblen
        source == OnWire(FecPacket(w, "source", w.cur_packet))
        counted == [w EXCEPT !.cur_packet = @ + 1]
    IN  /\ writer.alive
        /\ MayWrite
        /\ size # 0
        /\ size = w.cur_payload_size
        /\ blocks' = IF writer.cur_packet = 0
                     THEN Append(blocks, [first |-> n_packets, sblen |-> w.cur_sblen])
                     ELSE blocks
        /\ \E made \in SUBSET (0 .. (IF last THEN w.cur_rblen ELSE 0) - 1) :
             LET missed == IF last THEN w.cur_rblen - Cardinality(made) ELSE 0
                 changed == size # IF n_packets = 0 THEN FirstPayload
                                   ELSE writer.cur_payload_size
             IN  /\ Count(missed + IF changed THEN 1 ELSE 0)
                 /\ net' = net \cup {source} \cup RepairPackets(w, made)
        /\ writer' = IF last THEN next_block_w(counted) ELSE counted
        /\ n_packets' = n_packets + 1
        /\ UNCHANGED scheme

\* Writer::write, the writer shuts down and drops the packet: the block or the
\* encoder could not be set up, or the payload size changed within a block. The
\* caller still gets StatusOK.
WriteDies(size) ==
    /\ writer.alive
    /\ MayWrite
    /\ writer.cur_packet = 0 \/ size # writer.cur_payload_size
    /\ Count(1)
    /\ writer' = [writer EXCEPT !.alive = FALSE]
    /\ UNCHANGED <<scheme, blocks, net, n_packets>>

WriterNext ==
    \/ \E s \in BlockSizes : Resize(s[1], s[2])
    \/ \E size \in PayloadSizes : Write(size) \/ WriteDies(size)
=============================================================================
