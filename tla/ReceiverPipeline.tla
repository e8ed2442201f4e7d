--------------------------- MODULE ReceiverPipeline ---------------------------
(* The receiver pipeline: ReceiverSource owns slots; a ReceiverSlot has one   *)
(* endpoint per interface, each with a queue of packets that arrived, and a   *)
(* group of sessions, one per address that packets come from.  Every session  *)
(* is an input of the mixer.  ReceiverState counts the packets that are not   *)
(* yet routed and the sessions of all slots.                                  *)
(*                                                                            *)
(* The operators map a pipeline to the pipeline an operation leaves; who      *)
(* performs them, and when, is in ReceiverNode.                               *)
EXTENDS Integers, Sequences, FiniteSets, Functions

CONSTANTS
    Handles,    \* the addresses a pipeline slot may have
    Addresses,  \* where packets come from
    NoProto     \* the protocol of an endpoint that is not set

\* The interfaces a slot can bind, and their place in the enum.
Ifaces == {"source", "repair", "control"}

IfaceIndex == [source |-> 1, repair |-> 2, control |-> 3]

\* The first of some interfaces.
FirstIface(fs) == CHOOSE f \in fs : \A g \in fs : IfaceIndex[f] <= IfaceIndex[g]

\* ProtocolMap: the interface a protocol is for and the FEC scheme it implies.
ProtocolAttrs ==
    [rtp      |-> [iface |-> "source",  fec_scheme |-> "none"],
     rtp_rs8m |-> [iface |-> "source",  fec_scheme |-> "rs8m"],
     rs8m     |-> [iface |-> "repair",  fec_scheme |-> "rs8m"],
     rtcp     |-> [iface |-> "control", fec_scheme |-> "none"]]

Protos == {"rtp", "rtp_rs8m", "rs8m", "rtcp"}

\* A packet, and whether its endpoint can parse it.
Packets == [source : Addresses, parses : BOOLEAN]

NewSlot ==
    [proto |-> [f \in Ifaces |-> NoProto],
     queue |-> [f \in Ifaces |-> <<>>],
     sessions |-> {}]

EmptyPipeline ==
    [slots |-> <<>>,    \* slots_, by their addresses
     pending |-> 0,     \* pending_packets_
     sessions |-> 0,    \* sessions_
     mixer |-> {}]      \* the inputs of the mixer: <<slot, session>>

Live(p) == DOMAIN p.slots

\* The function f, with the value v for x.
With(f, x, v) == [y \in DOMAIN f \union {x} |-> IF y = x THEN v ELSE f[y]]

create_slot(p, h) == [p EXCEPT !.slots = With(@, h, NewSlot)]

\* The sessions of gone end: no input of the mixer, no member of the group, not
\* counted.
remove_sessions(p, h, gone) ==
    [slots    |-> [p.slots EXCEPT ![h].sessions = @ \ gone],
     pending  |-> p.pending,
     sessions |-> p.sessions - Cardinality(gone),
     mixer    |-> p.mixer \ ({h} \X gone)]

\* Seeded fault: the group forgets its sessions and leaves them in the mixer.
delete_slot_leaves_sessions(p, h) ==
    [p EXCEPT !.slots = Restrict(@, Live(p) \ {h})]

\* The slot is destroyed with its sessions, and with the packets in its queues:
\* pending_packets_ goes on counting those.
delete_slot(p, h) ==
    LET q == remove_sessions(p, h, p.slots[h].sessions)
    IN  [q EXCEPT !.slots = Restrict(@, Live(p) \ {h})]

validate_endpoint(f, proto) == ProtocolAttrs[proto].iface = f

validate_endpoint_pair_consistency(source, repair) ==
    /\ ProtocolAttrs[source].fec_scheme # "none"
    /\ ProtocolAttrs[source].fec_scheme = ProtocolAttrs[repair].fec_scheme

\* Whether the slot takes an endpoint for the interface.
CanAddEndpoint(slot, f, proto) ==
    /\ slot.proto[f] = NoProto
    /\ validate_endpoint(f, proto)
    /\ f = "source" /\ slot.proto["repair"] # NoProto
         => validate_endpoint_pair_consistency(proto, slot.proto["repair"])
    /\ f = "repair" /\ slot.proto["source"] # NoProto
         => validate_endpoint_pair_consistency(slot.proto["source"], proto)

add_endpoint(p, h, f, proto) == [p EXCEPT !.slots[h].proto[f] = proto]

\* The two steps of ReceiverEndpoint::write().
CountPacket(p) == [p EXCEPT !.pending = @ + 1]

PushPacket(p, h, f, packet) == [p EXCEPT !.slots[h].queue[f] = Append(@, packet)]

create_session(p, h, source) ==
    [slots    |-> [p.slots EXCEPT ![h].sessions = @ \union {source}],
     pending  |-> p.pending,
     sessions |-> p.sessions + 1,
     mixer    |-> p.mixer \union {<<h, source>>}]

\* A packet from an unknown address creates a session unless it is a repair or a
\* control packet, or no session can be created for it.
route_packet(p, h, f, packet, creatable) ==
    IF f = "source" /\ packet.source \notin p.slots[h].sessions /\ creatable
    THEN create_session(p, h, packet.source)
    ELSE p

\* One turn of the loop of pull_packets(). A packet that cannot be parsed is
\* dropped before it is uncounted.
pull_packet(p, h, f, creatable) ==
    LET packet == Head(p.slots[h].queue[f])
        popped == [p EXCEPT !.slots[h].queue[f] = Tail(@)]
    IN  IF packet.parses
        THEN [route_packet(popped, h, f, packet, creatable) EXCEPT !.pending = @ - 1]
        ELSE popped

\* What ReceiverSource tells of itself.
state(p) == IF p.sessions # 0 \/ p.pending # 0 THEN "Active" ELSE "Idle"
===============================================================================
