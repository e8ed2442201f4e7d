------------------------------ MODULE UdpPorts ------------------------------
(* UdpReceiverPort and UdpSenderPort.  A packet is sent by the thread that  *)
(* calls write(), if nothing is pending and the socket takes it, or put in  *)
(* the lock-free queue_ for the network thread, which is told by write_sem_.*)
(* pending_packets_ counts both, and closing waits until it is zero.        *)
(* A packet is <<thread, number>>; sent lists the packets in the order in   *)
(* which the socket took them, and send_failed remembers that uv_udp_send() *)
(* has returned an error.                                                   *)
EXTENDS NetPorts

NewUdpReceiver ==
    [kind |-> "udp_receiver", handles |-> [udp |-> "none"],
     close_handler |-> FALSE, close_arg |-> NoTask]

\* queue and linking: the MPSC queue, as MpscFifo specifies it; inflight: the
\* requests libuv works on, first in first out
NewUdpSender ==
    [kind |-> "udp_sender", handles |-> [udp |-> "none", write_sem |-> "none"],
     close_handler |-> FALSE, close_arg |-> NoTask, signalled |-> FALSE,
     stopped |-> TRUE, pending |-> 0, queue |-> <<>>, linking |-> {}, inflight |-> <<>>,
     sent |-> <<>>, send_failed |-> FALSE]

\* UdpReceiverPort::open: uv_udp_init() fails, or a later call does, or none
OpenUdpReceiver(q) ==
    {[ok |-> FALSE, q |-> q]} \cup {[ok |-> b, q |-> UvInit(q, {"udp"})] : b \in BOOLEAN}

\* UdpSenderPort::open
OpenUdpSender(q) ==
    {[ok |-> FALSE, q |-> UvInit(q, hs)] :
        hs \in {{}, {"write_sem"}, {"write_sem", "udp"}}}
    \cup {[ok |-> TRUE, q |-> [UvInit(q, {"write_sem", "udp"}) EXCEPT !.stopped = FALSE]]}

\* UdpReceiverPort::async_close
CloseUdpReceiver(q, task) ==
    [panic |-> q.close_handler, started |-> ~NoHandles(q),
     q |-> UvClose(WithCloseHandler(q, task), {"udp"})]

\* UdpSenderPort::start_closing_
start_closing_(q) == UvClose(q, {"udp", "write_sem"})

\* UdpSenderPort::async_close
CloseUdpSender(q, task) ==
    LET s == [WithCloseHandler(q, task) EXCEPT !.stopped = TRUE]
    IN  [panic |-> q.close_handler, started |-> ~NoHandles(q),
         q |-> IF s.pending = 0 THEN start_closing_(s) ELSE s]

----------------------------------------------------------------------------
(* UdpSenderPort::write, called by any thread.                             *)

\* Seeded fault: a thread tries the socket even if packets are pending.
WriteBegin_eager(u, p) ==
    /\ At(u, "idle")
    /\ counts.packets < MaxPackets
    /\ counts' = [counts EXCEPT !.packets = @ + 1]
    /\ MayPanic(ports[p].stopped, "assert")
    /\ ports' = [ports EXCEPT ![p].pending = @ + 1]
    /\ upc' = [upc EXCEPT ![u] =
         [at |-> "w_try", port |-> p, packet |-> <<u, counts.packets + 1>>]]
    /\ UNCHANGED net

\* ++pending_packets_, and the choice between the socket and the queue
WriteBegin(u, p) ==
    /\ At(u, "idle")
    /\ counts.packets < MaxPackets
    /\ counts' = [counts EXCEPT !.packets = @ + 1]
    /\ MayPanic(ports[p].stopped, "assert")
    /\ ports' = [ports EXCEPT ![p].pending = @ + 1]
    /\ upc' = [upc EXCEPT ![u] =
         [at |-> IF ports[p].pending > 0 THEN "w_push" ELSE "w_try",
          port |-> p, packet |-> <<u, counts.packets + 1>>]]
    /\ UNCHANGED net

\* try_nonblocking_send_: the socket takes the packet, or would block
WriteTry(u) ==
    /\ At(u, "w_try")
    /\ \/ /\ ports' = [ports EXCEPT ![upc[u].port].pending = @ - 1,
                                    ![upc[u].port].sent = Append(@, upc[u].packet)]
          /\ upc' = [upc EXCEPT ![u] = UserIdle]
       \/ /\ upc' = [upc EXCEPT ![u].at = "w_push"]
          /\ UNCHANGED ports
    /\ UNCHANGED <<net, counts, panic>>

\* queue_.push_back(): the packet takes its place, and is linked
WritePush(u) ==
    /\ At(u, "w_push")
    /\ ports' = [ports EXCEPT ![upc[u].port].queue = Append(@, upc[u].packet),
                              ![upc[u].port].linking = @ \cup {upc[u].packet}]
    /\ upc' = [upc EXCEPT ![u].at = "w_link"]
    /\ UNCHANGED <<net, counts, panic>>

WriteLink(u) ==
    /\ At(u, "w_link")
    /\ ports' = [ports EXCEPT ![upc[u].port].linking = @ \ {upc[u].packet}]
    /\ upc' = [upc EXCEPT ![u].at = "w_send"]
    /\ UNCHANGED <<net, counts, panic>>

\* uv_async_send(&write_sem_), which must be open
WriteSend(u) ==
    /\ At(u, "w_send")
    /\ MayPanic(ports[upc[u].port].handles.write_sem # "open", "assert")
    /\ ports' = [ports EXCEPT ![upc[u].port].signalled = TRUE]
    /\ upc' = [upc EXCEPT ![u] = UserIdle]
    /\ UNCHANGED <<net, counts>>

UdpWrite(u) == WriteTry(u) \/ WritePush(u) \/ WriteLink(u) \/ WriteSend(u)

----------------------------------------------------------------------------
(* The callbacks of UdpSenderPort on the network thread.                   *)

\* libuv takes the pending signal and calls write_sem_cb_()
WriteSemCb(p) ==
    /\ net.at = "idle"
    /\ ports[p].signalled /\ ports[p].handles.write_sem = "open"
    /\ ports' = [ports EXCEPT ![p].signalled = FALSE]
    /\ net' = [at |-> "udp_write", port |-> p]
    /\ UNCHANGED <<upc, counts, panic>>

\* One round of write_sem_cb_(): a packet is popped and handed to uv_udp_send().
\* If that fails, the packet is dropped and still counted as pending.
SendNext(p) ==
    LET q == ports[p]
    IN  /\ net.at = "udp_write" /\ net.port = p
        /\ q.queue # <<>> /\ Head(q.queue) \notin q.linking
        /\ \E failed \in BOOLEAN :
             ports' = [ports EXCEPT ![p].queue = Tail(@),
                         ![p].inflight = IF failed THEN @ ELSE Append(@, Head(q.queue)),
                         ![p].send_failed = @ \/ failed]
        /\ UNCHANGED <<net, upc, counts, panic>>

\* try_pop_front_exclusive() returns NULL
SendDone(p) ==
    /\ net.at = "udp_write" /\ net.port = p
    /\ ports[p].queue = <<>> \/ ports[p].linking # {}
    /\ net' = NetIdle
    /\ UNCHANGED <<ports, upc, counts, panic>>

\* send_cb_(): the packet is sent, or failed to be
SendCb(p) ==
    LET done == [ports[p] EXCEPT !.inflight = Tail(@), !.pending = @ - 1,
                                 !.sent = Append(@, Head(ports[p].inflight))]
    IN  /\ net.at = "idle"
        /\ ports[p].inflight # <<>>
        /\ ports' = [ports EXCEPT ![p] =
             IF done.pending = 0 /\ done.stopped THEN start_closing_(done) ELSE done]
        /\ UNCHANGED <<net, upc, counts, panic>>

UdpCallback(p) ==
    /\ ports[p].kind = "udp_sender"
    /\ WriteSemCb(p) \/ SendNext(p) \/ SendDone(p) \/ SendCb(p)
=============================================================================
