---------------------------- MODULE MCNetworkLoop ----------------------------
(* NetworkLoop with two users. A scenario fixes the ports and the bounds.   *)
EXTENDS NetworkLoop, TLC

CONSTANTS u1, u2, Scenarios

MCUsers == {u1, u2}

\* The number of packets, reads and writes, and resolve tasks that are left
Left(packets, io, resolves) ==
    [packets |-> MaxPackets - packets, io |-> MaxIo - io, resolves |-> MaxResolves - resolves]

MCScenarios == [
    udp |-> [kinds |-> "sender" :> "udp_sender", used |-> Left(3, 0, 0)],
    two |-> [kinds |-> ("sender" :> "udp_sender") @@ ("receiver" :> "udp_receiver"),
             used |-> Left(1, 0, 0)],
    resolve |-> [kinds |-> "receiver" :> "udp_receiver", used |-> Left(0, 0, 2)],
    client |-> [kinds |-> "client" :> "tcp_client", used |-> Left(0, 3, 0)],
    server |-> [kinds |-> ("server" :> "tcp_server") @@ ("conn" :> "tcp_accepted"),
                used |-> Left(0, 1, 0)]]

Init == \E s \in Scenarios : InitWith(MCScenarios[s].kinds, MCScenarios[s].used)

Spec == Init /\ [][Next]_vars /\ Fairness
=============================================================================
