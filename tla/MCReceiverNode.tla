---------------------------- MODULE MCReceiverNode ----------------------------
(* Instances of ReceiverNode.                                                 *)
EXTENDS ReceiverNode, TLC

\* A source without FEC, one with FEC and its repair stream, and control packets.
AllUris == {<<"source", "rtp">>, <<"source", "rtp_rs8m">>, <<"repair", "rs8m">>,
            <<"control", "rtcp">>}

\* Addresses of slots are interchangeable.
HandleSymmetry == Permutations(Handles)

\* Many calls, or calls while packets arrive.
CallsOrPackets == {[calls |-> 5, packets |-> 0], [calls |-> 4, packets |-> 1],
                   [calls |-> 2, packets |-> 2]}
===============================================================================
