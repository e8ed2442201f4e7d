------------------------------ MODULE NetPorts ------------------------------
(* The ports of roc_netio on a libuv loop, as far as all kinds share it.    *)
(*                                                                          *)
(* A port is a record of its members, named as in the code.  handles gives  *)
(* for each libuv handle of the port "none" (not initialised, or closed and *)
(* called back), "open" or "closing"; signalled is the pending uv_async_t   *)
(* of the port, which coalesces.  The network thread runs one callback at a *)
(* time; net holds its place inside callbacks that other threads can see.   *)
EXTENDS Integers, Sequences, FiniteSets

CONSTANTS
    Users,
    NoTask,     \* the NULL argument of a close or terminate handler
    MaxPackets, \* bound on the packets written to UDP senders
    MaxIo       \* bound on the calls of try_read() and try_write()

VARIABLES
    ports,      \* the state of each port
    net,        \* the network thread: [at, port, dirs]
    upc,        \* the user threads: [at, port, packet or dir, result]
    counts,     \* how much of MaxPackets and MaxIo is used
    panic       \* "no", or what ended the program: see MayPanic

NetIdle == [at |-> "idle"]

UserIdle == [at |-> "idle", port |-> NoTask]

At(u, place) == upc[u].at = place

\* A roc_panic() ends the program. Two are told from the other assertions: a
\* connection "broken" by the network thread after it was terminated, and "io" on
\* a connection that another thread has terminated.
MayPanic(b, what) == panic' = IF b THEN what ELSE panic

\* uv_close() of those handles in hs that are open and not closing already
UvClose(q, hs) ==
    [q EXCEPT !.handles = [h \in DOMAIN q.handles |->
        IF h \in hs /\ q.handles[h] = "open" THEN "closing" ELSE q.handles[h]]]

\* The port q with its handles in hs initialised
UvInit(q, hs) ==
    [q EXCEPT !.handles = [h \in DOMAIN q.handles |->
        IF h \in hs THEN "open" ELSE q.handles[h]]]

NoHandles(q) == \A h \in DOMAIN q.handles : q.handles[h] = "none"

\* Setting close_handler_ and its argument, which every async_close() begins with
WithCloseHandler(q, task) == [q EXCEPT !.close_handler = TRUE, !.close_arg = task]
=============================================================================
