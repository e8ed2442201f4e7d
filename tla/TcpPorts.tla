------------------------------ MODULE TcpPorts ------------------------------
(* TcpConnectionPort and TcpServerPort: the state machine of a connection,  *)
(* switched by the network thread and by the threads that use the           *)
(* connection.  The flags conn_was_established_ and conn_was_failed_ choose *)
(* between shutdown and reset of the socket, which is left out, and so are  *)
(* the statistics.                                                          *)
(*                                                                          *)
(* told is the sequence of connection_established(), connection_refused()   *)
(* and connection_terminated() callbacks made so far; fresh[d] says that    *)
(* the connection was reported readable or writable since the last system   *)
(* call in that direction, and issued that async_terminate() was called.    *)
EXTENDS NetPorts

Dirs == {"rd", "wr"}

ConnKinds == {"tcp_client", "tcp_accepted"}

NewConnection(kind) ==
    [kind |-> kind, handles |-> [poll |-> "none", terminate_sem |-> "none"],
     close_handler |-> FALSE, close_arg |-> NoTask, signalled |-> FALSE,
     state |-> "Closed", handler |-> FALSE, socket |-> FALSE, stream_end |-> FALSE,
     terminate_handler |-> "none", terminate_arg |-> NoTask,
     io |-> [d \in Dirs |-> "NotAvailable"], fresh |-> [d \in Dirs |-> FALSE],
     told |-> <<>>, issued |-> FALSE]

NewServer ==
    [kind |-> "tcp_server", handles |-> [poll |-> "none"],
     close_handler |-> FALSE, close_arg |-> NoTask,
     open_conns |-> {}, closing_conns |-> {}, want_close |-> FALSE]

\* TcpConnectionPort::open: the termination semaphore is initialised, or not
OpenConnection(q) ==
    {[ok |-> FALSE, q |-> [q EXCEPT !.state = "Opening"]],
     [ok |-> TRUE, q |-> [UvInit(q, {"terminate_sem"}) EXCEPT !.state = "Opened"]]}

\* TcpServerPort::open
OpenServer(q) ==
    {[ok |-> FALSE, q |-> q]} \cup {[ok |-> b, q |-> UvInit(q, {"poll"})] : b \in BOOLEAN}

\* The state that maybe_switch_state_() leaves when it finds `old`
SwitchState(old, new) ==
    IF /\ old \in {"Terminating", "Terminated"}
       /\ old # "Terminating" /\ new \notin {"Terminated", "Closing"}
    THEN old ELSE new

\* report_state_ of a callback that the protocol of IConnHandler has
Report(q, what) == [q EXCEPT !.told = IF q.handler THEN Append(@, what) ELSE @]

\* TcpConnectionPort::accept and connect that fail: without a socket, with one,
\* or with an initialised poll handle
FailedConnection(q) ==
    {[q EXCEPT !.state = "Connecting"],
     [q EXCEPT !.state = "Connecting", !.socket = TRUE],
     [UvInit(q, {"poll"}) EXCEPT !.state = "Connecting", !.socket = TRUE]}

\* TcpConnectionPort::accept, or connect completed at once, that succeeds; and
\* attach_connection_handler
EstablishedConnection(q) ==
    Report([UvInit(q, {"poll"}) EXCEPT !.state = "Established", !.socket = TRUE,
                                       !.handler = TRUE], "established")

\* TcpConnectionPort::connect in progress, and attach_connection_handler
PendingConnection(q) ==
    [UvInit(q, {"poll"}) EXCEPT !.state = "Connecting", !.socket = TRUE, !.handler = TRUE]

\* attach_terminate_handler and async_terminate, called by the network thread
TerminateBy(q, handler, task) ==
    [q EXCEPT !.terminate_handler = handler, !.terminate_arg = task,
              !.state = "Terminating", !.signalled = TRUE, !.issued = TRUE]

\* TcpConnectionPort::async_close
CloseConnection(q, task) ==
    LET s == WithCloseHandler(q, task)
        started == q.handles.terminate_sem # "none"
    IN  [panic |-> q.close_handler \/ q.state \notin {"Opening", "Opened", "Terminated"},
         started |-> started,
         q |-> [UvClose(s, {"terminate_sem"}) EXCEPT
                    !.state = IF started THEN "Closing" ELSE "Closed"]]

\* Seeded fault: the server does not wait for the connections that close.
CloseServer_early(q, task) ==
    LET s == [WithCloseHandler(q, task) EXCEPT !.want_close = TRUE]
    IN  [panic |-> q.close_handler \/ q.open_conns # {},
         started |-> ~NoHandles(q),
         q |-> UvClose(s, {"poll"})]

\* TcpServerPort::async_close and async_close_server_
CloseServer(q, task) ==
    LET s == [WithCloseHandler(q, task) EXCEPT !.want_close = TRUE]
    IN  [panic |-> q.close_handler \/ q.open_conns # {},
         started |-> q.closing_conns # {} \/ ~NoHandles(q),
         q |-> IF q.closing_conns # {} THEN s ELSE UvClose(s, {"poll"})]

----------------------------------------------------------------------------
(* The users of a connection, which they know from the callbacks.          *)

\* The threads inside try_read() or try_write() of p
InIo(p) ==
    {u \in Users : upc[u].at \in {"io_call", "io_status", "io_break"} /\ upc[u].port = p}

\* The owner of a connection destroys it when it is closed.
Destroyed(p) == ports[p].state = "Closed"

\* try_read() and try_write(), up to the system call. io_mutex_ lets one thread in.
\* Users make no call after async_terminate(), but one that was made before may
\* find the state that async_terminate() leaves.
IoBegin(u, p, d) ==
    LET q == ports[p]
        usable == q.state \in {"Refused", "Established", "Broken"}
        go == q.state = "Established" /\ ~(d = "rd" /\ q.stream_end)
    IN  /\ At(u, "idle")
        /\ q.told # <<>> /\ (q.issued => q.state = "Terminating")
        /\ counts.io < MaxIo
        /\ InIo(p) = {}
        /\ counts' = [counts EXCEPT !.io = @ + 1]
        /\ MayPanic(~usable, IF q.issued THEN "io" ELSE "assert")
        /\ ports' = IF go THEN [ports EXCEPT ![p].io[d] = "InProgress"] ELSE ports
        /\ upc' = IF go THEN [upc EXCEPT ![u] = [at |-> "io_call", port |-> p, dir |-> d]]
                  ELSE upc
        /\ UNCHANGED net

\* socket_try_recv() or socket_try_send(): done, would block, failed, or the end
\* of the stream. Another thread may have terminated the connection meanwhile, and
\* the network thread closed the socket, and after that destroyed the port.
IoCall(u) ==
    LET p == upc[u].port
        d == upc[u].dir
    IN  /\ At(u, "io_call")
        /\ MayPanic(~ports[p].socket, "io")
        /\ ports' = [ports EXCEPT ![p].fresh[d] = FALSE]
        /\ \E r \in {"ok", "wouldblock", "error", "end"} :
             /\ r = "end" => d = "rd"
             /\ upc' = [upc EXCEPT ![u] = [at |-> "io_status", port |-> p, dir |-> d,
                                           result |-> r]]
        /\ UNCHANGED <<net, counts>>

\* Seeded fault: the status is stored without looking at it.
IoStatus_store(u) ==
    LET p == upc[u].port
        d == upc[u].dir
        result == upc[u].result
    IN  /\ At(u, "io_status")
        /\ ports' = [ports EXCEPT
             ![p].io[d] = IF result = "ok" THEN "Available" ELSE "NotAvailable",
             ![p].stream_end = @ \/ result = "end"]
        /\ upc' = [upc EXCEPT ![u] = IF result = "error" THEN [@ EXCEPT !.at = "io_break"]
                                     ELSE UserIdle]
        /\ UNCHANGED <<net, counts, panic>>

\* The status becomes what the call has shown, unless the network thread has
\* reported an event meanwhile.
IoStatus(u) ==
    LET p == upc[u].port
        d == upc[u].dir
        result == upc[u].result
    IN  /\ At(u, "io_status")
        /\ ports' = [ports EXCEPT
             ![p].io[d] = IF @ # "InProgress" THEN @
                          ELSE IF result = "ok" THEN "Available" ELSE "NotAvailable",
             ![p].stream_end = @ \/ result = "end"]
        /\ upc' = [upc EXCEPT ![u] = IF result = "error" THEN [@ EXCEPT !.at = "io_break"]
                                     ELSE UserIdle]
        /\ MayPanic(Destroyed(p), "io")
        /\ UNCHANGED <<net, counts>>

\* maybe_switch_state_(State_Established, State_Broken) after an error
IoBreak(u) ==
    /\ At(u, "io_break")
    /\ ports' = [ports EXCEPT ![upc[u].port].state =
                    IF @ = "Established" THEN "Broken" ELSE @]
    /\ upc' = [upc EXCEPT ![u] = UserIdle]
    /\ MayPanic(Destroyed(upc[u].port), "io")
    /\ UNCHANGED <<net, counts>>

\* async_terminate(): the state is switched ...
Terminate(u, p) ==
    LET q == ports[p]
    IN  /\ At(u, "idle")
        /\ q.told # <<>> /\ ~q.issued
        /\ MayPanic(q.state \notin {"Connecting", "Refused", "Established", "Broken"}, "assert")
        /\ ports' = [ports EXCEPT ![p].state = SwitchState(@, "Terminating"),
                                  ![p].issued = TRUE]
        /\ upc' = [upc EXCEPT ![u] = [at |-> "t_send", port |-> p]]
        /\ UNCHANGED <<net, counts>>

\* ... and uv_async_send(&terminate_sem_) tells the network thread.
TerminateSend(u) ==
    /\ At(u, "t_send")
    /\ MayPanic(ports[upc[u].port].handles.terminate_sem # "open", "assert")
    /\ ports' = [ports EXCEPT ![upc[u].port].signalled = TRUE]
    /\ upc' = [upc EXCEPT ![u] = UserIdle]
    /\ UNCHANGED <<net, counts>>

TcpCall(u) == IoCall(u) \/ IoStatus(u) \/ IoBreak(u) \/ TerminateSend(u)

----------------------------------------------------------------------------
(* poll_cb_ of a connection, on the network thread.                        *)

\* The asynchronous connect ends.
PollConnecting(p) ==
    /\ net.at = "idle"
    /\ ports[p].handles.poll = "open" /\ ports[p].state = "Connecting"
    /\ \E outcome \in {<<"Established", "established">>, <<"Refused", "refused">>} :
         ports' = [ports EXCEPT ![p] = Report([@ EXCEPT !.state = outcome[1]], outcome[2])]
    /\ UNCHANGED <<net, upc, counts, panic>>

\* An established connection fails or can be read or written. A callback that
\* would report what is reported already is left out.
PollEstablished(p) ==
    /\ net.at = "idle"
    /\ ports[p].handles.poll = "open" /\ ports[p].state = "Established"
    /\ \/ net' = [at |-> "poll_broken", port |-> p]
       \/ \E ds \in SUBSET Dirs :
            /\ \E d \in ds : ~ports[p].fresh[d] \/ ports[p].io[d] # "Available"
            /\ net' = [at |-> "poll_report", port |-> p, dirs |-> ds]
    /\ UNCHANGED <<ports, upc, counts, panic>>

\* switch_and_report_state_(State_Broken): whatever the state is by now
PollBroken(p) ==
    /\ net.at = "poll_broken" /\ net.port = p
    /\ ports' = [ports EXCEPT ![p].state = SwitchState(@, "Broken")]
    /\ net' = [at |-> "poll_report", port |-> p, dirs |-> Dirs]
    /\ UNCHANGED <<upc, counts, panic>>

\* set_and_report_readable_ and set_and_report_writable_
PollReport(p) ==
    /\ net.at = "poll_report" /\ net.port = p
    /\ ports' = [ports EXCEPT ![p].io = [d \in Dirs |->
                                IF d \in net.dirs THEN "Available" ELSE @[d]],
                              ![p].fresh = [d \in Dirs |-> d \in net.dirs \/ @[d]]]
    /\ net' = NetIdle
    /\ UNCHANGED <<upc, counts, panic>>

\* What the peer may cause, and how the callback goes on
TcpEvent(p) == PollConnecting(p) \/ PollEstablished(p)

TcpCallback(p) == PollBroken(p) \/ PollReport(p)
=============================================================================
