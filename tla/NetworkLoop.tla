----------------------------- MODULE NetworkLoop -----------------------------
(* NetworkLoop: user threads schedule tasks in a lock-free queue and signal *)
(* task_sem_; the network thread adds and removes ports and resolves        *)
(* addresses, each possibly asynchronously, and the destructor stops it.    *)
(*                                                                          *)
(* Every user has one task at a time, so a task is named by its user; life  *)
(* is what the users know of a port.  What they must not do (use a port     *)
(* they remove, remove a TCP port that is not terminated, accept            *)
(* connections for a server they remove, destroy the loop while they use    *)
(* it) is in the guards of the actions of users and of Accept.              *)
EXTENDS UdpPorts, TcpPorts, FiniteSetsExt

CONSTANT
    MaxResolves \* bound on the ResolveEndpointAddress tasks

VARIABLES
    task,       \* the task of each user: [op, port, state, ok, wait]
    pending,    \* pending_tasks_: [queue, linking]
    lists,      \* open_ports_, closing_ports_ and the requests of the resolver
    sems,       \* task_sem_ and stop_sem_: [open, signalled]
    life,       \* "new", "adding", "open", "removing" or "gone"
    phase       \* "up", "stopping" (in the destructor), "done"

vars == <<ports, net, upc, counts, panic, task, pending, lists, sems, life, phase>>

loopVars == <<task, pending, lists, sems, life, phase>>

NewPort(kind) ==
    CASE kind = "udp_receiver" -> NewUdpReceiver
      [] kind = "udp_sender" -> NewUdpSender
      [] kind = "tcp_server" -> NewServer
      [] kind \in ConnKinds -> NewConnection(kind)

\* The loop runs and has no ports. kinds says which ports the users may add (or a
\* server accept), and used how much of the bounds is used up from the start.
InitWith(kinds, used) ==
    /\ ports = [p \in DOMAIN kinds |-> NewPort(kinds[p])]
    /\ net = NetIdle
    /\ upc = [u \in Users |-> UserIdle]
    /\ counts = used
    /\ panic = "no"
    /\ task = [u \in Users |-> [op |-> "none", port |-> NoTask, state |-> "Finished",
                                ok |-> FALSE, wait |-> FALSE]]
    /\ pending = [queue |-> <<>>, linking |-> {}]
    /\ lists = [open |-> {}, closing |-> {}, resolving |-> {}]
    /\ sems = [task |-> [open |-> TRUE, signalled |-> FALSE],
               stop |-> [open |-> TRUE, signalled |-> FALSE]]
    /\ life = [p \in DOMAIN kinds |-> "new"]
    /\ phase = "up"

----------------------------------------------------------------------------
(* What the callbacks of the network thread do to the state, as functions  *)
(* on it: the ports, the lists, the tasks, life and panic.                 *)

World == [ports |-> ports, lists |-> lists, task |-> task, life |-> life, panic |-> panic]

Become(w) ==
    /\ ports' = w.ports /\ lists' = w.lists /\ task' = w.task
    /\ life' = w.life /\ panic' = w.panic

PanicAs(w, b, what) == [w EXCEPT !.panic = IF b THEN what ELSE @]

PanicIf(w, b) == PanicAs(w, b, "assert")

\* finish_task_: the user is told, by a callback or by the semaphore
finish_task_(w, u) ==
    LET t == w.task[u]
    IN  [w EXCEPT !.task[u].state = "Finished",
                  !.life = [p \in DOMAIN ports |-> IF p # t.port THEN @[p]
                              ELSE IF t.op = "add" /\ t.ok THEN "open" ELSE "gone"]]

\* BasicPort::async_close
AsyncClose(q, arg) ==
    CASE q.kind = "udp_receiver" -> CloseUdpReceiver(q, arg)
      [] q.kind = "udp_sender" -> CloseUdpSender(q, arg)
      [] q.kind = "tcp_server" -> CloseServer(q, arg)
      [] q.kind \in ConnKinds -> CloseConnection(q, arg)

\* async_close_port_
async_close_port_(w, p, arg) ==
    LET r == AsyncClose(w.ports[p], arg)
    IN  PanicIf([w EXCEPT !.ports[p] = r.q,
                          !.lists.closing = IF r.started THEN @ \cup {p} ELSE @], r.panic)

\* The end of a task that closes its port: it waits, or it is finished.
CloseForTask(w, u, p) ==
    LET closed == async_close_port_(w, p, u)
    IN  IF AsyncClose(w.ports[p], u).started
        THEN [closed EXCEPT !.task[u].state = "ClosingPort"]
        ELSE finish_task_(closed, u)

\* finish_closing_port_, after which the port is destroyed
finish_closing_port_(w, p, arg) ==
    LET q == w.ports[p]
        left == [w EXCEPT !.lists.closing = @ \ {p}]
        destroyed == PanicIf(left, \/ p \notin w.lists.closing
                                   \/ ~NoHandles(q)
                                   \/ q.kind = "udp_sender" /\ q.pending # 0
                                   \/ q.kind = "tcp_server" /\ q.closing_conns # {}
                                   \/ q.kind \in ConnKinds /\ (q.socket \/ q.state # "Closed"))
    IN  IF arg = NoTask THEN destroyed ELSE finish_task_(destroyed, arg)

\* TcpServerPort::async_close_connection_
async_close_connection_(w, s, c) ==
    LET r == CloseConnection(w.ports[c], NoTask)
    IN  PanicIf([w EXCEPT !.ports[c] = r.q,
                          !.ports[s].open_conns = @ \ {c},
                          !.ports[s].closing_conns = IF r.started THEN @ \cup {c} ELSE @],
                r.panic)

\* TcpServerPort::handle_close_completed: the last connection closes the server
ServerConnClosed(w, s, c) ==
    LET q == [w.ports[s] EXCEPT !.closing_conns = @ \ {c}]
    IN  PanicIf([w EXCEPT !.ports[s] =
                    IF q.want_close /\ q.open_conns \cup q.closing_conns = {}
                    THEN UvClose(q, {"poll"}) ELSE q],
                c \notin w.ports[s].closing_conns)

\* The server that accepted c
ServerOf(c) ==
    CHOOSE s \in DOMAIN ports : /\ ports[s].kind = "tcp_server"
                         /\ c \in ports[s].open_conns \cup ports[s].closing_conns

----------------------------------------------------------------------------
(* The user threads.                                                       *)

\* What schedule() and schedule_and_wait() do before the task is in the queue
Schedule(u, op, p) ==
    /\ phase = "up"
    /\ At(u, "idle")
    /\ task[u].state = "Finished"
    /\ \E wait \in BOOLEAN :
         task' = [task EXCEPT ![u] = [op |-> op, port |-> p, state |-> "Pending",
                                      ok |-> FALSE, wait |-> wait]]
    /\ upc' = [upc EXCEPT ![u].at = "s_push"]
    /\ UNCHANGED <<ports, net, panic, pending, lists, sems, phase>>

ScheduleAdd(u, p) ==
    /\ ports[p].kind # "tcp_accepted"
    /\ life[p] = "new"
    /\ life' = [life EXCEPT ![p] = "adding"]
    /\ Schedule(u, "add", p)
    /\ UNCHANGED counts

\* The users have stopped using the port.
Unused(p) ==
    CASE ports[p].kind = "udp_receiver" -> TRUE
      [] ports[p].kind = "udp_sender" -> \A u \in Users : upc[u].port # p
      [] ports[p].kind = "tcp_server" -> ports[p].open_conns = {}
      [] ports[p].kind \in ConnKinds -> Len(ports[p].told) = 2

ScheduleRemove(u, p) ==
    /\ life[p] = "open" /\ Unused(p)
    /\ life' = [life EXCEPT ![p] = "removing"]
    /\ Schedule(u, "remove", p)
    /\ UNCHANGED counts

ScheduleResolve(u) ==
    /\ counts.resolves < MaxResolves
    /\ counts' = [counts EXCEPT !.resolves = @ + 1]
    /\ Schedule(u, "resolve", NoTask)
    /\ UNCHANGED life

\* pending_tasks_.push_back()
SchedulePush(u) ==
    /\ At(u, "s_push")
    /\ pending' = [queue |-> Append(pending.queue, u), linking |-> pending.linking \cup {u}]
    /\ upc' = [upc EXCEPT ![u].at = "s_link"]
    /\ UNCHANGED <<ports, net, counts, panic, task, lists, sems, life, phase>>

ScheduleLink(u) ==
    /\ At(u, "s_link")
    /\ pending' = [pending EXCEPT !.linking = @ \ {u}]
    /\ upc' = [upc EXCEPT ![u].at = "s_send"]
    /\ UNCHANGED <<ports, net, counts, panic, task, lists, sems, life, phase>>

\* uv_async_send(&task_sem_)
ScheduleSend(u) ==
    /\ At(u, "s_send")
    /\ MayPanic(~sems.task.open, "assert")
    /\ sems' = [sems EXCEPT !.task.signalled = TRUE]
    /\ upc' = [upc EXCEPT ![u] = [@ EXCEPT !.at = IF task[u].wait THEN "s_wait" ELSE "idle"]]
    /\ UNCHANGED <<ports, net, counts, task, pending, lists, life, phase>>

\* Seeded fault: the semaphore is signalled between the two halves of push_back(),
\* before the task can be popped.
ScheduleCall_early(u) ==
    \/ SchedulePush(u)
    \/ /\ At(u, "s_link")
       /\ sems' = [sems EXCEPT !.task.signalled = TRUE]
       /\ upc' = [upc EXCEPT ![u].at = "s_send"]
       /\ UNCHANGED <<ports, net, counts, panic, task, pending, lists, life, phase>>
    \/ /\ At(u, "s_send")
       /\ pending' = [pending EXCEPT !.linking = @ \ {u}]
       /\ upc' = [upc EXCEPT ![u] = [@ EXCEPT !.at = IF task[u].wait THEN "s_wait" ELSE "idle"]]
       /\ UNCHANGED <<ports, net, counts, panic, task, sems, lists, life, phase>>

ScheduleCall(u) == SchedulePush(u) \/ ScheduleLink(u) \/ ScheduleSend(u)

\* schedule_and_wait() returns
ScheduleReturn(u) ==
    /\ At(u, "s_wait") /\ task[u].state = "Finished"
    /\ upc' = [upc EXCEPT ![u] = UserIdle]
    /\ UNCHANGED <<ports, net, counts, panic, loopVars>>

Write(u, p) ==
    /\ ports[p].kind = "udp_sender" /\ life[p] = "open" /\ phase = "up"
    /\ WriteBegin(u, p)
    /\ UNCHANGED loopVars

UseConn(u, p) ==
    /\ ports[p].kind \in ConnKinds /\ phase = "up"
    /\ Terminate(u, p) \/ \E d \in Dirs : IoBegin(u, p, d)
    /\ UNCHANGED loopVars

PortCall(u) ==
    /\ UdpWrite(u) \/ TcpCall(u)
    /\ UNCHANGED loopVars

\* ~NetworkLoop: every thread has left, TCP connections are terminated and at
\* most resolve tasks are unfinished.
Destroy ==
    /\ phase = "up"
    /\ \A u \in Users : At(u, "idle")
    /\ \A u \in Users : task[u].state = "Finished" \/ task[u].op = "resolve"
    /\ \A p \in DOMAIN ports : life[p] = "open" => Unused(p)
    /\ MayPanic(~sems.stop.open, "assert")
    /\ sems' = [sems EXCEPT !.stop.signalled = TRUE]
    /\ phase' = "stopping"
    /\ UNCHANGED <<ports, net, upc, counts, task, pending, lists, life>>

----------------------------------------------------------------------------
(* The callbacks of the network thread.                                    *)

\* task_sem_cb_
TaskSemCb ==
    /\ net.at = "idle"
    /\ sems.task.open /\ sems.task.signalled
    /\ sems' = [sems EXCEPT !.task.signalled = FALSE]
    /\ net' = [at |-> "tasks"]
    /\ UNCHANGED <<ports, upc, counts, panic, task, pending, lists, life, phase>>

\* close_all_ports_ and close_all_sems_, with the handles in cs of the loop
StopWith(cs) ==
    /\ net.at = "idle"
    /\ sems.stop.open /\ sems.stop.signalled
    /\ Become(LET CloseOne(p, w) ==
                    async_close_port_([w EXCEPT !.lists.open = @ \ {p}], p, NoTask)
              IN  FoldSet(CloseOne, World, lists.open))
    /\ sems' = [s \in DOMAIN sems |-> [open |-> s \notin cs, signalled |-> FALSE]]
    /\ net' = [at |-> "tasks"]
    /\ UNCHANGED <<upc, counts, pending, phase>>

\* Seeded fault: task_sem_ is left open.
StopSemCb_leaves == StopWith({"stop"})

\* stop_sem_cb_, up to process_pending_tasks_
StopSemCb == StopWith({"task", "stop"})

\* task_add_udp_receiver_, task_add_udp_sender_, task_add_tcp_server_ and
\* task_add_tcp_client_ for a port p that open() leaves as r says
Opened(w, u, p, r) ==
    LET tried == [w EXCEPT !.ports[p] = r.q]
        Added(q) == finish_task_([w EXCEPT !.ports[p] = q, !.task[u].ok = TRUE,
                                           !.lists.open = @ \cup {p}], u)
        Failed(q) == [w EXCEPT !.ports[p] = TerminateBy(q, "loop", u),
                               !.task[u].state = "ClosingPort",
                               !.lists.closing = @ \cup {p}]
    IN  IF ~r.ok THEN {CloseForTask(tried, u, p)}
        ELSE IF r.q.kind # "tcp_client" THEN {Added(r.q)}
        ELSE {Added(q) : q \in {EstablishedConnection(r.q), PendingConnection(r.q)}}
             \cup {Failed(q) : q \in FailedConnection(r.q)}

Open(q) ==
    CASE q.kind = "udp_receiver" -> OpenUdpReceiver(q)
      [] q.kind = "udp_sender" -> OpenUdpSender(q)
      [] q.kind = "tcp_server" -> OpenServer(q)
      [] q.kind \in ConnKinds -> OpenConnection(q)

\* The allocation of the port fails, or it is opened.
AddPort(w, u) ==
    LET p == w.task[u].port
    IN  {finish_task_(w, u)} \cup UNION {Opened(w, u, p, r) : r \in Open(w.ports[p])}

\* task_remove_port_
task_remove_port_(w, u) ==
    LET p == w.task[u].port
    IN  CloseForTask(PanicIf([w EXCEPT !.lists.open = @ \ {p}, !.task[u].ok = TRUE],
                             p \notin w.lists.open), u, p)

\* task_resolve_endpoint_address_ and Resolver::async_resolve: the address is
\* known, or cannot be, or getaddrinfo is asked.
ResolveAddress(w, u) ==
    {finish_task_([w EXCEPT !.task[u].ok = b], u) : b \in BOOLEAN}
    \cup {[w EXCEPT !.lists.resolving = @ \cup {u}]}

\* One round of process_pending_tasks_
ProcessTask ==
    LET u == Head(pending.queue)
    IN  /\ net.at = "tasks"
        /\ pending.queue # <<>> /\ u \notin pending.linking
        /\ pending' = [pending EXCEPT !.queue = Tail(@)]
        /\ \E w \in CASE task[u].op = "add" -> AddPort(World, u)
                       [] task[u].op = "remove" -> {task_remove_port_(World, u)}
                       [] task[u].op = "resolve" -> ResolveAddress(World, u) : Become(w)
        /\ UNCHANGED <<net, upc, counts, sems, phase>>

\* try_pop_front_exclusive() returns NULL
TasksDone ==
    /\ net.at = "tasks"
    /\ pending.queue = <<>> \/ pending.linking # {}
    /\ net' = NetIdle
    /\ UNCHANGED <<ports, upc, counts, panic, loopVars>>

\* getaddrinfo_cb_ and handle_resolved
Resolved(u) ==
    /\ net.at = "idle"
    /\ u \in lists.resolving
    /\ \E b \in BOOLEAN :
         Become(finish_task_([World EXCEPT !.task[u].ok = b, !.lists.resolving = @ \ {u}], u))
    /\ UNCHANGED <<net, upc, counts, pending, sems, phase>>

\* TcpServerPort::poll_cb_ for a connection that can be allocated: open() fails,
\* accept() fails, the acceptor refuses it, or it is added.
Accepted(w, s, c) ==
    LET With(q) == [w EXCEPT !.ports[c] = q]
        Dropped(q) == [With(TerminateBy(q, "server", NoTask)) EXCEPT
                          !.ports[s].closing_conns = @ \cup {c}]
        Closed(r) == async_close_connection_(With(r.q), s, c)
        opened == {r \in OpenConnection(w.ports[c]) : r.ok}
    IN  {Closed(r) : r \in OpenConnection(w.ports[c]) \ opened}
        \cup UNION {{Dropped(q) : q \in FailedConnection(r.q)} : r \in opened}
        \cup {Dropped([EstablishedConnection(r.q) EXCEPT !.handler = FALSE, !.told = <<>>]) :
                 r \in opened}
        \cup (IF life[s] = "open" /\ phase = "up"
              THEN {[With([EstablishedConnection(r.q) EXCEPT !.terminate_handler = "server"])
                        EXCEPT !.ports[s].open_conns = @ \cup {c}] : r \in opened}
              ELSE {})

Accept(s, c) ==
    /\ net.at = "idle"
    /\ ports[s].kind = "tcp_server" /\ ports[s].handles.poll = "open"
    /\ ports[c] = NewConnection("tcp_accepted")
    /\ \E w \in Accepted(World, s, c) : Become(w)
    /\ UNCHANGED <<net, upc, counts, pending, sems, phase>>

\* Seeded fault: the handler is unset before it is told.
finish_terminate_cb_silent(w, p) ==
    LET q == w.ports[p]
        ended == [q EXCEPT !.handles.poll = "none", !.socket = FALSE,
                           !.state = "Terminated", !.handler = FALSE]
        v == PanicIf([w EXCEPT !.ports[p] = ended], q.state # "Terminating")
    IN  CASE q.terminate_handler = "none" -> v
          [] q.terminate_handler = "loop" -> async_close_port_(v, p, q.terminate_arg)
          [] q.terminate_handler = "server" -> async_close_connection_(v, ServerOf(p), p)

\* finish_terminate_cb_, with handle_terminate_completed of the loop (whose port
\* always has the semaphore left to close) or of the server
finish_terminate_cb_(w, p) ==
    LET q == w.ports[p]
        ended == [Report(q, "terminated") EXCEPT
                    !.handles.poll = "none", !.socket = FALSE,
                    !.state = "Terminated", !.handler = FALSE]
        v == PanicIf([w EXCEPT !.ports[p] = ended], q.state # "Terminating")
    IN  CASE q.terminate_handler = "none" -> v
          [] q.terminate_handler = "loop" -> async_close_port_(v, p, q.terminate_arg)
          [] q.terminate_handler = "server" -> async_close_connection_(v, ServerOf(p), p)

\* start_terminate_cb_
StartTerminate(p) ==
    LET q == [ports[p] EXCEPT !.signalled = FALSE]
        w == PanicAs([World EXCEPT !.ports[p] = UvClose(q, {"poll"})],
                     q.state # "Terminating",
                     IF q.state = "Broken" THEN "broken" ELSE "assert")
    IN  /\ net.at = "idle"
        /\ ports[p].kind \in ConnKinds
        /\ ports[p].signalled /\ ports[p].handles.terminate_sem = "open"
        /\ Become(IF q.handles.poll = "none" THEN finish_terminate_cb_(w, p) ELSE w)
        /\ UNCHANGED <<net, upc, counts, pending, sems, phase>>

\* handle_close_completed of the owner of the port
CloseCompleted(w, p) ==
    IF w.ports[p].kind = "tcp_accepted"
    THEN ServerConnClosed(w, ServerOf(p), p)
    ELSE finish_closing_port_(w, p, w.ports[p].close_arg)

\* close_cb_ of each kind of port: the handle h is closed, and if it is the last
\* one that the port has, the port is.
HandleClosed(p, h, last) ==
    LET w == [World EXCEPT !.ports[p].handles[h] = "none"]
        conn == ports[p].kind \in ConnKinds
    IN  IF conn /\ h = "poll" THEN finish_terminate_cb_(w, p)
        ELSE IF ~last THEN w
        ELSE IF conn THEN CloseCompleted(PanicIf([w EXCEPT !.ports[p].state = "Closed"],
                                                 ports[p].state # "Closing"), p)
        ELSE CloseCompleted(PanicIf(w, ~ports[p].close_handler), p)

\* Seeded fault: the port is closed when its first handle is.
CloseCb_first(p) ==
    /\ net.at = "idle"
    /\ \E h \in DOMAIN ports[p].handles :
         /\ ports[p].handles[h] = "closing"
         /\ Become(HandleClosed(p, h, TRUE))
    /\ UNCHANGED <<net, upc, counts, pending, sems, phase>>

CloseCb(p) ==
    /\ net.at = "idle"
    /\ \E h \in DOMAIN ports[p].handles :
         /\ ports[p].handles[h] = "closing"
         /\ Become(HandleClosed(p, h, \A g \in DOMAIN ports[p].handles \ {h} :
                                         ports[p].handles[g] = "none"))
    /\ UNCHANGED <<net, upc, counts, pending, sems, phase>>

\* uv_run() returns when no handle and no request is left, join() and the rest of
\* the destructor follow.
LoopExit ==
    /\ phase = "stopping" /\ net.at = "idle"
    /\ \A s \in DOMAIN sems : ~sems[s].open
    /\ \A p \in DOMAIN ports : NoHandles(ports[p])
    /\ lists.resolving = {}
    /\ MayPanic(lists.open # {} \/ lists.closing # {}, "assert")
    /\ phase' = "done"
    /\ UNCHANGED <<ports, net, upc, counts, task, pending, lists, sems, life>>

----------------------------------------------------------------------------

UserStart(u) ==
    \/ ScheduleResolve(u)
    \/ \E p \in DOMAIN ports :
         ScheduleAdd(u, p) \/ ScheduleRemove(u, p) \/ Write(u, p) \/ UseConn(u, p)

UserCall(u) ==
    ScheduleCall(u) \/ ScheduleReturn(u) \/ PortCall(u)

\* What the network thread has to do, and does sooner or later
NetStep ==
    \/ TaskSemCb \/ StopSemCb \/ ProcessTask \/ TasksDone \/ LoopExit
    \/ \E u \in Users : Resolved(u)
    \/ \E p \in DOMAIN ports :
         \/ StartTerminate(p)
         \/ CloseCb(p)
         \/ UdpCallback(p) /\ UNCHANGED loopVars
         \/ ports[p].kind \in ConnKinds /\ TcpCallback(p) /\ UNCHANGED loopVars

\* What the peers of the connections may cause
Event ==
    \/ \E s, c \in DOMAIN ports : Accept(s, c)
    \/ \E p \in DOMAIN ports :
         ports[p].kind \in ConnKinds /\ TcpEvent(p) /\ UNCHANGED loopVars

\* After a roc_panic() nothing happens any more.
Next ==
    /\ panic = "no"
    /\ NetStep \/ Event \/ Destroy \/ \E u \in Users : UserStart(u) \/ UserCall(u)

\* Threads inside a call go on, and so does the event loop; no user has to make a
\* call, and no peer to do anything.
Fairness ==
    /\ WF_vars(panic = "no" /\ NetStep)
    /\ \A u \in Users : WF_vars(panic = "no" /\ UserCall(u))

----------------------------------------------------------------------------

\* Two roc_panic() are reached, and no other: a poll error that the network thread
\* handles while another thread calls async_terminate() takes the connection out of
\* State_Terminating, and a call of try_read() or try_write() overlaps with
\* async_terminate(). Apart from these no port is closed twice, destroyed with
\* handles, packets or connections, or unknown to the lists when its close completes;
\* no connection is in a state that its callbacks do not expect; no signal goes to a
\* closed handle; and the destructor of the loop finds its lists empty.
OnlyTerminatePanics ==
    /\ panic # "assert"
    /\ panic # "no" => \E p \in DOMAIN ports : ports[p].kind \in ConnKinds /\ ports[p].issued

\* When RemovePort has finished, and when an Add task has finished without
\* success, nothing of the port is left: no libuv handle, no callback to come, no
\* packet, and no place in open_ports_ or closing_ports_.
RemovedIsClosed ==
    \A p \in DOMAIN ports : life[p] = "gone" =>
        /\ NoHandles(ports[p])
        /\ p \notin lists.open \cup lists.closing
        /\ ports[p].kind = "udp_sender" =>
             ports[p].pending = 0 /\ ports[p].queue = <<>> /\ ports[p].inflight = <<>>

\* The packets that one thread writes to a UDP sender reach the socket in the
\* order of the calls, whether the thread or the network loop sends them.
SentInOrder ==
    \A p \in {q \in DOMAIN ports : ports[q].kind = "udp_sender"} :
        LET sent == ports[p].sent
        IN  \A i, j \in DOMAIN sent :
               i < j /\ sent[i][1] = sent[j][1] => sent[i][2] < sent[j][2]

\* An event that poll_cb_() reported after the last system call is not forgotten:
\* try_read() and try_write() do not overwrite the status that it has set.
EventKept ==
    \A p \in {q \in DOMAIN ports : ports[q].kind \in ConnKinds} : \A d \in Dirs :
        ports[p].fresh[d] => ports[p].io[d] # "NotAvailable"

\* A connection handler is told once that the connection is established or
\* refused, then that it is terminated, and the latter before the port is closed.
ConnCallbacks ==
    \A p \in {q \in DOMAIN ports : ports[q].kind \in ConnKinds} :
        LET told == ports[p].told
        IN  /\ Len(told) <= 2
            /\ Len(told) >= 1 => told[1] \in {"established", "refused"}
            /\ Len(told) = 2 => told[2] = "terminated"
            /\ Len(told) = 1 => ports[p].state \notin {"Terminated", "Closing", "Closed"}

\* A UDP sender for which uv_udp_send() has failed: the packet stays counted in
\* pending_packets_, so that the port waits for ever to be closed.
Miscounted(p) == ports[p].kind = "udp_sender" /\ ports[p].send_failed

\* A task that is scheduled is finished, whatever fails, with one exception: the
\* removal of a sender port for which uv_udp_send() has failed. (And a panic, of
\* those that OnlyTerminatePanics allows, ends the program.)
TaskFinishes ==
    \A u \in Users : task[u].state # "Finished" ~>
        \/ task[u].state = "Finished"
        \/ task[u].op = "remove" /\ Miscounted(task[u].port)
        \/ panic # "no"

\* The destructor returns: the network thread closes what is left and exits, unless
\* the loop has a sender port for which uv_udp_send() has failed.
StopReturns ==
    phase = "stopping" ~> phase = "done" \/ \E p \in lists.closing : Miscounted(p)
=============================================================================
