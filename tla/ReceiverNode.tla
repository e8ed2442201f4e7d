----------------------------- MODULE ReceiverNode -----------------------------
(* node::Receiver on top of the network loop and the receiver pipeline, and   *)
(* the three threads that meet there: a user thread that binds, configures,   *)
(* queries and unlinks slots, the network thread whose ports write packets to *)
(* the endpoints of the pipeline slots, and a thread that reads frames.       *)
(*                                                                            *)
(* Calls of users are serialised by mutex_, so there is one at a time.  The   *)
(* tasks of a call and the subframes of a frame exclude each other, as the    *)
(* module PipelineLoop shows; a task of the network loop is a step of the     *)
(* network thread between its callbacks, as NetworkLoop shows.                *)
EXTENDS ReceiverPipeline

CONSTANTS
    Slots,          \* slot indices of the users
    Bindable,       \* pairs <<interface, protocol>> of the URIs users bind
    Budgets,        \* bounds on the calls and the packets of a behaviour
    NoHandle,       \* the null handle
    TaskInReclock   \* whether tasks may run while a frame is reclocked

\* How get_slot_() may end. "leak": the slot of the pipeline exists but the one of the
\* node cannot be allocated or inserted.
SlotOutcomes == {"created", "failed", "leak"}

ASSUME NodeAssumption ==
    /\ IsFiniteSet(Handles) /\ IsFiniteSet(Addresses)
    /\ NoHandle \notin Handles /\ NoProto \notin Protos
    /\ Bindable \subseteq Ifaces \X Protos
    /\ Budgets \subseteq [calls : Nat, packets : Nat]
    /\ TaskInReclock \in BOOLEAN

VARIABLES
    pipe,       \* the pipeline
    inside,     \* who runs in the pipeline: "task", "frame" or "nobody"
    slot_map,   \* slot index -> [handle, ports, broken]
    orphans,    \* pipeline slots that get_slot_() has left behind
    used,       \* used_protocols_ of used_interfaces_
    call,       \* the call of a user in progress: [at, req]
    ports,      \* the open ports of the network loop: <<handle, interface>>
    net,        \* the network thread: [at, port, packet]
    reader,     \* the thread that reads frames: [at, slot, rest, todo]
    left        \* how many calls and packets may still come

vars == <<pipe, inside, slot_map, orphans, used, call, ports, net, reader, left>>

\* The calls of the API of the node, and its destructor.
Requests ==
    [op : {"bind"}, slot : Slots, uri : Bindable]
      \union [op : {"configure"}, slot : Slots, iface : Ifaces]
      \union [op : {"unlink", "get_metrics"}, slot : Slots]
      \union [op : {"destroy"}]

CallIdle == [at |-> "idle"]

At(step) == [at |-> step, req |-> call.req]

Init ==
    /\ pipe = EmptyPipeline
    /\ inside = "nobody"
    /\ slot_map = <<>>
    /\ orphans = {}
    /\ used = [f \in Ifaces |-> NoProto]
    /\ call = CallIdle
    /\ ports = {}
    /\ net = [at |-> "idle"]
    /\ reader = [at |-> "idle"]
    /\ left \in Budgets

-------------------------------------------------------------------------------
(* The calls.                                                                 *)

nodeUnchanged == UNCHANGED <<orphans, net, reader, left>>

\* The slot of the call, and its port.
Slot == slot_map[call.req.slot]

Iface == IF call.req.op = "bind" THEN call.req.uri[1] ELSE call.req.iface

Proto == call.req.uri[2]

\* A call takes mutex_ and looks its slot up; get_slot_() creates it for bind() and
\* configure() only. The destructor may run once nobody reads frames.
Begin(req) ==
    /\ call.at = "idle" /\ left.calls > 0
    /\ req.op = "destroy" => reader.at = "idle"
    /\ call' = [at |-> CASE req.op = "destroy" -> "destroy"
                         [] req.op # "destroy" /\ req.slot \in DOMAIN slot_map -> "found"
                         [] req.op \in {"bind", "configure"} /\ req.slot \notin DOMAIN slot_map
                              -> "create_slot"
                         [] OTHER -> "return",
                req |-> req]
    /\ left' = [left EXCEPT !.calls = @ - 1]
    /\ UNCHANGED <<pipe, inside, slot_map, orphans, used, ports, net, reader>>

Return ==
    /\ call.at = "return"
    /\ call' = CallIdle
    /\ UNCHANGED <<pipe, inside, slot_map, used, ports>> /\ nodeUnchanged

\* Seeded fault: the call fails and leaves the slot as it is.
BreakSlot_not == call' = At("return") /\ UNCHANGED slot_map

\* break_slot_() up to cleanup_slot_().
BreakSlot ==
    /\ slot_map' = [slot_map EXCEPT ![call.req.slot].broken = TRUE]
    /\ call' = At("cleanup")

Configure ==
    /\ call.at = "found" /\ call.req.op = "configure"
    /\ IF ~Slot.broken /\ Slot.ports[Iface]
       THEN BreakSlot
       ELSE call' = At("return") /\ UNCHANGED slot_map
    /\ UNCHANGED <<pipe, inside, used, ports>> /\ nodeUnchanged

check_compatibility == used[Iface] \in {NoProto, Proto}

\* Seeded fault: a broken slot is not refused.
Bind_broken ==
    /\ call.at = "found" /\ call.req.op = "bind"
    /\ IF check_compatibility
       THEN call' = At("resolve") /\ UNCHANGED slot_map
       ELSE BreakSlot
    /\ UNCHANGED <<pipe, inside, used, ports>> /\ nodeUnchanged

\* bind() up to the resolving of the address; the URI may be invalid.
Bind ==
    /\ call.at = "found" /\ call.req.op = "bind"
    /\ \/ Slot.broken /\ call' = At("return") /\ UNCHANGED slot_map
       \/ ~Slot.broken /\ check_compatibility /\ call' = At("resolve") /\ UNCHANGED slot_map
       \/ ~Slot.broken /\ BreakSlot
    /\ UNCHANGED <<pipe, inside, used, ports>> /\ nodeUnchanged

\* The network loop resolves the address, or cannot. The endpoint is then added by
\* a task made from the handle of the slot, which must not be null.
Resolve ==
    /\ call.at = "resolve"
    /\ \/ call' = At(IF Slot.handle = NoHandle THEN "panic" ELSE "add_endpoint")
          /\ UNCHANGED slot_map
       \/ BreakSlot
    /\ UNCHANGED <<pipe, inside, used, ports>> /\ nodeUnchanged

\* Seeded fault: the interface is not marked as used.
update_compatibility_not == UNCHANGED used

update_compatibility == used' = [used EXCEPT ![Iface] = Proto]

\* The network thread opens the port, or cannot.
AddPort ==
    /\ call.at = "add_port" /\ net.at = "idle"
    /\ \/ /\ ports' = ports \union {<<Slot.handle, Iface>>}
          /\ slot_map' = [slot_map EXCEPT ![call.req.slot].ports[Iface] = TRUE]
          /\ update_compatibility
          /\ call' = At("return")
       \/ BreakSlot /\ UNCHANGED <<ports, used>>
    /\ UNCHANGED <<pipe, inside>> /\ nodeUnchanged

Unlink ==
    /\ call.at = "found" /\ call.req.op = "unlink"
    /\ call' = At("cleanup")
    /\ UNCHANGED <<pipe, inside, slot_map, used, ports>> /\ nodeUnchanged

\* get_metrics() does not look whether the slot is broken, and a broken slot has no
\* handle to make the task from. The buffer for the metrics may not be allocated.
GetMetrics ==
    /\ call.at = "found" /\ call.req.op = "get_metrics"
    /\ \/ call' = At(IF Slot.handle = NoHandle THEN "panic" ELSE "query_slot")
       \/ call' = At("return")
    /\ UNCHANGED <<pipe, inside, slot_map, used, ports>> /\ nodeUnchanged

-------------------------------------------------------------------------------
(* cleanup_slot_(): the ports first, because they write to the pipeline slot.  *)

\* The interfaces of the slot whose ports are still open.
OpenPorts == {f \in Ifaces : Slot.ports[f]}

RemovePort ==
    /\ call.at = "cleanup" /\ OpenPorts # {} /\ net.at = "idle"
    /\ LET f == FirstIface(OpenPorts)
       IN  /\ ports' = ports \ {<<Slot.handle, f>>}
           /\ slot_map' = [slot_map EXCEPT ![call.req.slot].ports[f] = FALSE]
    /\ UNCHANGED <<pipe, inside, used, call>> /\ nodeUnchanged

\* Seeded fault: the pipeline slot is removed before the last port.
CleanupHandle_early ==
    /\ call.at = "cleanup" /\ Cardinality(OpenPorts) <= 1 /\ Slot.handle # NoHandle
    /\ call' = At("delete_slot")
    /\ UNCHANGED <<pipe, inside, slot_map, used, ports>> /\ nodeUnchanged

CleanupHandle ==
    /\ call.at = "cleanup" /\ OpenPorts = {} /\ Slot.handle # NoHandle
    /\ call' = At("delete_slot")
    /\ UNCHANGED <<pipe, inside, slot_map, used, ports>> /\ nodeUnchanged

\* unlink() and the destructor remove the slot from slot_map_ in the end.
CleanupDone ==
    /\ call.at = "cleanup" /\ OpenPorts = {} /\ Slot.handle = NoHandle
    /\ slot_map' = IF call.req.op \in {"unlink", "destroy"}
                   THEN Restrict(slot_map, DOMAIN slot_map \ {call.req.slot})
                   ELSE slot_map
    /\ call' = At(IF call.req.op = "destroy" THEN "destroy" ELSE "return")
    /\ UNCHANGED <<pipe, inside, used, ports>> /\ nodeUnchanged

\* The destructor goes on with some other slot; in the end the node is gone.
Destroy ==
    /\ call.at = "destroy"
    /\ IF slot_map = <<>>
       THEN call' = At("destroyed")
       ELSE \E i \in DOMAIN slot_map :
              call' = [at |-> "cleanup", req |-> [op |-> "destroy", slot |-> i]]
    /\ UNCHANGED <<pipe, inside, slot_map, used, ports>> /\ nodeUnchanged

-------------------------------------------------------------------------------
(* The tasks of the receiver pipeline, which calls schedule and wait for.      *)

TaskSteps == {"create_slot", "add_endpoint", "delete_slot", "query_slot"}

TaskBegin ==
    /\ call.at \in TaskSteps /\ inside = "nobody"
    /\ TaskInReclock \/ reader.at # "reclock"
    /\ inside' = "task"
    /\ UNCHANGED <<pipe, slot_map, used, call, ports>> /\ nodeUnchanged

TaskEnd ==
    /\ inside = "task" /\ inside' = "nobody"
    /\ UNCHANGED <<used, ports, net, reader, left>>

\* get_slot_() after task_create_slot_(). A new slot may get the address of one that
\* was freed.
EndCreateSlot(outcome) ==
    /\ TaskEnd /\ call.at = "create_slot"
    /\ \/ /\ outcome = "created"
          /\ \E h \in Handles \ Live(pipe) :
               /\ pipe' = create_slot(pipe, h)
               /\ slot_map' = With(slot_map, call.req.slot,
                                  [handle |-> h, broken |-> FALSE,
                                   ports |-> [f \in Ifaces |-> FALSE]])
          /\ call' = At("found") /\ UNCHANGED orphans
       \/ /\ outcome = "failed"
          /\ call' = At("return") /\ UNCHANGED <<pipe, slot_map, orphans>>
       \/ /\ outcome = "leak"
          /\ \E h \in Handles \ Live(pipe) :
               pipe' = create_slot(pipe, h) /\ orphans' = orphans \union {h}
          /\ call' = At("return") /\ UNCHANGED slot_map

EndAddEndpoint ==
    /\ TaskEnd /\ call.at = "add_endpoint"
    /\ \/ /\ CanAddEndpoint(pipe.slots[Slot.handle], Iface, Proto)
          /\ pipe' = add_endpoint(pipe, Slot.handle, Iface, Proto)
          /\ call' = At("add_port") /\ UNCHANGED slot_map
       \/ BreakSlot /\ UNCHANGED pipe
    /\ UNCHANGED orphans

EndDeleteSlot ==
    /\ TaskEnd /\ call.at = "delete_slot"
    /\ pipe' = delete_slot(pipe, Slot.handle)
    /\ slot_map' = [slot_map EXCEPT ![call.req.slot].handle = NoHandle]
    /\ call' = At("cleanup") /\ UNCHANGED orphans

EndQuerySlot ==
    /\ TaskEnd /\ call.at = "query_slot"
    /\ call' = At("return")
    /\ UNCHANGED <<pipe, slot_map, orphans>>

-------------------------------------------------------------------------------
(* The network thread: a packet arrives at a port, which writes it.            *)

netUnchanged == UNCHANGED <<inside, slot_map, orphans, used, call, ports, reader>>

\* Seeded fault: the endpoint queues the packet first and counts it then.
WriteBegin_push(port, packet) ==
    /\ net.at = "idle" /\ port \in ports /\ left.packets > 0
    /\ pipe' = PushPacket(pipe, port[1], port[2], packet)
    /\ net' = [at |-> "count"]
    /\ left' = [left EXCEPT !.packets = @ - 1]
    /\ netUnchanged

WriteBegin(port, packet) ==
    /\ net.at = "idle" /\ port \in ports /\ left.packets > 0
    /\ pipe' = CountPacket(pipe)
    /\ net' = [at |-> "push", port |-> port, packet |-> packet]
    /\ left' = [left EXCEPT !.packets = @ - 1]
    /\ netUnchanged

WriteEnd ==
    /\ net.at = "push"
    /\ pipe' = PushPacket(pipe, net.port[1], net.port[2], net.packet)
    /\ net' = [at |-> "idle"]
    /\ UNCHANGED left /\ netUnchanged

-------------------------------------------------------------------------------
(* The reader: every subframe refreshes all slots and reads the mixer; at the  *)
(* end of the frame the sessions are reclocked.                                *)

readerUnchanged == UNCHANGED <<slot_map, orphans, used, call, ports, net, left>>

\* The endpoints of a slot.
Endpoints(h) == {f \in Ifaces : pipe.slots[h].proto[f] # NoProto}

\* The reader turns to one of the slots that are left, or has been at all of them. todo
\* are the endpoints it has yet to pull from.
Refresh(rest) ==
    IF rest = {}
    THEN {[at |-> "mix"]}
    ELSE {[at |-> "refresh", slot |-> h, rest |-> rest \ {h}, todo |-> Endpoints(h)] :
            h \in rest}

Reclock(rest) ==
    IF rest = {}
    THEN {[at |-> "idle"]}
    ELSE {[at |-> "reclock", slot |-> h, rest |-> rest \ {h}] : h \in rest}

SubframeBegin ==
    /\ reader.at \in {"idle", "between"} /\ inside = "nobody"
    /\ call.at # "idle" => call.req.op # "destroy"
    /\ inside' = "frame"
    /\ reader' \in Refresh(Live(pipe))
    /\ UNCHANGED pipe /\ readerUnchanged

PullQueue == pipe.slots[reader.slot].queue[FirstIface(reader.todo)]

\* The endpoint's next packet is parsed and routed.
PullPacket(creatable) ==
    /\ reader.at = "refresh" /\ reader.todo # {} /\ PullQueue # <<>>
    /\ pipe' = pull_packet(pipe, reader.slot, FirstIface(reader.todo), creatable)
    /\ UNCHANGED <<inside, reader>> /\ readerUnchanged

PullEnd ==
    /\ reader.at = "refresh" /\ reader.todo # {} /\ PullQueue = <<>>
    /\ reader' = [reader EXCEPT !.todo = @ \ {FirstIface(@)}]
    /\ UNCHANGED <<pipe, inside>> /\ readerUnchanged

\* Sessions whose watchdog or latency monitor gave up are removed.
RefreshSessions(dead) ==
    /\ reader.at = "refresh" /\ reader.todo = {}
    /\ dead \subseteq pipe.slots[reader.slot].sessions
    /\ pipe' = remove_sessions(pipe, reader.slot, dead)
    /\ reader' \in Refresh(reader.rest)
    /\ UNCHANGED inside /\ readerUnchanged

SubframeEnd ==
    /\ reader.at = "mix"
    /\ inside' = "nobody"
    /\ reader' = [at |-> "between"]
    /\ UNCHANGED pipe /\ readerUnchanged

\* read() reclocks after process_subframes_and_tasks(), outside of the exclusion.
ReclockBegin ==
    /\ reader.at = "between"
    /\ TaskInReclock \/ inside = "nobody"
    /\ reader' \in Reclock(Live(pipe))
    /\ UNCHANGED <<pipe, inside>> /\ readerUnchanged

\* The sessions of a slot whose latency left its bounds are removed. (Deleting slots
\* at the same time is a data race that TaskInReclock = FALSE keeps out.)
ReclockSlot(dead) ==
    /\ reader.at = "reclock" /\ inside = "nobody"
    /\ dead \subseteq pipe.slots[reader.slot].sessions
    /\ pipe' = remove_sessions(pipe, reader.slot, dead)
    /\ reader' \in Reclock(reader.rest)
    /\ UNCHANGED inside /\ readerUnchanged

-------------------------------------------------------------------------------
UserStep ==
    \/ Return \/ Configure \/ Bind \/ Resolve \/ AddPort \/ Unlink \/ GetMetrics
    \/ RemovePort \/ CleanupHandle \/ CleanupDone \/ Destroy
    \/ TaskBegin \/ EndAddEndpoint \/ EndDeleteSlot \/ EndQuerySlot
    \/ \E outcome \in SlotOutcomes : EndCreateSlot(outcome)

ReaderStep ==
    \/ SubframeBegin \/ PullEnd \/ SubframeEnd \/ ReclockBegin
    \/ \E creatable \in BOOLEAN : PullPacket(creatable)
    \/ \E dead \in SUBSET Addresses : RefreshSessions(dead) \/ ReclockSlot(dead)

\* After a roc_panic() nothing happens any more.
Next ==
    /\ call.at # "panic"
    /\ \/ \E req \in Requests : Begin(req)
       \/ UserStep
       \/ \E port \in ports, packet \in Packets : WriteBegin(port, packet)
       \/ WriteEnd
       \/ ReaderStep

Spec == Init /\ [][Next]_vars

-------------------------------------------------------------------------------
(* Properties.                                                                 *)

\* A port of the network loop writes to an endpoint that exists: cleanup_slot_()
\* removes the ports of a slot, and waits for that, before its pipeline slot, and
\* bind() opens a port only when the endpoint is there.
PortsHaveEndpoints ==
    \A port \in ports \union (IF net.at = "push" THEN {net.port} ELSE {}) :
      /\ port[1] \in Live(pipe)
      /\ pipe.slots[port[1]].proto[port[2]] # NoProto

\* Between calls the node knows all that exists, with one exception: when get_slot_()
\* has the pipeline slot and cannot allocate or insert the slot of the node, the former
\* stays behind, and such a slot never gets an endpoint, a port or a session. All other
\* pipeline slots are those of the slots that are not broken, one each, with endpoints
\* for the bound interfaces only; the network loop has the ports of these interfaces; a
\* broken slot has nothing. It is so after every call, whichever of its steps failed, and
\* after the destructor.
OwnsAll ==
    call.at \in {"idle", "destroyed"} =>
      LET working == {i \in DOMAIN slot_map : ~slot_map[i].broken}
          bound == {b \in working \X Ifaces : slot_map[b[1]].ports[b[2]]}
      IN  /\ Live(pipe) \ orphans = {slot_map[i].handle : i \in working}
          /\ \A i, j \in working : slot_map[i].handle = slot_map[j].handle => i = j
          /\ ports = {<<slot_map[b[1]].handle, b[2]>> : b \in bound}
          /\ ports = {e \in Live(pipe) \X Ifaces : pipe.slots[e[1]].proto[e[2]] # NoProto}
          /\ \A i \in DOMAIN slot_map \ working :
               slot_map[i].handle = NoHandle /\ ~\E f \in Ifaces : slot_map[i].ports[f]
          /\ \A h \in orphans : h \in Live(pipe) /\ pipe.slots[h] = NewSlot

\* The mixer reads exactly the sessions of the slots that exist, and sessions_ counts
\* them, however they end: refreshed, reclocked or with their slot.
SessionsMixed ==
    /\ pipe.mixer = {m \in Live(pipe) \X Addresses : m[2] \in pipe.slots[m[1]].sessions}
    /\ pipe.sessions = Cardinality(pipe.mixer)

\* "no sessions and packets; we can sleep until there are some": a receiver that says
\* it is idle has no sessions and no packet that could create one. The network thread
\* counts a packet before it queues it, the reader uncounts it after it routed it.
SleepsWhenEmpty ==
    state(pipe) = "Idle" =>
      /\ pipe.mixer = {}
      /\ \A h \in Live(pipe), f \in Ifaces : pipe.slots[h].queue[f] = <<>>

\* The only roc_panic() that a sequence of calls reaches is that of get_metrics() for a
\* broken slot, from whose null handle it makes a task; bind() makes none, whatever
\* failed before, and the counters of ReceiverState, which panics when one is negative,
\* never go below zero.
OnlyQueryPanics ==
    /\ call.at = "panic" => call.req.op = "get_metrics" /\ Slot.broken
    /\ pipe.pending >= 0 /\ pipe.sessions >= 0

\* "same interface of all slots should use same protocols": check_compatibility_()
\* knows what is bound, whatever was bound, broken and unlinked before.
SameProtocols ==
    \A p, q \in ports :
      p[2] = q[2] => pipe.slots[p[1]].proto[p[2]] = pipe.slots[q[1]].proto[q[2]]

\* "Slots can be added and removed at any time on fly and from any thread. It is safe
\* to do it from another thread concurrently with reading frames": no task adds slots
\* to slots_ or removes them while the reclock() at the end of read() walks through it.
SlotsKeptInReclock ==
    reader.at = "reclock" /\ inside = "task" => call.at \notin {"create_slot", "delete_slot"}
===============================================================================
