------------------------------ MODULE QRNetMesh ------------------------------
(***************************************************************************)
(* A mesh of QRNetNode (red/implementation/node.py).                       *)
(*                                                                         *)
(* Each node has three threads: the application thread, which joins,       *)
(* sends and leaves; the RX thread, which takes one packet at a time from  *)
(* the adapter and runs its handler; and the HELLO thread, which announces *)
(* the node and purges old entries once per interval.  They share the      *)
(* routing table, the directory, the circuit table and _running.           *)
(*                                                                         *)
(* An action of the model ends where another thread can make a difference: *)
(* before a packet is handled, before it is sent, and between two reads of *)
(* the same table.  Only the RX thread writes the tables, but for the      *)
(* originator's circuit entry and for the purge, so a handler is one step. *)
(*                                                                         *)
(* join_mesh may be called again after leave_mesh: nobody waits for the    *)
(* old threads, so one that has not looked at _running since goes on       *)
(* beside the new one of its kind.  A process that dies loses its tables   *)
(* and its adapters, and may be started again.                             *)
(*                                                                         *)
(* INetworkAdapter.send() takes no destination: a packet is heard by every *)
(* adapter of its kind that is up and has a link from the sender; the RX   *)
(* thread reads the one its selector prefers at that moment.  The medium   *)
(* may reorder packets, but not those of different HELLO intervals; it     *)
(* loses them if Lossy.                                                    *)
(***************************************************************************)
EXTENDS MeshTables, AdapterSelection

CONSTANTS
    Nodes,
    Adapters,       \* Adapters[n]: the pool registered with n's selector
    Policy,         \* SelectionPolicy of every selector
    Lossy,          \* a receiver may miss a packet
    MaxTTL,         \* DEFAULT_TTL
    CircuitIds,     \* the uint32 values negotiate_circuit may draw; 0 is one
    Messages,       \* send_anonymous calls: [id, from, to]
    ForeignPackets, \* <<node, packet>> it may hear from nodes not modelled
    MaxJoins,       \* join_mesh calls of a node
    Plans,          \* what users do and what breaks, see Plan
    Broadcast,      \* BROADCAST_ID
    NoMac,          \* None in a circuit entry
    NoPacket, NoMessage, Ended

ASSUME AdaptersAssumption == Adapters \in [Nodes -> Seq([type : AdapterTypes, cost : Nat])]
ASSUME PolicyAssumption == Policy \in Policies
ASSUME TTLAssumption == MaxTTL \in Nat
ASSUME CircuitAssumption == CircuitIds \subseteq Nat
ASSUME MessageAssumption == Messages \subseteq [id : Nat, from : Nodes, to : Nodes]
ASSUME JoinAssumption == MaxJoins \in Nat
ASSUME IdAssumption == Broadcast \notin Nodes \cup {BroadcastMac}
ASSUME LossyAssumption == Lossy \in BOOLEAN

\* Who hears whom (<<a, b>>: b hears a), how often each node calls join_mesh, which
\* ones may leave or crash, how often an adapter fails, which messages are sent, who
\* calls discover_peers (once), and what is heard from nodes not modelled.
Plan == [links : SUBSET (Nodes \X Nodes), joins : [Nodes -> 0 .. MaxJoins], leavers : SUBSET Nodes,
         crashers : SUBSET Nodes, outages : Nat, messages : SUBSET Messages,
         discoverers : SUBSET Nodes, foreign : SUBSET ForeignPackets]

ASSUME PlanAssumption == Plans \subseteq Plan

VARIABLES
    plan,       \* the plan in force
    running,    \* _running
    joins,      \* join_mesh calls so far
    outages,    \* failures of adapters so far
    out,        \* MACs of the adapters that are not available
    selected,   \* what each selector returns, for the broadcast MAC and for others
    app,        \* next step of the application thread
    sending,    \* the message of the send_anonymous call in progress
    circuit,    \* its circuit_id
    hello,      \* hello[n][t]: next step of the HELLO thread of the t-th join
    due,        \* HELLO threads whose sleep is over in this interval
    inbox,      \* packets waiting in each adapter
    backlog,    \* those that have been there since the interval or the join
    hand,       \* hand[n][t]: what the RX thread of the t-th join is handling
    routes,     \* _routing
    directory,  \* _directory
    circuits,   \* _circuits
    delivered,  \* every payload put into _rx_queue
    unsent,     \* send_anonymous calls not made yet
    drawn,      \* history: the circuit ids drawn
    sent,       \* history: the messages whose DATA went out
    unasked     \* discover_peers calls not made yet

memory   == <<routes, directory, circuits>>
appvars  == <<app, sending, circuit, unsent, drawn, sent, unasked>>
rxvars   == <<inbox, backlog, hand, delivered>>
timevars == <<hello, due>>
world    == <<plan, joins, outages, out, selected>>
vars     == <<world, running, appvars, rxvars, timevars, memory>>

Threads == 1 .. MaxJoins

-----------------------------------------------------------------------------
(* Packets (red/packet.py) and the medium *)

Packet(type, src, dst, cid, body) ==
    [type |-> type, src |-> src, dst |-> dst, cid |-> cid, ttl |-> MaxTTL, body |-> body]

\* How far the sender says it has to the nodes it names.
Updates == [Nodes -> Nat \cup {NoEntry}]

Packets ==
    LET Header(types, sources, bodies) ==
            [type : types, src : sources, dst : Nodes \cup {Broadcast},
             cid : CircuitIds \cup {0}, ttl : 0 .. MaxTTL, body : bodies]
    IN  Header({"HELLO", "BYE", "CIRCUIT_SETUP", "CIRCUIT_TEARDOWN"}, Nodes, {NoMessage})
            \cup Header({"ROUTE_UPDATE"}, Nodes, Updates)
            \cup Header({"DATA"}, Nodes \cup CircuitIds, Messages)

ASSUME ForeignAssumption == ForeignPackets \subseteq Nodes \X Packets

HelloPacket(n)         == Packet("HELLO", n, Broadcast, 0, NoMessage)
ByePacket(n)           == Packet("BYE", n, Broadcast, 0, NoMessage)
SetupPacket(n, d, cid) == Packet("CIRCUIT_SETUP", n, d, cid, NoMessage)
\* The source of user data is the circuit id, not the node.
DataPacket(m, cid)     == Packet("DATA", cid, m.to, cid, m)

\* Slip: the TTL is carried along unchanged.
DecrementedNever(pkt) == [pkt EXCEPT !.ttl = @]

Decremented(pkt) == [pkt EXCEPT !.ttl = IF @ = 0 THEN 0 ELSE @ - 1]

\* The MAC of an adapter says whose it is, and where it is in the pool.
Macs      == UNION {{n} \X DOMAIN Adapters[n] : n \in Nodes}
MacsOf(n) == {m \in Macs : m[1] = n}

ASSUME NoAdapterAssumption ==
    NoAdapter \notin [mac : Macs, type : AdapterTypes, cost : Nat, up : BOOLEAN]

ASSUME EntryAssumption == NoEntry \notin Entries(Macs)

ASSUME HandAssumption ==
    NoPacket # Ended /\ {NoPacket, Ended} \cap [packet : Packets, via : Macs] = {}

\* The pool of a node while the adapters of some MACs are not available.
PoolWithout(n, missing) ==
    [k \in DOMAIN Adapters[n] |->
        [mac |-> <<n, k>>, type |-> Adapters[n][k].type, cost |-> Adapters[n][k].cost,
         up |-> <<n, k>> \notin missing]]

\* _rx_loop and _flood ask for BROADCAST_ID, 16 bytes that are not the
\* broadcast MAC, so they get the adapter that any ordinary MAC gets.
SelectedWithout(missing) ==
    [n \in Nodes |->
        [ordinary  |-> Select(PoolWithout(n, missing), Policy, {}, Broadcast),
         broadcast |-> Select(PoolWithout(n, missing), Policy, {}, BroadcastMac)]]

ReadAdapter(n) == selected[n].ordinary

SelectFor(n, mac) == IF mac = BroadcastMac THEN selected[n].broadcast ELSE ReadAdapter(n)

\* The adapters that hear what a node sends on one of its own.
Hears(n, type) ==
    {m \in Macs \ out : <<n, m[1]>> \in plan.links /\ Adapters[m[1]][m[2]].type = type}

\* Transmit on an adapter; with none, AdapterError is swallowed, and so is the
\* False that send() returns if it fails.
SendOn(n, adapter, pkt) ==
    IF adapter = NoAdapter THEN UNCHANGED inbox
    ELSE LET hears == Hears(n, adapter.type) IN
         \E heard \in IF Lossy THEN SUBSET hears ELSE {hears} :
            inbox' = [m \in Macs |-> IF m \in heard THEN inbox[m] \cup {pkt} ELSE inbox[m]]

\* _send_via_mac: the MAC only chooses the adapter.
SendViaMac(n, pkt, mac) == SendOn(n, SelectFor(n, mac), pkt)

\* _flood, and so _send_hello.
Flood(n, pkt) == SendOn(n, ReadAdapter(n), pkt)

\* _resolve_mac
ResolveMac(n, dst) ==
    IF dst # Broadcast /\ routes[n][dst] # NoEntry THEN routes[n][dst].mac ELSE BroadcastMac

SendPacket(n, pkt) == SendViaMac(n, pkt, ResolveMac(n, pkt.dst))

Init ==
    /\ plan \in Plans
    /\ joins = [n \in Nodes |-> 0]
    /\ outages = 0
    /\ out = {}
    /\ selected = SelectedWithout({})
    /\ running = [n \in Nodes |-> FALSE]
    /\ app = [n \in Nodes |-> "out"]
    /\ sending = [n \in Nodes |-> NoMessage]
    /\ circuit = [n \in Nodes |-> 0]
    /\ hello = [n \in Nodes |-> [t \in Threads |-> "ended"]]
    /\ due = {}
    /\ inbox = [m \in Macs |-> {}]
    /\ backlog = [m \in Macs |-> {}]
    /\ hand = [n \in Nodes |-> [t \in Threads |-> Ended]]
    /\ routes = [n \in Nodes |-> EmptyTable(Nodes)]
    /\ directory = [n \in Nodes |-> EmptyTable(Nodes)]
    /\ circuits = [n \in Nodes |-> EmptyTable(CircuitIds)]
    /\ delivered = [n \in Nodes |-> {}]
    /\ unsent = plan.messages
    /\ drawn = {}
    /\ sent = {}
    /\ unasked = plan.discoverers

-----------------------------------------------------------------------------
(* The application thread *)

AppStep(n, from, to) == app[n] = from /\ app' = [app EXCEPT ![n] = to]

\* Slip: the HELLO thread of the first join is taken to be there still.
JoinQuietly(n) ==
    /\ joins[n] < plan.joins[n]
    /\ app[n] \in {"out", "gone"}
    /\ app' = [app EXCEPT ![n] = "hello"]
    /\ joins' = [joins EXCEPT ![n] = @ + 1]
    /\ running' = [running EXCEPT ![n] = TRUE]
    /\ hand' = [hand EXCEPT ![n][joins[n] + 1] = NoPacket]
    /\ hello' = IF joins[n] = 0 THEN [hello EXCEPT ![n][1] = "sleep"] ELSE hello
    /\ backlog' = [m \in Macs |-> IF m[1] = n THEN inbox[m] ELSE backlog[m]]
    /\ UNCHANGED <<plan, outages, out, selected, sending, circuit, unsent, drawn, sent, unasked,
                   inbox, delivered, due, memory>>

\* join_mesh: the threads start before the first HELLO is sent.
Join(n) ==
    /\ joins[n] < plan.joins[n]
    /\ app[n] \in {"out", "gone"}
    /\ app' = [app EXCEPT ![n] = "hello"]
    /\ joins' = [joins EXCEPT ![n] = @ + 1]
    /\ running' = [running EXCEPT ![n] = TRUE]
    /\ hand' = [hand EXCEPT ![n][joins[n] + 1] = NoPacket]
    /\ hello' = [hello EXCEPT ![n][joins[n] + 1] = "sleep"]
    /\ backlog' = [m \in Macs |-> IF m[1] = n THEN inbox[m] ELSE backlog[m]]
    /\ UNCHANGED <<plan, outages, out, selected, sending, circuit, unsent, drawn, sent, unasked,
                   inbox, delivered, due, memory>>

JoinHello(n) ==
    /\ AppStep(n, "hello", "idle")
    /\ Flood(n, HelloPacket(n))
    /\ UNCHANGED <<world, unasked, running, sending, circuit, unsent, drawn, sent,
                   backlog, hand, delivered, timevars, memory>>

\* leave_mesh: the BYE goes out while the other threads still run.
LeaveBye(n) ==
    /\ n \in plan.leavers
    /\ AppStep(n, "idle", "stop")
    /\ SendPacket(n, ByePacket(n))
    /\ UNCHANGED <<world, unasked, running, sending, circuit, unsent, drawn, sent,
                   backlog, hand, delivered, timevars, memory>>

LeaveStop(n) ==
    /\ AppStep(n, "stop", "gone")
    /\ running' = [running EXCEPT ![n] = FALSE]
    /\ UNCHANGED <<world, unasked, sending, circuit, unsent, drawn, sent, rxvars, timevars, memory>>

\* The process dies: no BYE, and its threads, tables and adapters are no more.
Crash(n) ==
    /\ n \in plan.crashers
    /\ app[n] \notin {"out", "gone"}
    /\ app' = [app EXCEPT ![n] = "gone"]
    /\ running' = [running EXCEPT ![n] = FALSE]
    /\ hand' = [hand EXCEPT ![n] = [t \in Threads |-> Ended]]
    /\ hello' = [hello EXCEPT ![n] = [t \in Threads |-> "ended"]]
    /\ due' = {d \in due : d[1] # n}
    /\ out' = out \cup MacsOf(n)
    /\ selected' = SelectedWithout(out')
    /\ inbox' = [m \in Macs |-> IF m[1] = n THEN {} ELSE inbox[m]]
    /\ backlog' = [m \in Macs |-> IF m[1] = n THEN {} ELSE backlog[m]]
    /\ routes' = [routes EXCEPT ![n] = EmptyTable(Nodes)]
    /\ directory' = [directory EXCEPT ![n] = EmptyTable(Nodes)]
    /\ circuits' = [circuits EXCEPT ![n] = EmptyTable(CircuitIds)]
    /\ UNCHANGED <<plan, joins, outages, unasked, sending, circuit, unsent, drawn, sent, delivered>>

\* An adapter's link fails, and is set up again: is_available().
Fail(n) ==
    /\ outages < plan.outages
    /\ outages' = outages + 1
    /\ \E m \in MacsOf(n) \ out : out' = out \cup {m}
    /\ selected' = SelectedWithout(out')
    /\ UNCHANGED <<plan, joins, running, appvars, rxvars, timevars, memory>>

Recover(n) ==
    /\ \E m \in MacsOf(n) \cap out : out' = out \ {m}
    /\ selected' = SelectedWithout(out')
    /\ UNCHANGED <<plan, joins, outages, running, appvars, rxvars, timevars, memory>>

\* _find_circuit_for: every circuit whose next hop is the next hop to dst.
CircuitsFor(n, dst) ==
    {c \in CircuitIds : /\ circuits[n][c] # NoEntry
                        /\ routes[n][dst] # NoEntry
                        /\ circuits[n][c].next = routes[n][dst].mac}

\* send_anonymous begins: a circuit is found, or has to be negotiated.  The ids of a
\* node's messages say in which order they are sent.
SendCall(n, m) ==
    /\ m \in unsent /\ m.from = n
    /\ \A other \in unsent : other.from = n => m.id <= other.id
    /\ unsent' = unsent \ {m}
    /\ sending' = [sending EXCEPT ![n] = m]
    /\ \/ \E c \in CircuitsFor(n, m.to) :
              AppStep(n, "idle", "data") /\ circuit' = [circuit EXCEPT ![n] = c]
       \/ CircuitsFor(n, m.to) = {} /\ AppStep(n, "idle", "negotiate") /\ UNCHANGED circuit
    /\ UNCHANGED <<world, unasked, running, drawn, sent, rxvars, timevars, memory>>

\* negotiate_circuit without a route raises RoutingError to the caller.
NoRouteError(n) ==
    /\ AppStep(n, "negotiate", "idle")
    /\ routes[n][sending[n].to] = NoEntry
    /\ sending[n].to # n
    /\ sending' = [sending EXCEPT ![n] = NoMessage]
    /\ UNCHANGED <<world, unasked, running, circuit, unsent, drawn, sent, rxvars, timevars, memory>>

\* Slip: without a route the circuit gets the MAC a packet would be sent to.
NegotiateAnyway(n) ==
    LET dst == sending[n].to IN
    /\ AppStep(n, "negotiate", "setup")
    /\ \E c \in CircuitIds :
          /\ c \notin drawn
          /\ circuit' = [circuit EXCEPT ![n] = c]
          /\ drawn' = drawn \cup {c}
          /\ circuits' = [circuits EXCEPT ![n][c] = [prev |-> NoMac, next |-> ResolveMac(n, dst)]]
    /\ UNCHANGED <<world, unasked, running, sending, unsent, sent, rxvars, timevars, routes, directory>>

\* A fresh id (two equal random uint32 are left out) and the originator's entry.
Negotiate(n) ==
    LET dst == sending[n].to IN
    /\ AppStep(n, "negotiate", "setup")
    /\ routes[n][dst] # NoEntry \/ dst = n
    /\ \E c \in CircuitIds :
          /\ c \notin drawn
          /\ circuit' = [circuit EXCEPT ![n] = c]
          /\ drawn' = drawn \cup {c}
          /\ circuits' = [circuits EXCEPT ![n][c] =
                [prev |-> NoMac,
                 next |-> IF routes[n][dst] = NoEntry THEN NoMac ELSE routes[n][dst].mac]]
    /\ UNCHANGED <<world, unasked, running, sending, unsent, sent, rxvars, timevars, routes, directory>>

\* The route is looked up a second time to send the CIRCUIT_SETUP.
SendSetup(n) ==
    /\ AppStep(n, "setup", "data")
    /\ SendPacket(n, SetupPacket(n, sending[n].to, circuit[n]))
    /\ UNCHANGED <<world, unasked, running, sending, circuit, unsent, drawn, sent,
                   backlog, hand, delivered, timevars, memory>>

SendData(n) ==
    /\ AppStep(n, "data", "idle")
    /\ SendPacket(n, DataPacket(sending[n], circuit[n]))
    /\ sent' = sent \cup {sending[n]}
    /\ sending' = [sending EXCEPT ![n] = NoMessage]
    /\ UNCHANGED <<world, unasked, running, circuit, unsent, drawn,
                   backlog, hand, delivered, timevars, memory>>

\* discover_peers: a HELLO, and then 5 s in which the other threads run.  What it
\* returns, the nodes that were not in the directory before, changes no state.
DiscoverHello(n) ==
    /\ n \in unasked
    /\ AppStep(n, "idle", "window")
    /\ unasked' = unasked \ {n}
    /\ Flood(n, HelloPacket(n))
    /\ UNCHANGED <<world, running, sending, circuit, unsent, drawn, sent,
                   backlog, hand, delivered, timevars, memory>>

DiscoverReturn(n) ==
    /\ AppStep(n, "window", "idle")
    /\ UNCHANGED <<world, unasked, running, sending, circuit, unsent, drawn, sent,
                   rxvars, timevars, memory>>

-----------------------------------------------------------------------------
(* The RX thread *)

\* The loop checks _running, asks for an adapter and takes a packet from it;
\* malformed ones never get here.
RxTake(n, t) ==
    LET mac   == ReadAdapter(n).mac
        first == backlog[mac] \cap inbox[mac]
    IN
    /\ running[n]
    /\ hand[n][t] = NoPacket
    /\ ReadAdapter(n) # NoAdapter
    /\ \E pkt \in IF first = {} THEN inbox[mac] ELSE first :
          /\ hand' = [hand EXCEPT ![n][t] = [packet |-> pkt, via |-> mac]]
          /\ inbox' = [inbox EXCEPT ![mac] = @ \ {pkt}]
    /\ UNCHANGED <<world, running, appvars, backlog, delivered, timevars, memory>>

RxEnd(n, t) ==
    /\ ~running[n]
    /\ hand[n][t] = NoPacket
    /\ hand' = [hand EXCEPT ![n][t] = Ended]
    /\ UNCHANGED <<world, running, appvars, inbox, backlog, delivered, timevars, memory>>

Handling(n, t) == hand[n][t] \notin {NoPacket, Ended}

\* What every handler has in common.
Handle(n, t, type) ==
    /\ Handling(n, t)
    /\ hand[n][t].packet.type = type
    /\ hand' = [hand EXCEPT ![n][t] = NoPacket]
    /\ backlog' = [backlog EXCEPT ![hand[n][t].via] = @ \ {hand[n][t].packet}]
    /\ UNCHANGED <<world, running, appvars, timevars>>

Deliver(n, pkt) == delivered' = [delivered EXCEPT ![n] = @ \cup {pkt.body}]

\* via_mac is the receiver's own adapter.  The reply is a broadcast HELLO like any
\* other, so it is replied to as well.
OnHello(n, t) ==
    LET src == hand[n][t].packet.src
        via == hand[n][t].via
    IN
    /\ Handle(n, t, "HELLO")
    /\ directory' = [directory EXCEPT ![n] = Register(@, src, via, 1)]
    /\ routes' = [routes EXCEPT ![n] = AddRoute(@, src, via, 1)]
    /\ IF src # n THEN SendViaMac(n, HelloPacket(n), via) ELSE UNCHANGED inbox
    /\ UNCHANGED <<circuits, delivered>>

\* Slip: the routes are treated like the directory.
OnByeClears(n, t) ==
    /\ Handle(n, t, "BYE")
    /\ directory' = [directory EXCEPT ![n] = EmptyTable(Nodes)]
    /\ routes' = [routes EXCEPT ![n] = EmptyTable(Nodes)]
    /\ UNCHANGED <<inbox, circuits, delivered>>

\* expire_stale(0) expires every node registered before this very instant.
OnBye(n, t) ==
    /\ Handle(n, t, "BYE")
    /\ directory' = [directory EXCEPT ![n] = EmptyTable(Nodes)]
    /\ routes' = [routes EXCEPT ![n] = Remove(@, hand[n][t].packet.src)]
    /\ UNCHANGED <<inbox, circuits, delivered>>

\* The destination ends the circuit; so does a node without a route.
OnCircuitSetup(n, t) ==
    LET pkt  == hand[n][t].packet
        next == IF pkt.dst \in {n, Broadcast} \/ routes[n][pkt.dst] = NoEntry
                THEN NoMac ELSE routes[n][pkt.dst].mac
    IN
    /\ Handle(n, t, "CIRCUIT_SETUP")
    /\ circuits' = [circuits EXCEPT ![n][pkt.cid] = [prev |-> hand[n][t].via, next |-> next]]
    /\ IF next = NoMac THEN UNCHANGED inbox ELSE SendViaMac(n, Decremented(pkt), next)
    /\ UNCHANGED <<routes, directory, delivered>>

\* _forward_circuit, with the table it finds the circuit in.
ForwardCircuit(n, pkt, table) ==
    IF table[pkt.cid] = NoEntry THEN UNCHANGED <<inbox, delivered>>
    ELSE IF table[pkt.cid].next = NoMac
    THEN Deliver(n, pkt) /\ UNCHANGED inbox
    ELSE SendViaMac(n, Decremented(pkt), table[pkt.cid].next) /\ UNCHANGED delivered

\* Slip: the circuit is looked up before the destination.
RoutePacketByCircuit(n, pkt, table) ==
    IF pkt.ttl = 0 THEN UNCHANGED <<inbox, delivered>>
    ELSE IF pkt.cid # 0 THEN ForwardCircuit(n, pkt, table)
    ELSE IF pkt.dst = n THEN Deliver(n, pkt) /\ UNCHANGED inbox
    ELSE IF routes[n][pkt.dst] = NoEntry THEN UNCHANGED <<inbox, delivered>>
    ELSE SendViaMac(n, Decremented(pkt), routes[n][pkt.dst].mac) /\ UNCHANGED delivered

\* route_packet, its five cases in order.
RoutePacket(n, pkt, table) ==
    IF pkt.dst = n THEN Deliver(n, pkt) /\ UNCHANGED inbox
    ELSE IF pkt.ttl = 0 THEN UNCHANGED <<inbox, delivered>>
    ELSE IF pkt.cid # 0 THEN ForwardCircuit(n, pkt, table)
    ELSE IF pkt.dst = Broadcast THEN Flood(n, Decremented(pkt)) /\ UNCHANGED delivered
    ELSE IF routes[n][pkt.dst] = NoEntry THEN UNCHANGED <<inbox, delivered>>
    ELSE SendViaMac(n, Decremented(pkt), routes[n][pkt.dst].mac) /\ UNCHANGED delivered

\* The circuit is removed first, so the teardown itself finds none to follow.
OnCircuitTeardown(n, t) ==
    LET pkt  == hand[n][t].packet
        left == Remove(circuits[n], pkt.cid)
    IN
    /\ Handle(n, t, "CIRCUIT_TEARDOWN")
    /\ circuits' = [circuits EXCEPT ![n] = left]
    /\ IF pkt.dst = n THEN UNCHANGED <<inbox, delivered>> ELSE RoutePacket(n, pkt, left)
    /\ UNCHANGED <<routes, directory>>

\* The body holds the entries read before the first malformed one, if any.
OnRouteUpdate(n, t) ==
    /\ Handle(n, t, "ROUTE_UPDATE")
    /\ routes' = [routes EXCEPT ![n] = AddRoutes(@, hand[n][t].packet.body, hand[n][t].via)]
    /\ UNCHANGED <<inbox, directory, circuits, delivered>>

OnData(n, t) ==
    /\ Handle(n, t, "DATA")
    /\ RoutePacket(n, hand[n][t].packet, circuits[n])
    /\ UNCHANGED memory

RxHandle(n, t) ==
    \/ OnHello(n, t) \/ OnBye(n, t) \/ OnCircuitSetup(n, t)
    \/ OnCircuitTeardown(n, t) \/ OnRouteUpdate(n, t) \/ OnData(n, t)

-----------------------------------------------------------------------------
(* The HELLO thread and time *)

HelloStep(n, t, from, to) == hello[n][t] = from /\ hello' = [hello EXCEPT ![n][t] = to]

\* The sleep is over, and the thread looks at _running, and once more if it is false.
HelloWake(n, t) ==
    /\ <<n, t>> \in due
    /\ due' = due \ {<<n, t>>}
    /\ HelloStep(n, t, "sleep", IF running[n] THEN "send" ELSE "loop")
    /\ UNCHANGED <<world, running, appvars, rxvars, memory>>

HelloLoop(n, t) ==
    /\ HelloStep(n, t, "loop", IF running[n] THEN "sleep" ELSE "ended")
    /\ UNCHANGED <<world, running, appvars, rxvars, due, memory>>

\* _running may have become false since.
HelloSend(n, t) ==
    /\ HelloStep(n, t, "send", "purge")
    /\ Flood(n, HelloPacket(n))
    /\ UNCHANGED <<world, running, appvars, backlog, hand, delivered, due, memory>>

\* Slip: the directory is forgotten.
HelloPurgeRoutes(n, t) ==
    /\ HelloStep(n, t, "purge", IF running[n] THEN "sleep" ELSE "ended")
    /\ routes' = [routes EXCEPT ![n] = Purge(@, StaleIntervals)]
    /\ UNCHANGED <<world, running, appvars, rxvars, due, directory, circuits>>

\* Slip: the thread leaves its loop after one turn.
HelloPurgeOnce(n, t) ==
    /\ HelloStep(n, t, "purge", "ended")
    /\ routes' = [routes EXCEPT ![n] = Purge(@, StaleIntervals)]
    /\ directory' = [directory EXCEPT ![n] = Purge(@, StaleIntervals)]
    /\ UNCHANGED <<world, running, appvars, rxvars, due, circuits>>

\* The loop looks at _running again when the tables have been purged.
HelloPurge(n, t) ==
    /\ HelloStep(n, t, "purge", IF running[n] THEN "sleep" ELSE "ended")
    /\ routes' = [routes EXCEPT ![n] = Purge(@, StaleIntervals)]
    /\ directory' = [directory EXCEPT ![n] = Purge(@, StaleIntervals)]
    /\ UNCHANGED <<world, running, appvars, rxvars, due, circuits>>

\* A HELLO interval ends.  What takes milliseconds is over before the 30 s are:
\* every HELLO thread has run, no call is half done, the RX threads of a node that
\* left have ended, and every packet that was waiting or in hand when the interval
\* began, in the adapter that is read, has been handled.
InHand(m) ==
    {hand[m[1]][t].packet : t \in {u \in Threads :
        Handling(m[1], u) /\ hand[m[1]][u].via = m}}

Waiting(m) == inbox[m] \cup InHand(m)

Tick ==
    /\ due = {}
    /\ \A n \in Nodes :
          /\ app[n] \in {"out", "idle", "gone"}
          /\ \A t \in Threads :
                /\ hello[n][t] \in {"sleep", "ended"}
                /\ ~running[n] => hand[n][t] = Ended
          /\ running[n] /\ ReadAdapter(n) # NoAdapter => backlog[ReadAdapter(n).mac] = {}
    /\ due' = {d \in Nodes \X Threads : hello[d[1]][d[2]] = "sleep"}
    /\ due' # {}
    /\ backlog' = [m \in Macs |-> IF running[m[1]] THEN Waiting(m) ELSE {}]
    /\ routes' = [n \in Nodes |-> Older(routes[n])]
    /\ directory' = [n \in Nodes |-> Older(directory[n])]
    /\ UNCHANGED <<world, running, appvars, inbox, hand, delivered, hello, circuits>>

\* A packet of a node that is not modelled arrives, perhaps of another
\* implementation of the protocol: one at a time of each (bound).
Foreign(n) ==
    \E pkt \in {f[2] : f \in {g \in ForeignPackets \cap plan.foreign : g[1] = n}}, m \in MacsOf(n) \ out :
        /\ running[n] /\ pkt \notin Waiting(m)
        /\ inbox' = [inbox EXCEPT ![m] = @ \cup {pkt}]
        /\ UNCHANGED <<world, running, appvars, backlog, hand, delivered, timevars, memory>>

\* No node runs any more, or ever will: nothing is left to happen.
Silence ==
    /\ \A n \in Nodes : app[n] \in {"out", "gone"}
    /\ \A n \in Nodes, t \in Threads : hand[n][t] = Ended /\ hello[n][t] = "ended"
    /\ UNCHANGED vars

AppContinue(n) ==
    \/ JoinHello(n) \/ LeaveStop(n) \/ NoRouteError(n)
    \/ Negotiate(n) \/ SendSetup(n) \/ SendData(n)
    \/ DiscoverReturn(n)

\* One turn of an RX thread: it has a packet in hand, looks for one, or ends.
RxStep(n, t) == RxHandle(n, t) \/ RxTake(n, t) \/ RxEnd(n, t)

HelloContinue(n, t) ==
    HelloLoop(n, t) \/ HelloWake(n, t) \/ HelloSend(n, t) \/ HelloPurge(n, t)

Next ==
    \/ \E n \in Nodes :
          \/ Join(n) \/ LeaveBye(n) \/ Crash(n) \/ Fail(n) \/ Recover(n)
          \/ DiscoverHello(n) \/ AppContinue(n)
          \/ \E m \in unsent : SendCall(n, m)
          \/ \E t \in Threads : RxStep(n, t) \/ HelloContinue(n, t)
          \/ Foreign(n)
    \/ Tick
    \/ Silence

\* A HELLO interval passes, or an application or HELLO thread goes on with what
\* has to be done before it is over.
Interval ==
    \/ Tick
    \/ \E n \in Nodes : AppContinue(n) \/ \E t \in Threads : HelloContinue(n, t)

\* Every thread is scheduled.  For those of an interval it is enough to say so of
\* all of them together: none can go on for ever, for Tick waits for the others.
Fairness ==
    /\ WF_<<app, hello, due>>(Interval)
    /\ \A n \in Nodes, t \in Threads : WF_hand(RxStep(n, t))

Spec     == Init /\ [][Next]_vars
FairSpec == Spec /\ Fairness

-----------------------------------------------------------------------------
(* Properties *)

RouteTables   == [Nodes -> Entries(Macs) \cup {NoEntry}]
CircuitTables == [CircuitIds -> [prev : Macs \cup {NoMac}, next : Macs \cup {NoMac}] \cup {NoEntry}]

\* Every variable has its type.
TypeOK ==
    /\ plan \in Plans
    /\ running \in [Nodes -> BOOLEAN]
    /\ joins \in [Nodes -> 0 .. MaxJoins]
    /\ outages \in Nat
    /\ out \subseteq Macs
    /\ selected = SelectedWithout(out)
    /\ app \in [Nodes -> {"out", "hello", "idle", "negotiate", "setup", "data", "window",
                        "stop", "gone"}]
    /\ sending \in [Nodes -> Messages \cup {NoMessage}]
    /\ circuit \in [Nodes -> CircuitIds \cup {0}]
    /\ hello \in [Nodes -> [Threads -> {"loop", "sleep", "send", "purge", "ended"}]]
    /\ due \subseteq Nodes \X Threads
    /\ inbox \in [Macs -> SUBSET Packets]
    /\ hand \in [Nodes -> [Threads -> [packet : Packets, via : Macs] \cup {NoPacket, Ended}]]
    /\ backlog \in [Macs -> SUBSET Packets]
    /\ \A m \in Macs : backlog[m] \subseteq Waiting(m)
    /\ routes \in [Nodes -> RouteTables]
    /\ directory \in [Nodes -> RouteTables]
    /\ circuits \in [Nodes -> CircuitTables]
    /\ delivered \in [Nodes -> SUBSET Messages]
    /\ unsent \subseteq Messages
    /\ drawn \subseteq CircuitIds
    /\ sent \subseteq Messages
    /\ unasked \subseteq Nodes

\* While a node runs that has joined once, an entry that nothing refreshes is gone
\* one interval after it went stale: purge_stale and expire_stale run once per
\* interval, between any two handlers.
StaleEntriesPurged ==
    \A n \in Nodes, d \in Nodes :
        running[n] /\ joins[n] = 1 =>
            /\ routes[n][d] # NoEntry => routes[n][d].age <= StaleIntervals + 1
            /\ directory[n][d] # NoEntry => directory[n][d].age <= StaleIntervals + 1

\* A node runs and has never left, and no BYE of it is under way.
Steady(n) ==
    /\ running[n] /\ joins[n] = 1 /\ app[n] \notin {"hello", "stop"}
    /\ \A m \in Macs : \A pkt \in Waiting(m) : pkt.type = "BYE" => pkt.src # n

Perfect == ~Lossy /\ plan.outages = 0

\* A node that keeps running is never dropped by a neighbour that hears it: the
\* purge leaves three HELLO intervals, and a BYE names its sender only, whatever
\* order HELLOs, replies, ticks and the BYE of another node come in.
LiveRouteKept ==
    [][\A a, b \in Nodes :
          (Perfect /\ <<a, b>> \in plan.links /\ Steady(a) /\ Steady(a)' /\ running'[b] /\ routes[b][a] # NoEntry)
              => routes'[b][a] # NoEntry]_vars

\* Nodes that run in the end know each other in the end and for good, whatever
\* was before: a return among threads of the time before the BYE, a BYE that comes
\* after the HELLO of the return, a crash and a restart without tables, or a time
\* when adapters failed and packets were dropped without a word (line 357).
LiveNodesKnown ==
    <>[](\A a, b \in Nodes :
            (<<a, b>> \in plan.links /\ running[a] /\ running[b] /\ out = {})
                => routes[b][a] # NoEntry /\ directory[b][a] # NoEntry)

\* The same of the directory, which the docstring of _on_bye (line 294) implies:
\* "Elimina al nodo que se fue del directorio y de la tabla de ruteo".
LiveNodeKept ==
    [][\A a, b \in Nodes :
          (Perfect /\ <<a, b>> \in plan.links /\ Steady(a) /\ Steady(a)' /\ running'[b] /\ directory[b][a] # NoEntry)
              => directory'[b][a] # NoEntry]_vars

\* A node that left or crashed is forgotten for good by every node that stays,
\* although a HELLO of its other threads may follow its BYE.
GhostsForgotten ==
    \A a, b \in Nodes :
        <>[](app[a] = "gone" => ~running[b] \/ (routes[b][a] = NoEntry /\ directory[b][a] = NoEntry))

\* What a node learns goes on to those that hear it: "A node MUST broadcast a
\* ROUTE_UPDATE" when it has handled the HELLO of a new neighbour (README.md, line
\* 944), which is where the code replies to it.
NewsSpreads ==
    [][\A n, d \in Nodes :
          (n # d /\ routes[n][d] = NoEntry /\ routes'[n][d] # NoEntry) =>
              \A m \in Hears(n, ReadAdapter(n).type) :
                  \E pkt \in inbox'[m] : pkt.type = "ROUTE_UPDATE" /\ pkt.src = n]_vars

\* No code sends a ROUTE_UPDATE, so without those of another implementation a route
\* leads to a node that was heard itself, and the mesh is one hop wide.
RoutesAreNeighbours ==
    ForeignPackets = {} =>
        \A n, d \in Nodes :
            /\ routes[n][d] # NoEntry => <<d, n>> \in plan.links /\ routes[n][d].cost = 1
            /\ directory[n][d] # NoEntry => <<d, n>> \in plan.links

\* User data reaches the application of its destination, and no other one: a
\* circuit's "next_hop_mac es None si este nodo es el destinatario final"
\* (red/interfaces.py, line 122), and of no other node.
NoMisdelivery == \A n \in Nodes : \A m \in delivered[n] : m.to = n

\* In a mesh where nobody leaves and nothing is lost, a message whose DATA went
\* out towards a running destination that hears the sender is delivered there in
\* the end, in whatever order its CIRCUIT_SETUP, HELLOs and other messages are
\* handled.
SentIsDelivered ==
    <>[](\A m \in sent :
            running[m.to] /\ <<m.from, m.to>> \in plan.links => m \in delivered[m.to])

\* Until then it waits in the adapter that its destination reads, or one of the RX
\* threads there has it in hand: neither a circuit, which _find_circuit_for takes for
\* any destination with the same next hop (line 412), nor the TTL, nor a return of the
\* destination among its old threads makes a node pass it by.
SentIsKept ==
    Perfect /\ plan.crashers = {} =>
        \A m \in sent : <<m.from, m.to>> \in plan.links =>
            \/ m \in delivered[m.to]
            \/ \E pkt \in Waiting(ReadAdapter(m.to).mac) :
                   pkt.type = "DATA" /\ pkt.dst = m.to /\ pkt.body = m

\* "Best cost wins": whatever is heard from whom, and in whatever order, the cost
\* of a route never rises while the route lives (routing.py, lines 35-38).
BestCostWins ==
    [][\A n, d \in Nodes :
          (routes[n][d] # NoEntry /\ routes'[n][d] # NoEntry)
              => routes'[n][d].cost <= routes[n][d].cost]_vars

\* No DATA circulates for ever, not even where a node hears its own packets and
\* routes them to itself: the TTL takes it off the air.
DataLeavesAir ==
    <>[](\A n \in Nodes, m \in Macs :
            running[m[1]] => \A pkt \in inbox[m] : pkt.type # "DATA")
=============================================================================
