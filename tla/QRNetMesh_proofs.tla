-------------------------- MODULE QRNetMesh_proofs --------------------------
(***************************************************************************)
(* Theorems about QRNetMesh, for every set of nodes, pool of adapters,     *)
(* selection policy, TTL, plan, set of messages and of packets of others,  *)
(* for media that lose packets and for media that do not.  Two speak of    *)
(* perfect media: LiveRouteKept, for a PlainMesh, and SentIsKept, for      *)
(* nodes that have a screen each (ScreensFirst).                           *)
(***************************************************************************)
EXTENDS QRNetMesh, AdapterSelection_proofs, TLAPS

\* A send_anonymous call that is under way has its message, and then its circuit.
CallsAreSet ==
    \A n \in Nodes :
        /\ app[n] \in {"negotiate", "setup", "data"} => sending[n] \in Messages
        /\ app[n] \in {"setup", "data"} => circuit[n] \in CircuitIds

TypeInv == TypeOK /\ CallsAreSet

\* What is read off the air is not forgotten by the backlog of an adapter.
BacklogWaits == \A m \in Macs : backlog[m] \subseteq Waiting(m)

-----------------------------------------------------------------------------
(* Adapters and the medium *)

\* The adapter that a node reads is one of its own.
LEMMA ReadAdapterFacts ==
    ASSUME TypeOK, NEW n \in Nodes
    PROVE  ReadAdapter(n) # NoAdapter => ReadAdapter(n).mac \in Macs /\ ReadAdapter(n).mac[1] = n
<1> DEFINE pool == PoolWithout(n, out)
<1>1. ReadAdapter(n) = Select(pool, Policy, {}, Broadcast)
  BY DEF TypeOK, SelectedWithout, ReadAdapter
<1>2. DOMAIN pool = DOMAIN Adapters[n] /\ DOMAIN pool \subseteq Nat
  BY AdaptersAssumption DEF AdaptersAssumption, PoolWithout
<1>3. \A k \in DOMAIN pool : pool[k].mac = <<n, k>>  BY DEF PoolWithout
<1>4. \A k \in DOMAIN pool : <<n, k>> \in Macs  BY <1>2 DEF Macs
<1> HIDE DEF pool
<1>5. ReadAdapter(n) = NoAdapter \/ \E k \in DOMAIN pool : ReadAdapter(n) = pool[k]
  BY <1>1, <1>2, SelectFacts, PolicyAssumption DEF PolicyAssumption
<1>6. ASSUME NEW k \in DOMAIN pool, ReadAdapter(n) = pool[k]
      PROVE  ReadAdapter(n).mac \in Macs /\ ReadAdapter(n).mac[1] = n
  <2>1. ReadAdapter(n).mac = <<n, k>>  BY <1>3, <1>6
  <2>. QED  BY <1>4, <2>1
<1>. QED  BY <1>5, <1>6

\* Sending adds the packet, to adapters that have a link from the sender.
LEMMA SendFacts ==
    ASSUME TypeOK, NEW n \in Nodes, NEW adapter, NEW pkt \in Packets, SendOn(n, adapter, pkt)
    PROVE  /\ inbox' \in [Macs -> SUBSET Packets]
           /\ \A m \in Macs : inbox[m] \subseteq inbox'[m]
           /\ \A m \in Macs : \A p \in inbox'[m] :
                 p \in inbox[m] \/ (p = pkt /\ <<n, m[1]>> \in plan.links /\ m \notin out)
<1>0. inbox \in [Macs -> SUBSET Packets]  BY DEF TypeOK
<1>1. CASE adapter = NoAdapter  BY <1>0, <1>1 DEF SendOn
<1>2. CASE adapter # NoAdapter
  <2>1. PICK heard \in SUBSET Hears(n, adapter.type) :
            inbox' = [m \in Macs |-> IF m \in heard THEN inbox[m] \cup {pkt} ELSE inbox[m]]
    BY <1>2 DEF SendOn
  <2>2. \A m \in heard : <<n, m[1]>> \in plan.links /\ m \notin out  BY DEF Hears
  <2>. QED  BY <1>0, <2>1, <2>2
<1>. QED  BY <1>1, <1>2

\* A packet that is sent joins those that wait, so no backlog is left behind.
LEMMA SendKeepsBacklog ==
    ASSUME TypeOK, UNCHANGED <<backlog, hand>>, \A m \in Macs : inbox[m] \subseteq inbox'[m]
    PROVE  BacklogWaits'
<1>1. \A m \in Macs : InHand(m)' = InHand(m)  BY DEF InHand, Handling
<1>2. \A m \in Macs : Waiting(m) \subseteq Waiting(m)'  BY <1>1 DEF Waiting
<1>. QED  BY <1>2 DEF TypeOK, BacklogWaits

\* The packets that a node makes are packets.
LEMMA PacketFacts ==
    ASSUME NEW n \in Nodes
    PROVE  /\ HelloPacket(n) \in Packets /\ HelloPacket(n).type = "HELLO" /\ HelloPacket(n).src = n
           /\ ByePacket(n) \in Packets /\ ByePacket(n).type = "BYE"
           /\ \A d \in Nodes, c \in CircuitIds :
                 SetupPacket(n, d, c) \in Packets /\ SetupPacket(n, d, c).type = "CIRCUIT_SETUP"
           /\ \A m \in Messages, c \in CircuitIds :
                 DataPacket(m, c) \in Packets /\ DataPacket(m, c).type = "DATA"
<1>1. MaxTTL \in 0 .. MaxTTL  BY TTLAssumption DEF TTLAssumption
<1>2. \A m \in Messages : m.to \in Nodes  BY MessageAssumption DEF MessageAssumption
<1>. QED  BY <1>1, <1>2 DEF HelloPacket, ByePacket, SetupPacket, DataPacket, Packet, Packets

\* A packet keeps its kind, its addresses and its body when its TTL goes down.
LEMMA DecrementedFacts ==
    ASSUME NEW pkt \in Packets
    PROVE  /\ Decremented(pkt) \in Packets
           /\ Decremented(pkt).type = pkt.type /\ Decremented(pkt).src = pkt.src
<1>1. MaxTTL \in Nat  BY TTLAssumption DEF TTLAssumption
<1>. QED  BY <1>1 DEF Decremented, Packets

\* What packets hold.
LEMMA PacketTypes ==
    ASSUME NEW pkt \in Packets
    PROVE  /\ pkt.type \in {"HELLO", "BYE", "CIRCUIT_SETUP", "CIRCUIT_TEARDOWN", "ROUTE_UPDATE", "DATA"}
           /\ pkt.type # "DATA" => pkt.src \in Nodes
           /\ pkt.dst \in Nodes \cup {Broadcast}
           /\ pkt.cid \in CircuitIds \cup {0}
           /\ pkt.type = "DATA" => pkt.body \in Messages
           /\ pkt.type = "ROUTE_UPDATE" => pkt.body \in Updates
BY DEF Packets

-----------------------------------------------------------------------------
(* The tables *)

LEMMA EntryFacts == \A mac, cost : Entry(mac, cost).age = 0 /\ Entry(mac, cost).cost = cost
BY DEF Entry

\* What becomes of the entries of a table of routes, operation by operation:
\* each one is as before, gone, one interval older, or new.
LEMMA TableFacts ==
    ASSUME NEW table \in RouteTables, NEW key \in Nodes, NEW mac \in Macs, NEW cost \in Nat
    PROVE  /\ EmptyTable(Nodes) \in RouteTables
           /\ Remove(table, key) \in RouteTables
           /\ AddRoute(table, key, mac, cost) \in RouteTables
           /\ Register(table, key, mac, cost) \in RouteTables
           /\ Purge(table, StaleIntervals) \in RouteTables
           /\ Older(table) \in RouteTables
<1>0. StaleIntervals \in Nat  BY StaleAssumption DEF StaleAssumption
<1>1. \A c \in Nat : Entry(mac, c) \in Entries(Macs)  BY <1>0 DEF Entry, Entries, Ages
<1>2. \A k \in Nodes : table[k] # NoEntry => table[k] \in Entries(Macs)  BY DEF RouteTables
<1>3. EmptyTable(Nodes) \in RouteTables  BY DEF EmptyTable, RouteTables
<1>4. Remove(table, key) \in RouteTables  BY DEF Remove, RouteTables
<1>5. AddRoute(table, key, mac, cost) \in RouteTables  BY <1>1 DEF AddRoute, RouteTables
<1>6. Register(table, key, mac, cost) \in RouteTables
  <2>1. table[key] # NoEntry => table[key].cost \in Nat  BY <1>2 DEF Entries
  <2>. QED  BY <1>1, <2>1 DEF Register, RouteTables
<1>7. Purge(table, StaleIntervals) \in RouteTables  BY DEF Purge, RouteTables
<1>8. Older(table) \in RouteTables
  <2>1. \A k \in Nodes : table[k] # NoEntry /\ table[k].age < StaleIntervals + 2
            => [table[k] EXCEPT !.age = @ + 1] \in Entries(Macs)
    BY <1>0, <1>2 DEF Entries, Ages
  <2>. QED  BY <2>1 DEF Older, RouteTables
<1>. QED  BY <1>3, <1>4, <1>5, <1>6, <1>7, <1>8

\* A route update sets a route or leaves it.
LEMMA AddRoutesFacts ==
    ASSUME NEW table \in RouteTables, NEW costs \in Updates, NEW mac \in Macs
    PROVE  /\ AddRoutes(table, costs, mac) \in RouteTables
           /\ \A d \in Nodes :
                 \/ AddRoutes(table, costs, mac)[d] = table[d]
                 \/ /\ costs[d] \in Nat
                    /\ AddRoutes(table, costs, mac)[d] = Entry(mac, costs[d] + 1)
                    /\ table[d] = NoEntry \/ costs[d] + 1 <= table[d].cost
<1> DEFINE new == AddRoutes(table, costs, mac)
<1>0. StaleIntervals \in Nat  BY StaleAssumption DEF StaleAssumption
<1>1. DOMAIN table = Nodes  BY DEF RouteTables
<1>2. \A d \in Nodes : costs[d] = NoEntry \/ costs[d] \in Nat  BY DEF Updates
<1>3. ASSUME NEW d \in Nodes
      PROVE  \/ new[d] = table[d]
             \/ /\ costs[d] \in Nat /\ new[d] = Entry(mac, costs[d] + 1)
                /\ table[d] = NoEntry \/ costs[d] + 1 <= table[d].cost
  <2>1. new[d] = IF costs[d] = NoEntry THEN table[d] ELSE AddRoute(table, d, mac, costs[d] + 1)[d]
    BY <1>1 DEF AddRoutes
  <2>2. \/ AddRoute(table, d, mac, costs[d] + 1)[d] = table[d]
        \/ /\ AddRoute(table, d, mac, costs[d] + 1)[d] = Entry(mac, costs[d] + 1)
           /\ table[d] = NoEntry \/ costs[d] + 1 <= table[d].cost
    BY <1>1 DEF AddRoute
  <2>. QED  BY <2>1, <2>2, <1>2
<1>4. \A c \in Nat : Entry(mac, c + 1) \in Entries(Macs)  BY <1>0 DEF Entry, Entries, Ages
<1>5. \A d \in Nodes : new[d] \in Entries(Macs) \cup {NoEntry}
  BY <1>3, <1>4 DEF RouteTables
<1>6. new = [d \in Nodes |-> new[d]]  BY <1>1 DEF AddRoutes
<1>7. new \in RouteTables  BY <1>5, <1>6 DEF RouteTables
<1>. QED  BY <1>3, <1>7

-----------------------------------------------------------------------------
(* Handlers *)

\* What an RX thread has in hand, and that handling it leaves no backlog behind.
LEMMA HandleFacts ==
    ASSUME TypeOK, NEW n \in Nodes, NEW t \in Threads, NEW type, Handle(n, t, type),
           inbox' \in [Macs -> SUBSET Packets],
           \A m \in Macs : inbox[m] \subseteq inbox'[m]
    PROVE  /\ hand' \in [Nodes -> [Threads -> [packet : Packets, via : Macs] \cup {NoPacket, Ended}]]
           /\ backlog' \in [Macs -> SUBSET Packets]
           /\ BacklogWaits'
<1> DEFINE pkt == hand[n][t].packet
           via == hand[n][t].via
<1>1. hand \in [Nodes -> [Threads -> [packet : Packets, via : Macs] \cup {NoPacket, Ended}]]
  BY DEF TypeOK
<1>2. pkt \in Packets /\ via \in Macs  BY <1>1 DEF Handle, Handling
<1>3. hand' = [hand EXCEPT ![n][t] = NoPacket]  BY DEF Handle
<1>4. backlog' = [backlog EXCEPT ![via] = @ \ {pkt}]  BY DEF Handle
<1>5. hand' \in [Nodes -> [Threads -> [packet : Packets, via : Macs] \cup {NoPacket, Ended}]]
  BY <1>1, <1>3
<1>6. backlog \in [Macs -> SUBSET Packets] /\ \A m \in Macs : backlog[m] \subseteq Waiting(m)
  BY DEF TypeOK
<1>7. backlog' \in [Macs -> SUBSET Packets]  BY <1>2, <1>4, <1>6
<1>8. ASSUME NEW m \in Macs PROVE backlog'[m] \subseteq Waiting(m)'
  <2>1. SUFFICES ASSUME NEW p \in backlog'[m], p \notin inbox[m] PROVE p \in InHand(m)'
    BY DEF Waiting
  <2>2. p \in backlog[m] /\ (m = via => p # pkt)  BY <1>2, <1>4, <1>6
  <2>3. p \in InHand(m)  BY <2>1, <2>2, <1>6 DEF Waiting
  <2>4. PICK u \in Threads : Handling(m[1], u) /\ hand[m[1]][u].via = m /\ p = hand[m[1]][u].packet
    BY <2>3 DEF InHand
  <2>5. m[1] \in Nodes  BY DEF Macs
  <2>6. ~ (m[1] = n /\ u = t)  BY <2>2, <2>4
  <2>7. hand'[m[1]][u] = hand[m[1]][u]  BY <1>1, <1>3, <2>5, <2>6
  <2>. QED  BY <2>4, <2>7 DEF InHand, Handling
<1>. QED  BY <1>5, <1>7, <1>8 DEF BacklogWaits

\* What an RX thread has in hand is a packet, read from one of the node's adapters.
LEMMA InHandFacts ==
    ASSUME TypeOK, NEW n \in Nodes, NEW t \in Threads, Handling(n, t)
    PROVE  hand[n][t].packet \in Packets /\ hand[n][t].via \in Macs
BY DEF TypeOK, Handling

\* Routing a packet on delivers its body here or sends it, one hop older.
LEMMA RouteFacts ==
    ASSUME TypeOK, NEW n \in Nodes, NEW pkt \in Packets, NEW table \in CircuitTables,
           RoutePacket(n, pkt, table),
           pkt.type = "DATA" \/ (pkt.dst # n /\ (pkt.cid # 0 => table[pkt.cid] = NoEntry))
    PROVE  /\ inbox' \in [Macs -> SUBSET Packets]
           /\ \A m \in Macs : inbox[m] \subseteq inbox'[m]
           /\ \A m \in Macs : \A p \in inbox'[m] :
                 p \in inbox[m] \/ (p = Decremented(pkt) /\ <<n, m[1]>> \in plan.links /\ m \notin out)
           /\ delivered' \in [Nodes -> SUBSET Messages]
<1> DEFINE Sent == \E adapter : SendOn(n, adapter, Decremented(pkt))
<1>1. pkt.cid # 0 => pkt.cid \in CircuitIds  BY PacketTypes
<1>2. \/ pkt.type = "DATA" /\ Deliver(n, pkt) /\ UNCHANGED inbox
      \/ Sent /\ UNCHANGED delivered
      \/ UNCHANGED <<inbox, delivered>>
  BY DEF RoutePacket, ForwardCircuit, SendViaMac, Flood
<1>3. CASE pkt.type = "DATA" /\ Deliver(n, pkt) /\ UNCHANGED inbox
  <2>1. pkt.body \in Messages  BY <1>3, PacketTypes
  <2>. QED  BY <1>3, <2>1 DEF Deliver, TypeOK
<1>4. CASE Sent /\ UNCHANGED delivered
  <2>1. Decremented(pkt) \in Packets  BY DecrementedFacts
  <2>. QED  BY <1>4, <2>1, SendFacts DEF TypeOK
<1>5. CASE UNCHANGED <<inbox, delivered>>  BY <1>5 DEF TypeOK
<1>. QED  BY <1>2, <1>3, <1>4, <1>5

-----------------------------------------------------------------------------
(* Type correctness *)

LEMMA TypeInit == Init => TypeInv
<1> SUFFICES ASSUME Init PROVE TypeInv  OBVIOUS
<1>1. MaxJoins \in Nat /\ MaxTTL \in Nat  BY JoinAssumption, TTLAssumption DEF JoinAssumption, TTLAssumption
<1>2. \A n \in Nodes : routes[n] \in RouteTables /\ directory[n] \in RouteTables /\ circuits[n] \in CircuitTables
  BY DEF Init, EmptyTable, RouteTables, CircuitTables
<1>3. \A m \in Macs : backlog[m] \subseteq Waiting(m)  BY DEF Init
<1>4. CallsAreSet  BY DEF Init, CallsAreSet
<1>5. plan.messages \subseteq Messages /\ plan.discoverers \subseteq Nodes
  BY PlanAssumption DEF Init, PlanAssumption, Plan
<1>6. TypeOK  BY <1>1, <1>2, <1>3, <1>5 DEF Init, TypeOK
<1>. QED  BY <1>4, <1>6 DEF TypeInv

\* The steps of the application thread that send a packet.
LEMMA TypeSends ==
    ASSUME TypeInv, NEW n \in Nodes,
           JoinHello(n) \/ LeaveBye(n) \/ SendSetup(n) \/ SendData(n) \/ DiscoverHello(n)
    PROVE  TypeInv'
<1> USE DEF world, memory, timevars
<1> DEFINE Sent(pkt) == \E adapter : SendOn(n, adapter, pkt)
<1>1. \E pkt \in Packets : Sent(pkt)
  <2>1. CASE JoinHello(n) \/ DiscoverHello(n)
    <3>1. Sent(HelloPacket(n))  BY <2>1 DEF JoinHello, DiscoverHello, Flood
    <3>. QED  BY <3>1, PacketFacts
  <2>2. CASE LeaveBye(n)
    <3>1. Sent(ByePacket(n))  BY <2>2 DEF LeaveBye, SendPacket, SendViaMac
    <3>. QED  BY <3>1, PacketFacts
  <2>3. CASE SendSetup(n)
    <3>1. sending[n].to \in Nodes /\ circuit[n] \in CircuitIds
      BY <2>3, MessageAssumption DEF SendSetup, AppStep, TypeInv, CallsAreSet, MessageAssumption
    <3>2. Sent(SetupPacket(n, sending[n].to, circuit[n]))
      BY <2>3 DEF SendSetup, SendPacket, SendViaMac
    <3>. QED  BY <3>1, <3>2, PacketFacts
  <2>4. CASE SendData(n)
    <3>1. sending[n] \in Messages /\ circuit[n] \in CircuitIds
      BY <2>4 DEF SendData, AppStep, TypeInv, CallsAreSet
    <3>2. Sent(DataPacket(sending[n], circuit[n]))
      BY <2>4 DEF SendData, SendPacket, SendViaMac
    <3>. QED  BY <3>1, <3>2, PacketFacts
  <2>. QED  BY <2>1, <2>2, <2>3, <2>4
<1>2. TypeOK  BY DEF TypeInv
<1>3. inbox' \in [Macs -> SUBSET Packets] /\ \A m \in Macs : inbox[m] \subseteq inbox'[m]
  BY <1>1, <1>2, SendFacts
<1>4. UNCHANGED <<world, running, circuit, unsent, drawn, backlog, hand, delivered, timevars, memory>>
  BY DEF JoinHello, LeaveBye, SendSetup, SendData, DiscoverHello
<1>5. BacklogWaits'  BY <1>2, <1>3, <1>4, SendKeepsBacklog
<1>6. PICK to \in {"idle", "stop", "data", "window"} :
          /\ app' = [app EXCEPT ![n] = to]
          /\ to = "data" => app[n] = "setup" /\ UNCHANGED sending
  BY DEF JoinHello, LeaveBye, SendSetup, SendData, DiscoverHello, AppStep
<1>7. sending' = sending \/ sending' = [sending EXCEPT ![n] = NoMessage]
  BY DEF JoinHello, LeaveBye, SendSetup, SendData, DiscoverHello
<1>8. unasked' \subseteq unasked /\ sent' \subseteq Messages
  <2>1. CASE SendData(n)
    <3>1. sending[n] \in Messages  BY <2>1 DEF SendData, AppStep, TypeInv, CallsAreSet
    <3>. QED  BY <1>2, <2>1, <3>1 DEF SendData, TypeOK
  <2>2. CASE JoinHello(n) \/ LeaveBye(n) \/ SendSetup(n) \/ DiscoverHello(n)
    BY <1>2, <2>2 DEF JoinHello, LeaveBye, SendSetup, DiscoverHello, TypeOK
  <2>. QED  BY <2>1, <2>2
<1>9. CallsAreSet'
  BY <1>2, <1>4, <1>6, <1>7 DEF TypeInv, TypeOK, CallsAreSet
<1>10. TypeOK'
  BY <1>2, <1>3, <1>4, <1>5, <1>6, <1>7, <1>8 DEF TypeOK, BacklogWaits
<1>. QED  BY <1>9, <1>10 DEF TypeInv

\* Its other steps, but for join_mesh.
LEMMA TypeCalls ==
    ASSUME TypeInv, NEW n \in Nodes,
           \/ LeaveStop(n) \/ NoRouteError(n) \/ Negotiate(n) \/ DiscoverReturn(n)
           \/ \E m \in unsent : SendCall(n, m)
    PROVE  TypeInv'
<1> USE DEF world, memory, timevars, rxvars
<1>1. TypeOK  BY DEF TypeInv
<1>2. UNCHANGED <<world, rxvars, timevars, routes, directory, unasked, sent>>
  BY DEF LeaveStop, NoRouteError, Negotiate, DiscoverReturn, SendCall
<1>3. BacklogWaits'  BY <1>1, <1>2, SendKeepsBacklog
<1>4. CASE LeaveStop(n) \/ NoRouteError(n) \/ DiscoverReturn(n)
  <2>1. PICK to \in {"gone", "idle"} : app' = [app EXCEPT ![n] = to]
    BY <1>4 DEF LeaveStop, NoRouteError, DiscoverReturn, AppStep
  <2>2. running' = running \/ running' = [running EXCEPT ![n] = FALSE]
    BY <1>4 DEF LeaveStop, NoRouteError, DiscoverReturn
  <2>3. sending' = sending \/ sending' = [sending EXCEPT ![n] = NoMessage]
    BY <1>4 DEF LeaveStop, NoRouteError, DiscoverReturn
  <2>4. UNCHANGED <<circuit, unsent, drawn, circuits>>
    BY <1>4 DEF LeaveStop, NoRouteError, DiscoverReturn
  <2>5. CallsAreSet'  BY <1>1, <2>1, <2>3, <2>4 DEF TypeInv, TypeOK, CallsAreSet
  <2>6. TypeOK'  BY <1>1, <1>2, <1>3, <2>1, <2>2, <2>3, <2>4 DEF TypeOK, BacklogWaits
  <2>. QED  BY <2>5, <2>6 DEF TypeInv
<1>5. CASE Negotiate(n)
  <2> DEFINE dst == sending[n].to
  <2>1. PICK c \in CircuitIds :
            /\ circuit' = [circuit EXCEPT ![n] = c]
            /\ drawn' = drawn \cup {c}
            /\ circuits' = [circuits EXCEPT ![n][c] =
                  [prev |-> NoMac, next |-> IF routes[n][dst] = NoEntry THEN NoMac ELSE routes[n][dst].mac]]
    BY <1>5 DEF Negotiate
  <2>2. dst \in Nodes /\ sending[n] \in Messages
    BY <1>5, MessageAssumption DEF Negotiate, AppStep, TypeInv, CallsAreSet, MessageAssumption
  <2>3. routes[n][dst] # NoEntry => routes[n][dst].mac \in Macs
    BY <1>1, <2>2 DEF TypeOK, RouteTables, Entries
  <2>4. circuits' \in [Nodes -> CircuitTables]
    BY <1>1, <2>1, <2>3 DEF TypeOK, CircuitTables
  <2>5. app' = [app EXCEPT ![n] = "setup"] /\ UNCHANGED <<running, sending, unsent>>
    BY <1>5 DEF Negotiate, AppStep
  <2>6. CallsAreSet'  BY <1>1, <2>1, <2>2, <2>5 DEF TypeInv, TypeOK, CallsAreSet
  <2>7. TypeOK'  BY <1>1, <1>2, <1>3, <2>1, <2>4, <2>5 DEF TypeOK, BacklogWaits
  <2>. QED  BY <2>6, <2>7 DEF TypeInv
<1>6. CASE \E m \in unsent : SendCall(n, m)
  <2>1. PICK m \in Messages, to \in {"data", "negotiate"} :
            /\ app' = [app EXCEPT ![n] = to]
            /\ sending' = [sending EXCEPT ![n] = m]
            /\ to = "data" => \E c \in CircuitIds : circuit' = [circuit EXCEPT ![n] = c]
            /\ to = "negotiate" => UNCHANGED circuit
    BY <1>1, <1>6 DEF SendCall, AppStep, CircuitsFor, TypeOK
  <2>2. unsent' \subseteq unsent /\ UNCHANGED <<running, drawn, circuits>>  BY <1>6 DEF SendCall
  <2>3. circuit' \in [Nodes -> CircuitIds \cup {0}]  BY <1>1, <2>1 DEF TypeOK
  <2>4. CallsAreSet'  BY <1>1, <2>1 DEF TypeInv, TypeOK, CallsAreSet
  <2>5. TypeOK'  BY <1>1, <1>2, <1>3, <2>1, <2>2, <2>3 DEF TypeOK, BacklogWaits
  <2>. QED  BY <2>4, <2>5 DEF TypeInv
<1>. QED  BY <1>4, <1>5, <1>6

\* The steps of an RX thread between two packets.
LEMMA TypeTakes ==
    ASSUME TypeInv, NEW n \in Nodes, NEW t \in Threads, RxTake(n, t) \/ RxEnd(n, t)
    PROVE  TypeInv'
<1> USE DEF world, memory, timevars, appvars
<1> DEFINE Hands == [packet : Packets, via : Macs]
<1>1. TypeOK  BY DEF TypeInv
<1>2. UNCHANGED <<world, running, appvars, backlog, delivered, timevars, memory>>
  BY DEF RxTake, RxEnd
<1>3. hand \in [Nodes -> [Threads -> Hands \cup {NoPacket, Ended}]] /\ inbox \in [Macs -> SUBSET Packets]
  BY <1>1 DEF TypeOK
<1>4. ~Handling(n, t) /\ hand[n][t] = NoPacket  BY DEF RxTake, RxEnd, Handling
<1>5. CallsAreSet'  BY <1>2 DEF TypeInv, CallsAreSet
<1>6. CASE RxTake(n, t)
  <2> DEFINE mac == ReadAdapter(n).mac
  <2>1. PICK pkt \in inbox[mac] :
            /\ hand' = [hand EXCEPT ![n][t] = [packet |-> pkt, via |-> mac]]
            /\ inbox' = [inbox EXCEPT ![mac] = @ \ {pkt}]
    BY <1>6 DEF RxTake
  <2>2. mac \in Macs /\ mac[1] = n  BY <1>1, <1>6, ReadAdapterFacts DEF RxTake
  <2> HIDE DEF mac
  <2>3. pkt \in Packets  BY <1>3, <2>1, <2>2
  <2> DEFINE held == [packet |-> pkt, via |-> mac]
  <2>4. held \in Hands /\ held.packet = pkt /\ held.via = mac /\ held \notin {NoPacket, Ended}
    BY <2>2, <2>3, HandAssumption DEF HandAssumption
  <2> HIDE DEF held
  <2>5. hand' = [hand EXCEPT ![n][t] = held]  BY <2>1 DEF held
  <2>6. hand' \in [Nodes -> [Threads -> Hands \cup {NoPacket, Ended}]]  BY <1>3, <2>4, <2>5
  <2>7. inbox' \in [Macs -> SUBSET Packets]  BY <1>3, <2>1
  <2>8. BacklogWaits'
    <3>1. SUFFICES ASSUME NEW m \in Macs, NEW p \in backlog[m] PROVE p \in Waiting(m)'
      BY <1>2 DEF BacklogWaits
    <3>2. p \in inbox[m] \/ p \in InHand(m)  BY <1>1, <3>1 DEF TypeOK, Waiting
    <3>3. m[1] \in Nodes  BY DEF Macs
    <3>4. CASE p \in InHand(m)
      <4>1. PICK u \in Threads : Handling(m[1], u) /\ hand[m[1]][u].via = m /\ p = hand[m[1]][u].packet
        BY <3>4 DEF InHand
      <4>2. hand'[m[1]][u] = hand[m[1]][u]  BY <1>3, <1>4, <2>5, <3>3, <4>1
      <4>. QED  BY <4>1, <4>2 DEF Waiting, InHand, Handling
    <3>5. CASE p \in inbox[m] /\ (m # mac \/ p # pkt)
      <4>1. p \in inbox'[m]  BY <1>3, <2>1, <2>2, <3>5
      <4>. QED  BY <4>1 DEF Waiting
    <3>6. CASE m = mac /\ p = pkt
      <4>1. hand'[m[1]][t] = held  BY <1>3, <2>2, <2>5, <3>6
      <4>2. Handling(m[1], t)' /\ hand'[m[1]][t].via = m /\ hand'[m[1]][t].packet = p
        BY <4>1, <2>4, <3>6 DEF Handling
      <4>. QED  BY <4>2 DEF Waiting, InHand
    <3>. QED  BY <3>2, <3>4, <3>5, <3>6
  <2>9. TypeOK'  BY <1>1, <1>2, <2>6, <2>7, <2>8 DEF TypeOK, BacklogWaits
  <2>. QED  BY <1>5, <2>9 DEF TypeInv
<1>7. CASE RxEnd(n, t)
  <2>1. hand' = [hand EXCEPT ![n][t] = Ended] /\ UNCHANGED inbox  BY <1>7 DEF RxEnd
  <2>2. hand' \in [Nodes -> [Threads -> Hands \cup {NoPacket, Ended}]]  BY <1>3, <2>1
  <2>3. BacklogWaits'
    <3>1. SUFFICES ASSUME NEW m \in Macs, NEW p \in backlog[m] PROVE p \in Waiting(m)'
      BY <1>2 DEF BacklogWaits
    <3>2. p \in inbox[m] \/ p \in InHand(m)  BY <1>1, <3>1 DEF TypeOK, Waiting
    <3>3. m[1] \in Nodes  BY DEF Macs
    <3>4. CASE p \in InHand(m)
      <4>1. PICK u \in Threads : Handling(m[1], u) /\ hand[m[1]][u].via = m /\ p = hand[m[1]][u].packet
        BY <3>4 DEF InHand
      <4>2. hand'[m[1]][u] = hand[m[1]][u]  BY <1>3, <1>4, <2>1, <3>3, <4>1
      <4>. QED  BY <4>1, <4>2 DEF Waiting, InHand, Handling
    <3>. QED  BY <2>1, <3>2, <3>4 DEF Waiting
  <2>4. TypeOK'  BY <1>1, <1>2, <2>1, <2>2, <2>3 DEF TypeOK, BacklogWaits
  <2>. QED  BY <1>5, <2>4 DEF TypeInv
<1>. QED  BY <1>6, <1>7

\* The handlers.
LEMMA TypeHandles ==
    ASSUME TypeInv, NEW n \in Nodes, NEW t \in Threads, RxHandle(n, t)
    PROVE  TypeInv'
<1> USE DEF world, memory, timevars, appvars
<1> DEFINE pkt == hand[n][t].packet
           via == hand[n][t].via
<1>1. TypeOK  BY DEF TypeInv
<1>2. PICK type : Handle(n, t, type)
  BY DEF RxHandle, OnHello, OnBye, OnCircuitSetup, OnCircuitTeardown, OnRouteUpdate, OnData
<1>3. UNCHANGED <<world, running, appvars, timevars>>  BY <1>2 DEF Handle
<1>4. pkt \in Packets /\ via \in Macs  BY <1>1, <1>2, InHandFacts DEF Handle
<1>5. CallsAreSet'  BY <1>3 DEF TypeInv, CallsAreSet
<1>6. /\ routes \in [Nodes -> RouteTables] /\ directory \in [Nodes -> RouteTables]
      /\ circuits \in [Nodes -> CircuitTables] /\ delivered \in [Nodes -> SUBSET Messages]
      /\ inbox \in [Macs -> SUBSET Packets]
  BY <1>1 DEF TypeOK
<1>6a. \A x \in Nodes : routes[x] \in RouteTables /\ directory[x] \in RouteTables /\ circuits[x] \in CircuitTables
  BY <1>6
<1> DEFINE Typed ==
        /\ routes' \in [Nodes -> RouteTables] /\ directory' \in [Nodes -> RouteTables]
        /\ circuits' \in [Nodes -> CircuitTables] /\ delivered' \in [Nodes -> SUBSET Messages]
        /\ inbox' \in [Macs -> SUBSET Packets] /\ \A m \in Macs : inbox[m] \subseteq inbox'[m]
           Sends(p) == \E adapter : SendOn(n, adapter, p)
<1>7. ASSUME NEW p \in Packets, Sends(p) \/ UNCHANGED inbox
      PROVE  inbox' \in [Macs -> SUBSET Packets] /\ \A m \in Macs : inbox[m] \subseteq inbox'[m]
  BY <1>1, <1>6, <1>7, SendFacts
<1>8. ASSUME OnHello(n, t) PROVE Typed
  <2>1. pkt.src \in Nodes  BY <1>4, <1>8, PacketTypes DEF OnHello, Handle
  <2>2. /\ Register(directory[n], pkt.src, via, 1) \in RouteTables
        /\ AddRoute(routes[n], pkt.src, via, 1) \in RouteTables
    BY <1>4, <1>6a, <2>1, TableFacts
  <2>3. /\ directory' = [directory EXCEPT ![n] = Register(@, pkt.src, via, 1)]
        /\ routes' = [routes EXCEPT ![n] = AddRoute(@, pkt.src, via, 1)]
        /\ UNCHANGED <<circuits, delivered>>
        /\ Sends(HelloPacket(n)) \/ UNCHANGED inbox
    BY <1>8 DEF OnHello, SendViaMac
  <2>4. HelloPacket(n) \in Packets  BY PacketFacts
  <2>5. inbox' \in [Macs -> SUBSET Packets] /\ \A m \in Macs : inbox[m] \subseteq inbox'[m]
    BY <1>7, <2>3, <2>4
  <2> HIDE DEF Sends
  <2>. QED  BY <1>6, <2>2, <2>3, <2>5
<1>9. ASSUME OnBye(n, t) PROVE Typed
  <2>1. pkt.src \in Nodes  BY <1>4, <1>9, PacketTypes DEF OnBye, Handle
  <2>2. EmptyTable(Nodes) \in RouteTables /\ Remove(routes[n], pkt.src) \in RouteTables
    BY <1>4, <1>6a, <2>1, TableFacts
  <2>3. /\ directory' = [directory EXCEPT ![n] = EmptyTable(Nodes)]
        /\ routes' = [routes EXCEPT ![n] = Remove(@, pkt.src)]
        /\ UNCHANGED <<inbox, circuits, delivered>>
    BY <1>9 DEF OnBye
  <2>. QED  BY <1>6, <2>2, <2>3
<1>10. ASSUME OnCircuitSetup(n, t) PROVE Typed
  <2> DEFINE next == IF pkt.dst \in {n, Broadcast} \/ routes[n][pkt.dst] = NoEntry
                     THEN NoMac ELSE routes[n][pkt.dst].mac
             entry == [prev |-> via, next |-> next]
  <2>1. pkt.dst \in Nodes \cup {Broadcast}  BY <1>4, PacketTypes
  <2>2. next \in Macs \cup {NoMac}  BY <1>6a, <2>1 DEF RouteTables, Entries
  <2>3. /\ circuits' = [circuits EXCEPT ![n][pkt.cid] = entry]
        /\ UNCHANGED <<routes, directory, delivered>>
        /\ Sends(Decremented(pkt)) \/ UNCHANGED inbox
    BY <1>10 DEF OnCircuitSetup, SendViaMac
  <2> HIDE DEF next
  <2>4. entry \in [prev : Macs \cup {NoMac}, next : Macs \cup {NoMac}]  BY <1>4, <2>2
  <2> HIDE DEF entry
  <2>5. circuits' \in [Nodes -> CircuitTables]  BY <1>6, <2>3, <2>4 DEF CircuitTables
  <2>6. Decremented(pkt) \in Packets  BY <1>4, DecrementedFacts
  <2>7. inbox' \in [Macs -> SUBSET Packets] /\ \A m \in Macs : inbox[m] \subseteq inbox'[m]
    BY <1>7, <2>3, <2>6
  <2>. QED  BY <1>6, <2>3, <2>5, <2>7
<1>11. ASSUME OnCircuitTeardown(n, t) PROVE Typed
  <2> DEFINE left == Remove(circuits[n], pkt.cid)
  <2>1. left \in CircuitTables  BY <1>6a DEF Remove, CircuitTables
  <2>2. pkt.cid \in CircuitIds \cup {0}  BY <1>4, PacketTypes
  <2>3. pkt.cid # 0 => left[pkt.cid] = NoEntry  BY <1>6a, <2>2 DEF Remove, CircuitTables
  <2>4. /\ circuits' = [circuits EXCEPT ![n] = left]
        /\ UNCHANGED <<routes, directory>>
        /\ IF pkt.dst = n THEN UNCHANGED <<inbox, delivered>> ELSE RoutePacket(n, pkt, left)
    BY <1>11 DEF OnCircuitTeardown
  <2> HIDE DEF left
  <2>5. circuits' \in [Nodes -> CircuitTables]  BY <1>6, <2>1, <2>4
  <2>6. CASE pkt.dst = n  BY <1>6, <2>4, <2>5, <2>6
  <2>7. CASE pkt.dst # n
    <3>1. /\ inbox' \in [Macs -> SUBSET Packets] /\ \A m \in Macs : inbox[m] \subseteq inbox'[m]
          /\ delivered' \in [Nodes -> SUBSET Messages]
      BY <1>1, <1>4, <2>1, <2>3, <2>4, <2>7, RouteFacts
    <3>. QED  BY <1>6, <2>4, <2>5, <3>1
  <2>. QED  BY <2>6, <2>7
<1>12. ASSUME OnRouteUpdate(n, t) PROVE Typed
  <2>1. pkt.body \in Updates  BY <1>4, <1>12, PacketTypes DEF OnRouteUpdate, Handle
  <2>2. AddRoutes(routes[n], pkt.body, via) \in RouteTables  BY <1>4, <1>6a, <2>1, AddRoutesFacts
  <2>3. /\ routes' = [routes EXCEPT ![n] = AddRoutes(@, pkt.body, via)]
        /\ UNCHANGED <<inbox, directory, circuits, delivered>>
    BY <1>12 DEF OnRouteUpdate
  <2>. QED  BY <1>6, <2>2, <2>3
<1>13. ASSUME OnData(n, t) PROVE Typed
  <2>1. pkt.type = "DATA" /\ RoutePacket(n, pkt, circuits[n]) /\ UNCHANGED memory
    BY <1>13 DEF OnData, Handle
  <2>2. /\ inbox' \in [Macs -> SUBSET Packets] /\ \A m \in Macs : inbox[m] \subseteq inbox'[m]
        /\ delivered' \in [Nodes -> SUBSET Messages]
    BY <1>1, <1>4, <1>6a, <2>1, RouteFacts
  <2>. QED  BY <1>6, <2>1, <2>2
<1>14. Typed  BY <1>8, <1>9, <1>10, <1>11, <1>12, <1>13 DEF RxHandle
<1>15. /\ hand' \in [Nodes -> [Threads -> [packet : Packets, via : Macs] \cup {NoPacket, Ended}]]
       /\ backlog' \in [Macs -> SUBSET Packets]
       /\ BacklogWaits'
  BY <1>1, <1>2, <1>14, HandleFacts
<1>16. TypeOK'  BY <1>1, <1>3, <1>14, <1>15 DEF TypeOK, BacklogWaits
<1>. QED  BY <1>5, <1>16 DEF TypeInv

\* The HELLO threads.
LEMMA TypeHellos ==
    ASSUME TypeInv, NEW n \in Nodes, NEW t \in Threads, HelloContinue(n, t)
    PROVE  TypeInv'
<1> USE DEF world, memory, appvars
<1>1. TypeOK  BY DEF TypeInv
<1>2. UNCHANGED <<world, running, appvars, backlog, hand, delivered, circuits>> /\ due' \subseteq due
  BY DEF HelloContinue, HelloLoop, HelloWake, HelloSend, HelloPurge, rxvars
<1>3. hello' \in [Nodes -> [Threads -> {"loop", "sleep", "send", "purge", "ended"}]]
  <2>1. PICK to \in {"loop", "sleep", "send", "purge", "ended"} : hello' = [hello EXCEPT ![n][t] = to]
    BY DEF HelloContinue, HelloLoop, HelloWake, HelloSend, HelloPurge, HelloStep
  <2>. QED  BY <1>1, <2>1 DEF TypeOK
<1>4. inbox' \in [Macs -> SUBSET Packets] /\ \A m \in Macs : inbox[m] \subseteq inbox'[m]
  <2>1. CASE HelloSend(n, t)
    <3>1. \E adapter : SendOn(n, adapter, HelloPacket(n))  BY <2>1 DEF HelloSend, Flood
    <3>. QED  BY <1>1, <3>1, PacketFacts, SendFacts
  <2>2. CASE ~HelloSend(n, t)
    BY <1>1, <2>2 DEF HelloContinue, HelloLoop, HelloWake, HelloPurge, rxvars, TypeOK
  <2>. QED  BY <2>1, <2>2
<1>5. routes' \in [Nodes -> RouteTables] /\ directory' \in [Nodes -> RouteTables]
  <2>1. CASE HelloPurge(n, t)
    <3>1. routes[n] \in RouteTables /\ directory[n] \in RouteTables  BY <1>1 DEF TypeOK
    <3>2. Purge(routes[n], StaleIntervals) \in RouteTables /\ Purge(directory[n], StaleIntervals) \in RouteTables
      BY <3>1 DEF Purge, RouteTables
    <3>. QED  BY <1>1, <2>1, <3>2 DEF HelloPurge, TypeOK
  <2>2. CASE ~HelloPurge(n, t)
    BY <1>1, <2>2 DEF HelloContinue, HelloLoop, HelloWake, HelloSend, TypeOK
  <2>. QED  BY <2>1, <2>2
<1>6. BacklogWaits'  BY <1>1, <1>2, <1>4, SendKeepsBacklog
<1>7. CallsAreSet'  BY <1>2 DEF TypeInv, CallsAreSet
<1>8. TypeOK'  BY <1>1, <1>2, <1>3, <1>4, <1>5, <1>6 DEF TypeOK, BacklogWaits
<1>. QED  BY <1>7, <1>8 DEF TypeInv

\* join_mesh and crashes, which give the threads of one node new states.
LEMMA TypeJoin ==
    ASSUME TypeInv, NEW n \in Nodes, Join(n)
    PROVE  TypeInv'
<1> USE DEF memory
<1>1. TypeOK  BY DEF TypeInv
<1>2. joins[n] + 1 \in 0 .. MaxJoins /\ joins[n] + 1 \in Threads
  <2>1. plan \in Plan  BY <1>1, PlanAssumption DEF TypeOK, PlanAssumption
  <2>2. plan.joins[n] \in 0 .. MaxJoins  BY <2>1 DEF Plan
  <2>. QED  BY <1>1, <2>2, JoinAssumption DEF Join, TypeOK, JoinAssumption, Threads
<1>3. /\ joins' = [joins EXCEPT ![n] = @ + 1]
      /\ app' = [app EXCEPT ![n] = "hello"]
      /\ running' = [running EXCEPT ![n] = TRUE]
      /\ hand' = [hand EXCEPT ![n][joins[n] + 1] = NoPacket]
      /\ hello' = [hello EXCEPT ![n][joins[n] + 1] = "sleep"]
      /\ backlog' = [m \in Macs |-> IF m[1] = n THEN inbox[m] ELSE backlog[m]]
      /\ UNCHANGED <<plan, outages, out, selected, sending, circuit, unsent, drawn, sent, unasked,
                     inbox, delivered, due, memory>>
  BY DEF Join
<1>4. joins' \in [Nodes -> 0 .. MaxJoins]  BY <1>1, <1>2, <1>3 DEF TypeOK
<1>5. hand' \in [Nodes -> [Threads -> [packet : Packets, via : Macs] \cup {NoPacket, Ended}]]
  BY <1>1, <1>2, <1>3 DEF TypeOK
<1>6. hello' \in [Nodes -> [Threads -> {"loop", "sleep", "send", "purge", "ended"}]]
  BY <1>1, <1>2, <1>3 DEF TypeOK
<1>7. backlog' \in [Macs -> SUBSET Packets]  BY <1>1, <1>3 DEF TypeOK
<1>8. BacklogWaits'
  <2>1. SUFFICES ASSUME NEW m \in Macs PROVE backlog'[m] \subseteq Waiting(m)'
    BY DEF BacklogWaits
  <2>2. CASE m[1] = n  BY <1>3, <2>2 DEF Waiting
  <2>3. CASE m[1] # n
    <3>1. hand'[m[1]] = hand[m[1]]  BY <1>1, <1>3, <2>3 DEF TypeOK, Macs
    <3>2. Waiting(m)' = Waiting(m)  BY <1>3, <3>1 DEF Waiting, InHand, Handling
    <3>. QED  BY <1>1, <1>3, <2>3, <3>2 DEF TypeOK
  <2>. QED  BY <2>2, <2>3
<1>9. CallsAreSet'  BY <1>1, <1>3 DEF TypeInv, TypeOK, CallsAreSet
<1>10. TypeOK'  BY <1>1, <1>3, <1>4, <1>5, <1>6, <1>7, <1>8 DEF TypeOK, BacklogWaits
<1>. QED  BY <1>9, <1>10 DEF TypeInv

LEMMA TypeCrash ==
    ASSUME TypeInv, NEW n \in Nodes, Crash(n)
    PROVE  TypeInv'
<1>1. TypeOK  BY DEF TypeInv
<1>2. /\ app' = [app EXCEPT ![n] = "gone"]
      /\ running' = [running EXCEPT ![n] = FALSE]
      /\ hand' = [hand EXCEPT ![n] = [t \in Threads |-> Ended]]
      /\ hello' = [hello EXCEPT ![n] = [t \in Threads |-> "ended"]]
      /\ due' \subseteq due
      /\ out' = out \cup MacsOf(n) /\ selected' = SelectedWithout(out')
      /\ inbox' = [m \in Macs |-> IF m[1] = n THEN {} ELSE inbox[m]]
      /\ backlog' = [m \in Macs |-> IF m[1] = n THEN {} ELSE backlog[m]]
      /\ routes' = [routes EXCEPT ![n] = EmptyTable(Nodes)]
      /\ directory' = [directory EXCEPT ![n] = EmptyTable(Nodes)]
      /\ circuits' = [circuits EXCEPT ![n] = EmptyTable(CircuitIds)]
      /\ UNCHANGED <<plan, joins, outages, unasked, sending, circuit, unsent, drawn, sent, delivered>>
  BY DEF Crash
<1>3. /\ hand' \in [Nodes -> [Threads -> [packet : Packets, via : Macs] \cup {NoPacket, Ended}]]
      /\ hello' \in [Nodes -> [Threads -> {"loop", "sleep", "send", "purge", "ended"}]]
      /\ inbox' \in [Macs -> SUBSET Packets] /\ backlog' \in [Macs -> SUBSET Packets]
  BY <1>1, <1>2 DEF TypeOK
<1>4. /\ routes' \in [Nodes -> RouteTables] /\ directory' \in [Nodes -> RouteTables]
      /\ circuits' \in [Nodes -> CircuitTables]
  <2>1. EmptyTable(Nodes) \in RouteTables /\ EmptyTable(CircuitIds) \in CircuitTables
    BY DEF EmptyTable, RouteTables, CircuitTables
  <2>. QED  BY <1>1, <1>2, <2>1 DEF TypeOK
<1>5. BacklogWaits'
  <2>1. SUFFICES ASSUME NEW m \in Macs PROVE backlog'[m] \subseteq Waiting(m)'
    BY DEF BacklogWaits
  <2>2. CASE m[1] = n  BY <1>2, <2>2
  <2>3. CASE m[1] # n
    <3>1. hand'[m[1]] = hand[m[1]]  BY <1>1, <1>2, <2>3 DEF TypeOK, Macs
    <3>2. inbox'[m] = inbox[m] /\ backlog'[m] = backlog[m]  BY <1>2, <2>3
    <3>3. Waiting(m)' = Waiting(m)  BY <3>1, <3>2 DEF Waiting, InHand, Handling
    <3>. QED  BY <1>1, <3>2, <3>3 DEF TypeOK
  <2>. QED  BY <2>2, <2>3
<1>6. CallsAreSet'  BY <1>1, <1>2 DEF TypeInv, TypeOK, CallsAreSet
<1>7. out' \subseteq Macs  BY <1>1, <1>2 DEF TypeOK, MacsOf
<1>8. TypeOK'  BY <1>1, <1>2, <1>3, <1>4, <1>5, <1>7 DEF TypeOK, BacklogWaits
<1>. QED  BY <1>6, <1>8 DEF TypeInv

\* Adapters that fail or recover, packets of nodes that are not modelled, and time.
LEMMA TypeWorld ==
    ASSUME TypeInv, (\E n \in Nodes : Fail(n) \/ Recover(n) \/ Foreign(n)) \/ Tick
    PROVE  TypeInv'
<1> USE DEF world, memory, appvars, timevars
<1>1. TypeOK  BY DEF TypeInv
<1>2. CallsAreSet'
  <2>1. UNCHANGED appvars  BY DEF Fail, Recover, Foreign, Tick
  <2>. QED  BY <2>1 DEF TypeInv, CallsAreSet
<1>3. ASSUME NEW n \in Nodes, Fail(n) \/ Recover(n) PROVE TypeOK'
  <2>1. UNCHANGED <<plan, joins, running, appvars, rxvars, timevars, memory>>
    BY <1>3 DEF Fail, Recover
  <2>2. BacklogWaits'  BY <1>1, <2>1, SendKeepsBacklog DEF rxvars
  <2>3. out' \subseteq Macs /\ selected' = SelectedWithout(out') /\ outages' \in Nat
    BY <1>1, <1>3 DEF Fail, Recover, MacsOf, TypeOK
  <2>. QED  BY <1>1, <2>1, <2>2, <2>3 DEF TypeOK, BacklogWaits, rxvars
<1>4. ASSUME NEW n \in Nodes, Foreign(n) PROVE TypeOK'
  <2>1. PICK pkt \in Packets, m \in Macs : inbox' = [inbox EXCEPT ![m] = @ \cup {pkt}]
    <3> DEFINE heard == {f[2] : f \in {g \in ForeignPackets \cap plan.foreign : g[1] = n}}
    <3>1. heard \subseteq Packets  BY ForeignAssumption DEF ForeignAssumption
    <3>2. MacsOf(n) \ out \subseteq Macs  BY DEF MacsOf
    <3>3. \E pkt \in heard, m \in MacsOf(n) \ out : inbox' = [inbox EXCEPT ![m] = @ \cup {pkt}]
      BY <1>4 DEF Foreign
    <3> HIDE DEF heard
    <3>. QED  BY <3>1, <3>2, <3>3
  <2>2. UNCHANGED <<world, running, appvars, backlog, hand, delivered, timevars, memory>>
    BY <1>4 DEF Foreign
  <2>3. inbox' \in [Macs -> SUBSET Packets] /\ \A k \in Macs : inbox[k] \subseteq inbox'[k]
    BY <1>1, <2>1 DEF TypeOK
  <2>4. BacklogWaits'  BY <1>1, <2>2, <2>3, SendKeepsBacklog
  <2>. QED  BY <1>1, <2>2, <2>3, <2>4 DEF TypeOK, BacklogWaits
<1>5. ASSUME Tick PROVE TypeOK'
  <2>1. UNCHANGED <<world, running, appvars, inbox, hand, delivered, hello, circuits>>
    BY <1>5 DEF Tick
  <2>2. backlog' = [m \in Macs |-> IF running[m[1]] THEN Waiting(m) ELSE {}]
    BY <1>5 DEF Tick
  <2>3. \A m \in Macs : Waiting(m)' = Waiting(m)  BY <2>1 DEF Waiting, InHand, Handling
  <2>4. BacklogWaits'  BY <2>2, <2>3 DEF BacklogWaits
  <2>5. \A m \in Macs : Waiting(m) \subseteq Packets
    <3>1. SUFFICES ASSUME NEW m \in Macs, NEW p \in InHand(m) PROVE p \in Packets
      BY <1>1 DEF Waiting, TypeOK
    <3>2. PICK u \in Threads : Handling(m[1], u) /\ p = hand[m[1]][u].packet  BY <3>1 DEF InHand
    <3>3. m[1] \in Nodes  BY DEF Macs
    <3>. QED  BY <1>1, <3>2, <3>3, InHandFacts
  <2>6. backlog' \in [Macs -> SUBSET Packets]  BY <2>2, <2>5
  <2>7. routes' \in [Nodes -> RouteTables] /\ directory' \in [Nodes -> RouteTables]
    <3>1. \A table \in RouteTables : Older(table) \in RouteTables
      <4>1. \A table \in RouteTables, k \in Nodes :
                table[k] # NoEntry /\ table[k].age < StaleIntervals + 2
                    => [table[k] EXCEPT !.age = @ + 1] \in Entries(Macs)
        BY StaleAssumption DEF StaleAssumption, RouteTables, Entries, Ages
      <4>. QED  BY <4>1 DEF Older, RouteTables
    <3>2. routes' = [n \in Nodes |-> Older(routes[n])] /\ directory' = [n \in Nodes |-> Older(directory[n])]
      BY <1>5 DEF Tick
    <3>. QED  BY <1>1, <3>1, <3>2 DEF TypeOK
  <2>8. due' \subseteq Nodes \X Threads  BY <1>5 DEF Tick
  <2>. QED  BY <1>1, <2>1, <2>4, <2>6, <2>7, <2>8 DEF TypeOK, BacklogWaits
<1>. QED  BY <1>2, <1>3, <1>4, <1>5 DEF TypeInv

\* Each step of any thread preserves the types.
LEMMA TypeNext == TypeInv /\ [Next]_vars => TypeInv'
<1> SUFFICES ASSUME TypeInv, [Next]_vars PROVE TypeInv'  OBVIOUS
<1>1. CASE UNCHANGED vars
  <2>1. TypeOK  BY DEF TypeInv
  <2>2. BacklogWaits'  BY <1>1, <2>1, SendKeepsBacklog DEF vars, rxvars
  <2>3. TypeOK'
    BY <1>1, <2>1, <2>2 DEF TypeOK, BacklogWaits, vars, world, appvars, rxvars, timevars, memory
  <2>4. CallsAreSet'  BY <1>1 DEF TypeInv, CallsAreSet, vars, appvars
  <2>. QED  BY <2>3, <2>4 DEF TypeInv
<1>2. CASE \E n \in Nodes :
               \/ JoinHello(n) \/ LeaveBye(n) \/ SendSetup(n) \/ SendData(n) \/ DiscoverHello(n)
  BY <1>2, TypeSends
<1>3. CASE \E n \in Nodes :
               \/ LeaveStop(n) \/ NoRouteError(n) \/ Negotiate(n) \/ DiscoverReturn(n)
               \/ \E m \in unsent : SendCall(n, m)
  BY <1>3, TypeCalls
<1>4. CASE \E n \in Nodes, t \in Threads : RxTake(n, t) \/ RxEnd(n, t)  BY <1>4, TypeTakes
<1>5. CASE \E n \in Nodes, t \in Threads : RxHandle(n, t)  BY <1>5, TypeHandles
<1>6. CASE \E n \in Nodes, t \in Threads : HelloContinue(n, t)  BY <1>6, TypeHellos
<1>7. CASE \E n \in Nodes : Join(n)  BY <1>7, TypeJoin
<1>8. CASE \E n \in Nodes : Crash(n)  BY <1>8, TypeCrash
<1>9. CASE (\E n \in Nodes : Fail(n) \/ Recover(n) \/ Foreign(n)) \/ Tick  BY <1>9, TypeWorld
<1>. QED
  BY <1>1, <1>2, <1>3, <1>4, <1>5, <1>6, <1>7, <1>8, <1>9 DEF Next, AppContinue, RxStep, Silence

\* Every variable of the mesh keeps its type: what waits and what is in hand are
\* packets, each selector is up to date with the adapters that are available, and
\* the backlog that a HELLO interval waits for is a part of what waits.
THEOREM TypeCorrect == Spec => []TypeOK
<1>1. TypeInv => TypeOK  BY DEF TypeInv
<1>. QED  BY TypeInit, TypeNext, <1>1, PTL DEF Spec

-----------------------------------------------------------------------------
(* What a step does to one entry *)

\* A packet of a kind, from a node if it is a HELLO, is being handled.
Hearing(n, type, src) ==
    \E t \in Threads :
        /\ Handling(n, t)
        /\ hand[n][t].packet.type = type
        /\ type = "HELLO" => hand[n][t].packet.src = src

Aged(old, new) ==
    /\ old # NoEntry /\ new.cost = old.cost
    /\ new.age = old.age + 1 \/ (new.age = old.age /\ old.age = StaleIntervals + 2)

\* An entry stays, goes, grows older when time passes, or is new: then a HELLO of
\* the node or a route update is being handled.
RouteStep(n, d) ==
    \/ routes'[n][d] = routes[n][d]
    \/ routes'[n][d] = NoEntry
    \/ Tick /\ Aged(routes[n][d], routes'[n][d])
    \/ /\ routes'[n][d].age = 0
       /\ routes[n][d] # NoEntry => routes'[n][d].cost <= routes[n][d].cost
       /\ \/ Hearing(n, "HELLO", d) /\ routes'[n][d].cost = 1
          \/ Hearing(n, "ROUTE_UPDATE", d)

DirectoryStep(n, d) ==
    \/ directory'[n][d] = directory[n][d]
    \/ directory'[n][d] = NoEntry
    \/ Tick /\ Aged(directory[n][d], directory'[n][d])
    \/ directory'[n][d].age = 0 /\ Hearing(n, "HELLO", d)

\* The steps that write the two tables.
LEMMA TableWriters ==
    ASSUME [Next]_vars
    PROVE  \/ UNCHANGED <<routes, directory>>
           \/ \E n \in Nodes, t \in Threads :
                  OnHello(n, t) \/ OnBye(n, t) \/ OnRouteUpdate(n, t) \/ HelloPurge(n, t)
           \/ \E n \in Nodes : Crash(n)
           \/ Tick
<1>1. CASE UNCHANGED vars  BY <1>1 DEF vars, memory
<1>2. CASE Tick \/ Silence  BY <1>2 DEF Silence, vars, memory
<1>3. ASSUME NEW n \in Nodes,
             \/ Join(n) \/ LeaveBye(n) \/ Fail(n) \/ Recover(n) \/ DiscoverHello(n) \/ AppContinue(n)
             \/ Foreign(n) \/ \E m \in unsent : SendCall(n, m)
      PROVE  UNCHANGED <<routes, directory>>
  <2>1. CASE Join(n) \/ LeaveBye(n) \/ Fail(n) \/ Recover(n) \/ DiscoverHello(n)
    BY <2>1 DEF Join, LeaveBye, Fail, Recover, DiscoverHello, memory
  <2>2. CASE JoinHello(n) \/ LeaveStop(n) \/ DiscoverReturn(n) \/ NoRouteError(n)
    BY <2>2 DEF memory, JoinHello, LeaveStop, DiscoverReturn, NoRouteError
  <2>3. CASE Negotiate(n) \/ SendSetup(n) \/ SendData(n)
    BY <2>3 DEF memory, Negotiate, SendSetup, SendData
  <2>4. CASE Foreign(n) \/ \E m \in unsent : SendCall(n, m)
    BY <2>4 DEF Foreign, SendCall, memory
  <2>. QED  BY <1>3, <2>1, <2>2, <2>3, <2>4 DEF AppContinue
<1>4. ASSUME NEW n \in Nodes, NEW t \in Threads,
             \/ OnCircuitSetup(n, t) \/ OnCircuitTeardown(n, t) \/ OnData(n, t) \/ RxTake(n, t) \/ RxEnd(n, t)
             \/ HelloLoop(n, t) \/ HelloWake(n, t) \/ HelloSend(n, t)
      PROVE  UNCHANGED <<routes, directory>>
  <2>1. CASE OnCircuitSetup(n, t) \/ OnCircuitTeardown(n, t)
    BY <2>1 DEF OnCircuitSetup, OnCircuitTeardown
  <2>2. CASE OnData(n, t) \/ RxTake(n, t) \/ RxEnd(n, t)
    BY <2>2 DEF OnData, RxTake, RxEnd, memory
  <2>3. CASE HelloLoop(n, t) \/ HelloWake(n, t) \/ HelloSend(n, t)
    BY <2>3 DEF HelloLoop, HelloWake, HelloSend, memory
  <2>. QED  BY <1>4, <2>1, <2>2, <2>3
<1>. QED  BY <1>1, <1>2, <1>3, <1>4 DEF Next, RxStep, RxHandle, HelloContinue

LEMMA EntrySteps ==
    ASSUME TypeInv, [Next]_vars, NEW n \in Nodes, NEW d \in Nodes
    PROVE  RouteStep(n, d) /\ DirectoryStep(n, d)
<1>1. TypeOK  BY DEF TypeInv
<1>2. /\ routes \in [Nodes -> RouteTables] /\ directory \in [Nodes -> RouteTables]
      /\ routes[n] \in RouteTables /\ directory[n] \in RouteTables
  BY <1>1 DEF TypeOK
<1>3. CASE UNCHANGED <<routes, directory>>  BY <1>3 DEF RouteStep, DirectoryStep
<1>4. ASSUME NEW x \in Nodes, NEW t \in Threads, OnHello(x, t) PROVE RouteStep(n, d) /\ DirectoryStep(n, d)
  <2> DEFINE src == hand[x][t].packet.src
             via == hand[x][t].via
  <2>1. /\ directory' = [directory EXCEPT ![x] = Register(@, src, via, 1)]
        /\ routes' = [routes EXCEPT ![x] = AddRoute(@, src, via, 1)]
        /\ Handling(x, t) /\ hand[x][t].packet.type = "HELLO"
    BY <1>4 DEF OnHello, Handle
  <2>2. Hearing(x, "HELLO", src)  BY <2>1 DEF Hearing
  <2>3. CASE x # n
    <3>1. routes'[n] = routes[n] /\ directory'[n] = directory[n]  BY <1>2, <2>1, <2>3
    <3>. QED  BY <3>1 DEF RouteStep, DirectoryStep
  <2>4. CASE x = n
    <3>1. routes'[n] = AddRoute(routes[n], src, via, 1) /\ directory'[n] = Register(directory[n], src, via, 1)
      BY <1>2, <2>1, <2>4
    <3>2. routes'[n][d] = routes[n][d]
          \/ /\ routes'[n][d] = Entry(via, 1) /\ d = src
             /\ routes[n][d] # NoEntry => 1 <= routes[n][d].cost
      <4>1. DOMAIN routes[n] = Nodes  BY <1>2 DEF RouteTables
      <4> HIDE DEF src, via
      <4>. QED  BY <3>1, <4>1 DEF AddRoute
    <3>3. directory'[n][d] = directory[n][d]
          \/ \E c : directory'[n][d] = Entry(via, c) /\ d = src
      <4>1. DOMAIN directory[n] = Nodes  BY <1>2 DEF RouteTables
      <4> HIDE DEF src, via
      <4>. QED  BY <3>1, <4>1 DEF Register
    <3>4. RouteStep(n, d)  BY <2>2, <2>4, <3>2 DEF RouteStep, Entry
    <3>5. DirectoryStep(n, d)
      <4> HIDE DEF src, via
      <4>1. directory'[n][d] = directory[n][d] \/ (directory'[n][d].age = 0 /\ d = src)
        BY <3>3, EntryFacts
      <4>. QED  BY <2>2, <2>4, <4>1 DEF DirectoryStep
    <3>. QED  BY <3>4, <3>5
  <2>. QED  BY <2>3, <2>4
<1>5. ASSUME NEW x \in Nodes, NEW t \in Threads, OnBye(x, t) PROVE RouteStep(n, d) /\ DirectoryStep(n, d)
  BY <1>2, <1>5 DEF OnBye, EmptyTable, Remove, RouteTables, RouteStep, DirectoryStep
<1>6. ASSUME NEW x \in Nodes, NEW t \in Threads, OnRouteUpdate(x, t) PROVE RouteStep(n, d) /\ DirectoryStep(n, d)
  <2> DEFINE pkt == hand[x][t].packet
             via == hand[x][t].via
  <2>1. /\ routes' = [routes EXCEPT ![x] = AddRoutes(@, pkt.body, via)] /\ UNCHANGED directory
        /\ Handling(x, t) /\ pkt.type = "ROUTE_UPDATE"
    BY <1>6 DEF OnRouteUpdate, Handle
  <2>2. Hearing(x, "ROUTE_UPDATE", d)  BY <2>1 DEF Hearing
  <2>3. CASE x # n  BY <1>2, <2>1, <2>3 DEF RouteStep, DirectoryStep
  <2>4. CASE x = n
    <3>1. pkt.body \in Updates /\ via \in Macs  BY <1>1, <2>1, InHandFacts, PacketTypes
    <3>2. routes'[n] = AddRoutes(routes[n], pkt.body, via)  BY <1>2, <2>1, <2>4
    <3>3. \/ routes'[n][d] = routes[n][d]
          \/ \E c \in Nat :
                /\ routes'[n][d] = Entry(via, c)
                /\ routes[n][d] = NoEntry \/ c <= routes[n][d].cost
      <4>1. \/ routes'[n][d] = routes[n][d]
            \/ /\ pkt.body[d] \in Nat /\ routes'[n][d] = Entry(via, pkt.body[d] + 1)
               /\ routes[n][d] = NoEntry \/ pkt.body[d] + 1 <= routes[n][d].cost
        BY <1>2, <3>1, <3>2, AddRoutesFacts
      <4>. QED  BY <4>1
    <3>4. \/ routes'[n][d] = routes[n][d]
          \/ /\ routes'[n][d].age = 0
             /\ routes[n][d] # NoEntry => routes'[n][d].cost <= routes[n][d].cost
      BY <3>3, EntryFacts
    <3>5. RouteStep(n, d)  BY <2>2, <2>4, <3>4 DEF RouteStep
    <3>. QED  BY <2>1, <3>5 DEF DirectoryStep
  <2>. QED  BY <2>3, <2>4
<1>7. ASSUME NEW x \in Nodes, NEW t \in Threads, HelloPurge(x, t) PROVE RouteStep(n, d) /\ DirectoryStep(n, d)
  BY <1>2, <1>7 DEF HelloPurge, Purge, RouteTables, RouteStep, DirectoryStep
<1>8. ASSUME NEW x \in Nodes, Crash(x) PROVE RouteStep(n, d) /\ DirectoryStep(n, d)
  BY <1>2, <1>8 DEF Crash, EmptyTable, RouteStep, DirectoryStep
<1>9. CASE Tick
  <2>1. routes'[n] = Older(routes[n]) /\ directory'[n] = Older(directory[n])  BY <1>9 DEF Tick
  <2>2. ASSUME NEW table \in RouteTables
        PROVE  Older(table)[d] = table[d] \/ Aged(table[d], Older(table)[d])
    <3>1. table[d] # NoEntry => table[d] \in Entries(Macs)  BY DEF RouteTables
    <3>2. Older(table)[d] = IF table[d] # NoEntry /\ table[d].age < StaleIntervals + 2
                            THEN [table[d] EXCEPT !.age = @ + 1] ELSE table[d]
      BY DEF Older, RouteTables
    <3>. QED  BY <3>1, <3>2 DEF Aged, Entries
  <2>. QED  BY <1>2, <1>9, <2>1, <2>2 DEF RouteStep, DirectoryStep
<1>. QED  BY <1>3, <1>4, <1>5, <1>6, <1>7, <1>8, <1>9, TableWriters

-----------------------------------------------------------------------------
(* Best cost wins *)

\* The cost of a route never rises while the route lives, whoever is heard and
\* whatever other implementations announce (RoutingTable.add_route).
THEOREM BestCostWinsCorrect == Spec => BestCostWins
<1>1. TypeInv /\ [Next]_vars =>
          \A n, d \in Nodes :
              (routes[n][d] # NoEntry /\ routes'[n][d] # NoEntry) => routes'[n][d].cost <= routes[n][d].cost
  <2>1. SUFFICES ASSUME TypeInv, [Next]_vars, NEW n \in Nodes, NEW d \in Nodes,
                        routes[n][d] # NoEntry, routes'[n][d] # NoEntry
                 PROVE  routes'[n][d].cost <= routes[n][d].cost
    OBVIOUS
  <2>2. routes[n][d].cost \in Nat
    BY <2>1 DEF TypeInv, TypeOK, RouteTables, Entries
  <2>3. RouteStep(n, d)  BY <2>1, EntrySteps
  <2>. QED  BY <2>1, <2>2, <2>3 DEF RouteStep, Aged
<1>. QED  BY <1>1, TypeInit, TypeNext, PTL DEF Spec, BestCostWins

-----------------------------------------------------------------------------
(* Routes are neighbours *)

\* What is on the air, or in hand, at a node was sent within one hop, if it is a
\* HELLO; route updates there are none.
Near(pkt, n) == pkt.type # "ROUTE_UPDATE" /\ (pkt.type = "HELLO" => <<pkt.src, n>> \in plan.links)

AirIsNear ==
    /\ \A m \in Macs : \A pkt \in inbox[m] : Near(pkt, m[1])
    /\ \A n \in Nodes, t \in Threads : Handling(n, t) => Near(hand[n][t].packet, n)

TablesAreNear ==
    \A n, d \in Nodes :
        /\ routes[n][d] # NoEntry => <<d, n>> \in plan.links /\ routes[n][d].cost = 1
        /\ directory[n][d] # NoEntry => <<d, n>> \in plan.links

NearInv == ForeignPackets = {} => AirIsNear /\ TablesAreNear

\* What a node sends itself.
OwnPacket(pkt, n) == pkt = HelloPacket(n) \/ pkt.type \notin {"HELLO", "ROUTE_UPDATE"}

\* A node has joined, or one of its threads runs.
Active(n) == app[n] # "out" \/ \E t \in Threads : hello[n][t] # "ended" \/ Handling(n, t)

\* The air only gains what a neighbour sends, or what comes from elsewhere.
LEMMA AirSteps ==
    ASSUME TypeInv, [Next]_vars, ForeignPackets = {}, NEW m \in Macs, NEW p \in inbox'[m]
    PROVE  \/ p \in inbox[m]
           \/ m \notin out /\ \E n \in Nodes : OwnPacket(p, n) /\ Active(n) /\ <<n, m[1]>> \in plan.links
<1>1. TypeOK /\ inbox \in [Macs -> SUBSET Packets]  BY DEF TypeInv, TypeOK
<1> DEFINE Grows == \/ p \in inbox[m]
                    \/ /\ m \notin out
                       /\ \E n \in Nodes : OwnPacket(p, n) /\ Active(n) /\ <<n, m[1]>> \in plan.links
<1>2. ASSUME NEW n \in Nodes, NEW adapter, NEW pkt \in Packets, SendOn(n, adapter, pkt), OwnPacket(pkt, n),
             Active(n)
      PROVE  Grows
  <2>1. p \in inbox[m] \/ (p = pkt /\ <<n, m[1]>> \in plan.links /\ m \notin out)
    BY <1>1, <1>2, SendFacts
  <2>. QED  BY <1>2, <2>1
<1>3. ASSUME inbox' = inbox PROVE Grows  BY <1>3
<1>4. CASE \E n \in Nodes : JoinHello(n) \/ DiscoverHello(n) \/ \E t \in Threads : HelloSend(n, t)
  <2>1. PICK n \in Nodes : /\ \E adapter : SendOn(n, adapter, HelloPacket(n))
                            /\ Active(n)
    BY <1>4 DEF JoinHello, DiscoverHello, HelloSend, HelloStep, AppStep, Flood, Active
  <2>. QED  BY <1>2, <2>1, PacketFacts DEF OwnPacket
<1>5. CASE \E n \in Nodes : LeaveBye(n)
  <2>1. PICK n \in Nodes : (\E adapter : SendOn(n, adapter, ByePacket(n))) /\ Active(n)
    BY <1>5 DEF LeaveBye, SendPacket, SendViaMac, AppStep, Active
  <2>. QED  BY <1>2, <2>1, PacketFacts DEF OwnPacket
<1>6. ASSUME NEW n \in Nodes, SendSetup(n) PROVE Grows
  <2>1. sending[n].to \in Nodes /\ circuit[n] \in CircuitIds
    BY <1>6, MessageAssumption DEF SendSetup, AppStep, TypeInv, CallsAreSet, MessageAssumption
  <2>2. PICK adapter : SendOn(n, adapter, SetupPacket(n, sending[n].to, circuit[n]))
    BY <1>6 DEF SendSetup, SendPacket, SendViaMac
  <2>3. Active(n)  BY <1>6 DEF SendSetup, AppStep, Active
  <2>. QED  BY <1>2, <2>1, <2>2, <2>3, PacketFacts DEF OwnPacket
<1>7. ASSUME NEW n \in Nodes, SendData(n) PROVE Grows
  <2>1. sending[n] \in Messages /\ circuit[n] \in CircuitIds
    BY <1>7 DEF SendData, AppStep, TypeInv, CallsAreSet
  <2>2. PICK adapter : SendOn(n, adapter, DataPacket(sending[n], circuit[n]))
    BY <1>7 DEF SendData, SendPacket, SendViaMac
  <2>3. Active(n)  BY <1>7 DEF SendData, AppStep, Active
  <2>. QED  BY <1>2, <2>1, <2>2, <2>3, PacketFacts DEF OwnPacket
<1>8. ASSUME NEW n \in Nodes, NEW t \in Threads, RxHandle(n, t) PROVE Grows
  <2> DEFINE pkt == hand[n][t].packet
  <2>1. Handling(n, t)
    <3>1. \E type : Handle(n, t, type)
      BY <1>8 DEF RxHandle, OnHello, OnBye, OnCircuitSetup, OnCircuitTeardown, OnRouteUpdate, OnData
    <3>. QED  BY <3>1 DEF Handle
  <2>2. pkt \in Packets /\ Active(n)  BY <1>1, <2>1, InHandFacts DEF Active
  <2>3. Decremented(pkt) \in Packets /\ Decremented(pkt).type = pkt.type  BY <2>2, DecrementedFacts
  <2>4. CASE OnHello(n, t)
    <3>1. inbox' = inbox \/ \E adapter : SendOn(n, adapter, HelloPacket(n))
      BY <2>4 DEF OnHello, SendViaMac
    <3>2. HelloPacket(n) \in Packets /\ OwnPacket(HelloPacket(n), n)  BY PacketFacts DEF OwnPacket
    <3>. QED  BY <1>2, <1>3, <2>2, <3>1, <3>2
  <2>5. CASE OnBye(n, t) \/ OnRouteUpdate(n, t)  BY <1>3, <2>5 DEF OnBye, OnRouteUpdate
  <2>6. CASE OnCircuitSetup(n, t)
    <3>1. pkt.type = "CIRCUIT_SETUP" /\ (inbox' = inbox \/ \E adapter : SendOn(n, adapter, Decremented(pkt)))
      BY <2>6 DEF OnCircuitSetup, SendViaMac, Handle
    <3>2. OwnPacket(Decremented(pkt), n)  BY <2>3, <3>1 DEF OwnPacket
    <3> HIDE DEF pkt
    <3>. QED  BY <1>2, <1>3, <2>2, <2>3, <3>1, <3>2
  <2>7. CASE OnCircuitTeardown(n, t)
    <3> DEFINE left == Remove(circuits[n], pkt.cid)
    <3>1. circuits[n] \in CircuitTables  BY <1>1 DEF TypeOK
    <3>2. left \in CircuitTables  BY <3>1 DEF Remove, CircuitTables
    <3>3. pkt.cid # 0 => left[pkt.cid] = NoEntry  BY <2>2, <3>1, PacketTypes DEF Remove, CircuitTables
    <3>4. /\ pkt.type = "CIRCUIT_TEARDOWN"
          /\ inbox' = inbox \/ (pkt.dst # n /\ RoutePacket(n, pkt, left))
      BY <2>7 DEF OnCircuitTeardown, Handle
    <3> HIDE DEF left
    <3>5. p \in inbox[m] \/ (p = Decremented(pkt) /\ <<n, m[1]>> \in plan.links /\ m \notin out)
      BY <1>1, <2>2, <3>2, <3>3, <3>4, RouteFacts
    <3>. QED  BY <2>2, <2>3, <3>4, <3>5 DEF OwnPacket
  <2>8. CASE OnData(n, t)
    <3>1. pkt.type = "DATA" /\ RoutePacket(n, pkt, circuits[n])  BY <2>8 DEF OnData, Handle
    <3>2. circuits[n] \in CircuitTables  BY <1>1 DEF TypeOK
    <3>3. p \in inbox[m] \/ (p = Decremented(pkt) /\ <<n, m[1]>> \in plan.links /\ m \notin out)
      BY <1>1, <2>2, <3>1, <3>2, RouteFacts
    <3>. QED  BY <2>2, <2>3, <3>1, <3>3 DEF OwnPacket
  <2> HIDE DEF pkt, Grows
  <2>. QED  BY <1>8, <2>4, <2>5, <2>6, <2>7, <2>8 DEF RxHandle
<1>9. CASE \E n \in Nodes, t \in Threads : RxTake(n, t)
  <2>1. PICK mac, pkt : inbox' = [inbox EXCEPT ![mac] = @ \ {pkt}]  BY <1>9 DEF RxTake
  <2>. QED  BY <1>1, <2>1
<1>10. CASE \E n \in Nodes : Crash(n)
  <2>1. PICK n \in Nodes : inbox' = [x \in Macs |-> IF x[1] = n THEN {} ELSE inbox[x]]
    BY <1>10 DEF Crash
  <2>. QED  BY <2>1
<1>11. CASE \E n \in Nodes : Foreign(n)  BY <1>11 DEF Foreign
<1>12. ASSUME NEW n \in Nodes,
              \/ Join(n) \/ Fail(n) \/ Recover(n) \/ LeaveStop(n) \/ NoRouteError(n) \/ Negotiate(n)
              \/ DiscoverReturn(n) \/ \E x \in unsent : SendCall(n, x)
       PROVE  Grows
  <2>1. inbox' = inbox
    BY <1>12 DEF Join, Fail, Recover, LeaveStop, NoRouteError, Negotiate, DiscoverReturn, SendCall, rxvars
  <2>. QED  BY <1>3, <2>1
<1>13. ASSUME NEW n \in Nodes, NEW t \in Threads,
              RxEnd(n, t) \/ HelloLoop(n, t) \/ HelloWake(n, t) \/ HelloPurge(n, t)
       PROVE  Grows
  <2>1. inbox' = inbox  BY <1>13 DEF RxEnd, HelloLoop, HelloWake, HelloPurge, rxvars
  <2>. QED  BY <1>3, <2>1
<1>14. CASE Tick \/ Silence \/ UNCHANGED vars
  <2>1. inbox' = inbox  BY <1>14 DEF Tick, Silence, vars, rxvars
  <2>. QED  BY <1>3, <2>1
<1>. QED
  BY <1>4, <1>5, <1>6, <1>7, <1>8, <1>9, <1>10, <1>11, <1>12, <1>13, <1>14
  DEF Next, AppContinue, RxStep, HelloContinue

\* An RX thread gets what it has in hand from the air, at its own node.
LEMMA HandSteps ==
    ASSUME TypeInv, [Next]_vars, NEW n \in Nodes, NEW t \in Threads, Handling(n, t)'
    PROVE  \/ Handling(n, t) /\ hand'[n][t] = hand[n][t]
           \/ running[n] /\ \E m \in Macs : m[1] = n /\ hand'[n][t].via = m /\ hand'[n][t].packet \in inbox[m]
<1>1. TypeOK  BY DEF TypeInv
<1>2. hand \in [Nodes -> [Threads -> [packet : Packets, via : Macs] \cup {NoPacket, Ended}]]
  BY <1>1 DEF TypeOK
<1> DEFINE Held == \/ Handling(n, t) /\ hand'[n][t] = hand[n][t]
                   \/ /\ running[n]
                      /\ \E m \in Macs : m[1] = n /\ hand'[n][t].via = m /\ hand'[n][t].packet \in inbox[m]
<1>3. ASSUME hand' = hand PROVE Held  BY <1>3 DEF Handling
<1>4. ASSUME NEW x \in Nodes, NEW u \in Threads, NEW none \in {NoPacket, Ended},
             hand' = [hand EXCEPT ![x][u] = none]
      PROVE  Held
  <2>1. ~ (x = n /\ u = t)  BY <1>2, <1>4 DEF Handling
  <2>2. hand'[n][t] = hand[n][t]  BY <1>2, <1>4, <2>1
  <2>. QED  BY <2>2 DEF Handling
<1>5. ASSUME NEW x \in Nodes, NEW u \in Threads, RxTake(x, u) PROVE Held
  <2> DEFINE mac == ReadAdapter(x).mac
  <2>1. PICK pkt \in inbox[mac] : hand' = [hand EXCEPT ![x][u] = [packet |-> pkt, via |-> mac]]
    BY <1>5 DEF RxTake
  <2>2. mac \in Macs /\ mac[1] = x /\ running[x]  BY <1>1, <1>5, ReadAdapterFacts DEF RxTake
  <2> HIDE DEF mac
  <2>3. CASE x = n /\ u = t
    <3>1. hand'[n][t] = [packet |-> pkt, via |-> mac]  BY <1>2, <2>1, <2>3
    <3>. QED  BY <2>2, <2>3, <3>1
  <2>4. CASE ~ (x = n /\ u = t)
    <3>1. hand'[n][t] = hand[n][t]  BY <1>2, <2>1, <2>4
    <3>. QED  BY <3>1 DEF Handling
  <2>. QED  BY <2>3, <2>4
<1>6. ASSUME NEW x \in Nodes, NEW u \in Threads, RxHandle(x, u) \/ RxEnd(x, u) PROVE Held
  <2>1. CASE RxHandle(x, u)
    <3>1. \E type : Handle(x, u, type)
      BY <2>1 DEF RxHandle, OnHello, OnBye, OnCircuitSetup, OnCircuitTeardown, OnRouteUpdate, OnData
    <3>2. hand' = [hand EXCEPT ![x][u] = NoPacket]  BY <3>1 DEF Handle
    <3> HIDE DEF Held
    <3>. QED  BY <1>4, <3>2
  <2>2. CASE RxEnd(x, u)
    <3>1. hand' = [hand EXCEPT ![x][u] = Ended]  BY <2>2 DEF RxEnd
    <3> HIDE DEF Held
    <3>. QED  BY <1>4, <3>1
  <2>. QED  BY <1>6, <2>1, <2>2
<1>7. ASSUME NEW x \in Nodes, Join(x) PROVE Held
  <2>1. hand' = [hand EXCEPT ![x][joins[x] + 1] = NoPacket]  BY <1>7 DEF Join
  <2>2. joins[x] + 1 \in Threads
    <3>1. plan \in Plan  BY <1>1, PlanAssumption DEF TypeOK, PlanAssumption
    <3>2. plan.joins[x] \in 0 .. MaxJoins  BY <3>1 DEF Plan
    <3>. QED  BY <1>1, <1>7, <3>2, JoinAssumption DEF Join, TypeOK, JoinAssumption, Threads
  <2>. QED  BY <1>4, <2>1, <2>2
<1>8. ASSUME NEW x \in Nodes, Crash(x) PROVE Held
  <2>1. hand' = [hand EXCEPT ![x] = [u \in Threads |-> Ended]]  BY <1>8 DEF Crash
  <2>2. x # n  BY <1>2, <2>1 DEF Handling
  <2>3. hand'[n] = hand[n]  BY <1>2, <2>1, <2>2
  <2>. QED  BY <2>3 DEF Handling
<1>9. ASSUME NEW x \in Nodes,
             \/ LeaveBye(x) \/ Fail(x) \/ Recover(x) \/ DiscoverHello(x) \/ AppContinue(x)
             \/ Foreign(x) \/ \E m \in unsent : SendCall(x, m)
      PROVE  hand' = hand
  BY <1>9 DEF LeaveBye, Fail, Recover, DiscoverHello, AppContinue, Foreign, SendCall, rxvars,
              JoinHello, LeaveStop, NoRouteError, Negotiate, SendSetup, SendData, DiscoverReturn
<1>10. ASSUME NEW x \in Nodes, NEW u \in Threads, HelloContinue(x, u) PROVE hand' = hand
  BY <1>10 DEF HelloContinue, HelloLoop, HelloWake, HelloSend, HelloPurge, rxvars
<1>11. CASE Tick \/ Silence \/ UNCHANGED vars
  <2>1. hand' = hand  BY <1>11 DEF Tick, Silence, vars, rxvars
  <2>. QED  BY <1>3, <2>1
<1>. QED  BY <1>3, <1>5, <1>6, <1>7, <1>8, <1>9, <1>10, <1>11 DEF Next, RxStep

\* The plan is what it was.
LEMMA PlanStays == [Next]_vars => plan' = plan
<1> USE DEF world
<1>1. ASSUME NEW n \in Nodes,
             \/ Join(n) \/ Crash(n) \/ LeaveBye(n) \/ Fail(n) \/ Recover(n) \/ DiscoverHello(n)
             \/ AppContinue(n) \/ Foreign(n) \/ \E m \in unsent : SendCall(n, m)
      PROVE  plan' = plan
  <2>1. CASE Join(n) \/ Crash(n) \/ LeaveBye(n) \/ Fail(n) \/ Recover(n) \/ DiscoverHello(n)
    BY <2>1 DEF Join, Crash, LeaveBye, Fail, Recover, DiscoverHello
  <2>2. CASE AppContinue(n)
    BY <2>2 DEF AppContinue, JoinHello, LeaveStop, NoRouteError, Negotiate, SendSetup, SendData,
                DiscoverReturn
  <2>3. CASE Foreign(n) \/ \E m \in unsent : SendCall(n, m)  BY <2>3 DEF Foreign, SendCall
  <2>. QED  BY <1>1, <2>1, <2>2, <2>3
<1>2. ASSUME NEW n \in Nodes, NEW t \in Threads, RxStep(n, t) \/ HelloContinue(n, t) PROVE plan' = plan
  <2>1. CASE RxHandle(n, t)
    <3>1. \E type : Handle(n, t, type)
      BY <2>1 DEF RxHandle, OnHello, OnBye, OnCircuitSetup, OnCircuitTeardown, OnRouteUpdate, OnData
    <3>. QED  BY <3>1 DEF Handle
  <2>2. CASE RxTake(n, t) \/ RxEnd(n, t)  BY <2>2 DEF RxTake, RxEnd
  <2>3. CASE HelloContinue(n, t)
    BY <2>3 DEF HelloContinue, HelloLoop, HelloWake, HelloSend, HelloPurge
  <2>. QED  BY <1>2, <2>1, <2>2, <2>3 DEF RxStep
<1>3. Tick \/ Silence \/ UNCHANGED vars => plan' = plan  BY DEF Tick, Silence, vars
<1>. QED  BY <1>1, <1>2, <1>3 DEF Next

LEMMA NearInit == Init => NearInv
BY DEF Init, NearInv, AirIsNear, TablesAreNear, Handling, EmptyTable

LEMMA NearNext == TypeInv /\ NearInv /\ [Next]_vars => NearInv'
<1> SUFFICES ASSUME TypeInv, [Next]_vars, ForeignPackets = {}, AirIsNear, TablesAreNear
             PROVE  AirIsNear' /\ TablesAreNear'
  BY DEF NearInv
<1>1. plan' = plan  BY PlanStays
<1>2. ASSUME NEW m \in Macs, NEW p \in inbox'[m] PROVE Near(p, m[1])'
  <2>1. p \in inbox[m] \/ \E n \in Nodes : OwnPacket(p, n) /\ <<n, m[1]>> \in plan.links  BY AirSteps
  <2>2. CASE p \in inbox[m]  BY <1>1, <2>2 DEF AirIsNear, Near
  <2>3. ASSUME NEW n \in Nodes, OwnPacket(p, n), <<n, m[1]>> \in plan.links PROVE Near(p, m[1])'
    <3>1. HelloPacket(n).type = "HELLO" /\ HelloPacket(n).src = n  BY PacketFacts
    <3>. QED  BY <1>1, <2>3, <3>1 DEF OwnPacket, Near
  <2>. QED  BY <2>1, <2>2, <2>3
<1>3. ASSUME NEW n \in Nodes, NEW t \in Threads, Handling(n, t)' PROVE Near(hand[n][t].packet, n)'
  <2>1. CASE Handling(n, t) /\ hand'[n][t] = hand[n][t]  BY <1>1, <2>1 DEF AirIsNear, Near
  <2>2. CASE \E m \in Macs : m[1] = n /\ hand'[n][t].packet \in inbox[m]
    BY <1>1, <2>2 DEF AirIsNear, Near
  <2>. QED  BY <1>3, <2>1, <2>2, HandSteps
<1>4. AirIsNear'  BY <1>2, <1>3 DEF AirIsNear
<1>5. ASSUME NEW n \in Nodes, NEW d \in Nodes
      PROVE  /\ routes'[n][d] # NoEntry => <<d, n>> \in plan.links /\ routes'[n][d].cost = 1
             /\ directory'[n][d] # NoEntry => <<d, n>> \in plan.links
  <2>1. RouteStep(n, d) /\ DirectoryStep(n, d)  BY EntrySteps
  <2>2. Hearing(n, "HELLO", d) => <<d, n>> \in plan.links  BY DEF Hearing, AirIsNear, Near
  <2>3. ~Hearing(n, "ROUTE_UPDATE", d)  BY DEF Hearing, AirIsNear, Near
  <2>. QED  BY <2>1, <2>2, <2>3 DEF RouteStep, DirectoryStep, Aged, TablesAreNear
<1>6. TablesAreNear'  BY <1>1, <1>5 DEF TablesAreNear
<1>. QED  BY <1>4, <1>6

\* Where no other implementation is heard, routes and directory name neighbours
\* only, at cost 1, whatever joins, leaves, returns, crashes or is lost: HELLOs
\* are not relayed, and nodes make no route updates.
THEOREM RoutesAreNeighboursCorrect == Spec => []RoutesAreNeighbours
<1>1. NearInv => RoutesAreNeighbours  BY DEF NearInv, TablesAreNear, RoutesAreNeighbours
<1>. QED  BY TypeInit, TypeNext, NearInit, NearNext, <1>1, PTL DEF Spec

-----------------------------------------------------------------------------
(* Stale entries are purged *)

\* No entry of a node's tables is older than a limit.
Young(n, limit) ==
    \A d \in Nodes :
        /\ routes[n][d] # NoEntry => routes[n][d].age <= limit
        /\ directory[n][d] # NoEntry => directory[n][d].age <= limit

\* The purge of this interval is over, or that of the last one, and none is due.
Purged(n) == hello[n][1] = "sleep" /\ <<n, 1>> \notin due

\* Before its first join a node knows nobody and handles nothing.  While it runs
\* after it, its one HELLO thread is in its loop, and between the purge of one
\* interval and the end of the next no entry is older than the limit of the purge.
StaleInv ==
    \A n \in Nodes :
        /\ joins[n] = 0 =>
              /\ ~running[n]
              /\ \A t \in Threads : ~Handling(n, t)
              /\ \A d \in Nodes : routes[n][d] = NoEntry /\ directory[n][d] = NoEntry
        /\ running[n] /\ joins[n] = 1 =>
              /\ hello[n][1] \in {"sleep", "send", "purge"}
              /\ Young(n, StaleIntervals + 1)
              /\ Purged(n) => Young(n, StaleIntervals)

\* Who changes the number of joins, _running and a HELLO thread.
LEMMA NodeSteps ==
    ASSUME TypeInv, [Next]_vars, ~Tick, NEW n \in Nodes, NEW s \in Threads \cup {1}
    PROVE  \/ Join(n)
           \/ joins'[n] = joins[n] /\ ~running'[n] /\ Crash(n)
           \/ joins'[n] = joins[n] /\ running'[n] = running[n] /\ HelloContinue(n, s)
           \/ /\ joins'[n] = joins[n] /\ (running'[n] = running[n] \/ ~running'[n])
              /\ hello'[n][s] = hello[n][s] /\ (<<n, s>> \in due <=> <<n, s>> \in due')
<1> DEFINE Same == /\ joins'[n] = joins[n] /\ (running'[n] = running[n] \/ ~running'[n])
                   /\ hello'[n][s] = hello[n][s] /\ (<<n, s>> \in due <=> <<n, s>> \in due')
           Ends == joins'[n] = joins[n] /\ ~running'[n] /\ Crash(n)
           Loops == joins'[n] = joins[n] /\ running'[n] = running[n] /\ HelloContinue(n, s)
<1>1. /\ joins \in [Nodes -> 0 .. MaxJoins] /\ running \in [Nodes -> BOOLEAN]
      /\ hello \in [Nodes -> [Threads -> {"loop", "sleep", "send", "purge", "ended"}]]
      /\ due \subseteq Nodes \X Threads
  BY DEF TypeInv, TypeOK
<1>2. UNCHANGED <<joins, running, hello, due>> => Same  OBVIOUS
<1>3. ASSUME NEW x \in Nodes,
             \/ LeaveBye(x) \/ Fail(x) \/ Recover(x) \/ DiscoverHello(x) \/ Foreign(x)
             \/ JoinHello(x) \/ NoRouteError(x) \/ Negotiate(x) \/ SendSetup(x) \/ SendData(x)
             \/ DiscoverReturn(x) \/ \E m \in unsent : SendCall(x, m)
      PROVE  UNCHANGED <<joins, running, hello, due>>
  <2>1. CASE LeaveBye(x) \/ Fail(x) \/ Recover(x) \/ DiscoverHello(x) \/ Foreign(x)
    BY <2>1 DEF LeaveBye, Fail, Recover, DiscoverHello, Foreign, world, timevars
  <2>2. CASE JoinHello(x) \/ NoRouteError(x) \/ Negotiate(x) \/ SendSetup(x) \/ SendData(x)
    BY <2>2 DEF JoinHello, NoRouteError, Negotiate, SendSetup, SendData, world, timevars
  <2>3. CASE DiscoverReturn(x) \/ \E m \in unsent : SendCall(x, m)
    BY <2>3 DEF DiscoverReturn, SendCall, world, timevars
  <2>. QED  BY <1>3, <2>1, <2>2, <2>3
<1>4. ASSUME NEW x \in Nodes, NEW t \in Threads, RxStep(x, t) PROVE UNCHANGED <<joins, running, hello, due>>
  <2>1. CASE RxHandle(x, t)
    <3>1. \E type : Handle(x, t, type)
      BY <2>1 DEF RxHandle, OnHello, OnBye, OnCircuitSetup, OnCircuitTeardown, OnRouteUpdate, OnData
    <3>. QED  BY <3>1 DEF Handle, world, timevars
  <2>2. CASE RxTake(x, t) \/ RxEnd(x, t)  BY <2>2 DEF RxTake, RxEnd, world, timevars
  <2>. QED  BY <1>4, <2>1, <2>2 DEF RxStep
<1>5. ASSUME NEW x \in Nodes, Join(x) PROVE Join(n) \/ Same
  <2>1. /\ joins' = [joins EXCEPT ![x] = @ + 1] /\ running' = [running EXCEPT ![x] = TRUE]
        /\ hello' = [hello EXCEPT ![x][joins[x] + 1] = "sleep"] /\ UNCHANGED due
    BY <1>5 DEF Join
  <2>2. CASE x # n  BY <1>1, <2>1, <2>2
  <2>. QED  BY <1>5, <2>2
<1>6a. ASSUME NEW x \in Nodes, Crash(x) PROVE Ends \/ Same
  <2>1. /\ joins' = joins /\ running' = [running EXCEPT ![x] = FALSE]
        /\ x # n => hello'[n] = hello[n]
    BY <1>1, <1>6a DEF Crash
  <2>2. CASE x # n
    <3>1. <<n, s>> \in due <=> <<n, s>> \in due'  BY <1>6a, <2>2 DEF Crash
    <3>. QED  BY <1>1, <2>1, <2>2, <3>1
  <2>. QED  BY <1>1, <1>6a, <2>1, <2>2
<1>6b. ASSUME NEW x \in Nodes, LeaveStop(x) PROVE Same
  <2>1. /\ joins' = joins /\ running' = [running EXCEPT ![x] = FALSE]
        /\ hello' = hello /\ due' = due
    BY <1>6b DEF LeaveStop, world, timevars
  <2>. QED  BY <1>1, <2>1
<1>7. ASSUME NEW x \in Nodes, NEW t \in Threads, HelloContinue(x, t) PROVE Loops \/ Same
  <2>1. joins' = joins /\ running' = running
    BY <1>7 DEF HelloContinue, HelloLoop, HelloWake, HelloSend, HelloPurge, world
  <2>2. \E to : hello' = [hello EXCEPT ![x][t] = to]
    BY <1>7 DEF HelloContinue, HelloLoop, HelloWake, HelloSend, HelloPurge, HelloStep
  <2>3. due' = due \/ due' = due \ {<<x, t>>}
    BY <1>7 DEF HelloContinue, HelloLoop, HelloWake, HelloSend, HelloPurge
  <2>4. CASE x = n /\ t = s  BY <1>7, <2>1, <2>4
  <2>5. CASE ~ (x = n /\ t = s)
    <3>1. s \in Threads
      <4>1. MaxJoins \in Nat  BY JoinAssumption DEF JoinAssumption
      <4>. QED  BY <4>1, t \in Threads DEF Threads
    <3>2. hello'[n][s] = hello[n][s]  BY <1>1, <2>2, <2>5, <3>1
    <3>. QED  BY <2>1, <2>3, <2>5, <3>2
  <2>. QED  BY <2>4, <2>5
<1>8. Silence \/ UNCHANGED vars => UNCHANGED <<joins, running, hello, due>>
  BY DEF Silence, vars, world, timevars
<1> HIDE DEF Same, Ends, Loops
<1>9. Join(n) \/ Ends \/ Loops \/ Same
  BY <1>2, <1>3, <1>4, <1>5, <1>6a, <1>6b, <1>7, <1>8 DEF Next, AppContinue
<1>. QED  BY <1>9 DEF Same, Ends, Loops

\* Only time makes entries older.
LEMMA YoungSteps ==
    ASSUME TypeInv, [Next]_vars, ~Tick, NEW n \in Nodes, NEW limit \in Nat, Young(n, limit)
    PROVE  Young(n, limit)'
<1>1. SUFFICES ASSUME NEW d \in Nodes
               PROVE  /\ routes'[n][d] # NoEntry => routes'[n][d].age <= limit
                      /\ directory'[n][d] # NoEntry => directory'[n][d].age <= limit
  BY DEF Young
<1>2. RouteStep(n, d) /\ DirectoryStep(n, d)  BY EntrySteps
<1>. QED  BY <1>2 DEF RouteStep, DirectoryStep, Young

LEMMA StaleInit == Init => StaleInv
BY DEF Init, StaleInv, Handling, EmptyTable

LEMMA StaleNext == TypeInv /\ StaleInv /\ [Next]_vars => StaleInv'
<1> SUFFICES ASSUME TypeInv, StaleInv, [Next]_vars, NEW n \in Nodes
             PROVE  /\ joins'[n] = 0 =>
                          /\ ~running'[n]
                          /\ \A t \in Threads : ~Handling(n, t)'
                          /\ \A d \in Nodes : routes'[n][d] = NoEntry /\ directory'[n][d] = NoEntry
                    /\ running'[n] /\ joins'[n] = 1 =>
                          /\ hello'[n][1] \in {"sleep", "send", "purge"}
                          /\ Young(n, StaleIntervals + 1)'
                          /\ Purged(n)' => Young(n, StaleIntervals)'
  BY DEF StaleInv
<1>1. /\ joins \in [Nodes -> 0 .. MaxJoins] /\ running \in [Nodes -> BOOLEAN] /\ MaxJoins \in Nat
      /\ hello \in [Nodes -> [Threads -> {"loop", "sleep", "send", "purge", "ended"}]]
      /\ StaleIntervals \in Nat
  BY JoinAssumption, StaleAssumption DEF TypeInv, TypeOK, JoinAssumption, StaleAssumption
<1>2. ASSUME joins[n] = 0, joins'[n] = 0, ~running'[n]
      PROVE  /\ \A t \in Threads : ~Handling(n, t)'
             /\ \A d \in Nodes : routes'[n][d] = NoEntry /\ directory'[n][d] = NoEntry
  <2>1. /\ ~running[n] /\ \A t \in Threads : ~Handling(n, t)
        /\ \A d \in Nodes : routes[n][d] = NoEntry /\ directory[n][d] = NoEntry
    BY <1>2 DEF StaleInv
  <2>2. \A t \in Threads : ~Handling(n, t)'  BY <2>1, HandSteps
  <2>3. ASSUME NEW d \in Nodes PROVE routes'[n][d] = NoEntry /\ directory'[n][d] = NoEntry
    <3>1. RouteStep(n, d) /\ DirectoryStep(n, d)  BY EntrySteps
    <3>. QED  BY <2>1, <3>1 DEF RouteStep, DirectoryStep, Aged, Hearing
  <2>. QED  BY <2>2, <2>3
<1>3. CASE Tick
  <2>1. /\ UNCHANGED <<joins, running, hello>> /\ due = {}
        /\ \A t \in Threads : hello[n][t] \in {"sleep", "ended"}
        /\ due' = {d \in Nodes \X Threads : hello[d[1]][d[2]] = "sleep"}
    BY <1>3 DEF Tick, world
  <2>2. ASSUME running[n], joins[n] = 1
        PROVE  /\ hello[n][1] = "sleep" /\ ~Purged(n)' /\ Young(n, StaleIntervals + 1)'
    <3>1. 1 \in Threads  BY <1>1, <2>2 DEF Threads
    <3>2. hello[n][1] = "sleep" /\ Young(n, StaleIntervals)
      BY <2>1, <2>2, <3>1 DEF StaleInv, Purged
    <3>3. <<n, 1>> \in due'  BY <2>1, <3>1, <3>2
    <3>4. ASSUME NEW d \in Nodes
          PROVE  /\ routes'[n][d] # NoEntry => routes'[n][d].age <= StaleIntervals + 1
                 /\ directory'[n][d] # NoEntry => directory'[n][d].age <= StaleIntervals + 1
      <4>1. RouteStep(n, d) /\ DirectoryStep(n, d)  BY EntrySteps
      <4>2. /\ routes[n][d] # NoEntry => routes[n][d].age \in Nat /\ routes[n][d].age <= StaleIntervals
            /\ directory[n][d] # NoEntry => directory[n][d].age \in Nat /\ directory[n][d].age <= StaleIntervals
        BY <1>1, <3>2 DEF Young, TypeInv, TypeOK, RouteTables, Entries, Ages
      <4>. QED  BY <1>1, <4>1, <4>2 DEF RouteStep, DirectoryStep, Aged
    <3>. QED  BY <3>2, <3>3, <3>4 DEF Purged, Young
  <2>3. joins'[n] = 0 => ~running'[n]  BY <2>1 DEF StaleInv
  <2>. QED  BY <1>2, <2>1, <2>2, <2>3
<1>4. CASE ~Tick
  <2>1. CASE Join(n)
    <3>1. /\ joins' = [joins EXCEPT ![n] = @ + 1]
          /\ hello' = [hello EXCEPT ![n][joins[n] + 1] = "sleep"] /\ UNCHANGED <<routes, directory>>
      BY <2>1 DEF Join, memory
    <3>2. joins'[n] = joins[n] + 1  BY <1>1, <3>1
    <3>3. ASSUME joins'[n] = 1 PROVE hello'[n][1] = "sleep" /\ \A limit : Young(n, limit)'
      <4>1. joins[n] = 0  BY <1>1, <3>2, <3>3
      <4>2. 1 \in Threads
        <5>1. plan \in Plan  BY PlanAssumption DEF TypeInv, TypeOK, PlanAssumption
        <5>2. plan.joins[n] \in 0 .. MaxJoins  BY <5>1 DEF Plan
        <5>. QED  BY <1>1, <2>1, <4>1, <5>2 DEF Join, Threads
      <4>3. hello'[n][1] = "sleep"  BY <1>1, <3>1, <4>1, <4>2
      <4>. QED  BY <3>1, <4>1, <4>3 DEF StaleInv, Young
    <3>. QED  BY <1>1, <3>2, <3>3
  <2>2. CASE joins'[n] = joins[n] /\ ~running'[n]  BY <1>2, <2>2
  <2>3. CASE joins'[n] = joins[n] /\ running'[n] = running[n] /\ HelloContinue(n, 1)
    <3>1. joins[n] = 0 => ~running'[n]  BY <2>3 DEF StaleInv
    <3>2. ASSUME running[n], joins[n] = 1
          PROVE  /\ hello'[n][1] \in {"sleep", "send", "purge"}
                 /\ Young(n, StaleIntervals + 1)'
                 /\ Purged(n)' => Young(n, StaleIntervals)'
      <4>1. 1 \in Threads  BY <1>1, <3>2 DEF Threads
      <4>2. hello[n][1] \in {"sleep", "send", "purge"} /\ Young(n, StaleIntervals + 1)
        BY <3>2 DEF StaleInv
      <4>3. Young(n, StaleIntervals + 1)'  BY <1>1, <1>4, <4>2, YoungSteps
      <4>4. CASE HelloWake(n, 1) \/ HelloSend(n, 1)
        <5>1. hello'[n][1] \in {"send", "purge"}
          BY <1>1, <3>2, <4>1, <4>4 DEF HelloWake, HelloSend, HelloStep
        <5>. QED  BY <4>3, <5>1 DEF Purged
      <4>5. CASE HelloPurge(n, 1)
        <5>1. hello'[n][1] = "sleep"  BY <1>1, <3>2, <4>1, <4>5 DEF HelloPurge, HelloStep
        <5>2. /\ routes'[n] = Purge(routes[n], StaleIntervals)
              /\ directory'[n] = Purge(directory[n], StaleIntervals)
              /\ routes[n] \in RouteTables /\ directory[n] \in RouteTables
          BY <4>5 DEF HelloPurge, TypeInv, TypeOK
        <5>3. ASSUME NEW table \in RouteTables, NEW d \in Nodes, Purge(table, StaleIntervals)[d] # NoEntry
              PROVE  Purge(table, StaleIntervals)[d].age <= StaleIntervals
          <6>1. table[d] # NoEntry /\ Purge(table, StaleIntervals)[d] = table[d] /\ ~ (table[d].age > StaleIntervals)
            BY <5>3 DEF Purge, RouteTables
          <6>2. table[d].age \in Nat  BY <1>1, <6>1 DEF RouteTables, Entries, Ages
          <6>. QED  BY <1>1, <6>1, <6>2
        <5>4. Young(n, StaleIntervals)'  BY <5>2, <5>3 DEF Young
        <5>. QED  BY <4>3, <5>1, <5>4
      <4>6. CASE HelloLoop(n, 1)  BY <4>2, <4>6 DEF HelloLoop, HelloStep
      <4>. QED  BY <2>3, <4>4, <4>5, <4>6 DEF HelloContinue
    <3>. QED  BY <1>2, <2>3, <3>1, <3>2
  <2>4. CASE /\ joins'[n] = joins[n] /\ running'[n] = running[n]
             /\ hello'[n][1] = hello[n][1] /\ (<<n, 1>> \in due <=> <<n, 1>> \in due')
    <3>1. joins[n] = 0 => ~running'[n]  BY <2>4 DEF StaleInv
    <3>2. ASSUME running[n], joins[n] = 1
          PROVE  /\ hello'[n][1] \in {"sleep", "send", "purge"}
                 /\ Young(n, StaleIntervals + 1)'
                 /\ Purged(n)' => Young(n, StaleIntervals)'
      <4>1. /\ hello[n][1] \in {"sleep", "send", "purge"} /\ Young(n, StaleIntervals + 1)
            /\ Purged(n) => Young(n, StaleIntervals)
        BY <3>2 DEF StaleInv
      <4>2. Purged(n)' => Purged(n)  BY <2>4 DEF Purged
      <4>. QED  BY <1>1, <1>4, <2>4, <4>1, <4>2, YoungSteps
    <3>. QED  BY <1>2, <2>4, <3>1, <3>2
  <2>. QED  BY <1>4, <2>1, <2>2, <2>3, <2>4, NodeSteps
<1>. QED  BY <1>3, <1>4

\* A node that runs after its first join has no entry older than one interval more
\* than the limit, in whatever order its handlers, its HELLO thread and the ends
\* of the intervals come: purge_stale and expire_stale miss no interval.
THEOREM StaleEntriesCorrect == Spec => []StaleEntriesPurged
<1>1. StaleInv => StaleEntriesPurged  BY DEF StaleInv, StaleEntriesPurged, Young
<1>. QED  BY TypeInit, TypeNext, StaleInit, StaleNext, <1>1, PTL DEF Spec

-----------------------------------------------------------------------------
(* Routes to nodes that stay *)

\* What the selector of a node chooses while its adapters are all available.
Chosen(n) == Select(PoolWithout(n, {}), Policy, {}, Broadcast)
Screen(n) == Chosen(n).mac

\* A mesh without other implementations, in which the selectors of all nodes choose
\* adapters of one type, a process that dies has no other adapter to come back with,
\* nobody joins more than twice, and entries live for three intervals at least (the
\* code's 90 s are three of its 30 s).
PlainMesh ==
    /\ ForeignPackets = {}
    /\ MaxJoins <= 2
    /\ StaleIntervals >= 3
    /\ \E type \in AdapterTypes :
          \A n \in Nodes : Chosen(n) # NoAdapter /\ Chosen(n).type = type
    /\ \A p \in Plans : \A n \in p.crashers : DOMAIN Adapters[n] = {1}

LEMMA ScreenFacts ==
    ASSUME PlainMesh, NEW n \in Nodes
    PROVE  /\ Screen(n) \in Macs /\ Screen(n)[1] = n
           /\ Chosen(n).type = Adapters[n][Screen(n)[2]].type
<1> DEFINE pool == PoolWithout(n, {})
<1>1. DOMAIN pool = DOMAIN Adapters[n] /\ DOMAIN pool \subseteq Nat
  BY AdaptersAssumption DEF AdaptersAssumption, PoolWithout
<1>2. ASSUME NEW k \in DOMAIN pool
      PROVE  pool[k].mac = <<n, k>> /\ pool[k].type = Adapters[n][k].type /\ <<n, k>> \in Macs
  BY <1>1, <1>2 DEF PoolWithout, Macs
<1>3. Chosen(n) = Select(pool, Policy, {}, Broadcast)  BY DEF Chosen
<1> HIDE DEF pool
<1>4. PICK k \in DOMAIN pool : Chosen(n) = pool[k]
  BY <1>1, <1>3, SelectFacts, PolicyAssumption DEF PlainMesh, PolicyAssumption
<1>5. Screen(n) = <<n, k>> /\ Chosen(n).type = Adapters[n][k].type  BY <1>2, <1>4 DEF Screen
<1>. QED  BY <1>2, <1>5

\* Adapters go with processes that die, which have one adapter each.
OutIsCrashed == \A m \in out : m[1] \in plan.crashers

LEMMA CrashedAdapter ==
    ASSUME PlainMesh, TypeOK, NEW n \in Nodes, n \in plan.crashers, NEW m \in Macs, m[1] = n
    PROVE  m = Screen(n)
<1>1. DOMAIN Adapters[n] = {1}  BY DEF PlainMesh, TypeOK
<1>2. \A x \in Macs : x[1] = n => x = <<n, 1>>  BY <1>1 DEF Macs
<1>. QED  BY <1>2, ScreenFacts

\* A node reads the adapter that its selector chooses, as long as that is available.
LEMMA ReadsScreen ==
    ASSUME PlainMesh, TypeOK, OutIsCrashed, NEW n \in Nodes, Screen(n) \notin out
    PROVE  /\ ReadAdapter(n) # NoAdapter
           /\ ReadAdapter(n).mac = Screen(n)
           /\ ReadAdapter(n).type = Chosen(n).type
<1>1. ReadAdapter(n) = Select(PoolWithout(n, out), Policy, {}, Broadcast)
  BY DEF TypeOK, SelectedWithout, ReadAdapter
<1>2. ASSUME NEW k \in DOMAIN Adapters[n] PROVE <<n, k>> \notin out
  <2>1. <<n, k>> \in Macs /\ <<n, k>>[1] = n  BY DEF Macs
  <2>2. CASE n \in plan.crashers  BY <2>1, <2>2, CrashedAdapter
  <2>3. CASE n \notin plan.crashers  BY <2>1, <2>3 DEF OutIsCrashed
  <2>. QED  BY <2>2, <2>3
<1>3. PoolWithout(n, out) = PoolWithout(n, {})  BY <1>2 DEF PoolWithout
<1>4. ReadAdapter(n) = Chosen(n)  BY <1>1, <1>3 DEF Chosen
<1>. QED  BY <1>4 DEF PlainMesh, Screen

\* In a perfect mesh what a node floods waits at once at all nodes that hear it.
LEMMA FloodReaches ==
    ASSUME PlainMesh, TypeOK, OutIsCrashed, ~ Lossy, NEW a \in Nodes, NEW b \in Nodes, NEW pkt,
           Flood(a, pkt), Screen(a) \notin out, Screen(b) \notin out, <<a, b>> \in plan.links
    PROVE  pkt \in inbox'[Screen(b)]
<1> DEFINE hears == Hears(a, ReadAdapter(a).type)
<1>1. Screen(b) \in Macs  BY ScreenFacts
<1>2. Screen(b) \in hears
  <2>1. ReadAdapter(a).type = Adapters[b][Screen(b)[2]].type
    <3>1. Chosen(a).type = Chosen(b).type  BY DEF PlainMesh
    <3>. QED  BY <3>1, ScreenFacts, ReadsScreen
  <2>2. Screen(b)[1] = b  BY ScreenFacts
  <2>. QED  BY <1>1, <2>1, <2>2 DEF Hears
<1>3. inbox' = [m \in Macs |-> IF m \in hears THEN inbox[m] \cup {pkt} ELSE inbox[m]]
  BY ReadsScreen DEF Flood, SendOn
<1>. QED  BY <1>1, <1>2, <1>3

-----------------------------------------------------------------------------
(* Packets wait until they are handled *)

Grown == \A m \in Macs : inbox[m] \subseteq inbox'[m]

LEMMA SendGrows ==
    ASSUME TypeOK, NEW n, NEW adapter, NEW pkt, SendOn(n, adapter, pkt)
    PROVE  Grown
<1>1. CASE adapter = NoAdapter  BY <1>1 DEF SendOn, Grown
<1>2. CASE adapter # NoAdapter
  <2>1. PICK heard :
            inbox' = [m \in Macs |-> IF m \in heard THEN inbox[m] \cup {pkt} ELSE inbox[m]]
    BY <1>2 DEF SendOn
  <2>. QED  BY <2>1 DEF Grown
<1>. QED  BY <1>1, <1>2

\* Only an RX thread takes a packet from an adapter, or the end of the process.
LEMMA AirKeeps ==
    ASSUME TypeOK, [Next]_vars
    PROVE  Grown \/ (\E n \in Nodes, t \in Threads : RxTake(n, t)) \/ \E n \in Nodes : Crash(n)
<1> DEFINE Sends == \E n, adapter, pkt : SendOn(n, adapter, pkt)
<1>1. Sends \/ inbox' = inbox => Grown  BY SendGrows DEF Grown
<1>2. ASSUME NEW n \in Nodes,
             JoinHello(n) \/ DiscoverHello(n) \/ LeaveBye(n) \/ SendSetup(n) \/ SendData(n)
      PROVE  Sends
  BY <1>2 DEF JoinHello, DiscoverHello, LeaveBye, SendSetup, SendData, Flood, SendPacket, SendViaMac
<1>3. ASSUME NEW n \in Nodes, NEW t \in Threads, HelloSend(n, t) PROVE Sends
  BY <1>3 DEF HelloSend, Flood
<1>4. ASSUME NEW n, NEW pkt, NEW table, RoutePacket(n, pkt, table) PROVE Sends \/ inbox' = inbox
  BY <1>4 DEF RoutePacket, ForwardCircuit, SendViaMac, Flood
<1>5. ASSUME NEW n \in Nodes, NEW t \in Threads, RxHandle(n, t) PROVE Sends \/ inbox' = inbox
  <2>1. CASE OnHello(n, t)  BY <2>1 DEF OnHello, SendViaMac
  <2>2. CASE OnBye(n, t) \/ OnRouteUpdate(n, t)  BY <2>2 DEF OnBye, OnRouteUpdate
  <2>3. CASE OnCircuitSetup(n, t)  BY <2>3 DEF OnCircuitSetup, SendViaMac
  <2>4. CASE OnCircuitTeardown(n, t)
    <3>1. inbox' = inbox \/ \E pkt, table : RoutePacket(n, pkt, table)  BY <2>4 DEF OnCircuitTeardown
    <3>. QED  BY <1>4, <3>1
  <2>5. CASE OnData(n, t)
    <3>1. \E pkt, table : RoutePacket(n, pkt, table)  BY <2>5 DEF OnData
    <3>. QED  BY <1>4, <3>1
  <2> HIDE DEF Sends
  <2>. QED  BY <1>5, <2>1, <2>2, <2>3, <2>4, <2>5 DEF RxHandle
<1>6. ASSUME NEW n \in Nodes, Foreign(n) PROVE Grown
  <2>1. PICK pkt, m : inbox' = [inbox EXCEPT ![m] = @ \cup {pkt}]  BY <1>6 DEF Foreign
  <2>. QED  BY <2>1 DEF Grown, TypeOK
<1>7. ASSUME NEW n \in Nodes,
             \/ Join(n) \/ Fail(n) \/ Recover(n) \/ LeaveStop(n) \/ NoRouteError(n) \/ Negotiate(n)
             \/ DiscoverReturn(n) \/ \E x \in unsent : SendCall(n, x)
      PROVE  inbox' = inbox
  BY <1>7 DEF Join, Fail, Recover, LeaveStop, NoRouteError, Negotiate, DiscoverReturn, SendCall, rxvars
<1>8. ASSUME NEW n \in Nodes, NEW t \in Threads,
             RxEnd(n, t) \/ HelloLoop(n, t) \/ HelloWake(n, t) \/ HelloPurge(n, t)
      PROVE  inbox' = inbox
  BY <1>8 DEF RxEnd, HelloLoop, HelloWake, HelloPurge, rxvars
<1>9. Tick \/ Silence \/ UNCHANGED vars => inbox' = inbox  BY DEF Tick, Silence, vars, rxvars
<1> HIDE DEF Sends
<1>. QED  BY <1>1, <1>2, <1>3, <1>5, <1>6, <1>7, <1>8, <1>9 DEF Next, AppContinue, RxStep, HelloContinue

\* join_mesh starts one more thread of each kind.
LEMMA JoinFacts ==
    ASSUME TypeOK, NEW n \in Nodes, Join(n)
    PROVE  joins'[n] = joins[n] + 1 /\ joins[n] + 1 \in Threads
<1>1. plan \in Plan /\ joins \in [Nodes -> 0 .. MaxJoins] /\ MaxJoins \in Nat
  BY PlanAssumption, JoinAssumption DEF TypeOK, PlanAssumption, JoinAssumption
<1>2. plan.joins[n] \in 0 .. MaxJoins  BY <1>1 DEF Plan
<1>. QED  BY <1>1, <1>2 DEF Join, Threads

\* The steps that change what a thread has in hand.
LEMMA HandKept ==
    ASSUME [Next]_vars
    PROVE  \/ hand' = hand
           \/ \E n \in Nodes : Join(n) \/ Crash(n) \/ \E t \in Threads : RxStep(n, t)
<1>1. ASSUME NEW x \in Nodes,
             \/ LeaveBye(x) \/ Fail(x) \/ Recover(x) \/ DiscoverHello(x) \/ AppContinue(x)
             \/ Foreign(x) \/ \E m \in unsent : SendCall(x, m)
      PROVE  hand' = hand
  BY <1>1 DEF LeaveBye, Fail, Recover, DiscoverHello, AppContinue, Foreign, SendCall, rxvars,
              JoinHello, LeaveStop, NoRouteError, Negotiate, SendSetup, SendData, DiscoverReturn
<1>2. ASSUME NEW x \in Nodes, NEW u \in Threads, HelloContinue(x, u) PROVE hand' = hand
  BY <1>2 DEF HelloContinue, HelloLoop, HelloWake, HelloSend, HelloPurge, rxvars
<1>3. Tick \/ Silence \/ UNCHANGED vars => hand' = hand  BY DEF Tick, Silence, vars, rxvars
<1>. QED  BY <1>1, <1>2, <1>3 DEF Next

\* An RX thread that has ended, or is still to be started, does nothing until then.
LEMMA EndedSteps ==
    ASSUME TypeInv, [Next]_vars, NEW n \in Nodes, NEW t \in Threads, hand[n][t] = Ended
    PROVE  hand'[n][t] = Ended \/ (Join(n) /\ t = joins[n] + 1)
<1>1. TypeOK /\ hand \in [Nodes -> [Threads -> [packet : Packets, via : Macs] \cup {NoPacket, Ended}]]
  BY DEF TypeInv, TypeOK
<1> DEFINE Stays == hand'[n][t] = Ended \/ (Join(n) /\ t = joins[n] + 1)
<1>2. ASSUME NEW x \in Nodes, NEW u \in Threads, NEW h, hand' = [hand EXCEPT ![x][u] = h],
             hand[x][u] # Ended
      PROVE  Stays
  <2>1. ~ (x = n /\ u = t)  BY <1>2
  <2>. QED  BY <1>1, <1>2, <2>1
<1>3. ASSUME NEW x \in Nodes, NEW u \in Threads, RxHandle(x, u) PROVE Stays
  <2>1. \E type : Handle(x, u, type)
    BY <1>3 DEF RxHandle, OnHello, OnBye, OnCircuitSetup, OnCircuitTeardown, OnRouteUpdate, OnData
  <2>2. hand' = [hand EXCEPT ![x][u] = NoPacket] /\ hand[x][u] # Ended  BY <2>1 DEF Handle, Handling
  <2> HIDE DEF Stays
  <2>. QED  BY <1>2, <2>2
<1>4. ASSUME NEW x \in Nodes, NEW u \in Threads, RxTake(x, u) \/ RxEnd(x, u) PROVE Stays
  <2>1. hand[x][u] = NoPacket /\ \E h : hand' = [hand EXCEPT ![x][u] = h]
    BY <1>4 DEF RxTake, RxEnd
  <2>2. hand[x][u] # Ended  BY <2>1, HandAssumption DEF HandAssumption
  <2> HIDE DEF Stays
  <2>. QED  BY <1>2, <2>1, <2>2
<1>5. ASSUME NEW x \in Nodes, Join(x) PROVE Stays
  <2>1. hand' = [hand EXCEPT ![x][joins[x] + 1] = NoPacket]  BY <1>5 DEF Join
  <2>2. CASE x = n /\ t = joins[x] + 1  BY <1>5, <2>2
  <2>3. CASE ~ (x = n /\ t = joins[x] + 1)  BY <1>1, <2>1, <2>3
  <2>. QED  BY <2>2, <2>3
<1>6. ASSUME NEW x \in Nodes, Crash(x) PROVE Stays
  <2>1. hand' = [hand EXCEPT ![x] = [u \in Threads |-> Ended]]  BY <1>6 DEF Crash
  <2>. QED  BY <1>1, <2>1
<1>7. ASSUME hand' = hand PROVE Stays  BY <1>7
<1> HIDE DEF Stays
<1>8. Stays  BY <1>3, <1>4, <1>5, <1>6, <1>7, HandKept DEF RxStep
<1>. QED  BY <1>8 DEF Stays

\* Each thread is there from its join on, and the sleep that is over is that of a
\* sleeping thread.
ThreadInv ==
    \A n \in Nodes, t \in Threads :
        /\ t > joins[n] => hello[n][t] = "ended" /\ hand[n][t] = Ended
        /\ <<n, t>> \in due => hello[n][t] = "sleep"

LEMMA ThreadInit == Init => ThreadInv
BY DEF Init, ThreadInv

LEMMA ThreadNext == TypeInv /\ ThreadInv /\ [Next]_vars => ThreadInv'
<1> SUFFICES ASSUME TypeInv, ThreadInv, [Next]_vars, NEW n \in Nodes, NEW t \in Threads
             PROVE  /\ t > joins'[n] => hello'[n][t] = "ended" /\ hand'[n][t] = Ended
                    /\ <<n, t>> \in due' => hello'[n][t] = "sleep"
  BY DEF ThreadInv
<1>1. /\ joins \in [Nodes -> 0 .. MaxJoins] /\ MaxJoins \in Nat /\ TypeOK
      /\ hello \in [Nodes -> [Threads -> {"loop", "sleep", "send", "purge", "ended"}]]
  BY JoinAssumption DEF TypeInv, TypeOK, JoinAssumption
<1>2. joins[n] \in Nat /\ t \in Nat  BY <1>1 DEF Threads
<1>3. /\ t > joins[n] => hello[n][t] = "ended" /\ hand[n][t] = Ended
      /\ <<n, t>> \in due => hello[n][t] = "sleep"
  BY DEF ThreadInv
<1>4. CASE Tick
  <2>1. UNCHANGED <<joins, hand, hello>> /\ due' = {d \in Nodes \X Threads : hello[d[1]][d[2]] = "sleep"}
    BY <1>4 DEF Tick, world
  <2>2. <<n, t>> \in due' => hello[n][t] = "sleep"
    <3>1. <<n, t>>[1] = n /\ <<n, t>>[2] = t  OBVIOUS
    <3>. QED  BY <2>1, <3>1
  <2>. QED  BY <1>3, <2>1, <2>2
<1>5. CASE ~ Tick
  <2>1. CASE Join(n)
    <3>1. joins'[n] = joins[n] + 1 /\ joins[n] + 1 \in Threads  BY <1>1, <2>1, JoinFacts
    <3>2. hello' = [hello EXCEPT ![n][joins[n] + 1] = "sleep"] /\ due' = due  BY <2>1 DEF Join
    <3>3. hello'[n][t] = IF t = joins[n] + 1 THEN "sleep" ELSE hello[n][t]  BY <1>1, <3>1, <3>2
    <3>4. t > joins'[n] => t > joins[n] /\ t # joins[n] + 1  BY <1>2, <3>1
    <3>5. t > joins'[n] => hand'[n][t] = Ended  BY <1>3, <3>4, EndedSteps
    <3>. QED  BY <1>3, <3>2, <3>3, <3>4, <3>5
  <2>2. CASE joins'[n] = joins[n] /\ ~ running'[n] /\ Crash(n)
    <3>1. /\ hand' = [hand EXCEPT ![n] = [u \in Threads |-> Ended]]
          /\ hello' = [hello EXCEPT ![n] = [u \in Threads |-> "ended"]]
          /\ due' = {d \in due : d[1] # n}
      BY <2>2 DEF Crash
    <3>2. <<n, t>> \notin due'
      <4>1. <<n, t>>[1] = n  OBVIOUS
      <4>. QED  BY <3>1, <4>1
    <3>. QED  BY <1>1, <3>1, <3>2 DEF TypeOK
  <2>3. ASSUME joins'[n] = joins[n] PROVE t > joins'[n] => hand'[n][t] = Ended
    <3>1. Join(n) => joins'[n] = joins[n] + 1  BY <1>1, JoinFacts
    <3>. QED  BY <1>2, <1>3, <2>3, <3>1, EndedSteps
  <2>4. CASE joins'[n] = joins[n] /\ running'[n] = running[n] /\ HelloContinue(n, t)
    <3>1. hello[n][t] # "ended"
      BY <2>4 DEF HelloContinue, HelloLoop, HelloWake, HelloSend, HelloPurge, HelloStep
    <3>2. <<n, t>> \in due' => HelloWake(n, t) \/ <<n, t>> \in due
      BY <2>4 DEF HelloContinue, HelloLoop, HelloSend, HelloPurge
    <3>3. ~ (<<n, t>> \in due')
      <4>1. HelloWake(n, t) => <<n, t>> \notin due'  BY DEF HelloWake
      <4>2. <<n, t>> \in due => HelloWake(n, t)
        BY <1>3, <2>4 DEF HelloContinue, HelloLoop, HelloSend, HelloPurge, HelloStep
      <4>. QED  BY <3>2, <4>1, <4>2
    <3>. QED  BY <1>3, <2>3, <2>4, <3>1, <3>3
  <2>5. CASE /\ joins'[n] = joins[n] /\ (running'[n] = running[n] \/ ~ running'[n])
             /\ hello'[n][t] = hello[n][t] /\ (<<n, t>> \in due <=> <<n, t>> \in due')
    BY <1>3, <2>3, <2>5
  <2>. QED  BY <1>5, <2>1, <2>2, <2>4, <2>5, NodeSteps
<1>. QED  BY <1>4, <1>5

\* What a thread has in hand came through an adapter of its own node.
ViaInv == \A n \in Nodes, t \in Threads : Handling(n, t) => hand[n][t].via[1] = n

LEMMA ViaInit == Init => ViaInv
BY DEF Init, ViaInv, Handling

LEMMA ViaNext == TypeInv /\ ViaInv /\ [Next]_vars => ViaInv'
<1> SUFFICES ASSUME TypeInv, ViaInv, [Next]_vars, NEW n \in Nodes, NEW t \in Threads, Handling(n, t)'
             PROVE  hand'[n][t].via[1] = n
  BY DEF ViaInv
<1>1. CASE Handling(n, t) /\ hand'[n][t] = hand[n][t]  BY <1>1 DEF ViaInv
<1>2. CASE \E m \in Macs : m[1] = n /\ hand'[n][t].via = m /\ hand'[n][t].packet \in inbox[m]  BY <1>2
<1>. QED  BY <1>1, <1>2, HandSteps

-----------------------------------------------------------------------------
(* Before a node joins *)

\* Nobody has heard of a node that has not joined, and none of its threads runs.
SourceInv ==
    ForeignPackets = {} =>
        \A n \in Nodes : joins[n] = 0 =>
            /\ app[n] = "out"
            /\ \A m \in Macs : \A p \in inbox[m] : p.type = "HELLO" => p.src # n
            /\ \A x \in Nodes, t \in Threads :
                  Handling(x, t) /\ hand[x][t].packet.type = "HELLO" => hand[x][t].packet.src # n
            /\ \A x \in Nodes : routes[x][n] = NoEntry

\* Where the application thread waits to join and to say its first HELLO.
LEMMA AppSteps ==
    ASSUME TypeOK, [Next]_vars, NEW n \in Nodes
    PROVE  /\ app[n] = "out" => app'[n] = "out" \/ Join(n)
           /\ app[n] = "hello" => app'[n] = "hello" \/ JoinHello(n) \/ Crash(n)
<1>1. app \in [Nodes -> {"out", "hello", "idle", "negotiate", "setup", "data", "window", "stop", "gone"}]
  BY DEF TypeOK
<1> DEFINE Steps == /\ app[n] = "out" => app'[n] = "out" \/ Join(n)
                    /\ app[n] = "hello" => app'[n] = "hello" \/ JoinHello(n) \/ Crash(n)
<1>2. ASSUME app' = app PROVE Steps  BY <1>2
<1>3. ASSUME NEW x \in Nodes, NEW to, app' = [app EXCEPT ![x] = to], app[x] \notin {"out", "hello"}
      PROVE  Steps
  BY <1>1, <1>3
<1>4. ASSUME NEW x \in Nodes, Join(x) PROVE Steps
  <2>1. app' = [app EXCEPT ![x] = "hello"]  BY <1>4 DEF Join
  <2>. QED  BY <1>1, <1>4, <2>1
<1>5. ASSUME NEW x \in Nodes, Crash(x) \/ JoinHello(x) PROVE Steps
  <2>1. app[x] # "out" /\ \E to : app' = [app EXCEPT ![x] = to]  BY <1>5 DEF Crash, JoinHello, AppStep
  <2>. QED  BY <1>1, <1>5, <2>1
<1>6. ASSUME NEW x \in Nodes,
             \/ LeaveBye(x) \/ LeaveStop(x) \/ NoRouteError(x) \/ Negotiate(x) \/ SendSetup(x)
             \/ SendData(x) \/ DiscoverHello(x) \/ DiscoverReturn(x) \/ \E m \in unsent : SendCall(x, m)
      PROVE  Steps
  <2>1. app[x] \notin {"out", "hello"} /\ \E to : app' = [app EXCEPT ![x] = to]
    BY <1>6 DEF LeaveBye, LeaveStop, NoRouteError, Negotiate, SendSetup, SendData, DiscoverHello,
                DiscoverReturn, SendCall, AppStep
  <2> HIDE DEF Steps
  <2>. QED  BY <1>3, <2>1
<1>7. ASSUME NEW x \in Nodes, Fail(x) \/ Recover(x) \/ Foreign(x) PROVE app' = app
  BY <1>7 DEF Fail, Recover, Foreign, appvars
<1>8. ASSUME NEW x \in Nodes, NEW t \in Threads, RxStep(x, t) PROVE app' = app
  <2>1. CASE RxHandle(x, t)
    <3>1. \E type : Handle(x, t, type)
      BY <2>1 DEF RxHandle, OnHello, OnBye, OnCircuitSetup, OnCircuitTeardown, OnRouteUpdate, OnData
    <3>. QED  BY <3>1 DEF Handle, appvars
  <2>2. CASE RxTake(x, t) \/ RxEnd(x, t)  BY <2>2 DEF RxTake, RxEnd, appvars
  <2>. QED  BY <1>8, <2>1, <2>2 DEF RxStep
<1>9. ASSUME NEW x \in Nodes, NEW t \in Threads, HelloContinue(x, t) PROVE app' = app
  BY <1>9 DEF HelloContinue, HelloLoop, HelloWake, HelloSend, HelloPurge, appvars
<1>10. Tick \/ Silence \/ UNCHANGED vars => app' = app  BY DEF Tick, Silence, vars, appvars
<1> HIDE DEF Steps
<1>11. Steps
  BY <1>2, <1>4, <1>5, <1>6, <1>7, <1>8, <1>9, <1>10 DEF Next, AppContinue
<1>. QED  BY <1>11 DEF Steps

\* Nobody takes a join back.
LEMMA JoinsGrow ==
    ASSUME TypeInv, [Next]_vars, NEW n \in Nodes
    PROVE  joins'[n] = joins[n] \/ (Join(n) /\ joins'[n] = joins[n] + 1)
<1>1. TypeOK  BY DEF TypeInv
<1>2. CASE Tick  BY <1>2 DEF Tick, world
<1>3. CASE ~ Tick
  <2>1. Join(n) \/ joins'[n] = joins[n]
    <3>1. 1 \in Threads \cup {1}  OBVIOUS
    <3>. QED  BY <1>3, <3>1, NodeSteps
  <2>. QED  BY <1>1, <2>1, JoinFacts
<1>. QED  BY <1>2, <1>3

LEMMA SourceInit == Init => SourceInv
BY DEF Init, SourceInv, Handling, EmptyTable

LEMMA SourceNext == TypeInv /\ ThreadInv /\ NearInv /\ SourceInv /\ [Next]_vars => SourceInv'
<1> SUFFICES ASSUME TypeInv, ThreadInv, NearInv, SourceInv, [Next]_vars, ForeignPackets = {},
                    NEW n \in Nodes, joins'[n] = 0
             PROVE  /\ app'[n] = "out"
                    /\ \A m \in Macs : \A p \in inbox'[m] : p.type = "HELLO" => p.src # n
                    /\ \A x \in Nodes, t \in Threads :
                          Handling(x, t)' /\ hand'[x][t].packet.type = "HELLO"
                              => hand'[x][t].packet.src # n
                    /\ \A x \in Nodes : routes'[x][n] = NoEntry
  BY DEF SourceInv
<1>1. TypeOK /\ joins[n] \in Nat /\ \A t \in Threads : t \in Nat /\ t > 0
  BY JoinAssumption DEF TypeInv, TypeOK, JoinAssumption, Threads
<1>2. joins[n] = 0 /\ ~ Join(n)
  <2>1. Join(n) => joins'[n] = joins[n] + 1  BY <1>1, JoinFacts
  <2>. QED  BY <1>1, <2>1, JoinsGrow
<1>3. /\ app[n] = "out"
      /\ \A m \in Macs : \A p \in inbox[m] : p.type = "HELLO" => p.src # n
      /\ \A x \in Nodes, t \in Threads :
            Handling(x, t) /\ hand[x][t].packet.type = "HELLO" => hand[x][t].packet.src # n
      /\ \A x \in Nodes : routes[x][n] = NoEntry
  BY <1>2 DEF SourceInv
<1>4. ~ Active(n)
  <2>1. \A t \in Threads : hello[n][t] = "ended" /\ hand[n][t] = Ended  BY <1>1, <1>2 DEF ThreadInv
  <2>. QED  BY <1>3, <2>1 DEF Active, Handling
<1>5. app'[n] = "out"  BY <1>1, <1>2, <1>3, AppSteps
<1>6. ASSUME NEW m \in Macs, NEW p \in inbox'[m], p.type = "HELLO" PROVE p.src # n
  <2>1. CASE p \in inbox[m]  BY <1>3, <1>6, <2>1
  <2>2. ASSUME NEW x \in Nodes, OwnPacket(p, x), Active(x) PROVE p.src # n
    <3>1. p.src = x  BY <1>6, <2>2, PacketFacts DEF OwnPacket
    <3>. QED  BY <1>4, <2>2, <3>1
  <2>. QED  BY <2>1, <2>2, AirSteps
<1>7. ASSUME NEW x \in Nodes, NEW t \in Threads, Handling(x, t)', hand'[x][t].packet.type = "HELLO"
      PROVE  hand'[x][t].packet.src # n
  <2>1. CASE Handling(x, t) /\ hand'[x][t] = hand[x][t]  BY <1>3, <1>7, <2>1
  <2>2. CASE \E m \in Macs : m[1] = x /\ hand'[x][t].packet \in inbox[m]  BY <1>3, <1>7, <2>2
  <2>. QED  BY <1>7, <2>1, <2>2, HandSteps
<1>8. ASSUME NEW x \in Nodes PROVE routes'[x][n] = NoEntry
  <2>1. RouteStep(x, n)  BY EntrySteps
  <2>2. ~ Hearing(x, "HELLO", n)  BY <1>3 DEF Hearing
  <2>3. ~ Hearing(x, "ROUTE_UPDATE", n)  BY DEF Hearing, NearInv, AirIsNear, Near
  <2>. QED  BY <1>3, <2>1, <2>2, <2>3 DEF RouteStep, Aged
<1>. QED  BY <1>5, <1>6, <1>7, <1>8

-----------------------------------------------------------------------------
(* Adapters of a perfect mesh *)

\* In a perfect mesh only the end of a process takes an adapter away: it is not the
\* one of a node that has joined once and runs, and until it is set up again the
\* node hears and knows nobody.
OutInv ==
    Perfect =>
        /\ OutIsCrashed
        /\ \A n \in Nodes : Screen(n) \in out =>
              /\ joins[n] > 0
              /\ running[n] => joins[n] > 1
              /\ inbox[Screen(n)] = {}
              /\ \A t \in Threads : ~ Handling(n, t)
              /\ \A d \in Nodes : routes[n][d] = NoEntry

LEMMA OutSteps ==
    ASSUME TypeOK, [Next]_vars, plan.outages = 0, NEW m \in out'
    PROVE  m \in out \/ \E n \in Nodes : Crash(n) /\ n = m[1]
<1>1. ASSUME NEW x \in Nodes, Crash(x) PROVE m \in out \/ \E n \in Nodes : Crash(n) /\ n = m[1]
  <2>1. out' = out \cup MacsOf(x)  BY <1>1 DEF Crash
  <2>2. m \in MacsOf(x) => x = m[1]  BY DEF MacsOf
  <2>. QED  BY <1>1, <2>1, <2>2
<1>2. ASSUME NEW x \in Nodes PROVE ~ Fail(x)
  <2>1. outages \in Nat  BY DEF TypeOK
  <2>. QED  BY <2>1 DEF Fail
<1>3. ASSUME NEW x \in Nodes, Recover(x) PROVE out' \subseteq out  BY <1>3 DEF Recover
<1>4. ASSUME NEW x \in Nodes,
             \/ Join(x) \/ LeaveBye(x) \/ DiscoverHello(x) \/ AppContinue(x) \/ Foreign(x)
             \/ \E msg \in unsent : SendCall(x, msg)
      PROVE  out' = out
  <2>1. CASE Join(x) \/ LeaveBye(x) \/ DiscoverHello(x)  BY <2>1 DEF Join, LeaveBye, DiscoverHello, world
  <2>2. CASE AppContinue(x)
    BY <2>2 DEF AppContinue, JoinHello, LeaveStop, NoRouteError, Negotiate, SendSetup, SendData,
                DiscoverReturn, world
  <2>3. CASE Foreign(x) \/ \E msg \in unsent : SendCall(x, msg)  BY <2>3 DEF Foreign, SendCall, world
  <2>. QED  BY <1>4, <2>1, <2>2, <2>3
<1>5. ASSUME NEW x \in Nodes, NEW t \in Threads, RxStep(x, t) \/ HelloContinue(x, t) PROVE out' = out
  <2>1. CASE RxHandle(x, t)
    <3>1. \E type : Handle(x, t, type)
      BY <2>1 DEF RxHandle, OnHello, OnBye, OnCircuitSetup, OnCircuitTeardown, OnRouteUpdate, OnData
    <3>. QED  BY <3>1 DEF Handle, world
  <2>2. CASE RxTake(x, t) \/ RxEnd(x, t)  BY <2>2 DEF RxTake, RxEnd, world
  <2>3. CASE HelloContinue(x, t)
    BY <2>3 DEF HelloContinue, HelloLoop, HelloWake, HelloSend, HelloPurge, world
  <2>. QED  BY <1>5, <2>1, <2>2, <2>3 DEF RxStep
<1>6. Tick \/ Silence \/ UNCHANGED vars => out' = out  BY DEF Tick, Silence, vars, world
<1>. QED  BY <1>1, <1>2, <1>3, <1>4, <1>5, <1>6 DEF Next

LEMMA OutInit == Init => OutInv
BY DEF Init, OutInv, OutIsCrashed

LEMMA OutNext ==
    ASSUME PlainMesh
    PROVE  TypeInv /\ NearInv /\ SourceInv /\ OutInv /\ [Next]_vars => OutInv'
<1> SUFFICES ASSUME TypeInv, NearInv, SourceInv, OutInv, [Next]_vars, Perfect,
                    NEW n \in Nodes, Screen(n) \in out'
             PROVE  /\ joins'[n] > 0
                    /\ running'[n] => joins'[n] > 1
                    /\ inbox'[Screen(n)] = {}
                    /\ \A t \in Threads : ~ Handling(n, t)'
                    /\ \A d \in Nodes : routes'[n][d] = NoEntry
  <2>1. [Next]_vars /\ Perfect' => Perfect  BY PlanStays DEF Perfect
  <2>2. ASSUME TypeInv, OutInv, [Next]_vars, Perfect PROVE OutIsCrashed'
    <3>1. OutIsCrashed /\ TypeOK /\ plan' = plan  BY <2>2, PlanStays DEF OutInv, TypeInv
    <3>2. ASSUME NEW m \in out' PROVE m[1] \in plan.crashers
      <4>1. m \in out \/ \E x \in Nodes : Crash(x) /\ x = m[1]
        BY <2>2, <3>1, OutSteps DEF Perfect
      <4>. QED  BY <3>1, <4>1 DEF Crash, OutIsCrashed
    <3>. QED  BY <3>1, <3>2 DEF OutIsCrashed
  <2>. QED  BY <2>1, <2>2 DEF OutInv
<1>1. TypeOK /\ joins[n] \in Nat /\ Screen(n) \in Macs /\ running \in [Nodes -> BOOLEAN]
      /\ inbox \in [Macs -> SUBSET Packets] /\ inbox' \in [Macs -> SUBSET Packets]
  <2>1. TypeInv'  BY TypeNext
  <2>. QED  BY <2>1, ScreenFacts DEF TypeInv, TypeOK
<1>2. Screen(n) \in out \/ Crash(n)  BY <1>1, OutSteps, ScreenFacts DEF Perfect
<1>3. CASE Crash(n)
  <2>1. /\ app[n] # "out" /\ UNCHANGED joins
        /\ running' = [running EXCEPT ![n] = FALSE]
        /\ hand' = [hand EXCEPT ![n] = [t \in Threads |-> Ended]]
        /\ inbox' = [m \in Macs |-> IF m[1] = n THEN {} ELSE inbox[m]]
        /\ routes' = [routes EXCEPT ![n] = EmptyTable(Nodes)]
    BY <1>3 DEF Crash
  <2>2. joins[n] # 0  BY <2>1 DEF SourceInv, PlainMesh
  <2>3. ~ running'[n] /\ routes'[n] = EmptyTable(Nodes)  BY <1>1, <2>1 DEF TypeOK
  <2>4. \A t \in Threads : hand'[n][t] = Ended  BY <1>1, <2>1 DEF TypeOK
  <2>5. inbox'[Screen(n)] = {}  BY <1>1, <2>1, ScreenFacts
  <2>. QED  BY <1>1, <2>1, <2>2, <2>3, <2>4, <2>5 DEF Handling, EmptyTable
<1>4. CASE Screen(n) \in out
  <2>1. /\ joins[n] > 0
        /\ running[n] => joins[n] > 1
        /\ inbox[Screen(n)] = {}
        /\ \A t \in Threads : ~ Handling(n, t)
        /\ \A d \in Nodes : routes[n][d] = NoEntry
    BY <1>4 DEF OutInv
  <2>2. joins'[n] > 0  BY <1>1, <2>1, JoinsGrow
  <2>3. running'[n] => joins'[n] > 1
    <3>1. CASE Tick  BY <2>1, <3>1 DEF Tick, world
    <3>2. CASE ~ Tick
      <4>1. 1 \in Threads \cup {1}  OBVIOUS
      <4>2. \/ Join(n)
            \/ joins'[n] = joins[n] /\ (running'[n] = running[n] \/ ~ running'[n])
        BY <3>2, <4>1, NodeSteps
      <4>3. Join(n) => joins'[n] = joins[n] + 1  BY <1>1, JoinFacts
      <4>4. Join(n) => joins'[n] > 1  BY <1>1, <2>1, <4>3
      <4>. QED  BY <2>1, <4>2, <4>4
    <3>. QED  BY <3>1, <3>2
  <2>4. inbox'[Screen(n)] = {}
    <3>1. ASSUME NEW p \in inbox'[Screen(n)] PROVE FALSE
      BY <1>1, <1>4, <2>1, <3>1, AirSteps DEF PlainMesh
    <3>. QED  BY <3>1
  <2>5. ASSUME NEW t \in Threads, Handling(n, t)' PROVE FALSE
    <3>1. PICK m \in Macs : m[1] = n /\ hand'[n][t].packet \in inbox[m]  BY <2>1, <2>5, HandSteps
    <3>2. n \in plan.crashers  BY <1>1, <1>4, ScreenFacts DEF OutInv, OutIsCrashed
    <3>3. m = Screen(n)  BY <1>1, <3>1, <3>2, CrashedAdapter
    <3>. QED  BY <2>1, <3>1, <3>3
  <2>6. ASSUME NEW d \in Nodes PROVE routes'[n][d] = NoEntry
    <3>1. RouteStep(n, d)  BY EntrySteps
    <3>. QED  BY <2>1, <3>1 DEF RouteStep, Aged, Hearing
  <2>. QED  BY <2>2, <2>3, <2>4, <2>5, <2>6
<1>. QED  BY <1>2, <1>3, <1>4

-----------------------------------------------------------------------------
(* A HELLO that waits is handled before it is forgotten *)

\* A packet that waits in an adapter does so until it is handled or the process ends.
LEMMA WaitsOn ==
    ASSUME TypeInv, ThreadInv, [Next]_vars, NEW b \in Nodes, NEW m \in Macs, m[1] = b,
           NEW p \in Waiting(m), ~ Crash(b)
    PROVE  p \in Waiting(m)' \/ \E t \in Threads : RxHandle(b, t) /\ hand[b][t].packet = p
<1>1. TypeOK /\ inbox \in [Macs -> SUBSET Packets]
      /\ hand \in [Nodes -> [Threads -> [packet : Packets, via : Macs] \cup {NoPacket, Ended}]]
  BY DEF TypeInv, TypeOK
<1>2. CASE p \in inbox[m]
  <2>1. CASE Grown
    <3>1. p \in inbox'[m]  BY <1>1, <1>2, <2>1 DEF Grown
    <3>. QED  BY <3>1 DEF Waiting
  <2>2. ASSUME NEW x \in Nodes, NEW u \in Threads, RxTake(x, u) PROVE p \in Waiting(m)'
    <3> DEFINE mac == ReadAdapter(x).mac
    <3>1. PICK pkt : /\ hand' = [hand EXCEPT ![x][u] = [packet |-> pkt, via |-> mac]]
                     /\ inbox' = [inbox EXCEPT ![mac] = @ \ {pkt}]
      BY <2>2 DEF RxTake
    <3>2. mac \in Macs /\ mac[1] = x  BY <1>1, <2>2, ReadAdapterFacts DEF RxTake
    <3> HIDE DEF mac
    <3>3. CASE mac = m /\ pkt = p
      <4>1. x = b  BY <1>1, <3>2, <3>3
      <4>2. hand'[b][u] = [packet |-> p, via |-> m]  BY <1>1, <3>1, <3>3, <4>1
      <4>3. Handling(b, u)'
        <5>1. TypeInv'  BY TypeNext
        <5>2. hand'[b][u] \notin {NoPacket, Ended}
          <6>1. pkt \in Packets  BY <1>1, <1>2, <3>3
          <6>. QED  BY <1>1, <3>3, <4>2, <6>1, HandAssumption DEF HandAssumption
        <5>. QED  BY <5>2 DEF Handling
      <4>4. p \in InHand(m)'
        <5>1. hand'[b][u].packet = p /\ hand'[b][u].via = m  BY <4>2
        <5>. QED  BY <1>1, <4>3, <5>1 DEF InHand
      <4>. QED  BY <4>4 DEF Waiting
    <3>4. CASE ~ (mac = m /\ pkt = p)
      <4>1. p \in inbox'[m]  BY <1>1, <1>2, <3>1, <3>4
      <4>. QED  BY <4>1 DEF Waiting
    <3>. QED  BY <3>3, <3>4
  <2>3. ASSUME NEW x \in Nodes, Crash(x) PROVE p \in Waiting(m)'
    <3>1. x # b /\ inbox' = [k \in Macs |-> IF k[1] = x THEN {} ELSE inbox[k]]  BY <2>3 DEF Crash
    <3>2. p \in inbox'[m]  BY <1>1, <1>2, <3>1
    <3>. QED  BY <3>2 DEF Waiting
  <2>. QED  BY <1>1, <2>1, <2>2, <2>3, AirKeeps
<1>3. CASE p \in InHand(m)
  <2>1. PICK t \in Threads : Handling(b, t) /\ hand[b][t].via = m /\ hand[b][t].packet = p
    BY <1>1, <1>3 DEF InHand
  <2>2. ASSUME hand'[b][t] = hand[b][t] PROVE p \in Waiting(m)'
    <3>1. Handling(b, t)' /\ hand'[b][t].via = m /\ hand'[b][t].packet = p  BY <2>1, <2>2 DEF Handling
    <3>2. p \in InHand(m)'  BY <1>1, <3>1 DEF InHand
    <3>. QED  BY <3>2 DEF Waiting
  <2>3. CASE hand' = hand  BY <2>2, <2>3
  <2>4. ASSUME NEW x \in Nodes, Join(x) PROVE hand'[b][t] = hand[b][t]
    <3>1. hand' = [hand EXCEPT ![x][joins[x] + 1] = NoPacket]  BY <2>4 DEF Join
    <3>2. joins[x] + 1 \in Threads /\ joins[x] + 1 > joins[x]
      BY <1>1, <2>4, JoinFacts DEF TypeOK
    <3>3. hand[x][joins[x] + 1] = Ended  BY <3>2 DEF ThreadInv
    <3>4. ~ (x = b /\ joins[x] + 1 = t)  BY <2>1, <3>3 DEF Handling
    <3>. QED  BY <1>1, <3>1, <3>4
  <2>5. ASSUME NEW x \in Nodes, Crash(x) PROVE hand'[b][t] = hand[b][t]
    <3>1. x # b /\ hand' = [hand EXCEPT ![x] = [u \in Threads |-> Ended]]  BY <2>5 DEF Crash
    <3>. QED  BY <1>1, <3>1
  <2>6. ASSUME NEW x \in Nodes, NEW u \in Threads, RxHandle(x, u)
        PROVE  hand'[b][t] = hand[b][t] \/ (RxHandle(b, t) /\ hand[b][t].packet = p)
    <3>1. \E type : Handle(x, u, type)
      BY <2>6 DEF RxHandle, OnHello, OnBye, OnCircuitSetup, OnCircuitTeardown, OnRouteUpdate, OnData
    <3>2. hand' = [hand EXCEPT ![x][u] = NoPacket]  BY <3>1 DEF Handle
    <3>. QED  BY <1>1, <2>1, <2>6, <3>2
  <2>7. ASSUME NEW x \in Nodes, NEW u \in Threads, RxTake(x, u) \/ RxEnd(x, u)
        PROVE  hand'[b][t] = hand[b][t]
    <3>1. hand[x][u] = NoPacket /\ \E h : hand' = [hand EXCEPT ![x][u] = h]  BY <2>7 DEF RxTake, RxEnd
    <3>2. ~ (x = b /\ u = t)  BY <2>1, <3>1 DEF Handling
    <3>. QED  BY <1>1, <3>1, <3>2
  <2>. QED  BY <2>2, <2>3, <2>4, <2>5, <2>6, <2>7, HandKept DEF RxStep
<1>. QED  BY <1>2, <1>3 DEF Waiting

\* A packet of the backlog stays there until it is handled, but for a new join and the
\* end of the interval or of the process.
LEMMA BacklogStays ==
    ASSUME PlainMesh, TypeInv, ViaInv, [Next]_vars, NEW b \in Nodes, NEW p \in backlog[Screen(b)],
           ~ Crash(b), ~ Join(b), ~ Tick
    PROVE  p \in backlog'[Screen(b)] \/ \E t \in Threads : RxHandle(b, t) /\ hand[b][t].packet = p
<1> DEFINE m == Screen(b)
           Stays == p \in backlog'[m] \/ \E t \in Threads : RxHandle(b, t) /\ hand[b][t].packet = p
<1>1. TypeOK /\ m \in Macs /\ m[1] = b /\ backlog \in [Macs -> SUBSET Packets]
  BY ScreenFacts DEF TypeInv, TypeOK
<1> HIDE DEF m
<1>2. p \in backlog[m]  BY DEF m
<1>3. ASSUME backlog' = backlog PROVE Stays  BY <1>2, <1>3
<1>4. ASSUME NEW x \in Nodes, NEW u \in Threads, RxHandle(x, u) PROVE Stays
  <2>1. PICK type : Handle(x, u, type)
    BY <1>4 DEF RxHandle, OnHello, OnBye, OnCircuitSetup, OnCircuitTeardown, OnRouteUpdate, OnData
  <2>2. /\ Handling(x, u)
        /\ backlog' = [backlog EXCEPT ![hand[x][u].via] = @ \ {hand[x][u].packet}]
    BY <2>1 DEF Handle
  <2>3. hand[x][u].via[1] = x /\ hand[x][u].via \in Macs  BY <1>1, <2>2, InHandFacts DEF ViaInv
  <2>4. CASE hand[x][u].via = m /\ hand[x][u].packet = p
    <3>1. x = b  BY <1>1, <2>3, <2>4
    <3>. QED  BY <1>4, <2>4, <3>1
  <2>5. CASE ~ (hand[x][u].via = m /\ hand[x][u].packet = p)
    <3>1. p \in backlog'[m]  BY <1>1, <1>2, <2>2, <2>3, <2>5
    <3>. QED  BY <3>1
  <2>. QED  BY <2>4, <2>5
<1>5. ASSUME NEW x \in Nodes, Join(x) \/ Crash(x) PROVE Stays
  <2>1. x # b  BY <1>5
  <2>2. backlog'[m] = backlog[m]  BY <1>1, <1>5, <2>1 DEF Join, Crash
  <2>. QED  BY <1>2, <2>2
<1>6. ASSUME NEW x \in Nodes,
             \/ LeaveBye(x) \/ Fail(x) \/ Recover(x) \/ DiscoverHello(x) \/ AppContinue(x)
             \/ Foreign(x) \/ \E y \in unsent : SendCall(x, y)
      PROVE  backlog' = backlog
  BY <1>6 DEF LeaveBye, Fail, Recover, DiscoverHello, AppContinue, Foreign, SendCall, rxvars,
              JoinHello, LeaveStop, NoRouteError, Negotiate, SendSetup, SendData, DiscoverReturn
<1>7. ASSUME NEW x \in Nodes, NEW u \in Threads, RxTake(x, u) \/ RxEnd(x, u) \/ HelloContinue(x, u)
      PROVE  backlog' = backlog
  BY <1>7 DEF RxTake, RxEnd, HelloContinue, HelloLoop, HelloWake, HelloSend, HelloPurge, rxvars
<1>8. Silence \/ UNCHANGED vars => backlog' = backlog  BY DEF Silence, vars, rxvars
<1> HIDE DEF Stays
<1>9. Stays  BY <1>3, <1>4, <1>5, <1>6, <1>7, <1>8 DEF Next, RxStep
<1>. QED  BY <1>9 DEF Stays, m

\* The HELLO of a neighbour renews its route, whatever the route was.
LEMMA HelloRenews ==
    ASSUME TypeInv, NearInv, ForeignPackets = {}, NEW a \in Nodes, NEW b \in Nodes, NEW t \in Threads,
           RxHandle(b, t), hand[b][t].packet = HelloPacket(a)
    PROVE  routes'[b][a].age = 0
<1>1. routes \in [Nodes -> RouteTables] /\ routes[b] \in RouteTables  BY DEF TypeInv, TypeOK
<1>2. HelloPacket(a).type = "HELLO" /\ HelloPacket(a).src = a  BY PacketFacts
<1>3. OnHello(b, t)
  BY <1>2 DEF RxHandle, OnHello, OnBye, OnCircuitSetup, OnCircuitTeardown, OnRouteUpdate, OnData, Handle
<1>4. routes' = [routes EXCEPT ![b] = AddRoute(@, a, hand[b][t].via, 1)]  BY <1>2, <1>3 DEF OnHello
<1>5. routes'[b] = AddRoute(routes[b], a, hand[b][t].via, 1)  BY <1>1, <1>4
<1>6. routes[b][a] # NoEntry => routes[b][a].cost = 1  BY DEF NearInv, TablesAreNear
<1>7. routes'[b][a] = Entry(hand[b][t].via, 1)  BY <1>1, <1>5, <1>6 DEF AddRoute, RouteTables
<1>. QED  BY <1>7, EntryFacts

-----------------------------------------------------------------------------
(* What a node that stays says *)

\* A node runs and has never left.
Stays(a) == running[a] /\ joins[a] = 1

\* It has said its HELLO of this interval.
Said(a) == app[a] # "hello" /\ (hello[a][1] = "purge" \/ Purged(a))

\* Its HELLO waits at a node, and has to be handled before the interval is over.
Coming(a, b) == HelloPacket(a) \in Waiting(Screen(b))
Due(a, b)    == HelloPacket(a) \in backlog[Screen(b)]

\* Whoever stays has been there before, but for the step that it joins by.
LEMMA StaysSteps ==
    ASSUME TypeInv, [Next]_vars, NEW a \in Nodes, Stays(a)'
    PROVE  Stays(a) \/ (Join(a) /\ joins[a] = 0)
<1>1. joins[a] \in Nat /\ TypeOK  BY JoinAssumption DEF TypeInv, TypeOK, JoinAssumption
<1>2. CASE Tick  BY <1>2 DEF Tick, world, Stays
<1>3. CASE ~ Tick
  <2>1. 1 \in Threads \cup {1}  OBVIOUS
  <2>2. Join(a) \/ (joins'[a] = joins[a] /\ (running'[a] = running[a] \/ ~ running'[a]))
    BY <1>3, <2>1, NodeSteps
  <2>3. running'[a] /\ joins'[a] = 1  BY DEF Stays
  <2>4. Join(a) => joins[a] = 0
    <3>1. Join(a) => joins'[a] = joins[a] + 1  BY <1>1, JoinFacts
    <3>. QED  BY <1>1, <2>3, <3>1
  <2>5. CASE Join(a)  BY <2>4, <2>5
  <2>6. CASE joins'[a] = joins[a] /\ (running'[a] = running[a] \/ ~ running'[a])
    <3>1. joins[a] = 1  BY <2>3, <2>6
    <3>2. running[a]  BY <2>3, <2>6
    <3>. QED  BY <3>1, <3>2 DEF Stays
  <2>. QED  BY <2>2, <2>5, <2>6
<1>. QED  BY <1>2, <1>3

\* In a perfect mesh it has said it as soon as the HELLO waits at all that hear it.
LEMMA SaidSteps ==
    ASSUME PlainMesh, TypeInv, StaleInv, OutInv, [Next]_vars, ~ Tick, Perfect,
           NEW a \in Nodes, NEW b \in Nodes, <<a, b>> \in plan.links, Screen(b) \notin out,
           Stays(a), Stays(a)', Said(a)'
    PROVE  Said(a) \/ Coming(a, b)'
<1>1. TypeOK /\ joins[a] \in Nat
      /\ hello \in [Nodes -> [Threads -> {"loop", "sleep", "send", "purge", "ended"}]]
  BY JoinAssumption DEF TypeInv, TypeOK, JoinAssumption
<1>2. Screen(a) \notin out /\ OutIsCrashed  BY DEF OutInv, Stays
<1>3. Flood(a, HelloPacket(a)) => Coming(a, b)'
  <2>1. Flood(a, HelloPacket(a)) => HelloPacket(a) \in inbox'[Screen(b)]
    BY <1>1, <1>2, FloodReaches DEF Perfect
  <2>. QED  BY <2>1 DEF Coming, Waiting
<1>4. ~ Join(a) /\ ~ Crash(a)
  <2>1. Join(a) => joins'[a] = joins[a] + 1  BY <1>1, JoinFacts
  <2>2. Crash(a) => ~ running'[a]  BY DEF Crash, TypeInv, TypeOK
  <2>. QED  BY <1>1, <2>1, <2>2 DEF Stays
<1>5. CASE app[a] = "hello"
  <2>1. JoinHello(a)  BY <1>1, <1>4, <1>5, AppSteps DEF Said
  <2>. QED  BY <1>3, <2>1 DEF JoinHello
<1>6. CASE app[a] # "hello"
  <2>1. 1 \in Threads \cup {1}  OBVIOUS
  <2>2. \/ HelloContinue(a, 1)
        \/ hello'[a][1] = hello[a][1] /\ (<<a, 1>> \in due <=> <<a, 1>> \in due')
    BY <1>4, <2>1, NodeSteps
  <2>3. CASE hello'[a][1] = hello[a][1] /\ (<<a, 1>> \in due <=> <<a, 1>> \in due')
    BY <1>6, <2>3 DEF Said, Purged
  <2>4. CASE HelloContinue(a, 1)
    <3>0. 1 \in Threads
      <4>1. MaxJoins \in Nat /\ joins[a] \in 0 .. MaxJoins
        BY JoinAssumption DEF TypeInv, TypeOK, JoinAssumption
      <4>. QED  BY <4>1 DEF Stays, Threads
    <3>1. hello[a][1] \in {"sleep", "send", "purge"}  BY DEF StaleInv, Stays
    <3>2. ~ HelloLoop(a, 1)  BY <3>1 DEF HelloLoop, HelloStep
    <3>3. HelloSend(a, 1) => Coming(a, b)'  BY <1>3 DEF HelloSend
    <3>4. HelloPurge(a, 1) => Said(a)  BY <1>6 DEF HelloPurge, HelloStep, Said
    <3>5. ~ HelloWake(a, 1)
      <4>1. HelloWake(a, 1) => hello'[a][1] \in {"send", "loop"}
        BY <1>1, <3>0 DEF HelloWake, HelloStep
      <4>. QED  BY <4>1 DEF Said, Purged
    <3>. QED  BY <2>4, <3>2, <3>3, <3>4, <3>5 DEF HelloContinue
  <2>. QED  BY <2>2, <2>3, <2>4
<1>. QED  BY <1>5, <1>6

-----------------------------------------------------------------------------
(* A route is renewed before it is purged *)

Age(a, b) == routes[b][a].age

\* A HELLO thread of the node is to purge its tables in this interval.
PurgeAhead(b) == \E t \in Threads : <<b, t>> \in due \/ hello[b][t] \in {"send", "purge"}

\* At a node that has never left, the route to one that stays is new, or its HELLO
\* is on its way: not sent yet, waiting, or due in this interval.
Fresh(a, b) ==
    \/ Age(a, b) = 0
    \/ Due(a, b) /\ Age(a, b) <= 2
    \/ ~ Said(a) /\ Age(a, b) <= 1
    \/ Coming(a, b) /\ Age(a, b) <= 1

\* The node has left: its threads handle nothing, and within two intervals its HELLO
\* thread ends.  What waits is there when it returns.
Away(a, b) ==
    /\ \A t \in Threads : ~ Handling(b, t)
    /\ hello[b][1] \in {"loop", "ended"} \/ (hello[b][1] = "sleep" /\ <<b, 1>> \in due)
    /\ \/ Coming(a, b) /\ Age(a, b) <= 3
       \/ ~ Said(a) /\ Age(a, b) <= 1

LongAway(a, b) ==
    /\ \A t \in Threads : ~ Handling(b, t)
    /\ hello[b][1] = "ended"
    /\ Coming(a, b)

\* It has returned: what waited is due at once, and if the route is older than that,
\* nobody purges it in this interval.
Returned(a, b) ==
    \/ Age(a, b) = 0
    \/ Due(a, b) /\ (Age(a, b) <= 3 \/ ~ PurgeAhead(b))
    \/ ~ Said(a) /\ Age(a, b) <= 1
    \/ Coming(a, b) /\ Age(a, b) <= 2

Renewed(a, b) ==
    /\ joins[b] = 1 /\ running[b] => Fresh(a, b)
    /\ joins[b] = 1 /\ ~ running[b] => Fresh(a, b) \/ Away(a, b) \/ LongAway(a, b)
    /\ joins[b] = 2 /\ running[b] => Returned(a, b)

RouteInv ==
    \A a, b \in Nodes : Perfect /\ Stays(a) /\ routes[b][a] # NoEntry => Renewed(a, b)

MeshInv == TypeInv /\ ThreadInv /\ ViaInv /\ NearInv /\ SourceInv /\ StaleInv /\ OutInv

LEMMA RouteInit == Init => RouteInv
BY DEF Init, RouteInv, EmptyTable

\* While a route stays what it is, so does the reason why it may.
LEMMA ReasonsStay ==
    ASSUME PlainMesh, MeshInv, [Next]_vars, ~ Tick, Perfect, NEW a \in Nodes, NEW b \in Nodes,
           ~ Crash(b), Stays(a), Stays(a)', routes[b][a] # NoEntry, routes'[b][a] # NoEntry,
           Age(a, b)' # 0
    PROVE  /\ Age(a, b)' = Age(a, b)
           /\ Coming(a, b) => Coming(a, b)'
           /\ Due(a, b) /\ ~ Join(b) => Due(a, b)'
           /\ Said(a)' => Said(a) \/ Coming(a, b)'
<1>1. TypeInv /\ ThreadInv /\ ViaInv /\ NearInv /\ StaleInv /\ OutInv /\ ForeignPackets = {}
  BY DEF MeshInv, PlainMesh
<1>2. Age(a, b)' = Age(a, b)
  <2>1. RouteStep(b, a)  BY <1>1, EntrySteps
  <2>. QED  BY <2>1 DEF RouteStep, Age
<1>3. ~ \E t \in Threads : RxHandle(b, t) /\ hand[b][t].packet = HelloPacket(a)
  BY <1>1, HelloRenews DEF Age
<1>4. Coming(a, b) => Coming(a, b)'
  <2> DEFINE p == HelloPacket(a)
  <2>1. p \in Waiting(Screen(b)) =>
            p \in Waiting(Screen(b))' \/ \E t \in Threads : RxHandle(b, t) /\ hand[b][t].packet = p
    <3> HIDE DEF p
    <3>. QED  BY <1>1, ScreenFacts, WaitsOn
  <2>2. p' = p  BY DEF HelloPacket, Packet
  <2>. QED  BY <1>3, <2>1, <2>2 DEF Coming
<1>5. Due(a, b) /\ ~ Join(b) => Due(a, b)'
  <2> DEFINE p == HelloPacket(a)
  <2>1. p \in backlog[Screen(b)] /\ ~ Join(b) =>
            p \in backlog'[Screen(b)] \/ \E t \in Threads : RxHandle(b, t) /\ hand[b][t].packet = p
    <3> HIDE DEF p
    <3>. QED  BY <1>1, BacklogStays
  <2>. QED  BY <1>3, <2>1 DEF Due
<1>6. Said(a)' => Said(a) \/ Coming(a, b)'
  <2>1. <<a, b>> \in plan.links  BY <1>1 DEF NearInv, TablesAreNear
  <2>2. Screen(b) \notin out  BY <1>1 DEF OutInv
  <2>. QED  BY <1>1, <2>1, <2>2, SaidSteps
<1>. QED  BY <1>2, <1>4, <1>5, <1>6

\* What a node holds of the backlog of its adapter waits there.
LEMMA DueIsComing ==
    ASSUME PlainMesh, TypeInv, NEW a \in Nodes, NEW b \in Nodes, Due(a, b)
    PROVE  Coming(a, b)
BY ScreenFacts DEF TypeInv, TypeOK, Due, Coming

\* The steps of a node that runs, of one that has left, and of one that returns.
LEMMA RenewedSteps ==
    ASSUME PlainMesh, MeshInv, [Next]_vars, ~ Tick, Perfect, NEW a \in Nodes, NEW b \in Nodes,
           ~ Crash(b), Stays(a), Stays(a)', routes[b][a] # NoEntry, routes'[b][a] # NoEntry,
           Renewed(a, b)
    PROVE  Renewed(a, b)'
<1>1. CASE Age(a, b)' = 0  BY <1>1 DEF Renewed, Fresh, Returned
<1>2. CASE Age(a, b)' # 0
  <2>1. /\ Age(a, b)' = Age(a, b)
        /\ Coming(a, b) => Coming(a, b)'
        /\ Due(a, b) /\ ~ Join(b) => Due(a, b)'
        /\ Said(a)' => Said(a) \/ Coming(a, b)'
    BY <1>2, ReasonsStay
  <2>2. /\ TypeInv /\ TypeOK /\ ThreadInv /\ StaleInv
        /\ joins[b] \in 0 .. MaxJoins /\ MaxJoins \in Nat /\ joins[b] \in Nat
        /\ running \in [Nodes -> BOOLEAN]
        /\ hello \in [Nodes -> [Threads -> {"loop", "sleep", "send", "purge", "ended"}]]
    BY JoinAssumption DEF MeshInv, TypeInv, TypeOK, JoinAssumption
  <2>3. Age(a, b) \in Nat
    <3>1. routes[b][a] \in Entries(Macs)  BY <2>2 DEF TypeOK, RouteTables
    <3>2. StaleIntervals \in Nat  BY StaleAssumption DEF StaleAssumption
    <3>. QED  BY <3>1, <3>2 DEF Age, Entries, Ages
  <2>4. joins[b] # 0  BY <2>2 DEF StaleInv
  <2>5. Fresh(a, b) /\ ~ Join(b) => Fresh(a, b)'  BY <2>1, <2>3 DEF Fresh
  <2>6. CASE Join(b)
    <3>1. /\ joins'[b] = joins[b] + 1 /\ joins[b] + 1 \in Threads
      BY <2>2, <2>6, JoinFacts
    <3>2. joins[b] = 1 /\ joins'[b] = 2  BY <2>2, <2>4, <3>1 DEF PlainMesh, Threads
    <3>3. /\ backlog' = [m \in Macs |-> IF m[1] = b THEN inbox[m] ELSE backlog[m]]
          /\ hello' = [hello EXCEPT ![b][joins[b] + 1] = "sleep"]
          /\ due' = due
      BY <2>6 DEF Join
    <3>4. Coming(a, b) /\ (\A t \in Threads : ~ Handling(b, t)) => Due(a, b)'
      <4>1. backlog'[Screen(b)] = inbox[Screen(b)]  BY <3>3, ScreenFacts
      <4>2. ASSUME \A t \in Threads : ~ Handling(b, t) PROVE InHand(Screen(b)) = {}
        <5>1. Screen(b)[1] = b  BY ScreenFacts
        <5>. QED  BY <4>2, <5>1 DEF InHand
      <4>3. HelloPacket(a)' = HelloPacket(a)  BY DEF HelloPacket, Packet
      <4>. QED  BY <4>1, <4>2, <4>3 DEF Coming, Due, Waiting
    <3>5. hello[b][1] = "ended" => ~ PurgeAhead(b)'
      <4>1. SUFFICES ASSUME hello[b][1] = "ended", NEW t \in Threads
                     PROVE  <<b, t>> \notin due' /\ hello'[b][t] \notin {"send", "purge"}
        BY DEF PurgeAhead
      <4>2. t \in Nat /\ (t = 1 \/ t > joins[b])  BY <2>2, <3>2 DEF Threads
      <4>3. hello[b][t] = "ended"  BY <2>2, <4>1, <4>2 DEF ThreadInv
      <4>4. <<b, t>> \notin due  BY <2>2, <4>3 DEF ThreadInv
      <4>5. hello'[b][t] = IF t = joins[b] + 1 THEN "sleep" ELSE hello[b][t]
        BY <2>2, <3>1, <3>3
      <4>. QED  BY <3>3, <4>3, <4>4, <4>5
    <3>6. ~ Said(a) => ~ Said(a)' \/ Coming(a, b)'  BY <2>1
    <3>7. Due(a, b) => Coming(a, b)'  BY <2>1, <2>2, DueIsComing
    <3>8. Fresh(a, b) => Returned(a, b)'  BY <2>1, <2>3, <3>6, <3>7 DEF Fresh, Returned
    <3>9. Away(a, b) => Returned(a, b)'
      <4>1. CASE Coming(a, b) /\ Age(a, b) <= 3 /\ Away(a, b)
        BY <2>1, <3>4, <4>1 DEF Away, Returned
      <4>2. CASE ~ Said(a) /\ Age(a, b) <= 1
        BY <2>1, <2>3, <3>6, <4>2 DEF Returned
      <4>. QED  BY <4>1, <4>2 DEF Away
    <3>10. LongAway(a, b) => Returned(a, b)'  BY <3>4, <3>5 DEF LongAway, Returned
    <3>11. Fresh(a, b) \/ Away(a, b) \/ LongAway(a, b)  BY <3>2 DEF Renewed
    <3>12. Returned(a, b)'  BY <3>8, <3>9, <3>10, <3>11
    <3>. QED  BY <3>2, <3>12 DEF Renewed
  <2>7. CASE ~ Join(b)
    <3>1. 1 \in Threads /\ 1 \in Threads \cup {1}  BY <2>2, <2>4 DEF Threads
    <3>2. ASSUME NEW t \in Threads
          PROVE  /\ joins'[b] = joins[b] /\ (running'[b] = running[b] \/ ~ running'[b])
                 /\ \/ running'[b] = running[b] /\ HelloContinue(b, t)
                    \/ hello'[b][t] = hello[b][t] /\ (<<b, t>> \in due <=> <<b, t>> \in due')
      <4>1. t \in Threads \cup {1}  OBVIOUS
      <4>. QED  BY <2>2, <2>7, <4>1, NodeSteps
    <3>3. joins'[b] = joins[b] /\ (running'[b] = running[b] \/ ~ running'[b])  BY <3>1, <3>2
    <3>4. ASSUME ~ running[b], \A t \in Threads : ~ Handling(b, t)
          PROVE  \A t \in Threads : ~ Handling(b, t)'
      BY <2>2, <3>4, HandSteps
    <3>5. ASSUME ~ running[b], hello[b][1] = "ended" PROVE hello'[b][1] = "ended"
      <4>1. ~ HelloContinue(b, 1)
        BY <3>5 DEF HelloContinue, HelloLoop, HelloWake, HelloSend, HelloPurge, HelloStep
      <4>. QED  BY <3>1, <3>2, <3>5, <4>1
    <3>6. ASSUME ~ running[b],
                 hello[b][1] \in {"loop", "ended"} \/ (hello[b][1] = "sleep" /\ <<b, 1>> \in due)
          PROVE  hello'[b][1] \in {"loop", "ended"} \/ (hello'[b][1] = "sleep" /\ <<b, 1>> \in due')
      <4>1. CASE HelloContinue(b, 1)
        <5>1. HelloLoop(b, 1) \/ HelloWake(b, 1)
          BY <3>6, <4>1 DEF HelloContinue, HelloSend, HelloPurge, HelloStep
        <5>2. HelloLoop(b, 1) => hello'[b][1] = "ended"
          BY <2>2, <3>1, <3>6 DEF HelloLoop, HelloStep
        <5>3. HelloWake(b, 1) => hello'[b][1] = "loop"
          BY <2>2, <3>1, <3>6 DEF HelloWake, HelloStep
        <5>. QED  BY <5>1, <5>2, <5>3
      <4>2. CASE hello'[b][1] = hello[b][1] /\ (<<b, 1>> \in due <=> <<b, 1>> \in due')
        BY <3>6, <4>2
      <4>. QED  BY <3>1, <3>2, <4>1, <4>2
    <3>7. ASSUME running[b], ~ PurgeAhead(b) PROVE ~ PurgeAhead(b)'
      <4>1. SUFFICES ASSUME NEW t \in Threads
                     PROVE  <<b, t>> \notin due' /\ hello'[b][t] \notin {"send", "purge"}
        BY DEF PurgeAhead
      <4>2. <<b, t>> \notin due /\ hello[b][t] \notin {"send", "purge"}  BY <3>7 DEF PurgeAhead
      <4>3. HelloContinue(b, t) => hello'[b][t] = "sleep" /\ due' = due
        <5>1. HelloContinue(b, t) => HelloLoop(b, t)
          BY <4>2 DEF HelloContinue, HelloWake, HelloSend, HelloPurge, HelloStep
        <5>2. HelloLoop(b, t) => hello'[b][t] = "sleep" /\ due' = due
          BY <2>2, <3>7 DEF HelloLoop, HelloStep
        <5>. QED  BY <5>1, <5>2
      <4>. QED  BY <3>2, <4>2, <4>3
    <3>8. ~ running[b] /\ Away(a, b) => Away(a, b)'
      <4>1. SUFFICES ASSUME ~ running[b], Away(a, b) PROVE Away(a, b)'  OBVIOUS
      <4>2. \A t \in Threads : ~ Handling(b, t)'  BY <3>4, <4>1 DEF Away
      <4>3. hello'[b][1] \in {"loop", "ended"} \/ (hello'[b][1] = "sleep" /\ <<b, 1>> \in due')
        BY <3>6, <4>1 DEF Away
      <4>4. \/ Coming(a, b)' /\ Age(a, b)' <= 3
            \/ ~ Said(a)' /\ Age(a, b)' <= 1
        BY <2>1, <2>3, <4>1 DEF Away
      <4>. QED  BY <4>2, <4>3, <4>4 DEF Away
    <3>9. ~ running[b] /\ LongAway(a, b) => LongAway(a, b)'  BY <2>1, <3>4, <3>5 DEF LongAway
    <3>10. running[b] /\ Returned(a, b) => Returned(a, b)'
      <4>1. SUFFICES ASSUME running[b], Returned(a, b) PROVE Returned(a, b)'  OBVIOUS
      <4>. QED  BY <2>1, <2>3, <2>7, <3>7, <4>1 DEF Returned
    <3>11. joins'[b] = 1 /\ running'[b] => Fresh(a, b)'  BY <2>5, <2>7, <3>3 DEF Renewed
    <3>12. joins'[b] = 1 /\ ~ running'[b] => Fresh(a, b)' \/ Away(a, b)' \/ LongAway(a, b)'
      BY <2>5, <2>7, <3>3, <3>8, <3>9 DEF Renewed
    <3>13. joins'[b] = 2 /\ running'[b] => Returned(a, b)'  BY <3>3, <3>10 DEF Renewed
    <3>. QED  BY <3>11, <3>12, <3>13 DEF Renewed
  <2>. QED  BY <2>6, <2>7
<1>. QED  BY <1>1, <1>2

\* The interval ends when what was due is done, and what waits is due in the next.
LEMMA RenewedTick ==
    ASSUME PlainMesh, MeshInv, [Next]_vars, Tick, Perfect, NEW a \in Nodes, NEW b \in Nodes,
           Stays(a), routes[b][a] # NoEntry, routes'[b][a] # NoEntry, Renewed(a, b)
    PROVE  Renewed(a, b)'
<1>1. /\ TypeInv /\ TypeOK /\ StaleInv /\ OutInv
      /\ joins[b] \in Nat /\ joins[a] \in 0 .. MaxJoins /\ MaxJoins \in Nat
      /\ running \in [Nodes -> BOOLEAN]
  BY JoinAssumption DEF MeshInv, TypeInv, TypeOK, JoinAssumption
<1>2. /\ UNCHANGED <<joins, running, app, inbox, hand, hello>>
      /\ due = {} /\ due' = {d \in Nodes \X Threads : hello[d[1]][d[2]] = "sleep"}
      /\ backlog' = [m \in Macs |-> IF running[m[1]] THEN Waiting(m) ELSE {}]
      /\ \A n \in Nodes :
            /\ app[n] \in {"out", "idle", "gone"}
            /\ \A t \in Threads :
                  /\ hello[n][t] \in {"sleep", "ended"}
                  /\ ~ running[n] => hand[n][t] = Ended
            /\ running[n] /\ ReadAdapter(n) # NoAdapter => backlog[ReadAdapter(n).mac] = {}
  BY DEF Tick, world, appvars
<1>3. 1 \in Threads  BY <1>1 DEF Stays, Threads
<1>4. Said(a) /\ ~ Said(a)'
  <2>1. hello[a][1] \in {"sleep", "send", "purge"}  BY <1>1 DEF StaleInv, Stays
  <2>2. hello[a][1] = "sleep" /\ app[a] # "hello" /\ <<a, 1>> \notin due  BY <1>2, <1>3, <2>1
  <2>3. <<a, 1>> \in due'
    <3>1. <<a, 1>>[1] = a /\ <<a, 1>>[2] = 1 /\ <<a, 1>> \in Nodes \X Threads  BY <1>3
    <3>. QED  BY <1>2, <2>2, <3>1
  <2>. QED  BY <1>2, <2>2, <2>3 DEF Said, Purged
<1>5. Age(a, b) \in Nat /\ Age(a, b)' \in Nat /\ Age(a, b)' <= Age(a, b) + 1
  <2>1. StaleIntervals \in Nat  BY StaleAssumption DEF StaleAssumption
  <2>2. RouteStep(b, a)  BY <1>1, EntrySteps
  <2>3. TypeOK'  BY <1>1, TypeNext DEF TypeInv
  <2>4. Age(a, b) \in Nat
    <3>1. routes[b][a] \in Entries(Macs)  BY <1>1 DEF TypeOK, RouteTables
    <3>. QED  BY <2>1, <3>1 DEF Age, Entries, Ages
  <2>5. Age(a, b)' \in Nat
    <3>1. routes'[b][a] \in Entries(Macs)  BY <2>3 DEF TypeOK, RouteTables
    <3>. QED  BY <2>1, <3>1 DEF Age, Entries, Ages
  <2>6. Age(a, b)' = Age(a, b) \/ Age(a, b)' = Age(a, b) + 1 \/ Age(a, b)' = 0
    BY <2>2 DEF RouteStep, Aged, Age
  <2>. QED  BY <2>4, <2>5, <2>6
<1>6. Coming(a, b)' <=> Coming(a, b)
  BY <1>2 DEF Coming, Waiting, InHand, Handling, HelloPacket, Packet
<1>7. running[b] => ~ Due(a, b) /\ (Coming(a, b) => Due(a, b)')
  <2>1. Screen(b) \notin out /\ OutIsCrashed  BY <1>1 DEF OutInv
  <2>2. ReadAdapter(b) # NoAdapter /\ ReadAdapter(b).mac = Screen(b)  BY <1>1, <2>1, ReadsScreen
  <2>3. Screen(b) \in Macs /\ Screen(b)[1] = b  BY ScreenFacts
  <2>4. running[b] => backlog'[Screen(b)] = Waiting(Screen(b))  BY <1>2, <2>3
  <2>5. running[b] => backlog[Screen(b)] = {}  BY <1>2, <2>2
  <2>6. HelloPacket(a)' = HelloPacket(a)  BY DEF HelloPacket, Packet
  <2>. QED  BY <2>4, <2>5, <2>6 DEF Coming, Due
<1>8. ~ running[b] =>
          /\ \A t \in Threads : ~ Handling(b, t)'
          /\ hello'[b][1] = "ended" \/ (hello'[b][1] = "sleep" /\ <<b, 1>> \in due')
  <2>1. hello[b][1] = "sleep" => <<b, 1>> \in due'
    <3>1. <<b, 1>>[1] = b /\ <<b, 1>>[2] = 1 /\ <<b, 1>> \in Nodes \X Threads  BY <1>3
    <3>. QED  BY <1>2, <3>1
  <2>. QED  BY <1>2, <1>3, <2>1 DEF Handling
<1>9. joins[b] = 1 /\ running[b] => Fresh(a, b)'
  <2>1. SUFFICES ASSUME Fresh(a, b), running[b] PROVE Fresh(a, b)'  BY DEF Renewed
  <2>2. Age(a, b) = 0 \/ (Coming(a, b) /\ Age(a, b) <= 1)  BY <1>4, <1>7, <2>1 DEF Fresh
  <2>3. CASE Age(a, b) = 0
    <3>1. Age(a, b)' <= 1  BY <1>5, <2>3
    <3>. QED  BY <1>4, <3>1 DEF Fresh
  <2>4. CASE Coming(a, b) /\ Age(a, b) <= 1
    <3>1. Age(a, b)' <= 2  BY <1>5, <2>4
    <3>. QED  BY <1>7, <2>1, <2>4, <3>1 DEF Fresh
  <2>. QED  BY <2>2, <2>3, <2>4
<1>10. joins[b] = 1 /\ ~ running[b] => Away(a, b)' \/ LongAway(a, b)'
  <2>1. SUFFICES ASSUME Fresh(a, b) \/ Away(a, b) \/ LongAway(a, b), ~ running[b]
                 PROVE  Away(a, b)' \/ LongAway(a, b)'
    BY DEF Renewed
  <2>2. CASE Fresh(a, b)
    <3>1. Age(a, b) = 0 \/ (Coming(a, b) /\ Age(a, b) <= 2)
      BY <1>1, <1>4, <1>5, <2>2, DueIsComing DEF Fresh
    <3>2. \/ ~ Said(a)' /\ Age(a, b)' <= 1
          \/ Coming(a, b)' /\ Age(a, b)' <= 3
      BY <1>4, <1>5, <1>6, <3>1
    <3>. QED  BY <1>8, <2>1, <3>2 DEF Away
  <2>3. CASE Away(a, b) \/ LongAway(a, b)
    <3>1. hello[b][1] = "ended"  BY <1>2, <1>3, <2>3 DEF Away, LongAway
    <3>2. Coming(a, b)'  BY <1>4, <1>6, <2>3 DEF Away, LongAway
    <3>. QED  BY <1>2, <1>8, <2>1, <3>1, <3>2 DEF LongAway
  <2>. QED  BY <2>1, <2>2, <2>3
<1>11. joins[b] = 2 /\ running[b] => Returned(a, b)'
  <2>1. SUFFICES ASSUME Returned(a, b), running[b] PROVE Returned(a, b)'  BY DEF Renewed
  <2>2. Age(a, b) = 0 \/ (Coming(a, b) /\ Age(a, b) <= 2)  BY <1>4, <1>7, <2>1 DEF Returned
  <2>3. CASE Age(a, b) = 0
    <3>1. Age(a, b)' <= 1  BY <1>5, <2>3
    <3>. QED  BY <1>4, <3>1 DEF Returned
  <2>4. CASE Coming(a, b) /\ Age(a, b) <= 2
    <3>1. Age(a, b)' <= 3  BY <1>5, <2>4
    <3>. QED  BY <1>7, <2>1, <2>4, <3>1 DEF Returned
  <2>. QED  BY <2>2, <2>3, <2>4
<1>. QED  BY <1>2, <1>9, <1>10, <1>11 DEF Renewed

LEMMA RouteNext ==
    ASSUME PlainMesh
    PROVE  MeshInv /\ RouteInv /\ [Next]_vars => RouteInv'
<1> SUFFICES ASSUME MeshInv, RouteInv, [Next]_vars, Perfect, NEW a \in Nodes, NEW b \in Nodes,
                    Stays(a)', routes'[b][a] # NoEntry
             PROVE  Renewed(a, b)'
  <2>1. [Next]_vars /\ Perfect' => Perfect  BY PlanStays DEF Perfect
  <2>. QED  BY <2>1 DEF RouteInv
<1>1. TypeInv /\ TypeOK /\ RouteStep(b, a)  BY EntrySteps DEF MeshInv, TypeInv
<1>2. ~ Crash(b)
  <2>1. Crash(b) => routes'[b] = EmptyTable(Nodes)  BY <1>1 DEF Crash, TypeOK
  <2>. QED  BY <2>1 DEF EmptyTable
<1>3. CASE ~ Stays(a)
  <2>1. Join(a) /\ joins[a] = 0  BY <1>1, <1>3, StaysSteps
  <2>2. routes' = routes  BY <2>1 DEF Join, memory
  <2>3. routes[b][a] = NoEntry  BY <2>1 DEF MeshInv, SourceInv, PlainMesh
  <2>. QED  BY <2>2, <2>3
<1>4. CASE Stays(a) /\ routes[b][a] = NoEntry
  <2>1. Age(a, b)' = 0  BY <1>1, <1>4 DEF RouteStep, Aged, Age
  <2>. QED  BY <2>1 DEF Renewed, Fresh, Returned
<1>5. CASE Stays(a) /\ routes[b][a] # NoEntry
  <2>1. Renewed(a, b)  BY <1>5 DEF RouteInv
  <2>2. CASE Tick  BY <1>5, <2>1, <2>2, RenewedTick
  <2>3. CASE ~ Tick  BY <1>2, <1>5, <2>1, <2>3, RenewedSteps
  <2>. QED  BY <2>2, <2>3
<1>. QED  BY <1>3, <1>4, <1>5

\* An entry goes with the process, by the BYE of the node that it names, or by the
\* purge when it is too old.
LEMMA DropSteps ==
    ASSUME TypeInv, NearInv, ForeignPackets = {}, [Next]_vars, NEW n \in Nodes, NEW d \in Nodes,
           routes[n][d] # NoEntry, routes'[n][d] = NoEntry
    PROVE  \/ Crash(n)
           \/ \E t \in Threads : OnBye(n, t) /\ hand[n][t].packet.src = d
           \/ \E t \in Threads : HelloPurge(n, t) /\ Age(d, n) > StaleIntervals
<1>1. /\ TypeOK /\ routes \in [Nodes -> RouteTables] /\ routes[n] \in RouteTables
      /\ DOMAIN routes[n] = Nodes
  BY DEF TypeInv, TypeOK, RouteTables
<1>2. ASSUME NEW x \in Nodes, x # n, NEW table, routes' = [routes EXCEPT ![x] = table] PROVE FALSE
  BY <1>1, <1>2
<1>3. ~ UNCHANGED routes  OBVIOUS
<1>4. ASSUME Tick PROVE FALSE
  <2>1. routes'[n] = Older(routes[n])  BY <1>4 DEF Tick
  <2>2. StaleIntervals \in Nat /\ routes[n][d] \in Entries(Macs)
    BY <1>1, StaleAssumption DEF StaleAssumption, RouteTables
  <2>3. routes[n][d].age < StaleIntervals + 2
            => [routes[n][d] EXCEPT !.age = @ + 1] \in Entries(Macs)
    BY <2>2 DEF Entries, Ages
  <2>. QED  BY <1>1, <2>1, <2>2, <2>3, EntryAssumption DEF Older, EntryAssumption
<1>5. ASSUME NEW x \in Nodes, NEW t \in Threads, OnHello(x, t) PROVE FALSE
  <2> DEFINE src == hand[x][t].packet.src
             via == hand[x][t].via
  <2>1. routes' = [routes EXCEPT ![x] = AddRoute(@, src, via, 1)]  BY <1>5 DEF OnHello
  <2>2. x = n  BY <1>2, <2>1
  <2>3. routes'[n] = AddRoute(routes[n], src, via, 1)  BY <1>1, <2>1, <2>2
  <2> HIDE DEF src, via
  <2>4. routes'[n][d] = Entry(via, 1)  BY <1>1, <2>3 DEF AddRoute
  <2>5. via \in Macs
    <3>1. Handling(x, t)  BY <1>5 DEF OnHello, Handle
    <3>. QED  BY <1>1, <3>1, InHandFacts DEF via
  <2>6. Entry(via, 1) \in Entries(Macs)
    BY <2>5, StaleAssumption DEF StaleAssumption, Entry, Entries, Ages
  <2>. QED  BY <2>4, <2>6, EntryAssumption DEF EntryAssumption
<1>6. ASSUME NEW x \in Nodes, NEW t \in Threads PROVE ~ OnRouteUpdate(x, t)
  <2>1. OnRouteUpdate(x, t) => Handling(x, t) /\ hand[x][t].packet.type = "ROUTE_UPDATE"
    BY DEF OnRouteUpdate, Handle
  <2>. QED  BY <2>1 DEF NearInv, AirIsNear, Near
<1>7. ASSUME NEW x \in Nodes, NEW t \in Threads, OnBye(x, t)
      PROVE  x = n /\ hand[x][t].packet.src = d
  <2> DEFINE src == hand[x][t].packet.src
  <2>1. routes' = [routes EXCEPT ![x] = Remove(@, src)]  BY <1>7 DEF OnBye
  <2>2. x = n  BY <1>2, <2>1
  <2>3. routes'[n] = Remove(routes[n], src)  BY <1>1, <2>1, <2>2
  <2> HIDE DEF src
  <2>4. d = src  BY <1>1, <2>3 DEF Remove
  <2>. QED  BY <2>2, <2>4 DEF src
<1>8. ASSUME NEW x \in Nodes, NEW t \in Threads, HelloPurge(x, t)
      PROVE  x = n /\ Age(d, n) > StaleIntervals
  <2>1. routes' = [routes EXCEPT ![x] = Purge(@, StaleIntervals)]  BY <1>8 DEF HelloPurge
  <2>2. x = n  BY <1>2, <2>1
  <2>3. routes'[n] = Purge(routes[n], StaleIntervals)  BY <1>1, <2>1, <2>2
  <2>. QED  BY <1>1, <2>2, <2>3 DEF Purge, Age
<1>9. ASSUME NEW x \in Nodes, Crash(x) PROVE x = n
  <2>1. routes' = [routes EXCEPT ![x] = EmptyTable(Nodes)]  BY <1>9 DEF Crash
  <2>. QED  BY <1>2, <2>1
<1>. QED  BY <1>3, <1>4, <1>5, <1>6, <1>7, <1>8, <1>9, TableWriters

\* A node that keeps running is not dropped by a neighbour that hears it, neither
\* by the purge nor by a BYE, whatever order HELLOs, replies, purges and the ends of
\* the intervals come in, and whether the neighbour was there all the time or has
\* left, with threads of before that still end, and returned (HELLO_INTERVAL_S,
\* STALE_ROUTE_S, purge_stale, _on_bye).
THEOREM LiveRouteKeptCorrect == ASSUME PlainMesh PROVE Spec => LiveRouteKept
<1>1. MeshInv /\ RouteInv /\ [Next]_vars =>
          \A a, b \in Nodes :
              (Perfect /\ <<a, b>> \in plan.links /\ Steady(a) /\ Steady(a)' /\ running'[b]
               /\ routes[b][a] # NoEntry)
                  => routes'[b][a] # NoEntry
  <2> SUFFICES ASSUME MeshInv, RouteInv, [Next]_vars, NEW a \in Nodes, NEW b \in Nodes, Perfect,
                      Steady(a), running'[b], routes[b][a] # NoEntry, routes'[b][a] = NoEntry
               PROVE  FALSE
    OBVIOUS
  <2>1. /\ TypeInv /\ TypeOK /\ NearInv /\ ForeignPackets = {} /\ StaleIntervals \in Nat
        /\ StaleIntervals >= 3 /\ running \in [Nodes -> BOOLEAN]
        /\ joins[b] \in 0 .. MaxJoins /\ MaxJoins \in Nat /\ MaxJoins <= 2
    BY StaleAssumption, JoinAssumption
    DEF MeshInv, TypeInv, TypeOK, PlainMesh, StaleAssumption, JoinAssumption
  <2>2. Stays(a)  BY DEF Steady, Stays
  <2>3. ~ Crash(b)
    <3>1. Crash(b) => ~ running'[b]  BY <2>1 DEF Crash
    <3>. QED  BY <3>1
  <2>4. ASSUME NEW t \in Threads, OnBye(b, t), hand[b][t].packet.src = a PROVE FALSE
    <3>1. Handling(b, t) /\ hand[b][t].packet.type = "BYE"  BY <2>4 DEF OnBye, Handle
    <3>2. hand[b][t].via \in Macs /\ hand[b][t].via[1] = b
      BY <2>1, <3>1, InHandFacts DEF MeshInv, ViaInv
    <3>3. hand[b][t].packet \in Waiting(hand[b][t].via)  BY <3>1, <3>2 DEF Waiting, InHand
    <3>. QED  BY <2>4, <3>1, <3>2, <3>3 DEF Steady
  <2>5. ASSUME NEW t \in Threads, HelloPurge(b, t), Age(a, b) > StaleIntervals PROVE FALSE
    <3>1. Age(a, b) \in Nat
      <4>1. routes[b][a] \in Entries(Macs)  BY <2>1 DEF TypeOK, RouteTables
      <4>. QED  BY <2>1, <4>1 DEF Age, Entries, Ages
    <3>2. running[b] /\ hello[b][t] = "purge"  BY <2>5 DEF HelloPurge, HelloStep
    <3>3. joins[b] = 1 \/ joins[b] = 2
      <4>1. joins[b] # 0  BY DEF MeshInv, StaleInv
      <4>. QED  BY <2>1, <4>1
    <3>4. Fresh(a, b) \/ Returned(a, b)  BY <2>2, <3>2, <3>3 DEF RouteInv, Renewed
    <3>5. PurgeAhead(b)  BY <3>2 DEF PurgeAhead
    <3>6. Age(a, b) <= 3  BY <3>1, <3>4, <3>5 DEF Fresh, Returned
    <3>. QED  BY <2>1, <2>5, <3>1, <3>6
  <2>. QED  BY <2>1, <2>3, <2>4, <2>5, DropSteps
<1>2. Init => MeshInv
  BY TypeInit, ThreadInit, ViaInit, NearInit, SourceInit, StaleInit, OutInit DEF MeshInv
<1>3. MeshInv /\ [Next]_vars => MeshInv'
  BY TypeNext, ThreadNext, ViaNext, NearNext, SourceNext, StaleNext, OutNext DEF MeshInv
<1>. QED  BY <1>1, <1>2, <1>3, RouteInit, RouteNext, PTL DEF Spec, LiveRouteKept

-----------------------------------------------------------------------------
(* Messages on their way *)

\* Every node has a screen, and its selector has the policy it is made with.
ScreensFirst ==
    /\ Policy = "PREFER_QR"
    /\ \A n \in Nodes : \E k \in DOMAIN Adapters[n] : Adapters[n][k].type = "QR_LIGHT"

\* While all adapters are available, such a node sends on its first screen, whatever
\* the MAC, and reads the same one.
LEMMA FirstScreen ==
    ASSUME ScreensFirst, TypeOK, out = {}, NEW n \in Nodes
    PROVE  /\ ReadAdapter(n) # NoAdapter
           /\ \A mac : SelectFor(n, mac) = ReadAdapter(n)
           /\ ReadAdapter(n).type = "QR_LIGHT"
           /\ ReadAdapter(n).mac \in Macs /\ ReadAdapter(n).mac[1] = n
           /\ Adapters[n][ReadAdapter(n).mac[2]].type = "QR_LIGHT"
<1> DEFINE pool  == PoolWithout(n, {})
           first == FirstOfType(pool, DOMAIN pool, "QR_LIGHT")
<1>1. DOMAIN pool = DOMAIN Adapters[n] /\ DOMAIN pool \subseteq Nat
  BY AdaptersAssumption DEF AdaptersAssumption, PoolWithout
<1>2. ASSUME NEW k \in DOMAIN pool
      PROVE  /\ pool[k].mac = <<n, k>> /\ pool[k].up
             /\ pool[k].type = Adapters[n][k].type
             /\ <<n, k>> \in Macs /\ pool[k] # NoAdapter
  <2> DEFINE kinds == [type : AdapterTypes, cost : Nat]
             own   == Adapters[n]
             a     == [mac |-> <<n, k>>, type |-> own[k].type, cost |-> own[k].cost, up |-> TRUE]
  <2>1. pool[k] = a  BY <1>1 DEF PoolWithout
  <2>2. <<n, k>> \in Macs  BY <1>1 DEF Macs
  <2>3. own[k] \in kinds
    <3>1. own \in Seq(kinds) /\ k \in DOMAIN own
      BY <1>1, AdaptersAssumption DEF AdaptersAssumption
    <3> HIDE DEF kinds, own
    <3>. QED  BY <3>1
  <2>4. a \in [mac : Macs, type : AdapterTypes, cost : Nat, up : BOOLEAN]
    <3> HIDE DEF own
    <3>. QED  BY <2>2, <2>3
  <2>5. a # NoAdapter  BY <2>4, NoAdapterAssumption DEF NoAdapterAssumption
  <2>. QED  BY <2>1, <2>2, <2>5
<1> HIDE DEF pool
<1>3. \E k \in DOMAIN pool : pool[k].type = "QR_LIGHT"  BY <1>1, <1>2 DEF ScreensFirst
<1>4. PICK k \in DOMAIN pool : first = pool[k] /\ pool[k].type = "QR_LIGHT"
  BY <1>1, <1>3, FirstOfTypeFacts
<1>5. first # NoAdapter  BY <1>2, <1>4
<1> HIDE DEF first
<1>6. Available(pool) = DOMAIN pool /\ DOMAIN pool # {}  BY <1>2, <1>3 DEF Available
<1>7. Select(pool, Policy, {}, BroadcastMac) = first
  BY <1>6 DEF Select, QrRequired, first
<1>8. Select(pool, Policy, {}, Broadcast) = first
  <2>1. ~ QrRequired(Broadcast, {})  BY IdAssumption DEF IdAssumption, QrRequired
  <2>2. Select(pool, Policy, {}, Broadcast) = ApplyPolicy(pool, DOMAIN pool, "PREFER_QR")
    BY <1>6, <2>1 DEF Select, ScreensFirst
  <2>3. ApplyPolicy(pool, DOMAIN pool, "PREFER_QR") = Or(first, LowestCost(pool, DOMAIN pool))
    BY DEF ApplyPolicy, first
  <2>. QED  BY <1>5, <2>2, <2>3 DEF Or
<1>9. selected[n].ordinary = first /\ selected[n].broadcast = first
  BY <1>7, <1>8 DEF TypeOK, SelectedWithout, pool
<1>10. first.mac = <<n, k>> /\ first.type = "QR_LIGHT"  BY <1>2, <1>4
<1>11. <<n, k>> \in Macs /\ Adapters[n][k].type = "QR_LIGHT"  BY <1>2, <1>4
<1>. QED  BY <1>5, <1>9, <1>10, <1>11 DEF ReadAdapter, SelectFor

\* No adapter is ever away.
LEMMA OutStays ==
    ASSUME TypeOK, [Next]_vars, plan.outages = 0, plan.crashers = {}, out = {}
    PROVE  out' = {}
<1>1. \A n \in Nodes : ~ Crash(n)  BY DEF Crash
<1>. QED  BY <1>1, OutSteps

\* Only send_anonymous sends user data.
LEMMA SentSteps ==
    ASSUME [Next]_vars
    PROVE  sent' = sent \/ \E n \in Nodes : SendData(n)
<1>1. ASSUME NEW x \in Nodes,
             \/ Join(x) \/ Crash(x) \/ LeaveBye(x) \/ Fail(x) \/ Recover(x) \/ DiscoverHello(x)
             \/ JoinHello(x) \/ LeaveStop(x) \/ NoRouteError(x) \/ Negotiate(x) \/ SendSetup(x)
             \/ DiscoverReturn(x) \/ Foreign(x) \/ \E m \in unsent : SendCall(x, m)
      PROVE  sent' = sent
  <2>1. CASE Join(x) \/ Crash(x) \/ LeaveBye(x) \/ Fail(x) \/ Recover(x) \/ DiscoverHello(x)
    BY <2>1 DEF Join, Crash, LeaveBye, Fail, Recover, DiscoverHello, appvars
  <2>2. CASE JoinHello(x) \/ LeaveStop(x) \/ NoRouteError(x) \/ Negotiate(x) \/ SendSetup(x)
    BY <2>2 DEF JoinHello, LeaveStop, NoRouteError, Negotiate, SendSetup
  <2>3. CASE DiscoverReturn(x) \/ Foreign(x) \/ \E m \in unsent : SendCall(x, m)
    BY <2>3 DEF DiscoverReturn, Foreign, SendCall, appvars
  <2>. QED  BY <1>1, <2>1, <2>2, <2>3
<1>2. ASSUME NEW x \in Nodes, NEW t \in Threads, RxStep(x, t) \/ HelloContinue(x, t)
      PROVE  sent' = sent
  <2>1. CASE RxHandle(x, t)
    <3>1. \E type : Handle(x, t, type)
      BY <2>1 DEF RxHandle, OnHello, OnBye, OnCircuitSetup, OnCircuitTeardown, OnRouteUpdate, OnData
    <3>. QED  BY <3>1 DEF Handle, appvars
  <2>2. CASE RxTake(x, t) \/ RxEnd(x, t)  BY <2>2 DEF RxTake, RxEnd, appvars
  <2>3. CASE HelloContinue(x, t)
    BY <2>3 DEF HelloContinue, HelloLoop, HelloWake, HelloSend, HelloPurge, appvars
  <2>. QED  BY <1>2, <2>1, <2>2, <2>3 DEF RxStep
<1>3. Tick \/ Silence \/ UNCHANGED vars => sent' = sent  BY DEF Tick, Silence, vars, appvars
<1>. QED  BY <1>1, <1>2, <1>3 DEF Next, AppContinue

\* What an application was given it keeps.
LEMMA DeliveredGrows ==
    ASSUME TypeOK, [Next]_vars, NEW n \in Nodes
    PROVE  delivered[n] \subseteq delivered'[n]
<1> DEFINE Grows == delivered[n] \subseteq delivered'[n]
<1>1. delivered' = delivered => Grows  OBVIOUS
<1>2. ASSUME NEW x \in Nodes,
             \/ Join(x) \/ Crash(x) \/ LeaveBye(x) \/ Fail(x) \/ Recover(x) \/ DiscoverHello(x)
             \/ AppContinue(x) \/ Foreign(x) \/ \E m \in unsent : SendCall(x, m)
      PROVE  delivered' = delivered
  <2>1. CASE Join(x) \/ Crash(x) \/ LeaveBye(x) \/ Fail(x) \/ Recover(x) \/ DiscoverHello(x)
    BY <2>1 DEF Join, Crash, LeaveBye, Fail, Recover, DiscoverHello, rxvars
  <2>2. CASE AppContinue(x)
    BY <2>2 DEF AppContinue, JoinHello, LeaveStop, NoRouteError, Negotiate, SendSetup, SendData,
                DiscoverReturn, rxvars
  <2>3. CASE Foreign(x) \/ \E m \in unsent : SendCall(x, m)  BY <2>3 DEF Foreign, SendCall, rxvars
  <2>. QED  BY <1>2, <2>1, <2>2, <2>3
<1>3. ASSUME NEW x \in Nodes, NEW pkt, NEW table, RoutePacket(x, pkt, table) PROVE Grows
  <2>1. delivered' = delivered \/ Deliver(x, pkt)  BY <1>3 DEF RoutePacket, ForwardCircuit
  <2>2. Deliver(x, pkt) => Grows  BY DEF Deliver, TypeOK
  <2> HIDE DEF Grows
  <2>. QED  BY <1>1, <2>1, <2>2
<1>4. ASSUME NEW x \in Nodes, NEW t \in Threads, RxHandle(x, t) PROVE Grows
  <2>1. CASE OnHello(x, t) \/ OnBye(x, t) \/ OnCircuitSetup(x, t) \/ OnRouteUpdate(x, t)
    BY <1>1, <2>1 DEF OnHello, OnBye, OnCircuitSetup, OnRouteUpdate
  <2>2. CASE OnCircuitTeardown(x, t)
    <3>1. delivered' = delivered \/ \E pkt, table : RoutePacket(x, pkt, table)
      BY <2>2 DEF OnCircuitTeardown
    <3> HIDE DEF Grows
    <3>. QED  BY <1>1, <1>3, <3>1
  <2>3. CASE OnData(x, t)
    <3>1. \E pkt, table : RoutePacket(x, pkt, table)  BY <2>3 DEF OnData
    <3> HIDE DEF Grows
    <3>. QED  BY <1>3, <3>1
  <2> HIDE DEF Grows
  <2>. QED  BY <1>4, <2>1, <2>2, <2>3 DEF RxHandle
<1>5. ASSUME NEW x \in Nodes, NEW t \in Threads, RxTake(x, t) \/ RxEnd(x, t) \/ HelloContinue(x, t)
      PROVE  delivered' = delivered
  BY <1>5 DEF RxTake, RxEnd, HelloContinue, HelloLoop, HelloWake, HelloSend, HelloPurge, rxvars
<1>6. Tick \/ Silence \/ UNCHANGED vars => delivered' = delivered  BY DEF Tick, Silence, vars, rxvars
<1> HIDE DEF Grows
<1>7. Grows  BY <1>1, <1>2, <1>4, <1>5, <1>6 DEF Next, RxStep
<1>. QED  BY <1>7 DEF Grows

\* A node sends the messages that its own application gave it.
Calling(n) == app[n] \in {"negotiate", "setup", "data"}
SenderInv  == \A n \in Nodes : Calling(n) => sending[n].from = n

LEMMA CallSteps ==
    ASSUME TypeOK, [Next]_vars, NEW n \in Nodes, Calling(n)'
    PROVE  \/ Calling(n) /\ sending'[n] = sending[n]
           \/ sending'[n].from = n
<1>1. /\ sending \in [Nodes -> Messages \cup {NoMessage}]
      /\ app \in [Nodes -> {"out", "hello", "idle", "negotiate", "setup", "data", "window", "stop", "gone"}]
  BY DEF TypeOK
<1> DEFINE Same == Calling(n) /\ sending'[n] = sending[n]
<1>2. UNCHANGED <<app, sending>> => Same  BY DEF Calling
<1>3. ASSUME NEW x \in Nodes, NEW to, app' = [app EXCEPT ![x] = to],
             to \notin {"negotiate", "setup", "data"},
             sending' = sending \/ sending' = [sending EXCEPT ![x] = NoMessage]
      PROVE  Same
  <2>1. x # n  BY <1>1, <1>3 DEF Calling
  <2>. QED  BY <1>1, <1>3, <2>1 DEF Calling
<1>4. ASSUME NEW x \in Nodes,
             \/ Join(x) \/ JoinHello(x) \/ LeaveBye(x) \/ LeaveStop(x) \/ Crash(x) \/ NoRouteError(x)
             \/ SendData(x) \/ DiscoverHello(x) \/ DiscoverReturn(x)
      PROVE  Same
  <2>1. /\ \E to \in {"hello", "idle", "stop", "gone", "window"} : app' = [app EXCEPT ![x] = to]
        /\ sending' = sending \/ sending' = [sending EXCEPT ![x] = NoMessage]
    BY <1>4 DEF Join, JoinHello, LeaveBye, LeaveStop, Crash, NoRouteError, SendData, DiscoverHello,
                DiscoverReturn, AppStep
  <2> HIDE DEF Same
  <2>. QED  BY <1>3, <2>1
<1>5. ASSUME NEW x \in Nodes, Negotiate(x) \/ SendSetup(x) PROVE Same
  <2>1. app[x] \in {"negotiate", "setup"} /\ sending' = sending /\ \E to : app' = [app EXCEPT ![x] = to]
    BY <1>5 DEF Negotiate, SendSetup, AppStep
  <2>. QED  BY <1>1, <2>1 DEF Calling
<1>6. ASSUME NEW x \in Nodes, NEW m \in unsent, SendCall(x, m) PROVE Same \/ sending'[n].from = n
  <2>1. /\ m.from = x /\ sending' = [sending EXCEPT ![x] = m]
        /\ \E to : app' = [app EXCEPT ![x] = to]
    BY <1>6 DEF SendCall, AppStep
  <2>2. CASE x = n  BY <1>1, <2>1, <2>2
  <2>3. CASE x # n  BY <1>1, <2>1, <2>3 DEF Calling
  <2>. QED  BY <2>2, <2>3
<1>7. ASSUME NEW x \in Nodes, Fail(x) \/ Recover(x) \/ Foreign(x) PROVE UNCHANGED <<app, sending>>
  BY <1>7 DEF Fail, Recover, Foreign, appvars
<1>8. ASSUME NEW x \in Nodes, NEW t \in Threads, RxStep(x, t) \/ HelloContinue(x, t)
      PROVE  UNCHANGED <<app, sending>>
  <2>1. CASE RxHandle(x, t)
    <3>1. \E type : Handle(x, t, type)
      BY <2>1 DEF RxHandle, OnHello, OnBye, OnCircuitSetup, OnCircuitTeardown, OnRouteUpdate, OnData
    <3>. QED  BY <3>1 DEF Handle, appvars
  <2>2. CASE RxTake(x, t) \/ RxEnd(x, t)  BY <2>2 DEF RxTake, RxEnd, appvars
  <2>3. CASE HelloContinue(x, t)
    BY <2>3 DEF HelloContinue, HelloLoop, HelloWake, HelloSend, HelloPurge, appvars
  <2>. QED  BY <1>8, <2>1, <2>2, <2>3 DEF RxStep
<1>9. Tick \/ Silence \/ UNCHANGED vars => UNCHANGED <<app, sending>>
  BY DEF Tick, Silence, vars, appvars
<1> HIDE DEF Same
<1>10. Same \/ sending'[n].from = n
  BY <1>2, <1>4, <1>5, <1>6, <1>7, <1>8, <1>9 DEF Next, AppContinue
<1>. QED  BY <1>10 DEF Same

LEMMA SenderInit == Init => SenderInv
BY DEF Init, SenderInv, Calling

LEMMA SenderNext == TypeInv /\ SenderInv /\ [Next]_vars => SenderInv'
BY CallSteps DEF TypeInv, SenderInv, Calling

OnItsWay(m) ==
    \E pkt \in Waiting(ReadAdapter(m.to).mac) :
        pkt.type = "DATA" /\ pkt.dst = m.to /\ pkt.body = m

\* What SentIsKept says, and that no adapter is away.
KeptInv ==
    Perfect /\ plan.crashers = {} =>
        /\ out = {}
        /\ \A m \in sent :
              <<m.from, m.to>> \in plan.links => m \in delivered[m.to] \/ OnItsWay(m)

\* User data waits at once at its destination, if that hears the sender.
LEMMA DataArrives ==
    ASSUME ScreensFirst, TypeInv, ~ Lossy, out = {}, NEW n \in Nodes, NEW m \in Messages,
           SendData(n), m = sending[n], <<n, m.to>> \in plan.links
    PROVE  OnItsWay(m)'
<1> DEFINE pkt   == DataPacket(m, circuit[n])
           mac   == ReadAdapter(m.to).mac
           hears == Hears(n, "QR_LIGHT")
<1>1. TypeOK /\ m.to \in Nodes  BY MessageAssumption DEF TypeInv, MessageAssumption
<1>2. pkt.type = "DATA" /\ pkt.dst = m.to /\ pkt.body = m  BY DEF DataPacket, Packet
<1>3. mac \in Macs /\ mac[1] = m.to /\ Adapters[mac[1]][mac[2]].type = "QR_LIGHT"
  BY <1>1, FirstScreen
<1> HIDE DEF pkt, mac
<1>4. mac \in hears  BY <1>3 DEF Hears
<1>5. SendOn(n, ReadAdapter(n), pkt)
  <2>1. SendOn(n, SelectFor(n, ResolveMac(n, pkt.dst)), pkt)
    BY DEF SendData, SendPacket, SendViaMac, pkt
  <2>. QED  BY <1>1, <2>1, FirstScreen
<1>6. inbox' = [k \in Macs |-> IF k \in hears THEN inbox[k] \cup {pkt} ELSE inbox[k]]
  BY <1>1, <1>5, FirstScreen DEF SendOn
<1>7. pkt \in inbox'[mac]  BY <1>3, <1>4, <1>6
<1>8. mac' = mac
  <2>1. selected' = selected  BY DEF SendData, world
  <2>. QED  BY <2>1 DEF ReadAdapter, mac
<1>9. pkt \in Waiting(mac)'  BY <1>7, <1>8 DEF Waiting
<1>10. \A p : p \in Waiting(ReadAdapter(m.to).mac)' /\ p.type = "DATA" /\ p.dst = m.to /\ p.body = m
                 => OnItsWay(m)'
  BY DEF OnItsWay
<1> HIDE DEF Waiting
<1>. QED  BY <1>2, <1>9, <1>10 DEF mac

\* Its destination takes it for its own, whatever its circuit and its TTL.
LEMMA DataIsTaken ==
    ASSUME TypeInv, NEW n \in Nodes, NEW t \in Threads, RxHandle(n, t),
           hand[n][t].packet.type = "DATA", hand[n][t].packet.dst = n
    PROVE  hand[n][t].packet.body \in delivered'[n]
<1>1. OnData(n, t)
  BY DEF RxHandle, OnHello, OnBye, OnCircuitSetup, OnCircuitTeardown, OnRouteUpdate, Handle
<1>2. Deliver(n, hand[n][t].packet)  BY <1>1 DEF OnData, RoutePacket
<1>. QED  BY <1>2 DEF Deliver, TypeInv, TypeOK

\* So what is on its way stays there until it is delivered.
LEMMA OnTheWayStays ==
    ASSUME ScreensFirst, TypeInv, ThreadInv, [Next]_vars, TypeOK', plan.crashers = {},
           out = {}, out' = {}, NEW m \in Messages, OnItsWay(m)
    PROVE  m \in delivered'[m.to] \/ OnItsWay(m)'
<1>1. TypeOK /\ m.to \in Nodes /\ ~ Crash(m.to)
  BY MessageAssumption DEF TypeInv, MessageAssumption, Crash
<1>2. PICK mac \in Macs : mac = ReadAdapter(m.to).mac /\ mac[1] = m.to  BY <1>1, FirstScreen
<1>3. ReadAdapter(m.to)' = ReadAdapter(m.to)  BY DEF TypeInv, TypeOK, ReadAdapter
<1>4. PICK pkt \in Waiting(mac) : pkt.type = "DATA" /\ pkt.dst = m.to /\ pkt.body = m
  BY <1>2 DEF OnItsWay
<1>5. pkt \in Waiting(mac)' \/ \E t \in Threads : RxHandle(m.to, t) /\ hand[m.to][t].packet = pkt
  BY <1>1, <1>2, WaitsOn
<1>6. CASE pkt \in Waiting(mac)'
  <2>1. mac = ReadAdapter(m.to).mac'  BY <1>2, <1>3
  <2> HIDE DEF Waiting
  <2>. QED  BY <1>4, <1>6, <2>1 DEF OnItsWay
<1>7. CASE \E t \in Threads : RxHandle(m.to, t) /\ hand[m.to][t].packet = pkt
  BY <1>1, <1>4, <1>7, DataIsTaken
<1>. QED  BY <1>5, <1>6, <1>7

LEMMA KeptInit == Init => KeptInv
BY DEF Init, KeptInv

LEMMA KeptNext ==
    ASSUME ScreensFirst
    PROVE  TypeInv /\ ThreadInv /\ SenderInv /\ KeptInv /\ [Next]_vars => KeptInv'
<1> SUFFICES ASSUME TypeInv, ThreadInv, SenderInv, KeptInv, [Next]_vars, Perfect, plan.crashers = {}
             PROVE  /\ out' = {}
                    /\ \A m \in sent' : <<m.from, m.to>> \in plan.links =>
                          m \in delivered'[m.to] \/ OnItsWay(m)'
  BY PlanStays DEF KeptInv, Perfect
<1>1. /\ TypeOK /\ TypeOK' /\ sent \subseteq Messages /\ sent' \subseteq Messages /\ out = {}
      /\ plan.outages = 0 /\ ~ Lossy
  BY TypeNext DEF TypeInv, TypeOK, KeptInv, Perfect
<1>2. out' = {}  BY <1>1, OutStays
<1>3. ASSUME NEW m \in sent, <<m.from, m.to>> \in plan.links
      PROVE  m \in delivered'[m.to] \/ OnItsWay(m)'
  <2>1. m \in delivered[m.to] \/ OnItsWay(m)  BY <1>3 DEF KeptInv
  <2>2. m \in Messages /\ m.to \in Nodes  BY <1>1, MessageAssumption DEF MessageAssumption
  <2>3. delivered[m.to] \subseteq delivered'[m.to]  BY <1>1, <2>2, DeliveredGrows
  <2>. QED  BY <1>1, <1>2, <2>1, <2>2, <2>3, OnTheWayStays
<1>4. ASSUME NEW m \in sent', m \notin sent, <<m.from, m.to>> \in plan.links PROVE OnItsWay(m)'
  <2>1. PICK n \in Nodes : SendData(n)  BY <1>4, SentSteps
  <2>2. m = sending[n]  BY <1>4, <2>1 DEF SendData
  <2>3. m.from = n  BY <2>1, <2>2 DEF SenderInv, Calling, SendData, AppStep
  <2>. QED  BY <1>1, <1>4, <2>1, <2>2, <2>3, DataArrives
<1>. QED  BY <1>2, <1>3, <1>4

\* A message whose DATA went out towards a destination that hears the sender is at
\* that destination, waiting or delivered, from then on: for any number of messages,
\* of destinations and of circuits, so also in the circuit of another destination
\* (_find_circuit_for, line 412), and whatever HELLOs, replies, purges, BYEs, returns
\* and packets of other implementations come in between (route_packet, line 140).
THEOREM SentIsKeptCorrect == ASSUME ScreensFirst PROVE Spec => []SentIsKept
<1>1. KeptInv => SentIsKept  BY DEF KeptInv, SentIsKept, OnItsWay
<1>. QED
  BY TypeInit, TypeNext, ThreadInit, ThreadNext, SenderInit, SenderNext, KeptInit, KeptNext, <1>1, PTL
  DEF Spec

=============================================================================
