----------------------------- MODULE MeshTables -----------------------------
(***************************************************************************)
(* The three tables of a mesh node, as values: RoutingTable and            *)
(* CircuitTable (red/implementation/routing.py) and NodeDirectory          *)
(* (red/implementation/directory.py).  Each Python method holds the        *)
(* table's lock from its first to its last line, so each is one step.      *)
(*                                                                         *)
(* A timestamp is modelled by its age in HELLO intervals, up to two more   *)
(* than the greatest age an entry may have and stay.                       *)
(***************************************************************************)
EXTENDS Integers

CONSTANTS
    NoEntry,         \* a table's .get() of a missing key
    StaleIntervals   \* STALE_ROUTE_S / HELLO_INTERVAL_S, also STALE_NODE_S

ASSUME StaleAssumption == StaleIntervals \in Nat \ {0}

Ages == 0 .. StaleIntervals + 2

\* An entry of the routing table or of the directory.
Entry(mac, cost) == [mac |-> mac, cost |-> cost, age |-> 0]
Entries(Macs) == [mac : Macs, cost : Nat, age : Ages]

EmptyTable(Keys) == [k \in Keys |-> NoEntry]

\* Slip: the latest route wins.
AddRouteAlways(table, dst, mac, cost) == [table EXCEPT ![dst] = Entry(mac, cost)]

\* RoutingTable.add_route: equal cost replaces the next hop as well.
AddRoute(table, dst, mac, cost) ==
    IF table[dst] = NoEntry \/ cost <= table[dst].cost
    THEN [table EXCEPT ![dst] = Entry(mac, cost)]
    ELSE table

\* A ROUTE_UPDATE adds its entries one by one, all through the same neighbour;
\* costs gives NoEntry for a destination it does not name.
AddRoutes(table, costs, mac) ==
    [dst \in DOMAIN table |->
        IF costs[dst] = NoEntry THEN table[dst]
        ELSE AddRoute(table, dst, mac, costs[dst] + 1)[dst]]

Remove(table, key) == [table EXCEPT ![key] = NoEntry]

\* NodeDirectory.register: the smallest cost seen, the latest MAC and time.
Register(table, id, mac, cost) ==
    [table EXCEPT ![id] =
        IF table[id] # NoEntry /\ table[id].cost < cost
        THEN Entry(mac, table[id].cost)
        ELSE Entry(mac, cost)]

\* purge_stale and expire_stale: entries older than the limit go.
Purge(table, limit) ==
    [k \in DOMAIN table |->
        IF table[k] # NoEntry /\ table[k].age > limit THEN NoEntry ELSE table[k]]

\* One HELLO interval passes.
Older(table) ==
    [k \in DOMAIN table |->
        IF table[k] # NoEntry /\ table[k].age < StaleIntervals + 2
        THEN [table[k] EXCEPT !.age = @ + 1]
        ELSE table[k]]
=============================================================================
