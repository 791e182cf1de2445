-------------------------- MODULE AdapterSelection --------------------------
(***************************************************************************)
(* Which adapter a packet leaves on                                        *)
(* (transmision/implementation/selector.py, AdapterSelector.select).       *)
(*                                                                         *)
(* A pool is the sequence of registered adapters, in registration order.   *)
(* An adapter is [mac, type, cost, up]: up is its is_available().          *)
(***************************************************************************)
EXTENDS Integers, Sequences

CONSTANTS
    BroadcastMac,  \* b'\xff' * 6, the only member of QR_FORCED_MACS
    NoAdapter      \* select() raised AdapterError

AdapterTypes == {"QR_LIGHT", "ETHERNET", "WIFI", "VIDEO_STREAM"}
Policies     == {"PREFER_QR", "PREFER_TCP", "LOWEST_COST", "FIRST_AVAILABLE"}

\* The places of the adapters that are available.
Available(adapters) == {k \in DOMAIN adapters : adapters[k].up}

\* The adapters at some places, in order.
AtPlaces(adapters, places) ==
    LET kept[n \in 0 .. Len(adapters)] ==
            IF n = 0 THEN <<>>
            ELSE IF n \in places THEN Append(kept[n - 1], adapters[n])
            ELSE kept[n - 1]
    IN  kept[Len(adapters)]

\* Of the adapters at some places, the first one that passes a test.
FirstWith(adapters, places, Test(_)) ==
    LET passing == {k \in places : Test(adapters[k])} IN
    IF passing = {} THEN NoAdapter
    ELSE adapters[CHOOSE k \in passing : \A j \in passing : k <= j]

FirstOfType(adapters, places, type) == FirstWith(adapters, places, LAMBDA a : a.type = type)

\* Slip: the first adapter is as good as the cheapest.
LowestCostFirst(adapters, places) == FirstWith(adapters, places, LAMBDA a : TRUE)

\* Python's min(): the first of the cheapest ones.
LowestCost(adapters, places) ==
    FirstWith(adapters, places, LAMBDA a : \A k \in places : a.cost <= adapters[k].cost)

Or(a, b) == IF a # NoAdapter THEN a ELSE b

\* Slip: the gateways are forgotten.
QrRequiredBroadcast(dstMac, gateways) == dstMac = BroadcastMac

QrRequired(dstMac, gateways) == dstMac = BroadcastMac \/ dstMac \in gateways

ApplyPolicy(adapters, places, policy) ==
    LET First(type) == FirstOfType(adapters, places, type)
        cheapest    == LowestCost(adapters, places)
    IN
    CASE policy = "PREFER_QR"       -> Or(First("QR_LIGHT"), cheapest)
      [] policy = "PREFER_TCP"      -> Or(Or(First("ETHERNET"), First("WIFI")), cheapest)
      [] policy = "LOWEST_COST"     -> cheapest
      [] policy = "FIRST_AVAILABLE" -> FirstWith(adapters, places, LAMBDA a : TRUE)

Select(adapters, policy, gateways, dstMac) ==
    LET places == Available(adapters) IN
    IF places = {} THEN NoAdapter
    ELSE IF QrRequired(dstMac, gateways) THEN FirstOfType(adapters, places, "QR_LIGHT")
    ELSE ApplyPolicy(adapters, places, policy)

\* Slip: the adapter that had the MAC stays.
RegisterAdapterTwice(adapters, adapter) == Append(adapters, adapter)

\* register(): an adapter with the same MAC is replaced, at the end of the pool.
RegisterAdapter(adapters, adapter) ==
    Append(AtPlaces(adapters, {k \in DOMAIN adapters : adapters[k].mac # adapter.mac}), adapter)
=============================================================================
