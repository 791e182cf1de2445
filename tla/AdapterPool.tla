----------------------------- MODULE AdapterPool -----------------------------
(***************************************************************************)
(* The AdapterSelectors of several nodes while adapters come and go        *)
(* (transmision/implementation/selector.py).                               *)
(*                                                                         *)
(* A node's RX thread asks its selector for one adapter and listens to     *)
(* that one only (red/implementation/node.py, _rx_loop); what it sends     *)
(* leaves on the adapter selected at that moment.  So two nodes hear each  *)
(* other only if their selectors agree on a type, each for itself, out of  *)
(* pools registered in different orders.                                   *)
(***************************************************************************)
EXTENDS AdapterSelection, FiniteSets

CONSTANTS
    Selectors,
    Catalog,    \* the adapters there are: [mac, type, cost], one cost per type
    Gateways,   \* remote MACs that may be registered as gateways
    Neighbour   \* a MAC that is neither a gateway nor the broadcast MAC

ASSUME CatalogAssumption ==
    /\ \A x \in Catalog : x.cost \in Nat
    /\ \A x, y \in Catalog : (x.mac = y.mac => x = y) /\ (x.cost = y.cost <=> x.type = y.type)
ASSUME NeighbourAssumption == Neighbour \notin Gateways \cup {BroadcastMac}

VARIABLES
    adapters,   \* _adapters
    policy,     \* _policy
    gateways    \* _qr_gateway_macs

vars == <<adapters, policy, gateways>>

With(x, up) == [mac |-> x.mac, type |-> x.type, cost |-> x.cost, up |-> up]

Candidates == {With(x, up) : x \in Catalog, up \in BOOLEAN}

ASSUME CandidatesAssumption == NoAdapter \notin Candidates

Init ==
    /\ adapters = [s \in Selectors |-> <<>>]
    /\ policy = [s \in Selectors |-> "PREFER_QR"]
    /\ gateways = [s \in Selectors |-> {}]

Register(s) ==
    /\ \E x \in Catalog, up \in BOOLEAN :
          adapters' = [adapters EXCEPT ![s] = RegisterAdapter(@, With(x, up))]
    /\ UNCHANGED <<policy, gateways>>

\* is_available() of a registered adapter changes: a handshake ends, a link fails.
Availability(s) ==
    /\ \E k \in DOMAIN adapters[s] : adapters' = [adapters EXCEPT ![s][k].up = ~@]
    /\ UNCHANGED <<policy, gateways>>

SetPolicy(s) ==
    /\ \E p \in Policies : policy' = [policy EXCEPT ![s] = p]
    /\ UNCHANGED <<adapters, gateways>>

RegisterGateway(s) ==
    /\ \E m \in Gateways : gateways' = [gateways EXCEPT ![s] = @ \cup {m}]
    /\ UNCHANGED <<adapters, policy>>

UnregisterGateway(s) ==
    /\ \E m \in Gateways : gateways' = [gateways EXCEPT ![s] = @ \ {m}]
    /\ UNCHANGED <<adapters, policy>>

Next ==
    \E s \in Selectors :
        \/ Register(s) \/ Availability(s) \/ SetPolicy(s)
        \/ RegisterGateway(s) \/ UnregisterGateway(s)

Spec == Init /\ [][Next]_vars

-----------------------------------------------------------------------------
(* Properties *)

Selected(s, mac) == Select(adapters[s], policy[s], gateways[s], mac)

TypesUp(s) == {adapters[s][k].type : k \in {j \in DOMAIN adapters[s] : adapters[s][j].up}}

Lights(s) ==
    AtPlaces(adapters[s], {k \in DOMAIN adapters[s] : adapters[s][k].type = "QR_LIGHT"})

\* Every variable has its type, and no pool holds two adapters of one MAC.
TypeOK ==
    /\ policy \in [Selectors -> Policies]
    /\ gateways \in [Selectors -> SUBSET Gateways]
    /\ adapters \in [Selectors -> Seq(Candidates)]
    /\ \A s \in Selectors :
          \A j, k \in DOMAIN adapters[s] : adapters[s][j].mac = adapters[s][k].mac => j = k

\* Two nodes of the same policy whose adapters of the same types are up select
\* the same type for ordinary traffic, whatever was registered, replaced or lost
\* before and in whatever order: they hear each other.  FIRST_AVAILABLE is not
\* meant to promise it.
SameChannel ==
    \A s, t \in Selectors :
        (policy[s] = policy[t] /\ policy[s] # "FIRST_AVAILABLE" /\ TypesUp(s) = TypesUp(t)) =>
            LET x == Selected(s, Neighbour)
                y == Selected(t, Neighbour)
            IN  IF x = NoAdapter THEN y = NoAdapter ELSE y # NoAdapter /\ y.type = x.type

\* What goes to a gateway depends on the light adapters alone: no policy, and no
\* other adapter that is registered or comes up, moves it (lines 89-94).
GatewayTrafficStays ==
    [][\A s \in Selectors : \A m \in Gateways :
          (m \in gateways[s] /\ m \in gateways'[s] /\ Lights(s)' = Lights(s))
              => Selected(s, m)' = Selected(s, m)]_vars
=============================================================================
