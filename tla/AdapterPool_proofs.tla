------------------------- MODULE AdapterPool_proofs -------------------------
(***************************************************************************)
(* Theorems about AdapterPool, for any selectors, gateways and catalogue,  *)
(* and every pool that is registered from it, in any order.                *)
(***************************************************************************)
EXTENDS AdapterPool, AdapterSelection_proofs

\* A pool has numbered places, and holds adapters of the catalogue.
LEMMA PoolFacts ==
    ASSUME TypeOK, NEW s \in Selectors
    PROVE  /\ DOMAIN adapters[s] \subseteq Nat
           /\ Available(adapters[s]) \subseteq DOMAIN adapters[s]
           /\ TypesUp(s) = {adapters[s][k].type : k \in Available(adapters[s])}
           /\ \A k \in DOMAIN adapters[s] :
                 /\ adapters[s][k] # NoAdapter
                 /\ \E x \in Catalog : adapters[s][k].cost = x.cost /\ adapters[s][k].type = x.type
<1>1. adapters[s] \in Seq(Candidates)  BY DEF TypeOK
<1>2. DOMAIN adapters[s] = 1 .. Len(adapters[s]) /\ \A k \in DOMAIN adapters[s] : adapters[s][k] \in Candidates
  BY <1>1
<1>3. \A a \in Candidates : a # NoAdapter /\ \E x \in Catalog : a.cost = x.cost /\ a.type = x.type
  BY CandidatesAssumption DEF CandidatesAssumption, Candidates, With
<1>. QED  BY <1>2, <1>3 DEF Available, TypesUp

-----------------------------------------------------------------------------
(* Every selector keeps one adapter of a MAC *)

OneOfMac(pool) == \A j, k \in DOMAIN pool : pool[j].mac = pool[k].mac => j = k

LEMMA InitType == Init => TypeOK
BY DEF Init, TypeOK, Policies

\* register(): what is left of the pool has other MACs than the new adapter.
LEMMA RegisterFacts ==
    ASSUME NEW pool \in Seq(Candidates), OneOfMac(pool), NEW x \in Candidates
    PROVE  RegisterAdapter(pool, x) \in Seq(Candidates) /\ OneOfMac(RegisterAdapter(pool, x))
<1> DEFINE others == {k \in DOMAIN pool : pool[k].mac # x.mac}
           rest   == AtPlaces(pool, others)
           m      == Len(rest)
           longer == Append(rest, x)
<1>1. KeptOf(Candidates, rest, pool, others)  BY AtPlacesFacts, Zenon
<1>2. rest \in Seq(Candidates)  BY <1>1 DEF KeptOf
<1>3. PICK at : Follow(at, rest, pool, others)  BY <1>1 DEF KeptOf
<1>. HIDE DEF rest
<1>4. /\ m \in Nat /\ longer \in Seq(Candidates) /\ DOMAIN longer = 1 .. m + 1
      /\ \A j \in 1 .. m : longer[j] = rest[j]
      /\ longer[m + 1] = x
  BY <1>2
<1>5. /\ \A j \in 1 .. m : at[j] \in others /\ rest[j] = pool[at[j]]
      /\ \A i, j \in 1 .. m : i < j => at[i] < at[j]
  BY <1>3 DEF Follow
<1>6. \A k \in others : k \in DOMAIN pool /\ k \in Nat /\ pool[k].mac # x.mac  OBVIOUS
<1>. HIDE DEF others, longer, m
<1>7. ASSUME NEW i \in 1 .. m, NEW j \in 1 .. m, rest[i].mac = rest[j].mac PROVE i = j
  <2>1. at[i] = at[j]  BY <1>5, <1>6, <1>7 DEF OneOfMac
  <2>2. at[i] \in Nat  BY <1>5, <1>6
  <2>3. ~ (at[i] < at[j]) /\ ~ (at[j] < at[i])  BY <2>1, <2>2
  <2>4. ~ (i < j) /\ ~ (j < i)  BY <1>5, <2>3
  <2>. QED  BY <1>4, <2>4
<1>8. \A j \in 1 .. m : rest[j].mac # x.mac  BY <1>5, <1>6
<1>9. \A j \in 1 .. m + 1 : j \in 1 .. m \/ j = m + 1  BY <1>4
<1>10. OneOfMac(longer)  BY <1>4, <1>7, <1>8, <1>9 DEF OneOfMac
<1>11. RegisterAdapter(pool, x) = longer  BY DEF RegisterAdapter, longer, rest, others
<1>. QED  BY <1>4, <1>10, <1>11

LEMMA NextType == TypeOK /\ [Next]_vars => TypeOK'
<1> SUFFICES ASSUME TypeOK, [Next]_vars PROVE TypeOK'  OBVIOUS
<1>1. ASSUME NEW s \in Selectors, NEW pool \in Seq(Candidates), OneOfMac(pool),
             adapters' = [adapters EXCEPT ![s] = pool], UNCHANGED <<policy, gateways>>
      PROVE  TypeOK'
  <2>1. adapters' \in [Selectors -> Seq(Candidates)]  BY <1>1 DEF TypeOK
  <2>2. \A t \in Selectors : OneOfMac(adapters'[t])  BY <1>1 DEF TypeOK, OneOfMac
  <2>. QED  BY <1>1, <2>1, <2>2 DEF TypeOK, OneOfMac
<1>2. \A x \in Catalog, up \in BOOLEAN : With(x, up) \in Candidates  BY DEF Candidates
<1>3. ASSUME NEW s \in Selectors, Register(s) PROVE TypeOK'
  <2>1. PICK x \in Catalog, up \in BOOLEAN :
            adapters' = [adapters EXCEPT ![s] = RegisterAdapter(@, With(x, up))]
    BY <1>3 DEF Register
  <2>2. adapters[s] \in Seq(Candidates) /\ OneOfMac(adapters[s])  BY DEF TypeOK, OneOfMac
  <2>3. With(x, up) \in Candidates  BY <1>2
  <2>4. /\ RegisterAdapter(adapters[s], With(x, up)) \in Seq(Candidates)
        /\ OneOfMac(RegisterAdapter(adapters[s], With(x, up)))
    BY <2>2, <2>3, RegisterFacts
  <2>5. UNCHANGED <<policy, gateways>>  BY <1>3 DEF Register
  <2>. QED  BY <1>1, <2>1, <2>4, <2>5
<1>4. ASSUME NEW s \in Selectors, Availability(s) PROVE TypeOK'
  <2>1. PICK k \in DOMAIN adapters[s] : adapters' = [adapters EXCEPT ![s][k].up = ~@]
    BY <1>4 DEF Availability
  <2> DEFINE pool == adapters[s]
             new  == [pool EXCEPT ![k].up = ~@]
  <2>2. pool \in Seq(Candidates) /\ OneOfMac(pool)  BY DEF TypeOK, OneOfMac
  <2>3. adapters' = [adapters EXCEPT ![s] = new]  BY <2>1
  <2>4. UNCHANGED <<policy, gateways>>  BY <1>4 DEF Availability
  <2>5. k \in DOMAIN pool  OBVIOUS
  <2> HIDE DEF pool
  <2>6. PICK x \in Catalog, up \in BOOLEAN : pool[k] = With(x, up)
    <3>1. pool[k] \in Candidates  BY <2>2, <2>5
    <3>. QED  BY <3>1 DEF Candidates
  <2>7. new[k] = With(x, ~ up) /\ With(x, ~ up) \in Candidates
    <3>1. new[k] = [pool[k] EXCEPT !.up = ~@]  BY <2>5
    <3>2. new[k] = [With(x, up) EXCEPT !.up = ~ With(x, up).up]  BY <2>6, <3>1
    <3>3. With(x, up).up = up  BY DEF With
    <3>4. [With(x, up) EXCEPT !.up = ~ up] = With(x, ~ up)  BY DEF With
    <3>5. new[k] = With(x, ~ up)  BY <3>2, <3>3, <3>4, Zenon
    <3>6. (~ up) \in BOOLEAN  OBVIOUS
    <3>7. With(x, ~ up) \in Candidates  BY <1>2, <3>6, Zenon
    <3>. QED  BY <3>5, <3>7
  <2>8. DOMAIN new = DOMAIN pool /\ \A j \in DOMAIN pool : j # k => new[j] = pool[j]  OBVIOUS
  <2>9. new = [pool EXCEPT ![k] = With(x, ~ up)]  BY <2>5, <2>7, <2>8
  <2>10. new \in Seq(Candidates)
    <3> HIDE DEF new
    <3>. QED  BY <2>2, <2>5, <2>7, <2>9
  <2> HIDE DEF new
  <2>11. \A j \in DOMAIN pool : new[j].mac = pool[j].mac  BY <2>6, <2>7, <2>8 DEF With
  <2>12. OneOfMac(new)  BY <2>2, <2>8, <2>11 DEF OneOfMac
  <2>. QED  BY <1>1, <2>3, <2>4, <2>10, <2>12
<1>5. ASSUME NEW s \in Selectors, SetPolicy(s) \/ RegisterGateway(s) \/ UnregisterGateway(s)
      PROVE  TypeOK'
  <2>1. UNCHANGED adapters  BY <1>5 DEF SetPolicy, RegisterGateway, UnregisterGateway
  <2>2. policy' \in [Selectors -> Policies]
    BY <1>5 DEF SetPolicy, RegisterGateway, UnregisterGateway, TypeOK
  <2>3. gateways' \in [Selectors -> SUBSET Gateways]
    <3>1. CASE SetPolicy(s)  BY <3>1 DEF SetPolicy, TypeOK
    <3>2. CASE RegisterGateway(s)  BY <3>2 DEF RegisterGateway, TypeOK
    <3>3. CASE UnregisterGateway(s)  BY <3>3 DEF UnregisterGateway, TypeOK
    <3>. QED  BY <1>5, <3>1, <3>2, <3>3
  <2>. QED  BY <2>1, <2>2, <2>3 DEF TypeOK
<1>6. CASE UNCHANGED vars  BY <1>6 DEF vars, TypeOK
<1>. QED  BY <1>3, <1>4, <1>5, <1>6 DEF Next

\* However adapters are registered, replaced, lost and found, no selector holds two
\* of one MAC (register, lines 71-75).
THEOREM TypeCorrect == Spec => []TypeOK
BY InitType, NextType, PTL DEF Spec

-----------------------------------------------------------------------------
(* Two selectors agree *)

\* Whatever two selectors of the same policy hold, they select adapters of the same
\* type for ordinary traffic if adapters of the same types are up (select, lines
\* 54-70, and _apply_policy).
LEMMA SameChannelHolds == TypeOK => SameChannel
<1> SUFFICES ASSUME TypeOK, NEW s \in Selectors, NEW t \in Selectors,
                    policy[s] = policy[t], policy[s] # "FIRST_AVAILABLE", TypesUp(s) = TypesUp(t)
             PROVE  LET x == Selected(s, Neighbour)
                        y == Selected(t, Neighbour)
                    IN  IF x = NoAdapter THEN y = NoAdapter ELSE y # NoAdapter /\ y.type = x.type
  BY DEF SameChannel
<1> DEFINE Up(r) == Available(adapters[r])
           Agree(x, y) == IF x = NoAdapter THEN y = NoAdapter ELSE y # NoAdapter /\ y.type = x.type
           First(r, type) == FirstOfType(adapters[r], Up(r), type)
           Cheapest(r) == LowestCost(adapters[r], Up(r))
<1>1. \A r \in {s, t} :
          Selected(r, Neighbour) =
              IF Up(r) = {} THEN NoAdapter ELSE ApplyPolicy(adapters[r], Up(r), policy[s])
  BY NeighbourAssumption DEF NeighbourAssumption, Selected, Select, QrRequired, TypeOK
<1>2a. {adapters[s][k].type : k \in Up(s)} = {adapters[t][k].type : k \in Up(t)}
  <2>1. /\ TypesUp(s) = {adapters[s][k].type : k \in Up(s)}
        /\ TypesUp(t) = {adapters[t][k].type : k \in Up(t)}
    BY PoolFacts
  <2>. QED  BY <2>1
<1>2. Up(s) = {} <=> Up(t) = {}
  <2> HIDE DEF Up
  <2>. QED  BY <1>2a
<1>3. \A type : Agree(First(s, type), First(t, type))
  <2> SUFFICES ASSUME NEW type PROVE Agree(First(s, type), First(t, type))  OBVIOUS
  <2>1. ASSUME NEW r \in {s, t}
        PROVE  IF type \in TypesUp(s) THEN First(r, type) # NoAdapter /\ First(r, type).type = type
                                      ELSE First(r, type) = NoAdapter
    <3>1. \/ \E k \in Up(r) : First(r, type) = adapters[r][k] /\ adapters[r][k].type = type
          \/ First(r, type) = NoAdapter /\ \A k \in Up(r) : adapters[r][k].type # type
      BY PoolFacts, FirstOfTypeFacts
    <3>. QED  BY <3>1, PoolFacts
  <2>. QED  BY <2>1
<1>4. ASSUME Up(s) # {} PROVE Agree(Cheapest(s), Cheapest(t))
  <2>1. ASSUME NEW r \in {s, t}
        PROVE  \E k \in Up(r) : /\ Cheapest(r) = adapters[r][k]
                                /\ \A j \in Up(r) : adapters[r][k].cost <= adapters[r][j].cost
    <3>1. Up(r) # {}  BY <1>2, <1>4
    <3>2. \A k \in Up(r) : adapters[r][k].cost \in Nat
      BY PoolFacts, CatalogAssumption DEF CatalogAssumption
    <3>. QED  BY <3>1, <3>2, PoolFacts, LowestCostFacts
  <2>2. PICK k \in Up(s) : /\ Cheapest(s) = adapters[s][k]
                           /\ \A j \in Up(s) : adapters[s][k].cost <= adapters[s][j].cost
    BY <2>1
  <2>3. PICK l \in Up(t) : /\ Cheapest(t) = adapters[t][l]
                           /\ \A j \in Up(t) : adapters[t][l].cost <= adapters[t][j].cost
    BY <2>1
  <2>4. PICK k2 \in Up(t) : adapters[t][k2].type = adapters[s][k].type  BY <1>2a
  <2>5. PICK l2 \in Up(s) : adapters[s][l2].type = adapters[t][l].type  BY <1>2a
  <2>6. adapters[t][k2].cost = adapters[s][k].cost /\ adapters[s][l2].cost = adapters[t][l].cost
    BY <2>4, <2>5, PoolFacts, CatalogAssumption DEF CatalogAssumption
  <2>7. adapters[s][k].cost \in Nat /\ adapters[t][l].cost \in Nat
    BY PoolFacts, CatalogAssumption DEF CatalogAssumption
  <2>8. adapters[s][k].cost = adapters[t][l].cost  BY <2>2, <2>3, <2>6, <2>7
  <2>9. adapters[s][k].type = adapters[t][l].type
    BY <2>8, PoolFacts, CatalogAssumption DEF CatalogAssumption
  <2>. QED  BY <2>2, <2>3, <2>9, PoolFacts
<1>5. ASSUME Up(s) # {}
      PROVE  Agree(ApplyPolicy(adapters[s], Up(s), policy[s]), ApplyPolicy(adapters[t], Up(t), policy[s]))
  <2>1. policy[s] \in Policies  BY DEF TypeOK
  <2> HIDE DEF Up
  <2>2. \A type, r : FirstOfType(adapters[r], Up(r), type) = First(r, type)  OBVIOUS
  <2> HIDE DEF First, Cheapest
  <2>3. \A a, b, c, d : Agree(a, b) /\ Agree(c, d) => Agree(Or(a, c), Or(b, d))  BY DEF Or
  <2> HIDE DEF Agree
  <2>4. CASE policy[s] = "PREFER_QR"
    <3>1. \A r : ApplyPolicy(adapters[r], Up(r), policy[s]) = Or(First(r, "QR_LIGHT"), Cheapest(r))
      BY <2>4 DEF ApplyPolicy, First, Cheapest
    <3>. QED  BY <3>1, <2>3, <1>3, <1>4, <1>5
  <2>5. CASE policy[s] = "PREFER_TCP"
    <3>1. \A r : ApplyPolicy(adapters[r], Up(r), policy[s])
                     = Or(Or(First(r, "ETHERNET"), First(r, "WIFI")), Cheapest(r))
      BY <2>5 DEF ApplyPolicy, First, Cheapest
    <3>2. Agree(Or(First(s, "ETHERNET"), First(s, "WIFI")), Or(First(t, "ETHERNET"), First(t, "WIFI")))
      BY <1>3, <2>3
    <3>. QED  BY <3>1, <3>2, <2>3, <1>4, <1>5
  <2>6. CASE policy[s] = "LOWEST_COST"
    <3>1. \A r : ApplyPolicy(adapters[r], Up(r), policy[s]) = Cheapest(r)
      BY <2>6 DEF ApplyPolicy, Cheapest
    <3>. QED  BY <3>1, <1>4, <1>5
  <2>. QED  BY <2>1, <2>4, <2>5, <2>6 DEF Policies
<1>. QED  BY <1>1, <1>2, <1>5

\* The order of registration decides nothing, nor what was registered, replaced or
\* lost before.
THEOREM SameChannelCorrect == Spec => []SameChannel
BY TypeCorrect, SameChannelHolds, PTL

-----------------------------------------------------------------------------
(* Traffic to gateways *)

LightPlaces(pool) == {k \in DOMAIN pool : pool[k].type = "QR_LIGHT"}

FirstUp(lights) == FirstWith(lights, Available(lights), LAMBDA a : TRUE)

\* select() for a gateway looks at the light adapters only, in their order: it
\* returns the first of them that is up.
LEMMA LightDecides ==
    ASSUME NEW pool \in Seq(Candidates)
    PROVE  FirstOfType(pool, Available(pool), "QR_LIGHT") = FirstUp(AtPlaces(pool, LightPlaces(pool)))
<1> DEFINE places == LightPlaces(pool)
           lights == AtPlaces(pool, places)
           up     == {k \in Available(pool) : pool[k].type = "QR_LIGHT"}
           upOf   == {j \in Available(lights) : TRUE}
           place  == CHOOSE k \in up : \A j \in up : k <= j
           first  == CHOOSE k \in upOf : \A j \in upOf : k <= j
<1>1. places \in SUBSET DOMAIN pool  BY DEF LightPlaces
<1>2. KeptOf(Candidates, lights, pool, places)  BY <1>1, AtPlacesFacts, Zenon
<1>3. lights \in Seq(Candidates)  BY <1>2 DEF KeptOf
<1>4. PICK at : Follow(at, lights, pool, places)  BY <1>2 DEF KeptOf
<1>5. FirstOfType(pool, Available(pool), "QR_LIGHT") = IF up = {} THEN NoAdapter ELSE pool[place]
  BY DEF FirstOfType, FirstWith
<1>6. FirstUp(lights) = IF upOf = {} THEN NoAdapter ELSE lights[first]
  BY DEF FirstUp, FirstWith
<1>7. \A k : k \in up <=> k \in places /\ pool[k].up
  BY DEF Available, LightPlaces
<1>. HIDE DEF lights
<1>8. DOMAIN lights = 1 .. Len(lights) /\ Len(lights) \in Nat /\ DOMAIN pool \subseteq Nat
  BY <1>3
<1>9. \A j : j \in upOf <=> j \in 1 .. Len(lights) /\ lights[j].up
  BY <1>8 DEF Available
<1>10. /\ \A j \in 1 .. Len(lights) : at[j] \in places /\ lights[j] = pool[at[j]]
       /\ \A i, j \in 1 .. Len(lights) : i < j => at[i] < at[j]
       /\ \A k \in places : \E j \in 1 .. Len(lights) : at[j] = k
  BY <1>4 DEF Follow
<1>11. up \in SUBSET Nat /\ upOf \in SUBSET Nat /\ \A j \in 1 .. Len(lights) : at[j] \in Nat
  BY <1>1, <1>7, <1>8, <1>9, <1>10
<1>. HIDE DEF up, upOf, places
<1>12. \A j \in upOf : j \in 1 .. Len(lights) /\ at[j] \in up  BY <1>7, <1>9, <1>10
<1>13. \A k \in up : \E j \in upOf : at[j] = k  BY <1>7, <1>9, <1>10
<1>14. up = {} <=> upOf = {}  BY <1>12, <1>13
<1>15. CASE up # {}
  <2>1. /\ first \in upOf /\ \A j \in upOf : first <= j
    <3>1. \E k \in upOf : \A j \in upOf : k <= j  BY <1>11, <1>14, <1>15, LeastExists
    <3>. QED  BY <3>1
  <2>2. place \in up /\ \A j \in up : place <= j
    <3>1. \E k \in up : \A j \in up : k <= j  BY <1>11, <1>15, LeastExists
    <3>. QED  BY <3>1
  <2> HIDE DEF first, place
  <2>3. PICK i \in upOf : at[i] = place  BY <1>13, <2>2
  <2>4. at[first] <= at[i]
    <3>1. first = i \/ first < i  BY <1>11, <2>1, <2>3
    <3>. QED  BY <1>10, <1>11, <1>12, <2>1, <2>3, <3>1
  <2>5. at[first] = place
    <3>1. at[first] \in up /\ at[first] \in Nat /\ place \in Nat  BY <1>11, <1>12, <2>1, <2>2
    <3>. QED  BY <2>2, <2>3, <2>4, <3>1
  <2>6. lights[first] = pool[place]  BY <1>10, <1>12, <2>1, <2>5
  <2>. QED  BY <1>5, <1>6, <1>14, <1>15, <2>6 DEF lights, places, first, place
<1>16. CASE up = {}  BY <1>5, <1>6, <1>14, <1>16 DEF lights, places
<1>. QED  BY <1>15, <1>16

LEMMA GatewayByLights ==
    ASSUME NEW pool \in Seq(Candidates), NEW p, NEW macs, NEW m \in macs
    PROVE  Select(pool, p, macs, m) = FirstUp(AtPlaces(pool, LightPlaces(pool)))
<1>1. QrRequired(m, macs)  BY DEF QrRequired
<1>2. Available(pool) = {} => FirstOfType(pool, Available(pool), "QR_LIGHT") = NoAdapter
  BY DEF FirstOfType, FirstWith
<1>. QED  BY <1>1, <1>2, LightDecides DEF Select

\* As long as a MAC is a gateway and the light adapters are as they were, its packets
\* leave on the same adapter, whatever happens to the policy and to all the others.
THEOREM GatewayTrafficStaysCorrect == Spec => GatewayTrafficStays
<1>1. ASSUME TypeOK, TypeOK', NEW s \in Selectors, NEW m \in Gateways,
             m \in gateways[s], m \in gateways'[s], Lights(s)' = Lights(s)
      PROVE  Selected(s, m)' = Selected(s, m)
  <2>1. adapters[s] \in Seq(Candidates) /\ adapters'[s] \in Seq(Candidates)  BY <1>1 DEF TypeOK
  <2>2. Selected(s, m) = FirstUp(Lights(s))
    BY <1>1, <2>1, GatewayByLights DEF Selected, Lights, LightPlaces
  <2>3. Selected(s, m)' = FirstUp(AtPlaces(adapters'[s], LightPlaces(adapters'[s])))
    BY <1>1, <2>1, GatewayByLights DEF Selected
  <2>4. Lights(s)' = AtPlaces(adapters'[s], LightPlaces(adapters'[s]))
    BY DEF Lights, LightPlaces
  <2>. QED  BY <1>1, <2>2, <2>3, <2>4
<1>2. TypeOK /\ TypeOK' =>
          [\A s \in Selectors : \A m \in Gateways :
              (m \in gateways[s] /\ m \in gateways'[s] /\ Lights(s)' = Lights(s))
                  => Selected(s, m)' = Selected(s, m)]_vars
  BY <1>1
<1>. QED  BY TypeCorrect, <1>2, PTL DEF GatewayTrafficStays
=============================================================================
