----------------------- MODULE AdapterSelection_proofs -----------------------
(***************************************************************************)
(* Lemmas about AdapterSelection, for every pool and policy.               *)
(***************************************************************************)
EXTENDS AdapterSelection, LeastElement

\* select() returns an adapter of the pool or raises AdapterError, whatever the policy.
LEMMA SelectFacts ==
    ASSUME NEW adapters, DOMAIN adapters \subseteq Nat, NEW policy \in Policies,
           NEW gateways, NEW dst
    PROVE  LET chosen == Select(adapters, policy, gateways, dst) IN
           chosen = NoAdapter \/ \E k \in DOMAIN adapters : chosen = adapters[k]
<1> DEFINE OfPool(chosen) == chosen = NoAdapter \/ \E k \in DOMAIN adapters : chosen = adapters[k]
           places == Available(adapters)
<1>1. places \subseteq DOMAIN adapters  BY DEF Available
<1>2. ASSUME NEW passing \in SUBSET places
      PROVE  OfPool(IF passing = {} THEN NoAdapter
                    ELSE adapters[CHOOSE k \in passing : \A j \in passing : k <= j])
  <2> SUFFICES ASSUME passing # {}
               PROVE  OfPool(adapters[CHOOSE k \in passing : \A j \in passing : k <= j])
    OBVIOUS
  <2>1. \E k \in passing : \A j \in passing : k <= j  BY <1>1, LeastExists
  <2>2. (CHOOSE k \in passing : \A j \in passing : k <= j) \in DOMAIN adapters  BY <1>1, <2>1
  <2>. QED  BY <2>2
<1> HIDE DEF places
<1>3. ASSUME NEW type PROVE OfPool(FirstOfType(adapters, places, type))
  BY <1>2 DEF FirstOfType, FirstWith
<1>4. OfPool(LowestCost(adapters, places))  BY <1>2 DEF LowestCost, FirstWith
<1>5. OfPool(FirstWith(adapters, places, LAMBDA a : TRUE))  BY <1>2 DEF FirstWith
<1>6. OfPool(NoAdapter)  OBVIOUS
<1> HIDE DEF OfPool
<1>7. OfPool(ApplyPolicy(adapters, places, policy))
  BY <1>3, <1>4, <1>5 DEF ApplyPolicy, Or, Policies
<1>8. OfPool(Select(adapters, policy, gateways, dst))
  BY <1>3, <1>6, <1>7 DEF Select, places
<1>. QED  BY <1>8 DEF OfPool

\* _first_of_type returns an adapter of the type, or none if there is none.
LEMMA FirstOfTypeFacts ==
    ASSUME NEW adapters, DOMAIN adapters \subseteq Nat, NEW places \in SUBSET DOMAIN adapters, NEW type
    PROVE  LET first == FirstOfType(adapters, places, type) IN
           IF \E k \in places : adapters[k].type = type
           THEN \E k \in places : first = adapters[k] /\ adapters[k].type = type
           ELSE first = NoAdapter
<1> DEFINE passing == {k \in places : adapters[k].type = type}
           place == CHOOSE k \in passing : \A j \in passing : k <= j
<1>1. FirstOfType(adapters, places, type) = IF passing = {} THEN NoAdapter ELSE adapters[place]
  BY DEF FirstOfType, FirstWith
<1>2. ASSUME passing # {} PROVE place \in passing
  <2>1. \E k \in passing : \A j \in passing : k <= j  BY <1>2, LeastExists
  <2>. QED  BY <2>1
<1>. QED  BY <1>1, <1>2

\* _lowest_cost returns an adapter that costs no more than any other.
LEMMA LowestCostFacts ==
    ASSUME NEW adapters, DOMAIN adapters \subseteq Nat, NEW places \in SUBSET DOMAIN adapters,
           places # {}, \A k \in places : adapters[k].cost \in Nat
    PROVE  \E k \in places :
               /\ LowestCost(adapters, places) = adapters[k]
               /\ \A j \in places : adapters[k].cost <= adapters[j].cost
<1> DEFINE costs == {adapters[k].cost : k \in places}
           passing == {k \in places : \A j \in places : adapters[k].cost <= adapters[j].cost}
           place == CHOOSE k \in passing : \A j \in passing : k <= j
<1>1. \E c \in costs : \A d \in costs : c <= d
  <2>1. costs \in SUBSET Nat /\ costs # {}  OBVIOUS
  <2> HIDE DEF costs
  <2>. QED  BY <2>1, LeastExists
<1>2. passing # {}  BY <1>1
<1>3. \E k \in passing : \A j \in passing : k <= j
  <2>1. passing \in SUBSET Nat  OBVIOUS
  <2> HIDE DEF passing
  <2>. QED  BY <1>2, <2>1, LeastExists
<1>4. place \in passing  BY <1>3
<1>5. LowestCost(adapters, places) = adapters[place]  BY <1>2 DEF LowestCost, FirstWith
<1>. QED  BY <1>4, <1>5

\* kept is what pool has at some places, in order: at says where each of them was.
Follow(at, kept, pool, places) ==
    /\ at \in [1 .. Len(kept) -> places]
    /\ \A j \in 1 .. Len(kept) : kept[j] = pool[at[j]]
    /\ \A i, j \in 1 .. Len(kept) : i < j => at[i] < at[j]
    /\ \A k \in places : \E j \in 1 .. Len(kept) : at[j] = k

KeptOf(A, kept, pool, places) == kept \in Seq(A) /\ \E at : Follow(at, kept, pool, places)

\* One more place of the pool.
LEMMA FollowOn ==
    ASSUME NEW A, NEW pool \in Seq(A), NEW places \in SUBSET DOMAIN pool,
           NEW n \in Nat, n + 1 \in 1 .. Len(pool),
           NEW kept, KeptOf(A, kept, pool, places \cap (1 .. n))
    PROVE  KeptOf(A, IF n + 1 \in places THEN Append(kept, pool[n + 1]) ELSE kept,
                  pool, places \cap (1 .. n + 1))
<1>3. kept \in Seq(A)  BY DEF KeptOf
<1>4. PICK at : Follow(at, kept, pool, places \cap (1 .. n))  BY DEF KeptOf
<1>1. CASE n + 1 \notin places
  <2>1. places \cap (1 .. n + 1) = places \cap (1 .. n)
    <3>1. 1 .. n + 1 = (1 .. n) \cup {n + 1}  OBVIOUS
    <3>. QED  BY <1>1, <3>1
  <2>. QED  BY <1>1, <1>3, <1>4, <2>1 DEF KeptOf
<1>2. CASE n + 1 \in places
  <2> DEFINE m      == Len(kept)
             longer == Append(kept, pool[n + 1])
             to     == [j \in 1 .. m + 1 |-> IF j <= m THEN at[j] ELSE n + 1]
             before == places \cap (1 .. n)
             after  == places \cap (1 .. n + 1)
  <2>1. pool[n + 1] \in A  OBVIOUS
  <2>2. /\ m \in Nat /\ longer \in Seq(A) /\ Len(longer) = m + 1
        /\ \A j \in 1 .. m : longer[j] = kept[j]
        /\ longer[m + 1] = pool[n + 1]
    BY <1>3, <2>1
  <2>3. /\ at \in [1 .. m -> before]
        /\ \A j \in 1 .. m : kept[j] = pool[at[j]]
        /\ \A i, j \in 1 .. m : i < j => at[i] < at[j]
        /\ \A k \in before : \E j \in 1 .. m : at[j] = k
    BY <1>4 DEF Follow
  <2>4. after = before \cup {n + 1} /\ \A k \in before : k \in Nat /\ k < n + 1
    <3>1. 1 .. n + 1 = (1 .. n) \cup {n + 1}  OBVIOUS
    <3>. QED  BY <1>2, <3>1
  <2> HIDE DEF longer, before, after, m
  <2>5. /\ \A j \in 1 .. m : to[j] = at[j] /\ to[j] \in before
        /\ to[m + 1] = n + 1
        /\ \A j \in 1 .. m + 1 : j \in 1 .. m \/ j = m + 1
    BY <2>2, <2>3
  <2>6. to \in [1 .. m + 1 -> after]
    <3>1. \A j \in 1 .. m + 1 : to[j] \in after  BY <2>4, <2>5
    <3>. QED  BY <3>1
  <2> HIDE DEF to
  <2>7. \A j \in 1 .. m + 1 : longer[j] = pool[to[j]]  BY <2>2, <2>3, <2>5
  <2>8. \A i, j \in 1 .. m + 1 : i < j => to[i] < to[j]
    <3> SUFFICES ASSUME NEW i \in 1 .. m + 1, NEW j \in 1 .. m + 1, i < j PROVE to[i] < to[j]
      OBVIOUS
    <3>1. i \in 1 .. m  BY <2>2
    <3>2. CASE j \in 1 .. m  BY <2>3, <2>5, <3>1, <3>2
    <3>3. CASE j = m + 1  BY <2>4, <2>5, <3>1, <3>3
    <3>. QED  BY <2>5, <3>2, <3>3
  <2>9. \A k \in after : \E j \in 1 .. m + 1 : to[j] = k
    <3>1. \A j \in 1 .. m : j \in 1 .. m + 1  BY <2>2
    <3>2. m + 1 \in 1 .. m + 1  BY <2>2
    <3>. QED  BY <2>3, <2>4, <2>5, <3>1, <3>2
  <2>10. Follow(to, longer, pool, after)  BY <2>2, <2>6, <2>7, <2>8, <2>9 DEF Follow
  <2>11. KeptOf(A, longer, pool, after)  BY <2>2, <2>10 DEF KeptOf
  <2>. QED  BY <1>2, <2>11, Zenon DEF longer, after
<1>. QED  BY <1>1, <1>2

\* The filter of register() keeps the order of the pool, and loses nothing else.
LEMMA AtPlacesFacts ==
    ASSUME NEW A, NEW pool \in Seq(A), NEW places \in SUBSET DOMAIN pool
    PROVE  KeptOf(A, AtPlaces(pool, places), pool, places)
<1> DEFINE size == Len(pool)
           IsKept(f) == f = [n \in 0 .. size |->
                                IF n = 0 THEN <<>>
                                ELSE IF n \in places THEN Append(f[n - 1], pool[n])
                                ELSE f[n - 1]]
           kept == CHOOSE f : IsKept(f)
           next == [x \in Seq(A) \X Nat |->
                       IF x[2] + 1 \in places THEN Append(x[1], pool[x[2] + 1]) ELSE x[1]]
<1>1. AtPlaces(pool, places) = kept[size]  BY DEF AtPlaces
<1>2. size \in Nat /\ DOMAIN pool = 1 .. size  OBVIOUS
<1>3. next \in [Seq(A) \X Nat -> Seq(A)]
  <2>1. ASSUME NEW s \in Seq(A), NEW i \in Nat, i + 1 \in places PROVE Append(s, pool[i + 1]) \in Seq(A)
    <3>1. pool[i + 1] \in A  BY <2>1
    <3>. QED  BY <3>1
  <2>2. ASSUME NEW x \in Seq(A) \X Nat
        PROVE  (IF x[2] + 1 \in places THEN Append(x[1], pool[x[2] + 1]) ELSE x[1]) \in Seq(A)
    <3>1. x[1] \in Seq(A) /\ x[2] \in Nat  BY <2>2
    <3>. QED  BY <2>1, <3>1
  <2>. QED  BY <2>2
<1>4. \E f : IsKept(f)
  <2>1. <<>> \in Seq(A)  OBVIOUS
  <2> HIDE DEF next
  <2>2. PICK h \in [Nat -> Seq(A)] : Iterates(h, <<>>, next)  BY <1>3, <2>1, Recursion
  <2>3. \A i \in Nat : h[i + 1] = IF i + 1 \in places THEN Append(h[i], pool[i + 1]) ELSE h[i]
    <3> SUFFICES ASSUME NEW i \in Nat
                 PROVE  h[i + 1] = IF i + 1 \in places THEN Append(h[i], pool[i + 1]) ELSE h[i]
      OBVIOUS
    <3>1. h[i + 1] = next[<<h[i], i>>]  BY <2>2 DEF Iterates
    <3>2. <<h[i], i>> \in Seq(A) \X Nat  BY <2>2
    <3>. QED  BY <3>1, <3>2 DEF next
  <2> DEFINE g == [n \in 0 .. size |-> h[n]]
  <2>4. ASSUME NEW n \in 0 .. size
        PROVE  g[n] = IF n = 0 THEN <<>>
                      ELSE IF n \in places THEN Append(g[n - 1], pool[n]) ELSE g[n - 1]
    <3>1. CASE n = 0  BY <2>2, <3>1 DEF Iterates
    <3>2. CASE n # 0
      <4>1. n - 1 \in Nat /\ n - 1 \in 0 .. size /\ (n - 1) + 1 = n  BY <1>2, <3>2
      <4>2. h[n] = IF n \in places THEN Append(h[n - 1], pool[n]) ELSE h[n - 1]  BY <2>3, <4>1
      <4>. QED  BY <3>2, <4>1, <4>2
    <3>. QED  BY <3>1, <3>2
  <2>5. g = [n \in 0 .. size |-> g[n]]  OBVIOUS
  <2> HIDE DEF g
  <2>6. IsKept(g)  BY <2>4, <2>5
  <2>. QED  BY <2>6
<1>5. IsKept(kept)
  <2> HIDE DEF IsKept
  <2>. QED  BY <1>4
<1> HIDE DEF kept, next
<1>6. /\ kept[0] = <<>>
      /\ \A n \in 1 .. size :
            kept[n] = IF n \in places THEN Append(kept[n - 1], pool[n]) ELSE kept[n - 1]
  <2>1. \A n \in 1 .. size : n \in 0 .. size /\ n # 0  OBVIOUS
  <2>2. 0 \in 0 .. size  BY <1>2
  <2>. QED  BY <1>5, <2>1, <2>2
<1> DEFINE good == {n \in Nat : n <= size => KeptOf(A, kept[n], pool, places \cap (1 .. n))}
<1>7. 0 \in good
  <2>1. places \cap (1 .. 0) = {}  OBVIOUS
  <2>2. Follow(<<>>, <<>>, pool, {})  BY DEF Follow
  <2>3. <<>> \in Seq(A)  OBVIOUS
  <2>4. KeptOf(A, kept[0], pool, places \cap (1 .. 0))  BY <1>6, <2>1, <2>2, <2>3, Zenon DEF KeptOf
  <2>. QED  BY <2>4
<1>8. ASSUME NEW n \in Nat, n \in good PROVE n + 1 \in good
  <2>1. ASSUME n + 1 <= size PROVE KeptOf(A, kept[n + 1], pool, places \cap (1 .. n + 1))
    <3>1. n <= size  BY <1>2, <2>1
    <3>2. KeptOf(A, kept[n], pool, places \cap (1 .. n))  BY <1>8, <3>1
    <3>3. n + 1 \in 1 .. size /\ (n + 1) - 1 = n  BY <1>2, <2>1
    <3>4. kept[n + 1] = IF n + 1 \in places THEN Append(kept[n], pool[n + 1]) ELSE kept[n]
      BY <1>6, <3>3
    <3>5. KeptOf(A, IF n + 1 \in places THEN Append(kept[n], pool[n + 1]) ELSE kept[n],
                 pool, places \cap (1 .. n + 1))
      BY <3>2, <3>3, FollowOn, Zenon
    <3>. QED  BY <3>4, <3>5, Zenon
  <2>. QED  BY <2>1
<1>9. KeptOf(A, kept[size], pool, places \cap (1 .. size))
  <2> HIDE DEF good
  <2>1. size \in good  BY <1>2, <1>7, <1>8, Induction
  <2>. QED  BY <1>2, <2>1 DEF good
<1>10. places \cap (1 .. size) = places  BY <1>2
<1>. QED  BY <1>1, <1>9, <1>10
=============================================================================
