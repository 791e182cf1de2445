------------------------ MODULE FifoFrameQueue_proofs ------------------------
(* Theorems about FifoFrameQueue, for every capacity, policy, number of       *)
(* producers and bound on the calls.                                          *)
EXTENDS FifoFrameQueue, FiniteSetTheorems, TLAPS

\* A queue has the build it was made with, and only threads of the model put.
LEMMA BuildFacts ==
    ASSUME build \in Builds
    PROVE  build.cameras \subseteq Producers
<1>1. build \in Build  BY BuildAssumption DEF BuildAssumption
<1>. QED  BY <1>1 DEF Build

LEMMA BuildStays == [Next]_vars => build' = build /\ Policy' = Policy /\ HashDedup' = HashDedup
<1>1. ASSUME NEW p, NEW i, PutCall(p, i) PROVE build' = build  BY <1>1 DEF PutCall
<1>2. ASSUME NEW p, PutStep(p) PROVE build' = build
  BY <1>2 DEF PutStep, PutDedup, PutHasRoom, PutFoundFull, PutDiscard, PutEvict, PutEnqueue
<1>3. Get \/ ClearCall \/ ClearStep \/ Finished \/ UNCHANGED vars => build' = build
  BY DEF Get, ClearCall, ClearStep, ClearPop, ClearReturn, Finished, vars, source
<1>4. [Next]_vars => build' = build  BY <1>1, <1>2, <1>3 DEF Next
<1>. QED  BY <1>4 DEF Policy, HashDedup

\* Every variable keeps its type and _q its capacity: put_nowait() refuses a
\* frame whenever a step of another producer filled the queue after full().
THEOREM TypeCorrect == Spec => []TypeOK
<1> USE CapacityAssumption, BoundAssumption DEF CapacityAssumption, BoundAssumption
<1>1. Init => TypeOK
  <2> SUFFICES ASSUME Init PROVE TypeOK
    OBVIOUS
  <2>1. <<>> \in Seq(Frames) /\ Len(<<>>) = 0
    OBVIOUS
  <2>2. pc \in [Producers -> PutSteps] /\ \A p \in Producers : pc[p] = "idle"
    BY DEF Init, PutSteps
  <2>3. frame \in [Producers -> [id : 0 .. MaxPuts, img : Images \cup {NoImage}]]
    BY DEF Init
  <2>4. q = <<>> /\ enq = <<>> /\ got = <<>> /\ evicted = <<>> /\ refused = <<>> /\ wiped = <<>>
    BY DEF Init
  <2>5. /\ q \in Seq(Frames) /\ Len(q) <= MaxSize
        /\ enq \in Seq(Frames) /\ got \in Seq(Frames)
        /\ evicted \in Seq(Frames) /\ refused \in Seq(Frames) /\ wiped \in Seq(Frames)
    BY <2>1, <2>4
  <2>6. clearing \in BOOLEAN
    BY DEF Init
  <2>7. /\ build \in Builds
        /\ lastHash \in Images \cup {NoImage}
        /\ dropped \in Nat /\ enqueued \in Nat
        /\ puts \in 0 .. MaxPuts /\ clears \in 0 .. MaxClears
    BY DEF Init
  <2> QED BY <2>2, <2>3, <2>5, <2>6, <2>7 DEF TypeOK
<1>2. TypeOK /\ [Next]_vars => TypeOK'
  <2> SUFFICES ASSUME TypeOK, [Next]_vars PROVE TypeOK'
    OBVIOUS
  <2> USE DEF TypeOK, PutSteps, Goto
  <2>1. ASSUME NEW p \in Producers, NEW i \in Images, PutCall(p, i) PROVE TypeOK'
    <3>1. puts' \in 0 .. MaxPuts /\ puts' \in 1 .. MaxPuts
      BY <2>1 DEF PutCall
    <3>2. frame' \in [Producers -> [id : 0 .. MaxPuts, img : Images \cup {NoImage}]]
      BY <2>1, <3>1 DEF PutCall
    <3>3. \A r \in Producers : pc'[r] # "idle" => frame'[r] \in Frames
      BY <2>1, <3>1 DEF PutCall, Frames
    <3> QED BY <2>1, <3>1, <3>2, <3>3 DEF PutCall
  <2>2. ASSUME NEW p \in Producers, PutDedup(p) PROVE TypeOK'
    BY <2>2 DEF PutDedup, history
  <2>3. ASSUME NEW p \in Producers, PutHasRoom(p) PROVE TypeOK'
    BY <2>3 DEF PutHasRoom, history
  <2>4. ASSUME NEW p \in Producers, PutFoundFull(p) PROVE TypeOK'
    BY <2>4 DEF PutFoundFull, history
  <2>5. ASSUME NEW p \in Producers, PutDiscard(p) PROVE TypeOK'
    BY <2>5 DEF PutDiscard
  <2>6. ASSUME NEW p \in Producers, PutEvict(p) PROVE TypeOK'
    <3>1. q' \in Seq(Frames) /\ Len(q') <= MaxSize /\ evicted' \in Seq(Frames) /\ dropped' \in Nat
      <4>1. CASE q = <<>>
        <5>1. q' = q /\ dropped' = dropped /\ evicted' = evicted
          BY <2>6, <4>1 DEF PutEvict
        <5> QED BY <5>1
      <4>2. CASE q # <<>>
        <5>1. Tail(q) \in Seq(Frames) /\ Head(q) \in Frames /\ Len(Tail(q)) <= MaxSize
          BY <4>2
        <5>2. q' = Tail(q) /\ dropped' = dropped + 1 /\ evicted' = Append(evicted, Head(q))
          BY <2>6, <4>2 DEF PutEvict
        <5> QED BY <5>1, <5>2
      <4> QED BY <4>1, <4>2
    <3>2. pc' \in [Producers -> PutSteps] /\ \A r \in Producers : pc'[r] # "idle" => frame'[r] \in Frames
      BY <2>6 DEF PutEvict
    <3> QED BY <2>6, <3>1, <3>2 DEF PutEvict
  <2>7. ASSUME NEW p \in Producers, PutEnqueue(p) PROVE TypeOK'
    <3>1. frame[p] \in Frames
      BY <2>7 DEF PutEnqueue
    <3>2. /\ q' \in Seq(Frames) /\ Len(q') <= MaxSize /\ enq' \in Seq(Frames)
          /\ refused' \in Seq(Frames) /\ dropped' \in Nat /\ enqueued' \in Nat
      <4>1. CASE Full
        <5>1. /\ q' = q /\ enq' = enq /\ enqueued' = enqueued
              /\ dropped' = dropped + 1 /\ refused' = Append(refused, frame[p])
          BY <2>7, <4>1 DEF PutEnqueue
        <5> QED BY <3>1, <5>1
      <4>2. CASE ~Full
        <5>1. /\ q' = Append(q, frame[p]) /\ enq' = Append(enq, frame[p])
              /\ enqueued' = enqueued + 1 /\ dropped' = dropped /\ refused' = refused
          BY <2>7, <4>2 DEF PutEnqueue
        <5>2. Len(q) < MaxSize
          BY <4>2 DEF Full
        <5> QED BY <3>1, <5>1, <5>2
      <4> QED BY <4>1, <4>2
    <3>3. pc' \in [Producers -> PutSteps] /\ \A r \in Producers : pc'[r] # "idle" => frame'[r] \in Frames
      BY <2>7 DEF PutEnqueue
    <3> QED BY <2>7, <3>2, <3>3 DEF PutEnqueue
  <2>8. CASE Get
    <3>1. Tail(q) \in Seq(Frames) /\ Head(q) \in Frames /\ Len(Tail(q)) <= MaxSize
      BY <2>8 DEF Get
    <3> QED BY <2>8, <3>1 DEF Get
  <2>9. CASE ClearCall
    BY <2>9 DEF ClearCall
  <2>10. CASE ClearPop
    <3>1. Tail(q) \in Seq(Frames) /\ Head(q) \in Frames /\ Len(Tail(q)) <= MaxSize
      BY <2>10 DEF ClearPop
    <3> QED BY <2>10, <3>1 DEF ClearPop
  <2>11. CASE ClearReturn
    BY <2>11 DEF ClearReturn, history
  <2>12. CASE UNCHANGED vars
    BY <2>12 DEF vars, source, history
  <2> QED
    BY <2>1, <2>2, <2>3, <2>4, <2>5, <2>6, <2>7, <2>8, <2>9, <2>10, <2>11, <2>12, BuildFacts
    DEF Next, PutStep, ClearStep, Finished
<1> QED BY <1>1, <1>2, PTL DEF Spec

-----------------------------------------------------------------------------
(* What each step does to the sequences, used by the theorems below.          *)

\* A step leaves the frames alone, refuses one, enqueues one, or takes the
\* oldest one out for one of the three reasons.
Quiet    == UNCHANGED <<q, enq, got, evicted, refused, wiped, dropped, enqueued>>
Refuse   == \E f \in Frames : /\ refused' = Append(refused, f) /\ dropped' = dropped + 1
                             /\ UNCHANGED <<q, enq, got, evicted, wiped, enqueued>>
Enqueue  == \E f \in Frames : /\ q' = Append(q, f) /\ enq' = Append(enq, f)
                             /\ enqueued' = enqueued + 1 /\ Len(q) < MaxSize
                             /\ UNCHANGED <<got, evicted, refused, wiped, dropped>>
TakeHead == q # <<>> /\ q' = Tail(q) /\ UNCHANGED <<enq, refused, enqueued>>
Decode   == TakeHead /\ got' = Append(got, Head(q)) /\ UNCHANGED <<evicted, wiped, dropped>>
Evict    == /\ TakeHead /\ evicted' = Append(evicted, Head(q)) /\ dropped' = dropped + 1
            /\ UNCHANGED <<got, wiped>>
Wipe     == TakeHead /\ wiped' = Append(wiped, Head(q)) /\ UNCHANGED <<got, evicted, dropped>>

\* Every step of the threads has one of these effects on the frames and counters.
LEMMA StepEffect ==
    ASSUME TypeOK, [Next]_vars
    PROVE  Quiet \/ Refuse \/ Enqueue \/ Decode \/ Evict \/ Wipe
<1> USE DEF Quiet, Refuse, Enqueue, TakeHead, Decode, Evict, Wipe
<1>1. ASSUME NEW p \in Producers, NEW i \in Images, PutCall(p, i) PROVE Quiet
  BY <1>1 DEF PutCall
<1>2. ASSUME NEW p \in Producers, PutDedup(p) \/ PutHasRoom(p) \/ PutFoundFull(p) PROVE Quiet
  BY <1>2 DEF PutDedup, PutHasRoom, PutFoundFull, history
<1>3. ASSUME NEW p \in Producers, PutDiscard(p) PROVE Refuse
  BY <1>3 DEF PutDiscard, TypeOK
<1>4. ASSUME NEW p \in Producers, PutEvict(p) PROVE Quiet \/ Evict
  <2>1. CASE q = <<>>
    BY <1>4, <2>1 DEF PutEvict
  <2>2. CASE q # <<>>
    BY <1>4, <2>2 DEF PutEvict
  <2> QED BY <2>1, <2>2
<1>5. ASSUME NEW p \in Producers, PutEnqueue(p) PROVE Refuse \/ Enqueue
  <2>1. frame[p] \in Frames
    BY <1>5 DEF PutEnqueue, TypeOK
  <2>2. CASE Full
    BY <1>5, <2>1, <2>2 DEF PutEnqueue
  <2>3. CASE ~Full
    <3>1. Len(q) < MaxSize
      BY <2>3, CapacityAssumption DEF Full, TypeOK, CapacityAssumption
    <3>2. /\ q' = Append(q, frame[p]) /\ enq' = Append(enq, frame[p])
          /\ enqueued' = enqueued + 1
          /\ UNCHANGED <<got, evicted, refused, wiped, dropped>>
      BY <1>5, <2>3 DEF PutEnqueue
    <3> QED BY <2>1, <3>1, <3>2
  <2> QED BY <2>2, <2>3
<1>6. CASE Get
  BY <1>6 DEF Get
<1>7. CASE ClearCall
  BY <1>7 DEF ClearCall
<1>8. CASE ClearPop
  BY <1>8 DEF ClearPop
<1>9. CASE ClearReturn
  BY <1>9 DEF ClearReturn, history
<1>10. CASE UNCHANGED vars
  BY <1>10 DEF vars, source, history
<1> QED
  BY <1>1, <1>2, <1>3, <1>4, <1>5, <1>6, <1>7, <1>8, <1>9, <1>10, BuildFacts
  DEF Next, PutStep, ClearStep, Finished, TypeOK

\* No frame is lost without being counted, for any number of producers.
THEOREM AccountingCorrect == Spec => []Accounting
<1>1. Init => Accounting
  <2> SUFFICES ASSUME Init PROVE Accounting
    OBVIOUS
  <2>1. Len(q) = 0 /\ Len(enq) = 0 /\ Len(got) = 0 /\ Len(evicted) = 0
        /\ Len(refused) = 0 /\ Len(wiped) = 0
    BY DEF Init
  <2> QED BY <2>1 DEF Init, Accounting
<1>2. TypeOK /\ Accounting /\ [Next]_vars => Accounting'
  <2> SUFFICES ASSUME TypeOK, Accounting, [Next]_vars PROVE Accounting'
    OBVIOUS
  <2>0. /\ Len(q) \in Nat /\ Len(enq) \in Nat /\ Len(got) \in Nat /\ Len(evicted) \in Nat
        /\ Len(refused) \in Nat /\ Len(wiped) \in Nat /\ dropped \in Nat /\ enqueued \in Nat
    BY DEF TypeOK
  <2>1. CASE Quiet
    BY <2>1 DEF Quiet, Accounting
  <2>2. CASE Refuse
    <3>1. Len(refused') = Len(refused) + 1
      BY <2>2 DEF Refuse, TypeOK
    <3> QED BY <2>0, <2>2, <3>1 DEF Refuse, Accounting
  <2>3. CASE Enqueue
    <3>1. Len(q') = Len(q) + 1 /\ Len(enq') = Len(enq) + 1
      BY <2>3 DEF Enqueue, TypeOK
    <3> QED BY <2>0, <2>3, <3>1 DEF Enqueue, Accounting
  <2>4. CASE Decode
    <3>1. Len(q') = Len(q) - 1 /\ Len(got') = Len(got) + 1
      BY <2>4 DEF Decode, TakeHead, TypeOK
    <3>2. /\ enq' = enq /\ refused' = refused /\ enqueued' = enqueued
          /\ evicted' = evicted /\ wiped' = wiped /\ dropped' = dropped
      BY <2>4 DEF Decode, TakeHead
    <3> QED BY <2>0, <3>1, <3>2 DEF Accounting
  <2>5. CASE Evict
    <3>1. Len(q') = Len(q) - 1 /\ Len(evicted') = Len(evicted) + 1
      BY <2>5 DEF Evict, TakeHead, TypeOK
    <3>2. /\ enq' = enq /\ refused' = refused /\ enqueued' = enqueued
          /\ got' = got /\ wiped' = wiped /\ dropped' = dropped + 1
      BY <2>5 DEF Evict, TakeHead
    <3> QED BY <2>0, <3>1, <3>2 DEF Accounting
  <2>6. CASE Wipe
    <3>1. Len(q') = Len(q) - 1 /\ Len(wiped') = Len(wiped) + 1
      BY <2>6 DEF Wipe, TakeHead, TypeOK
    <3>2. /\ enq' = enq /\ refused' = refused /\ enqueued' = enqueued
          /\ got' = got /\ evicted' = evicted /\ dropped' = dropped
      BY <2>6 DEF Wipe, TakeHead
    <3> QED BY <2>0, <3>1, <3>2 DEF Accounting
  <2> QED BY <2>1, <2>2, <2>3, <2>4, <2>5, <2>6, StepEffect
<1> QED BY <1>1, <1>2, TypeCorrect, PTL DEF Spec

-----------------------------------------------------------------------------
(* Refinement: the queue is always the unread end of the log of accepted      *)
(* frames, which is what places the cursor of LossyFifo.                      *)

Suffix ==
    /\ Len(q) <= Len(enq)
    /\ \A k \in 1 .. Len(q) : q[k] = enq[Len(enq) - Len(q) + k]

\* Enqueueing extends both ends and taking shortens the front, so q stays a suffix.
LEMMA SuffixStep ==
    ASSUME TypeOK, Suffix, [Next]_vars
    PROVE  Suffix'
<1>0. q \in Seq(Frames) /\ enq \in Seq(Frames)
  BY DEF TypeOK
<1>1. CASE q' = q /\ enq' = enq
  BY <1>1 DEF Suffix
<1>2. CASE Enqueue
  <2>1. PICK f \in Frames : q' = Append(q, f) /\ enq' = Append(enq, f)
    BY <1>2 DEF Enqueue
  <2>2. /\ Len(q') = Len(q) + 1 /\ Len(enq') = Len(enq) + 1
        /\ q'[Len(q) + 1] = f /\ enq'[Len(enq) + 1] = f
        /\ \A k \in 1 .. Len(q) : q'[k] = q[k]
        /\ \A k \in 1 .. Len(enq) : enq'[k] = enq[k]
    BY <1>0, <2>1
  <2>3. ASSUME NEW k \in 1 .. Len(q') PROVE q'[k] = enq'[Len(enq') - Len(q') + k]
    <3> DEFINE at == Len(enq) - Len(q) + k
    <3>1. Len(enq') - Len(q') + k = at
      BY <1>0, <2>2
    <3>2. CASE k \in 1 .. Len(q)
      <4>1. at \in 1 .. Len(enq)
        BY <1>0, <3>2 DEF Suffix
      <4> QED BY <2>2, <3>1, <3>2, <4>1 DEF Suffix
    <3>3. CASE k = Len(q) + 1
      <4>1. at = Len(enq) + 1
        BY <1>0, <3>3
      <4> QED BY <2>2, <3>1, <3>3, <4>1
    <3> QED BY <1>0, <2>2, <3>2, <3>3
  <2>4. Len(q') <= Len(enq')
    BY <1>0, <2>2 DEF Suffix
  <2> QED BY <2>3, <2>4 DEF Suffix
<1>3. CASE TakeHead
  <2>1. /\ Len(q) > 0 /\ Len(q') = Len(q) - 1 /\ enq' = enq
        /\ \A k \in 1 .. Len(q) - 1 : q'[k] = q[k + 1]
    BY <1>0, <1>3 DEF TakeHead
  <2> QED BY <1>0, <2>1 DEF Suffix
<1> QED
  BY <1>1, <1>2, <1>3, StepEffect DEF Quiet, Refuse, Decode, Evict, Wipe

\* A step of the queue is a step of the abstract channel, or none of it.
LEMMA ChannelStep ==
    ASSUME TypeOK, Suffix, [Next]_vars
    PROVE  [Channel!Next]_Channel!vars
<1> DEFINE cursor == Len(enq) + 1 - Len(q)
<1>0. q \in Seq(Frames) /\ enq \in Seq(Frames) /\ Len(q) \in Nat /\ Len(enq) \in Nat
  BY DEF TypeOK
<1>1. Channel!Unread = Len(q)
  BY <1>0 DEF Channel!Unread
<1>2. CASE Quiet \/ Refuse
  BY <1>2 DEF Quiet, Refuse, Channel!vars
<1>3. CASE Enqueue
  <2>1. PICK f \in Frames : q' = Append(q, f) /\ enq' = Append(enq, f) /\ got' = got
    BY <1>3 DEF Enqueue
  <2>2. cursor' = cursor
    BY <1>0, <2>1
  <2>3. Len(q) < MaxSize
    BY <1>3 DEF Enqueue
  <2> QED BY <1>1, <2>1, <2>2, <2>3 DEF Channel!Next, Channel!Accept
<1>4. ASSUME TakeHead PROVE cursor' = cursor + 1 /\ Head(q) = enq[cursor] /\ Len(q) > 0
  <2>1. Len(q) > 0 /\ Len(q') = Len(q) - 1 /\ enq' = enq
    BY <1>0, <1>4 DEF TakeHead
  <2>2. Head(q) = q[1] /\ q[1] = enq[Len(enq) - Len(q) + 1]
    BY <1>0, <2>1 DEF Suffix
  <2>3. Len(enq) - Len(q) + 1 = cursor
    BY <1>0
  <2> QED BY <1>0, <2>1, <2>2, <2>3
<1>5. CASE Decode
  <2>1. got' = Append(got, enq[cursor]) /\ enq' = enq /\ cursor' = cursor + 1 /\ Len(q) > 0
    BY <1>4, <1>5 DEF Decode, TakeHead
  <2> QED BY <1>1, <2>1 DEF Channel!Next, Channel!Read
<1>6. CASE Evict \/ Wipe
  <2>1. got' = got /\ enq' = enq /\ cursor' = cursor + 1 /\ Len(q) > 0
    BY <1>4, <1>6 DEF Evict, Wipe, TakeHead
  <2> QED BY <1>1, <2>1 DEF Channel!Next, Channel!LoseOldest
<1> QED BY <1>2, <1>3, <1>5, <1>6, StepEffect

\* The decoder's view, for any number of producers and any interleaving: a
\* log read in order in which only the oldest unread frame is ever lost.
THEOREM QueueIsLossyFifo == Spec => IsLossyFifo
<1>1. Init => Suffix /\ Channel!Init
  <2> SUFFICES ASSUME Init PROVE Suffix /\ Channel!Init
    OBVIOUS
  <2>1. q = <<>> /\ enq = <<>> /\ got = <<>> /\ Len(q) = 0 /\ Len(enq) = 0
    BY DEF Init
  <2> QED BY <2>1 DEF Suffix, Channel!Init
<1>2. TypeOK /\ Suffix /\ [Next]_vars => Suffix' /\ [Channel!Next]_Channel!vars
  BY SuffixStep, ChannelStep
<1> QED BY <1>1, <1>2, TypeCorrect, PTL DEF Spec, IsLossyFifo, Channel!Spec

-----------------------------------------------------------------------------
(* Capture order, for the one producer thread the adapter runs.               *)

\* Ids in s come from earlier calls of put(): from before the running call.
Earlier(c, s) ==
    \A k \in 1 .. Len(s) : s[k].id <= puts /\ (pc[c] # "idle" => s[k].id < puts)

Sorted(s) == \A i, j \in 1 .. Len(s) : i < j => s[i].id < s[j].id

OrderInv(c) ==
    /\ pc[c] # "idle" => frame[c].id = puts
    /\ Earlier(c, q) /\ Earlier(c, got) /\ Earlier(c, evicted)
    /\ Sorted(q) /\ Sorted(got)
    /\ \A i \in 1 .. Len(got), j \in 1 .. Len(q) : got[i].id < q[j].id

\* One camera thread numbers its frames as it puts them, so no step of put(), get()
\* or clear() brings an older frame behind a newer one.
LEMMA OrderStep ==
    ASSUME NEW c \in Producers, build.cameras = {c}, TypeOK, OrderInv(c), [Next]_vars
    PROVE  OrderInv(c)'
<1>0. /\ q \in Seq(Frames) /\ got \in Seq(Frames) /\ evicted \in Seq(Frames)
      /\ puts \in Nat /\ c \in Producers
      /\ pc \in [Producers -> PutSteps] /\ DOMAIN frame = Producers
  BY BoundAssumption DEF TypeOK, BoundAssumption
<1>id. \A f \in Frames : f.id \in Nat
  BY BoundAssumption DEF Frames, BoundAssumption
<1>ids. /\ \A k \in 1 .. Len(q) : q[k] \in Frames /\ q[k].id \in Nat
        /\ \A k \in 1 .. Len(got) : got[k] \in Frames /\ got[k].id \in Nat
        /\ \A k \in 1 .. Len(evicted) : evicted[k] \in Frames /\ evicted[k].id \in Nat
  BY <1>0, <1>id
<1>1. ASSUME NEW p \in build.cameras, NEW i \in Images, PutCall(p, i) PROVE OrderInv(c)'
  <2>1. /\ puts' = puts + 1 /\ frame'[c].id = puts + 1
        /\ q' = q /\ got' = got /\ evicted' = evicted
    BY <1>0, <1>1 DEF PutCall
  <2> QED BY <1>0, <1>ids, <2>1 DEF OrderInv, Earlier, Sorted
<1>2. ASSUME q' = q, got' = got, evicted' = evicted, puts' = puts, frame' = frame,
             pc'[c] # "idle" => pc[c] # "idle"
      PROVE  OrderInv(c)'
  BY <1>2 DEF OrderInv, Earlier, Sorted
<1>3. ASSUME NEW p \in build.cameras,
             PutDedup(p) \/ PutHasRoom(p) \/ PutFoundFull(p) \/ PutDiscard(p)
      PROVE  OrderInv(c)'
  <2>1. p = c
    BY <1>3
  <2>2. pc[c] # "idle"
    BY <1>3, <2>1 DEF PutDedup, PutHasRoom, PutFoundFull, PutDiscard
  <2>3. q' = q /\ got' = got /\ evicted' = evicted /\ puts' = puts /\ frame' = frame
    BY <1>3 DEF PutDedup, PutHasRoom, PutFoundFull, PutDiscard, history
  <2> QED BY <1>2, <2>2, <2>3
<1>4. ASSUME TakeHead, puts' = puts, frame' = frame,
             pc'[c] # "idle" => pc[c] # "idle",
             \/ got' = Append(got, Head(q)) /\ evicted' = evicted
             \/ got' = got /\ evicted' = Append(evicted, Head(q))
             \/ got' = got /\ evicted' = evicted
      PROVE  OrderInv(c)'
  <2>1. /\ Len(q) > 0 /\ Len(q') = Len(q) - 1 /\ Head(q) = q[1]
        /\ \A k \in 1 .. Len(q') : q'[k] = q[k + 1] /\ k + 1 \in 1 .. Len(q)
    BY <1>0, <1>4 DEF TakeHead
  <2>2. /\ Earlier(c, q)' /\ Sorted(q')
        /\ \A j \in 1 .. Len(q') : q[1].id < q'[j].id
        /\ \A i \in 1 .. Len(got), j \in 1 .. Len(q') : got[i].id < q'[j].id
    <3>1. Earlier(c, q)'
      BY <1>4, <2>1 DEF OrderInv, Earlier
    <3>2. ASSUME NEW i \in 1 .. Len(q'), NEW j \in 1 .. Len(q'), i < j
          PROVE  q'[i].id < q'[j].id
      <4>1. i + 1 \in 1 .. Len(q) /\ j + 1 \in 1 .. Len(q) /\ i + 1 < j + 1
        BY <2>1, <3>2
      <4> QED BY <2>1, <4>1 DEF OrderInv, Sorted
    <3>3. ASSUME NEW j \in 1 .. Len(q') PROVE q[1].id < q'[j].id
      <4>1. 1 \in 1 .. Len(q) /\ j + 1 \in 1 .. Len(q) /\ 1 < j + 1
        BY <1>0, <2>1
      <4> QED BY <2>1, <4>1 DEF OrderInv, Sorted
    <3>4. \A i \in 1 .. Len(got), j \in 1 .. Len(q') : got[i].id < q'[j].id
      BY <2>1 DEF OrderInv
    <3> QED BY <3>1, <3>2, <3>3, <3>4 DEF Sorted
  <2>4. CASE got' = Append(got, Head(q)) /\ evicted' = evicted
    <3>1. /\ Len(got') = Len(got) + 1 /\ got'[Len(got) + 1] = q[1]
          /\ \A k \in 1 .. Len(got) : got'[k] = got[k]
      BY <1>0, <2>1, <2>4
    <3>2. Earlier(c, got)' /\ Earlier(c, evicted)'
      BY <1>0, <1>4, <2>1, <2>4, <3>1 DEF OrderInv, Earlier
    <3>5. Len(got) \in Nat /\ \A k \in 1 .. Len(got') : k \in 1 .. Len(got) \/ k = Len(got) + 1
      BY <1>0, <3>1
    <3>6. \A i \in 1 .. Len(got) : got[i].id < q[1].id
      BY <1>0, <2>1 DEF OrderInv
    <3>3. Sorted(got')
      <4> SUFFICES ASSUME NEW i \in 1 .. Len(got'), NEW j \in 1 .. Len(got'), i < j
                   PROVE  got'[i].id < got'[j].id
        BY DEF Sorted
      <4>1. i \in 1 .. Len(got)
        BY <3>1, <3>5
      <4>2. CASE j \in 1 .. Len(got)
        BY <3>1, <4>1, <4>2 DEF OrderInv, Sorted
      <4>3. CASE j = Len(got) + 1
        BY <3>1, <3>6, <4>1, <4>3
      <4> QED BY <3>5, <4>2, <4>3
    <3>4. \A i \in 1 .. Len(got'), j \in 1 .. Len(q') : got'[i].id < q'[j].id
      BY <2>2, <3>1, <3>5
    <3> QED BY <1>4, <2>2, <3>2, <3>3, <3>4 DEF OrderInv
  <2>5. CASE got' = got /\ evicted' = Append(evicted, Head(q))
    <3>1. /\ Len(evicted') = Len(evicted) + 1 /\ evicted'[Len(evicted) + 1] = q[1]
          /\ \A k \in 1 .. Len(evicted) : evicted'[k] = evicted[k]
      BY <1>0, <2>1, <2>5
    <3>2. Earlier(c, got)' /\ Earlier(c, evicted)'
      BY <1>0, <1>4, <2>1, <2>5, <3>1 DEF OrderInv, Earlier
    <3> QED BY <1>4, <2>2, <2>5, <3>2 DEF OrderInv
  <2>6. CASE got' = got /\ evicted' = evicted
    <3>1. Earlier(c, got)' /\ Earlier(c, evicted)'
      BY <1>4, <2>6 DEF OrderInv, Earlier
    <3> QED BY <1>4, <2>2, <2>6, <3>1 DEF OrderInv
  <2> QED BY <1>4, <2>4, <2>5, <2>6
<1>5. ASSUME NEW p \in build.cameras, PutEvict(p) PROVE OrderInv(c)'
  <2>1. p = c /\ pc[c] # "idle" /\ puts' = puts /\ frame' = frame /\ got' = got
    BY <1>5 DEF PutEvict
  <2>2. CASE q = <<>>
    <3>1. q' = q /\ evicted' = evicted
      BY <1>5, <2>2 DEF PutEvict
    <3> QED BY <1>2, <2>1, <3>1
  <2>3. CASE q # <<>>
    <3>1. TakeHead /\ evicted' = Append(evicted, Head(q))
      BY <1>5, <2>3 DEF PutEvict, TakeHead
    <3> QED BY <1>4, <2>1, <3>1
  <2> QED BY <2>2, <2>3
<1>6. ASSUME NEW p \in build.cameras, PutEnqueue(p) PROVE OrderInv(c)'
  <2>1. /\ p = c /\ pc[c] # "idle" /\ pc'[c] = "idle" /\ puts' = puts
        /\ frame' = frame /\ got' = got /\ evicted' = evicted /\ frame[c] \in Frames
    BY <1>0, <1>6 DEF PutEnqueue, Goto, TypeOK
  <2>2. CASE Full
    <3>1. q' = q
      BY <1>6, <2>2 DEF PutEnqueue
    <3> QED BY <1>2, <2>1, <3>1
  <2>3. CASE ~Full
    <3>1. q' = Append(q, frame[c])
      BY <1>6, <2>1, <2>3 DEF PutEnqueue
    <3>2. /\ Len(q') = Len(q) + 1 /\ q'[Len(q) + 1] = frame[c] /\ frame[c].id = puts
          /\ \A k \in 1 .. Len(q) : q'[k] = q[k]
      BY <1>0, <2>1, <3>1 DEF OrderInv
    <3>3. Earlier(c, q)' /\ Earlier(c, got)' /\ Earlier(c, evicted)'
      <4>1. Earlier(c, got)' /\ Earlier(c, evicted)'
        BY <2>1 DEF OrderInv, Earlier
      <4>2. \A k \in 1 .. Len(q') : k \in 1 .. Len(q) \/ k = Len(q) + 1
        BY <1>0, <3>2
      <4>3. Earlier(c, q)'
        BY <1>0, <2>1, <3>2, <4>2 DEF OrderInv, Earlier
      <4> QED BY <4>1, <4>3
    <3>4. Sorted(q') /\ Sorted(got')
      <4> SUFFICES ASSUME NEW i \in 1 .. Len(q'), NEW j \in 1 .. Len(q'), i < j
                   PROVE  q'[i].id < q'[j].id
        BY <2>1 DEF OrderInv, Sorted
      <4>0. Len(q) \in Nat
        BY <1>0
      <4>1. i \in 1 .. Len(q) /\ (j \in 1 .. Len(q) \/ j = Len(q) + 1)
        BY <3>2, <4>0
      <4>2. CASE j \in 1 .. Len(q)
        BY <3>2, <4>1, <4>2 DEF OrderInv, Sorted
      <4>3. CASE j = Len(q) + 1
        BY <2>1, <3>2, <4>1, <4>3 DEF OrderInv, Earlier
      <4> QED BY <4>1, <4>2, <4>3
    <3>5. \A i \in 1 .. Len(got'), j \in 1 .. Len(q') : got'[i].id < q'[j].id
      BY <1>0, <2>1, <3>2 DEF OrderInv, Earlier
    <3> QED BY <2>1, <3>3, <3>4, <3>5 DEF OrderInv
  <2> QED BY <2>2, <2>3
<1>7. CASE Get
  <2>1. /\ TakeHead /\ got' = Append(got, Head(q)) /\ evicted' = evicted
        /\ puts' = puts /\ frame' = frame /\ pc' = pc
    BY <1>7 DEF Get, TakeHead
  <2> QED BY <1>4, <2>1
<1>8. CASE ClearPop
  <2>1. /\ TakeHead /\ got' = got /\ evicted' = evicted
        /\ puts' = puts /\ frame' = frame /\ pc' = pc
    BY <1>8 DEF ClearPop, TakeHead
  <2> QED BY <1>4, <2>1
<1>9. CASE ClearCall \/ ClearReturn \/ UNCHANGED vars
  <2>1. /\ q' = q /\ got' = got /\ evicted' = evicted
        /\ puts' = puts /\ frame' = frame /\ pc' = pc
    BY <1>9 DEF ClearCall, ClearReturn, vars, source, history
  <2> QED BY <1>2, <2>1
<1> QED
  BY <1>1, <1>3, <1>5, <1>6, <1>7, <1>8, <1>9
  DEF Next, PutStep, ClearStep, Finished

\* The decoder never gets an older frame after a newer one, and no frame
\* twice, however many were evicted or cleared in between.
THEOREM CaptureOrderCorrect == Spec => []CaptureOrder
<1> DEFINE Inv == \A c \in Producers : build.cameras = {c} => OrderInv(c)
<1>1. Init => Inv
  <2> SUFFICES ASSUME Init, NEW c \in Producers PROVE OrderInv(c)
    OBVIOUS
  <2>1. /\ pc[c] = "idle" /\ q = <<>> /\ got = <<>> /\ evicted = <<>>
        /\ Len(q) = 0 /\ Len(got) = 0 /\ Len(evicted) = 0
    BY DEF Init
  <2> QED BY <2>1 DEF OrderInv, Earlier, Sorted
<1>2. TypeOK /\ Inv /\ [Next]_vars => Inv'
  <2> SUFFICES ASSUME TypeOK, Inv, [Next]_vars, NEW c \in Producers, build'.cameras = {c}
               PROVE  OrderInv(c)'
    OBVIOUS
  <2>1. build.cameras = {c} /\ OrderInv(c)
    BY BuildStays
  <2> QED BY <2>1, OrderStep
<1>3. ASSUME NEW c, TypeOK, OrderInv(c) PROVE Increasing(got \o q)
  <2> SUFFICES ASSUME TypeOK, OrderInv(c),
                      NEW i \in DOMAIN (got \o q), NEW j \in DOMAIN (got \o q), i < j
               PROVE  (got \o q)[i].id < (got \o q)[j].id
    BY <1>3 DEF Increasing
  <2>1. /\ got \in Seq(Frames) /\ q \in Seq(Frames) /\ Len(got) \in Nat /\ Len(q) \in Nat
    BY DEF TypeOK
  <2>2. /\ i \in 1 .. Len(got) + Len(q) /\ j \in 1 .. Len(got) + Len(q)
        /\ i \in Nat /\ j \in Nat
    BY <2>1
  <2>3. \A k \in 1 .. Len(got) + Len(q) :
          (got \o q)[k] = IF k <= Len(got) THEN got[k] ELSE q[k - Len(got)]
    BY <2>1
  <2>4. CASE j <= Len(got)
    <3>1. i \in 1 .. Len(got) /\ j \in 1 .. Len(got)  BY <2>1, <2>2, <2>4
    <3>2. (got \o q)[i] = got[i] /\ (got \o q)[j] = got[j]  BY <2>1, <2>2, <2>3, <3>1
    <3>. QED  BY <3>1, <3>2 DEF OrderInv, Sorted
  <2>5. CASE i <= Len(got) /\ ~(j <= Len(got))
    <3>1. i \in 1 .. Len(got) /\ j - Len(got) \in 1 .. Len(q)
      BY <2>1, <2>2, <2>5
    <3> QED BY <2>2, <2>3, <2>5, <3>1 DEF OrderInv
  <2>6. CASE ~(i <= Len(got))
    <3>1. /\ i - Len(got) \in 1 .. Len(q) /\ j - Len(got) \in 1 .. Len(q)
          /\ i - Len(got) < j - Len(got) /\ ~(j <= Len(got))
      BY <2>1, <2>2, <2>6
    <3> QED BY <2>2, <2>3, <2>6, <3>1 DEF OrderInv, Sorted
  <2> QED BY <2>1, <2>2, <2>4, <2>5, <2>6
<1>4. TypeOK /\ Inv => CaptureOrder
  BY <1>3 DEF CaptureOrder, SingleCamera
<1> HIDE DEF Inv
<1> QED BY <1>1, <1>2, <1>4, TypeCorrect, PTL DEF Spec

-----------------------------------------------------------------------------
(* The newest image, for one producer thread under DROP_OLDEST.               *)

Outside == {"idle", "dedup"}   \* put() has not yet taken the frame on

LastOf(s) == s[Len(s)]

NewestInv(c) ==
    /\ HashDedup \/ (lastHash = NoImage /\ pc[c] # "dedup")
    /\ pc[c] = "enqueue" => Len(q) < MaxSize
    /\ lastHash \in Images =>
          IF pc[c] \in Outside THEN enq # <<>> /\ LastOf(enq).img = lastHash
                               ELSE lastHash = frame[c].img
    /\ pc[c] = "idle" /\ puts > 0 => enq # <<>> /\ LastOf(enq).img = frame[c].img
    /\ pc[c] \in Outside =>
          \A k \in 1 .. Len(evicted) : enq # <<>> /\ evicted[k].id < LastOf(enq).id

RepeatInv(c) ==
    (HashDedup /\ clears = 0) =>
        /\ ~clearing
        /\ enq # <<>> \/ pc[c] \notin Outside => lastHash \in Images
        /\ pc[c] \notin Outside /\ enq # <<>> => LastOf(enq).img # frame[c].img
        /\ \A k \in 1 .. Len(enq) - 1 : enq[k].img # enq[k + 1].img

SingleProducerInv ==
    \A c \in Producers :
        build.cameras = {c} /\ Policy = "DROP_OLDEST" => OrderInv(c) /\ NewestInv(c) /\ RepeatInv(c)

\* put() evicts the oldest frame and _last_hash follows the last frame
\* enqueued, so the newest image and the absence of repeats survive every step.
LEMMA NewestStep ==
    ASSUME NEW c \in Producers, build.cameras = {c}, Policy = "DROP_OLDEST",
           TypeOK, OrderInv(c), NewestInv(c), RepeatInv(c), [Next]_vars
    PROVE  NewestInv(c)' /\ RepeatInv(c)'
<1>0. /\ q \in Seq(Frames) /\ enq \in Seq(Frames) /\ evicted \in Seq(Frames)
      /\ puts \in Nat /\ clears \in Nat /\ c \in Producers /\ NoImage \notin Images
      /\ pc \in [Producers -> PutSteps] /\ MaxSize \in Nat \ {0} /\ Len(q) \in Nat
      /\ Len(q) <= MaxSize /\ Len(enq) \in Nat
      /\ DOMAIN frame = Producers
      /\ pc[c] # "idle" => frame[c] \in Frames /\ frame[c].img \in Images
  BY CapacityAssumption, BoundAssumption, ImageAssumption
  DEF TypeOK, CapacityAssumption, BoundAssumption, ImageAssumption, Frames
<1>b. HashDedup' = HashDedup
  BY BuildStays
<1> USE <1>b DEF Outside
<1>1. ASSUME NEW p \in build.cameras, NEW i \in Images, PutCall(p, i)
      PROVE  NewestInv(c)' /\ RepeatInv(c)'
  <2>1. /\ p = c /\ pc[c] = "idle" /\ puts' = puts + 1 /\ clears' = clears
        /\ pc'[c] = IF HashDedup THEN "dedup" ELSE "room"
        /\ q' = q /\ enq' = enq /\ evicted' = evicted /\ lastHash' = lastHash
        /\ clearing' = clearing
    BY <1>0, <1>1 DEF PutCall, Goto
  <2> QED BY <1>0, <2>1 DEF NewestInv, RepeatInv, LastOf
<1>2. ASSUME NEW p \in build.cameras, PutDedup(p) PROVE NewestInv(c)' /\ RepeatInv(c)'
  <2>1. /\ p = c /\ pc[c] = "dedup" /\ HashDedup
        /\ lastHash' = frame[c].img /\ frame[c].img \in Images
        /\ pc'[c] = IF frame[c].img = lastHash THEN "idle" ELSE "room"
        /\ q' = q /\ enq' = enq /\ evicted' = evicted /\ frame' = frame
        /\ puts' = puts /\ clears' = clears /\ clearing' = clearing
    BY <1>0, <1>2 DEF PutDedup, Goto, NewestInv, history
  <2>2. CASE frame[c].img = lastHash
    BY <2>1, <2>2 DEF NewestInv, RepeatInv, LastOf
  <2>3. CASE frame[c].img # lastHash
    BY <2>1, <2>3 DEF NewestInv, RepeatInv, LastOf
  <2> QED BY <2>2, <2>3
<1>3. ASSUME NEW p \in build.cameras, PutHasRoom(p) \/ PutFoundFull(p)
      PROVE  NewestInv(c)' /\ RepeatInv(c)'
  <2>1. /\ p = c /\ pc[c] = "room" /\ pc'[c] \in {"enqueue", "evict"}
        /\ pc'[c] = "enqueue" => Len(q) < MaxSize
        /\ lastHash' = lastHash /\ q' = q /\ enq' = enq /\ evicted' = evicted
        /\ frame' = frame /\ puts' = puts /\ clears' = clears /\ clearing' = clearing
    BY <1>0, <1>3 DEF PutHasRoom, PutFoundFull, Goto, Full, history
  <2> QED BY <2>1 DEF NewestInv, RepeatInv, LastOf
<1>4. ASSUME NEW p \in build.cameras, PutDiscard(p) PROVE NewestInv(c)' /\ RepeatInv(c)'
  BY <1>4 DEF PutDiscard
<1>5. ASSUME NEW p \in build.cameras, PutEvict(p) PROVE NewestInv(c)' /\ RepeatInv(c)'
  <2>1. /\ p = c /\ pc[c] = "evict" /\ pc'[c] = "enqueue"
        /\ lastHash' = lastHash /\ enq' = enq /\ frame' = frame
        /\ puts' = puts /\ clears' = clears /\ clearing' = clearing
    BY <1>0, <1>5 DEF PutEvict, Goto
  <2>2. Len(q') < MaxSize
    <3>1. CASE q = <<>>
      <4>1. q' = q
        BY <1>5, <3>1 DEF PutEvict
      <4>2. Len(q) = 0
        BY <3>1
      <4> QED BY <1>0, <4>1, <4>2
    <3>2. CASE q # <<>>
      <4>1. q' = Tail(q)
        BY <1>5, <3>2 DEF PutEvict
      <4> QED BY <1>0, <3>2, <4>1
    <3> QED BY <3>1, <3>2
  <2> QED BY <2>1, <2>2 DEF NewestInv, RepeatInv, LastOf
<1>6. ASSUME NEW p \in build.cameras, PutEnqueue(p) PROVE NewestInv(c)' /\ RepeatInv(c)'
  <2>1. p = c /\ pc[c] = "enqueue" /\ ~Full
    BY <1>0, <1>6 DEF PutEnqueue, NewestInv, Full
  <2>2. /\ pc'[c] = "idle" /\ enq' = Append(enq, frame[c]) /\ evicted' = evicted
        /\ lastHash' = lastHash /\ frame' = frame /\ puts' = puts
        /\ clears' = clears /\ clearing' = clearing
    BY <1>0, <1>6, <2>1 DEF PutEnqueue, Goto
  <2>3. /\ Len(enq') = Len(enq) + 1 /\ enq'[Len(enq) + 1] = frame[c] /\ enq' # <<>>
        /\ \A k \in 1 .. Len(enq) : enq'[k] = enq[k]
    BY <1>0, <2>1, <2>2
  <2>4. LastOf(enq') = frame[c]
    BY <2>3 DEF LastOf
  <2>5. \A k \in 1 .. Len(evicted) : evicted[k].id < frame[c].id
    BY <2>1 DEF OrderInv, Earlier
  <2>6. NewestInv(c)'
    BY <2>1, <2>2, <2>3, <2>4, <2>5 DEF NewestInv
  <2>7. RepeatInv(c)'
    <3> SUFFICES ASSUME HashDedup, clears = 0 PROVE RepeatInv(c)'
      BY <2>2 DEF RepeatInv
    <3>1. lastHash \in Images
      BY <2>1 DEF RepeatInv
    <3>2. ASSUME NEW k \in 1 .. Len(enq') - 1 PROVE enq'[k].img # enq'[k + 1].img
      <4>1. k \in 1 .. Len(enq) /\ enq'[k] = enq[k] /\ enq # <<>>
        BY <1>0, <2>3
      <4>2. CASE k = Len(enq)
        BY <2>1, <2>3, <4>1, <4>2 DEF RepeatInv, LastOf
      <4>3. CASE k # Len(enq)
        <5>1. k \in 1 .. Len(enq) - 1 /\ k + 1 \in 1 .. Len(enq)
          BY <1>0, <4>1, <4>3
        <5> QED BY <2>3, <4>1, <5>1 DEF RepeatInv
      <4> QED BY <4>2, <4>3
    <3> QED BY <2>2, <3>1, <3>2 DEF RepeatInv
  <2> QED BY <2>6, <2>7
<1>7. CASE Get \/ ClearPop
  <2>1. /\ q # <<>> /\ q' = Tail(q) /\ pc' = pc /\ enq' = enq /\ evicted' = evicted
        /\ lastHash' = lastHash /\ frame' = frame /\ puts' = puts
        /\ clears' = clears /\ clearing' = clearing
    BY <1>7 DEF Get, ClearPop
  <2>2. Len(q') < Len(q) /\ Len(q') \in Nat
    BY <1>0, <2>1
  <2> QED BY <1>0, <2>1, <2>2 DEF NewestInv, RepeatInv, LastOf
<1>8. CASE ClearCall
  <2>1. /\ q' = q /\ pc' = pc /\ enq' = enq /\ evicted' = evicted /\ lastHash' = lastHash
        /\ frame' = frame /\ puts' = puts /\ clears' # 0
    BY <1>0, <1>8 DEF ClearCall
  <2> QED BY <2>1 DEF NewestInv, RepeatInv, LastOf
<1>9. CASE ClearReturn
  <2>1. /\ q' = q /\ pc' = pc /\ enq' = enq /\ evicted' = evicted /\ lastHash' = NoImage
        /\ frame' = frame /\ puts' = puts /\ clears' = clears /\ clearing
    BY <1>9 DEF ClearReturn, history
  <2> QED BY <1>0, <2>1 DEF NewestInv, RepeatInv, LastOf
<1>10. CASE UNCHANGED vars
  <2>1. /\ q' = q /\ pc' = pc /\ enq' = enq /\ evicted' = evicted /\ lastHash' = lastHash
        /\ frame' = frame /\ puts' = puts /\ clears' = clears /\ clearing' = clearing
    BY <1>10 DEF vars, source, history
  <2> QED BY <2>1 DEF NewestInv, RepeatInv, LastOf
<1> QED
  BY <1>1, <1>2, <1>3, <1>4, <1>5, <1>6, <1>7, <1>8, <1>9, <1>10
  DEF Next, PutStep, ClearStep, Finished

\* What the two theorems below share: the invariants hold of the one producer.
LEMMA SingleProducerInvariant == Spec => [](TypeOK /\ SingleProducerInv)
<1>1. Init => SingleProducerInv
  <2> SUFFICES ASSUME Init, NEW c \in Producers
               PROVE  OrderInv(c) /\ NewestInv(c) /\ RepeatInv(c)
    BY DEF SingleProducerInv
  <2>1. /\ pc[c] = "idle" /\ q = <<>> /\ got = <<>> /\ evicted = <<>> /\ enq = <<>>
        /\ Len(q) = 0 /\ Len(got) = 0 /\ Len(evicted) = 0 /\ Len(enq) = 0
        /\ puts = 0 /\ lastHash = NoImage /\ ~clearing
    BY DEF Init
  <2>2. OrderInv(c)
    BY <2>1 DEF OrderInv, Earlier, Sorted
  <2>3. NewestInv(c) /\ RepeatInv(c)
    BY <2>1, ImageAssumption DEF NewestInv, RepeatInv, Outside, ImageAssumption
  <2> QED BY <2>2, <2>3
<1>2. TypeOK /\ SingleProducerInv /\ [Next]_vars => SingleProducerInv'
  <2> SUFFICES ASSUME TypeOK, SingleProducerInv, [Next]_vars, NEW c \in Producers,
                      build'.cameras = {c}, Policy' = "DROP_OLDEST"
               PROVE  (OrderInv(c) /\ NewestInv(c) /\ RepeatInv(c))'
    BY DEF SingleProducerInv
  <2>1. build.cameras = {c} /\ Policy = "DROP_OLDEST"
    BY BuildStays
  <2>2. OrderInv(c) /\ NewestInv(c) /\ RepeatInv(c)
    BY <2>1 DEF SingleProducerInv
  <2> QED BY <2>1, <2>2, OrderStep, NewestStep
<1> QED BY <1>1, <1>2, TypeCorrect, PTL DEF Spec

\* A full queue never costs the newest image: with one camera thread under
\* DROP_OLDEST, what put() was last called with is what was last enqueued, and
\* only frames older than it were evicted.
THEOREM NewestImageCorrect == Spec => []NewestImageKept
<1>1. TypeOK /\ SingleProducerInv => NewestImageKept
  <2> SUFFICES ASSUME TypeOK, SingleProducerInv, Policy = "DROP_OLDEST", SingleCamera, Idle, puts > 0
               PROVE  /\ enq # <<>>
                      /\ \E p \in Producers : enq[Len(enq)].img = frame[p].img
                      /\ \A k \in DOMAIN evicted : evicted[k].id < enq[Len(enq)].id
    BY DEF NewestImageKept
  <2>1. PICK c \in Producers : build.cameras = {c}
    BY DEF SingleCamera
  <2>2. NewestInv(c)
    BY <2>1 DEF SingleProducerInv
  <2>3. pc[c] = "idle" /\ DOMAIN evicted = 1 .. Len(evicted)
    BY DEF Idle, TypeOK
  <2> QED BY <2>2, <2>3 DEF NewestInv, Outside, LastOf
<1> QED BY <1>1, SingleProducerInvariant, PTL

\* The decoder is not handed the same screen twice in a row: DROP_OLDEST with
\* deduplication, one camera thread and no clear().
THEOREM NoRepeatedImageCorrect == Spec => []NoRepeatedImage
<1>1. SingleProducerInv => NoRepeatedImage
  BY DEF SingleProducerInv, RepeatInv, NoRepeatedImage, SingleCamera
<1> QED BY <1>1, SingleProducerInvariant, PTL

-----------------------------------------------------------------------------
(* What drop_rate divides by, for any number of producer threads.             *)

Active == {p \in Producers : pc[p] # "idle"}   \* the calls of put() under way

CountInv ==
    ~HashDedup =>
        /\ IsFiniteSet(Active)
        /\ enqueued + Len(refused) + Cardinality(Active) = puts
        /\ \A p \in Producers : pc[p] # "dedup"
        /\ Policy = "DISCARD_NEW" => evicted = <<>> /\ \A p \in Producers : pc[p] # "evict"

\* A call that begins joins the active ones, and one that ends has enqueued its
\* frame or refused it: never both, and never neither.
LEMMA CountStep ==
    ASSUME TypeOK, CountInv, [Next]_vars
    PROVE  CountInv'
<1>b. HashDedup' = HashDedup /\ Policy' = Policy
  BY BuildStays
<1> SUFFICES ASSUME ~HashDedup PROVE CountInv'
  BY <1>b DEF CountInv
<1> USE <1>b
<1>0. /\ enqueued \in Nat /\ puts \in Nat /\ refused \in Seq(Frames)
      /\ Len(refused) \in Nat /\ pc \in [Producers -> PutSteps]
      /\ \A p \in Producers : pc[p] # "idle" => frame[p] \in Frames
  BY BoundAssumption DEF TypeOK, BoundAssumption
<1>1. /\ IsFiniteSet(Active) /\ Cardinality(Active) \in Nat
      /\ enqueued + Len(refused) + Cardinality(Active) = puts
      /\ \A p \in Producers : pc[p] # "dedup"
      /\ Policy = "DISCARD_NEW" => evicted = <<>> /\ \A p \in Producers : pc[p] # "evict"
  BY FS_CardinalityType DEF CountInv
<1>2. ASSUME pc' = pc, enqueued' = enqueued, refused' = refused, puts' = puts,
             evicted' = evicted
      PROVE  CountInv'
  <2>1. Active' = Active
    BY <1>2 DEF Active
  <2> QED BY <1>1, <1>2, <2>1 DEF CountInv
<1>3. ASSUME NEW p \in Producers, NEW i \in Images, PutCall(p, i) PROVE CountInv'
  <2>1. /\ pc[p] = "idle" /\ pc' = [pc EXCEPT ![p] = "room"] /\ puts' = puts + 1
        /\ enqueued' = enqueued /\ refused' = refused /\ evicted' = evicted
    BY <1>3 DEF PutCall, Goto
  <2>2. Active' = Active \cup {p} /\ p \notin Active
    BY <1>0, <2>1 DEF Active
  <2>3. IsFiniteSet(Active') /\ Cardinality(Active') = Cardinality(Active) + 1
    BY <1>1, <2>2, FS_AddElement
  <2>4. \A o \in Producers : pc'[o] \in {pc[o], "room"}
    BY <1>0, <2>1
  <2>5. enqueued' + Len(refused') + Cardinality(Active') = puts'
    BY <1>0, <1>1, <2>1, <2>3
  <2> QED BY <1>1, <2>1, <2>3, <2>4, <2>5 DEF CountInv
<1>4. ASSUME NEW p \in Producers, PutHasRoom(p) \/ PutFoundFull(p) \/ PutEvict(p)
      PROVE  CountInv'
  <2>1. /\ pc[p] # "idle" /\ enqueued' = enqueued /\ refused' = refused /\ puts' = puts
        /\ pc' = [pc EXCEPT ![p] = pc'[p]] /\ pc'[p] \in {"enqueue", "evict"}
        /\ Policy = "DISCARD_NEW" => evicted' = evicted /\ pc'[p] # "evict"
    BY <1>0, <1>1, <1>4 DEF PutHasRoom, PutFoundFull, PutEvict, Goto, history
  <2>2. Active' = Active
    BY <1>0, <2>1 DEF Active
  <2>3. \A o \in Producers : pc'[o] \in {pc[o], pc'[p]}
    BY <1>0, <2>1
  <2> QED BY <1>1, <2>1, <2>2, <2>3 DEF CountInv
<1>5. ASSUME NEW p \in Producers, PutDiscard(p) \/ PutEnqueue(p) PROVE CountInv'
  <2>1. /\ pc[p] # "idle" /\ pc' = [pc EXCEPT ![p] = "idle"] /\ puts' = puts
        /\ evicted' = evicted /\ frame[p] \in Frames
    BY <1>0, <1>5 DEF PutDiscard, PutEnqueue, Goto
  <2>2. Active' = Active \ {p} /\ p \in Active
    BY <1>0, <2>1 DEF Active
  <2>3. IsFiniteSet(Active') /\ Cardinality(Active') = Cardinality(Active) - 1
    BY <1>1, <2>2, FS_RemoveElement
  <2>4. \/ enqueued' = enqueued /\ refused' = Append(refused, frame[p])
        \/ enqueued' = enqueued + 1 /\ refused' = refused
    BY <1>5 DEF PutDiscard, PutEnqueue
  <2>5. enqueued' + Len(refused') = enqueued + Len(refused) + 1
    BY <1>0, <2>1, <2>4
  <2>6. \A o \in Producers : pc'[o] \in {pc[o], "idle"}
    BY <1>0, <2>1
  <2>7. enqueued' + Len(refused') + Cardinality(Active') = puts'
    BY <1>0, <1>1, <2>1, <2>3, <2>5
  <2> QED BY <1>1, <2>1, <2>3, <2>6, <2>7 DEF CountInv
<1>6. ASSUME NEW p \in Producers, PutDedup(p) PROVE CountInv'
  BY <1>1, <1>6 DEF PutDedup
<1>7. CASE Get \/ ClearCall \/ ClearStep \/ UNCHANGED vars
  BY <1>2, <1>7
  DEF Get, ClearCall, ClearStep, ClearPop, ClearReturn, vars, source, history
<1> QED
  BY <1>3, <1>4, <1>5, <1>6, <1>7, BuildFacts DEF Next, PutStep, Finished, TypeOK

\* Without deduplication enqueued + dropped is what put() received plus what it
\* evicted, whatever the threads interleave: under DISCARD_NEW nothing is
\* evicted, and drop_rate has the total its docstring promises.
THEOREM DropRateCorrect == Spec => []DropRateCountsReceived
<1>1. Init => CountInv
  <2> SUFFICES ASSUME Init, ~HashDedup PROVE CountInv
    BY DEF CountInv
  <2>1. /\ Active = {} /\ enqueued = 0 /\ puts = 0 /\ refused = <<>> /\ evicted = <<>>
        /\ \A p \in Producers : pc[p] = "idle"
    BY DEF Init, Active
  <2>2. Len(refused) = 0 /\ IsFiniteSet(Active) /\ Cardinality(Active) = 0
    BY <2>1, FS_EmptySet
  <2> QED BY <2>1, <2>2 DEF CountInv
<1>2. TypeOK /\ Accounting /\ CountInv => DropRateCountsReceived
  <2> SUFFICES ASSUME TypeOK, Accounting, CountInv, ~HashDedup, Idle
               PROVE  /\ enqueued + dropped = puts + Len(evicted)
                      /\ Policy = "DISCARD_NEW" => evicted = <<>>
    BY DEF DropRateCountsReceived
  <2>1. Active = {}
    BY DEF Active, Idle
  <2>2. Cardinality(Active) = 0
    BY <2>1, FS_EmptySet
  <2>3. /\ enqueued \in Nat /\ puts \in Nat /\ Len(refused) \in Nat /\ Len(evicted) \in Nat
        /\ dropped = Len(evicted) + Len(refused)
    BY BoundAssumption DEF TypeOK, BoundAssumption, Accounting
  <2> QED BY <2>2, <2>3 DEF CountInv
<1>3. TypeOK /\ CountInv /\ [Next]_vars => CountInv'
  BY CountStep
<1> QED BY <1>1, <1>2, <1>3, TypeCorrect, AccountingCorrect, PTL DEF Spec
=============================================================================
