--------------------------- MODULE FifoFrameQueue ---------------------------
(***************************************************************************)
(* The frame queue between the camera thread and the decoder thread        *)
(* (transmision/implementation/queue.py, class FifoFrameQueue).            *)
(*                                                                         *)
(* put() is not one atomic operation: it remembers the hash of the frame   *)
(* under _lock, and then looks at the inner queue.Queue, evicts and        *)
(* enqueues in three further steps, each atomic by the inner queue's own   *)
(* lock only.  clear() holds _lock while it pops frame after frame.  The   *)
(* model has one action per such step.                                     *)
(*                                                                         *)
(* An image stands for every camera frame with the same _fast_hash.  The   *)
(* counters are incremented atomically, as CPython does (it switches       *)
(* threads at calls and at loop edges, and "x += 1" has neither).          *)
(***************************************************************************)
EXTENDS Naturals, Sequences

CONSTANTS
    Images,      \* what a captured frame shows, as _fast_hash tells them apart
    NoImage,     \* _last_hash before the first put() and after clear()
    Producers,   \* the threads that may call put()
    MaxSize,     \* capacity of the inner queue
    Builds,      \* how a queue may be built and used, see Build
    MaxPuts,     \* bound: calls of put()
    MaxClears    \* bound: calls of clear()

ASSUME CapacityAssumption == MaxSize \in Nat \ {0}

\* The parameters of the constructor, and the threads that call put().
Build == [policy : {"DROP_OLDEST", "DISCARD_NEW"}, dedup : BOOLEAN, cameras : SUBSET Producers]

ASSUME BuildAssumption == Builds \subseteq Build
ASSUME ImageAssumption == NoImage \notin Images
ASSUME BoundAssumption == MaxPuts \in Nat /\ MaxClears \in Nat

VARIABLES
    build,       \* the build in force
    q,           \* _q: the frames waiting for the decoder, oldest first
    lastHash,    \* _last_hash
    dropped,     \* _dropped
    enqueued,    \* _enqueued
    clearing,    \* a thread is inside clear() and holds _lock
    pc,          \* next step of each producer's put()
    frame,       \* the argument of each producer's put()
    \* History, read by properties only (puts and clears also by the bounds).
    puts,        \* calls of put() so far; a frame's id is its call number
    clears,      \* calls of clear() so far
    enq,         \* every frame ever put into _q, in that order
    got,         \* every frame get() returned
    evicted,     \* every frame DROP_OLDEST threw away
    refused,     \* every frame put() itself did not accept although new
    wiped        \* every frame clear() threw away

source  == <<build, q, lastHash, dropped, enqueued, clearing, pc, frame>>
history == <<puts, clears, enq, got, evicted, refused, wiped>>
vars    == <<source, history>>

Policy    == build.policy   \* _policy
HashDedup == build.dedup    \* _hash_dedup

Frames == [id : 1 .. MaxPuts, img : Images]
Idle == \A p \in Producers : pc[p] = "idle"

\* Slip: the capacity test is off by one.
FullLate == Len(q) > MaxSize

\* _q.full()
Full == Len(q) = MaxSize

Init ==
    /\ build \in Builds
    /\ q = <<>>
    /\ lastHash = NoImage
    /\ dropped = 0
    /\ enqueued = 0
    /\ clearing = FALSE
    /\ pc = [p \in Producers |-> "idle"]
    /\ frame = [p \in Producers |-> [id |-> 0, img |-> NoImage]]
    /\ puts = 0
    /\ clears = 0
    /\ enq = <<>>
    /\ got = <<>>
    /\ evicted = <<>>
    /\ refused = <<>>
    /\ wiped = <<>>

-----------------------------------------------------------------------------
(* put() *)

Goto(p, step) == pc' = [pc EXCEPT ![p] = step]

\* A thread calls put() with a frame that shows image i.
PutCall(p, i) ==
    /\ pc[p] = "idle"
    /\ puts < MaxPuts
    /\ puts' = puts + 1
    /\ frame' = [frame EXCEPT ![p] = [id |-> puts + 1, img |-> i]]
    /\ Goto(p, IF HashDedup THEN "dedup" ELSE "room")
    /\ UNCHANGED <<build, q, lastHash, dropped, enqueued, clearing,
                   clears, enq, got, evicted, refused, wiped>>

\* Slip: the hash is compared and never remembered.
PutDedupForgetful(p) ==
    /\ pc[p] = "dedup"
    /\ ~clearing
    /\ Goto(p, IF frame[p].img = lastHash THEN "idle" ELSE "room")
    /\ UNCHANGED <<build, q, lastHash, dropped, enqueued, clearing, frame, history>>

\* The critical section on _lock: a repeated hash ends the call.
PutDedup(p) ==
    /\ pc[p] = "dedup"
    /\ ~clearing
    /\ lastHash' = frame[p].img
    /\ Goto(p, IF frame[p].img = lastHash THEN "idle" ELSE "room")
    /\ UNCHANGED <<build, q, dropped, enqueued, clearing, frame, history>>

\* _q.full(), which is already old when the next step uses it.
PutHasRoom(p) ==
    /\ pc[p] = "room"
    /\ ~Full
    /\ Goto(p, "enqueue")
    /\ UNCHANGED <<build, q, lastHash, dropped, enqueued, clearing, frame, history>>

\* Slip: the two policies swapped, the incoming frame is given up.
PutFoundFullSwapped(p) ==
    /\ pc[p] = "room"
    /\ Full
    /\ dropped' = dropped + 1
    /\ refused' = Append(refused, frame[p])
    /\ Goto(p, "idle")
    /\ UNCHANGED <<build, q, lastHash, enqueued, clearing, frame,
                   puts, clears, enq, got, evicted, wiped>>

PutFoundFull(p) ==
    /\ pc[p] = "room"
    /\ Full
    /\ Policy = "DROP_OLDEST"
    /\ Goto(p, "evict")
    /\ UNCHANGED <<build, q, lastHash, dropped, enqueued, clearing, frame, history>>

\* Slip: the early return comes before the counter.
PutDiscardUncounted(p) ==
    /\ pc[p] = "room"
    /\ Full
    /\ Policy = "DISCARD_NEW"
    /\ refused' = Append(refused, frame[p])
    /\ Goto(p, "idle")
    /\ UNCHANGED <<build, q, lastHash, dropped, enqueued, clearing, frame,
                   puts, clears, enq, got, evicted, wiped>>

\* DISCARD_NEW gives the frame up; its hash stays in _last_hash.
PutDiscard(p) ==
    /\ pc[p] = "room"
    /\ Full
    /\ Policy = "DISCARD_NEW"
    /\ dropped' = dropped + 1
    /\ refused' = Append(refused, frame[p])
    /\ Goto(p, "idle")
    /\ UNCHANGED <<build, q, lastHash, enqueued, clearing, frame,
                   puts, clears, enq, got, evicted, wiped>>

\* Slip: the eviction is not counted.
PutEvictUncounted(p) ==
    /\ pc[p] = "evict"
    /\ IF q = <<>>
       THEN UNCHANGED <<q, evicted>>
       ELSE q' = Tail(q) /\ evicted' = Append(evicted, Head(q))
    /\ Goto(p, "enqueue")
    /\ UNCHANGED <<build, lastHash, dropped, enqueued, clearing, frame,
                   puts, clears, enq, got, refused, wiped>>

\* Slip: the newest waiting frame is evicted, not the oldest.
PutEvictNewest(p) ==
    /\ pc[p] = "evict"
    /\ IF q = <<>>
       THEN UNCHANGED <<q, dropped, evicted>>
       ELSE /\ q' = SubSeq(q, 1, Len(q) - 1)
            /\ dropped' = dropped + 1
            /\ evicted' = Append(evicted, q[Len(q)])
    /\ Goto(p, "enqueue")
    /\ UNCHANGED <<build, lastHash, enqueued, clearing, frame,
                   puts, clears, enq, got, refused, wiped>>

\* get_nowait() inside put(): the decoder may have emptied the queue meanwhile.
PutEvict(p) ==
    /\ pc[p] = "evict"
    /\ IF q = <<>>
       THEN UNCHANGED <<q, dropped, evicted>>
       ELSE /\ q' = Tail(q)
            /\ dropped' = dropped + 1
            /\ evicted' = Append(evicted, Head(q))
    /\ Goto(p, "enqueue")
    /\ UNCHANGED <<build, lastHash, enqueued, clearing, frame,
                   puts, clears, enq, got, refused, wiped>>

\* put_nowait(): refuses the frame if another producer took the free place.
PutEnqueue(p) ==
    /\ pc[p] = "enqueue"
    /\ IF Full
       THEN /\ dropped' = dropped + 1
            /\ refused' = Append(refused, frame[p])
            /\ UNCHANGED <<q, enqueued, enq>>
       ELSE /\ q' = Append(q, frame[p])
            /\ enqueued' = enqueued + 1
            /\ enq' = Append(enq, frame[p])
            /\ UNCHANGED <<dropped, refused>>
    /\ Goto(p, "idle")
    /\ UNCHANGED <<build, lastHash, clearing, frame, puts, clears, got, evicted, wiped>>

PutStep(p) ==
    \/ PutDedup(p) \/ PutHasRoom(p) \/ PutFoundFull(p)
    \/ PutDiscard(p) \/ PutEvict(p) \/ PutEnqueue(p)

-----------------------------------------------------------------------------
(* get() and clear() *)

\* Slip: a stack instead of a queue.
GetNewest ==
    /\ q # <<>>
    /\ got' = Append(got, q[Len(q)])
    /\ q' = SubSeq(q, 1, Len(q) - 1)
    /\ UNCHANGED <<build, lastHash, dropped, enqueued, clearing, pc, frame,
                   puts, clears, enq, evicted, refused, wiped>>

\* get() with a frame available (otherwise it times out and changes nothing).
Get ==
    /\ q # <<>>
    /\ got' = Append(got, Head(q))
    /\ q' = Tail(q)
    /\ UNCHANGED <<build, lastHash, dropped, enqueued, clearing, pc, frame,
                   puts, clears, enq, evicted, refused, wiped>>

ClearCall ==
    /\ ~clearing
    /\ clears < MaxClears
    /\ clears' = clears + 1
    /\ clearing' = TRUE
    /\ UNCHANGED <<build, q, lastHash, dropped, enqueued, pc, frame,
                   puts, enq, got, evicted, refused, wiped>>

ClearPop ==
    /\ clearing
    /\ q # <<>>
    /\ wiped' = Append(wiped, Head(q))
    /\ q' = Tail(q)
    /\ UNCHANGED <<build, lastHash, dropped, enqueued, clearing, pc, frame,
                   puts, clears, enq, got, evicted, refused>>

\* Slip: clear() returns without releasing _lock.
ClearReturnLocked ==
    /\ clearing
    /\ q = <<>>
    /\ lastHash # NoImage
    /\ lastHash' = NoImage
    /\ UNCHANGED <<build, q, dropped, enqueued, clearing, pc, frame, history>>

\* The loop ends on an empty queue, whoever emptied it, and _lock is released.
ClearReturn ==
    /\ clearing
    /\ q = <<>>
    /\ lastHash' = NoImage
    /\ clearing' = FALSE
    /\ UNCHANGED <<build, q, dropped, enqueued, pc, frame, history>>

ClearStep == ClearPop \/ ClearReturn

\* Every call of the bounded instance was made and has returned.
Finished ==
    /\ puts = MaxPuts /\ clears = MaxClears
    /\ Idle /\ ~clearing /\ q = <<>>
    /\ UNCHANGED vars

Next ==
    \/ \E p \in build.cameras, i \in Images : PutCall(p, i)
    \/ \E p \in build.cameras : PutStep(p)
    \/ Get
    \/ ClearCall
    \/ ClearStep
    \/ Finished

\* A thread inside put() or clear() keeps being scheduled.
Fairness ==
    /\ \A p \in Producers : WF_vars(PutStep(p))
    /\ WF_vars(ClearStep)

Spec     == Init /\ [][Next]_vars
FairSpec == Spec /\ Fairness

-----------------------------------------------------------------------------
(* Properties *)

PutSteps == {"idle", "dedup", "room", "evict", "enqueue"}

\* Every variable has its type, and _q never exceeds its capacity.
TypeOK ==
    /\ build \in Builds
    /\ q \in Seq(Frames) /\ Len(q) <= MaxSize
    /\ lastHash \in Images \cup {NoImage}
    /\ dropped \in Nat /\ enqueued \in Nat
    /\ clearing \in BOOLEAN
    /\ pc \in [Producers -> PutSteps]
    /\ frame \in [Producers -> [id : 0 .. MaxPuts, img : Images \cup {NoImage}]]
    /\ \A p \in Producers : pc[p] # "idle" => frame[p] \in Frames
    /\ puts \in 0 .. MaxPuts /\ clears \in 0 .. MaxClears
    /\ enq \in Seq(Frames) /\ got \in Seq(Frames)
    /\ evicted \in Seq(Frames) /\ refused \in Seq(Frames) /\ wiped \in Seq(Frames)

\* The statistics of lines 83-90 account for every frame: what was enqueued is
\* waiting, was decoded, was evicted or was cleared, and what was dropped was
\* evicted or refused, however put(), get() and clear() interleave.
Accounting ==
    /\ enqueued = Len(enq)
    /\ Len(enq) = Len(q) + Len(got) + Len(evicted) + Len(wiped)
    /\ dropped = Len(evicted) + Len(refused)

\* One thread calls put(), as in DispositivoLuzAdaptador.
SingleCamera == \E c \in Producers : build.cameras = {c}

Increasing(s) == \A i, j \in DOMAIN s : i < j => s[i].id < s[j].id

\* Frames leave the queue in capture order and at most once, whatever was
\* lost between them: the decoder never sees an older frame after a newer one.
CaptureOrder ==
    SingleCamera => Increasing(got \o q)

\* The purpose of DROP_OLDEST (lines 8-13): with one camera thread, whenever
\* put() is not running, the image of the last call is the last one enqueued,
\* and it was not evicted: a full queue never costs the newest image.
NewestImageKept ==
    (Policy = "DROP_OLDEST" /\ SingleCamera /\ Idle /\ puts > 0) =>
        /\ enq # <<>>
        /\ \E p \in Producers : enq[Len(enq)].img = frame[p].img
        /\ \A k \in DOMAIN evicted : evicted[k].id < enq[Len(enq)].id

\* With no clear() and one camera thread, DROP_OLDEST never enqueues the same
\* image twice in a row (docstring of put(), line 60).
NoRepeatedImage ==
    (HashDedup /\ Policy = "DROP_OLDEST" /\ SingleCamera /\ clears = 0) =>
        \A k \in 1 .. Len(enq) - 1 : enq[k].img # enq[k + 1].img

Channel == INSTANCE LossyFifo WITH
    Capacity <- MaxSize, Frame <- Frames,
    log <- enq, cursor <- Len(enq) + 1 - Len(q), read <- got

\* The queue behaves as a log read in order, of which only the oldest unread
\* frame is ever lost: put(), get() and clear() in any interleaving.
IsLossyFifo == Channel!Spec

\* "Nunca bloquea" (line 5): a put() that was called returns, clear() included.
PutReturns == \A p \in Producers : pc[p] # "idle" ~> pc[p] = "idle"

\* The docstring of drop_rate (line 129) calls enqueued + dropped the total
\* received.  Without deduplication every call of put() receives one frame: the
\* total is right under DISCARD_NEW, and counts twice what DROP_OLDEST evicted.
DropRateCountsReceived ==
    (~HashDedup /\ Idle) =>
        /\ enqueued + dropped = puts + Len(evicted)
        /\ Policy = "DISCARD_NEW" => evicted = <<>>
=============================================================================
