------------------------------ MODULE LightLink ------------------------------
(***************************************************************************)
(* Two optical adapters face to face                                       *)
(* (transmision/adapter.py, DispositivoLuzAdaptador).                      *)
(*                                                                         *)
(* Each end has a screen the other end's camera looks at.  Its producer    *)
(* thread captures, its consumer thread decodes into _rx_buffer, whose     *)
(* keys are sequence numbers, -1 for a SYN and -2 for a SYN-ACK or an ACK. *)
(* The caller of handshake() polls those two keys; the node's RX thread    *)
(* calls receive(), which pops the smallest key; any thread may send().    *)
(* stop() only clears _running: a thread that start() finds still alive    *)
(* goes on beside the new one.                                             *)
(*                                                                         *)
(* An image carries one frame, drawn with some number of colours; a codec  *)
(* of another number of colours cannot read it.  A camera may miss an      *)
(* image that another one replaces on the screen, or find it too much like *)
(* the one before.  Steady readers capture and decode an image that stays  *)
(* for the interval between frames.                                        *)
(***************************************************************************)
EXTENDS Integers, Sequences, FiniteSets

CONSTANTS
    Left, Right,     \* the two ends
    Colors,          \* Colors[e]: n_colors of the codec e was built with
    QueueSize,       \* maxsize of the frame queues (DROP_OLDEST)
    Messages,        \* send() and send_file() calls: [id, from, frags, file]
    LastSeq,         \* the greatest seq_num of their frames
    Readers,         \* ends with a node whose RX thread calls receive()
    OneCaller,       \* handshake() and send() are called by one thread only
    Steady,          \* readers keep up with what is shown for a whole interval
    MaxStarts,       \* start() calls of an end
    Plans,           \* what the applications may call, see Plan
    Blank, NoImage, Ended, NoFrame, NoMessage

Ends == {Left, Right}
Peer(e) == IF e = Left THEN Right ELSE Left

ASSUME EndsAssumption == Left # Right
ASSUME SizeAssumption == QueueSize \in Nat \ {0}
ASSUME ColorsAssumption == Colors \in [Ends -> {2, 4, 8, 16}]
ASSUME SeqAssumption == LastSeq \in Nat
ASSUME MessagesAssumption == 
    Messages \subseteq [id : Nat, from : Ends, frags : 1 .. LastSeq + 1, file : BOOLEAN]
ASSUME FlagsAssumption == OneCaller \in BOOLEAN /\ Steady \in BOOLEAN
ASSUME StartsAssumption == MaxStarts \in Nat \ {0}

VARIABLES
    plan,        \* the plan in force
    main,        \* next step of the caller of handshake()
    result,      \* of the last handshake(): True, False or HandshakeError
    attempts,    \* handshake() calls so far
    negotiated,  \* _negotiated is not None
    colors,      \* n_colors of _codec
    running,     \* _running
    starts,      \* start() calls so far
    screen,      \* the image in the window
    producer,    \* producer[e][t]: the prev of the thread that the t-th start() made
    consumer,    \* consumer[e][t]: the image that thread is decoding
    queue,       \* _queue: images captured and not decoded
    buffer,      \* _rx_buffer
    progress,    \* progress[m]: frames shown by send(m); -1 before, frags + 1 after
    resent,      \* resent[m]: retransmit() calls
    received,    \* received[m]: times that receive() returned m whole
    partly,      \* partly[m]: times it returned what the first of several frames holds
    latest       \* latest[e]: the message whose first frame e showed last

session == <<main, result, attempts>>
caps    == <<negotiated, colors>>
life    == <<running, starts>>
readers == <<producer, consumer, queue>>
calls   == <<progress, resent, received, partly, latest>>
vars    == <<plan, session, caps, life, screen, readers, buffer, calls>>

-----------------------------------------------------------------------------
(* Frames (transmision/frames.py) and images (implementation/grid.py) *)

Handshake(kind)  == [kind |-> kind, msg |-> NoMessage, seq |-> 0]
DataFrame(m, k)  == [kind |-> "DATA", msg |-> m, seq |-> k]
Fin(m)           == [kind |-> "FIN", msg |-> m, seq |-> m.frags]

\* negotiate_with takes the least depth; both ends propose depth 3.
AgreedColors == 16

Frames == {Handshake(kind) : kind \in {"SYN", "SYN_ACK", "ACK"}}
              \cup {f \in {DataFrame(m, k) : m \in Messages, k \in 0 .. LastSeq} : f.seq < f.msg.frags}
              \cup {Fin(m) : m \in Messages}
Images == [frame : Frames, colors : {2, 4, 8, 16}]
Views  == Images \cup {Blank}

ASSUME ImageAssumption ==
    Blank \notin Images /\ NoImage \notin Views /\ Ended \notin Views \cup {NoImage}
ASSUME NoFrameAssumption == NoFrame \notin Frames

\* What one behaviour is about: how often each end calls handshake() and start(),
\* in which roles it calls handshake(), which messages are sent and how often one
\* is retransmitted; whether the ICompressor has the attribute "algo"; and which
\* images differ by no more than diff_threshold.
Plan == [attempts : [Ends -> Nat], roles : [Ends -> SUBSET {"initiator", "responder"}],
         starts : [Ends -> 1 .. MaxStarts], messages : SUBSET Messages, resends : Nat,
         algo : BOOLEAN, alike : SUBSET (Views \X Views)]

ASSUME PlansAssumption == Plans \subseteq Plan

Keys    == -2 .. LastSeq
Threads == 1 .. MaxStarts

KeyOf(frame) ==
    CASE frame.kind = "SYN" -> -1
      [] frame.kind \in {"SYN_ACK", "ACK"} -> -2
      [] frame.kind = "DATA" -> frame.seq

\* _display_handshake and _display_frame
Show(e, frame) == screen' = [screen EXCEPT ![e] = [frame |-> frame, colors |-> colors[e]]]

\* detect_change(prev, frame): the other screen differs enough from what the thread
\* captured last, or this is its first capture.
Changed(e, t) ==
    /\ producer[e][t] \notin {Ended, screen[Peer(e)]}
    /\ <<producer[e][t], screen[Peer(e)]>> \notin plan.alike

\* The threads of a running end have captured and decoded all there is.
CaughtUp(e) ==
    running[e] => /\ queue[e] = <<>>
                  /\ \A t \in Threads : ~Changed(e, t) /\ consumer[e][t] \in {NoImage, Ended}

\* sleep(interval) after an image was shown.
Slept(e) == Steady => CaughtUp(Peer(e))

\* _apply_negotiated
Apply(e) ==
    /\ negotiated' = [negotiated EXCEPT ![e] = TRUE]
    /\ colors' = [colors EXCEPT ![e] = AgreedColors]

\* is_available
Available(e) == running[e] /\ negotiated[e]

Sending(e) == \E m \in Messages : m.from = e /\ progress[m] \in 0 .. m.frags

\* Both ends have been started, and what is on the other's screen is no grid yet.
Init ==
    /\ plan \in Plans
    /\ main = [e \in Ends |-> "idle"]
    /\ result = [e \in Ends |-> "none"]
    /\ attempts = [e \in Ends |-> 0]
    /\ negotiated = [e \in Ends |-> FALSE]
    /\ colors = Colors
    /\ running = [e \in Ends |-> TRUE]
    /\ starts = [e \in Ends |-> 1]
    /\ screen = [e \in Ends |-> Blank]
    /\ producer = [e \in Ends |-> [t \in Threads |-> IF t = 1 THEN Blank ELSE Ended]]
    /\ consumer = [e \in Ends |-> [t \in Threads |-> IF t = 1 THEN NoImage ELSE Ended]]
    /\ queue = [e \in Ends |-> <<>>]
    /\ buffer = [e \in Ends |-> [k \in Keys |-> NoFrame]]
    /\ progress = [m \in Messages |-> -1]
    /\ resent = [m \in Messages |-> 0]
    /\ received = [m \in Messages |-> 0]
    /\ partly = [m \in Messages |-> 0]
    /\ latest = [e \in Ends |-> NoMessage]

-----------------------------------------------------------------------------
(* handshake() *)

MainStep(e, from, to) == main[e] = from /\ main' = [main EXCEPT ![e] = to]

Return(e, value) == result' = [result EXCEPT ![e] = value]

Begin(e, role, to) ==
    /\ role \in plan.roles[e]
    /\ attempts[e] < plan.attempts[e]
    /\ attempts' = [attempts EXCEPT ![e] = @ + 1]
    /\ OneCaller => ~Sending(e)
    /\ MainStep(e, "idle", to)

\* _handshake_initiator until it waits; without "algo" it fails at once.
Initiate(e) ==
    /\ IF plan.algo
       THEN Begin(e, "initiator", "syn") /\ Return(e, "none") /\ Show(e, Handshake("SYN"))
       ELSE Begin(e, "initiator", "idle") /\ Return(e, "error") /\ UNCHANGED screen
    /\ UNCHANGED <<plan, caps, life, readers, buffer, calls>>

Listen(e) ==
    /\ Begin(e, "responder", "listen")
    /\ Return(e, "none")
    /\ UNCHANGED <<plan, caps, life, screen, readers, buffer, calls>>

\* _wait_handshake reads the key under the lock, and pops it under the lock again.
Awaited(step) ==
    CASE step = "syn"     -> Handshake("SYN_ACK")
      [] step = "listen"  -> Handshake("SYN")
      [] step = "replied" -> Handshake("ACK")

Seen(step) ==
    CASE step = "syn" -> "syn_seen" [] step = "listen" -> "listen_seen" [] step = "replied" -> "ack_seen"

WaitSteps == {"syn", "listen", "replied"}

See(e) ==
    /\ main[e] \in WaitSteps
    /\ buffer[e][KeyOf(Awaited(main[e]))] = Awaited(main[e])
    /\ main' = [main EXCEPT ![e] = Seen(main[e])]
    /\ UNCHANGED <<plan, result, attempts, caps, life, screen, readers, buffer, calls>>

Pop(e, key) == buffer' = [buffer EXCEPT ![e][key] = NoFrame]

\* Slip: the SYN-ACK is shown first and applied once an ACK confirms it.
TakeSynLate(e) ==
    /\ MainStep(e, "listen_seen", "reply")
    /\ Pop(e, -1)
    /\ UNCHANGED <<plan, result, attempts, caps, life, screen, readers, calls>>

TakeSyn(e) ==
    /\ MainStep(e, "listen_seen", "reply")
    /\ Pop(e, -1)
    /\ Apply(e)
    /\ UNCHANGED <<plan, result, attempts, life, screen, readers, calls>>

\* The SYN-ACK is drawn with the codec of the agreed depth.
ShowSynAck(e) ==
    /\ MainStep(e, "reply", "replied")
    /\ Show(e, Handshake("SYN_ACK"))
    /\ UNCHANGED <<plan, result, attempts, caps, life, readers, buffer, calls>>

TakeSynAck(e) ==
    /\ MainStep(e, "syn_seen", "ack")
    /\ Pop(e, -2)
    /\ Apply(e)
    /\ UNCHANGED <<plan, result, attempts, life, screen, readers, calls>>

\* handshake() returns as soon as the ACK is in the window.
ShowAck(e) ==
    /\ MainStep(e, "ack", "idle")
    /\ Show(e, Handshake("ACK"))
    /\ Return(e, "true")
    /\ UNCHANGED <<plan, attempts, caps, life, readers, buffer, calls>>

TakeAck(e) ==
    /\ MainStep(e, "ack_seen", "idle")
    /\ Pop(e, -2)
    /\ Return(e, "true")
    /\ UNCHANGED <<plan, attempts, caps, life, screen, readers, calls>>

\* Nothing that takes milliseconds is left to do at either end.
Settled ==
    \A e \in Ends :
        /\ main[e] \in WaitSteps \cup {"idle"}
        /\ main[e] \in WaitSteps =>
              buffer[e][KeyOf(Awaited(main[e]))] # Awaited(main[e])
        /\ CaughtUp(e)

\* 10 s without a SYN-ACK, 30 s without a SYN: HandshakeError.  10 s without an
\* ACK: False.
Timeout(e) ==
    /\ Steady => Settled
    /\ \/ MainStep(e, "syn", "idle") /\ Return(e, "error")
       \/ MainStep(e, "listen", "idle") /\ Return(e, "error")
       \/ MainStep(e, "replied", "idle") /\ Return(e, "false")
    /\ UNCHANGED <<plan, attempts, caps, life, screen, readers, buffer, calls>>

-----------------------------------------------------------------------------
(* The producer and consumer threads *)

\* Slip: the limit is not looked at.
EnqueueAlways(q, image) == Append(q, image)

Enqueue(q, image) == Append(IF Len(q) = QueueSize THEN Tail(q) ELSE q, image)

\* Slip: prev is never set, so what stays in the window is captured for ever.
CaptureAgain(e, t) ==
    /\ running[e]
    /\ Changed(e, t)
    /\ queue' = [queue EXCEPT ![e] = Enqueue(@, screen[Peer(e)])]
    /\ UNCHANGED <<plan, session, caps, life, screen, producer, consumer, buffer, calls>>

Capture(e, t) ==
    /\ running[e]
    /\ Changed(e, t)
    /\ producer' = [producer EXCEPT ![e][t] = screen[Peer(e)]]
    /\ queue' = [queue EXCEPT ![e] = Enqueue(@, screen[Peer(e)])]
    /\ UNCHANGED <<plan, session, caps, life, screen, consumer, buffer, calls>>

Get(e, t) ==
    /\ running[e]
    /\ consumer[e][t] = NoImage
    /\ queue[e] # <<>>
    /\ consumer' = [consumer EXCEPT ![e][t] = Head(queue[e])]
    /\ queue' = [queue EXCEPT ![e] = Tail(@)]
    /\ UNCHANGED <<plan, session, caps, life, screen, producer, buffer, calls>>

\* _decode_and_store: decode_grid refuses an image of other bits_per_cell or
\* without a grid; a FIN is not kept.
Legible(e, image) == image # Blank /\ image.colors = colors[e] /\ image.frame.kind # "FIN"

Store(e, t) ==
    /\ consumer[e][t] \notin {NoImage, Ended}
    /\ consumer' = [consumer EXCEPT ![e][t] = NoImage]
    /\ LET image == consumer[e][t] IN
       IF Legible(e, image)
       THEN buffer' = [buffer EXCEPT ![e][KeyOf(image.frame)] = image.frame]
       ELSE UNCHANGED buffer
    /\ UNCHANGED <<plan, session, caps, life, screen, producer, queue, calls>>

\* _running is looked at once per iteration.
EndProducer(e, t) ==
    /\ ~running[e]
    /\ producer[e][t] # Ended
    /\ producer' = [producer EXCEPT ![e][t] = Ended]
    /\ UNCHANGED <<plan, session, caps, life, screen, consumer, queue, buffer, calls>>

EndConsumer(e, t) ==
    /\ ~running[e]
    /\ consumer[e][t] = NoImage
    /\ consumer' = [consumer EXCEPT ![e][t] = Ended]
    /\ UNCHANGED <<plan, session, caps, life, screen, producer, queue, buffer, calls>>

\* What was negotiated, queued and buffered stays.
Start(e) ==
    /\ starts[e] < plan.starts[e]
    /\ starts' = [starts EXCEPT ![e] = @ + 1]
    /\ running' = [running EXCEPT ![e] = TRUE]
    /\ producer' = [producer EXCEPT ![e][starts[e] + 1] = NoImage]
    /\ consumer' = [consumer EXCEPT ![e][starts[e] + 1] = NoImage]
    /\ UNCHANGED <<plan, session, caps, screen, queue, buffer, calls>>

\* Nobody waits for the threads.  The window is destroyed.
Stop(e) ==
    /\ plan.starts[e] > 1
    /\ running[e]
    /\ running' = [running EXCEPT ![e] = FALSE]
    /\ screen' = [screen EXCEPT ![e] = Blank]
    /\ UNCHANGED <<plan, session, caps, starts, readers, buffer, calls>>

-----------------------------------------------------------------------------
(* send() and receive() *)

\* send() returns False at once if the adapter is not available; send_file()
\* does not ask, and fails before it shows anything if the file takes more than
\* one frame: its frames exceed MAX_PAYLOAD.
SendCall(m) ==
    /\ m \in plan.messages
    /\ progress[m] = -1
    /\ IF m.file THEN m.frags = 1 ELSE Available(m.from)
    /\ OneCaller => main[m.from] = "idle" /\ ~Sending(m.from)
    /\ progress' = [progress EXCEPT ![m] = 0]
    /\ UNCHANGED <<plan, session, caps, life, screen, readers, buffer, resent, received, partly, latest>>

\* _display_frame with the k-th frame of a message.
ShowFrame(m, k) ==
    /\ Show(m.from, DataFrame(m, k))
    /\ latest' = IF k = 0 THEN [latest EXCEPT ![m.from] = m] ELSE latest

\* The frames of every call are numbered from 0.
ShowData(m) ==
    /\ progress[m] \in 0 .. m.frags - 1
    /\ progress[m] > 0 => Slept(m.from)
    /\ ShowFrame(m, progress[m])
    /\ progress' = [progress EXCEPT ![m] = @ + 1]
    /\ UNCHANGED <<plan, session, caps, life, readers, buffer, resent, received, partly>>

\* Slip: no sleep after the last frame.
SendReturnAtOnce(m) ==
    /\ progress[m] = m.frags
    /\ IF m.file THEN Show(m.from, Fin(m)) ELSE UNCHANGED screen
    /\ progress' = [progress EXCEPT ![m] = @ + 1]
    /\ UNCHANGED <<plan, session, caps, life, readers, buffer, resent, received, partly, latest>>

\* send() returns True; send_file() does so with a FIN in the window.
SendReturn(m) ==
    /\ progress[m] = m.frags
    /\ Slept(m.from)
    /\ IF m.file THEN Show(m.from, Fin(m)) ELSE UNCHANGED screen
    /\ progress' = [progress EXCEPT ![m] = @ + 1]
    /\ UNCHANGED <<plan, session, caps, life, readers, buffer, resent, received, partly, latest>>

\* retransmit() shows one frame of a message and does not sleep.
Retransmit(m, k) ==
    /\ progress[m] > m.frags
    /\ OneCaller => main[m.from] = "idle" /\ ~Sending(m.from)
    /\ resent[m] < plan.resends
    /\ resent' = [resent EXCEPT ![m] = @ + 1]
    /\ ShowFrame(m, k)
    /\ UNCHANGED <<plan, session, caps, life, readers, buffer, progress, received, partly>>

\* What is popped is decompressed alone.  decompress() falls back to a stream for a
\* first frame that lacks the rest: what is returned is the data up to there, which
\* may be nothing.  It raises for the other frames and for those of a handshake.
Decompress(m, k) ==
    IF k = 0
    THEN IF m.frags = 1
         THEN received' = [received EXCEPT ![m] = @ + 1] /\ UNCHANGED partly
         ELSE partly' = [partly EXCEPT ![m] = @ + 1] /\ UNCHANGED received
    ELSE UNCHANGED <<received, partly>>

\* The RX thread is given this adapter while it is available.
Receive(e) ==
    /\ e \in Readers
    /\ Available(e)
    /\ \E k \in Keys :
          /\ buffer[e][k] # NoFrame
          /\ \A j \in Keys : j < k => buffer[e][j] = NoFrame
          /\ Pop(e, k)
          /\ Decompress(buffer[e][k].msg, k)
    /\ UNCHANGED <<plan, session, caps, life, screen, readers, progress, resent, latest>>

HandshakeStep(e) ==
    See(e) \/ TakeSyn(e) \/ ShowSynAck(e) \/ TakeSynAck(e) \/ ShowAck(e) \/ TakeAck(e)

ProducerStep(e, t) == Capture(e, t) \/ EndProducer(e, t)
ConsumerStep(e, t) == Get(e, t) \/ Store(e, t) \/ EndConsumer(e, t)

SendStep(m) == ShowData(m) \/ SendReturn(m)

Next ==
    \/ \E e \in Ends :
          \/ Initiate(e) \/ Listen(e) \/ HandshakeStep(e) \/ Timeout(e)
          \/ Receive(e) \/ Start(e) \/ Stop(e)
          \/ \E t \in Threads : ProducerStep(e, t) \/ ConsumerStep(e, t)
    \/ \E m \in Messages :
          \/ SendCall(m) \/ SendStep(m)
          \/ \E k \in 0 .. m.frags - 1 : Retransmit(m, k)

\* What goes on without a caller: threads until _running is found FALSE, and calls
\* that have been made.  A behaviour makes finitely many steps, so that one of these
\* goes on for ever means the same as that each of them does.
Progress ==
    \/ \E e \in Ends :
          \/ HandshakeStep(e) \/ Timeout(e) \/ Receive(e)
          \/ \E t \in Threads : ProducerStep(e, t) \/ ConsumerStep(e, t)
    \/ \E m \in Messages : SendStep(m)

Fairness == WF_vars(Progress)

Spec     == Init /\ [][Next]_vars
FairSpec == Spec /\ Fairness

-----------------------------------------------------------------------------
(* Properties *)

\* Every variable has its type: in particular each key of _rx_buffer holds only
\* frames of the kinds its reader expects there.
TypeOK ==
    /\ plan \in Plans
    /\ main \in [Ends -> {"idle", "syn", "listen", "syn_seen", "listen_seen", "reply",
                          "replied", "ack_seen", "ack"}]
    /\ result \in [Ends -> {"none", "true", "false", "error"}]
    /\ attempts \in [Ends -> Nat]
    /\ negotiated \in [Ends -> BOOLEAN]
    /\ colors \in [Ends -> {2, 4, 8, 16}]
    /\ running \in [Ends -> BOOLEAN]
    /\ starts \in [Ends -> Threads]
    /\ screen \in [Ends -> Views]
    /\ producer \in [Ends -> [Threads -> Views \cup {NoImage, Ended}]]
    /\ consumer \in [Ends -> [Threads -> Views \cup {NoImage, Ended}]]
    /\ queue \in [Ends -> Seq(Views)]
    /\ \A e \in Ends : Len(queue[e]) <= QueueSize
    /\ buffer \in [Ends -> [Keys -> Frames \cup {NoFrame}]]
    /\ \A e \in Ends : \A k \in Keys : buffer[e][k] # NoFrame => KeyOf(buffer[e][k]) = k
    /\ progress \in [Messages -> Int]
    /\ \A m \in Messages : progress[m] \in -1 .. m.frags + 1
    /\ resent \in [Messages -> Nat]
    /\ received \in [Messages -> Nat]
    /\ partly \in [Messages -> Nat]
    /\ latest \in [Ends -> Messages \cup {NoMessage}]

\* A handshake that returned True is mutual: the other end has negotiated too,
\* and both codecs have the agreed number of colours, whatever older frames were
\* left in the buffers by attempts that failed (lines 148-206).
TrueIsMutual ==
    \A e \in Ends :
        result[e] = "true" =>
            /\ negotiated[e] /\ negotiated[Peer(e)]
            /\ colors[e] = AgreedColors /\ colors[Peer(e)] = AgreedColors

\* When one end shows its SYN while the other one waits for it, both calls return
\* True: handshake "Retorna True si el handshake completo exitosamente" (line
\* 137), so what the initiator returns the responder has to return as well.
HandshakeCompletes ==
    \A e \in Ends :
        (main[e] = "syn" /\ main[Peer(e)] = "listen")
            ~> (result[e] = "true" /\ result[Peer(e)] = "true")

\* Both ends run, and nobody calls start() any more.
Up == \A e \in Ends : running[e] /\ starts[e] = plan.starts[e]

Buffered(m) == buffer[Peer(m.from)][0] = DataFrame(m, 0)

\* Every call numbers its frames from 0: what is in the buffer is lost when the first
\* frame of another call is stored before receive() has been called.
Overwritten(m) == progress[m] > 0 /\ latest[m.from] # m

\* The message is in the window, and no camera finds it different from what was there.
Overlooked(m) ==
    LET e == Peer(m.from) IN
        /\ screen[m.from] # Blank /\ screen[m.from].frame = DataFrame(m, 0)
        /\ \A t \in Threads : producer[e][t] # screen[m.from] /\ ~Changed(e, t)

\* A message of one frame that send() or send_file() shows gets into the other
\* end's buffer, and receive() returns it there as soon as that end is available,
\* unless an adapter is stopped, the same end sends another message before, or the
\* camera does not tell its image from the last one: after a restart too, with
\* whatever threads, images and frames the earlier runs left behind.
ShortMessagesArrive ==
    \A m \in Messages :
        (m.frags = 1 /\ Up /\ (progress[m] = 0 \/ (Buffered(m) /\ negotiated[Peer(m.from)])))
            ~> \/ received[m] > 0
               \/ ~Up \/ Overwritten(m) \/ Overlooked(m)
               \/ Buffered(m) /\ ~negotiated[Peer(m.from)]

\* How often a message was put in the window: by send(), and by retransmit() after it.
Shows(m) == resent[m] + (IF progress[m] > 0 THEN 1 ELSE 0)

\* receive() returns a message, or of a longer one what its first frame holds, at
\* most once for each time it was shown and each run of the reader: it is repeated
\* only because it was retransmitted, or because the reader was started while it was
\* in the other window or while threads of an earlier run were alive, which capture
\* it as well.  Nothing is returned that was not sent.
RepeatsExplained ==
    \A m \in Messages : received[m] + partly[m] <= starts[Peer(m.from)] * Shows(m)

\* A message is delivered however many frames it takes: send "Comprime data, la
\* fragmenta" (line 94), and what receive returns is "el proximo bloque de datos
\* decodificado" (line 108).
LongMessagesArrive ==
    \A m \in Messages :
        (progress[m] > m.frags /\ negotiated[Peer(m.from)]) ~> (received[m] > 0)
=============================================================================
