-------------------------- MODULE LightLink_proofs --------------------------
(***************************************************************************)
(* Theorems about LightLink, for every QueueSize, set of Messages, palette *)
(* of the two codecs, plan of calls and number of restarts, and for        *)
(* cameras that miss images as well as for readers that keep up.           *)
(***************************************************************************)
EXTENDS LightLink, FiniteSetTheorems, TLAPS

Replies == {"SYN_ACK", "ACK"}

IsReply(image) == image \in Images /\ image.frame.kind \in Replies

\* A reply is evidence that the end which shows it has applied the capabilities,
\* wherever the reply is: on the screen, in a queue, in the hands of a consumer,
\* in a buffer, or in the steps of a caller that has read one.
ReplyEvidence ==
    /\ \A e \in Ends : negotiated[e] => colors[e] = AgreedColors
    /\ \A e \in Ends : IsReply(screen[e]) => negotiated[e]
    /\ \A e \in Ends : \A i \in 1 .. Len(queue[e]) : IsReply(queue[e][i]) => negotiated[Peer(e)]
    /\ \A e \in Ends : \A t \in Threads : IsReply(consumer[e][t]) => negotiated[Peer(e)]
    /\ \A e \in Ends : buffer[e][-2] # NoFrame => negotiated[Peer(e)]

CallerEvidence ==
    /\ \A e \in Ends : main[e] \in {"reply", "replied", "ack", "ack_seen"} => negotiated[e]
    /\ \A e \in Ends : main[e] \in {"syn_seen", "ack", "ack_seen"} => negotiated[Peer(e)]
    /\ \A e \in Ends : result[e] = "true" => negotiated[e] /\ negotiated[Peer(e)]

MutualInv == TypeOK /\ ReplyEvidence /\ CallerEvidence

-----------------------------------------------------------------------------
(* The two ends, frames and images *)

\* Each end faces the other one, and the other one faces it.
LEMMA PeerFacts ==
    ASSUME NEW e \in Ends
    PROVE  /\ Peer(e) \in Ends /\ Peer(e) # e /\ Peer(Peer(e)) = e
           /\ \A f \in Ends : f = e \/ f = Peer(e)
BY EndsAssumption DEF EndsAssumption, Ends, Peer

\* A frame of a message is numbered below its fragments, and under its number.
LEMMA DataFrames ==
    ASSUME NEW m \in Messages, NEW k \in 0 .. m.frags - 1
    PROVE  /\ DataFrame(m, k) \in Frames /\ DataFrame(m, k).kind = "DATA"
           /\ DataFrame(m, k).msg = m /\ DataFrame(m, k).seq = k
           /\ KeyOf(DataFrame(m, k)) = k
<1>1. m.frags \in 1 .. LastSeq + 1 /\ LastSeq \in Nat
  BY MessagesAssumption, SeqAssumption DEF MessagesAssumption, SeqAssumption
<1>2. k \in 0 .. LastSeq /\ k < m.frags  BY <1>1
<1>3. /\ DataFrame(m, k).kind = "DATA" /\ DataFrame(m, k).msg = m
      /\ DataFrame(m, k).seq = k
  BY DEF DataFrame
<1>4. DataFrame(m, k) \in {DataFrame(n, j) : n \in Messages, j \in 0 .. LastSeq}  BY <1>2
<1>5. DataFrame(m, k) \in Frames  BY <1>2, <1>3, <1>4 DEF Frames
<1>. QED  BY <1>3, <1>5 DEF KeyOf

\* _decode_and_store and _handle_handshake file a frame under a key of its kind:
\* -2 says that it is a reply, and only data has a sequence number for a key.
LEMMA FrameKeys ==
    ASSUME NEW f \in Frames, f.kind # "FIN"
    PROVE  /\ KeyOf(f) \in Keys
           /\ KeyOf(f) = -2 => f.kind \in Replies
           /\ KeyOf(f) >= 0 => f.msg \in Messages /\ KeyOf(f) < f.msg.frags
<1>1. CASE \E kind \in {"SYN", "SYN_ACK", "ACK"} : f = Handshake(kind)
  <2>1. PICK kind \in {"SYN", "SYN_ACK", "ACK"} : f = Handshake(kind)  BY <1>1
  <2>2. f.kind = kind  BY <2>1 DEF Handshake
  <2>3. CASE kind = "SYN"
    <3>1. KeyOf(f) = -1  BY <2>2, <2>3 DEF KeyOf
    <3>. QED  BY <3>1, SeqAssumption DEF SeqAssumption, Keys
  <2>4. CASE kind \in {"SYN_ACK", "ACK"}
    <3>1. KeyOf(f) = -2  BY <2>2, <2>4 DEF KeyOf
    <3>. QED  BY <3>1, <2>2, <2>4, SeqAssumption DEF SeqAssumption, Keys, Replies
  <2>. QED  BY <2>3, <2>4
<1>2. CASE \E m \in Messages, k \in 0 .. LastSeq : f = DataFrame(m, k) /\ f.seq < f.msg.frags
  <2>1. PICK m \in Messages, k \in 0 .. LastSeq : f = DataFrame(m, k) /\ f.seq < f.msg.frags
    BY <1>2
  <2>2. f.kind = "DATA" /\ f.seq = k /\ f.msg = m  BY <2>1 DEF DataFrame
  <2>3. KeyOf(f) = k  BY <2>2 DEF KeyOf
  <2>. QED  BY <2>1, <2>2, <2>3, SeqAssumption DEF SeqAssumption, Keys
<1>3. \A m \in Messages : Fin(m).kind = "FIN"  BY DEF Fin
<1>. QED  BY <1>1, <1>2, <1>3 DEF Frames

\* The handshake frames are frames, each under the key its reader polls.
LEMMA HandshakeFrames ==
    ASSUME NEW kind \in {"SYN", "SYN_ACK", "ACK"}
    PROVE  /\ Handshake(kind) \in Frames /\ Handshake(kind).kind = kind
           /\ KeyOf(Handshake(kind)) = IF kind = "SYN" THEN -1 ELSE -2
<1>1. Handshake(kind) \in Frames  BY DEF Frames
<1>2. Handshake(kind).kind = kind  BY DEF Handshake
<1>. QED  BY <1>1, <1>2 DEF KeyOf

\* A frame on a screen makes an image, and leaves the other screen alone.
LEMMA ShowFacts ==
    ASSUME TypeOK, NEW e \in Ends, NEW frame \in Frames, Show(e, frame)
    PROVE  /\ screen' \in [Ends -> Views]
           /\ screen'[e] \in Images /\ screen'[e].frame = frame
           /\ \A d \in Ends : d # e => screen'[d] = screen[d]
<1> DEFINE image == [frame |-> frame, colors |-> colors[e]]
<1>1. image \in Images  BY DEF TypeOK, Images
<1>2. screen \in [Ends -> Views]  BY DEF TypeOK
<1>3. screen' = [screen EXCEPT ![e] = image]  BY DEF Show
<1>4. image.frame = frame  OBVIOUS
<1> HIDE DEF image
<1>. QED  BY <1>1, <1>2, <1>3, <1>4 DEF Views

\* A full queue loses its oldest image and keeps its capacity.
LEMMA EnqueueFacts ==
    ASSUME NEW q \in Seq(Views), Len(q) <= QueueSize, NEW image \in Views
    PROVE  /\ Enqueue(q, image) \in Seq(Views)
           /\ Len(Enqueue(q, image)) <= QueueSize
           /\ \A i \in 1 .. Len(Enqueue(q, image)) :
                 \/ Enqueue(q, image)[i] = image
                 \/ \E j \in 1 .. Len(q) : Enqueue(q, image)[i] = q[j]
<1>1. Len(q) \in Nat /\ QueueSize \in Nat /\ QueueSize > 0
  BY SizeAssumption DEF SizeAssumption
<1>2. CASE Len(q) = QueueSize
  <2> DEFINE rest == Tail(q)
  <2>1. q # <<>>  BY <1>1, <1>2
  <2>2. rest \in Seq(Views) /\ Len(rest) = Len(q) - 1 /\ \A i \in 1 .. Len(rest) : rest[i] = q[i + 1]
    BY <2>1
  <2>3. Enqueue(q, image) = Append(rest, image)  BY <1>2 DEF Enqueue
  <2>4. Len(Append(rest, image)) = Len(q)  BY <2>2, <1>1
  <2>5. \A i \in 1 .. Len(Append(rest, image)) :
            Append(rest, image)[i] = image \/ \E j \in 1 .. Len(q) : Append(rest, image)[i] = q[j]
    <3> SUFFICES ASSUME NEW i \in 1 .. Len(q)
                 PROVE  \/ Append(rest, image)[i] = image
                        \/ \E j \in 1 .. Len(q) : Append(rest, image)[i] = q[j]
      BY <2>4
    <3>1. CASE i = Len(q)
      <4>1. Append(rest, image)[Len(rest) + 1] = image  BY <2>2
      <4>. QED  BY <4>1, <3>1, <2>2, <1>1
    <3>2. CASE i # Len(q)
      <4>1. i \in 1 .. Len(rest) /\ i + 1 \in 1 .. Len(q)  BY <3>2, <2>2, <1>1
      <4>2. Append(rest, image)[i] = rest[i]  BY <4>1, <2>2
      <4>3. rest[i] = q[i + 1]  BY <4>1, <2>2
      <4> HIDE DEF rest
      <4>. QED  BY <4>1, <4>2, <4>3
    <3>. QED  BY <3>1, <3>2
  <2>6. Append(rest, image) \in Seq(Views)  BY <2>2
  <2>. QED  BY <2>3, <2>4, <2>5, <2>6, <1>2
<1>3. CASE Len(q) # QueueSize
  <2>1. Enqueue(q, image) = Append(q, image)  BY <1>3 DEF Enqueue
  <2>. QED  BY <2>1, <1>1, <1>3
<1>. QED  BY <1>2, <1>3

-----------------------------------------------------------------------------
(* Type correctness *)

\* Filing a frame under its key, or removing one, keeps each key to its kinds.
LEMMA BufferFacts ==
    ASSUME TypeOK, NEW e \in Ends, NEW key \in Keys, NEW f \in Frames \cup {NoFrame},
           f # NoFrame => KeyOf(f) = key,
           buffer' = [buffer EXCEPT ![e][key] = f]
    PROVE  /\ buffer' \in [Ends -> [Keys -> Frames \cup {NoFrame}]]
           /\ \A d \in Ends : \A k \in Keys : buffer'[d][k] # NoFrame => KeyOf(buffer'[d][k]) = k
           /\ buffer'[e][key] = f
           /\ \A d \in Ends : \A k \in Keys : (d = e /\ k = key) \/ buffer'[d][k] = buffer[d][k]
<1>1. buffer \in [Ends -> [Keys -> Frames \cup {NoFrame}]]  BY DEF TypeOK
<1>2. \A d \in Ends : \A k \in Keys : buffer[d][k] # NoFrame => KeyOf(buffer[d][k]) = k
  BY DEF TypeOK
<1>3. buffer' \in [Ends -> [Keys -> Frames \cup {NoFrame}]]  BY <1>1
<1>4. buffer'[e][key] = f  BY <1>1
<1>5. \A d \in Ends : \A k \in Keys : (d = e /\ k = key) \/ buffer'[d][k] = buffer[d][k]
  BY <1>1
<1>6. \A d \in Ends : \A k \in Keys : buffer'[d][k] # NoFrame => KeyOf(buffer'[d][k]) = k
  BY <1>2, <1>4, <1>5
<1>. QED  BY <1>3, <1>4, <1>5, <1>6

\* What receive() makes of the k-th frame of a message is counted once, for that
\* message and for its first frame only.
Returned(m) == received[m] + partly[m]

LEMMA Decompressed ==
    ASSUME TypeOK, NEW n, NEW k, Decompress(n, k)
    PROVE  /\ received' \in [Messages -> Nat] /\ partly' \in [Messages -> Nat]
           /\ \A m \in Messages :
                 \/ Returned(m)' = Returned(m)
                 \/ n = m /\ k = 0 /\ Returned(m)' = Returned(m) + 1
<1>1. received \in [Messages -> Nat] /\ partly \in [Messages -> Nat]
  BY DEF TypeOK
<1>2. \/ received' = [received EXCEPT ![n] = received[n] + 1] /\ partly' = partly /\ k = 0
      \/ partly' = [partly EXCEPT ![n] = partly[n] + 1] /\ received' = received /\ k = 0
      \/ received' = received /\ partly' = partly
  BY DEF Decompress
<1>3. CASE n \in Messages
  BY <1>1, <1>2, <1>3 DEF Returned
<1>4. CASE n \notin Messages
  BY <1>1, <1>2, <1>4 DEF Returned
<1>. QED  BY <1>3, <1>4

MainSteps == {"idle", "syn", "listen", "syn_seen", "listen_seen", "reply",
              "replied", "ack_seen", "ack"}

\* The initial state has the types.
LEMMA TypeInit == Init => TypeOK
<1> SUFFICES ASSUME Init PROVE TypeOK  OBVIOUS
<1>1. \A m \in Messages : m.frags \in Nat
  BY MessagesAssumption, SeqAssumption DEF MessagesAssumption, SeqAssumption
<1>2. queue = [e \in Ends |-> <<>>] /\ QueueSize \in Nat
  BY SizeAssumption DEF Init, SizeAssumption
<1>3. queue \in [Ends -> Seq(Views)] /\ \A e \in Ends : Len(queue[e]) <= QueueSize
  BY <1>2
<1>4. progress = [m \in Messages |-> -1]  BY DEF Init
<1>5. progress \in [Messages -> Int] /\ \A m \in Messages : progress[m] \in -1 .. m.frags + 1
  BY <1>1, <1>4
<1>6. /\ attempts \in [Ends -> Nat] /\ resent \in [Messages -> Nat] /\ received \in [Messages -> Nat]
      /\ partly \in [Messages -> Nat] /\ latest \in [Ends -> Messages \cup {NoMessage}]
  BY DEF Init
<1>7. buffer = [e \in Ends |-> [k \in Keys |-> NoFrame]]  BY DEF Init
<1>8. /\ buffer \in [Ends -> [Keys -> Frames \cup {NoFrame}]]
      /\ \A e \in Ends : \A k \in Keys : buffer[e][k] # NoFrame => KeyOf(buffer[e][k]) = k
  BY <1>7
<1>9. colors \in [Ends -> {2, 4, 8, 16}]
  BY ColorsAssumption DEF Init, ColorsAssumption
<1>10. main \in [Ends -> MainSteps]  BY DEF Init, MainSteps
<1>11. result \in [Ends -> {"none", "true", "false", "error"}]  BY DEF Init
<1>12. /\ negotiated \in [Ends -> BOOLEAN] /\ running \in [Ends -> BOOLEAN]
       /\ screen \in [Ends -> Views] /\ plan \in Plans
  BY DEF Init, Views
<1>13. starts \in [Ends -> Threads]
  BY StartsAssumption DEF Init, StartsAssumption, Threads
<1>14. /\ producer \in [Ends -> [Threads -> Views \cup {NoImage, Ended}]]
       /\ consumer \in [Ends -> [Threads -> Views \cup {NoImage, Ended}]]
  BY DEF Init, Views
<1>. QED
  BY <1>3, <1>5, <1>6, <1>8, <1>9, <1>10, <1>11, <1>12, <1>13, <1>14 DEF TypeOK, MainSteps

\* Each step of any thread preserves the types.
LEMMA TypeNext == TypeOK /\ [Next]_vars => TypeOK'
<1> SUFFICES ASSUME TypeOK, [Next]_vars PROVE TypeOK'  OBVIOUS
<1> USE DEF session, caps, life, readers, calls, Return
<1>a. MaxStarts \in Nat /\ LastSeq \in Nat /\ QueueSize \in Nat
  BY StartsAssumption, SeqAssumption, SizeAssumption
     DEF StartsAssumption, SeqAssumption, SizeAssumption
<1>b. -1 \in Keys /\ -2 \in Keys  BY <1>a DEF Keys
<1>c. \A m \in Messages : m.frags \in 1 .. LastSeq + 1 /\ m.from \in Ends
  BY MessagesAssumption DEF MessagesAssumption
<1>1. ASSUME NEW e \in Ends, Initiate(e) PROVE TypeOK'
  <2>1. /\ attempts' = [attempts EXCEPT ![e] = @ + 1]
        /\ UNCHANGED <<plan, caps, life, readers, buffer, calls>>
    BY <1>1 DEF Initiate, Begin
  <2>2. attempts' \in [Ends -> Nat]  BY <2>1 DEF TypeOK
  <2>3. main' \in [Ends -> MainSteps] /\ result' \in [Ends -> {"none", "true", "false", "error"}]
    BY <1>1 DEF Initiate, Begin, MainStep, TypeOK, MainSteps
  <2>4. screen' \in [Ends -> Views]
    <3>1. Handshake("SYN") \in Frames  BY HandshakeFrames
    <3>2. Show(e, Handshake("SYN")) \/ UNCHANGED screen  BY <1>1 DEF Initiate
    <3>. QED  BY <3>1, <3>2, ShowFacts DEF TypeOK
  <2>. QED  BY <2>1, <2>2, <2>3, <2>4 DEF TypeOK, MainSteps
<1>2. ASSUME NEW e \in Ends, Listen(e) PROVE TypeOK'
  <2>1. /\ attempts' = [attempts EXCEPT ![e] = @ + 1]
        /\ UNCHANGED <<plan, caps, life, screen, readers, buffer, calls>>
    BY <1>2 DEF Listen, Begin
  <2>2. attempts' \in [Ends -> Nat]  BY <2>1 DEF TypeOK
  <2>3. main' \in [Ends -> MainSteps] /\ result' \in [Ends -> {"none", "true", "false", "error"}]
    BY <1>2 DEF Listen, Begin, MainStep, TypeOK, MainSteps
  <2>. QED  BY <2>1, <2>2, <2>3 DEF TypeOK, MainSteps
<1>3. ASSUME NEW e \in Ends, See(e) PROVE TypeOK'
  <2>1. main' \in [Ends -> MainSteps]
    BY <1>3 DEF See, Seen, WaitSteps, TypeOK, MainSteps
  <2>. QED  BY <1>3, <2>1 DEF See, TypeOK, MainSteps
<1>4. ASSUME NEW e \in Ends, TakeSyn(e) \/ TakeSynAck(e) PROVE TypeOK'
  <2>1. PICK key \in {-1, -2} : Pop(e, key)  BY <1>4 DEF TakeSyn, TakeSynAck
  <2>2. /\ buffer' \in [Ends -> [Keys -> Frames \cup {NoFrame}]]
        /\ \A d \in Ends : \A k \in Keys : buffer'[d][k] # NoFrame => KeyOf(buffer'[d][k]) = k
    BY <2>1, <1>b, BufferFacts DEF Pop
  <2>3. negotiated' \in [Ends -> BOOLEAN] /\ colors' \in [Ends -> {2, 4, 8, 16}]
    BY <1>4 DEF TakeSyn, TakeSynAck, Apply, AgreedColors, TypeOK
  <2>4. main' \in [Ends -> MainSteps]
    <3>1. PICK to \in {"reply", "ack"} : main' = [main EXCEPT ![e] = to]
      BY <1>4 DEF TakeSyn, TakeSynAck, MainStep
    <3>. QED  BY <3>1 DEF TypeOK, MainSteps
  <2>5. UNCHANGED <<plan, result, attempts, life, screen, readers, calls>>
    BY <1>4 DEF TakeSyn, TakeSynAck
  <2>. QED  BY <2>2, <2>3, <2>4, <2>5 DEF TypeOK, MainSteps
<1>5. ASSUME NEW e \in Ends, ShowSynAck(e) \/ ShowAck(e) PROVE TypeOK'
  <2>1. PICK kind \in {"SYN_ACK", "ACK"} : Show(e, Handshake(kind))
    BY <1>5 DEF ShowSynAck, ShowAck
  <2>2. main' \in [Ends -> MainSteps] /\ result' \in [Ends -> {"none", "true", "false", "error"}]
    BY <1>5 DEF ShowSynAck, ShowAck, MainStep, TypeOK, MainSteps
  <2>3. UNCHANGED <<plan, attempts, caps, life, readers, buffer, calls>>
    BY <1>5 DEF ShowSynAck, ShowAck
  <2>4. screen' \in [Ends -> Views]  BY <2>1, ShowFacts, HandshakeFrames
  <2>. QED  BY <2>2, <2>3, <2>4 DEF TypeOK, MainSteps
<1>6. ASSUME NEW e \in Ends, TakeAck(e) PROVE TypeOK'
  <2>1. /\ buffer' \in [Ends -> [Keys -> Frames \cup {NoFrame}]]
        /\ \A d \in Ends : \A k \in Keys : buffer'[d][k] # NoFrame => KeyOf(buffer'[d][k]) = k
    BY <1>6, <1>b, BufferFacts DEF TakeAck, Pop
  <2>2. main' \in [Ends -> MainSteps] /\ result' \in [Ends -> {"none", "true", "false", "error"}]
    BY <1>6 DEF TakeAck, MainStep, TypeOK, MainSteps
  <2>. QED  BY <1>6, <2>1, <2>2 DEF TakeAck, TypeOK, MainSteps
<1>7. ASSUME NEW e \in Ends, Timeout(e) PROVE TypeOK'
  <2>1. main' \in [Ends -> MainSteps] /\ result' \in [Ends -> {"none", "true", "false", "error"}]
    BY <1>7 DEF Timeout, MainStep, TypeOK, MainSteps
  <2>. QED  BY <1>7, <2>1 DEF Timeout, TypeOK, MainSteps
<1>8. ASSUME NEW e \in Ends, NEW t \in Threads, Capture(e, t) PROVE TypeOK'
  <2>1. screen[Peer(e)] \in Views  BY PeerFacts DEF TypeOK
  <2>2. queue[e] \in Seq(Views) /\ Len(queue[e]) <= QueueSize  BY DEF TypeOK
  <2>3. /\ Enqueue(queue[e], screen[Peer(e)]) \in Seq(Views)
        /\ Len(Enqueue(queue[e], screen[Peer(e)])) <= QueueSize
    BY <2>1, <2>2, EnqueueFacts
  <2>4. queue' = [queue EXCEPT ![e] = Enqueue(queue[e], screen[Peer(e)])]
    BY <1>8 DEF Capture
  <2>5. queue' \in [Ends -> Seq(Views)] /\ \A d \in Ends : Len(queue'[d]) <= QueueSize
    BY <2>3, <2>4 DEF TypeOK
  <2>6. producer' \in [Ends -> [Threads -> Views \cup {NoImage, Ended}]]
    BY <1>8, <2>1 DEF Capture, TypeOK
  <2>7. UNCHANGED <<plan, session, caps, life, screen, consumer, buffer, calls>>  BY <1>8 DEF Capture
  <2>. QED  BY <2>5, <2>6, <2>7 DEF TypeOK
<1>9. ASSUME NEW e \in Ends, NEW t \in Threads, Get(e, t) PROVE TypeOK'
  <2>1. queue[e] \in Seq(Views) /\ queue[e] # <<>> /\ Len(queue[e]) <= QueueSize
    BY <1>9 DEF Get, TypeOK
  <2>2. Head(queue[e]) \in Views /\ Tail(queue[e]) \in Seq(Views) /\ Len(Tail(queue[e])) <= QueueSize
    BY <2>1, <1>a
  <2>3. queue' = [queue EXCEPT ![e] = Tail(queue[e])]  BY <1>9 DEF Get
  <2>4. queue' \in [Ends -> Seq(Views)] /\ \A d \in Ends : Len(queue'[d]) <= QueueSize
    BY <2>2, <2>3 DEF TypeOK
  <2>5. consumer' \in [Ends -> [Threads -> Views \cup {NoImage, Ended}]]
    BY <1>9, <2>2 DEF Get, TypeOK
  <2>6. UNCHANGED <<plan, session, caps, life, screen, producer, buffer, calls>>  BY <1>9 DEF Get
  <2>. QED  BY <2>4, <2>5, <2>6 DEF TypeOK
<1>10. ASSUME NEW e \in Ends, NEW t \in Threads, Store(e, t) PROVE TypeOK'
  <2> DEFINE image == consumer[e][t]
  <2>1. image \in Views  BY <1>10 DEF Store, TypeOK
  <2>2. /\ buffer' \in [Ends -> [Keys -> Frames \cup {NoFrame}]]
        /\ \A d \in Ends : \A k \in Keys : buffer'[d][k] # NoFrame => KeyOf(buffer'[d][k]) = k
    <3>1. CASE Legible(e, image)
      <4>1. buffer' = [buffer EXCEPT ![e][KeyOf(image.frame)] = image.frame]
        BY <1>10, <3>1 DEF Store
      <4>2. image.frame \in Frames /\ image.frame.kind # "FIN"
        BY <2>1, <3>1 DEF Legible, Views, Images
      <4>3. KeyOf(image.frame) \in Keys  BY <4>2, FrameKeys
      <4> HIDE DEF image
      <4>. QED  BY <4>1, <4>2, <4>3, BufferFacts
    <3>2. CASE ~Legible(e, image)
      BY <1>10, <3>2 DEF Store, TypeOK
    <3>. QED  BY <3>1, <3>2
  <2>3. consumer' \in [Ends -> [Threads -> Views \cup {NoImage, Ended}]]
    BY <1>10 DEF Store, TypeOK
  <2>4. UNCHANGED <<plan, session, caps, life, screen, producer, queue, calls>>  BY <1>10 DEF Store
  <2>. QED  BY <2>2, <2>3, <2>4 DEF TypeOK
<1>11. ASSUME NEW e \in Ends, NEW t \in Threads, EndProducer(e, t) \/ EndConsumer(e, t) PROVE TypeOK'
  <2>1. /\ producer' \in [Ends -> [Threads -> Views \cup {NoImage, Ended}]]
        /\ consumer' \in [Ends -> [Threads -> Views \cup {NoImage, Ended}]]
    <3>1. CASE EndProducer(e, t)  BY <3>1 DEF EndProducer, TypeOK
    <3>2. CASE EndConsumer(e, t)  BY <3>2 DEF EndConsumer, TypeOK
    <3>. QED  BY <1>11, <3>1, <3>2
  <2>2. UNCHANGED <<plan, session, caps, life, screen, queue, buffer, calls>>
    BY <1>11 DEF EndProducer, EndConsumer
  <2>. QED  BY <2>1, <2>2 DEF TypeOK
<1>12. ASSUME NEW e \in Ends, Start(e) PROVE TypeOK'
  <2>1. plan.starts[e] \in 1 .. MaxStarts  BY PlansAssumption DEF PlansAssumption, Plan, TypeOK
  <2>2. starts[e] \in Threads /\ starts[e] < plan.starts[e]  BY <1>12 DEF Start, TypeOK
  <2>3. starts[e] + 1 \in Threads  BY <2>1, <2>2, <1>a DEF Threads
  <2>4. starts' \in [Ends -> Threads] /\ running' \in [Ends -> BOOLEAN]
    BY <1>12, <2>3 DEF Start, TypeOK
  <2>5. /\ producer' \in [Ends -> [Threads -> Views \cup {NoImage, Ended}]]
        /\ consumer' \in [Ends -> [Threads -> Views \cup {NoImage, Ended}]]
    BY <1>12 DEF Start, TypeOK
  <2>6. UNCHANGED <<plan, session, caps, screen, queue, buffer, calls>>  BY <1>12 DEF Start
  <2>. QED  BY <2>4, <2>5, <2>6 DEF TypeOK
<1>13. ASSUME NEW e \in Ends, Stop(e) PROVE TypeOK'
  <2>1. running' \in [Ends -> BOOLEAN] /\ screen' \in [Ends -> Views]
    BY <1>13 DEF Stop, TypeOK, Views
  <2>2. UNCHANGED <<plan, session, caps, starts, readers, buffer, calls>>  BY <1>13 DEF Stop
  <2>. QED  BY <2>1, <2>2 DEF TypeOK
<1>14. ASSUME NEW e \in Ends, Receive(e) PROVE TypeOK'
  <2>1. PICK k \in Keys :
          /\ buffer[e][k] # NoFrame
          /\ Pop(e, k)
          /\ Decompress(buffer[e][k].msg, k)
    BY <1>14 DEF Receive
  <2>2. /\ buffer' \in [Ends -> [Keys -> Frames \cup {NoFrame}]]
        /\ \A d \in Ends : \A j \in Keys : buffer'[d][j] # NoFrame => KeyOf(buffer'[d][j]) = j
    BY <2>1, BufferFacts DEF Pop
  <2>3. received' \in [Messages -> Nat] /\ partly' \in [Messages -> Nat]
    BY <2>1, Decompressed
  <2>4. UNCHANGED <<plan, session, caps, life, screen, readers, progress, resent, latest>>
    BY <1>14 DEF Receive
  <2>. QED  BY <2>2, <2>3, <2>4 DEF TypeOK
<1>15. ASSUME NEW m \in Messages, SendCall(m) \/ SendReturn(m) PROVE TypeOK'
  <2>1. UNCHANGED <<plan, session, caps, life, readers, buffer, resent, received, partly, latest>>
    BY <1>15 DEF SendCall, SendReturn
  <2>2. progress' \in [Messages -> Int] /\ \A n \in Messages : progress'[n] \in -1 .. n.frags + 1
    <3>1. progress \in [Messages -> Int] /\ \A n \in Messages : progress[n] \in -1 .. n.frags + 1
      BY DEF TypeOK
    <3>2. m.frags \in Nat  BY <1>a, <1>c
    <3>3. PICK k \in {0, m.frags + 1} : progress' = [progress EXCEPT ![m] = k]
      BY <1>15 DEF SendCall, SendReturn
    <3>4. k \in Int /\ k \in -1 .. m.frags + 1  BY <3>2
    <3>. QED  BY <3>1, <3>3, <3>4
  <2>3. screen' \in [Ends -> Views]
    <3>1. Fin(m) \in Frames  BY DEF Frames
    <3>2. Show(m.from, Fin(m)) \/ UNCHANGED screen  BY <1>15 DEF SendCall, SendReturn
    <3>. QED  BY <3>1, <3>2, <1>c, ShowFacts DEF TypeOK
  <2>. QED  BY <2>1, <2>2, <2>3 DEF TypeOK
<1>16. ASSUME NEW m \in Messages, ShowData(m) PROVE TypeOK'
  <2>1. progress[m] \in 0 .. m.frags - 1  BY <1>16 DEF ShowData
  <2>2. DataFrame(m, progress[m]) \in Frames  BY <2>1, DataFrames
  <2>3. m.from \in Ends /\ Show(m.from, DataFrame(m, progress[m]))
    BY <1>16, <1>c DEF ShowData, ShowFrame
  <2>4. progress' \in [Messages -> Int] /\ \A n \in Messages : progress'[n] \in -1 .. n.frags + 1
    <3>1. progress \in [Messages -> Int] /\ \A n \in Messages : progress[n] \in -1 .. n.frags + 1
      BY DEF TypeOK
    <3>2. progress' = [progress EXCEPT ![m] = progress[m] + 1] /\ progress[m] \in 0 .. m.frags - 1
      BY <1>16 DEF ShowData
    <3>3. m.frags \in Nat  BY <1>a, <1>c
    <3>4. progress[m] + 1 \in Int /\ progress[m] + 1 \in -1 .. m.frags + 1  BY <3>2, <3>3
    <3>. QED  BY <3>1, <3>2, <3>4
  <2>5. UNCHANGED <<plan, session, caps, life, readers, buffer, resent, received, partly>>
    BY <1>16 DEF ShowData
  <2>6. screen' \in [Ends -> Views]  BY <2>2, <2>3, ShowFacts
  <2>7. latest' \in [Ends -> Messages \cup {NoMessage}]  BY <1>16 DEF ShowData, ShowFrame, TypeOK
  <2>. QED  BY <2>4, <2>5, <2>6, <2>7 DEF TypeOK
<1>17. ASSUME NEW m \in Messages, NEW k \in 0 .. m.frags - 1, Retransmit(m, k) PROVE TypeOK'
  <2>2. DataFrame(m, k) \in Frames  BY DataFrames
  <2>3. screen' \in [Ends -> Views]  BY <2>2, <1>17, <1>c, ShowFacts DEF Retransmit, ShowFrame
  <2>4. resent' \in [Messages -> Nat]  BY <1>17 DEF Retransmit, TypeOK
  <2>5. UNCHANGED <<plan, session, caps, life, readers, buffer, progress, received, partly>>
    BY <1>17 DEF Retransmit
  <2>6. latest' \in [Ends -> Messages \cup {NoMessage}]  BY <1>17 DEF Retransmit, ShowFrame, TypeOK
  <2>. QED  BY <2>3, <2>4, <2>5, <2>6 DEF TypeOK
<1>18. CASE UNCHANGED vars  BY <1>18 DEF vars, TypeOK
<1>. QED
  BY <1>1, <1>2, <1>3, <1>4, <1>5, <1>6, <1>7, <1>8, <1>9, <1>10, <1>11, <1>12, <1>13, <1>14,
     <1>15, <1>16, <1>17, <1>18
     DEF Next, HandshakeStep, ProducerStep, ConsumerStep, SendStep

\* Every variable of the two adapters keeps its type, and each key of _rx_buffer
\* its kinds of frames.
THEOREM TypeCorrect == Spec => []TypeOK
BY TypeInit, TypeNext, PTL DEF Spec

-----------------------------------------------------------------------------
(* A handshake that returned True is mutual *)

\* Nothing has been negotiated, shown or read in the initial state.
LEMMA MutualInit == Init => ReplyEvidence /\ CallerEvidence
<1> SUFFICES ASSUME Init PROVE ReplyEvidence /\ CallerEvidence  OBVIOUS
<1>1. -2 \in Keys  BY SeqAssumption DEF SeqAssumption, Keys
<1>2. ~IsReply(Blank) /\ ~IsReply(NoImage) /\ ~IsReply(Ended)
  BY ImageAssumption DEF ImageAssumption, IsReply, Views
<1>3. \A e \in Ends : ~negotiated[e] /\ ~IsReply(screen[e]) /\ main[e] = "idle" /\ result[e] = "none"
  BY <1>2 DEF Init
<1>4. \A e \in Ends : queue[e] = <<>>  BY DEF Init
<1>5. \A e \in Ends : buffer[e][-2] = NoFrame  BY <1>1 DEF Init
<1>6. \A e \in Ends : Len(queue[e]) = 0  BY <1>4
<1>7. \A e \in Ends : \A t \in Threads : ~IsReply(consumer[e][t])  BY <1>2 DEF Init
<1>. QED  BY <1>3, <1>5, <1>6, <1>7 DEF ReplyEvidence, CallerEvidence

\* Once negotiated, an end stays so, with the agreed colours.
LEMMA NegotiatedStays ==
    ASSUME TypeOK, [Next]_vars
    PROVE  /\ \A e \in Ends : negotiated[e] => negotiated'[e]
           /\ (\A e \in Ends : negotiated[e] => colors[e] = AgreedColors)
                => \A e \in Ends : negotiated'[e] => colors'[e] = AgreedColors
<1>1. (\E e \in Ends : Apply(e)) \/ UNCHANGED caps
  BY DEF Next, HandshakeStep, SendStep, ProducerStep, ConsumerStep, Initiate, Listen, See, TakeSyn,
         ShowSynAck, TakeSynAck, ShowAck, TakeAck, Timeout, Capture, Get, Store, EndProducer,
         EndConsumer, Start, Stop, Receive, SendCall, ShowData, SendReturn, Retransmit,
         vars, session, life, readers, calls
<1>2. CASE UNCHANGED caps  BY <1>2 DEF caps
<1>3. ASSUME NEW e \in Ends, Apply(e)
      PROVE  /\ \A d \in Ends : d # e => negotiated'[d] = negotiated[d] /\ colors'[d] = colors[d]
             /\ negotiated'[e] /\ colors'[e] = AgreedColors
  BY <1>3 DEF Apply, TypeOK
<1>. QED  BY <1>1, <1>2, <1>3

\* A step that shows nothing leaves the screens or clears one; one that shows a
\* reply shows it at an end that has negotiated.
LEMMA ScreenStep ==
    ASSUME TypeOK, ReplyEvidence, CallerEvidence, [Next]_vars
    PROVE  \A e \in Ends : IsReply(screen'[e]) => negotiated'[e]
<1>a. \A e \in Ends : negotiated[e] => negotiated'[e]  BY NegotiatedStays
<1>b. \A e \in Ends : IsReply(screen[e]) => negotiated[e]  BY DEF ReplyEvidence
<1>c. \A m \in Messages : m.from \in Ends /\ m.frags \in 1 .. LastSeq + 1 /\ LastSeq \in Nat
  BY MessagesAssumption, SeqAssumption DEF MessagesAssumption, SeqAssumption
<1>1. CASE UNCHANGED screen  BY <1>1, <1>a, <1>b
<1>2. ASSUME NEW d \in Ends, NEW frame \in Frames, Show(d, frame), frame.kind \in Replies => negotiated[d]
      PROVE  \A e \in Ends : IsReply(screen'[e]) => negotiated'[e]
  <2>1. screen'[d].frame = frame /\ \A e \in Ends : e # d => screen'[e] = screen[e]
    BY <1>2, ShowFacts
  <2>2. IsReply(screen'[d]) => negotiated'[d]  BY <2>1, <1>2, <1>a DEF IsReply
  <2>. QED  BY <2>1, <2>2, <1>a, <1>b
<1>3. ASSUME NEW e \in Ends, Initiate(e), screen' # screen
      PROVE  \E frame \in Frames : Show(e, frame) /\ frame.kind \notin Replies
  <2>1. Show(e, Handshake("SYN"))  BY <1>3 DEF Initiate
  <2>. QED  BY <2>1, HandshakeFrames DEF Replies
<1>4. ASSUME NEW e \in Ends, ShowSynAck(e) \/ ShowAck(e)
      PROVE  negotiated[e] /\ \E frame \in Frames : Show(e, frame)
  <2>1. main[e] \in {"reply", "ack"}  BY <1>4 DEF ShowSynAck, ShowAck, MainStep
  <2>2. negotiated[e]  BY <2>1 DEF CallerEvidence
  <2>3. PICK kind \in {"SYN_ACK", "ACK"} : Show(e, Handshake(kind))
    BY <1>4 DEF ShowSynAck, ShowAck
  <2>. QED  BY <2>2, <2>3, HandshakeFrames
<1>5. ASSUME NEW m \in Messages, NEW k \in 0 .. m.frags - 1, Show(m.from, DataFrame(m, k))
      PROVE  \E frame \in Frames : Show(m.from, frame) /\ frame.kind \notin Replies
  BY <1>5, DataFrames DEF Replies
<1>6. ASSUME NEW m \in Messages, SendReturn(m), screen' # screen
      PROVE  \E frame \in Frames : Show(m.from, frame) /\ frame.kind \notin Replies
  <2>1. Show(m.from, Fin(m))  BY <1>6 DEF SendReturn
  <2>2. Fin(m) \in Frames  BY DEF Frames
  <2>3. Fin(m).kind = "FIN"  BY DEF Fin
  <2>. QED  BY <2>1, <2>2, <2>3 DEF Replies
<1>7. ASSUME NEW e \in Ends, Stop(e)
      PROVE  \A d \in Ends : IsReply(screen'[d]) => negotiated'[d]
  <2>1. ~IsReply(Blank)  BY ImageAssumption DEF ImageAssumption, IsReply
  <2>2. screen' = [screen EXCEPT ![e] = Blank] /\ screen \in [Ends -> Views]
    BY <1>7 DEF Stop, TypeOK
  <2>. QED  BY <2>1, <2>2, <1>a, <1>b
<1>8. ASSUME NEW m \in Messages, ShowData(m)
      PROVE  \E k \in 0 .. m.frags - 1 : Show(m.from, DataFrame(m, k))
  BY <1>8 DEF ShowData, ShowFrame
<1>9. ASSUME NEW m \in Messages, NEW k \in 0 .. m.frags - 1, Retransmit(m, k)
      PROVE  Show(m.from, DataFrame(m, k))
  BY <1>9 DEF Retransmit, ShowFrame
<1>10. \/ UNCHANGED screen
       \/ \E e \in Ends : Initiate(e) \/ ShowSynAck(e) \/ ShowAck(e) \/ Stop(e)
       \/ \E m \in Messages : \/ ShowData(m) \/ SendReturn(m)
                               \/ \E k \in 0 .. m.frags - 1 : Retransmit(m, k)
  BY DEF Next, HandshakeStep, SendStep, ProducerStep, ConsumerStep, Listen, See, TakeSyn, TakeSynAck,
         TakeAck, Timeout, Capture, Get, Store, EndProducer, EndConsumer, Start, Receive, SendCall, vars
<1>. QED  BY <1>c, <1>1, <1>2, <1>3, <1>4, <1>5, <1>6, <1>7, <1>8, <1>9, <1>10

\* An image in a queue was captured from the other screen, and one in the hands of
\* a consumer was taken from the queue.
LEMMA ImagesMove ==
    ASSUME TypeOK, [Next]_vars
    PROVE  /\ \A e \in Ends : \A i \in 1 .. Len(queue'[e]) :
                 \/ queue'[e][i] = screen[Peer(e)]
                 \/ \E j \in 1 .. Len(queue[e]) : queue'[e][i] = queue[e][j]
           /\ \A e \in Ends : \A t \in Threads :
                 \/ consumer'[e][t] \in {NoImage, Ended, consumer[e][t]}
                 \/ \E j \in 1 .. Len(queue[e]) : consumer'[e][t] = queue[e][j]
<1> DEFINE QueueGoal == \A e \in Ends : \A i \in 1 .. Len(queue'[e]) :
                          \/ queue'[e][i] = screen[Peer(e)]
                          \/ \E j \in 1 .. Len(queue[e]) : queue'[e][i] = queue[e][j]
           HandGoal == \A e \in Ends : \A t \in Threads :
                          \/ consumer'[e][t] \in {NoImage, Ended, consumer[e][t]}
                          \/ \E j \in 1 .. Len(queue[e]) : consumer'[e][t] = queue[e][j]
<1>c. /\ queue \in [Ends -> Seq(Views)]
      /\ consumer \in [Ends -> [Threads -> Views \cup {NoImage, Ended}]]
  BY DEF TypeOK
<1>1. ASSUME UNCHANGED <<queue, consumer>> PROVE QueueGoal /\ HandGoal
  BY <1>1
<1>2. ASSUME NEW e \in Ends, NEW t \in Threads, Capture(e, t) PROVE QueueGoal /\ HandGoal
  <2> DEFINE image == screen[Peer(e)]
  <2>1. image \in Views  BY PeerFacts DEF TypeOK
  <2>3. queue' = [queue EXCEPT ![e] = Enqueue(queue[e], image)]  BY <1>2 DEF Capture
  <2>4. queue[e] \in Seq(Views) /\ Len(queue[e]) <= QueueSize  BY DEF TypeOK
  <2> HIDE DEF image
  <2>5. \A i \in 1 .. Len(Enqueue(queue[e], image)) :
            \/ Enqueue(queue[e], image)[i] = image
            \/ \E j \in 1 .. Len(queue[e]) : Enqueue(queue[e], image)[i] = queue[e][j]
    BY <2>1, <2>4, EnqueueFacts
  <2>6. queue'[e] = Enqueue(queue[e], image) /\ \A d \in Ends : d # e => queue'[d] = queue[d]
    BY <2>3, <1>c
  <2>7. \A i \in 1 .. Len(queue'[e]) :
            queue'[e][i] = image \/ \E j \in 1 .. Len(queue[e]) : queue'[e][i] = queue[e][j]
    BY <2>5, <2>6
  <2>8. UNCHANGED consumer  BY <1>2 DEF Capture
  <2>. QED  BY <2>6, <2>7, <2>8 DEF image
<1>3. ASSUME NEW e \in Ends, NEW t \in Threads, Get(e, t) PROVE QueueGoal /\ HandGoal
  <2>1. queue[e] # <<>> /\ queue' = [queue EXCEPT ![e] = Tail(queue[e])]  BY <1>3 DEF Get
  <2>2. queue'[e] = Tail(queue[e]) /\ \A d \in Ends : d # e => queue'[d] = queue[d]
    BY <2>1, <1>c
  <2>3. queue[e] \in Seq(Views)  BY <1>c
  <2>4. \A i \in 1 .. Len(Tail(queue[e])) :
           i + 1 \in 1 .. Len(queue[e]) /\ Tail(queue[e])[i] = queue[e][i + 1]
    BY <2>1, <2>3
  <2>5. \A i \in 1 .. Len(queue'[e]) : \E j \in 1 .. Len(queue[e]) : queue'[e][i] = queue[e][j]
    BY <2>2, <2>4
  <2>6. 1 \in 1 .. Len(queue[e]) /\ Head(queue[e]) = queue[e][1]  BY <2>1, <2>3
  <2>8. consumer' = [consumer EXCEPT ![e][t] = Head(queue[e])]  BY <1>3 DEF Get
  <2>9. HandGoal
    <3>1. \A d \in Ends : \A u \in Threads :
             consumer'[d][u] = IF d = e /\ u = t THEN Head(queue[e]) ELSE consumer[d][u]
      BY <2>8, <1>c
    <3>. QED  BY <3>1, <2>6
  <2>10. QueueGoal
    <3> SUFFICES ASSUME NEW d \in Ends, NEW i \in 1 .. Len(queue'[d])
                 PROVE  \E j \in 1 .. Len(queue[d]) : queue'[d][i] = queue[d][j]
      OBVIOUS
    <3>1. CASE d = e  BY <3>1, <2>5
    <3>2. CASE d # e  BY <3>2, <2>2
    <3>. QED  BY <3>1, <3>2
  <2>. QED  BY <2>9, <2>10
<1>4. ASSUME NEW e \in Ends, NEW t \in Threads, Store(e, t) \/ EndConsumer(e, t)
      PROVE  QueueGoal /\ HandGoal
  <2>1. PICK image \in {NoImage, Ended} : consumer' = [consumer EXCEPT ![e][t] = image]
    BY <1>4 DEF Store, EndConsumer
  <2>2. UNCHANGED queue  BY <1>4 DEF Store, EndConsumer
  <2>3. \A d \in Ends : \A u \in Threads :
           consumer'[d][u] = IF d = e /\ u = t THEN image ELSE consumer[d][u]
    BY <2>1, <1>c
  <2>. QED  BY <2>2, <2>3
<1>5. ASSUME NEW e \in Ends, Start(e) PROVE QueueGoal /\ HandGoal
  <2>1. UNCHANGED queue /\ consumer' = [consumer EXCEPT ![e][starts[e] + 1] = NoImage]
    BY <1>5 DEF Start
  <2>2. \A d \in Ends : \A u \in Threads : consumer'[d][u] \in {NoImage, consumer[d][u]}
    BY <2>1, <1>c
  <2>. QED  BY <2>1, <2>2
<1>6. \/ UNCHANGED <<queue, consumer>>
      \/ \E e \in Ends : Start(e) \/ \E t \in Threads :
             Capture(e, t) \/ Get(e, t) \/ Store(e, t) \/ EndConsumer(e, t)
  BY DEF Next, HandshakeStep, SendStep, ProducerStep, ConsumerStep, Initiate, Listen, See, TakeSyn,
         ShowSynAck, TakeSynAck, ShowAck, TakeAck, Timeout, EndProducer, Stop, Receive, SendCall,
         ShowData, SendReturn, Retransmit, vars, readers
<1> HIDE DEF QueueGoal, HandGoal
<1>7. QueueGoal /\ HandGoal  BY <1>1, <1>2, <1>3, <1>4, <1>5, <1>6
<1>. QED  BY <1>7 DEF QueueGoal, HandGoal

\* A frame in the buffer was decoded from the hands of a consumer, under its key.
LEMMA FramesMove ==
    ASSUME TypeOK, [Next]_vars
    PROVE  \A e \in Ends : \A k \in Keys :
              \/ buffer'[e][k] \in {NoFrame, buffer[e][k]}
              \/ \E t \in Threads :
                    /\ consumer[e][t] \in Images /\ consumer[e][t].frame.kind # "FIN"
                    /\ buffer'[e][k] = consumer[e][t].frame /\ KeyOf(consumer[e][t].frame) = k
<1> DEFINE Goal == \A e \in Ends : \A k \in Keys :
              \/ buffer'[e][k] \in {NoFrame, buffer[e][k]}
              \/ \E t \in Threads :
                    /\ consumer[e][t] \in Images /\ consumer[e][t].frame.kind # "FIN"
                    /\ buffer'[e][k] = consumer[e][t].frame /\ KeyOf(consumer[e][t].frame) = k
<1>d. \A k \in {-1, -2} : k \in Keys  BY SeqAssumption DEF SeqAssumption, Keys
<1>1. CASE UNCHANGED buffer  BY <1>1
<1>2. ASSUME NEW e \in Ends, NEW key \in Keys, Pop(e, key) PROVE Goal
  <2>1. buffer \in [Ends -> [Keys -> Frames \cup {NoFrame}]]  BY DEF TypeOK
  <2>2. buffer' = [buffer EXCEPT ![e][key] = NoFrame]  BY <1>2 DEF Pop
  <2>3. \A d \in Ends : \A k \in Keys : buffer'[d][k] \in {NoFrame, buffer[d][k]}  BY <2>1, <2>2
  <2>. QED  BY <2>3
<1>3. ASSUME NEW e \in Ends, NEW t \in Threads, Store(e, t), buffer' # buffer PROVE Goal
  <2> DEFINE image == consumer[e][t]
  <2>1. image \in Images /\ image.frame.kind # "FIN"
    BY <1>3 DEF Store, Legible, TypeOK, Views
  <2>2. image.frame \in Frames  BY <2>1 DEF Images
  <2>3. buffer' = [buffer EXCEPT ![e][KeyOf(image.frame)] = image.frame]  BY <1>3 DEF Store
  <2> HIDE DEF image
  <2>4. KeyOf(image.frame) \in Keys  BY <2>1, <2>2, FrameKeys
  <2>5. buffer'[e][KeyOf(image.frame)] = image.frame
    BY <2>2, <2>3, <2>4, BufferFacts
  <2>6. \A d \in Ends : \A k \in Keys :
           (d = e /\ k = KeyOf(image.frame)) \/ buffer'[d][k] = buffer[d][k]
    BY <2>2, <2>3, <2>4, BufferFacts
  <2>. QED  BY <2>1, <2>5, <2>6 DEF image
<1>4. \/ UNCHANGED buffer
      \/ \E e \in Ends : \E t \in Threads : Store(e, t)
      \/ \E e \in Ends : \E key \in Keys : Pop(e, key)
  BY <1>d DEF Next, HandshakeStep, SendStep, ProducerStep, ConsumerStep, Initiate, Listen, See, TakeSyn,
         ShowSynAck, TakeSynAck, ShowAck, TakeAck, Timeout, Capture, Get, EndProducer, EndConsumer,
         Start, Stop, Receive, SendCall, ShowData, SendReturn, Retransmit, vars
<1> HIDE DEF Goal
<1>5. Goal  BY <1>1, <1>2, <1>3, <1>4 DEF Goal
<1>. QED  BY <1>5 DEF Goal

\* A reply in a queue, in the hands of a consumer or under the key -2 was on the
\* screen of an end that had negotiated.
LEMMA ReplyStep ==
    ASSUME TypeOK, ReplyEvidence, [Next]_vars
    PROVE  /\ \A e \in Ends : \A i \in 1 .. Len(queue'[e]) : IsReply(queue'[e][i]) => negotiated'[Peer(e)]
           /\ \A e \in Ends : \A t \in Threads : IsReply(consumer'[e][t]) => negotiated'[Peer(e)]
           /\ \A e \in Ends : buffer'[e][-2] # NoFrame => negotiated'[Peer(e)]
<1>1. \A e \in Ends : Peer(e) \in Ends  BY PeerFacts
<1>2. \A e \in Ends : negotiated[Peer(e)] => negotiated'[Peer(e)]  BY <1>1, NegotiatedStays
<1>3. ~IsReply(NoImage) /\ ~IsReply(Ended)
  BY ImageAssumption DEF ImageAssumption, IsReply, Views
<1>4. \A e \in Ends : \A i \in 1 .. Len(queue'[e]) : IsReply(queue'[e][i]) => negotiated'[Peer(e)]
  BY <1>1, <1>2, ImagesMove DEF ReplyEvidence
<1>5. \A e \in Ends : \A t \in Threads : IsReply(consumer'[e][t]) => negotiated'[Peer(e)]
  BY <1>2, <1>3, ImagesMove DEF ReplyEvidence
<1>6. ASSUME NEW e \in Ends, buffer'[e][-2] # NoFrame PROVE negotiated'[Peer(e)]
  <2>1. -2 \in Keys  BY SeqAssumption DEF SeqAssumption, Keys
  <2>2. CASE buffer'[e][-2] = buffer[e][-2]
    BY <1>2, <1>6, <2>2 DEF ReplyEvidence
  <2>3. CASE buffer'[e][-2] # buffer[e][-2]
    <3>1. PICK t \in Threads :
             /\ consumer[e][t] \in Images /\ consumer[e][t].frame.kind # "FIN"
             /\ KeyOf(consumer[e][t].frame) = -2
      BY <1>6, <2>1, <2>3, FramesMove
    <3>2. consumer[e][t].frame.kind \in Replies
      <4>1. consumer[e][t].frame \in Frames  BY <3>1 DEF Images
      <4>. QED  BY <3>1, <4>1, FrameKeys
    <3>. QED  BY <1>2, <3>1, <3>2 DEF ReplyEvidence, IsReply
  <2>. QED  BY <2>2, <2>3
<1>. QED  BY <1>4, <1>5, <1>6

\* A caller passes on what it has read.
LEMMA CallerStep ==
    ASSUME TypeOK, ReplyEvidence, CallerEvidence, [Next]_vars
    PROVE  CallerEvidence'
<1>a. \A e \in Ends : negotiated[e] => negotiated'[e]  BY NegotiatedStays
<1>b. \A e \in Ends : Peer(e) \in Ends  BY PeerFacts
<1>c. main \in [Ends -> MainSteps] /\ result \in [Ends -> {"none", "true", "false", "error"}]
  BY DEF TypeOK, MainSteps
<1>1. CASE UNCHANGED <<main, result>>  BY <1>1, <1>a, <1>b DEF CallerEvidence
<1>2. ASSUME NEW e \in Ends, See(e) PROVE CallerEvidence'
  <2>1. /\ main[e] \in WaitSteps /\ main' = [main EXCEPT ![e] = Seen(main[e])]
        /\ UNCHANGED result
    BY <1>2 DEF See
  <2>2. main'[e] = Seen(main[e]) /\ \A d \in Ends : d # e => main'[d] = main[d]
    BY <2>1, <1>c
  <2>3. ASSUME main[e] \in {"syn", "replied"} PROVE negotiated[Peer(e)]
    <3>1. PICK kind \in {"SYN_ACK", "ACK"} : Awaited(main[e]) = Handshake(kind)
      BY <2>3 DEF Awaited
    <3>2. KeyOf(Handshake(kind)) = -2 /\ Handshake(kind) \in Frames  BY HandshakeFrames
    <3>3. buffer[e][-2] = Handshake(kind)  BY <1>2, <3>1, <3>2 DEF See
    <3>. QED  BY <3>2, <3>3, NoFrameAssumption DEF NoFrameAssumption, ReplyEvidence
  <2>4. CASE main[e] = "syn"
    <3>1. main'[e] = "syn_seen"  BY <2>2, <2>4 DEF Seen
    <3>. QED  BY <3>1, <2>1, <2>2, <2>3, <2>4, <1>a, <1>b DEF CallerEvidence
  <2>5. CASE main[e] = "listen"
    <3>1. main'[e] = "listen_seen"  BY <2>2, <2>5 DEF Seen
    <3>. QED  BY <3>1, <2>1, <2>2, <1>a, <1>b DEF CallerEvidence
  <2>6. CASE main[e] = "replied"
    <3>1. main'[e] = "ack_seen"  BY <2>2, <2>6 DEF Seen
    <3>. QED  BY <3>1, <2>1, <2>2, <2>3, <2>6, <1>a, <1>b DEF CallerEvidence
  <2>. QED  BY <2>1, <2>4, <2>5, <2>6 DEF WaitSteps
<1>3. ASSUME NEW e \in Ends, TakeSyn(e) \/ TakeSynAck(e) PROVE CallerEvidence'
  <2>1. UNCHANGED result /\ Apply(e)  BY <1>3 DEF TakeSyn, TakeSynAck
  <2>2. negotiated'[e]  BY <2>1 DEF Apply, TypeOK
  <2>3. \A d \in Ends : d # e => main'[d] = main[d]
    BY <1>3, <1>c DEF TakeSyn, TakeSynAck, MainStep
  <2>4. main'[e] = "reply" \/ (main[e] = "syn_seen" /\ main'[e] = "ack")
    BY <1>3, <1>c DEF TakeSyn, TakeSynAck, MainStep
  <2>. QED  BY <2>1, <2>2, <2>3, <2>4, <1>a, <1>b DEF CallerEvidence
<1>4. ASSUME NEW e \in Ends, ShowSynAck(e) PROVE CallerEvidence'
  BY <1>4, <1>a, <1>b, <1>c DEF ShowSynAck, MainStep, CallerEvidence
<1>5. ASSUME NEW e \in Ends, ShowAck(e) \/ TakeAck(e) PROVE CallerEvidence'
  <2>1. main[e] \in {"ack", "ack_seen"}  BY <1>5 DEF ShowAck, TakeAck, MainStep
  <2>2. negotiated'[e] /\ negotiated'[Peer(e)]  BY <2>1, <1>a, <1>b DEF CallerEvidence
  <2>3. main' = [main EXCEPT ![e] = "idle"] /\ result' = [result EXCEPT ![e] = "true"]
    BY <1>5 DEF ShowAck, TakeAck, MainStep, Return
  <2>. QED  BY <2>2, <2>3, <1>a, <1>b, <1>c DEF CallerEvidence
<1>6. ASSUME NEW e \in Ends, Initiate(e) \/ Listen(e) \/ Timeout(e) PROVE CallerEvidence'
  <2>1. PICK to \in {"idle", "syn", "listen"}, value \in {"none", "false", "error"} :
          main' = [main EXCEPT ![e] = to] /\ result' = [result EXCEPT ![e] = value]
    BY <1>6 DEF Initiate, Listen, Timeout, Begin, MainStep, Return
  <2>. QED  BY <2>1, <1>a, <1>b, <1>c DEF CallerEvidence
<1>7. \/ UNCHANGED <<main, result>>
      \/ \E e \in Ends : \/ See(e) \/ TakeSyn(e) \/ TakeSynAck(e) \/ ShowSynAck(e) \/ ShowAck(e)
                         \/ TakeAck(e) \/ Initiate(e) \/ Listen(e) \/ Timeout(e)
  BY DEF Next, HandshakeStep, SendStep, ProducerStep, ConsumerStep, Capture, Get, Store, EndProducer,
         EndConsumer, Start, Stop, Receive, SendCall, ShowData, SendReturn, Retransmit, vars, session
<1>. QED  BY <1>1, <1>2, <1>3, <1>4, <1>5, <1>6, <1>7

\* When handshake() returns True at one end, the other end has negotiated too and
\* both codecs have the agreed colours, whatever frames earlier attempts left.
THEOREM MutualCorrect == Spec => []TrueIsMutual
<1>1. Init => MutualInv  BY TypeInit, MutualInit DEF MutualInv
<1>2. MutualInv /\ [Next]_vars => MutualInv'
  <2> SUFFICES ASSUME MutualInv, [Next]_vars PROVE MutualInv'  OBVIOUS
  <2>1. TypeOK /\ ReplyEvidence /\ CallerEvidence  BY DEF MutualInv
  <2>2. TypeOK'  BY <2>1, TypeNext
  <2>3. \A e \in Ends : negotiated'[e] => colors'[e] = AgreedColors
    BY <2>1, NegotiatedStays DEF ReplyEvidence
  <2>4. ReplyEvidence'
    BY <2>1, <2>3, ScreenStep, ReplyStep DEF ReplyEvidence
  <2>. QED  BY <2>1, <2>2, <2>4, CallerStep DEF MutualInv
<1>3. MutualInv => TrueIsMutual
  <2>1. \A e \in Ends : Peer(e) \in Ends  BY PeerFacts
  <2>. QED  BY <2>1 DEF MutualInv, ReplyEvidence, CallerEvidence, TrueIsMutual
<1>. QED  BY <1>1, <1>2, <1>3, PTL DEF Spec

-----------------------------------------------------------------------------
(* Where data comes from *)

\* A frame of data was shown by the end that sends its message.
From(f, e) == f.kind = "DATA" => f.msg.from = e

\* Data is on the screen of its sender, and everywhere else at the other end; what
\* is stored under a key is a frame with a key.
OriginInv ==
    /\ \A e \in Ends : screen[e] \in Images => From(screen[e].frame, e)
    /\ \A e \in Ends : \A i \in 1 .. Len(queue[e]) :
          queue[e][i] \in Images => From(queue[e][i].frame, Peer(e))
    /\ \A e \in Ends : \A t \in Threads :
          consumer[e][t] \in Images => From(consumer[e][t].frame, Peer(e))
    /\ \A e \in Ends : \A k \in Keys :
          buffer[e][k] # NoFrame => buffer[e][k].kind # "FIN" /\ From(buffer[e][k], Peer(e))

\* send(), send_file() and retransmit() show data at the sender, nobody else does.
LEMMA ScreenOrigin ==
    ASSUME TypeOK, OriginInv, [Next]_vars
    PROVE  \A e \in Ends : screen'[e] \in Images => From(screen'[e].frame, e)
<1>1. CASE UNCHANGED screen  BY <1>1 DEF OriginInv
<1>2. ASSUME NEW d \in Ends, NEW frame \in Frames, Show(d, frame), From(frame, d)
      PROVE  \A e \in Ends : screen'[e] \in Images => From(screen'[e].frame, e)
  <2>1. screen'[d].frame = frame /\ \A e \in Ends : e # d => screen'[e] = screen[e]
    BY <1>2, ShowFacts
  <2>. QED  BY <1>2, <2>1 DEF OriginInv
<1>3. ASSUME NEW d \in Ends, NEW kind \in {"SYN", "SYN_ACK", "ACK"}, Show(d, Handshake(kind))
      PROVE  \A e \in Ends : screen'[e] \in Images => From(screen'[e].frame, e)
  <2>1. Handshake(kind) \in Frames /\ From(Handshake(kind), d)  BY HandshakeFrames DEF From
  <2>. QED  BY <1>2, <1>3, <2>1
<1>4. ASSUME NEW m \in Messages, NEW k \in 0 .. m.frags - 1, Show(m.from, DataFrame(m, k))
      PROVE  \A e \in Ends : screen'[e] \in Images => From(screen'[e].frame, e)
  <2>1. m.from \in Ends  BY MessagesAssumption DEF MessagesAssumption
  <2>2. DataFrame(m, k) \in Frames /\ From(DataFrame(m, k), m.from)  BY DataFrames DEF From
  <2>. QED  BY <1>2, <1>4, <2>1, <2>2
<1>5. ASSUME NEW m \in Messages, Show(m.from, Fin(m))
      PROVE  \A e \in Ends : screen'[e] \in Images => From(screen'[e].frame, e)
  <2>1. m.from \in Ends  BY MessagesAssumption DEF MessagesAssumption
  <2>2. Fin(m) \in Frames /\ From(Fin(m), m.from)  BY DEF Frames, Fin, From
  <2>. QED  BY <1>2, <1>5, <2>1, <2>2
<1>6. ASSUME NEW d \in Ends, Stop(d)
      PROVE  \A e \in Ends : screen'[e] \in Images => From(screen'[e].frame, e)
  <2>1. screen' = [screen EXCEPT ![d] = Blank] /\ screen \in [Ends -> Views]
    BY <1>6 DEF Stop, TypeOK
  <2>2. \A e \in Ends : screen'[e] \in {Blank, screen[e]}  BY <2>1
  <2>. QED  BY <2>2, ImageAssumption DEF ImageAssumption, OriginInv
<1>7. \/ UNCHANGED screen
      \/ \E d \in Ends : Stop(d) \/ \E kind \in {"SYN", "SYN_ACK", "ACK"} : Show(d, Handshake(kind))
      \/ \E m \in Messages : \/ Show(m.from, Fin(m))
                             \/ \E k \in 0 .. m.frags - 1 : Show(m.from, DataFrame(m, k))
  BY DEF Next, HandshakeStep, SendStep, ProducerStep, ConsumerStep, Listen, See, TakeSyn, TakeSynAck,
         TakeAck, Timeout, Capture, Get, Store, EndProducer, EndConsumer, Start, Receive, SendCall, vars,
         Initiate, ShowSynAck, ShowAck, ShowData, SendReturn, Retransmit, ShowFrame
<1>. QED  BY <1>1, <1>3, <1>4, <1>5, <1>6, <1>7

LEMMA OriginStep == TypeOK /\ OriginInv /\ [Next]_vars => OriginInv'
<1> SUFFICES ASSUME TypeOK, OriginInv, [Next]_vars PROVE OriginInv'  OBVIOUS
<1>1. \A e \in Ends : Peer(e) \in Ends  BY PeerFacts
<1>2. NoImage \notin Images /\ Ended \notin Images
  BY ImageAssumption DEF ImageAssumption, Views
<1>3. \A e \in Ends : \A i \in 1 .. Len(queue'[e]) :
          queue'[e][i] \in Images => From(queue'[e][i].frame, Peer(e))
  BY <1>1, ImagesMove DEF OriginInv
<1>4. \A e \in Ends : \A t \in Threads :
          consumer'[e][t] \in Images => From(consumer'[e][t].frame, Peer(e))
  BY <1>2, ImagesMove DEF OriginInv
<1>5. \A e \in Ends : \A k \in Keys :
          buffer'[e][k] # NoFrame => buffer'[e][k].kind # "FIN" /\ From(buffer'[e][k], Peer(e))
  BY FramesMove DEF OriginInv
<1>. QED  BY <1>3, <1>4, <1>5, ScreenOrigin DEF OriginInv

LEMMA OriginInit == Init => OriginInv
<1> SUFFICES ASSUME Init PROVE OriginInv  OBVIOUS
<1>1. Blank \notin Images /\ NoImage \notin Images /\ Ended \notin Images
  BY ImageAssumption DEF ImageAssumption, Views
<1>2. \A e \in Ends : queue[e] = <<>> /\ screen[e] = Blank  BY DEF Init
<1>3. \A e \in Ends : Len(queue[e]) = 0  BY <1>2
<1>4. \A e \in Ends : \A t \in Threads : consumer[e][t] \in {NoImage, Ended}  BY DEF Init
<1>5. \A e \in Ends : \A k \in Keys : buffer[e][k] = NoFrame  BY DEF Init
<1>. QED  BY <1>1, <1>2, <1>3, <1>4, <1>5 DEF OriginInv

-----------------------------------------------------------------------------
(* A message is returned at most once for each showing and run of the reader *)

\* What carries the first frame of a message: an image, a key of the buffer, the
\* places of a queue, the consumers that decode it, and the producers that have
\* it in front of their camera and have not captured it.
Carries(v, m)    == v \in Images /\ v.frame = DataFrame(m, 0)
Kept(f, m)       == IF f = DataFrame(m, 0) THEN 1 ELSE 0
Places(q, m)     == {i \in 1 .. Len(q) : Carries(q[i], m)}
Holders(c, m)    == {t \in Threads : Carries(c[t], m)}
Waiters(p, v, m) == {t \in Threads : Carries(v, m) /\ p[t] \notin {Ended, v}}

\* The times m was returned or still may be, if nothing more is shown.
Copies(m) ==
    LET e == Peer(m.from) IN
        Returned(m) + Kept(buffer[e][0], m) + Cardinality(Holders(consumer[e], m))
            + Cardinality(Places(queue[e], m))
            + Cardinality(Waiters(producer[e], screen[m.from], m))

ThreadsInv == \A e \in Ends : \A t \in Threads : t > starts[e] => producer[e][t] = Ended

MessageInv(m) ==
    /\ Carries(screen[m.from], m) => Shows(m) >= 1
    /\ Copies(m) <= starts[Peer(m.from)] * Shows(m)

RepeatsInv == ThreadsInv /\ \A m \in Messages : MessageInv(m)

\* How the size of a finite set bounds that of a set which it nearly contains.
LEMMA CountChange ==
    ASSUME NEW S, IsFiniteSet(S), NEW T, NEW x
    PROVE  /\ Cardinality(S) \in Nat
           /\ T \subseteq S => Cardinality(T) \in Nat /\ Cardinality(T) <= Cardinality(S)
           /\ T \subseteq S \cup {x} => Cardinality(T) \in Nat /\ Cardinality(T) <= Cardinality(S) + 1
           /\ T \subseteq S \ {x} /\ x \in S =>
                 Cardinality(T) \in Nat /\ Cardinality(T) + 1 <= Cardinality(S)
<1>1. Cardinality(S) \in Nat  BY FS_CardinalityType
<1>2. \A R : IsFiniteSet(R) /\ T \subseteq R => Cardinality(T) \in Nat /\ Cardinality(T) <= Cardinality(R)
  BY FS_Subset, FS_CardinalityType
<1>3. /\ IsFiniteSet(S \cup {x}) /\ Cardinality(S \cup {x}) \in Nat
      /\ Cardinality(S \cup {x}) <= Cardinality(S) + 1
  <2>1. /\ IsFiniteSet(S \cup {x})
        /\ Cardinality(S \cup {x}) = IF x \in S THEN Cardinality(S) ELSE Cardinality(S) + 1
    BY FS_AddElement
  <2>. QED  BY <1>1, <2>1
<1>4. /\ IsFiniteSet(S \ {x})
      /\ x \in S => Cardinality(S \ {x}) \in Nat /\ Cardinality(S \ {x}) = Cardinality(S) - 1
  BY <1>1, FS_RemoveElement, FS_CardinalityType
<1>5. T \subseteq S \cup {x} => Cardinality(T) \in Nat /\ Cardinality(T) <= Cardinality(S) + 1
  BY <1>1, <1>2, <1>3
<1>6. T \subseteq S \ {x} /\ x \in S => Cardinality(T) \in Nat /\ Cardinality(T) + 1 <= Cardinality(S)
  BY <1>1, <1>2, <1>4
<1>. QED  BY <1>1, <1>2, <1>5, <1>6

\* The places of a queue and the threads are finitely many.
LEMMA CountFinite ==
    ASSUME NEW m, NEW q \in Seq(Views), NEW c, NEW p, NEW v
    PROVE  /\ IsFiniteSet(Places(q, m)) /\ Cardinality(Places(q, m)) \in Nat
           /\ IsFiniteSet(Holders(c, m)) /\ Cardinality(Holders(c, m)) \in Nat
           /\ IsFiniteSet(Waiters(p, v, m)) /\ Cardinality(Waiters(p, v, m)) \in Nat
<1>1. IsFiniteSet(1 .. Len(q)) /\ IsFiniteSet(Threads)
  BY FS_Interval, StartsAssumption DEF StartsAssumption, Threads
<1>2. /\ Places(q, m) \subseteq 1 .. Len(q) /\ Holders(c, m) \subseteq Threads
      /\ Waiters(p, v, m) \subseteq Threads
  BY DEF Places, Holders, Waiters
<1>3. IsFiniteSet(Places(q, m)) /\ IsFiniteSet(Holders(c, m)) /\ IsFiniteSet(Waiters(p, v, m))
  BY <1>1, <1>2, FS_Subset
<1>. QED  BY <1>3, FS_CardinalityType

\* No more producers wait for an image than start() has made, when the others
\* have not been made yet.
LEMMA WaitersBound ==
    ASSUME NEW n \in Threads, NEW p, NEW v, NEW m, \A t \in Threads : t > n => p[t] = Ended
    PROVE  Cardinality(Waiters(p, v, m)) <= n
<1>1. n \in Nat /\ 1 .. n \subseteq Threads
  BY StartsAssumption DEF StartsAssumption, Threads
<1>2. Waiters(p, v, m) \subseteq 1 .. n
  BY <1>1 DEF Waiters, Threads
<1>3. IsFiniteSet(1 .. n) /\ Cardinality(1 .. n) = n
  BY <1>1, FS_Interval
<1>. QED  BY <1>2, <1>3, FS_Subset

\* Taking the head off a queue takes one carrier off, if the head is one.
LEMMA PlacesTail ==
    ASSUME NEW q \in Seq(Views), q # <<>>, NEW m
    PROVE  Cardinality(Places(Tail(q), m)) + (IF Carries(Head(q), m) THEN 1 ELSE 0)
              <= Cardinality(Places(q, m))
<1> DEFINE S == Places(Tail(q), m)
           T == Places(q, m) \ {1}
           f == [i \in S |-> i + 1]
<1>1. /\ Tail(q) \in Seq(Views) /\ 1 \in 1 .. Len(q) /\ Head(q) = q[1]
      /\ \A i \in 1 .. Len(Tail(q)) : i + 1 \in 1 .. Len(q) /\ i + 1 # 1 /\ Tail(q)[i] = q[i + 1]
  OBVIOUS
<1>2. /\ IsFiniteSet(S) /\ IsFiniteSet(Places(q, m))
      /\ Cardinality(S) \in Nat /\ Cardinality(Places(q, m)) \in Nat
  BY <1>1, CountFinite
<1>3. \A i \in S : i \in Nat /\ i + 1 \in T
  BY <1>1 DEF Places
<1> HIDE DEF S, T
<1>4. f \in Injection(S, T)
  <2>1. f \in [S -> T]  BY <1>3
  <2>2. \A a, b \in S : f[a] = f[b] => a = b  BY <1>3
  <2>. QED  BY <2>1, <2>2 DEF Injection, IsInjective
<1>5. IsFiniteSet(T)
  BY <1>2, FS_RemoveElement DEF T
<1>6. Cardinality(S) <= Cardinality(T)
  BY <1>4, <1>5, FS_Injection
<1>7. Carries(Head(q), m) => 1 \in Places(q, m)
  BY <1>1 DEF Places
<1>8. Cardinality(T) = IF 1 \in Places(q, m) THEN Cardinality(Places(q, m)) - 1
                                             ELSE Cardinality(Places(q, m))
  BY <1>2, FS_RemoveElement DEF T
<1>9. Cardinality(S) + (IF Carries(Head(q), m) THEN 1 ELSE 0) <= Cardinality(Places(q, m))
  BY <1>2, <1>6, <1>7, <1>8
<1>. QED  BY <1>9 DEF S

\* Appending adds a carrier only if the image is one, and put() no more than that.
LEMMA PlacesEnqueue ==
    ASSUME NEW q \in Seq(Views), Len(q) <= QueueSize, NEW image \in Views, NEW m
    PROVE  Cardinality(Places(Enqueue(q, image), m))
              <= Cardinality(Places(q, m)) + (IF Carries(image, m) THEN 1 ELSE 0)
<1>1. ASSUME NEW r \in Seq(Views)
      PROVE  Cardinality(Places(Append(r, image), m))
                <= Cardinality(Places(r, m)) + (IF Carries(image, m) THEN 1 ELSE 0)
  <2>1. /\ Len(Append(r, image)) = Len(r) + 1 /\ Append(r, image)[Len(r) + 1] = image
        /\ \A i \in 1 .. Len(r) : Append(r, image)[i] = r[i]
    OBVIOUS
  <2>2. Places(Append(r, image), m) \subseteq
           IF Carries(image, m) THEN Places(r, m) \cup {Len(r) + 1} ELSE Places(r, m)
    BY <2>1 DEF Places
  <2>3. IsFiniteSet(Places(r, m)) /\ Cardinality(Places(r, m)) \in Nat
    BY CountFinite
  <2>4. CASE Carries(image, m)
    <3>1. Places(Append(r, image), m) \subseteq Places(r, m) \cup {Len(r) + 1}  BY <2>2, <2>4
    <3>. QED  BY <3>1, <2>3, <2>4, CountChange
  <2>5. CASE ~Carries(image, m)
    <3>1. Places(Append(r, image), m) \subseteq Places(r, m)  BY <2>2, <2>5
    <3>2. Cardinality(Places(Append(r, image), m)) <= Cardinality(Places(r, m))
      BY <3>1, <2>3, FS_Subset
    <3>. QED  BY <3>2, <2>3, <2>5
  <2>. QED  BY <2>4, <2>5
<1>2. CASE Len(q) = QueueSize
  <2>1. q # <<>>
    BY <1>2, SizeAssumption DEF SizeAssumption
  <2>2. Tail(q) \in Seq(Views) /\ Enqueue(q, image) = Append(Tail(q), image)
    BY <1>2, <2>1 DEF Enqueue
  <2> DEFINE tail == Cardinality(Places(Tail(q), m))
             both == Cardinality(Places(Append(Tail(q), image), m))
             more == IF Carries(image, m) THEN 1 ELSE 0
             head == IF Carries(Head(q), m) THEN 1 ELSE 0
  <2>3. /\ tail \in Nat /\ head \in Nat /\ more \in Nat /\ Cardinality(Places(q, m)) \in Nat
    BY <2>2, CountFinite
  <2>4. both \in Nat
    <3>1. \A r \in Seq(Views) : Cardinality(Places(r, m)) \in Nat  BY CountFinite
    <3>2. Append(Tail(q), image) \in Seq(Views)  BY <2>2
    <3>. QED  BY ONLY <3>1, <3>2
  <2>5. tail + head <= Cardinality(Places(q, m))
    BY <2>1, PlacesTail
  <2>6. both <= tail + more
    BY <1>1, <2>2
  <2> HIDE DEF tail, both, more, head
  <2>7. both <= Cardinality(Places(q, m)) + more
    BY <2>3, <2>4, <2>5, <2>6
  <2>. QED  BY <2>2, <2>7 DEF both, more
<1>3. CASE Len(q) # QueueSize
  BY <1>1, <1>3 DEF Enqueue
<1>. QED  BY <1>2, <1>3

\* The threads that start() has not made yet have ended, so to speak.
LEMMA ThreadsStep == TypeOK /\ ThreadsInv /\ [Next]_vars => ThreadsInv'
<1> SUFFICES ASSUME TypeOK, ThreadsInv, [Next]_vars PROVE ThreadsInv'  OBVIOUS
<1>0. /\ producer \in [Ends -> [Threads -> Views \cup {NoImage, Ended}]]
      /\ starts \in [Ends -> Threads] /\ Threads \subseteq Nat
  BY StartsAssumption DEF TypeOK, StartsAssumption, Threads
<1>1. CASE UNCHANGED <<producer, starts>>
  BY <1>1 DEF ThreadsInv
<1>2. ASSUME NEW f \in Ends, NEW u \in Threads, Capture(f, u) PROVE ThreadsInv'
  <2>1. /\ producer[f][u] # Ended /\ UNCHANGED starts
        /\ producer' = [producer EXCEPT ![f][u] = screen[Peer(f)]]
    BY <1>2 DEF Capture, Changed, life
  <2>2. \A e \in Ends : \A t \in Threads :
           producer'[e][t] = producer[e][t] \/ producer[e][t] # Ended
    BY <1>0, <2>1
  <2>. QED  BY <2>1, <2>2 DEF ThreadsInv
<1>3. ASSUME NEW f \in Ends, NEW u \in Threads, EndProducer(f, u) PROVE ThreadsInv'
  <2>1. UNCHANGED starts /\ producer' = [producer EXCEPT ![f][u] = Ended]
    BY <1>3 DEF EndProducer, life
  <2>2. \A e \in Ends : \A t \in Threads : producer'[e][t] \in {producer[e][t], Ended}
    BY <1>0, <2>1
  <2>. QED  BY <2>1, <2>2 DEF ThreadsInv
<1>4. ASSUME NEW f \in Ends, Start(f) PROVE ThreadsInv'
  <2>1. /\ starts' = [starts EXCEPT ![f] = starts[f] + 1]
        /\ producer' = [producer EXCEPT ![f][starts[f] + 1] = NoImage]
    BY <1>4 DEF Start
  <2>2. \A e \in Ends : \A t \in Threads :
           t > starts'[e] => t > starts[e] /\ producer'[e][t] = producer[e][t]
    <3> SUFFICES ASSUME NEW e \in Ends, NEW t \in Threads, t > starts'[e]
                 PROVE  t > starts[e] /\ producer'[e][t] = producer[e][t]
      OBVIOUS
    <3>1. CASE e = f
      <4>1. starts'[e] = starts[f] + 1 /\ starts[f] \in Nat /\ t \in Nat
        BY <1>0, <2>1, <3>1
      <4>2. t > starts[f] /\ t # starts[f] + 1
        BY <4>1
      <4>. QED  BY <1>0, <2>1, <3>1, <4>2
    <3>2. CASE e # f
      BY <1>0, <2>1, <3>2
    <3>. QED  BY <3>1, <3>2
  <2>. QED  BY <2>2 DEF ThreadsInv
<1>5. \/ UNCHANGED <<producer, starts>>
      \/ \E f \in Ends : Start(f) \/ \E u \in Threads : Capture(f, u) \/ EndProducer(f, u)
  BY DEF Next, HandshakeStep, SendStep, ProducerStep, ConsumerStep, Initiate, Listen, See, TakeSyn,
         ShowSynAck, TakeSynAck, ShowAck, TakeAck, Timeout, Get, Store, EndConsumer, Stop, Receive,
         SendCall, ShowData, SendReturn, Retransmit, vars, readers, life
<1>. QED  BY <1>1, <1>2, <1>3, <1>4, <1>5

\* Only data that carries a message carries it, and no other frame does.
LEMMA CarriesFacts ==
    ASSUME NEW m \in Messages
    PROVE  /\ ~Carries(Blank, m) /\ ~Carries(NoImage, m) /\ ~Carries(Ended, m)
           /\ \A kind \in {"SYN", "SYN_ACK", "ACK"} : Handshake(kind) # DataFrame(m, 0)
           /\ \A n \in Messages : Fin(n) # DataFrame(m, 0)
           /\ \A n \in Messages, k \in Int :
                 n # m \/ k # 0 => DataFrame(n, k) # DataFrame(m, 0)
           /\ NoFrame # DataFrame(m, 0)
<1>1. /\ DataFrame(m, 0) \in Frames /\ DataFrame(m, 0).kind = "DATA" /\ DataFrame(m, 0).msg = m
      /\ DataFrame(m, 0).seq = 0
  <2>1. 0 \in 0 .. m.frags - 1
    BY MessagesAssumption, SeqAssumption DEF MessagesAssumption, SeqAssumption
  <2>. QED  BY <2>1, DataFrames
<1>2. \A kind \in {"SYN", "SYN_ACK", "ACK"} : Handshake(kind).kind # "DATA"  BY DEF Handshake
<1>3. \A n \in Messages : Fin(n).kind # "DATA"  BY DEF Fin
<1>4. \A n \in Messages, k \in Int : DataFrame(n, k).msg = n /\ DataFrame(n, k).seq = k
  BY DEF DataFrame
<1>5. ~Carries(Blank, m) /\ ~Carries(NoImage, m) /\ ~Carries(Ended, m)
  BY ImageAssumption DEF ImageAssumption, Carries, Views
<1>. QED  BY <1>1, <1>2, <1>3, <1>4, <1>5, NoFrameAssumption DEF NoFrameAssumption

\* Everything that is counted is a natural number.
LEMMA CopiesType ==
    ASSUME TypeOK, NEW m \in Messages
    PROVE  LET e == Peer(m.from) IN
           /\ m.from \in Ends /\ e \in Ends /\ 0 \in Keys
           /\ Returned(m) \in Nat /\ Shows(m) \in Nat
           /\ starts[e] \in Threads /\ starts[e] \in Nat
           /\ Kept(buffer[e][0], m) \in Nat
           /\ Cardinality(Holders(consumer[e], m)) \in Nat
           /\ Cardinality(Places(queue[e], m)) \in Nat
           /\ Cardinality(Waiters(producer[e], screen[m.from], m)) \in Nat
<1> DEFINE e == Peer(m.from)
<1>1. m.from \in Ends /\ e \in Ends
  BY PeerFacts, MessagesAssumption DEF MessagesAssumption
<1> HIDE DEF e
<1>2. queue[e] \in Seq(Views) /\ starts[e] \in Threads
  BY <1>1 DEF TypeOK
<1>3. /\ Cardinality(Holders(consumer[e], m)) \in Nat /\ Cardinality(Places(queue[e], m)) \in Nat
      /\ Cardinality(Waiters(producer[e], screen[m.from], m)) \in Nat
  BY <1>2, CountFinite
<1>4. Returned(m) \in Nat /\ Shows(m) \in Nat
  BY DEF TypeOK, Shows, Returned
<1>5. 0 \in Keys
  BY SeqAssumption DEF SeqAssumption, Keys
<1>6. starts[e] \in Nat /\ Kept(buffer[e][0], m) \in Nat
  BY <1>2, StartsAssumption DEF StartsAssumption, Threads, Kept
<1>. QED  BY <1>1, <1>2, <1>3, <1>4, <1>5, <1>6 DEF e

LEMMA CopiesTypeNext ==
    ASSUME TypeOK', NEW m \in Messages
    PROVE  LET e == Peer(m.from) IN
           /\ Shows(m)' \in Nat /\ starts'[e] \in Nat /\ Returned(m)' \in Nat
           /\ Kept(buffer'[e][0], m) \in Nat
           /\ Cardinality(Holders(consumer'[e], m)) \in Nat
           /\ Cardinality(Places(queue'[e], m)) \in Nat
           /\ Cardinality(Waiters(producer'[e], screen'[m.from], m)) \in Nat
           /\ Copies(m)' \in Nat
<1> DEFINE e == Peer(m.from)
<1>1. m.from \in Ends /\ e \in Ends
  BY PeerFacts, MessagesAssumption DEF MessagesAssumption
<1>2. Returned(m)' \in Nat /\ Shows(m)' \in Nat
  BY DEF TypeOK, Shows, Returned
<1> HIDE DEF e
<1>3. queue'[e] \in Seq(Views) /\ starts'[e] \in Threads
  BY <1>1 DEF TypeOK
<1>4. starts'[e] \in Nat /\ Kept(buffer'[e][0], m) \in Nat
  BY <1>3, StartsAssumption DEF StartsAssumption, Threads, Kept
<1>5. /\ Cardinality(Holders(consumer'[e], m)) \in Nat /\ Cardinality(Places(queue'[e], m)) \in Nat
      /\ Cardinality(Waiters(producer'[e], screen'[m.from], m)) \in Nat
  BY <1>3, CountFinite
<1>. QED  BY <1>2, <1>4, <1>5 DEF Copies, e

\* A step that takes nothing new in front of the camera: it moves the copies that
\* are under way, or loses some.
LEMMA MovedCopies ==
    ASSUME TypeOK, TypeOK', NEW m \in Messages, MessageInv(m),
           starts'[Peer(m.from)] = starts[Peer(m.from)], Shows(m)' \in {Shows(m), Shows(m) + 1},
           Carries(screen'[m.from], m) => Carries(screen[m.from], m),
           Copies(m)' <= Copies(m)
    PROVE  MessageInv(m)'
<1> DEFINE n == starts[Peer(m.from)]
           s == Shows(m)
<1>1. Copies(m) \in Nat /\ Copies(m)' \in Nat /\ n \in Nat /\ s \in Nat
  BY CopiesType, CopiesTypeNext DEF Copies
<1>2. Copies(m)' <= n * s
  <2>1. Copies(m) <= n * s
    BY DEF MessageInv
  <2> HIDE DEF n, s
  <2>2. n * s \in Nat
    BY <1>1
  <2>. QED  BY <1>1, <2>1, <2>2
<1>3. Copies(m)' <= n * Shows(m)'
  <2> DEFINE r == Shows(m)'
  <2>1. r \in {s, s + 1}
    OBVIOUS
  <2> HIDE DEF n, s, r
  <2>2. n * s \in Nat /\ n * (s + 1) = n * s + n
    BY <1>1
  <2>3. Copies(m)' <= n * r
    BY <1>1, <1>2, <2>1, <2>2
  <2>. QED  BY <2>3 DEF r
<1>4. Carries(screen'[m.from], m) => Shows(m)' >= 1
  BY <1>1 DEF MessageInv
<1>. QED  BY <1>3, <1>4 DEF MessageInv

\* A step at another end, or one that leaves this reader alone and puts no image
\* of the message in front of it.
LEMMA UntouchedCopies ==
    ASSUME TypeOK, TypeOK', NEW m \in Messages, MessageInv(m),
           LET e == Peer(m.from) IN
              /\ starts'[e] = starts[e] /\ Shows(m)' \in {Shows(m), Shows(m) + 1}
              /\ Returned(m)' = Returned(m)
              /\ producer'[e] = producer[e] /\ consumer'[e] = consumer[e]
              /\ queue'[e] = queue[e] /\ buffer'[e][0] = buffer[e][0]
              /\ screen'[m.from] = screen[m.from] \/ ~Carries(screen'[m.from], m)
    PROVE  MessageInv(m)'
<1> DEFINE e == Peer(m.from)
<1>1. CASE screen'[m.from] = screen[m.from]
  <2>1. Copies(m)' = Copies(m)
    BY <1>1 DEF Copies
  <2>2. Copies(m) \in Nat
    BY CopiesType DEF Copies
  <2>3. Copies(m)' <= Copies(m)
    BY <2>1, <2>2
  <2>. QED  BY <1>1, <2>3, MovedCopies
<1>2. CASE ~Carries(screen'[m.from], m)
  <2>1. Waiters(producer'[e], screen'[m.from], m) = {}
    BY <1>2 DEF Waiters
  <2>2. Cardinality(Waiters(producer'[e], screen'[m.from], m)) = 0
    BY <2>1, FS_EmptySet
  <2>3. Copies(m)' <= Copies(m)
    BY <2>2, CopiesType DEF Copies
  <2>. QED  BY <1>2, <2>3, MovedCopies
<1>. QED  BY <1>1, <1>2

\* A screen shows the message again: each producer may capture it once more.
LEMMA ShownCopies ==
    ASSUME TypeOK, TypeOK', ThreadsInv', NEW m \in Messages, MessageInv(m),
           Shows(m)' = Shows(m) + 1, Returned(m)' = Returned(m), UNCHANGED <<life, readers, buffer>>
    PROVE  MessageInv(m)'
<1> DEFINE e == Peer(m.from)
           rest == Returned(m) + Kept(buffer[e][0], m) + Cardinality(Holders(consumer[e], m))
                      + Cardinality(Places(queue[e], m))
           before == Cardinality(Waiters(producer[e], screen[m.from], m))
           after == Cardinality(Waiters(producer'[e], screen'[m.from], m))
           n == starts[e]
           s == Shows(m)
<1>1. /\ e \in Ends /\ rest \in Nat /\ before \in Nat /\ after \in Nat /\ n \in Nat
      /\ n \in Threads /\ s \in Nat
  BY CopiesType, CopiesTypeNext
<1>2. /\ starts' = starts /\ producer' = producer /\ consumer' = consumer /\ queue' = queue
      /\ buffer' = buffer
  BY DEF life, readers
<1>3. Copies(m) = rest + before /\ Copies(m)' = rest + after
  BY <1>2 DEF Copies
<1>4. after <= n
  <2>1. \A t \in Threads : t > n => producer'[e][t] = Ended
    BY <1>1, <1>2 DEF ThreadsInv
  <2> HIDE DEF e, n
  <2>. QED  BY <1>1, <2>1, WaitersBound
<1>5. rest + before <= n * s
  BY <1>3 DEF MessageInv
<1>6. Copies(m)' <= starts'[Peer(m.from)] * Shows(m)' /\ Shows(m)' >= 1
  <2>1. starts'[Peer(m.from)] = n /\ Shows(m)' = s + 1
    BY <1>2
  <2> HIDE DEF e, rest, before, after, n, s
  <2>2. n * s \in Nat /\ n * (s + 1) = n * s + n
    BY <1>1
  <2>3. rest + after <= n * (s + 1)
    BY <1>1, <1>4, <1>5, <2>2
  <2>. QED  BY <1>1, <1>3, <2>1, <2>3
<1>. QED  BY <1>6 DEF MessageInv

\* The reader's own threads move copies: Capture() from the camera to the queue,
\* Get() from there to a consumer, Store() to the buffer, Receive() to the caller.
LEMMA ReaderStep ==
    ASSUME TypeOK, TypeOK', NEW m \in Messages, MessageInv(m),
           \E t \in Threads : \/ Capture(Peer(m.from), t) \/ EndProducer(Peer(m.from), t)
                              \/ Get(Peer(m.from), t) \/ Store(Peer(m.from), t)
                              \/ EndConsumer(Peer(m.from), t)
    PROVE  MessageInv(m)'
<1> DEFINE e == Peer(m.from)
           d == m.from
<1>0. /\ e \in Ends /\ d \in Ends /\ Peer(e) = d /\ 0 \in Keys
      /\ queue \in [Ends -> Seq(Views)] /\ queue[e] \in Seq(Views) /\ Len(queue[e]) <= QueueSize
      /\ producer \in [Ends -> [Threads -> Views \cup {NoImage, Ended}]]
      /\ consumer \in [Ends -> [Threads -> Views \cup {NoImage, Ended}]]
      /\ buffer \in [Ends -> [Keys -> Frames \cup {NoFrame}]]
      /\ screen[d] \in Views
  <2>1. e \in Ends /\ d \in Ends /\ Peer(e) = d /\ 0 \in Keys
    BY CopiesType, PeerFacts
  <2>. QED  BY <2>1 DEF TypeOK
<1> DEFINE R == Returned(m)
           K == Kept(buffer[e][0], m)
           H == Cardinality(Holders(consumer[e], m))
           Q == Cardinality(Places(queue[e], m))
           W == Cardinality(Waiters(producer[e], screen[d], m))
<1>n. R \in Nat /\ K \in Nat /\ H \in Nat /\ Q \in Nat /\ W \in Nat
  BY CopiesType
<1>p. R' \in Nat /\ K' \in Nat /\ H' \in Nat /\ Q' \in Nat /\ W' \in Nat
  BY CopiesTypeNext
<1>c. Copies(m) = R + K + H + Q + W /\ Copies(m)' = R' + K' + H' + Q' + W'
  BY DEF Copies
<1>f. \A c, p, v : IsFiniteSet(Holders(c, m)) /\ IsFiniteSet(Waiters(p, v, m))
  <2>1. <<>> \in Seq(Views)
    OBVIOUS
  <2>. QED  BY <2>1, CountFinite
<1>g. ASSUME R' + K' + H' + Q' + W' <= R + K + H + Q + W,
             UNCHANGED <<starts, screen, progress, resent>>
      PROVE  MessageInv(m)'
  <2>1. Shows(m)' = Shows(m)
    BY <1>g DEF Shows
  <2>2. Copies(m)' <= Copies(m)
    BY <1>g, <1>c
  <2>. QED  BY <1>g, <2>1, <2>2, MovedCopies
<1>1. ASSUME NEW t \in Threads, Capture(e, t) PROVE MessageInv(m)'
  <2>1. /\ producer[e][t] \notin {Ended, screen[d]}
        /\ producer' = [producer EXCEPT ![e][t] = screen[d]]
        /\ queue' = [queue EXCEPT ![e] = Enqueue(queue[e], screen[d])]
        /\ UNCHANGED <<starts, screen, consumer, buffer, progress, resent, received, partly>>
    BY <1>0, <1>1 DEF Capture, Changed, life, calls
  <2>2. /\ producer'[e][t] = screen[d] /\ \A u \in Threads : u # t => producer'[e][u] = producer[e][u]
        /\ queue'[e] = Enqueue(queue[e], screen[d])
    BY <1>0, <2>1
  <2>3. Q' <= Q + (IF Carries(screen[d], m) THEN 1 ELSE 0)
    BY <1>0, <2>2, PlacesEnqueue
  <2>4. R' = R /\ K' = K /\ H' = H
    BY <2>1 DEF Returned
  <2>5. CASE Carries(screen[d], m)
    <3>1. Waiters(producer'[e], screen'[d], m) \subseteq Waiters(producer[e], screen[d], m) \ {t}
      BY <2>1, <2>2 DEF Waiters
    <3>2. t \in Waiters(producer[e], screen[d], m)
      BY <2>1, <2>5 DEF Waiters
    <3>3. W' + 1 <= W
      BY <1>f, <3>1, <3>2, CountChange
    <3>4. R' + K' + H' + Q' + W' <= R + K + H + Q + W
      BY <1>n, <1>p, <2>3, <2>4, <2>5, <3>3
    <3>. QED  BY <1>g, <2>1, <3>4
  <2>6. CASE ~Carries(screen[d], m)
    <3>1. Waiters(producer'[e], screen'[d], m) = {}
      BY <2>1, <2>6 DEF Waiters
    <3>2. W' = 0
      BY <3>1, FS_EmptySet
    <3>3. R' + K' + H' + Q' + W' <= R + K + H + Q + W
      BY <1>n, <1>p, <2>3, <2>4, <2>6, <3>2
    <3>. QED  BY <1>g, <2>1, <3>3
  <2>. QED  BY <2>5, <2>6
<1>2. ASSUME NEW t \in Threads, Get(e, t) PROVE MessageInv(m)'
  <2>1. /\ queue[e] # <<>> /\ queue' = [queue EXCEPT ![e] = Tail(queue[e])]
        /\ consumer[e][t] = NoImage
        /\ consumer' = [consumer EXCEPT ![e][t] = Head(queue[e])]
        /\ UNCHANGED <<starts, screen, producer, buffer, progress, resent, received, partly>>
    BY <1>2 DEF Get, life, calls
  <2>2. /\ queue'[e] = Tail(queue[e])
        /\ consumer'[e][t] = Head(queue[e]) /\ \A u \in Threads : u # t => consumer'[e][u] = consumer[e][u]
    BY <1>0, <2>1
  <2>3. Q' + (IF Carries(Head(queue[e]), m) THEN 1 ELSE 0) <= Q
    BY <1>0, <2>1, <2>2, PlacesTail
  <2>4. R' = R /\ K' = K /\ W' = W
    BY <2>1 DEF Returned
  <2>5. H' <= H + (IF Carries(Head(queue[e]), m) THEN 1 ELSE 0)
    <3>1. CASE Carries(Head(queue[e]), m)
      <4>1. Holders(consumer'[e], m) \subseteq Holders(consumer[e], m) \cup {t}
        BY <2>2 DEF Holders
      <4>2. H' <= H + 1
        BY <1>f, <4>1, CountChange
      <4>. QED  BY <3>1, <4>2
    <3>2. CASE ~Carries(Head(queue[e]), m)
      <4>1. Holders(consumer'[e], m) \subseteq Holders(consumer[e], m)
        BY <2>2, <3>2 DEF Holders
      <4>2. H' <= H
        BY <1>f, <4>1, FS_Subset
      <4>. QED  BY <1>n, <1>p, <3>2, <4>2
    <3>. QED  BY <3>1, <3>2
  <2> DEFINE h == IF Carries(Head(queue[e]), m) THEN 1 ELSE 0
  <2>6. h \in Nat
    OBVIOUS
  <2> HIDE DEF h
  <2>7. Q' + h <= Q /\ H' <= H + h
    BY <2>3, <2>5 DEF h
  <2>8. R' + K' + H' + Q' + W' <= R + K + H + Q + W
    BY <1>n, <1>p, <2>4, <2>6, <2>7
  <2>. QED  BY <1>g, <2>1, <2>8
<1>3. ASSUME NEW t \in Threads, Store(e, t) PROVE MessageInv(m)'
  <2> DEFINE image == consumer[e][t]
  <2>1. /\ image \notin {NoImage, Ended} /\ consumer' = [consumer EXCEPT ![e][t] = NoImage]
        /\ UNCHANGED <<starts, screen, producer, queue, progress, resent, received, partly>>
        /\ \/ buffer' = buffer
           \/ /\ Legible(e, image)
              /\ buffer' = [buffer EXCEPT ![e][KeyOf(image.frame)] = image.frame]
    BY <1>3 DEF Store, life, calls
  <2>2. /\ consumer'[e][t] = NoImage /\ \A u \in Threads : u # t => consumer'[e][u] = consumer[e][u]
    BY <1>0, <2>1
  <2>3. R' = R /\ Q' = Q /\ W' = W
    BY <2>1 DEF Returned
  <2>4. ~Carries(NoImage, m)
    BY CarriesFacts
  <2>5. Holders(consumer'[e], m) \subseteq Holders(consumer[e], m) \ {t}
    BY <2>2, <2>4 DEF Holders
  <2>6. H' <= H
    BY <1>f, <2>5, FS_Subset
  <2>7. K' <= K \/ (K' <= K + 1 /\ H' + 1 <= H)
    <3>1. CASE buffer'[e][0] = buffer[e][0]
      BY <1>n, <3>1
    <3>2. CASE buffer'[e][0] # buffer[e][0]
      <4>1. image \in Images /\ image.frame \in Frames /\ image.frame.kind # "FIN"
        BY <1>0, <2>1, <3>2 DEF Legible, Views, Images
      <4>2. KeyOf(image.frame) \in Keys
        BY <4>1, FrameKeys
      <4>3. buffer'[e][0] = image.frame
        BY <1>0, <2>1, <3>2, <4>2
      <4>4. CASE image.frame = DataFrame(m, 0)
        <5>1. t \in Holders(consumer[e], m)
          BY <4>1, <4>4 DEF Holders, Carries
        <5>2. H' + 1 <= H
          BY <1>f, <2>5, <5>1, CountChange
        <5>3. K' <= K + 1
          BY DEF Kept
        <5>. QED  BY <5>2, <5>3
      <4>5. CASE image.frame # DataFrame(m, 0)
        <5>1. K' = 0
          BY <4>3, <4>5 DEF Kept
        <5>. QED  BY <1>n, <5>1
      <4>. QED  BY <4>4, <4>5
    <3>. QED  BY <3>1, <3>2
  <2>8. R' + K' + H' + Q' + W' <= R + K + H + Q + W
    BY <1>n, <1>p, <2>3, <2>6, <2>7
  <2>. QED  BY <1>g, <2>1, <2>8
<1>4. ASSUME NEW t \in Threads, EndProducer(e, t) PROVE MessageInv(m)'
  <2>1. /\ producer' = [producer EXCEPT ![e][t] = Ended]
        /\ UNCHANGED <<starts, screen, consumer, queue, buffer, progress, resent, received, partly>>
    BY <1>4 DEF EndProducer, life, calls
  <2>2. Waiters(producer'[e], screen'[d], m) \subseteq Waiters(producer[e], screen[d], m)
    BY <1>0, <2>1 DEF Waiters
  <2>3. W' <= W
    BY <1>f, <2>2, FS_Subset
  <2>4. R' = R /\ K' = K /\ H' = H /\ Q' = Q
    BY <2>1 DEF Returned
  <2>5. R' + K' + H' + Q' + W' <= R + K + H + Q + W
    BY <1>n, <1>p, <2>3, <2>4
  <2>. QED  BY <1>g, <2>1, <2>5
<1>5. ASSUME NEW t \in Threads, EndConsumer(e, t) PROVE MessageInv(m)'
  <2>1. /\ consumer' = [consumer EXCEPT ![e][t] = Ended]
        /\ UNCHANGED <<starts, screen, producer, queue, buffer, progress, resent, received, partly>>
    BY <1>5 DEF EndConsumer, life, calls
  <2>2. ~Carries(Ended, m)
    BY CarriesFacts
  <2>3. Holders(consumer'[e], m) \subseteq Holders(consumer[e], m)
    BY <1>0, <2>1, <2>2 DEF Holders
  <2>4. H' <= H
    BY <1>f, <2>3, FS_Subset
  <2>5. R' = R /\ K' = K /\ Q' = Q /\ W' = W
    BY <2>1 DEF Returned
  <2>6. R' + K' + H' + Q' + W' <= R + K + H + Q + W
    BY <1>n, <1>p, <2>4, <2>5
  <2>. QED  BY <1>g, <2>1, <2>6
<1>. QED  BY <1>1, <1>2, <1>3, <1>4, <1>5

\* start() adds a producer that captures what is on the other screen, and a bound
\* for it, if that screen was ever shown.
LEMMA StartedCopies ==
    ASSUME TypeOK, TypeOK', NEW m \in Messages, MessageInv(m),
           Start(Peer(m.from))
    PROVE  MessageInv(m)'
<1> DEFINE e == Peer(m.from)
           d == m.from
           u == starts[e] + 1
           rest == Returned(m) + Kept(buffer[e][0], m) + Cardinality(Places(queue[e], m))
           held == Cardinality(Holders(consumer[e], m))
           held2 == Cardinality(Holders(consumer'[e], m))
           wait == Cardinality(Waiters(producer[e], screen[d], m))
           wait2 == Cardinality(Waiters(producer'[e], screen'[d], m))
           n == starts[e]
           s == Shows(m)
<1>1. /\ e \in Ends /\ n \in Nat /\ n \in Threads /\ s \in Nat /\ rest \in Nat
      /\ held \in Nat /\ held2 \in Nat /\ wait \in Nat /\ wait2 \in Nat
  BY CopiesType, CopiesTypeNext
<1>2. /\ starts' = [starts EXCEPT ![e] = n + 1]
      /\ producer' = [producer EXCEPT ![e][u] = NoImage]
      /\ consumer' = [consumer EXCEPT ![e][u] = NoImage]
      /\ UNCHANGED <<screen, queue, buffer, progress, resent, received, partly>>
  BY DEF Start, calls
<1>3. /\ producer \in [Ends -> [Threads -> Views \cup {NoImage, Ended}]]
      /\ consumer \in [Ends -> [Threads -> Views \cup {NoImage, Ended}]]
      /\ starts \in [Ends -> Threads]
  BY DEF TypeOK
<1>4. starts'[e] = n + 1 /\ Shows(m)' = s
  BY <1>1, <1>2, <1>3 DEF Shows
<1>5. \A c, p, v : IsFiniteSet(Holders(c, m)) /\ IsFiniteSet(Waiters(p, v, m))
  <2>1. <<>> \in Seq(Views)
    OBVIOUS
  <2>. QED  BY <2>1, CountFinite
<1>6. held2 <= held
  <2>1. \A t \in Threads : consumer'[e][t] \in {consumer[e][t], NoImage}
    BY <1>1, <1>2, <1>3
  <2>2. Holders(consumer'[e], m) \subseteq Holders(consumer[e], m)
    BY <2>1, CarriesFacts DEF Holders
  <2>. QED  BY <1>5, <2>2, FS_Subset
<1>7. wait2 <= wait + s
  <2>1. \A t \in Threads : t # u => producer'[e][t] = producer[e][t]
    BY <1>1, <1>2, <1>3
  <2>2. CASE Carries(screen[d], m)
    <3>1. Waiters(producer'[e], screen'[d], m) \subseteq Waiters(producer[e], screen[d], m) \cup {u}
      BY <1>2, <2>1 DEF Waiters
    <3>2. wait2 <= wait + 1
      BY <1>5, <3>1, CountChange
    <3>3. s >= 1
      BY <2>2 DEF MessageInv
    <3>. QED  BY <1>1, <3>2, <3>3
  <2>3. CASE ~Carries(screen[d], m)
    <3>1. Waiters(producer'[e], screen'[d], m) = {}
      BY <1>2, <2>3 DEF Waiters
    <3>2. wait2 = 0
      BY <3>1, FS_EmptySet
    <3>. QED  BY <1>1, <3>2
  <2>. QED  BY <2>2, <2>3
<1>8. Copies(m) = rest + held + wait /\ Copies(m)' = rest + held2 + wait2
  <2>1. Returned(m)' = Returned(m)
    BY <1>2 DEF Returned
  <2>. QED  BY <1>1, <1>2, <2>1, CopiesType, CopiesTypeNext DEF Copies
<1>9. rest + held + wait <= n * s
  BY <1>8 DEF MessageInv
<1>10. Copies(m)' <= starts'[Peer(m.from)] * Shows(m)'
  <2> HIDE DEF e, rest, held, wait, held2, wait2, n, s
  <2>1. n * s \in Nat /\ (n + 1) * s = n * s + s
    BY <1>1
  <2>2. rest + held2 + wait2 <= (n + 1) * s
    BY <1>1, <1>6, <1>7, <1>9, <2>1
  <2>. QED  BY <1>4, <1>8, <2>2 DEF e
<1>11. Carries(screen'[m.from], m) => Shows(m)' >= 1
  BY <1>2, <1>4 DEF MessageInv
<1>. QED  BY <1>10, <1>11 DEF MessageInv

\* What the key 0 holds is the first frame of its message.
LEMMA DataKeys ==
    ASSUME NEW f \in Frames, f.kind # "FIN", KeyOf(f) = 0
    PROVE  f.msg \in Messages /\ f.kind = "DATA" /\ f = DataFrame(f.msg, 0)
<1>1. f \notin {Handshake(kind) : kind \in {"SYN", "SYN_ACK", "ACK"}}
  BY HandshakeFrames
<1>2. f \notin {Fin(m) : m \in Messages}
  BY DEF Fin
<1>3. PICK m \in Messages, k \in 0 .. LastSeq : f = DataFrame(m, k)
  BY <1>1, <1>2 DEF Frames
<1>4. f.msg = m /\ f.seq = k /\ f.kind = "DATA"
  BY <1>3 DEF DataFrame
<1>5. k = 0
  BY <1>4 DEF KeyOf
<1>. QED  BY <1>3, <1>4, <1>5

\* receive() hands a copy to the caller.
LEMMA ReceivedCopies ==
    ASSUME TypeOK, TypeOK', OriginInv, NEW m \in Messages, MessageInv(m), NEW f \in Ends, Receive(f)
    PROVE  MessageInv(m)'
<1> DEFINE e == Peer(m.from)
<1>0. PICK k \in Keys :
          /\ buffer[f][k] # NoFrame
          /\ buffer' = [buffer EXCEPT ![f][k] = NoFrame]
          /\ Decompress(buffer[f][k].msg, k)
  BY DEF Receive, Pop
<1>1. UNCHANGED <<starts, screen, producer, consumer, queue, progress, resent>>
  BY DEF Receive, life, readers
<1>2. /\ buffer \in [Ends -> [Keys -> Frames \cup {NoFrame}]]
      /\ KeyOf(buffer[f][k]) = k /\ buffer[f][k] \in Frames /\ e \in Ends /\ 0 \in Keys
  <2>1. e \in Ends /\ 0 \in Keys  BY CopiesType
  <2>2. buffer \in [Ends -> [Keys -> Frames \cup {NoFrame}]]
    BY DEF TypeOK
  <2>3. KeyOf(buffer[f][k]) = k  BY <1>0 DEF TypeOK
  <2>4. buffer[f][k] \in Frames  BY <1>0, <2>2
  <2>. QED  BY <2>1, <2>2, <2>3, <2>4
<1>3. Shows(m)' = Shows(m)
  BY <1>1 DEF Shows
<1>4. Copies(m)' <= Copies(m)
  <2>1. CASE Returned(m)' = Returned(m)
    <3>1. buffer'[e][0] \in {buffer[e][0], NoFrame}
      BY <1>0, <1>2
    <3>2. Kept(NoFrame, m) = 0
      BY CarriesFacts DEF Kept
    <3>3. Kept(buffer'[e][0], m) <= Kept(buffer[e][0], m)
      BY <3>1, <3>2 DEF Kept
    <3>. QED  BY <1>1, <2>1, <3>3, CopiesType, CopiesTypeNext DEF Copies
  <2>2. CASE Returned(m)' # Returned(m)
    <3>1. k = 0 /\ buffer[f][k].msg = m /\ Returned(m)' = Returned(m) + 1
      BY <1>0, <2>2, Decompressed
    <3>2. f = e /\ buffer[f][k] = DataFrame(m, 0)
      <4>1. buffer[f][k].kind # "FIN" /\ From(buffer[f][k], Peer(f))
        BY <1>0 DEF OriginInv
      <4>2. buffer[f][k].kind = "DATA" /\ buffer[f][k] = DataFrame(m, 0)
        BY <1>2, <3>1, <4>1, DataKeys
      <4>. QED  BY <3>1, <4>1, <4>2, PeerFacts DEF From
    <3>3. Kept(buffer[e][0], m) = 1 /\ Kept(buffer'[e][0], m) = 0
      BY <1>0, <1>2, <3>1, <3>2, CarriesFacts DEF Kept
    <3>. QED  BY <1>1, <3>1, <3>3, CopiesType, CopiesTypeNext DEF Copies
  <2>. QED  BY <2>1, <2>2
<1>. QED  BY <1>1, <1>3, <1>4, MovedCopies

\* A step at one end leaves the reader at the other one alone, and what is put in
\* front of its camera is the message itself or something else.
LEMMA MessageStep ==
    ASSUME TypeOK, TypeOK', OriginInv, ThreadsInv', NEW m \in Messages, MessageInv(m), [Next]_vars
    PROVE  MessageInv(m)'
<1> DEFINE e == Peer(m.from)
           d == m.from
<1>0. /\ d \in Ends /\ e \in Ends /\ 0 \in Keys /\ -1 \in Keys /\ -2 \in Keys /\ m.frags \in Nat
      /\ buffer \in [Ends -> [Keys -> Frames \cup {NoFrame}]]
      /\ screen \in [Ends -> Views] /\ starts \in [Ends -> Threads]
      /\ queue \in [Ends -> Seq(Views)]
      /\ producer \in [Ends -> [Threads -> Views \cup {NoImage, Ended}]]
      /\ consumer \in [Ends -> [Threads -> Views \cup {NoImage, Ended}]]
      /\ resent \in [Messages -> Nat] /\ progress \in [Messages -> Int]
  <2>1. d \in Ends /\ e \in Ends  BY CopiesType
  <2>2. 0 \in Keys /\ -1 \in Keys /\ -2 \in Keys
    BY SeqAssumption DEF SeqAssumption, Keys
  <2>3. m.frags \in Nat
    BY MessagesAssumption, SeqAssumption DEF MessagesAssumption, SeqAssumption
  <2>. QED  BY <2>1, <2>2, <2>3 DEF TypeOK
<1>1. ASSUME NEW f \in Ends, Receive(f) PROVE MessageInv(m)'
  BY <1>1, ReceivedCopies
<1>3. ASSUME UNCHANGED <<life, readers, calls>>, buffer'[e][0] = buffer[e][0],
             screen'[d] = screen[d] \/ ~Carries(screen'[d], m)
      PROVE  MessageInv(m)'
  BY <1>3, UntouchedCopies DEF life, readers, calls, Shows, Returned
<1>4. ASSUME NEW f \in Ends, NEW frame \in Frames, Show(f, frame), frame # DataFrame(m, 0)
      PROVE  screen'[d] = screen[d] \/ ~Carries(screen'[d], m)
  BY <1>0, <1>4, ShowFacts DEF Carries
<1>5. ASSUME NEW f \in Ends, \/ Initiate(f) \/ Listen(f) \/ See(f) \/ ShowSynAck(f)
                             \/ ShowAck(f) \/ Timeout(f)
      PROVE  MessageInv(m)'
  <2>1. /\ UNCHANGED <<life, readers, buffer, calls>>
        /\ UNCHANGED screen \/ \E kind \in {"SYN", "SYN_ACK", "ACK"} : Show(f, Handshake(kind))
    BY <1>5 DEF Initiate, Listen, See, ShowSynAck, ShowAck, Timeout
  <2>2. \A kind \in {"SYN", "SYN_ACK", "ACK"} :
           Handshake(kind) \in Frames /\ Handshake(kind) # DataFrame(m, 0)
    BY HandshakeFrames, CarriesFacts
  <2>. QED  BY <1>3, <1>4, <2>1, <2>2
<1>6. ASSUME NEW f \in Ends, TakeSyn(f) \/ TakeSynAck(f) \/ TakeAck(f) PROVE MessageInv(m)'
  <2>1. UNCHANGED <<life, readers, screen, calls>> /\ \E key \in {-1, -2} : Pop(f, key)
    BY <1>6 DEF TakeSyn, TakeSynAck, TakeAck
  <2>2. buffer'[e][0] = buffer[e][0]
    BY <1>0, <2>1 DEF Pop
  <2>. QED  BY <1>3, <2>1, <2>2
<1>7. ASSUME NEW f \in Ends, Stop(f) PROVE MessageInv(m)'
  <2>1. /\ screen' = [screen EXCEPT ![f] = Blank]
        /\ UNCHANGED <<starts, readers, buffer, calls>>
    BY <1>7 DEF Stop
  <2>2. screen'[d] = screen[d] \/ ~Carries(screen'[d], m)
    BY <1>0, <2>1, CarriesFacts
  <2>. QED  BY <2>1, <2>2, UntouchedCopies DEF readers, calls, Shows, Returned
<1>8. ASSUME NEW f \in Ends, Start(f) PROVE MessageInv(m)'
  <2>1. CASE f = e
    BY <1>8, <2>1, StartedCopies
  <2>2. CASE f # e
    <3>1. /\ starts' = [starts EXCEPT ![f] = @ + 1]
          /\ producer' = [producer EXCEPT ![f][starts[f] + 1] = NoImage]
          /\ consumer' = [consumer EXCEPT ![f][starts[f] + 1] = NoImage]
          /\ UNCHANGED <<screen, queue, buffer, calls>>
      BY <1>8 DEF Start
    <3>2. starts'[e] = starts[e] /\ producer'[e] = producer[e] /\ consumer'[e] = consumer[e]
      BY <1>0, <2>2, <3>1
    <3>. QED  BY <3>1, <3>2, UntouchedCopies DEF calls, Shows, Returned
  <2>. QED  BY <2>1, <2>2
<1>9. ASSUME NEW f \in Ends, NEW t \in Threads,
             \/ Capture(f, t) \/ EndProducer(f, t) \/ Get(f, t) \/ Store(f, t) \/ EndConsumer(f, t)
      PROVE  MessageInv(m)'
  <2>1. CASE f = e
    BY <1>9, <2>1, ReaderStep
  <2>2. CASE f # e
    <3>1. UNCHANGED <<life, screen, calls>>
      BY <1>9 DEF Capture, EndProducer, Get, Store, EndConsumer
    <3>2. producer'[e] = producer[e] /\ consumer'[e] = consumer[e] /\ queue'[e] = queue[e]
      BY <1>0, <1>9, <2>2 DEF Capture, EndProducer, Get, Store, EndConsumer
    <3>3. buffer'[e] = buffer[e]
      BY <1>0, <1>9, <2>2 DEF Capture, EndProducer, Get, Store, EndConsumer
    <3>. QED  BY <3>1, <3>2, <3>3, UntouchedCopies DEF life, calls, Shows, Returned
  <2>. QED  BY <2>1, <2>2
<1>n. ASSUME NEW n \in Messages
      PROVE  n.from \in Ends /\ n.frags \in Nat /\ n.frags >= 1 /\ progress[n] \in Int
  BY <1>0, MessagesAssumption, SeqAssumption DEF MessagesAssumption, SeqAssumption
<1>10. ASSUME NEW n \in Messages, SendCall(n) \/ SendReturn(n) PROVE MessageInv(m)'
  <2>1. /\ UNCHANGED <<life, readers, buffer, resent, received, partly>>
        /\ UNCHANGED screen \/ Show(n.from, Fin(n))
        /\ \/ progress[n] = -1 /\ progress' = [progress EXCEPT ![n] = 0]
           \/ progress[n] = n.frags /\ progress' = [progress EXCEPT ![n] = @ + 1]
    BY <1>10 DEF SendCall, SendReturn
  <2>2. (progress'[m] > 0) <=> (progress[m] > 0)
    <3>1. CASE n = m
      <4>1. \/ progress[n] = -1 /\ progress'[n] = 0
            \/ progress[n] = n.frags /\ progress'[n] = n.frags + 1
        BY <1>0, <2>1
      <4>. QED  BY <1>n, <3>1, <4>1
    <3>2. CASE n # m
      BY <1>0, <2>1, <3>2
    <3>. QED  BY <3>1, <3>2
  <2>3. Shows(m)' = Shows(m)
    BY <2>1, <2>2 DEF Shows
  <2>4. Fin(n) \in Frames /\ Fin(n) # DataFrame(m, 0)
    BY CarriesFacts DEF Frames
  <2>5. screen'[d] = screen[d] \/ ~Carries(screen'[d], m)
    BY <1>4, <1>n, <2>1, <2>4
  <2>. QED  BY <2>1, <2>3, <2>5, UntouchedCopies DEF life, readers, Returned
<1>11. ASSUME NEW n \in Messages, NEW k \in 0 .. n.frags - 1,
              ShowFrame(n, k), UNCHANGED <<life, readers, buffer, received, partly>>,
              \/ ShowData(n) /\ k = progress[n]
              \/ Retransmit(n, k)
       PROVE  MessageInv(m)'
  <2>1. \/ progress[n] = k /\ progress' = [progress EXCEPT ![n] = @ + 1] /\ UNCHANGED resent
        \/ progress[n] > n.frags /\ resent' = [resent EXCEPT ![n] = @ + 1] /\ UNCHANGED progress
    BY <1>11 DEF ShowData, Retransmit
  <2>2. Returned(m)' = Returned(m) /\ Show(n.from, DataFrame(n, k)) /\ k \in Int
    BY <1>11 DEF Returned, ShowFrame
  <2>3. CASE n = m /\ k = 0
    <3>1. Shows(m)' = Shows(m) + 1
      BY <1>0, <1>n, <2>1, <2>3 DEF Shows
    <3>. QED  BY <1>11, <2>2, <3>1, ShownCopies
  <2>4. CASE ~(n = m /\ k = 0)
    <3>1. Shows(m)' \in {Shows(m), Shows(m) + 1}
      BY <1>0, <1>n, <2>1, <2>4 DEF Shows
    <3>2. DataFrame(n, k) \in Frames /\ DataFrame(n, k) # DataFrame(m, 0)
      BY <1>n, <2>2, <2>4, CarriesFacts, DataFrames
    <3>3. screen'[d] = screen[d] \/ ~Carries(screen'[d], m)
      BY <1>4, <1>n, <2>2, <3>2
    <3>. QED  BY <1>11, <2>2, <3>1, <3>3, UntouchedCopies DEF life, readers
  <2>. QED  BY <2>3, <2>4
<1>12. ASSUME NEW n \in Messages, ShowData(n) PROVE MessageInv(m)'
  BY <1>11, <1>12 DEF ShowData
<1>13. ASSUME NEW n \in Messages, NEW k \in 0 .. n.frags - 1, Retransmit(n, k) PROVE MessageInv(m)'
  BY <1>11, <1>13 DEF Retransmit
<1>14. CASE UNCHANGED vars
  BY <1>3, <1>14 DEF vars
<1>. QED
  BY <1>1, <1>5, <1>6, <1>7, <1>8, <1>9, <1>10, <1>12, <1>13, <1>14
     DEF Next, HandshakeStep, ProducerStep, ConsumerStep, SendStep

\* Nothing has been shown or captured in the initial state.
LEMMA RepeatsInit == Init => RepeatsInv
<1> SUFFICES ASSUME Init PROVE RepeatsInv  OBVIOUS
<1>1. TypeOK  BY TypeInit
<1>2. ThreadsInv
  BY StartsAssumption DEF Init, ThreadsInv, Threads, StartsAssumption
<1>3. ASSUME NEW m \in Messages PROVE MessageInv(m)
  <2> DEFINE e == Peer(m.from)
  <2>1. m.from \in Ends /\ e \in Ends /\ 0 \in Keys /\ starts[e] \in Nat
    BY <1>1, CopiesType
  <2> HIDE DEF e
  <2>2. Returned(m) = 0 /\ Shows(m) = 0 /\ screen[m.from] = Blank /\ queue[e] = <<>>
    BY <2>1 DEF Init, Shows, Returned
  <2>3. Kept(buffer[e][0], m) = 0
    BY <2>1, CarriesFacts DEF Init, Kept
  <2>4. Holders(consumer[e], m) = {}
    BY <2>1, CarriesFacts DEF Init, Holders
  <2>5. Len(queue[e]) = 0
    BY <2>2
  <2>6. Places(queue[e], m) = {}
    BY <2>5 DEF Places
  <2>7. Waiters(producer[e], screen[m.from], m) = {}
    BY <2>2, CarriesFacts DEF Waiters
  <2>8. /\ Cardinality(Holders(consumer[e], m)) = 0 /\ Cardinality(Places(queue[e], m)) = 0
        /\ Cardinality(Waiters(producer[e], screen[m.from], m)) = 0
    BY <2>4, <2>6, <2>7, FS_EmptySet
  <2>9. Copies(m) = 0
    BY <2>2, <2>3, <2>8 DEF Copies, e
  <2>10. starts[e] * Shows(m) = 0
    BY <2>1, <2>2
  <2>. QED  BY <2>2, <2>9, <2>10, CarriesFacts DEF MessageInv, e
<1>. QED  BY <1>2, <1>3 DEF RepeatsInv

\* A message, or what the first frame of a longer one holds, is returned at most once
\* for each run of the reader and each time it was shown: what start() lets a new
\* thread capture again, a thread of an earlier run captures as well, or retransmit()
\* repeats.
THEOREM RepeatsCorrect == Spec => []RepeatsExplained
<1>1. Init => OriginInv /\ RepeatsInv  BY OriginInit, RepeatsInit
<1>2. TypeOK /\ TypeOK' /\ OriginInv /\ RepeatsInv /\ [Next]_vars => RepeatsInv'
  BY ThreadsStep, MessageStep DEF RepeatsInv
<1>3. TypeOK /\ OriginInv /\ [Next]_vars => OriginInv'  BY OriginStep
<1>4. TypeOK /\ RepeatsInv => RepeatsExplained
  <2> SUFFICES ASSUME TypeOK, RepeatsInv, NEW m \in Messages
               PROVE  Returned(m) <= starts[Peer(m.from)] * Shows(m)
    BY DEF RepeatsExplained, Returned
  <2>1. Returned(m) \in Nat /\ starts[Peer(m.from)] \in Nat /\ Shows(m) \in Nat
    BY CopiesType
  <2>2. starts[Peer(m.from)] * Shows(m) \in Nat  BY <2>1
  <2>3. Copies(m) \in Nat /\ Returned(m) <= Copies(m)
    BY CopiesType DEF Copies
  <2>. QED  BY <2>1, <2>2, <2>3 DEF MessageInv, RepeatsInv
<1>. QED  BY <1>1, <1>2, <1>3, <1>4, TypeCorrect, PTL DEF Spec
=============================================================================
