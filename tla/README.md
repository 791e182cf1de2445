# A TLA+ model of QR-NET

QR-NET carries packets between computers that look at each other's screens.
Frames are drawn as grids of coloured modules, a camera captures them, and a
mesh of nodes routes packets over these optical links and over ordinary
network adapters. This directory holds TLA+ modules translated from the Python
source, TLC configurations that check them on small instances, and theorems
that TLAPS proves for every value of the constants.

Source paths below are relative to `src/`; `node.py`, `routing.py`,
`directory.py` are in `red/implementation/`, `adapter.py` in `transmision/`,
`queue.py`, `selector.py`, `grid.py`, `camera.py` in
`transmision/implementation/`.

## 1. The system

| component | state | operations | interacts with |
|---|---|---|---|
| **Mesh node** `QRNetNode` (`node.py`) | `_running`, `_rx_queue`, the tables below | `join_mesh`, `leave_mesh`, `send_anonymous`, `negotiate_circuit`, `route_packet`, `discover_peers`, a handler for each packet type | three threads of its own (application, RX, HELLO); the selector for every packet it sends |
| **Tables** `RoutingTable`, `CircuitTable`, `NodeDirectory` | entries with cost, next-hop MAC, time of the last refresh | add, get, remove, purge | the node's three threads, under one lock per table |
| **Packets** (`red/packet.py`) | none (values) | factories, TTL, bytes and CRC-32 | node |
| **Adapter selector** (`selector.py`) | registered adapters in order, policy, gateway MACs | `select`, `register`, `set_policy`, gateways | the node asks it; it asks each adapter `is_available()` |
| **Optical adapter** `DispositivoLuzAdaptador` (`adapter.py`) | negotiated capabilities, codec, frame queue, receive buffer, the window | `handshake` in two roles, `send`, `send_file`, `retransmit`, `receive`, `start`, `stop`, a producer and a consumer thread | camera, queue, codec, the screen of the other end, callers in any thread |
| **Frame queue** `FifoFrameQueue` (`queue.py`) | inner queue, last hash, two counters | `put`, `get`, `clear`, statistics | the producer thread puts, the consumer gets |
| **Link frames** (`transmision/frames.py`) | none (values) | HandshakeFrame, DataFrame, bytes and CRC-16 | optical adapter |
| **Grid codec** `Grid64Codec` (`grid.py`) | payload mask and positions | `encode_grid`, `decode_grid` | optical adapter, palette |
| **Palette** (`color_palette.py`) | calibrated colours | `encode`, `decode`, `calibrate` | the thread that draws and the one that decodes |
| **Camera** (`camera.py`) | capture device | `capture`, `detect_change` | producer thread |
| **Compressor, checksums** | none | zstd; CRC-16, CRC-32, hashes | optical adapter, frames, packets |
| Ethernet and WiFi adapters, layer 7 | named by the documentation | absent from the repository | |

What is hard about it:

* *Threads.* A node's tables are shared by three threads; `leave_mesh` stops
  threads that may be past their check of `_running`, and nobody waits for them: after
  `join_mesh` again, or `start()` again of an adapter, the old ones may go on
  beside the new ones. In the adapter, `handshake()`, the node's RX thread (through
  `receive()`), the producer and the consumer share `_rx_buffer`, the codec and the
  window; the colours that one thread draws in are what another one calibrates.
  In the frame queue, `put()` is four separately atomic steps.
* *An unreliable medium with no acknowledgement.* A frame is on the screen for
  an interval and may be missed; the next image replaces it. Neither layer
  retransmits.
* *Timing.* HELLO every 30 s against entries that go stale after 90 s; 10 s and
  30 s timeouts in the handshake; nodes that leave, crash and stay silent.
* *State left over.* Frames of a failed handshake stay in the buffer, and what an
  adapter captured before `stop()` stays in its queue; a HELLO may come after its
  sender's BYE; circuits are never purged.
* *Failures.* A node crashes and comes back with empty tables; an adapter is not
  available for a while and drops what it is given; a module of an image is misread.

What makes each component correct:

* frame queue: it is a lossy FIFO; the newest image is never lost; the same image
  is not decoded twice in a row; the statistics add up; nothing blocks;
* selector: two nodes with the same policy and the same kinds of adapter up
  listen on the same channel; gateway traffic stays on light;
* mesh: live neighbours keep their routes and know each other in the end, gone ones
  are forgotten, the best cost wins, a message reaches its destination and no other node, nothing
  circulates for ever;
* optical link: a handshake that succeeded did so for both ends; what `send()`
  reported as sent arrives, and not more often than restarts and retransmissions explain;
* link frames: what is stored is what was sent, damaged frames are not stored;
* grid and palette: every frame that is cut fits, survives the drawing of the fixed
  structure, and is read back bit by bit, whatever was calibrated meanwhile.

## 2. The modules

| module | models |
|---|---|
| `LossyFifo` | what the reader of a frame queue may rely on: a log and a cursor (abstract specification) |
| `FifoFrameQueue` | `queue.py`; implements `LossyFifo` |
| `FifoFrameQueue_proofs` | its theorems |
| `AdapterSelection` | `AdapterSelector.select` and `register` as operators on a pool |
| `AdapterPool` | several selectors whose adapters come and go |
| `AdapterSelection_proofs`, `AdapterPool_proofs` | what `select` and `register` return, and that two selectors agree |
| `MeshTables` | the three tables of a node as operators |
| `QRNetMesh` | the nodes, their threads and the medium; uses `MeshTables` and `AdapterSelection` |
| `QRNetMesh_proofs` | its theorems |
| `LightLink` | two optical adapters face to face, with their threads, starts and stops |
| `LightLink_proofs` | its theorems |
| `GridLayout` | payload mask, fixed structure, capacity, fragment size |
| `GridSymbols` | bytes to module symbols and back |
| `GridCodec` | a message cut into frames, a frame into modules; uses the two above |
| `GridCodec_proofs` | its theorems |
| `LeastElement` | the least element of a set of numbers, and from it induction and recursion; the proofs about the selector and the grid rest on it |
| `LinkFrames` | the bytes of `frames.py`, CRC-16, and what `_decode_and_store` keeps |
| `ColorPalette` | `color_palette.py` as operators on the list of calibrated colours |
| `GridImage` | one image from the window to the buffer, misread modules, and a codec that two threads share; extends `GridCodec` by the two above |
| `GridImage_proofs` | its theorems |
| `MCFifoFrameQueue`, `MCAdapterPool`, `MCQRNetMesh`, `MCLightLink`, `MCGridImage` | instances for TLC |

Operators marked "Slip" in the modules are plausible mistakes in the definition
they precede. No specification uses them; put in the place of that definition,
each makes TLC find a property violated. They document what the properties are
sensitive to.

### FifoFrameQueue

`put()` takes `_lock` for the hash only. `PutCall`, `PutDedup` (lines 64-69),
`PutHasRoom`, `PutFoundFull` or `PutDiscard` (71, 78-81), `PutEvict` (72-77) and
`PutEnqueue` (83-89) are its steps, each one call on the inner `queue.Queue` or
one critical section. `ClearCall`, `ClearPop`, `ClearReturn` are `clear()`, which
holds `_lock` all the while; `Get` is a `get()` that finds a frame. History
variables record every frame by its fate: enqueued, read, evicted, refused,
wiped. An image stands for all camera frames with one hash. `x += 1` is taken to
be atomic, as CPython executes it. `build` is constant in a behaviour: the parameters of
the constructor (`Policy`, `HashDedup`) and the threads that call `put()`.

### AdapterSelection and AdapterPool

A pool is a sequence in registration order, as the list `_adapters` is.
`Register` replaces an adapter of the same MAC and puts the new one at the end;
`Availability` is a change of the adapter's own `is_available()`. `Select` is
`select()`, with all four policies and the forced light channel.

### QRNetMesh

Each node has a program counter for its application thread (`app`). The t-th
`join_mesh` starts the t-th HELLO thread, with the program counter `hello[n][t]`, and
the t-th RX thread, with a packet in hand in `hand[n][t]`.

| thread | actions |
|---|---|
| application | `Join`, `JoinHello`; `LeaveBye`, `LeaveStop`; `SendCall`, `NoRouteError`, `Negotiate`, `SendSetup`, `SendData` (`send_anonymous` and `negotiate_circuit`); `DiscoverHello`, `DiscoverReturn` |
| RX | `RxTake`, `RxEnd`, and one action per packet type: `OnHello`, `OnBye`, `OnCircuitSetup`, `OnCircuitTeardown`, `OnRouteUpdate`, `OnData`, with `RoutePacket` and `ForwardCircuit` |
| HELLO | `HelloWake`, `HelloLoop`, `HelloSend`, `HelloPurge` |
| failures | `Crash`: the process dies with its tables and adapters, and `Join` may start it again; `Fail`, `Recover`: an adapter is not available for a while |
| time, others | `Tick` (a HELLO interval passes), `Foreign` (a packet of a node that is not modelled), `Silence` (all nodes are gone) |

A step ends where another thread can make a difference. The RX thread alone writes
the tables, except for the purge and the originator's circuit, so a handler is one
step. `plan` is constant in a behaviour: who hears whom, how often or whether each node
joins, leaves or crashes and adapters fail, which messages are sent, who calls `discover_peers`
and what is heard from others; one run goes through several plans.

An adapter's MAC `<<n, k>>` says whose it is and where in the pool. `selected` is what
each selector returns while the adapters in `out` are not available, by `Select` of
`AdapterSelection`. `Hears` is the medium: `send()` has no destination, so every adapter
of the same type that is up and whose node has a link from the sender gets the packet; what
`_send_via_mac` does with a MAC is choose the adapter. An RX thread reads the adapter
that is selected when it looks. The inbox is a set: copies of one packet that wait at
the same time count as one. Ages count HELLO intervals. `Tick` asks that what takes
milliseconds is done before 30 s are over: every HELLO thread has run, no call is half
done, the RX threads of a node that left have ended, and every packet that was
waiting when the interval began, in the adapter that is read, has been handled.

### LightLink

`main` is the step of the caller of `handshake()`: `Initiate`, `See`,
`TakeSynAck`, `ShowAck` for the initiator; `Listen`, `See`, `TakeSyn`,
`ShowSynAck`, `See`, `TakeAck` for the responder; `Timeout` for each wait.
`_wait_handshake` reads and pops under two locks, so `See` and the pop are two
actions. `Start` makes the t-th producer and consumer thread, `Stop` makes
`_running` false and destroys the window; each thread ends at its next look
(`EndProducer`, `EndConsumer`), unless it is true again by then.
`Capture` is `_producer_loop`, `Get` and `Store` are `_consumer_loop` with
`_decode_and_store`; `SendCall`, `ShowData`, `SendReturn` are `send()` and
`send_file()`, which ends in a FIN; `Retransmit` is `retransmit()`; `Receive`
is `receive()`. An image carries one frame and the number of colours it was
drawn with; a codec of another depth cannot read it. `producer[e][t]` is the image that
thread captured last: it captures the screen when `detect_change` tells that from it
(`Changed`), and an image that is replaced before is lost. Which pairs of images differ by no more than
`diff_threshold` is part of the plan (`plan.alike`), and so is whether the compressor has the
attribute `algo` that the initiator reads (`plan.algo`); else `plan` bounds the calls, as in
`QRNetMesh`. `Decompress` is what `receive()` makes of one frame: the message, if it is all in
there; of the first of several frames the data up to its end, or nothing (`partly`); an
exception for the others. The buffer has one place for each sequence number, and every
`send()` numbers from 0 (`ShowFrame`).

### GridLayout, GridSymbols, GridCodec

`Reserved` is the payload mask, `Drawn` what `encode_grid` draws after the
payload, `Fragment` the size `_fragment` chooses, `BytesToSymbols` and
`SymbolsToBytes` the two bit-buffer loops, as recursive functions of how many values
have been taken in. `GridCodec` cuts a message
frame by frame (`CutFrame`), and when it is used up goes through the contents of
a short frame byte by byte (`AddByte`).

### LinkFrames, ColorPalette, GridImage

`HandshakeBytes` and `DataBytes` are the two `to_bytes`; `IsHandshake` and `IsData` say
that the two `from_bytes` raise nothing, with every comparison they make, the CRC-16
computed; `Stored` is what `_decode_and_store` puts into the buffer. `GridImage`
then does one of two things. It sends a frame (`Transmit`), of which one
module may be taken for the colour next to its own (`Misread`) or one bit of the format
information be misread (`MisreadFormat`). Or it draws a frame module by module
(`DrawModule`, `DrawCells`) while the consumer thread calibrates the same codec, colour by
colour (`Capture`, `Calibrate`), from the images of the other end, which may be of
another depth, drawn in theoretical colours or in those learnt from this end, and
seen by a camera that darkens everything.

## 3. The runs

Passing runs:

| run | question | instance |
|---|---|---|
| `fifo_queue` | do order, newest image and statistics survive every race, does the total of `drop_rate` hold, and does every `put()` return? | two builds: the adapter's own (one camera, DROP_OLDEST, deduplication), and two cameras with DISCARD_NEW and no deduplication; 2 images, capacity 2, 4 puts, 1 clear |
| `pool_agree` | do two selectors agree on the channel? | all orders of 3 adapters of 3 types, up or down, 4 policies, 1 gateway; symmetric in the selectors |
| `mesh_membership` | are entries of nodes that leave or crash purged in time and for good, and those of nodes that stay never? Do nodes that run find each other after any trouble? | 2 nodes, stale after 3 intervals, five plans: one leaves and the other one hears itself as well; one leaves and joins again, and is heard, or hears; one crashes and is started again; an adapter fails once, and a node calls `discover_peers` |
| `mesh_traffic` | do messages stay on their way, and arrive? Does the TTL end a loop, and does the best cost win? | TTL 1, circuit ids 0 and 1, stale after 1 interval, two plans: 2 nodes and 2 messages one after the other, which may share a circuit; a node that hears itself, a message to nobody, and route updates and a teardown from elsewhere; one waiting copy of each of these packets |
| `light_exchange` | is a successful handshake mutual, do messages arrive, and not too often? | seven plans: 2 attempts per end in any role with a message one way and a file the other way; 2 attempts, a message and a retransmission; a message to a reader that is stopped and started again; two messages one after the other; a message of two frames and a retransmission of either; a message and a file, and a compressor without `algo`; a message, and a camera that tells no two images apart |
| `grid_codec` | do frames fit, survive, and come back? Is what is stored what was sent? Does calibration in another thread harm an image? | messages up to 300 bytes, 4 depths; all frames of up to 4 bytes over 5 byte values; 11 frames of the link with each module misread as each neighbour and each format bit misread; a frame of one byte drawn in 4 depths in 7 surroundings |

The bounds. A capacity of 2 is the least at which the oldest and the newest frame
differ; four puts fill the queue, overflow it, and go on after a `clear()`, or, of two threads,
meet at the last free place. Three adapters of three types
reach every branch of every policy. Two nodes are enough for membership, which is
a relation of a node and its neighbour; that the one which stays hears itself gives it a live route
that the other one's BYE must not touch. Each plan is one kind of trouble; the plans
of a return have a link one way only, which halves what is in the air. The stale limit is
the code's own, 3 intervals; in `mesh_traffic` it is 1, so that a purge takes a route between
`negotiate_circuit` and `_resolve_mac`, and the fallback to the broadcast MAC has to carry the
packet. With TTL 1 a packet is forwarded once and dropped on its next arrival.
Two handshake attempts allow every mixture of old frames and a new call. Of the plans of
`light_exchange`, those with two messages in one direction and with a message of two frames
are the ones in which a first frame overwrites another and in which `decompress` returns a part. Messages
of 300 bytes make three frames with a rest; frames of 4 bytes at 3 bits per module
have all three residues. The 11 frames are every kind the adapter shows, with data frames on
both sides of each comparison in `IsHandshake`, and the two in which one misread module makes another
frame that passes (`LuckyAck`, `LuckyData`). `TestVector` compares `Crc16` with the value
that the repository's own test has. Images are read in 16 colours, the depth every
handshake ends in. One or two captures while an image is drawn are enough for a
calibration between any two of its modules, and for one that ends where another begins.
A misread length is followed up to `FirstDrawnOver`, the modules that hold payload alone.

Runs that show a disagreement between the code and what its comments promise; TLC
prints the trace:

| run | promise | what happens |
|---|---|---|
| `mesh_misdelivery` | a circuit entry without next hop belongs to the destination (`red/interfaces.py:122`) | a neighbour without a route records the circuit as if it were its own, and the payload for `c` is put into the `_rx_queue` of `b` |
| `mesh_bye_wipes` | `_on_bye` removes the node that left (`node.py:294`) | `expire_stale(0)` empties the directory, live nodes included |
| `mesh_routes` | a node broadcasts a ROUTE_UPDATE when it has handled a new neighbour's HELLO (`README.md:944`, `docs/documentacion.md:343`) | it learns the route and sends HELLOs only |
| `light_ack_replaced` | `handshake` returns True if it completed (`adapter.py:137`) | a `send()` right after the initiator's True replaces the ACK before it is captured; the responder gets False |
| `light_long_message` | `send` fragments, `receive` returns the next block, and the receiver reassembles (`adapter.py:94,108`, `README.md:764`) | each fragment is decompressed alone, so a message of two frames never arrives; what it begins with may |
| `grid_next_frame` | frames that changed are captured (`adapter.py:296`, `transmision/interfaces.py:80`) | at the default `diff_threshold` a camera that sees just the window takes the next frame of a message for the same picture, whatever the two hold |

### Fairness

Threads that can run are scheduled: weak fairness of each thread's next step
(`RxStep` of each RX thread and `Interval`; `Progress`; `PutStep`, `ClearStep`).
`Interval` is the next step of any application or HELLO thread of the mesh, or
`Tick`: fairness of all of them together is that of each, because every one of them
stops after a few steps until the next `Tick`, which waits for all of them. `Progress` is in the
same way the next step of any call or thread of the link (`HandshakeStep`, `Timeout`,
`ProducerStep`, `ConsumerStep`, `Receive`, `SendStep`): the calls of a plan are bounded, a
behaviour makes finitely many steps, and so it ends only where none of them has a next one. These are loops without conditions other than the ones in the
guards. What users decide has no fairness: nobody has to join, send, leave, call
`handshake()`, `start()` or `clear()`; nor has a failed adapter to recover
(`LiveNodesKnown` asks for it).

`Steady` cameras capture an image that stays for a whole interval
between frames (150 ms against a producer loop that looks every 75 ms), and time
out only when nothing is left to do. Delivery is claimed under it only, and not of an image that
`detect_change` does not tell from the last one (`Overlooked`), nor of a message after which the
same end sent another one (`Overwritten`). `Steady`
does not cover the ACK and other images that nobody sleeps after, which is what
`light_ack_replaced` shows. `OneCaller` says that one thread calls `handshake()`
and `send()` of an end, as the demos do.

Deadlock is checked, except in the link and grid runs, where every call has been
made and has returned in the end.

## 4. What is proved

`FifoFrameQueue_proofs`, for any capacity, policy, set of images and of
producers, with deduplication and without, and any number of calls:

* `TypeCorrect`: types, and the queue never exceeds its capacity.
* `AccountingCorrect`: the statistics account for every frame, with any number
  of threads inside `put()`. The lemma `StepEffect` reduces every action to one of
  six effects on the queue, the counters and the histories; the equations
  are preserved by each.
* `QueueIsLossyFifo`: the refinement `IsLossyFifo`. The unread frames of the log
  are the queue: `SuffixStep` shows that the queue is always the last
  `Len(q)` elements of the log, so popping the head is reading or losing the
  frame under the cursor.
* `CaptureOrderCorrect`: with one camera thread the decoder gets frames in
  capture order, at most once each. The invariant says that ids increase along
  what was read followed by the queue, and that a frame still inside `put()` is
  newer than all of them.
* `NewestImageCorrect`, `NoRepeatedImageCorrect`: with one camera thread,
  after `PutHasRoom` or `PutEvict` the queue has a free place that nobody else
  can take, so `put_nowait()` never refuses; and the last hash is the image of
  the last frame enqueued or about to be. `NoRepeatedImage` asks for no `clear()`, for
  `clear()` forgets the hash.
* `DropRateCorrect`: `DropRateCountsReceived` speaks of moments when no `put()` runs, which
  is not inductive. `CountInv` counts the calls that are under way: they, the frames enqueued and
  those refused are the calls of `put()`; what is dropped is what is refused or evicted.

`LightLink_proofs`, for any queue size, messages, palettes, roles and number of
attempts, cameras that miss images included:

* `TypeCorrect`: each key of the receive buffer holds only frames of its kinds.
* `MutualCorrect`: `TrueIsMutual`. It is not inductive by itself:
  what makes an end return True is a frame that may have been
  shown many steps ago, in another attempt. `ReplyEvidence` says that a SYN-ACK or
  an ACK anywhere (on the screen, in the queue, in the buffer) proves that
  its sender has applied the capabilities, which it never takes back;
  `CallerEvidence` says the same of the steps of a caller that has read one.
  `MutualInv` is these two and the types; each of the lemmas `ScreenStep`,
  `QueueStep`, `BufferStep` and `CallerStep` carries the evidence one stage
  further.
* `RepeatsCorrect`: `RepeatsExplained`, for plans that combine what the run's plans keep
  apart. `OriginInv` says that data is on its sender's screen and past the other end's camera only.
  `RepeatsInv` counts the copies of a message's first frame: returned whole or in part, in the buffer, with a
  consumer, in the queue, and one for each producer that may still capture it. Together
  they are at most the starts of the reader times the shows: only showing it makes new ones, one for each
  producer there is.

`QRNetMesh_proofs`, for any nodes, pools of adapters, policy, TTL, stale limit, plans,
messages and packets of others, with media that lose packets and media that do not:

* `TypeCorrect`: `TypeOK` needs that a call of `send_anonymous` has its message and
  then its circuit (`CallsAreSet`); a handler gets its packet from a thread's hand, where only
  packets from the air come (`HandAssumption`: the marks of an empty hand and of an ended
  thread are no packets). That an RX thread reads an adapter of its own node is
  `SelectFacts` of the selector.
* `BestCostWinsCorrect`: `TableWriters` names the six steps that write the tables, `EntrySteps`
  what each of them does to one entry: keep it, drop it, age it, or replace it by one that costs no
  more, for a HELLO or a route update in hand.
* `RoutesAreNeighboursCorrect`: where no other implementation is heard, every route leads to a neighbour
  at cost 1, so what `mesh_routes` finds is so in every mesh. `NearInv` says of everything on the air and in hand that a HELLO was
  sent within one hop and that route updates there are none. The tables alone are not inductive,
  for what is written into them may have been sent long before, by a node that has crashed
  since.
* `StaleEntriesCorrect`: the bound of the property, one interval more than the limit, does not
  carry over the end of an interval. `StaleInv` says when the tables are younger: from the
  purge of the one HELLO thread (`Purged`) to the end of the interval no entry is older
  than the limit itself, because `Tick` waits for that thread, and every handler writes entries
  of age 0.
* `LiveRouteKeptCorrect`: `LiveRouteKept`, for a `PlainMesh`: no other implementations, any pools of
  adapters and any policy, as long as the selectors of all nodes choose adapters of one type (`Chosen`) and
  a node whose process may die has no other one, entries that live for three intervals at least, and nobody joins more
  than twice. The age of a route says nothing of when it is renewed. `RouteInv` says for every
  pair where the next HELLO is: not sent in this interval yet (`~ Said`), waiting
  (`Coming`), or due before the interval ends (`Due`), and how old the route may be in each case: at
  a neighbour that never left (`Fresh`), at one that has left and whose HELLO thread still ends
  (`Away`, `LongAway`), and at one that has returned (`Returned`). `WaitsOn`, `BacklogStays` and
  `SaidSteps` say that a HELLO goes from one of these to the next and is not lost, `HelloRenews` that
  handling it renews the route; `RenewedTick` takes the ages over the end of an interval. `ThreadInv`,
  `ViaInv`, `SourceInv` and `OutInv` are what these need of threads, hands, nodes that have not
  joined, and adapters. `DropSteps` then leaves nothing that drops the route.
  The hypotheses are needed. With two intervals, or with three joins of the neighbour, TLC finds
  the route dropped: a neighbour that leaves and returns with its old tables purges the route
  before it handles the HELLO that waits. With two types of adapters a node may send on one that its
  neighbour does not read; a process that comes back with several adapters may read another one until the one it
  chooses is available again; and another implementation may send a BYE in the node's name.
* `SentIsKeptCorrect`: `SentIsKept`, under `ScreensFirst`: `PREFER_QR`, the policy that the
  selector has by default, and a screen in every node, among any other adapters. Without a route to
  the destination, as after a BYE that came between the call and the packet, `_resolve_mac` falls back
  to the broadcast MAC, which means the light channel, so a node without a screen would drop the message. `KeptInv`
  is the property and that no adapter is out. Three things keep it: `DataArrives`, DATA that is sent is at once in
  the adapter that its destination reads (`FirstScreen`: that node's first screen, whatever else it has);
  `OnTheWayStays`, nothing but a handler of that node takes it from there (`WaitsOn`, `OutStays`);
  `DataIsTaken`, the handler of a packet for the node itself delivers it before it looks at TTL, circuit or
  route. `SenderInv` says that a node sends its own application's messages, so that the link in question is the
  sender's. Nothing is assumed about circuits, so they may be shared by any destinations.

`AdapterPool_proofs`, for any selectors, catalogue of adapters and gateways:

* `TypeCorrect`: a replacement leaves the others of the pool, none of which has the new
  adapter's MAC, in their order. `AtPlacesFacts` describes a list filtered by place: where each
  element of it comes from, that the order is kept and that every place asked for is there.
* `SameChannelCorrect`: `_first_of_type` finds a type if and only if it is up; the cheapest
  of two pools cost the same, and adapters of one cost are of one type
  (`CatalogAssumption`).
* `GatewayTrafficStaysCorrect`: what goes to a gateway is decided by the list of the light
  adapters (`LightDecides`), for the first of the pool that is up is the first of that list.

`GridCodec_proofs`, for messages of any length, and frames of any length and content:

* `FragmentsFitCorrect` and `FrameSurvivesCorrect`. Counting modules one by one is nothing
  for a prover. `CapacityFacts` finds 46 by 46 free modules in the middle of the grid, which hold
  a full frame even at one bit per module; `FirstDrawnOverFacts` finds six rows of 46 above the
  first payload module that is drawn over, which hold 16 colours' worth of one (260 of 276).
* `RoundTripCorrect` and `SameBitsCorrect`. A frame is a stream of bits (`Stream`), and
  `Number(s, at)[n]` what the n bits from a place on are as a number. `ShiftHeld` shows that one turn of
  the loop keeps its state `Held`: after p bits have been taken in, the whole values of the other
  width are out and the buffer holds the rest as a number; `ShiftsHeld` that all turns do. Both
  loops are this one, with the widths exchanged: `SymbolsAre` and `BytesAgain` say what each
  makes of a frame. The induction is over the bits that have been taken in, and needs no induction
  theorem with an operator as its parameter: `LeastElement` states induction of sets and recursion of
  functions, and proves both from the well-foundedness of the natural numbers.

`GridImage_proofs`, for any frames of the link, drawn frame, surroundings and number of captures:

* `ImageIsCodec`: a behaviour of `GridImage`, which the run checks, is one of `GridCodec`, of which
  the theorems above speak.
* `StoredAsSentCorrect`. `HandshakeLayout` and `DataLayout` give each byte of a frame by its
  place; `HandshakeStored` and `DataStored` go through the checks of the two `from_bytes` with
  them. The CRC is the same function on both sides, so nothing has to be known of it here. `LinkFrameAssumption` says which frames there are: every type
  up to FIN_ACK, address, capability and payload that `frames.py` accepts.
* `ChecksumShowsModule`: the CRC-16 of two sequences of one length that differ in one module is not the
  same. A round of the inner loop shifts a bit out and toggles bits 12, 5 and 0 or none, and bit 0 of
  the result says which (`CrcBitFacts`). So from equal results one round after the other can be
  peeled off (`Peeled`): each step shows that the bits that went in were alike and loses one bit of
  what is known of the register. Four rounds is as far as this goes before the toggled bit 12 is in the
  way, and four rounds are half of a byte, one module in 16 colours (`FourRounds`,
  `HalfByte`). With the same bits the round is injective (`CrcBitInjective`), so registers that differ
  after the misread module stay different to the end (`KeptApart`, `CrcByteInjective`).
* `DamageNeverStoredCorrect`: `DamageInv` says what has become of the bytes: they are those of the
  frame, or differ in one module, or as many of them as the misread length says have been read,
  with zeros behind. `DamagedSeal` is the checksum lemma for a frame, whose own checksum may be what is
  misread. It does not decide everything, for `IsData` compares the part that the frame itself says it
  has. A data frame that states a greater length is too short. One that states a smaller one, and a
  handshake frame that says it is data, passes if the bytes there are the checksum of that part
  by chance: `PassesForAnother`, which the property excepts and of which the run has both
  kinds. A frame that was cut or lengthened needs no checksum: what is read of it starts as it was sent, and
  `HandshakeRead` and `DataRead` say that the fields then are what was sent.
* `UntouchedImageReadsCorrect`: `DrawInv` says how far the drawing and the calibration are,
  `UntouchedInv` that an untouched image is drawn in the colours of one moment, which are those of
  now as long as it is not complete. `ReadsBackWhen` then decodes it by the patch of the image.
* `SettledEndsReadCorrect`: `SettledInv` says that all colours and every patch on the way
  are the theoretical ones, so that calibration replaces each colour by itself; `PaletteHues`
  and `PaletteApart` that these can be told apart, at each depth.
* `NextFrameUnnoticedCorrect`: in 16 colours no contents of two full frames are noticed, so what
  `grid_next_frame` finds is so for messages of any length. `GreyGapFacts` finds the greatest difference of grey between two of
  16 colours, 137; `FewBits` that the format information of a handshake frame and of another frame
  differ in 8 bits at most, and in 5 if that frame is among the three longest. The bound
  is reached but for 97 parts of 36992, so a coarser count would not do.

The assumptions are the ASSUMEs of the modules, which TLC evaluates in every run. Those of the
mesh that are not about its parameters say that what stands for None is none of what it may be
confused with: no adapter, entry, packet, node or MAC.

So `Accounting` with two cameras under DROP_OLDEST, `DropRateCountsReceived` under DROP_OLDEST,
`SentIsKept` with circuits that two destinations share, `TrueIsMutual` with cameras that miss images, `RepeatsExplained` with a retransmission to a reader
that is started again, `RoundTrip` of a frame of full length, and `StaleEntriesPurged` in a mesh of more nodes that loses packets, have no run of their
own: the theorems cover them.

Only model-checked: all liveness
(`PutReturns`, `GhostsForgotten`, `LiveNodesKnown`, `SentIsDelivered`,
`DataLeavesAir`, `ShortMessagesArrive`), which needs fairness and is beyond the prover.

## 5. Behaviour of the code that a reader may not expect

The modules have it. Where a run is about it, the item names the run.

* `queue.py:130`: under DROP_OLDEST an evicted frame is in `_enqueued` and in
  `_dropped`, so `drop_rate` divides by more than was received. `DropRateCountsReceived`
  says by how much: by the evicted frames. Under DISCARD_NEW the total is right.
* `node.py:113`: the BYE goes out while the other threads run, so a HELLO may follow
  it. `GhostsForgotten` shows that the purge repairs it.
* `node.py:100`: a node that joins again among its old threads has two of a kind for up to one
  interval; nothing breaks (`LiveNodesKnown`). But its tables are those of before, and no
  HELLO thread has purged them meanwhile: it uses entries of any age until the
  first purge, which is why `StaleEntriesPurged` speaks of nodes that have joined once.
  A neighbour that leaves and returns twice may so drop a node that was there all the time, until
  it has handled the HELLO that waits: `LiveRouteKeptCorrect` is for two joins.
  At its neighbours, an entry that an old thread's HELLO left behind the BYE may
  be purged while the HELLO of the return waits to be handled, so `LiveRouteKept` speaks of
  nodes that have never left.
* `node.py:163`: `discover_peers` returns new nodes only, not those that answered again.
* `node.py:291`: the answer to a HELLO is a broadcast HELLO, which is answered too.
* `node.py:320`: a CIRCUIT_SETUP is forwarded at TTL 0.
* `node.py:325`: a teardown removes the circuit before it would be forwarded along it.
* `node.py:399`: BYE goes to the broadcast MAC and so to the light channel, even in
  a mesh that uses Ethernet; without a light adapter it is dropped.
* `node.py:357`: the False of a failed `send()` is ignored. Neighbours whose adapters are out
  for three intervals purge each other, and find each other again (`LiveNodesKnown`).
* `node.py:412`: a circuit is found again by its next hop, which is always the MAC of the
  receiver's own adapter (line 237), so any circuit serves any destination. The
  destination takes the message by its `dst_id`; the end of the other circuit takes it as well.
  `SentIsKeptCorrect` says of any circuits that the destination does not miss it.
* No code sends a ROUTE_UPDATE (`mesh_routes`), so routes are one hop long (`RoutesAreNeighboursCorrect`).
* `adapter.py:104`: `send()` returns True without any confirmation.
* `adapter.py:114`: `receive()` may pop a handshake frame and throw it away.
* `adapter.py:159`: the initiator reads `algo`, which neither `ICompressor` nor `ZstdCompressor`
  has, so `handshake` raises there. `plan.algo` stands for it; the runs of the link have plans with a
  compressor that has it, and `light_exchange` one without.
* `adapter.py:373`: every `send()` numbers its frames from 0, and `adapter.py:338` stores a frame
  under its number: a message that `receive()` has not taken is lost when the next one comes.
  `ShortMessagesArrive` excepts it (`Overwritten`).
* `adapter.py:193`: the responder becomes available before it has an ACK, and draws its
  SYN-ACK in the agreed 16 colours, which a codec built with fewer cannot read.
* `adapter.py:247`: the chunks of `send_file` are as large as the grid takes, which is more
  than a DataFrame accepts: a file of more than one frame raises before anything is shown.
  `send_file` does not ask `is_available()` either.
* `adapter.py:297`: after `stop()` and `start()` the queue and the buffer hold what was there
  before, the old threads may go on, and the first image is always captured: a message
  in the other window is received once more for each start, and one that is retransmitted to
  two producers twice more (`RepeatsExplained`).
* `adapter.py:326`: a DATA frame of at least 52 bytes whose source has the MAC bytes
  `..:4E:51:..` in the second and third place, and whose fourth payload byte is below 64,
  passes for a handshake frame and is lost. `StoredAsSent` says that no other frame is.
* `frames.py:220`: a data frame states its own length, so one misread module of it may make the other
  end check a shorter part, and of the type of an ACK make it data; if the checksum of that part happens to
  stand behind it, a block of data that nobody sent is stored (`PassesForAnother`). No other
  misread module is stored (`DamageNeverStored`).
* `color_palette.py:51`: `encode` draws in the calibrated colours. What one camera darkens is
  drawn darker and darkened again by the other one; only colours that can still be told apart
  read back (`Apart`).
* `grid.py:110`: an image of another depth calibrates the codec before it is refused (line 114),
  and an image whose colours change while it is drawn need not read back.
* `camera.py:91`: the mean difference of two full frames in 16 colours is below
  `diff_threshold` = 8 for a camera that sees just the window: the quiet zone and the unused
  modules are most of it (`grid_next_frame`). `NextFrameUnnoticedCorrect` shows it for every content; a lower
  threshold, which the constructor takes, notices them. `light_exchange` has plans for both cameras.
* `grid.py:245`: the format information is drawn over payload modules 329 to 352. A full
  DataFrame takes 260 modules in 16 colours, and 347, 520 or 1040 with fewer; a
  handshake frame takes 416 in two colours. Those lose symbols.

## 6. What is not modelled

* Image geometry, and the distance of colours: floating point over pixels. `GridImage`
  takes modules as colours; which of the palette's colours an unknown one is nearest to is
  left open. `LightLink` takes it that an image is captured whole or not at all; which
  images the camera tells apart is a plan's choice, not computed from pixels.
* The bytes and the CRC-32 of packets: a damaged one is dropped, which is a lost one.
  More than one misread module: a CRC of 16 bits cannot promise that it shows.
* The file's metadata in a handshake frame, which no code reads; hashes of files.
* Compression, logging, the window as such.
* NACK: no code sends or answers one.
* `receive()` of a node, which pops what `delivered` records; a second thread that sends
  on the same node; circuit ids that two nodes draw alike.
* A mesh that loses packets at random (`Lossy`): what it would lose is covered by the
  outage of an adapter.
* What happens inside a handler of the mesh: it is one step, although two RX threads may run at
  once for a while after a return. `RxTake` asks that the thread's node runs when a packet is
  taken; in the code a thread that has looked before `leave_mesh` may take one packet more, and
  handles it as it does one that it took just before, which the model has.
* A malformed entry of a ROUTE_UPDATE (`node.py:336`): the entries before it are installed and those
  behind it are not, which is what a shorter update does.
* Adapters that are absent from the repository.

## 7. Plan

Done, in this order: the frame queue with its refinement and proofs; the selector;
the mesh; the optical link and the proof that its handshake is mutual; the grid;
starts and stops of the link with the proofs redone; link frames, palette and the threshold of
the camera; joining again, restarts and failing adapters in the mesh; the proofs about the
mesh, the selector, the grid, and an image from one end to the other.

Next, for the model: several callers of `send()` on one screen in a run of their own.

Every safety and action property that a passing run checks has
its theorem; liveness stays with TLC. A smaller model of circuits, without the timers, would let
TLC run circuits to two destinations at once, which the theorem covers and no run does.
