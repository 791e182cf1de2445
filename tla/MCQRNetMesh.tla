----------------------------- MODULE MCQRNetMesh -----------------------------
(* Instances of QRNetMesh for TLC.                                           *)
EXTENDS QRNetMesh, TLC

CONSTANTS a, b, c

Nobody     == {}
TwoNodes   == {a, b}
ThreeNodes == {a, b, c}

\* Everyone hears everyone; b and c hear a, and a hears c only; a hears b, and b hears
\* c; a sees its own screen and nothing else; a and b hear each other, and b itself
\* as well.
FullPair == {<<a, b>>, <<b, a>>}
FullTrio == {l \in ThreeNodes \X ThreeNodes : l[1] # l[2]}
Corner   == {<<a, b>>, <<a, c>>, <<c, a>>}
Chain    == {<<c, b>>, <<b, a>>}
Echo     == {<<a, a>>}
EchoPair == FullPair \cup {<<b, b>>}

Msg(i, n, d) == [id |-> i, from |-> n, to |-> d]
Talk         == {Msg(1, a, b), Msg(2, a, b)}
ToB          == {Msg(1, a, b)}
ToC          == {Msg(1, a, c)}

RouteUpdate(n, costs) ==
    [type |-> "ROUTE_UPDATE", src |-> n, dst |-> Broadcast, cid |-> 0, ttl |-> MaxTTL,
     body |-> costs]
Teardown(id) ==
    [type |-> "CIRCUIT_TEARDOWN", src |-> a, dst |-> b, cid |-> id, ttl |-> MaxTTL,
     body |-> NoMessage]

\* b, of another implementation, tells a how far it is from a and from itself, and
\* that a circuit ends.
Costs == {<<a, RouteUpdate(b, [n \in Nodes |-> IF n = b THEN 0 ELSE 1])>>, <<a, Teardown(1)>>}

Each(k) == [n \in Nodes |-> k]

\* Everybody joins once and stays, and nothing is sent.
Staying(links) ==
    [links |-> links, joins |-> Each(1), leavers |-> {}, crashers |-> {}, outages |-> 0,
     messages |-> {}, discoverers |-> {}, foreign |-> {}]

\* Two messages to a neighbour; a message to nobody, of a node alone with others' packets.
Talks   == [Staying(FullPair) EXCEPT !.messages = Talk]
Echoes  == [Staying(Echo) EXCEPT
                !.joins = [n \in Nodes |-> IF n = a THEN 1 ELSE 0],
                !.messages = ToB, !.foreign = Costs]
Traffic == {Talks, Echoes}

CornerPlan  == {[Staying(Corner) EXCEPT !.messages = ToC]}
ChainPlan   == {Staying(Chain)}
LeavingPlan == {[Staying(FullTrio) EXCEPT !.leavers = {a}]}

\* a leaves and comes back; it crashes and is started again; an adapter fails, and a
\* calls discover_peers.
Leaves        == [Staying(EchoPair) EXCEPT !.leavers = {a}]
Returns(link) == [Staying({link}) EXCEPT !.joins[a] = 2, !.leavers = {a}]
Restarts      == [Staying(FullPair) EXCEPT !.joins[a] = 2, !.crashers = {a}]
Outage        == [Staying(FullPair) EXCEPT !.outages = 1, !.discoverers = {a}]

Trouble == {Leaves, Returns(<<a, b>>), Returns(<<b, a>>), Restarts, Outage}

OnlyScreens == [n \in Nodes |-> <<[type |-> "QR_LIGHT", cost |-> 100]>>]
=============================================================================
