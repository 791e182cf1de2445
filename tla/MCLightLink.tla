----------------------------- MODULE MCLightLink -----------------------------
(* Instances of LightLink for TLC.                                           *)
EXTENDS LightLink

Sixteen == [e \in {Left, Right} |-> 16]

Nothing == {}
Both    == {Left, Right}

Message(i, e, n, f) == [id |-> i, from |-> e, frags |-> n, file |-> f]
Short   == {Message(1, Left, 1, FALSE)}
File    == {Message(2, Right, 1, TRUE)}
Another == {Message(3, Left, 1, FALSE)}
Long    == {Message(4, Left, 2, FALSE)}
All     == Short \cup File \cup Another \cup Long

Each(n) == [e \in {Left, Right} |-> n]

\* Left calls, Right answers, once, with a compressor that has "algo" and cameras
\* that tell all images apart.
Once(messages) ==
    [attempts |-> Each(1), starts |-> Each(1), messages |-> messages, resends |-> 0,
     roles |-> [e \in {Left, Right} |-> IF e = Left THEN {"initiator"} ELSE {"responder"}],
     algo |-> TRUE, alike |-> {}]

OneShort == {Once(Short)}
OneLong  == {Once(Long)}

\* Handshakes that fail and are repeated, in any role; a retransmission; a reader
\* that is stopped and started again; messages that overwrite each other, in one
\* frame or in two; a compressor without "algo"; the default threshold, at which no
\* grid of 16 colours is told from the next one.
Exchange == {
    [Once(Short \cup File) EXCEPT !.attempts = Each(2), !.roles = Each({"initiator", "responder"})],
    [Once(Short) EXCEPT !.resends = 1, !.attempts = Each(2)],
    [Once(Short) EXCEPT !.starts = [e \in {Left, Right} |-> IF e = Left THEN 1 ELSE 2]],
    Once(Short \cup Another),
    [Once(Long) EXCEPT !.resends = 1],
    [Once(Short \cup File) EXCEPT !.algo = FALSE],
    [Once(Short) EXCEPT !.alike = Images \X Images]}
=============================================================================
