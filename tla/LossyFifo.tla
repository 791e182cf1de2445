------------------------------ MODULE LossyFifo ------------------------------
(***************************************************************************)
(* What a reader of frames may rely on: a log of accepted frames and a     *)
(* cursor that only moves forward.  Reading takes the frame under the      *)
(* cursor, losing skips it, and at most Capacity frames are unread.        *)
(***************************************************************************)
EXTENDS Naturals, Sequences

CONSTANTS Capacity, Frame

VARIABLES
    log,      \* accepted frames, in order of acceptance
    cursor,   \* position of the oldest unread frame
    read      \* the frames the reader got

vars == <<log, cursor, read>>

Unread == Len(log) + 1 - cursor

Init == log = <<>> /\ cursor = 1 /\ read = <<>>

Accept ==
    /\ Unread < Capacity
    /\ \E f \in Frame : log' = Append(log, f)
    /\ UNCHANGED <<cursor, read>>

Read ==
    /\ Unread > 0
    /\ read' = Append(read, log[cursor])
    /\ cursor' = cursor + 1
    /\ UNCHANGED log

LoseOldest ==
    /\ Unread > 0
    /\ cursor' = cursor + 1
    /\ UNCHANGED <<log, read>>

Next == Accept \/ Read \/ LoseOldest
Spec == Init /\ [][Next]_vars
=============================================================================
