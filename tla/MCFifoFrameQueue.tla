-------------------------- MODULE MCFifoFrameQueue --------------------------
(* The instance of FifoFrameQueue for TLC.                                   *)
EXTENDS FifoFrameQueue

CONSTANTS blank, red, camera, camera2

TwoCameras == {camera, camera2}
TwoImages  == {blank, red}

\* As the optical adapter builds and uses it, and two threads that put what they like.
Device == [policy |-> "DROP_OLDEST", dedup |-> TRUE, cameras |-> {camera}]
Shared == [policy |-> "DISCARD_NEW", dedup |-> FALSE, cameras |-> TwoCameras]
Both   == {Device, Shared}
=============================================================================
