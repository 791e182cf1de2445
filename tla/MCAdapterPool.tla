---------------------------- MODULE MCAdapterPool ----------------------------
(* An instance of AdapterPool for TLC.                                       *)
EXTENDS AdapterPool, TLC

CONSTANTS s1, s2, gateway, screen, ethernet, wifi

TwoSelectors == {s1, s2}
OneGateway   == {gateway}

Swap == Permutations(TwoSelectors)

Adapter(m, t, c) == [mac |-> m, type |-> t, cost |-> c]

\* The light adapter's cost is COST of DispositivoLuzAdaptador.
ThreeAdapters ==
    {Adapter(screen, "QR_LIGHT", 100), Adapter(ethernet, "ETHERNET", 1), Adapter(wifi, "WIFI", 10)}
=============================================================================
