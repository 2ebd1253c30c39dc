----------------------------- MODULE MCServeRun -----------------------------
(***************************************************************************)
(* Model values for checking ServeRun: a TCP and a UDP service.            *)
(***************************************************************************)
EXTENDS ServeRun

CONSTANTS k1, k2, p1, p2, tcp, udp

TwoConns == {k1, k2}
TwoPeers == {p1, p2}
BothServices == {tcp, udp}
Udp == {udp}

=============================================================================
