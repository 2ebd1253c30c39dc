----------------------------- MODULE MCUdpAccess ----------------------------
(***************************************************************************)
(* Model values for checking UdpAccess: more clients than flow slots and   *)
(* identifiers, so that the cap and exhaustion are both reached.           *)
(***************************************************************************)
EXTENDS UdpAccess

CONSTANTS a1, a2, a3

ThreeClients == {a1, a2, a3}

=============================================================================
