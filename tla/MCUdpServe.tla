----------------------------- MODULE MCUdpServe -----------------------------
(***************************************************************************)
(* Model values for checking UdpServe: two connections that compete for    *)
(* the service's slots.                                                    *)
(***************************************************************************)
EXTENDS UdpServe

CONSTANTS c1, c2

MCConn == {c1, c2}

=============================================================================
