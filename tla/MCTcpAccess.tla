----------------------------- MODULE MCTcpAccess ----------------------------
(***************************************************************************)
(* Model values for checking TcpAccess.                                    *)
(***************************************************************************)
EXTENDS TcpAccess

CONSTANTS a1, a2

=============================================================================
