----------------------------- MODULE MCTcpProxy -----------------------------
(* TcpProxy for TLC; the values are in the configurations. *)
EXTENDS TcpProxy

MCWindow == {3}
MCWindows == {0, 3}
=============================================================================
