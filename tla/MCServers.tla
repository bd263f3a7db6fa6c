----------------------------- MODULE MCServers -----------------------------
(* The constants of Servers are given in servers.cfg. *)
EXTENDS Servers
=============================================================================
