---------------------------- MODULE MCSocketPool ----------------------------
(* Values for the constants of SocketPool; the bounds are in the cfg files. *)
EXTENDS SocketPool

(* The unusual events after which the library goes on correctly. *)
Tolerated == {"sendPost", "disconnectErr"}

(* With them the refused AcceptEx, after which everything stays right but the
   number of objects that wait for clients (AcceptBacklog). *)
Refused == Tolerated \cup {"acceptPost"}
=============================================================================
