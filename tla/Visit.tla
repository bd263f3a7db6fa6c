------------------------------- MODULE Visit -------------------------------
(***************************************************************************)
(* What a program that uses the library knows of one IConnect, as long as  *)
(* one client visits it (or one Connect lasts).  SocketPool is about how   *)
(* the library keeps this up; here a close takes no time to come through,  *)
(* and an object that is closed serves the next visit at once.             *)
(***************************************************************************)
CONSTANTS
  NoSocket    \* no IConnectCallback

Phases ==
  {"free",      \* waits for a client, or for Connect
   "arrived",   \* PT_ACCEPT is in the dispatcher's queue
   "offered",   \* OnAccept was called, or Connect has returned
   "open"}      \* OnConnect was called

Closings == {"no", "active", "passive"}   \* the close packet that is queued

LinkRecord(Sockets) ==
  [phase : Phases, callback : Sockets \cup {NoSocket}, usable : BOOLEAN, closing : Closings]

NewLink == [phase |-> "free", callback |-> NoSocket, usable |-> FALSE, closing |-> "no"]

(* A client was accepted. *)
Arrived(link) == [link EXCEPT !.phase = "arrived", !.usable = TRUE]

(* Connect has posted ConnectEx. *)
Dialled(link, s) == [link EXCEPT !.phase = "offered", !.usable = TRUE, !.callback = s]

(* SetCallback on an accepted connection calls OnConnect if it is usable. *)
Opened(link) == IF link.usable THEN [link EXCEPT !.phase = "open"] ELSE link
WithCallback(link, s) == Opened([link EXCEPT !.callback = s])

(* The peer leaves, or the connection breaks, or ConnectEx fails. *)
Left(link) == [link EXCEPT !.usable = FALSE, !.closing = "passive"]

(* Close; a connection that is closed already stays as it is. *)
Closed(link) ==
  IF link.usable THEN [link EXCEPT !.usable = FALSE, !.closing = "active"] ELSE link

(* In the dispatcher's hands: the user holds the pointer. *)
Held(link) == link.phase \in {"offered", "open"}
=============================================================================
