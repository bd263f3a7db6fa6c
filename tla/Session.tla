------------------------------ MODULE Session ------------------------------
(***************************************************************************)
(* What the library does to the users of a connection: a session is        *)
(* offered (OnAccept, or Connect has returned), may then be opened by one  *)
(* OnConnect, hears data only until it has ended, and ends for its user    *)
(* once.  Its end is told to the user's callback, at most once, and in any *)
(* case to the pool, which SocketInterFace.h:72 promises to connections    *)
(* without a callback only.  The pool, not the user, may be told a second  *)
(* time, when the kernel could not disconnect; never a third time.         *)
(***************************************************************************)
CONSTANT Conns

VARIABLES phase,   \* what the user knows of the current session
          heard,   \* data was delivered in the current session
          closes   \* what was told of its end

vars == <<phase, heard, closes>>

Phases == {"idle", "offered", "open", "ended"}

Init ==
  /\ phase = [c \in Conns |-> "idle"]
  /\ heard = [c \in Conns |-> FALSE]
  /\ closes = [c \in Conns |-> {}]

Offer(c) ==
  /\ phase[c] \in {"idle", "ended"}
  /\ phase' = [phase EXCEPT ![c] = "offered"]
  /\ closes' = [closes EXCEPT ![c] = {}]
  /\ UNCHANGED heard

(* OnConnect; data that came before the callback was set follows at once. *)
Open(c) ==
  /\ phase[c] = "offered" /\ ~heard[c]
  /\ phase' = [phase EXCEPT ![c] = "open"]
  /\ \E h \in BOOLEAN : heard' = [heard EXCEPT ![c] = h]
  /\ UNCHANGED closes

(* OnMsg; a connection the peer has already left is never opened, but its  *)
(* last data is still delivered.                                           *)
Hear(c) ==
  /\ phase[c] \in {"offered", "open"}
  /\ heard' = [heard EXCEPT ![c] = TRUE]
  /\ UNCHANGED <<phase, closes>>

(* An open session has a callback; one only offered may not have set it. *)
End(c) ==
  /\ phase[c] \in {"offered", "open"}
  /\ phase' = [phase EXCEPT ![c] = "ended"]
  /\ heard' = [heard EXCEPT ![c] = FALSE]
  /\ \E own \in {{"OnClose"}} \cup (IF phase[c] = "open" THEN {} ELSE {{}}) :
       closes' = [closes EXCEPT ![c] = {"PoolOnClose"} \cup own]

(* The pool closes again an object the kernel could not disconnect. *)
EndAgain(c) ==
  /\ phase[c] = "ended" /\ "PoolOnCloseAgain" \notin closes[c]
  /\ closes' = [closes EXCEPT ![c] = @ \cup {"PoolOnCloseAgain"}]
  /\ UNCHANGED <<phase, heard>>

(* The objects are made ready for other sessions, several in one step. *)
Renew ==
  \E C \in SUBSET {c \in Conns : phase[c] = "ended"} :
    /\ phase' = [c \in Conns |-> IF c \in C THEN "idle" ELSE phase[c]]
    /\ closes' = [c \in Conns |-> IF c \in C THEN {} ELSE closes[c]]
    /\ UNCHANGED heard

Next ==
  \/ \E c \in Conns : Offer(c) \/ Open(c) \/ Hear(c) \/ End(c) \/ EndAgain(c)
  \/ Renew

Spec == Init /\ [][Next]_vars
=============================================================================
