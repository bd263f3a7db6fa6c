------------------------------ MODULE PoolStop ------------------------------
(***************************************************************************)
(* CConnectPool::Stop of a pool that listens: CIOCP::Fini closes the socket *)
(* of every listed object and then waits a second, which nothing cuts      *)
(* short, for the completion port to let go of them.  Meanwhile the        *)
(* operations it ended complete, the AcceptEx of an object no client has   *)
(* come to as well as those of open connections, and the dispatcher, which *)
(* Stop ends only afterwards, takes their close packets.                   *)
(*                                                                         *)
(* The wait is followed up to the first assertion that fails.  Left out    *)
(* are the completions of AcceptEx and ConnectEx that were already there,  *)
(* OnIOCPAccept and SOCKET_REUSE: each leads to another assertion of       *)
(* IOCP.cpp, since m_max_clientcnt is 0 by then.                           *)
(***************************************************************************)
EXTENDS SocketPool

VARIABLE stopping   \* CIOCP::Fini is in m_condition.Wait

stopVars == <<vars, stopping>>

Listed ==
  ToSet(acceptQueue) \cup acceptWait \cup acceptInUse \cup ToSet(connects) \cup connectInUse

(* The first half of CIOCP::Fini: no socket is left, the lists stay as they are. *)
Fini ==
  /\ Running
  /\ listening /\ ~stopping
  /\ stopping' = TRUE
  /\ conn' = [c \in Conns |-> IF c \in Listed THEN TrueClose(conn[c]) ELSE conn[c]]
  /\ net' = [c \in Conns |-> "none"]
  /\ UNCHANGED <<packets, disp, listening, lists, told>>

(* What the completion port and the dispatcher do during the wait. *)
Meanwhile ==
  \/ \E c \in Conns :
       IocpRecv(c) \/ IocpSend(c) \/ IocpDisconnect(c) \/ \E op \in Ops : IocpClose(c, op)
  \/ DispatchData \/ DispatchClose \/ IOCPClose

StopInit == Init /\ stopping = FALSE

StopNext ==
  \/ ~stopping /\ Next /\ UNCHANGED stopping
  \/ Fini
  \/ stopping /\ Meanwhile /\ UNCHANGED stopping

StopSpec == StopInit /\ [][StopNext]_stopVars

(* Connect.cpp:1072: ReuseClose is called only for an object that still has *)
(* its socket.                                                              *)
ReusedIsOpen == \A c \in Conns : "INVALID_SOCKET!=m_socket" \notin conn[c].failed
=============================================================================
