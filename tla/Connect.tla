------------------------------ MODULE Connect ------------------------------
(***************************************************************************)
(* One CConnect object (Mogui/socket/Connect.h, Connect.cpp).  The object  *)
(* is a record and each method is an operator from the object before the   *)
(* call to the object after it; a method runs under the object's own lock  *)
(* m_lock, so one call is one atomic step of the modules that use it.      *)
(*                                                                         *)
(* The result of a WinSock call the method makes is a parameter ("posts":  *)
(* the overlapped operation was accepted).  The packets the method hands   *)
(* to the dispatcher are left in "out", the assertions of the code that    *)
(* would fail in "failed".  Data is counted in packets of                  *)
(* _MAX_BUFFER_LENGTH bytes; MessageStream is about the bytes themselves.  *)
(***************************************************************************)
EXTENDS Integers, Sequences

CONSTANT
  SendBuffer   \* packets m_sendbuffer holds: _MAX_SEND_BUFFER_LENGTH / _MAX_BUFFER_LENGTH

ASSUME SendBufferAssumption == SendBuffer \in Nat \ {0}

(* enum IOCP_IOTYPE: the overlapped structures of the object, one of each. *)
Ops == {"ACCEPT", "CONNECT", "SEND", "RECV", "DISCONNECT"}

(* enum SocketStatus, the values a client socket can have. *)
Statuses == {"INVALID", "COMMON", "CONNECTING", "CONNECTOUT"}

(* enum of CPacket: what the dispatcher is told. *)
PacketTypes == {"DATA", "ACCEPT", "CONNECT", "CLOSE_ACTIVE", "CLOSE_PASSIVE", "SOCKET_REUSE"}

ClosePackets == {"CLOSE_ACTIVE", "CLOSE_PASSIVE"}

(* An overlapped operation is idle, posted to the kernel, or cancelled and *)
(* still to complete.                                                      *)
InKernel == {"posted", "cancelled"}
IoStates == {"idle"} \cup InKernel

(* The assertions of Connect.cpp and IOCP.cpp, by what they assert.  The   *)
(* five of OneAtATime are about the counters m_nIo... of the operations    *)
(* posted: an overlapped structure is used for one operation at a time.    *)
(* Left out are those about what is constant here: the type of an object,  *)
(* of a packet or of an operation, a branch of a switch that has a case    *)
(* for each of them, a pointer that is not null, and the kernel sending no *)
(* more than was posted.                                                   *)
OneAtATime ==
  [ACCEPT |-> "m_nIoAccept==0", CONNECT |-> "m_nIoConnect==0", SEND |-> "m_nIoSend==0",
   RECV |-> "m_nIoRecv==0", DISCONNECT |-> "m_nIoDisconnect==1"]

Assertions ==
  {"m_nIoAccept==0", "m_nIoConnect==0", "m_nIoSend==0", "m_nIoRecv==0", "m_nIoDisconnect==1",
   "m_closepackets.Size()==1", "m_nSetCallBackTimes==1", "m_nOnConnectTimes==1",
   "m_iocpref==0", "m_iocpref>=0", "INVALID_SOCKET!=m_socket",
   "nIORef==0", "m_acceptInUse has socket", "m_acceptWait has socket",
   "m_ConnectInUse has socket", "socket is not in the free queue",
   "m_acceptInUse lacks socket", "m_ConnectInUse lacks socket",
   "no more than m_max_clientcnt", "no more than m_max_connectcnt"}

ConnectRecord ==
  [status : Statuses, socket : BOOLEAN, bound : BOOLEAN, callback : BOOLEAN,
   sending : BOOLEAN, recving : BOOLEAN, packettype : {"NONE", "DATA", "CLOSE_ACTIVE"},
   sendused : 0..SendBuffer, sendpackets : Nat, closepackets : Nat, buffered : Nat,
   iocpref : Int, io : [Ops -> IoStates],
   setCallbackTimes : Nat, onConnectTimes : Nat,
   out : Seq(PacketTypes), failed : SUBSET Assertions]

NewConnect ==
  [status |-> "INVALID", socket |-> FALSE, bound |-> FALSE, callback |-> FALSE,
   sending |-> FALSE, recving |-> FALSE, packettype |-> "NONE",
   sendused |-> 0, sendpackets |-> 0, closepackets |-> 0, buffered |-> 0,
   iocpref |-> 0, io |-> [op \in Ops |-> "idle"],
   setCallbackTimes |-> 0, onConnectTimes |-> 0,
   out |-> <<>>, failed |-> {}]

Check(r, holds, what) == IF holds THEN r ELSE [r EXCEPT !.failed = @ \cup {what}]

(* safe_delete of the object, for which a new one is created later. *)
Deleted(r) == [NewConnect EXCEPT !.failed = Check(r, r.iocpref = 0, "m_iocpref==0").failed]

(* m_dispatcher->OnRecvPacket *)
Tell(r, type) == [r EXCEPT !.out = Append(@, type)]

-----------------------------------------------------------------------------
(* Posting and completing overlapped operations.                           *)

(* ++m_iocpref (and ++m_nIo...), then the WinSock call is accepted.        *)
Post(r, op) ==
  [Check(r, r.io[op] = "idle", OneAtATime[op])
     EXCEPT !.iocpref = @ + 1, !.io[op] = "posted"]

(* --m_iocpref in the handler of a completion. *)
Complete(r, op) == [r EXCEPT !.iocpref = @ - 1, !.io[op] = "idle"]

(* CancelIoEx and closesocket: an operation in the kernel will complete. *)
Cancelled(state) == IF state = "posted" THEN "cancelled" ELSE state

(* Mutation of CancelIoEx: it is not called. *)
NothingCancelled(r) == r

CancelIoEx(r) == [r EXCEPT !.io["RECV"] = Cancelled(@), !.io["SEND"] = Cancelled(@)]

(* The operations that have not completed. *)
Busy(r, op) == IF r.io[op] = "idle" THEN 0 ELSE 1

Outstanding(r) ==
  Busy(r, "ACCEPT") + Busy(r, "CONNECT") + Busy(r, "SEND") + Busy(r, "RECV")
    + Busy(r, "DISCONNECT")

-----------------------------------------------------------------------------
(* ModifySend, ModifyRecv, ModifyClose.  ...Refused is "returned false".   *)

(* Whole packets move from m_sendpackets to m_sendbuffer while one fits. *)
FillSendBuffer(r) ==
  LET room == SendBuffer - r.sendused
      n    == IF r.sendpackets <= room THEN r.sendpackets ELSE room
  IN  [r EXCEPT !.sendused = @ + n, !.sendpackets = @ - n]

PostSend(r, type, posts) ==
  IF posts THEN [Post(r, "SEND") EXCEPT !.sending = TRUE, !.packettype = type]
           ELSE [r EXCEPT !.packettype = type]

(* Mutation of ModifySend: "if ( !m_sending )" is missing. *)
SendsAgain(r, posts) ==
  IF r.status = "INVALID"
    THEN r
    ELSE LET f == FillSendBuffer(r)
         IN  IF f.sendused > 0 THEN PostSend(f, "DATA", posts) ELSE f

ModifySend(r, posts) ==
  IF r.status = "INVALID" \/ r.sending
    THEN r
    ELSE LET f == FillSendBuffer(r)
         IN  CASE f.sendused > 0     -> PostSend(f, "DATA", posts)
               [] f.sendused = 0 /\ f.closepackets > 0
                                     -> PostSend(f, "CLOSE_ACTIVE", posts)
               [] OTHER              -> f

SendRefused(r, posts) ==
  \/ r.status = "INVALID"
  \/ /\ ~r.sending
     /\ r.sendused + r.sendpackets + r.closepackets > 0
     /\ ~posts

(* Mutation of ModifyRecv: a refused WSARecv does not take m_iocpref back. *)
RecvLeaksRef(r, posts) ==
  IF r.status = "INVALID" \/ r.recving
    THEN r
    ELSE IF posts THEN [Post(r, "RECV") EXCEPT !.recving = TRUE]
                  ELSE [r EXCEPT !.iocpref = @ + 1]

ModifyRecv(r, posts) ==
  IF r.status # "INVALID" /\ ~r.recving /\ posts
    THEN [Post(r, "RECV") EXCEPT !.recving = TRUE]
    ELSE r

RecvRefused(r, posts) == r.status = "INVALID" \/ (~r.recving /\ ~posts)

(* Mutation of ModifyClose: "if ( m_iocpref == 0 )" is missing. *)
ClosesAtOnce(r) ==
  LET s == [r EXCEPT !.status = "INVALID"]
  IN  IF s.closepackets > 0
        THEN Tell([s EXCEPT !.closepackets = @ - 1], "CLOSE_ACTIVE")
        ELSE Tell(s, "CLOSE_PASSIVE")

(* Mutation of ModifyClose: the close packet is taken without asking for one. *)
PopsAlways(r) ==
  LET s == [r EXCEPT !.status = "INVALID"]
  IN  IF s.iocpref # 0
        THEN s
        ELSE Tell([s EXCEPT !.closepackets = @ - 1], "CLOSE_ACTIVE")

(* The dispatcher hears of the close only once no operation is left. *)
ModifyClose(r) ==
  LET s == [r EXCEPT !.status = "INVALID"]
  IN  CASE s.iocpref # 0     -> s
        [] s.iocpref = 0 /\ s.closepackets > 0
                             -> Tell([s EXCEPT !.closepackets = @ - 1], "CLOSE_ACTIVE")
        [] OTHER             -> Tell(s, "CLOSE_PASSIVE")

SendOrClose(r, posts) ==
  LET s == ModifySend(r, posts)
  IN  IF SendRefused(r, posts) THEN ModifyClose(s) ELSE s

RecvOrClose(r, posts) ==
  LET s == ModifyRecv(r, posts)
  IN  IF RecvRefused(r, posts) THEN ModifyClose(s) ELSE s

-----------------------------------------------------------------------------
(* What the user of the interface IConnect calls.                          *)

Close(r, posts) ==
  IF r.status = "INVALID"
    THEN r
    ELSE LET q == [Check(r, r.closepackets = 0, "m_closepackets.Size()==1")
                     EXCEPT !.closepackets = @ + 1]
         IN  [SendOrClose(q, posts) EXCEPT !.status = "INVALID"]

Send(r, n, posts) ==
  IF r.status \in {"COMMON", "CONNECTING"}
    THEN SendOrClose([r EXCEPT !.sendpackets = @ + n], posts)
    ELSE r

(* Mutation of OnConnect: "if ( m_status==SS_CONNECTING )" is missing. *)
ConnectsAnyway(r, posts) ==
  [RecvOrClose([r EXCEPT !.onConnectTimes = @ + 1], posts) EXCEPT !.status = "COMMON", !.buffered = 0]

(* The status becomes SS_COMMON whether or not the receive was posted. *)
OnConnect(r, posts) ==
  LET s == [Check(r, r.onConnectTimes = 0, "m_nOnConnectTimes==1")
              EXCEPT !.onConnectTimes = @ + 1]
  IN  IF s.status = "CONNECTING"
        THEN [RecvOrClose(s, posts) EXCEPT !.status = "COMMON", !.buffered = 0]
        ELSE s

WithCallback(r) ==
  [Check(r, r.setCallbackTimes = 0, "m_nSetCallBackTimes==1")
     EXCEPT !.setCallbackTimes = @ + 1, !.callback = TRUE]

SetCallback(r, accepted, posts) ==
  IF accepted THEN OnConnect(WithCallback(r), posts) ELSE WithCallback(r)

(* A packet that comes before SetCallback is kept for OnConnect. *)
OnMsg(r) == IF r.status = "CONNECTING" THEN [r EXCEPT !.buffered = @ + 1] ELSE r

(* CConnect::OnClose has somebody to tell. *)
HearsClose(r) == r.callback

(* m_callback->OnMsg is called for a data packet. *)
HearsData(r) == r.status # "CONNECTING" /\ r.callback

-----------------------------------------------------------------------------
(* The handlers of completed operations.                                   *)

(* Mutation of OnSocketIOCPRecv: the data is handed over after ModifyRecv and ModifyClose. *)
RecvThenTell(r, posts) ==
  Tell(RecvOrClose([Complete(r, "RECV") EXCEPT !.recving = FALSE], posts), "DATA")

(* Mutation of OnSocketIOCPRecv: the next receive is not posted. *)
RecvOnce(r, posts) == [Tell(Complete(r, "RECV"), "DATA") EXCEPT !.recving = FALSE]

OnSocketIOCPRecv(r, posts) ==
  RecvOrClose([Tell(Complete(r, "RECV"), "DATA") EXCEPT !.recving = FALSE], posts)

(* Mutation of OnSocketIOCPSend: what is left in the buffer is not sent on. *)
SendOnce(r, sent, posts) ==
  LET s == [Complete(r, "SEND") EXCEPT !.sending = FALSE]
  IN  IF r.packettype = "CLOSE_ACTIVE"
        THEN IF s.iocpref > 0 THEN CancelIoEx(s) ELSE ModifyClose(s)
        ELSE [s EXCEPT !.sendused = @ - sent]

OnSocketIOCPSend(r, sent, posts) ==
  LET s == [Complete(r, "SEND") EXCEPT !.sending = FALSE]
  IN  IF r.packettype = "CLOSE_ACTIVE"
        THEN IF s.iocpref > 0
               THEN CancelIoEx(s)
               ELSE ModifyClose(Check(s, s.closepackets = 1, "m_closepackets.Size()==1"))
        ELSE SendOrClose([s EXCEPT !.sendused = @ - sent], posts)

(* The common start of a session in OnSocketIOCPConnect and ...Accept. *)
Established(r) == [r EXCEPT !.status = "CONNECTING", !.recving = FALSE, !.sending = FALSE]

OnSocketIOCPConnect(r) ==
  LET s == Complete(r, "CONNECT")
  IN  Tell(Established(Check(s, s.iocpref = 0, "m_iocpref==0")), "CONNECT")

OnSocketIOCPAccept(r, binds, allowed, posts) ==
  LET d == Complete(r, "ACCEPT")
      s == Check(d, d.iocpref = 0, "m_iocpref==0")
      t == [Established(s) EXCEPT !.bound = @ \/ binds]
  IN  IF ~binds /\ ~r.bound
        THEN ModifyClose(s)
        ELSE IF allowed /\ ~RecvRefused(t, posts)
               THEN Tell(ModifyRecv(t, posts), "ACCEPT")
               ELSE ModifyClose(t)

(* Mutation of OnSocketIOCPClose: ModifyClose is not called. *)
CloseForgotten(r, op, error) == [Complete(r, op) EXCEPT !.recving = @ /\ error]

OnSocketIOCPClose(r, op, error) ==
  LET s == [Complete(r, op) EXCEPT !.recving = @ /\ error]
  IN  ModifyClose(Check(s, s.iocpref >= 0, "m_iocpref>=0"))

OnSocketIODisConnect(r) ==
  LET s == Complete(r, "DISCONNECT")
  IN  Tell(Check(s, s.iocpref >= 0, "m_iocpref>=0"), "SOCKET_REUSE")

-----------------------------------------------------------------------------
(* What the pool (CIOCP) calls at the start and at the end of a session.   *)

WaitForAccepted(r) ==
  [Post(Check(r, r.iocpref = 0, "m_iocpref==0"), "ACCEPT")
     EXCEPT !.socket = TRUE, !.recving = FALSE, !.sending = FALSE]

ConnectOut(r) ==
  [Post(Check(r, r.iocpref = 0, "m_iocpref==0"), "CONNECT")
     EXCEPT !.socket = TRUE, !.bound = TRUE, !.status = "CONNECTOUT"]

(* Mutation of Reset: the counts of SetCallback and OnConnect are left as they are. *)
ResetKeepsCounts(r) ==
  [r EXCEPT !.callback = FALSE, !.status = "INVALID", !.sendused = 0,
            !.sending = FALSE, !.recving = FALSE, !.sendpackets = 0,
            !.closepackets = 0, !.buffered = 0]

(* Mutation of Reset: the callback of the last session is kept. *)
ResetKeepsCallback(r) ==
  [r EXCEPT !.status = "INVALID", !.sendused = 0,
            !.sending = FALSE, !.recving = FALSE, !.sendpackets = 0,
            !.closepackets = 0, !.buffered = 0,
            !.setCallbackTimes = 0, !.onConnectTimes = 0]

(* What TrueClose and ReuseClose both reset; m_iocpref is not reset. *)
Reset(r) ==
  [r EXCEPT !.callback = FALSE, !.status = "INVALID", !.sendused = 0,
            !.sending = FALSE, !.recving = FALSE, !.sendpackets = 0,
            !.closepackets = 0, !.buffered = 0,
            !.setCallbackTimes = 0, !.onConnectTimes = 0]

TrueClose(r) ==
  [Reset(r) EXCEPT !.socket = FALSE, !.io = [op \in Ops |-> Cancelled(@[op])]]

ReuseClose(r, posts) ==
  LET s == Reset(Check(r, r.socket, "INVALID_SOCKET!=m_socket"))
  IN  IF posts THEN Post(s, "DISCONNECT")
               ELSE Check(s, s.io["DISCONNECT"] = "idle", "m_nIoDisconnect==1")
=============================================================================
