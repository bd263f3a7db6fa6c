----------------------------- MODULE SocketPool -----------------------------
(***************************************************************************)
(* The socket library at run time: the CConnect objects (Connect.tla), the *)
(* lists of CIOCP that say what each object is used for (IOCP.cpp), the    *)
(* completion port threads that run CIOCP::IOCP_IO, the packet queue and   *)
(* the thread of CDispatcher (Dispatcher.cpp), the calls CConnectPool      *)
(* passes on (ConnectPool.cpp), and the users of the library that hold     *)
(* connections and call them from any thread.                              *)
(*                                                                         *)
(* The model is of the build with assertions: the program stops where one  *)
(* fails.                                                                  *)
(***************************************************************************)
EXTENDS Connect, FiniteSets, SequencesExt

CONSTANTS
  Clients,   \* objects of type ST_ACCEPTED, m_max_clientcnt of them
  Outs,      \* objects of type ST_CONNECTTO, m_max_connectcnt of them
  NoConn,    \* no object
  Allow,     \* unusual events this instance admits, a subset of Events
  MaxSend,   \* bound: packets waiting in m_sendpackets
  MaxData    \* bound: received packets of a connection not yet consumed

Conns == Clients \cup Outs

Events ==
  {"forbidIP",       \* the peer's address is in m_forbidips
   "acceptErr",      \* AcceptEx completes with an error
   "acceptPost",     \* AcceptEx is refused
   "bind",           \* BindIoCompletionCallback fails on a new socket
   "firstRecv",      \* the first WSARecv of a session is refused
   "sendPost",       \* WSASend is refused although the connection is up
   "closeEarly",     \* Close is called before ConnectEx has completed
   "setTwice",       \* SetCallback is called although there is a callback
   "disconnectErr"}  \* DisconnectEx completes with an error

ASSUME PoolAssumption ==
  /\ IsFiniteSet(Clients) /\ IsFiniteSet(Outs)
  /\ Clients \cap Outs = {}
  /\ NoConn \notin Conns
  /\ Allow \subseteq Events
  /\ MaxSend \in Nat /\ MaxData \in Nat

VARIABLES
  conn,         \* the CConnect objects
  packets,      \* CDispatcher::m_packets
  disp,         \* the call of OnPacket the dispatcher thread has still to make
  listening,    \* CIOCP::Listen has returned true
  acceptQueue, acceptWait, acceptInUse,   \* CIOCP's lists of accepted objects
  connects, connectInUse,                 \* CIOCP's lists of outgoing objects
  net,          \* environment: the TCP connection below the object
  told          \* history: the calls of the session, both ways; its end erases
                \* all but those that say so

lists == <<acceptQueue, acceptWait, acceptInUse, connects, connectInUse>>
vars  == <<conn, packets, disp, listening, lists, net, told>>

Accepted(c) == c \in Clients

(* The user has the pointer from OnAccept or Connect until it hears of the close. *)
Held(c) == told[c] \cap {"OnAccept", "Connect"} # {}

(* How often OnClose and the pool's OnClose were called since the object   *)
(* was last armed or deleted.                                              *)
CloseWords ==
  {"OnClose", "OnCloseAgain", "PoolOnClose", "PoolOnCloseAgain", "PoolOnCloseOften"}

OwnClose(said) == IF "OnClose" \in said THEN "OnCloseAgain" ELSE "OnClose"

PoolClose(said) ==
  CASE "PoolOnClose" \notin said      -> "PoolOnClose"
    [] "PoolOnCloseAgain" \in said    -> "PoolOnCloseOften"
    [] OTHER                          -> "PoolOnCloseAgain"

Running == \A c \in Conns : conn[c].failed = {}

Idle == [at |-> "idle", conn |-> NoConn]

(* Outcomes of the calls that the named event makes possible. *)
Unless(event) == IF event \in Allow THEN BOOLEAN ELSE {TRUE}

SendPosts(c) ==
  IF conn[c].status = "CONNECTOUT" THEN {FALSE}     \* WSAENOTCONN
  ELSE IF net[c] = "open" THEN Unless("sendPost") ELSE BOOLEAN

(* A method of c ran: its new state, and the packets it hands over. *)
Commit(c, r) ==
  /\ conn' = [conn EXCEPT ![c] = [r EXCEPT !.out = <<>>]]
  /\ packets' = packets \o [i \in 1..Len(r.out) |->
                              [type |-> r.out[i], conn |-> c]]

-----------------------------------------------------------------------------
(* CIOCP: the lists.                                                       *)

(* Mutation of HalfWait: off by one. *)
LessThanHalf(queued, waiting) == waiting + 1 < (waiting + queued) \div 2

HalfWait(queued, waiting) == waiting < (waiting + queued) \div 2

(* The condition of the loop that takes objects from the front of the free *)
(* queue and has them wait for a client, in Listen and in what follows it.  *)
Goes(listens, queued, waiting) ==
  queued > 0 /\ IF listens THEN queued >= Cardinality(Clients) \div 2
                           ELSE HalfWait(queued, waiting)

(* The loop over q makes k rounds, ok[i] being the result of the i-th. *)
Rounds(q, w, k, ok, listens) ==
  \A i \in 0..k :
    i < k <=> Goes(listens, Len(q) - i, Cardinality(w) + Cardinality({j \in 1..i : ok[j]}))

(* What the loop leaves: cf is the objects before it, u the ones in use;   *)
(* after Listen, new objects then replace the deleted ones.                *)
Armed(cf, q, w, u, listens) ==
  \E k \in 0..Len(q) : \E ok \in [1..k -> Unless("acceptPost")] :
    LET armed == {q[i] : i \in {j \in 1..k : ok[j]}}
        gone  == {q[i] : i \in {j \in 1..k : ~ok[j]}}
        rest  == SubSeq(q, k + 1, Len(q))
        fresh == IF listens THEN {} ELSE Clients \ (ToSet(rest) \cup w \cup armed \cup u)
    IN  /\ Rounds(q, w, k, ok, listens)
        /\ acceptQueue' = rest \o SetToSeq(fresh)
        /\ acceptWait' = w \cup armed
        /\ acceptInUse' = u
        /\ conn' = [c \in Conns |-> CASE c \in armed -> WaitForAccepted(cf[c])
                                      [] c \in gone  -> Deleted(cf[c])
                                      [] OTHER       -> cf[c]]
        /\ told' = [c \in Conns |-> IF c \in armed \cup gone THEN {} ELSE told[c]]

(* CIOCP::Listen with the objects created for it. *)
Listen ==
  /\ Running
  /\ ~listening
  /\ Clients # {}
  /\ listening' = TRUE
  /\ Armed(conn, SetToSeq(Clients), {}, {}, TRUE)
  /\ UNCHANGED <<packets, disp, connects, connectInUse, net>>

(* Mutation of OnIOCPDisConnect: the object is not put back. *)
KeptInUse(cf, c) == conn' = cf /\ UNCHANGED <<lists, told>>

(* The lists are within m_max_clientcnt, m_max_connectcnt.  Armed only takes *)
(* objects away in its loop and then fills up to the limit, so what the    *)
(* code asserts behind it is checked, more strictly, before it.            *)
ClientsFit(q, w, u) == Len(q) + Cardinality(w) + Cardinality(u) <= Cardinality(Clients)

OutsFit(q, u) == Len(q) + Cardinality(u) <= Cardinality(Outs)

(* CIOCP::OnIOCPDisConnect for object c, the objects being cf. *)
OnIOCPDisConnect(cf, c) ==
  LET quiet == Check(cf[c], cf[c].iocpref = 0, "nIORef==0")
  IN  IF Accepted(c)
        THEN LET used == Check(quiet, c \in acceptInUse, "m_acceptInUse has socket")
                 once == Check(used, c \notin ToSet(acceptQueue), "socket is not in the free queue")
                 q    == Append(acceptQueue, c)
                 u    == acceptInUse \ {c}
                 done == Check(once, ClientsFit(q, acceptWait, u), "no more than m_max_clientcnt")
             IN  /\ Armed([cf EXCEPT ![c] = done], q, acceptWait, u, FALSE)
                 /\ UNCHANGED <<connects, connectInUse>>
        ELSE LET used == Check(quiet, c \in connectInUse, "m_ConnectInUse has socket")
                 once == Check(used, c \notin ToSet(connects), "socket is not in the free queue")
                 done == Check(once, OutsFit(Append(connects, c), connectInUse \ {c}),
                               "no more than m_max_connectcnt")
             IN  /\ conn' = [cf EXCEPT ![c] = done]
                 /\ connects' = Append(connects, c)
                 /\ connectInUse' = connectInUse \ {c}
                 /\ UNCHANGED <<acceptQueue, acceptWait, acceptInUse, told>>

(* CIOCP::Connect: create the missing objects, use the first one. *)
ConnectTo ==
  LET fresh == Outs \ (ToSet(connects) \cup connectInUse)
      q     == connects \o SetToSeq(fresh)
      c     == Head(q)
      r     == SetCallback(Check(conn[c], conn[c].iocpref = 0, "m_iocpref==0"), FALSE, TRUE)
  IN  /\ Running
      /\ q # <<>>
      /\ connects' = Tail(q)
      /\ \/ /\ conn' = [conn EXCEPT ![c] = Check(ConnectOut(r), c \notin connectInUse,
                                                 "m_ConnectInUse lacks socket")]
            /\ connectInUse' = connectInUse \cup {c}
            /\ told' = [told EXCEPT ![c] = {"Connect"}]
         \/ /\ conn' = [conn EXCEPT ![c] = Deleted(r)]
            /\ told' = [told EXCEPT ![c] = {}]
            /\ UNCHANGED connectInUse
      /\ UNCHANGED <<packets, disp, listening, acceptQueue, acceptWait, acceptInUse, net>>

-----------------------------------------------------------------------------
(* The users of the library.                                               *)

(* SetCallback, which calls OnConnect for an accepted connection.  Connect *)
(* has set the callback of an outgoing one.                                *)
UserSetCallback(c) ==
  /\ Running
  /\ Held(c)
  /\ conn[c].callback => "setTwice" \in Allow
  /\ \E posts \in Unless("firstRecv") : Commit(c, SetCallback(conn[c], Accepted(c), posts))
  /\ told' = [told EXCEPT ![c] = @ \cup
                IF ~Accepted(c) \/ conn[c].status # "CONNECTING"
                  THEN {}
                  ELSE {"OnConnect"} \cup (IF conn[c].buffered = 0 THEN {} ELSE {"OnMsg"})]
  /\ UNCHANGED <<disp, listening, lists, net>>

UserSend(c) ==
  /\ Running
  /\ Held(c) /\ conn[c].status \in {"COMMON", "CONNECTING"}
  /\ \E n \in 1..(MaxSend - conn[c].sendpackets), posts \in SendPosts(c) :
       Commit(c, Send(conn[c], n, posts))
  /\ UNCHANGED <<disp, listening, lists, net, told>>

UserClose(c) ==
  /\ Running
  /\ Held(c) /\ conn[c].status # "INVALID"
  /\ conn[c].status = "CONNECTOUT" => "closeEarly" \in Allow
  /\ \E posts \in SendPosts(c) : Commit(c, Close(conn[c], posts))
  /\ told' = [told EXCEPT ![c] = @ \cup {IF conn[c].sending THEN "CloseSending" ELSE "Close"}]
  /\ UNCHANGED <<disp, listening, lists, net>>

-----------------------------------------------------------------------------
(* The network and the completion port.                                    *)

PeerClose(c) ==
  /\ Running
  /\ net[c] = "open"
  /\ net' = [net EXCEPT ![c] = "closed"]
  /\ UNCHANGED <<conn, packets, disp, listening, lists, told>>

DataWaiting(c) ==
  conn[c].buffered
    + Cardinality({i \in DOMAIN packets : packets[i].conn = c /\ packets[i].type = "DATA"})

ErrIf(possible) == IF possible THEN {"err"} ELSE {}

(* The results an operation in the kernel may complete with. *)
KernelResults(c, op) ==
  ErrIf(conn[c].io[op] = "cancelled") \cup
    CASE op = "ACCEPT"     -> {"ok"} \cup ErrIf("acceptErr" \in Allow)
      [] op = "CONNECT"    -> {"ok", "err"}
      [] op = "DISCONNECT" -> {"ok"} \cup ErrIf("disconnectErr" \in Allow)
      [] op = "SEND"       -> {"ok"} \cup ErrIf(net[c] # "open")
      [] op = "RECV"       -> IF net[c] # "open" THEN {"eof", "err"}
                              ELSE IF DataWaiting(c) < MaxData THEN {"ok"} ELSE {}

(* CIOCP::IOCP_IO on a completion port thread: the operation op of object *)
(* c has completed in the kernel with this result.  The handler runs under *)
(* the lock of the object; what the thread does before it locks touches    *)
(* m_nIo... only, so taking the completion and handling it are one step.   *)
Completes(c, op, result) ==
  /\ Running
  /\ conn[c].io[op] \in InKernel
  /\ result \in KernelResults(c, op)
  /\ UNCHANGED <<disp, listening, lists, told>>

IocpRecv(c) ==
  /\ Completes(c, "RECV", "ok")
  /\ \E posts \in BOOLEAN : Commit(c, OnSocketIOCPRecv(conn[c], posts))
  /\ UNCHANGED net

IocpSend(c) ==
  /\ Completes(c, "SEND", "ok")
  /\ \E sent \in IF conn[c].packettype = "DATA" THEN 1..conn[c].sendused ELSE {0},
        posts \in SendPosts(c) :
       Commit(c, OnSocketIOCPSend(conn[c], sent, posts))
  /\ UNCHANGED net

IocpConnect(c) ==
  /\ Completes(c, "CONNECT", "ok")
  /\ net' = [net EXCEPT ![c] = "open"]
  /\ Commit(c, OnSocketIOCPConnect(conn[c]))

(* A socket bound in an earlier session cannot be bound again. *)
IocpAccept(c) ==
  /\ Completes(c, "ACCEPT", "ok")
  /\ net' = [net EXCEPT ![c] = "open"]
  /\ \E binds \in IF conn[c].bound THEN {FALSE} ELSE Unless("bind"),
        allowed \in Unless("forbidIP"), posts \in Unless("firstRecv") :
       Commit(c, OnSocketIOCPAccept(conn[c], binds, allowed, posts))

IocpDisconnect(c) ==
  /\ Completes(c, "DISCONNECT", "ok")
  /\ Commit(c, OnSocketIODisConnect(conn[c]))
  /\ UNCHANGED net

(* Any operation that fails, and a receive of no bytes. *)
IocpClose(c, op) ==
  /\ \E result \in {"eof", "err"} :
       /\ Completes(c, op, result)
       /\ Commit(c, OnSocketIOCPClose(conn[c], op, result = "err"))
  /\ UNCHANGED net

-----------------------------------------------------------------------------
(* The dispatcher thread: DispatchPacket, OnPacket.                        *)

NextPacket(types) ==
  /\ Running
  /\ disp = Idle
  /\ packets # <<>>
  /\ Head(packets).type \in types

(* The head of the queue is popped, then a method of its object runs. *)
CommitPopped(c, r) ==
  /\ conn' = [conn EXCEPT ![c] = [r EXCEPT !.out = <<>>]]
  /\ packets' = Tail(packets) \o [i \in 1..Len(r.out) |->
                                    [type |-> r.out[i], conn |-> c]]

DispatchData ==
  /\ NextPacket({"DATA"})
  /\ LET c == Head(packets).conn
     IN  /\ CommitPopped(c, OnMsg(conn[c]))
         /\ told' = [told EXCEPT ![c] = @ \cup (IF HearsData(conn[c]) THEN {"OnMsg"} ELSE {})]
  /\ UNCHANGED <<disp, listening, lists, net>>

(* IConnectPoolCallback::OnAccept; CIOCP::OnIOCPAccept is the next step. *)
DispatchAccept ==
  /\ NextPacket({"ACCEPT"})
  /\ LET c == Head(packets).conn
     IN  /\ disp' = [at |-> "OnIOCPAccept", conn |-> c]
         /\ told' = [told EXCEPT ![c] = @ \cup {"OnAccept"}]
  /\ packets' = Tail(packets)
  /\ UNCHANGED <<conn, listening, lists, net>>

(* Mutation of OnIOCPAccept: the object is not taken out of m_acceptWait. *)
AcceptStillWaits ==
  /\ Running
  /\ disp.at = "OnIOCPAccept"
  /\ disp' = Idle
  /\ Armed(conn, acceptQueue, acceptWait, acceptInUse \cup {disp.conn}, FALSE)
  /\ UNCHANGED <<packets, listening, connects, connectInUse, net>>

OnIOCPAccept ==
  /\ Running
  /\ disp.at = "OnIOCPAccept"
  /\ disp' = Idle
  /\ LET c == disp.conn
         w == acceptWait \ {c}
         u == acceptInUse \cup {c}
         r == Check(conn[c], c \in acceptWait, "m_acceptWait has socket")
         s == Check(r, c \notin acceptInUse, "m_acceptInUse lacks socket")
         t == Check(s, ClientsFit(acceptQueue, w, u), "no more than m_max_clientcnt")
     IN  Armed([conn EXCEPT ![c] = t], acceptQueue, w, u, FALSE)
  /\ UNCHANGED <<packets, listening, connects, connectInUse, net>>

DispatchConnect ==
  /\ NextPacket({"CONNECT"})
  /\ LET c == Head(packets).conn
     IN  /\ \E posts \in Unless("firstRecv") : CommitPopped(c, OnConnect(conn[c], posts))
         /\ told' = [told EXCEPT ![c] = @ \cup
                       (IF conn[c].status = "CONNECTING" THEN {"OnConnect"} ELSE {})]
  /\ UNCHANGED <<disp, listening, lists, net>>

(* CConnect::OnClose and IConnectPoolCallback::OnClose; IOCPClose is next. *)
DispatchClose ==
  /\ NextPacket(ClosePackets)
  /\ LET c == Head(packets).conn
     IN  /\ disp' = [at |-> "IOCPClose", conn |-> c]
         /\ told' = [told EXCEPT ![c] =
                       (@ \cap CloseWords) \cup {PoolClose(@)}
                         \cup (IF HearsClose(conn[c]) THEN {OwnClose(@)} ELSE {})]
  /\ packets' = Tail(packets)
  /\ UNCHANGED <<conn, listening, lists, net>>

(* CIOCP::IOCPClose *)
IOCPClose ==
  /\ Running
  /\ disp.at = "IOCPClose"
  /\ disp' = Idle
  /\ LET c == disp.conn
     IN  /\ IF Accepted(c)
              THEN \E posts \in (IF net[c] = "none" THEN {FALSE} ELSE BOOLEAN) :
                     LET r == ReuseClose(conn[c], posts)
                     IN  IF posts
                           THEN /\ conn' = [conn EXCEPT ![c] = r]
                                /\ UNCHANGED <<lists, told>>
                           ELSE OnIOCPDisConnect([conn EXCEPT ![c] = TrueClose(r)], c)
              ELSE OnIOCPDisConnect([conn EXCEPT ![c] = TrueClose(@)], c)
         /\ net' = [net EXCEPT ![c] = "none"]
  /\ UNCHANGED <<packets, listening>>

DispatchReuse ==
  /\ NextPacket({"SOCKET_REUSE"})
  /\ packets' = Tail(packets)
  /\ OnIOCPDisConnect(conn, Head(packets).conn)
  /\ UNCHANGED <<disp, listening, net>>

Dispatcher ==
  \/ DispatchData
  \/ DispatchAccept
  \/ OnIOCPAccept
  \/ DispatchConnect
  \/ DispatchClose
  \/ IOCPClose
  \/ DispatchReuse

-----------------------------------------------------------------------------

Init ==
  /\ conn = [c \in Conns |-> NewConnect]
  /\ packets = <<>>
  /\ disp = Idle
  /\ listening = FALSE
  /\ acceptQueue = <<>> /\ acceptWait = {} /\ acceptInUse = {}
  /\ connects = <<>> /\ connectInUse = {}
  /\ net = [c \in Conns |-> "none"]
  /\ told = [c \in Conns |-> {}]

User ==
  \/ ConnectTo
  \/ \E c \in Conns : UserSetCallback(c) \/ UserSend(c) \/ UserClose(c)

Completion ==
  \E c \in Conns :
    \/ IocpRecv(c)
    \/ IocpSend(c)
    \/ IocpConnect(c)
    \/ IocpAccept(c)
    \/ IocpDisconnect(c)
    \/ \E op \in Ops : IocpClose(c, op)

Next ==
  \/ Listen
  \/ User
  \/ \E c \in Conns : PeerClose(c)
  \/ Completion
  \/ Dispatcher

Spec == Init /\ [][Next]_vars

(* The threads run, and the kernel completes what it must: every operation *)
(* but an AcceptEx no client comes for and a receive on a silent peer.     *)
Fairness ==
  /\ WF_vars(Dispatcher)
  /\ \A c \in Conns :
       /\ WF_vars(IocpSend(c))
       /\ WF_vars(IocpConnect(c) \/ IocpClose(c, "CONNECT"))
       /\ WF_vars(IocpDisconnect(c) \/ IocpClose(c, "DISCONNECT"))
       /\ WF_vars(IocpClose(c, "RECV"))

FairSpec == Spec /\ Fairness

-----------------------------------------------------------------------------
(* Safety.                                                                 *)

(* Every variable holds what its declaration in the code allows. *)
TypeOK ==
  /\ conn \in [Conns -> ConnectRecord]
  /\ packets \in Seq([type : PacketTypes, conn : Conns])
  /\ disp \in [at : {"idle", "OnIOCPAccept", "IOCPClose"}, conn : Conns \cup {NoConn}]
  /\ listening \in BOOLEAN
  /\ acceptQueue \in Seq(Clients) /\ acceptWait \subseteq Clients /\ acceptInUse \subseteq Clients
  /\ connects \in Seq(Outs) /\ connectInUse \subseteq Outs
  /\ net \in [Conns -> {"none", "open", "closed"}]
  /\ told \in [Conns -> SUBSET ({"OnAccept", "Connect", "OnConnect", "OnMsg", "Close",
                                 "CloseSending"} \cup CloseWords)]

(* None of the Assertions of Connect.cpp and IOCP.cpp fails, and, as the   *)
(* last line of IOCP_IO asserts, no object is owed more than three of its  *)
(* operations at a time.                                                   *)
AssertionsHold == Running /\ \A c \in Conns : conn[c].iocpref \in 0..3

(* m_iocpref is the number of overlapped operations the kernel still owes  *)
(* the object: at 0 nothing can call back into it any more.                *)
IocprefCounts ==
  \A c \in Conns : conn[c].failed = {} => conn[c].iocpref = Outstanding(conn[c])

(* An object never has two sends or two receives in the kernel at a time,  *)
(* which would share one overlapped structure and one buffer: m_sending    *)
(* and m_recving see to it, whatever the user and the peer do.  The two    *)
(* assertions that say so never fail before another one has.               *)
OneSendOneReceive ==
  \A c \in Conns : conn[c].failed \subseteq {OneAtATime["SEND"], OneAtATime["RECV"]}
                     => conn[c].failed = {}

(* No packet outlives the session it was made in: when an object starts a  *)
(* session, no packet of the last one is queued, which the dispatcher      *)
(* would deliver to the wrong user.                                        *)
NoStalePacket ==
  [][\A c \in (acceptWait' \ acceptWait) \cup (connectInUse' \ connectInUse) :
       \A i \in DOMAIN packets' : packets'[i].conn # c]_vars

(* A close packet is the last word of a session: when it is queued, and    *)
(* until the pool takes the object back, nothing is outstanding on the     *)
(* object, nobody can start anything on it, and no packet follows.         *)
CloseIsLast ==
  LET Done(c) == conn[c].iocpref = 0 /\ conn[c].status = "INVALID"
  IN  /\ \A i \in DOMAIN packets : packets[i].type \in ClosePackets =>
           /\ Done(packets[i].conn)
           /\ \A j \in DOMAIN packets : j > i => packets[j].conn # packets[i].conn
      /\ disp.at = "IOCPClose" =>
           /\ Done(disp.conn)
           /\ \A i \in DOMAIN packets : packets[i].conn # disp.conn

(* Nothing the user sent is stranded: while the connection is usable, data *)
(* that waits has a send in flight whose completion will continue it.      *)
NothingStranded ==
  \A c \in Conns :
    /\ conn[c].status \in {"COMMON", "CONNECTING"}
    /\ conn[c].sendpackets + conn[c].sendused > 0
    => conn[c].io["SEND"] # "idle"

(* A connection in use always has a receive posted: it is the receive that *)
(* tells the library that the peer has gone.                               *)
ReceiveArmed ==
  \A c \in Conns : conn[c].status = "COMMON" => conn[c].io["RECV"] # "idle"

(* An object in a free list carries nothing over from its last session. *)
FreeIsClean ==
  \A c \in ToSet(acceptQueue) \cup ToSet(connects) :
    /\ conn[c] = [NewConnect EXCEPT !.socket = conn[c].socket, !.bound = conn[c].bound,
                                    !.packettype = conn[c].packettype]
    /\ \A i \in DOMAIN packets : packets[i].conn # c

(* CIOCP has each object in at most one list, and an object waits for a    *)
(* client exactly while its AcceptEx is posted or the dispatcher has not   *)
(* yet moved it on.                                                        *)
ListsAgree ==
  /\ \A c \in Conns :
       Cardinality({i \in DOMAIN acceptQueue : acceptQueue[i] = c})
         + Cardinality({i \in DOMAIN connects : connects[i] = c})
         + Cardinality({l \in {1, 2, 3} : c \in <<acceptWait, acceptInUse, connectInUse>>[l]}) <= 1
  /\ \A c \in Clients :
       c \in acceptWait <=>
         \/ conn[c].io["ACCEPT"] # "idle"
         \/ \E i \in DOMAIN packets : packets[i].type = "ACCEPT" /\ packets[i].conn = c
         \/ disp = [at |-> "OnIOCPAccept", conn |-> c]

(* While clients come and go the loop keeps arming: at most one object     *)
(* more lies in the queue than waits for a client, so that as soon as two  *)
(* are free one of them waits.  It promises no more than that: HalfWait is *)
(* false of one queued object and none waiting, and a single free object   *)
(* may lie in the queue for good.                                          *)
AcceptBacklog == Len(acceptQueue) <= Cardinality(acceptWait) + 1

(* A closed connection becomes usable again only because the kernel reports *)
(* a client for it, or because Connect starts a new session with it: no     *)
(* late call of a user or of the dispatcher revives it.                     *)
ClosedStaysClosed ==
  [][\A c \in Conns :
       conn[c].status = "INVALID" /\ conn'[c].status # "INVALID" =>
         \/ conn[c].io["ACCEPT"] = "posted" /\ conn'[c].io["ACCEPT"] = "idle"
         \/ c \in connectInUse' \ connectInUse]_vars

(* The users' view of the sessions is that of Session.tla. *)
UserPhase(c) ==
  CASE "OnConnect" \in told[c] -> "open"
    [] ~("OnConnect" \in told[c]) /\ Held(c) -> "offered"
    [] ~("OnConnect" \in told[c]) /\ ~Held(c) /\ "PoolOnClose" \in told[c] -> "ended"
    [] OTHER -> "idle"

UserView == INSTANCE Session WITH
  phase <- [c \in Conns |-> UserPhase(c)],
  heard <- [c \in Conns |-> "OnMsg" \in told[c]],
  closes <- [c \in Conns |-> told[c] \cap CloseWords]

SessionSpec == UserView!Spec

-----------------------------------------------------------------------------
(* Liveness, under Fairness.                                               *)

Ended(c) == "PoolOnClose" \in told[c]

(* A peer that goes away is noticed and the user hears of it. *)
PeerCloseIsReported == \A c \in Conns : net[c] = "closed" ~> Ended(c)

(* A Close with nothing being sent is answered by OnClose, whatever the peer does. *)
IdleCloseIsAnswered == \A c \in Conns : "Close" \in told[c] ~> Ended(c)

(* An object whose session has ended comes back to a list a new session is taken from. *)
ObjectsComeBack ==
  \A c \in Conns : Ended(c) ~> c \in ToSet(acceptQueue) \cup acceptWait \cup ToSet(connects)

-----------------------------------------------------------------------------
(* What comments and assertions of the code say and the code does not do.  *)

(* SocketInterFace.h:82: after Close, IConnectCallback::OnClose is called. *)
CloseIsAnswered ==
  \A c \in Conns : told[c] \cap {"Close", "CloseSending"} # {} ~> Ended(c)

(* IOCP.cpp:254: an object that is closed was in use. *)
ClosedWasInUse == \A c \in Conns : "m_acceptInUse has socket" \notin conn[c].failed

(* IOCP.cpp:241: nothing is outstanding on an object that goes back to its list. *)
ReturnedIsQuiet == \A c \in Conns : "nIORef==0" \notin conn[c].failed
=============================================================================
