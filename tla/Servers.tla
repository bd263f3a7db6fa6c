------------------------------ MODULE Servers ------------------------------
(***************************************************************************)
(* The programs under src/Server as users of the library: CServer with its *)
(* map m_Clients and a socket object for every connection.  A program runs *)
(* in two threads, main, which constructs the server, and the dispatcher,  *)
(* which starts in the middle of that and makes all callbacks.             *)
(*                                                                         *)
(* A socket object is known by its address.  The address of a deleted one  *)
(* is not used again while anything refers to it, so that a use after the  *)
(* deletion shows.  GateServer is TestEcho to the letter.                  *)
(***************************************************************************)
EXTENDS Visit, Naturals, FiniteSets, Functions

CONSTANTS
  Conns,      \* the IConnect objects
  NoConn,     \* none of them
  Sockets,    \* addresses of socket objects
  Programs,   \* the programs of this instance
  Request     \* units of data in the policy request of Flash

ASSUME ServersAssumption ==
  /\ IsFiniteSet(Conns) /\ IsFiniteSet(Sockets)
  /\ Cardinality(Sockets) >= 2 * Cardinality(Conns)
  /\ NoConn \notin Conns /\ NoSocket \notin Sockets
  /\ Programs \subseteq {"FlashPolicy", "TestEcho", "RZRQServer", "TestEchoClient"}
  /\ Request \in Nat \ {0}

VARIABLES
  program,
  main,            \* how far the constructor of CServer has got
  m_bInitDBInfo,   \* of the RZRQ server
  link,            \* the connections
  m_Clients,       \* connection -> socket; m_LoginSockets of the RZRQ server
  socket,          \* the socket objects that exist
  todo,            \* the sockets the loop of OnTimer has still to look at
  visit,           \* what the peer of a connection has sent
  broken           \* history: a deleted socket was used

server == <<link, m_Clients, socket, visit, broken>>
vars == <<program, main, m_bInitDBInfo, todo, server>>

m_bIsInitOK == main = "done"

SocketStates == {"NONE", "CONNECTING", "CONNECTED", "CLOSING", "CLOSED"}

NewSocket(c) == [m_pConnect |-> c, m_SocketState |-> "NONE", m_ConnectTime |-> "zero"]

(* No data is left over, and the peer has sent none.                       *)
NewVisit(asks) == [asks |-> asks, given |-> 0, logic |-> 0, answered |-> FALSE]

-----------------------------------------------------------------------------
(* A handler goes from one value of Here to another; a call it makes is an *)
(* operator on such a value.                                               *)

Here == [link |-> link, m_Clients |-> m_Clients, socket |-> socket, visit |-> visit,
         broken |-> broken]

Becomes(v) ==
  /\ link' = v.link /\ m_Clients' = v.m_Clients /\ socket' = v.socket
  /\ visit' = v.visit /\ broken' = v.broken

(* Socket s is used, with the result w if it exists. *)
Using(v, s, w) == IF s \in DOMAIN v.socket THEN w ELSE [v EXCEPT !.broken = TRUE]

(* The map f with y for x. *)
With(f, x, y) == [z \in DOMAIN f \cup {x} |-> IF z = x THEN y ELSE f[z]]

Unreferenced(v) ==
  Sockets \ (DOMAIN v.socket \cup Range(v.m_Clients) \cup {v.link[c].callback : c \in Conns})

New(v, s, c) == [v EXCEPT !.socket = With(@, s, NewSocket(c))]
SafeDelete(v, s) == Using(v, s, [v EXCEPT !.socket = Restrict(@, DOMAIN @ \ {s})])

(* IConnect::Close *)
CloseConnect(v, c) == [v EXCEPT !.link[c] = Closed(@)]

(* CServerSocket::Close, CClientSocket::Close *)
SocketClose(v, s) ==
  Using(v, s, IF v.socket[s].m_pConnect = NoConn
                THEN v
                ELSE CloseConnect([v EXCEPT !.socket[s].m_SocketState = "CLOSING"],
                                  v.socket[s].m_pConnect))

(* OnConnect of a socket.  GameServerSocket's is not reached: SetCallback  *)
(* is called in the constructor of its base, whose OnConnect does nothing. *)
BaseOnConnect(v, s) == v

CountsFromNow(v, s) ==
  Using(v, s, [v EXCEPT !.socket[s].m_SocketState = "CONNECTED",
                        !.socket[s].m_ConnectTime = "now"])

SocketOnConnect(v, s) ==
  IF program = "RZRQServer" THEN BaseOnConnect(v, s) ELSE CountsFromNow(v, s)

(* IConnect::SetCallback, on an accepted connection. *)
SetCallback(v, c, s) ==
  LET w == [v EXCEPT !.link[c] = WithCallback(@, s)]
  IN  IF w.link[c].phase = "open" THEN SocketOnConnect(w, s) ELSE w

-----------------------------------------------------------------------------
(* The callbacks of CServer.                                               *)

(* map::insert leaves an entry that is there. *)
Insert(v, c, s) ==
  IF c \in DOMAIN v.m_Clients THEN v ELSE [v EXCEPT !.m_Clients = With(@, c, s)]

(* The constructor of FlashPolicy's CServerSocket sets the callback first  *)
(* and then clears what OnConnect has set.                                 *)
FlashSocket(v, c, s) ==
  [SetCallback(New(v, s, c), c, s) EXCEPT !.socket[s] = NewSocket(c)]

FlashAccept(v, c, s) == Insert(FlashSocket(v, c, s), c, s)
EchoAccept(v, c, s) == Insert(SetCallback(New(v, s, c), c, s), c, s)
GameAccept(v, c, s) == Insert(SetCallback(New(v, s, c), c, s), c, s)

AcceptsNow == IF program = "RZRQServer" THEN m_bInitDBInfo ELSE m_bIsInitOK

(* Mutation of TurnAway: the connection is left alone. *)
IgnoreVisitor(v, c) == v

TurnAway(v, c) == CloseConnect(v, c)

OnAccept(v, c, s) ==
  IF ~AcceptsNow THEN TurnAway(v, c)
  ELSE CASE program = "FlashPolicy" -> FlashAccept(v, c, s)
         [] program = "TestEcho"    -> EchoAccept(v, c, s)
         [] program = "RZRQServer"  -> GameAccept(v, c, s)

(* Mutation of DealCloseSocket: the entry is not erased. *)
DeletesOnly(v, c) == IF c \in DOMAIN v.m_Clients THEN SafeDelete(v, v.m_Clients[c]) ELSE v

DealCloseSocket(v, c) ==
  IF c \in DOMAIN v.m_Clients
    THEN [SafeDelete(v, v.m_Clients[c]) EXCEPT !.m_Clients = Restrict(@, DOMAIN @ \ {c})]
    ELSE v

(* CServerSocket::OnClose of FlashPolicy, which deletes the socket it is   *)
(* called on, and GameServerSocket::OnClose, which does the same.          *)
FlashOnClose(v, s) == Using(v, s, DealCloseSocket(v, v.socket[s].m_pConnect))
GameOnClose(v, s) == Using(v, s, DealCloseSocket(v, v.socket[s].m_pConnect))

EchoOnClose(v, s) == Using(v, s, [v EXCEPT !.socket[s].m_SocketState = "CLOSED"])

ClientOnClose(v, s) ==
  Using(v, s, [v EXCEPT !.socket[s].m_SocketState = "CLOSED", !.socket[s].m_ConnectTime = "zero"])

SocketOnClose(v, s) ==
  CASE program = "FlashPolicy"    -> FlashOnClose(v, s)
    [] program = "RZRQServer"     -> GameOnClose(v, s)
    [] program = "TestEcho"       -> EchoOnClose(v, s)
    [] program = "TestEchoClient" -> ClientOnClose(v, s)

(* CServer::OnClose; TestEchoClient's does nothing. *)
PoolOnClose(v, c) == IF program = "TestEchoClient" THEN v ELSE DealCloseSocket(v, c)

(* Mutation of PolicyTaken: data shorter than the request is dropped. *)
PolicyAtOnce(len) == len

(* Mutation of PolicyTaken: what is longer than the request stays. *)
PolicyKeepsLong(len) == IF len = Request THEN len ELSE 0

(* What FlashPolicy's OnMsg takes of len units: nothing before the request *)
(* can be complete, and all of what is longer.                             *)
PolicyTaken(len) == IF len < Request THEN 0 ELSE len

(* Data has come for socket s.  FlashPolicy answers a request, if it comes *)
(* alone.                                                                  *)
FlashOnMsg(v, c, s) ==
  LET len   == v.visit[c].logic
      exact == v.visit[c].asks /\ len = Request /\ v.visit[c].given = Request
  IN  Using(v, s, [v EXCEPT !.visit[c].logic = len - PolicyTaken(len),
                            !.visit[c].answered = @ \/ (exact /\ v.link[c].usable)])

(* TestEcho and TestEchoClient take it all and send it back. *)
EchoOnMsg(v, c, s) == Using(v, s, [v EXCEPT !.visit[c].logic = 0])

(* See GameServer for what the RZRQ server does; here it takes it all. *)
SocketOnMsg(v, c, s) ==
  IF program = "FlashPolicy" THEN FlashOnMsg(v, c, s) ELSE EchoOnMsg(v, c, s)

-----------------------------------------------------------------------------
(* Main: the constructor of CServer.                                       *)

Init ==
  /\ program \in Programs
  /\ main = "begun"
  /\ m_bInitDBInfo = FALSE
  /\ link = [c \in Conns |-> NewLink]
  /\ m_Clients = <<>>
  /\ socket = <<>>
  /\ todo = {}
  /\ visit = [c \in Conns |-> NewVisit(FALSE)]
  /\ broken = FALSE

(* CConnectPool::Start: the dispatcher runs and clients may come. *)
StartPool ==
  /\ main = "begun"
  /\ main' = "started"
  /\ UNCHANGED <<program, m_bInitDBInfo, todo, server>>

(* The rest, with TestEchoClient's sockets, one for each connection. *)
FinishInit ==
  /\ main = "started"
  /\ main' = "done"
  /\ \E made \in SUBSET Sockets :
       /\ Cardinality(made) = IF program = "TestEchoClient" THEN Cardinality(Conns) ELSE 0
       /\ socket' = [s \in made |-> NewSocket(NoConn)]
  /\ socket = <<>>
  /\ UNCHANGED <<program, m_bInitDBInfo, link, m_Clients, todo, visit, broken>>

-----------------------------------------------------------------------------
(* The clients and servers at the other end.                               *)

Arrive(c) ==
  /\ main # "begun" /\ program # "TestEchoClient"
  /\ link[c].phase = "free"
  /\ link' = [link EXCEPT ![c] = Arrived(@)]
  /\ \E asks \in BOOLEAN : visit' = [visit EXCEPT ![c] = NewVisit(asks)]
  /\ UNCHANGED <<program, main, m_bInitDBInfo, m_Clients, socket, todo, broken>>

PeerLeaves(c) ==
  /\ link[c].usable
  /\ link' = [link EXCEPT ![c] = Left(@)]
  /\ UNCHANGED <<program, main, m_bInitDBInfo, m_Clients, socket, todo, visit, broken>>

-----------------------------------------------------------------------------
(* The dispatcher thread.                                                  *)

Dispatches == main # "begun" /\ todo = {}

DispatchAccept(c) ==
  /\ Dispatches
  /\ link[c].phase = "arrived"
  /\ LET s == CHOOSE s \in Unreferenced(Here) : TRUE
     IN  Becomes(OnAccept([Here EXCEPT !.link[c].phase = "offered"], c, s))
  /\ UNCHANGED <<program, main, m_bInitDBInfo, todo>>

(* ConnectEx has succeeded. *)
DispatchConnect(c) ==
  /\ Dispatches
  /\ program = "TestEchoClient" /\ link[c].phase = "offered" /\ link[c].usable
  /\ Becomes(SocketOnConnect([Here EXCEPT !.link[c] = Opened(@)], link[c].callback))
  /\ UNCHANGED <<program, main, m_bInitDBInfo, todo>>

(* CConnect::OnMsg puts n units behind the data that is left over. *)
Received(y, n) == [y EXCEPT !.given = @ + n, !.logic = @ + n]

(* A packet of n units; a connection without a callback drops it. *)
DispatchData(c) ==
  /\ Dispatches
  /\ link[c].phase = "open" \/ (link[c].phase = "offered" /\ program # "TestEchoClient")
  /\ link[c].callback # NoSocket
  /\ \E n \in 1..(Request + 1 - visit[c].given) :
       Becomes(SocketOnMsg([Here EXCEPT !.visit[c] = Received(@, n)], c, link[c].callback))
  /\ UNCHANGED <<program, main, m_bInitDBInfo, todo>>

(* OnClose of the callback, OnClose of the pool's callback, IOCPClose. *)
DispatchClose(c) ==
  /\ Dispatches
  /\ Held(link[c]) /\ link[c].closing # "no"
  /\ LET s == link[c].callback
         v == IF s = NoSocket THEN Here ELSE SocketOnClose(Here, s)
     IN  Becomes([PoolOnClose(v, c) EXCEPT !.link[c] = NewLink, !.visit[c] = NewVisit(FALSE)])
  /\ UNCHANGED <<program, main, m_bInitDBInfo, todo>>

(* The RZRQ server is ready for clients with its first OnTimer: what it    *)
(* would read from the database before is commented out.                   *)
InitDBInfo == m_bInitDBInfo' = (m_bInitDBInfo \/ (program = "RZRQServer" /\ m_bIsInitOK))

(* OnTimer, up to its loop over the sockets; TestEcho's loop does nothing. *)
Timer ==
  /\ Dispatches
  /\ todo' = CASE program = "FlashPolicy"                   -> Range(m_Clients)
               [] program = "TestEchoClient" /\ m_bIsInitOK -> DOMAIN socket
               [] OTHER                                     -> {}
  /\ InitDBInfo
  /\ UNCHANGED <<program, main, server>>

(* FlashPolicy closes a visit that is old; with m_ConnectTime zero it is.    *)
FlashCheck(s) ==
  Becomes(IF s \in DOMAIN socket /\ socket[s].m_ConnectTime # "zero"
            THEN Here ELSE SocketClose(Here, s))

(* CServer::Connect asks the pool, which has connection c for it or none. *)
Connect(c) == link[c].phase = "free"

ClientConnect(s) ==
  \/ \E c \in Conns :
       /\ Connect(c)
       /\ Becomes([Here EXCEPT !.link[c] = Dialled(@, s), !.socket[s].m_pConnect = c,
                               !.socket[s].m_SocketState = "CONNECTING"])
  \/ Becomes([Here EXCEPT !.socket[s].m_pConnect = NoConn, !.socket[s].m_ConnectTime = "zero",
                          !.socket[s].m_SocketState = "CLOSED"])

(* TestEchoClient connects a socket that is closed and closes a connected one. *)
ClientCheck(s) ==
  CASE socket[s].m_SocketState \in {"CLOSED", "NONE"} -> ClientConnect(s)
    [] socket[s].m_SocketState = "CONNECTED"          -> Becomes(SocketClose(Here, s))
    [] OTHER                                          -> Becomes(Here)

TimerLoop(s) ==
  /\ s \in todo
  /\ todo' = todo \ {s}
  /\ IF program = "FlashPolicy" THEN FlashCheck(s) ELSE ClientCheck(s)
  /\ UNCHANGED <<program, main, m_bInitDBInfo>>

Dispatcher ==
  \/ Timer
  \/ \E s \in Sockets : TimerLoop(s)
  \/ \E c \in Conns : DispatchAccept(c) \/ DispatchConnect(c) \/ DispatchData(c) \/ DispatchClose(c)

Next ==
  \/ StartPool \/ FinishInit
  \/ \E c \in Conns : Arrive(c) \/ PeerLeaves(c)
  \/ Dispatcher

(* The queue of the dispatcher is first in, first out, and OnTimer comes   *)
(* between packets: every packet has its turn, whatever else is queued.    *)
Fairness ==
  /\ WF_vars(StartPool) /\ WF_vars(FinishInit)
  /\ WF_vars(Timer)
  /\ \A s \in Sockets : WF_vars(TimerLoop(s))
  /\ \A c \in Conns : SF_vars(DispatchAccept(c)) /\ SF_vars(DispatchClose(c))

Spec == Init /\ [][Next]_vars /\ Fairness

-----------------------------------------------------------------------------
(* The type of the state; between packets less than a request is kept.     *)
TypeOK ==
  /\ program \in Programs
  /\ main \in {"begun", "started", "done"}
  /\ m_bInitDBInfo \in BOOLEAN /\ broken \in BOOLEAN
  /\ link \in [Conns -> LinkRecord(Sockets)]
  /\ DOMAIN m_Clients \subseteq Conns /\ Range(m_Clients) \subseteq Sockets
  /\ DOMAIN socket \subseteq Sockets /\ todo \subseteq Sockets
  /\ \A s \in DOMAIN socket :
       socket[s] \in [m_pConnect : Conns \cup {NoConn}, m_SocketState : SocketStates,
                      m_ConnectTime : {"zero", "now"}]
  /\ visit \in [Conns -> [asks : BOOLEAN, given : 0..(Request + 1), logic : 0..(Request - 1),
                          answered : BOOLEAN]]

(* No callback and no loop uses a socket that was deleted, although two    *)
(* handlers delete it; and every socket is reached from where it must be:  *)
(* the connection that calls it back, the entry in m_Clients and its own   *)
(* m_pConnect agree, and none is left over.                                *)
SocketsAgree ==
  /\ ~broken
  /\ program # "TestEchoClient" =>
       /\ DOMAIN m_Clients = {c \in Conns : link[c].callback # NoSocket}
       /\ DOMAIN socket = Range(m_Clients)
       /\ \A c \in DOMAIN m_Clients :
            link[c].callback = m_Clients[c] /\ socket[m_Clients[c]].m_pConnect = c
  /\ program = "TestEchoClient" =>
       \A s \in DOMAIN socket :
         socket[s].m_SocketState \in {"CONNECTING", "CONNECTED", "CLOSING"}
           <=> \E c \in Conns : link[c].callback = s /\ socket[s].m_pConnect = c

(* A client of FlashPolicy that has sent the request and nothing else, in  *)
(* whatever pieces it came, has been answered unless it was closed before. *)
PolicyAnswered ==
  program = "FlashPolicy" =>
    \A c \in Conns :
      link[c].usable /\ visit[c].asks /\ visit[c].given = Request => visit[c].answered

(* A client that comes before the server is ready is sent away; FlashPolicy *)
(* and TestEchoClient end every connection by their timer.                 *)
VisitsEnd ==
  \A c \in Conns :
    /\ Held(link[c]) /\ link[c].callback = NoSocket ~> ~Held(link[c])
    /\ Held(link[c]) /\ program = "FlashPolicy" ~> ~Held(link[c])
    /\ link[c].phase = "open" /\ program = "TestEchoClient" ~> ~Held(link[c])
=============================================================================
