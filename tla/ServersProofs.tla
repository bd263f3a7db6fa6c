--------------------------- MODULE ServersProofs ---------------------------
(***************************************************************************)
(* What holds of the servers for every number of connections and socket    *)
(* objects, and whatever the clients send and when they leave.             *)
(***************************************************************************)
EXTENDS Servers, FiniteSetTheorems, TLAPS

SocketRecord == [m_pConnect : Conns \cup {NoConn}, m_SocketState : SocketStates,
                 m_ConnectTime : {"zero", "now"}]
VisitRecord  == [asks : BOOLEAN, given : 0..(Request + 1), logic : 0..(Request - 1), answered : BOOLEAN]

(* Of p's connections only those in the program's hands have a callback;   *)
(* TestEchoClient's all have, and none of them was accepted.               *)
LinkOK(p, k) ==
  /\ k.callback # NoSocket => Held(k)
  /\ p = "TestEchoClient" => k.phase # "arrived" /\ (Held(k) => k.callback # NoSocket)

(* The three ways from a connection to its socket and back, in a server.   *)
Agree(L, M, S) ==
  /\ DOMAIN M = {c \in Conns : L[c].callback # NoSocket}
  /\ DOMAIN S = Range(M)
  /\ \A c \in DOMAIN M : L[c].callback = M[c] /\ S[M[c]].m_pConnect = c

InUse == {"CONNECTING", "CONNECTED", "CLOSING"}

(* The same in TestEchoClient, whose sockets outlive their connections: a  *)
(* callback is a socket in use that knows its connection.                  *)
ClientAgree(L, S) ==
  /\ \A s \in DOMAIN S :
       S[s].m_SocketState \in InUse <=> \E c \in Conns : L[c].callback = s /\ S[s].m_pConnect = c
  /\ \A c \in Conns :
       L[c].callback # NoSocket => L[c].callback \in DOMAIN S /\ S[L[c].callback].m_pConnect = c

(* What FlashPolicy has kept of what a client has sent, and what it told it. *)
Policy(k, v) ==
  /\ v.given < Request => v.logic = v.given
  /\ v.given = Request => v.logic = 0 /\ (k.usable /\ v.asks => v.answered)

Sound(p, L, M, S, V) ==
  /\ p # "TestEchoClient" => Agree(L, M, S)
  /\ p = "TestEchoClient" => ClientAgree(L, S)
  /\ p = "FlashPolicy" => \A c \in Conns : Policy(L[c], V[c])

Types(L, M, S, V) ==
  /\ L \in [Conns -> LinkRecord(Sockets)]
  /\ DOMAIN M \subseteq Conns /\ Range(M) \subseteq Sockets
  /\ DOMAIN S \subseteq Sockets /\ \A s \in DOMAIN S : S[s] \in SocketRecord
  /\ V \in [Conns -> VisitRecord]

(* What a handler must keep.                                              *)
Safe(p, L, M, S, V) ==
  /\ Types(L, M, S, V)
  /\ \A c \in Conns : LinkOK(p, L[c])
  /\ Sound(p, L, M, S, V)

(* Before the constructor is through there is no callback, and the loop of *)
(* OnTimer has only sockets that exist.                                    *)
Loop ==
  /\ main # "done" => todo = {} /\ ~m_bInitDBInfo /\ \A c \in Conns : link[c].callback = NoSocket
  /\ todo \subseteq DOMAIN socket
  /\ program \in {"TestEcho", "RZRQServer"} => todo = {}

IInv ==
  /\ program \in Programs /\ main \in {"begun", "started", "done"}
  /\ m_bInitDBInfo \in BOOLEAN /\ broken = FALSE
  /\ Safe(program, link, m_Clients, socket, visit)
  /\ Loop

(* The constants, as the proofs use them. *)
LEMMA Names == NoSocket \notin Sockets /\ NoConn \notin Conns /\ Request \in Nat /\ Request >= 1
  BY ServersAssumption

(* The type invariant follows. *)
LEMMA SaysTypeOK == IInv => TypeOK
<1> SUFFICES ASSUME IInv PROVE TypeOK
  OBVIOUS
<1>1. broken \in BOOLEAN
  BY Zenon DEF IInv
<1>2. todo \subseteq Sockets
  BY DEF IInv, Loop, Safe, Types
<1>3. QED
  BY <1>1, <1>2, Zenon DEF IInv, Safe, TypeOK, Types, SocketRecord, VisitRecord

(* And so does that sockets, connections and entries agree. *)
LEMMA SaysSocketsAgree == IInv => SocketsAgree
<1> SUFFICES ASSUME IInv PROVE SocketsAgree
  OBVIOUS
<1>1. ~broken
  BY Zenon DEF IInv
<1>2. CASE program # "TestEchoClient"
  BY <1>1, <1>2, Zenon DEF SocketsAgree, IInv, Safe, Sound, Agree
<1>3. CASE program = "TestEchoClient"
  BY <1>1, <1>3, Zenon DEF SocketsAgree, IInv, Safe, Sound, ClientAgree, InUse
<1>4. QED
  BY <1>2, <1>3

(* And that a request for the policy has been answered. *)
LEMMA SaysPolicyAnswered == IInv => PolicyAnswered
  BY Zenon DEF IInv, Safe, Sound, Policy, PolicyAnswered

-----------------------------------------------------------------------------
(* The values of Here that handlers go through.                            *)

(* Opaque in the proofs: the provers do badly with truth values in records. *)
NotBroken == FALSE

(* The values of Here in which no deleted socket was used. *)
At(L, M, S, V) == [link |-> L, m_Clients |-> M, socket |-> S, visit |-> V, broken |-> NotBroken]

(* The function f without x. *)
Without(f, x) == Restrict(f, DOMAIN f \ {x})

(* The state, as long as no deleted socket was used. *)
LEMMA HereIs == broken = FALSE => Here = At(link, m_Clients, socket, visit)
  BY Zenon DEF Here, At, NotBroken

(* What a handler leaves, field by field. *)
LEMMA BecomesSays ==
  ASSUME NEW L, NEW M, NEW S, NEW V, Becomes(At(L, M, S, V))
  PROVE  link' = L /\ m_Clients' = M /\ socket' = S /\ visit' = V /\ broken' = FALSE
<1>1. link' = L /\ m_Clients' = M /\ socket' = S /\ visit' = V /\ broken' = NotBroken
  BY DEF Becomes, At
<1>2. QED
  BY <1>1, Zenon DEF NotBroken

(* The fields of such a value. *)
LEMMA AtFields ==
  ASSUME NEW L, NEW M, NEW S, NEW V
  PROVE  /\ At(L, M, S, V).link = L /\ At(L, M, S, V).m_Clients = M /\ At(L, M, S, V).socket = S
         /\ At(L, M, S, V).visit = V /\ At(L, M, S, V).broken = NotBroken
  BY DEF At

(* A socket that exists is used and nothing breaks. *)
LEMMA UsingIs ==
  ASSUME NEW L, NEW M, NEW S, NEW V, NEW w, NEW s \in DOMAIN S
  PROVE  Using(At(L, M, S, V), s, w) = w
<1>1. s \in DOMAIN At(L, M, S, V).socket
  BY AtFields
<1>2. QED
  BY <1>1, Zenon DEF Using

(* IConnect::Close changes the connection alone. *)
LEMMA CloseConnectIs ==
  ASSUME NEW L, NEW M, NEW S, NEW V, NEW c
  PROVE  CloseConnect(At(L, M, S, V), c) = At([L EXCEPT ![c] = Closed(@)], M, S, V)
  BY DEF CloseConnect, At

(* new puts the socket at its address. *)
LEMMA NewIs ==
  ASSUME NEW L, NEW M, NEW S, NEW V, NEW c, NEW s
  PROVE  New(At(L, M, S, V), s, c) = At(L, M, With(S, s, NewSocket(c)), V)
  BY DEF New, At

(* SafeDelete of a socket that exists takes it away. *)
LEMMA SafeDeleteIs ==
  ASSUME NEW L, NEW M, NEW S, NEW V, NEW s \in DOMAIN S
  PROVE  SafeDelete(At(L, M, S, V), s) = At(L, M, Without(S, s), V)
<1> DEFINE v == At(L, M, S, V)
           w == At(L, M, Without(S, s), V)
<1>1. [v EXCEPT !.socket = Restrict(@, DOMAIN @ \ {s})] = w
  BY DEF At, Without
<1>2. Using(v, s, w) = w
  BY UsingIs
<1> HIDE DEF v, w
<1>3. SafeDelete(v, s) = Using(v, s, w)
  BY <1>1 DEF SafeDelete
<1>4. QED
  BY <1>2, <1>3 DEF v, w

(* The sockets, and the entries of m_Clients, of DealCloseSocket. *)
LEMMA DealCloseSocketIs ==
  ASSUME NEW L, NEW M, NEW S, NEW V, NEW c
  PROVE  /\ c \notin DOMAIN M => DealCloseSocket(At(L, M, S, V), c) = At(L, M, S, V)
         /\ c \in DOMAIN M /\ M[c] \in DOMAIN S =>
              DealCloseSocket(At(L, M, S, V), c) = At(L, Without(M, c), Without(S, M[c]), V)
<1>1. At(L, M, S, V).m_Clients = M
  BY AtFields
<1>2. CASE c \notin DOMAIN M
  BY <1>1, <1>2, Zenon DEF DealCloseSocket
<1>3. ASSUME c \in DOMAIN M, M[c] \in DOMAIN S
      PROVE  DealCloseSocket(At(L, M, S, V), c) = At(L, Without(M, c), Without(S, M[c]), V)
  <2> DEFINE w == At(L, M, Without(S, M[c]), V)
  <2>1. SafeDelete(At(L, M, S, V), M[c]) = w
    BY <1>3, SafeDeleteIs
  <2>2. [w EXCEPT !.m_Clients = Restrict(@, DOMAIN @ \ {c})] = At(L, Without(M, c), Without(S, M[c]), V)
    BY DEF At, Without
  <2> HIDE DEF w
  <2>3. DealCloseSocket(At(L, M, S, V), c) = [w EXCEPT !.m_Clients = Restrict(@, DOMAIN @ \ {c})]
    BY <1>1, <1>3, <2>1, Zenon DEF DealCloseSocket
  <2>4. QED
    BY <2>2, <2>3
<1>4. QED
  BY <1>2, <1>3

(* map::insert of a new entry. *)
LEMMA InsertIs ==
  ASSUME NEW L, NEW M, NEW S, NEW V, NEW c, NEW s, c \notin DOMAIN M
  PROVE  Insert(At(L, M, S, V), c, s) = At(L, With(M, c, s), S, V)
<1>1. At(L, M, S, V).m_Clients = M
  BY AtFields
<1>2. [At(L, M, S, V) EXCEPT !.m_Clients = With(@, c, s)] = At(L, With(M, c, s), S, V)
  BY DEF At
<1>3. QED
  BY <1>1, <1>2, Zenon DEF Insert

(* Socket s, connected, counts the time from now. *)
Counting(S, s) == [S EXCEPT ![s].m_SocketState = "CONNECTED", ![s].m_ConnectTime = "now"]

(* OnConnect of the sockets that count the time from now. *)
LEMMA CountsIs ==
  ASSUME NEW L, NEW M, NEW S, NEW V, NEW s \in DOMAIN S
  PROVE  CountsFromNow(At(L, M, S, V), s) = At(L, M, Counting(S, s), V)
<1> DEFINE v == At(L, M, S, V)
           w == At(L, M, Counting(S, s), V)
<1>1. [v EXCEPT !.socket[s].m_SocketState = "CONNECTED", !.socket[s].m_ConnectTime = "now"] = w
  <2> DEFINE S1 == [S EXCEPT ![s].m_SocketState = "CONNECTED"]
             u  == At(L, M, S1, V)
  <2>1. [v EXCEPT !.socket[s].m_SocketState = "CONNECTED"] = u
    BY DEF At
  <2> HIDE DEF S1
  <2>2. [u EXCEPT !.socket[s].m_ConnectTime = "now"] = At(L, M, [S1 EXCEPT ![s].m_ConnectTime = "now"], V)
    BY DEF At
  <2>3. [S1 EXCEPT ![s].m_ConnectTime = "now"] = Counting(S, s)
    BY DEF S1, Counting
  <2> HIDE DEF u, v, w
  <2>4. [v EXCEPT !.socket[s].m_SocketState = "CONNECTED", !.socket[s].m_ConnectTime = "now"]
          = [u EXCEPT !.socket[s].m_ConnectTime = "now"]
    BY <2>1
  <2>5. QED
    BY <2>2, <2>3, <2>4 DEF w
<1>2. Using(v, s, w) = w
  BY UsingIs
<1> HIDE DEF v, w
<1>3. CountsFromNow(v, s) = Using(v, s, w)
  BY <1>1 DEF CountsFromNow
<1>4. QED
  BY <1>2, <1>3 DEF v, w

(* OnConnect, whatever the program: the socket counts from now or nothing happens. *)
LEMMA SocketOnConnectIs ==
  ASSUME NEW L, NEW M, NEW S, NEW V, NEW s \in DOMAIN S
  PROVE  SocketOnConnect(At(L, M, S, V), s) =
           At(L, M, IF program = "RZRQServer" THEN S ELSE Counting(S, s), V)
<1>1. CASE program = "RZRQServer"
  BY <1>1 DEF SocketOnConnect, BaseOnConnect
<1>2. CASE program # "RZRQServer"
  BY <1>2, CountsIs DEF SocketOnConnect
<1>3. QED
  BY <1>1, <1>2

(* SetCallback gives the connection its socket; OnConnect may follow. *)
LEMMA SetCallbackIs ==
  ASSUME NEW L, NEW M, NEW S, NEW V, NEW c, NEW s \in DOMAIN S
  PROVE  LET L1 == [L EXCEPT ![c] = WithCallback(@, s)]
         IN  SetCallback(At(L, M, S, V), c, s) \in {At(L1, M, S, V), At(L1, M, Counting(S, s), V)}
<1> DEFINE L1 == [L EXCEPT ![c] = WithCallback(@, s)]
           v == At(L, M, S, V)
           w == At(L1, M, S, V)
<1>1. [v EXCEPT !.link[c] = WithCallback(@, s)] = w
  BY DEF At
<1>2. SocketOnConnect(w, s) \in {w, At(L1, M, Counting(S, s), V)}
  BY SocketOnConnectIs
<1> HIDE DEF L1, v, w
<1>3. SetCallback(v, c, s) = IF w.link[c].phase = "open" THEN SocketOnConnect(w, s) ELSE w
  BY <1>1 DEF SetCallback
<1>4. SetCallback(v, c, s) \in {w, At(L1, M, Counting(S, s), V)}
  BY <1>2, <1>3
<1>5. QED
  BY <1>4 DEF L1, v, w

(* A socket of connection c. *)
NewRecord(r, c) == r \in SocketRecord /\ r.m_pConnect = c

(* A socket that was just made, and one that OnConnect has changed, know their connection. *)
LEMMA NewSocketIs ==
  ASSUME NEW c \in Conns
  PROVE  /\ NewRecord(NewSocket(c), c)
         /\ NewRecord([NewSocket(c) EXCEPT !.m_SocketState = "CONNECTED", !.m_ConnectTime = "now"], c)
  BY DEF NewRecord, NewSocket, SocketRecord, SocketStates

(* A socket is made for a connection, told of it, and entered. *)
LEMMA AcceptIs ==
  ASSUME NEW L, NEW M, NEW S, NEW V, NEW c \in Conns, NEW s, s \notin DOMAIN S, c \notin DOMAIN M,
         NEW v, v = At(L, M, S, V),
         AcceptsNow, program \in {"FlashPolicy", "TestEcho", "RZRQServer"}
  PROVE  \E r : /\ NewRecord(r, c)
                /\ OnAccept(v, c, s) = At([L EXCEPT ![c] = WithCallback(@, s)], With(M, c, s), With(S, s, r), V)
<1> DEFINE L1 == [L EXCEPT ![c] = WithCallback(@, s)]
           S0 == With(S, s, NewSocket(c))
           r1 == [NewSocket(c) EXCEPT !.m_SocketState = "CONNECTED", !.m_ConnectTime = "now"]
           x == SetCallback(New(v, s, c), c, s)
<1>1. New(v, s, c) = At(L, M, S0, V)
  BY NewIs
<1>2. s \in DOMAIN S0 /\ S0[s] = NewSocket(c)
  BY DEF With
<1>3. Counting(S0, s) = With(S, s, r1)
  BY DEF Counting, With
<1>4. x \in {At(L1, M, S0, V), At(L1, M, With(S, s, r1), V)}
  <2> HIDE DEF S0, r1, L1
  <2>1. SetCallback(At(L, M, S0, V), c, s) \in {At(L1, M, S0, V), At(L1, M, Counting(S0, s), V)}
    BY <1>2, SetCallbackIs DEF L1
  <2>2. QED
    BY <1>1, <1>3, <2>1
<1>5. NewRecord(NewSocket(c), c) /\ NewRecord(r1, c)
  BY NewSocketIs
<1> HIDE DEF r1, x
<1>6. PICK r : NewRecord(r, c) /\ x = At(L1, M, With(S, s, r), V)
  BY <1>4, <1>5
<1>7. Insert(x, c, s) = At(L1, With(M, c, s), With(S, s, r), V)
  BY <1>6, InsertIs
<1>8. CASE program = "FlashPolicy"
  <2> DEFINE y == At(L1, M, S0, V)
  <2>1. [With(S, s, r) EXCEPT ![s] = NewSocket(c)] = S0
    BY DEF With
  <2>2. [x EXCEPT !.socket[s] = NewSocket(c)] = y
    <3>1. [At(L1, M, With(S, s, r), V) EXCEPT !.socket[s] = NewSocket(c)]
            = At(L1, M, [With(S, s, r) EXCEPT ![s] = NewSocket(c)], V)
      <4> HIDE DEF L1
      <4>1. QED
        BY DEF At
    <3>2. QED
      BY <1>6, <2>1, <3>1
  <2>3. FlashSocket(v, c, s) = y
    BY <2>2 DEF FlashSocket, x
  <2>4. Insert(y, c, s) = At(L1, With(M, c, s), S0, V)
    BY InsertIs
  <2> HIDE DEF y
  <2>5. OnAccept(v, c, s) = Insert(y, c, s)
    BY <1>8, <2>3, Zenon DEF OnAccept, FlashAccept
  <2>6. QED
    BY <1>5, <2>4, <2>5
<1>9. CASE program = "TestEcho"
  <2>1. OnAccept(v, c, s) = Insert(x, c, s)
    BY <1>9 DEF OnAccept, EchoAccept, x
  <2>2. QED
    BY <1>6, <1>7, <2>1
<1>10. CASE program = "RZRQServer"
  <2>1. OnAccept(v, c, s) = Insert(x, c, s)
    BY <1>10 DEF OnAccept, GameAccept, x
  <2>2. QED
    BY <1>6, <1>7, <2>1
<1>11. QED
  BY <1>8, <1>9, <1>10

(* Socket s with another state. *)
SetState(S, s, state) == [S EXCEPT ![s].m_SocketState = state]

(* Connection c after Close. *)
CutOff(L, c) == [L EXCEPT ![c] = Closed(@)]

(* A socket is closed by the program, through its connection. *)
LEMMA SocketCloseIs ==
  ASSUME NEW L, NEW M, NEW S, NEW V, NEW s \in DOMAIN S, S[s].m_pConnect # NoConn
  PROVE  SocketClose(At(L, M, S, V), s)
           = At(CutOff(L, S[s].m_pConnect), M, SetState(S, s, "CLOSING"), V)
<1> DEFINE v == At(L, M, S, V)
           c == S[s].m_pConnect
           u == At(L, M, SetState(S, s, "CLOSING"), V)
           w == At(CutOff(L, c), M, SetState(S, s, "CLOSING"), V)
<1>1. [v EXCEPT !.socket[s].m_SocketState = "CLOSING"] = u
  BY DEF At, SetState
<1>2. CloseConnect(u, c) = w
  BY CloseConnectIs DEF CutOff
<1>3. v.socket = S
  BY AtFields
<1>4. s \in DOMAIN v.socket
  BY <1>3
<1> HIDE DEF v, u, w
<1>5. CloseConnect([v EXCEPT !.socket[s].m_SocketState = "CLOSING"], v.socket[s].m_pConnect) = w
  BY <1>1, <1>2, <1>3 DEF c
<1>6. SocketClose(v, s) = w
  BY <1>3, <1>4, <1>5 DEF SocketClose, Using
<1>7. QED
  BY <1>6 DEF v, w

(* The callbacks of a close take the socket and its entry away, whichever does it. *)
LEMMA OnCloseIs ==
  ASSUME NEW L, NEW M, NEW S, NEW V, NEW c \in DOMAIN M, NEW s \in DOMAIN S,
         M[c] = s, S[s].m_pConnect = c, program \in {"FlashPolicy", "TestEcho", "RZRQServer"}
  PROVE  PoolOnClose(SocketOnClose(At(L, M, S, V), s), c) = At(L, Without(M, c), Without(S, s), V)
<1> DEFINE v == At(L, M, S, V)
           w == At(L, Without(M, c), Without(S, s), V)
<1>1. DealCloseSocket(v, c) = w
  BY DealCloseSocketIs
<1>2. v.socket[s].m_pConnect = c
  BY AtFields
<1>3. \A x : Using(v, s, x) = x
  BY UsingIs
<1>4. c \notin DOMAIN Without(M, c)
  BY DEF Without, Restrict
<1>5. DealCloseSocket(w, c) = w
  BY <1>4, DealCloseSocketIs
<1> HIDE DEF v, w
<1>6. CASE program \in {"FlashPolicy", "RZRQServer"}
  <2>1. SocketOnClose(v, s) = w
    BY <1>1, <1>2, <1>3, <1>6 DEF SocketOnClose, FlashOnClose, GameOnClose
  <2>2. PoolOnClose(w, c) = DealCloseSocket(w, c)
    BY <1>6 DEF PoolOnClose
  <2>3. QED
    BY <1>5, <2>1, <2>2 DEF v, w
<1>7. CASE program = "TestEcho"
  <2> DEFINE u == At(L, M, SetState(S, s, "CLOSED"), V)
  <2>1. [v EXCEPT !.socket[s].m_SocketState = "CLOSED"] = u
    BY DEF At, SetState, v
  <2>2. s \in DOMAIN SetState(S, s, "CLOSED") /\ Without(SetState(S, s, "CLOSED"), s) = Without(S, s)
    BY DEF SetState, Without, Restrict
  <2>3. DealCloseSocket(u, c) = w
    BY <2>2, DealCloseSocketIs DEF w
  <2> HIDE DEF u
  <2>4. SocketOnClose(v, s) = u
    BY <1>3, <1>7, <2>1 DEF SocketOnClose, EchoOnClose
  <2>5. PoolOnClose(u, c) = DealCloseSocket(u, c)
    BY <1>7 DEF PoolOnClose
  <2>6. QED
    BY <2>3, <2>4, <2>5 DEF v, w
<1>8. QED
  BY <1>6, <1>7

(* Socket s after OnClose of TestEchoClient. *)
ClientClosed(S, s) == [S EXCEPT ![s].m_SocketState = "CLOSED", ![s].m_ConnectTime = "zero"]

(* TestEchoClient's callbacks of a close keep the socket and mark it closed. *)
LEMMA ClientOnCloseIs ==
  ASSUME NEW L, NEW M, NEW S, NEW V, NEW c, NEW s \in DOMAIN S, program = "TestEchoClient"
  PROVE  PoolOnClose(SocketOnClose(At(L, M, S, V), s), c) = At(L, M, ClientClosed(S, s), V)
<1> DEFINE v == At(L, M, S, V)
           S1 == [S EXCEPT ![s].m_SocketState = "CLOSED"]
           u == At(L, M, S1, V)
           w == At(L, M, ClientClosed(S, s), V)
<1>1. [v EXCEPT !.socket[s].m_SocketState = "CLOSED"] = u
  BY DEF At
<1>2. [S1 EXCEPT ![s].m_ConnectTime = "zero"] = ClientClosed(S, s)
  BY DEF ClientClosed
<1>3. [u EXCEPT !.socket[s].m_ConnectTime = "zero"] = At(L, M, [S1 EXCEPT ![s].m_ConnectTime = "zero"], V)
  <2> HIDE DEF S1
  <2>1. QED
    BY DEF At
<1>4. Using(v, s, w) = w
  BY UsingIs
<1> HIDE DEF v, S1, u, w
<1>5. [v EXCEPT !.socket[s].m_SocketState = "CLOSED", !.socket[s].m_ConnectTime = "zero"]
        = [u EXCEPT !.socket[s].m_ConnectTime = "zero"]
  BY <1>1
<1>6. [v EXCEPT !.socket[s].m_SocketState = "CLOSED", !.socket[s].m_ConnectTime = "zero"] = w
  BY <1>2, <1>3, <1>5 DEF w
<1>7. SocketOnClose(v, s) = w
  BY <1>4, <1>6 DEF SocketOnClose, ClientOnClose
<1>8. PoolOnClose(w, c) = w
  BY DEF PoolOnClose
<1>9. QED
  BY <1>7, <1>8 DEF v, w

(* Data that comes: the rest that FlashPolicy keeps, and whether it answers. *)
Asked(k, x) == x.asks /\ x.logic = Request /\ x.given = Request /\ k.usable

FlashVisit(k, x) ==
  [x EXCEPT !.logic = x.logic - PolicyTaken(x.logic), !.answered = x.answered \/ Asked(k, x)]

OnMsgVisit(k, x) == IF program = "FlashPolicy" THEN FlashVisit(k, x) ELSE [x EXCEPT !.logic = 0]

(* Setting what is left of the data and whether it was answered, on Here and on visits. *)
Kept(v, c, a, b)      == [v EXCEPT !.visit[c].logic = a, !.visit[c].answered = b]
VisitKept(V, c, a, b) == [V EXCEPT ![c] = [V[c] EXCEPT !.logic = a, !.answered = b]]

(* Two fields of a visit are set one after the other. *)
LEMMA VisitSet ==
  ASSUME NEW L, NEW M, NEW S, NEW V, NEW c, NEW a, NEW b
  PROVE  Kept(At(L, M, S, V), c, a, b) = At(L, M, S, VisitKept(V, c, a, b))
<1> DEFINE v == At(L, M, S, V)
           V1 == [V EXCEPT ![c].logic = a]
           u == At(L, M, S, V1)
<1>1. [v EXCEPT !.visit[c].logic = a] = u
  BY DEF At
<1>2. [V1 EXCEPT ![c].answered = b] = [V EXCEPT ![c] = [V[c] EXCEPT !.logic = a, !.answered = b]]
  OBVIOUS
<1>3. [u EXCEPT !.visit[c].answered = b] = At(L, M, S, [V1 EXCEPT ![c].answered = b])
  <2> HIDE DEF V1
  <2>1. QED
    BY DEF At
<1> HIDE DEF v, V1, u
<1>4. [v EXCEPT !.visit[c].logic = a, !.visit[c].answered = b] = [u EXCEPT !.visit[c].answered = b]
  BY <1>1
<1>5. QED
  BY <1>2, <1>3, <1>4 DEF v, Kept, VisitKept

(* The visits after OnMsg for connection c. *)
Answering(L, V, c) == [V EXCEPT ![c] = OnMsgVisit(L[c], @)]

(* OnMsg of any program changes the visit alone. *)
LEMMA SocketOnMsgIs ==
  ASSUME NEW L, NEW M, NEW S, NEW V, NEW c, NEW s \in DOMAIN S
  PROVE  SocketOnMsg(At(L, M, S, V), c, s) = At(L, M, S, Answering(L, V, c))
<1> DEFINE v == At(L, M, S, V)
<1>1. v.link = L /\ v.visit = V
  BY AtFields
<1>2. \A x : Using(v, s, x) = x
  BY UsingIs
<1>3. CASE program = "FlashPolicy"
  <2> DEFINE a == V[c].logic - PolicyTaken(V[c].logic)
             b == V[c].answered \/ Asked(L[c], V[c])
  <2>1. SocketOnMsg(v, c, s) = Kept(v, c, a, b)
    BY <1>1, <1>2, <1>3, Zenon DEF SocketOnMsg, FlashOnMsg, Asked, Kept
  <2>2. Answering(L, V, c) = VisitKept(V, c, a, b)
    BY <1>3, Zenon DEF OnMsgVisit, FlashVisit, VisitKept, Answering
  <2> HIDE DEF a, b
  <2>3. Kept(v, c, a, b) = At(L, M, S, VisitKept(V, c, a, b))
    BY VisitSet
  <2>4. QED
    BY <2>1, <2>2, <2>3
<1>4. CASE program # "FlashPolicy"
  <2>1. SocketOnMsg(v, c, s) = [v EXCEPT !.visit[c].logic = 0]
    BY <1>2, <1>4, Zenon DEF SocketOnMsg, EchoOnMsg
  <2>2. [v EXCEPT !.visit[c].logic = 0] = At(L, M, S, [V EXCEPT ![c].logic = 0])
    BY DEF At
  <2>3. [V EXCEPT ![c].logic = 0] = Answering(L, V, c)
    BY <1>4 DEF OnMsgVisit, Answering
  <2>4. QED
    BY <2>1, <2>2, <2>3
<1>5. QED
  BY <1>3, <1>4

(* The domain and the range of a function with one more element. *)
LEMMA RangeIs ==
  ASSUME NEW f, NEW x, NEW y
  PROVE  /\ x \notin DOMAIN f => DOMAIN With(f, x, y) = DOMAIN f \cup {x} /\ Range(With(f, x, y)) = Range(f) \cup {y}
         /\ \A z \in DOMAIN f : f[z] \in Range(f)
         /\ \A z : z \in Range(f) => \E t \in DOMAIN f : f[t] = z
  BY DEF With, Range

(* A connection changes, and keeps its callback. *)
LEMMA LinkChange ==
  ASSUME NEW p, NEW L, NEW M, NEW S, NEW V, Safe(p, L, M, S, V), NEW c \in Conns,
         NEW k \in LinkRecord(Sockets), k.callback = L[c].callback, LinkOK(p, k),
         (k.usable => L[c].usable) \/ \A j : Policy(j, V[c])
  PROVE  Safe(p, [L EXCEPT ![c] = k], M, S, V)
<1> DEFINE L1 == [L EXCEPT ![c] = k]
<1>1. L \in [Conns -> LinkRecord(Sockets)]
  BY DEF Safe, Types
<1>2. L1 \in [Conns -> LinkRecord(Sockets)] /\ L1[c] = k /\ \A d \in Conns : d # c => L1[d] = L[d]
  BY <1>1
<1> HIDE DEF L1
<1>3. \A d \in Conns : L1[d].callback = L[d].callback
  BY <1>2
<1>4. Types(L1, M, S, V)
  BY <1>2 DEF Safe, Types
<1>5. \A d \in Conns : LinkOK(p, L1[d])
  BY <1>2 DEF Safe
<1>6. p # "TestEchoClient" => Agree(L1, M, S)
  BY <1>3 DEF Safe, Sound, Agree
<1>7. p = "TestEchoClient" => ClientAgree(L1, S)
  BY <1>3 DEF Safe, Sound, ClientAgree
<1>8. ASSUME p = "FlashPolicy", NEW d \in Conns PROVE Policy(L1[d], V[d])
  <2>1. Policy(L[d], V[d])
    BY <1>8 DEF Safe, Sound
  <2>2. CASE L1[d].usable => L[d].usable
    BY <2>1, <2>2, Zenon DEF Policy
  <2>3. CASE ~(L1[d].usable => L[d].usable)
    <3>1. d = c
      BY <1>2, <2>3, Zenon
    <3>2. QED
      BY <1>2, <2>3, <3>1, Zenon
  <2>4. QED
    BY <2>2, <2>3
<1>9. Safe(p, L1, M, S, V)
  BY <1>4, <1>5, <1>6, <1>7, <1>8 DEF Safe, Sound
<1>10. QED
  BY <1>9 DEF L1

(* A visit changes. *)
LEMMA VisitChange ==
  ASSUME NEW p, NEW L, NEW M, NEW S, NEW V, Safe(p, L, M, S, V), NEW c \in Conns,
         NEW x \in VisitRecord, p = "FlashPolicy" => Policy(L[c], x)
  PROVE  Safe(p, L, M, S, [V EXCEPT ![c] = x])
<1> DEFINE V1 == [V EXCEPT ![c] = x]
<1>1. V \in [Conns -> VisitRecord]
  BY DEF Safe, Types
<1>2. V1 \in [Conns -> VisitRecord] /\ V1[c] = x /\ \A d \in Conns : d # c => V1[d] = V[d]
  BY <1>1
<1> HIDE DEF V1
<1>3. Types(L, M, S, V1)
  BY <1>2 DEF Safe, Types
<1>4. ASSUME p = "FlashPolicy", NEW d \in Conns PROVE Policy(L[d], V1[d])
  BY <1>2, <1>4 DEF Safe, Sound
<1>5. Safe(p, L, M, S, V1)
  BY <1>3, <1>4 DEF Safe, Sound
<1>6. QED
  BY <1>5 DEF V1

(* A socket changes, and stays with its connection, if it has one. *)
LEMMA SocketChange ==
  ASSUME NEW p, NEW L, NEW M, NEW S, NEW V, Safe(p, L, M, S, V), NEW s \in DOMAIN S,
         NEW r \in SocketRecord, \A d \in Conns : L[d].callback = s => r.m_pConnect = S[s].m_pConnect,
         p = "TestEchoClient" => (r.m_SocketState \in InUse <=> S[s].m_SocketState \in InUse)
  PROVE  Safe(p, L, M, [S EXCEPT ![s] = r], V)
<1> DEFINE S1 == [S EXCEPT ![s] = r]
<1>1. /\ DOMAIN S1 = DOMAIN S /\ S1[s] = r
      /\ \A t \in DOMAIN S : t # s => S1[t] = S[t]
  OBVIOUS
<1> HIDE DEF S1
<1>2. \A d \in Conns, t \in DOMAIN S : L[d].callback = t => S1[t].m_pConnect = S[t].m_pConnect
  BY <1>1
<1>3. Types(L, M, S1, V)
  BY <1>1 DEF Safe, Types
<1>4. ASSUME p # "TestEchoClient" PROVE Agree(L, M, S1)
  <2>1. Agree(L, M, S) /\ DOMAIN M \subseteq Conns
    BY <1>4 DEF Safe, Types, Sound
  <2>2. \A d \in DOMAIN M : M[d] \in DOMAIN S
    BY <2>1, RangeIs DEF Agree
  <2>3. QED
    BY <1>1, <1>2, <2>1, <2>2 DEF Agree
<1>5. ASSUME p = "TestEchoClient" PROVE ClientAgree(L, S1)
  <2>1. ClientAgree(L, S)
    BY <1>5 DEF Safe, Sound
  <2>2. \A t \in DOMAIN S : S1[t].m_SocketState \in InUse <=> S[t].m_SocketState \in InUse
    BY <1>1, <1>5
  <2>3. ASSUME NEW t \in DOMAIN S1
        PROVE  S1[t].m_SocketState \in InUse <=> \E d \in Conns : L[d].callback = t /\ S1[t].m_pConnect = d
    <3>1. t \in DOMAIN S /\ \A d \in Conns : L[d].callback = t => S1[t].m_pConnect = S[t].m_pConnect
      BY <1>1, <1>2
    <3>2. S1[t].m_SocketState \in InUse <=> S[t].m_SocketState \in InUse
      BY <2>2, <3>1
    <3>3. S[t].m_SocketState \in InUse <=> \E d \in Conns : L[d].callback = t /\ S[t].m_pConnect = d
      BY <2>1, <3>1, Zenon DEF ClientAgree
    <3>4. (\E d \in Conns : L[d].callback = t /\ S1[t].m_pConnect = d)
            <=> \E d \in Conns : L[d].callback = t /\ S[t].m_pConnect = d
      BY <3>1
    <3>5. QED
      BY <3>2, <3>3, <3>4, Zenon
  <2>4. ASSUME NEW d \in Conns, L[d].callback # NoSocket
        PROVE  L[d].callback \in DOMAIN S1 /\ S1[L[d].callback].m_pConnect = d
    BY <1>1, <1>2, <2>1, <2>4 DEF ClientAgree
  <2>5. QED
    BY <2>3, <2>4, Zenon DEF ClientAgree
<1>6. Safe(p, L, M, S1, V)
  BY <1>3, <1>4, <1>5 DEF Safe, Sound
<1>7. QED
  BY <1>6 DEF S1

(* A connection is accepted, with a socket that is new. *)
LEMMA AcceptChange ==
  ASSUME NEW p, NEW L, NEW M, NEW S, NEW V, Safe(p, L, M, S, V), p # "TestEchoClient", NEW c \in Conns,
         L[c].callback = NoSocket, NEW s \in Sockets, s \notin Range(M),
         NEW k \in LinkRecord(Sockets), k.callback = s, Held(k), k.usable => L[c].usable,
         NEW r, NewRecord(r, c)
  PROVE  Safe(p, [L EXCEPT ![c] = k], With(M, c, s), With(S, s, r), V)
<1> DEFINE L1 == [L EXCEPT ![c] = k]
           M1 == With(M, c, s)
           S1 == With(S, s, r)
<1>1. L \in [Conns -> LinkRecord(Sockets)] /\ Agree(L, M, S)
  BY DEF Safe, Types, Sound
<1>2. L1 \in [Conns -> LinkRecord(Sockets)] /\ L1[c] = k /\ \A d \in Conns : d # c => L1[d] = L[d]
  BY <1>1
<1>3. c \notin DOMAIN M /\ s \notin DOMAIN S /\ DOMAIN S = Range(M) /\ s # NoSocket
  BY <1>1, Names DEF Agree
<1>4. /\ DOMAIN M1 = DOMAIN M \cup {c} /\ M1[c] = s /\ Range(M1) = Range(M) \cup {s}
      /\ \A d \in DOMAIN M : M1[d] = M[d]
  BY <1>3, RangeIs DEF With
<1>5. /\ DOMAIN S1 = DOMAIN S \cup {s} /\ S1[s] = r
      /\ \A t \in DOMAIN S : S1[t] = S[t]
  BY <1>3 DEF With
<1> HIDE DEF L1, M1, S1
<1>6. Types(L1, M1, S1, V)
  BY <1>2, <1>4, <1>5 DEF Safe, Types, NewRecord
<1>7. LinkOK(p, k)
  BY DEF LinkOK
<1>8. \A d \in Conns : LinkOK(p, L1[d])
  BY <1>2, <1>7 DEF Safe
<1>9. Agree(L1, M1, S1)
  <2>1. DOMAIN M1 = {d \in Conns : L1[d].callback # NoSocket}
    BY <1>1, <1>2, <1>3, <1>4 DEF Agree
  <2>2. ASSUME NEW d \in DOMAIN M1 PROVE L1[d].callback = M1[d] /\ S1[M1[d]].m_pConnect = d
    <3>1. CASE d = c
      BY <1>2, <1>4, <1>5, <3>1 DEF NewRecord
    <3>2. CASE d # c
      <4>1. d \in DOMAIN M /\ d \in Conns /\ M[d] \in DOMAIN S
        BY <1>1, <1>4, <3>2, RangeIs DEF Agree
      <4>2. QED
        BY <1>1, <1>2, <1>4, <1>5, <3>2, <4>1 DEF Agree
    <3>3. QED
      BY <3>1, <3>2
  <2>3. QED
    BY <1>3, <1>4, <1>5, <2>1, <2>2 DEF Agree
<1>10. ASSUME p = "FlashPolicy", NEW d \in Conns PROVE Policy(L1[d], V[d])
  <2>1. Policy(L[d], V[d])
    BY <1>10 DEF Safe, Sound
  <2>2. L1[d].usable => L[d].usable
    BY <1>2, Zenon
  <2>3. QED
    BY <2>1, <2>2, Zenon DEF Policy
<1>11. Safe(p, L1, M1, S1, V)
  BY <1>6, <1>8, <1>9, <1>10 DEF Safe, Sound
<1>12. QED
  BY <1>11 DEF L1, M1, S1

(* A visit that begins: nothing has come and nothing is asked yet. *)
LEMMA NewVisitIs == \A b \in BOOLEAN : NewVisit(b) \in VisitRecord /\ \A k : Policy(k, NewVisit(b))
<1> SUFFICES ASSUME NEW b \in BOOLEAN PROVE NewVisit(b) \in VisitRecord /\ \A k : Policy(k, NewVisit(b))
  OBVIOUS
<1>1. Request \in Nat /\ Request >= 1 /\ 0 \in 0..(Request + 1) /\ 0 \in 0..(Request - 1)
  BY Names
<1>2. NewVisit(b) \in VisitRecord
  BY <1>1 DEF NewVisit, VisitRecord
<1>3. NewVisit(b).given = 0 /\ NewVisit(b).logic = 0
  BY DEF NewVisit
<1>4. \A k : Policy(k, NewVisit(b))
  BY <1>1, <1>3 DEF Policy
<1>5. QED
  BY <1>2, <1>4

(* A connection that waits has no callback. *)
LEMMA NewLinkIs == NewLink \in LinkRecord(Sockets) /\ NewLink.callback = NoSocket /\ ~NewLink.usable
                   /\ \A p : LinkOK(p, NewLink)
  BY DEF NewLink, LinkRecord, LinkOK, Held, Phases, Closings

(* A function with one element less. *)
LEMMA WithoutIs ==
  ASSUME NEW f, NEW x
  PROVE  /\ DOMAIN Without(f, x) = DOMAIN f \ {x}
         /\ \A z \in DOMAIN f \ {x} : Without(f, x)[z] = f[z]
  BY DEF Without, Restrict

(* A connection with a socket ends. *)
LEMMA CloseChange ==
  ASSUME NEW p, NEW L, NEW M, NEW S, NEW V, Safe(p, L, M, S, V), p # "TestEchoClient", NEW c \in Conns,
         L[c].callback # NoSocket
  PROVE  Safe(p, [L EXCEPT ![c] = NewLink], Without(M, c), Without(S, L[c].callback),
              [V EXCEPT ![c] = NewVisit(FALSE)])
<1> DEFINE s  == L[c].callback
           L1 == [L EXCEPT ![c] = NewLink]
           M1 == Without(M, c)
           S1 == Without(S, s)
           V1 == [V EXCEPT ![c] = NewVisit(FALSE)]
<1>1. /\ L \in [Conns -> LinkRecord(Sockets)] /\ V \in [Conns -> VisitRecord] /\ Agree(L, M, S)
      /\ DOMAIN M \subseteq Conns
  BY DEF Safe, Types, Sound
<1>2. /\ L1 \in [Conns -> LinkRecord(Sockets)] /\ L1[c] = NewLink
      /\ \A d \in Conns : d # c => L1[d] = L[d]
  BY <1>1, NewLinkIs
<1>3. V1 \in [Conns -> VisitRecord] /\ V1[c] = NewVisit(FALSE) /\ \A d \in Conns : d # c => V1[d] = V[d]
  BY <1>1, NewVisitIs
<1>4. c \in DOMAIN M /\ M[c] = s /\ s \in DOMAIN S /\ S[s].m_pConnect = c
  BY <1>1, RangeIs DEF Agree
<1>5. \A d \in DOMAIN M : d # c => M[d] # s
  BY <1>1, <1>4 DEF Agree
<1>6. /\ DOMAIN M1 = DOMAIN M \ {c} /\ \A d \in DOMAIN M1 : M1[d] = M[d]
      /\ Range(M1) = {M[d] : d \in DOMAIN M \ {c}}
  <2>1. DOMAIN M1 = DOMAIN M \ {c} /\ \A d \in DOMAIN M1 : M1[d] = M[d]
    BY WithoutIs
  <2>2. Range(M1) = {M[d] : d \in DOMAIN M \ {c}}
    <3> HIDE DEF M1
    <3>1. QED
      BY <2>1 DEF Range
  <2>3. QED
    BY <2>1, <2>2
<1>7. DOMAIN S1 = DOMAIN S \ {s} /\ \A t \in DOMAIN S1 : S1[t] = S[t]
  BY WithoutIs
<1> HIDE DEF L1, M1, S1, V1, s
<1>8. Range(M1) = Range(M) \ {s}
  <2>1. Range(M) = {M[d] : d \in DOMAIN M}
    BY DEF Range
  <2>2. QED
    BY <1>4, <1>5, <1>6, <2>1
<1>9. Types(L1, M1, S1, V1)
  <2>1. Types(L, M, S, V)
    BY DEF Safe
  <2>2. DOMAIN M1 \subseteq Conns /\ Range(M1) \subseteq Sockets
    BY <1>6, <1>8, <2>1 DEF Types
  <2>3. DOMAIN S1 \subseteq Sockets /\ \A t \in DOMAIN S1 : S1[t] \in SocketRecord
    BY <1>7, <2>1 DEF Types
  <2>4. QED
    BY <1>2, <1>3, <2>2, <2>3 DEF Types
<1>10. \A d \in Conns : LinkOK(p, L1[d])
  BY <1>2, NewLinkIs DEF Safe
<1>11. Agree(L1, M1, S1)
  <2>1. DOMAIN M1 = {d \in Conns : L1[d].callback # NoSocket}
    BY <1>1, <1>2, <1>6, NewLinkIs DEF Agree
  <2>2. DOMAIN S1 = Range(M1)
    BY <1>1, <1>7, <1>8 DEF Agree
  <2>3. ASSUME NEW d \in DOMAIN M1 PROVE L1[d].callback = M1[d] /\ S1[M1[d]].m_pConnect = d
    <3>1. d \in DOMAIN M /\ d # c /\ d \in Conns /\ M1[d] = M[d] /\ L1[d] = L[d]
      BY <1>1, <1>2, <1>6
    <3>2. M[d] \in DOMAIN S1
      BY <1>1, <1>5, <1>7, <3>1, RangeIs DEF Agree
    <3>3. QED
      BY <1>1, <1>7, <3>1, <3>2 DEF Agree
  <2>4. QED
    BY <2>1, <2>2, <2>3 DEF Agree
<1>12. ASSUME p = "FlashPolicy", NEW d \in Conns PROVE Policy(L1[d], V1[d])
  <2>1. CASE d = c
    BY <1>3, <2>1, NewVisitIs
  <2>2. CASE d # c
    BY <1>2, <1>3, <1>12, <2>2 DEF Safe, Sound
  <2>3. QED
    BY <2>1, <2>2
<1>13. Safe(p, L1, M1, S1, V1)
  BY <1>9, <1>10, <1>11, <1>12 DEF Safe, Sound
<1>14. QED
  BY <1>13 DEF L1, M1, S1, V1, s

(* A connection without a socket ends. *)
LEMMA FreeChange ==
  ASSUME NEW p, NEW L, NEW M, NEW S, NEW V, Safe(p, L, M, S, V), NEW c \in Conns, L[c].callback = NoSocket
  PROVE  Safe(p, [L EXCEPT ![c] = NewLink], M, S, [V EXCEPT ![c] = NewVisit(FALSE)])
<1>1. Safe(p, [L EXCEPT ![c] = NewLink], M, S, V)
  BY LinkChange, NewLinkIs
<1>2. QED
  BY <1>1, VisitChange, NewVisitIs

(* TestEchoClient: what the socket s of a connection c that changes, or that it was  *)
(* given, becomes.                                                                  *)
LEMMA ClientChange ==
  ASSUME NEW p, NEW L, NEW M, NEW S, NEW V, Safe(p, L, M, S, V), p = "TestEchoClient",
         NEW c \in Conns, NEW s \in DOMAIN S,
         NEW k \in LinkRecord(Sockets), LinkOK(p, k), NEW r \in SocketRecord,
         L[c].callback \in {NoSocket, s}, \A d \in Conns : L[d].callback = s => d = c,
         \/ k.callback = NoSocket /\ r.m_SocketState \notin InUse
         \/ k.callback = s /\ r.m_SocketState \in InUse /\ r.m_pConnect = c
  PROVE  Safe(p, [L EXCEPT ![c] = k], M, [S EXCEPT ![s] = r], V)
<1> DEFINE L1 == [L EXCEPT ![c] = k]
           S1 == [S EXCEPT ![s] = r]
<1>1. L \in [Conns -> LinkRecord(Sockets)] /\ ClientAgree(L, S) /\ s \in Sockets
  BY DEF Safe, Types, Sound
<1>2. L1 \in [Conns -> LinkRecord(Sockets)] /\ L1[c] = k /\ \A d \in Conns : d # c => L1[d] = L[d]
  BY <1>1
<1>3. DOMAIN S1 = DOMAIN S /\ S1[s] = r /\ \A t \in DOMAIN S : t # s => S1[t] = S[t]
  OBVIOUS
<1> HIDE DEF L1, S1
<1>4. Types(L1, M, S1, V)
  BY <1>2, <1>3 DEF Safe, Types
<1>5. \A d \in Conns : LinkOK(p, L1[d])
  BY <1>2 DEF Safe
<1>6. s # NoSocket
  BY <1>1, Names
<1>7. ASSUME NEW t \in DOMAIN S1
      PROVE  S1[t].m_SocketState \in InUse <=> \E d \in Conns : L1[d].callback = t /\ S1[t].m_pConnect = d
  <2>1. CASE t = s
    <3>1. \A d \in Conns : d # c => L1[d].callback # s
      BY <1>2
    <3>2. QED
      BY <1>2, <1>3, <1>6, <2>1, <3>1
  <2>2. CASE t # s
    <3>1. t \in DOMAIN S /\ S1[t] = S[t] /\ t # NoSocket
      BY <1>3, <2>2, Names DEF Safe, Types
    <3>2. \A d \in Conns : L1[d].callback = t <=> L[d].callback = t
      BY <1>2, <2>2, <3>1
    <3>3. S[t].m_SocketState \in InUse <=> \E d \in Conns : L[d].callback = t /\ S[t].m_pConnect = d
      BY <1>1, <3>1, Zenon DEF ClientAgree
    <3>4. QED
      BY <3>1, <3>2, <3>3, Zenon
  <2>3. QED
    BY <2>1, <2>2
<1>8. ASSUME NEW d \in Conns, L1[d].callback # NoSocket
      PROVE  L1[d].callback \in DOMAIN S1 /\ S1[L1[d].callback].m_pConnect = d
  <2>1. CASE d = c
    BY <1>2, <1>3, <1>8, <2>1
  <2>2. CASE d # c
    BY <1>1, <1>2, <1>3, <1>8, <2>2 DEF ClientAgree
  <2>3. QED
    BY <2>1, <2>2
<1>9. ClientAgree(L1, S1)
  BY <1>7, <1>8, Zenon DEF ClientAgree
<1>10. Safe(p, L1, M, S1, V)
  BY <1>4, <1>5, <1>9 DEF Safe, Sound
<1>11. QED
  BY <1>10 DEF L1, S1

(* All the values of a connection. *)
LinkSet == LinkRecord(Sockets)

(* What becomes of a connection: it is offered to the program. *)
LEMMA OfferedIs ==
  ASSUME NEW k \in LinkSet
  PROVE  LET j == [k EXCEPT !.phase = "offered"]
         IN  j \in LinkSet /\ j.callback = k.callback /\ j.usable = k.usable /\ j.phase = "offered" /\ Held(j)
  BY DEF LinkSet, LinkRecord, Phases, Held

(* Close keeps phase and callback, and leaves nothing usable. *)
LEMMA ClosedIs ==
  ASSUME NEW k \in LinkSet
  PROVE  /\ Closed(k) \in LinkSet /\ Closed(k).callback = k.callback /\ Closed(k).phase = k.phase
         /\ Closed(k).usable => k.usable
<1>1. CASE ~k.usable
  BY <1>1, Zenon DEF Closed
<1>2. CASE k.usable
  <2>1. Closed(k) = [k EXCEPT !.usable = FALSE, !.closing = "active"]
    BY <1>2, Zenon DEF Closed
  <2>2. QED
    BY <1>2, <2>1 DEF LinkSet, LinkRecord, Closings
<1>3. QED
  BY <1>1, <1>2

(* OnConnect, on a connection in the hands of the program. *)
LEMMA OpenedIs ==
  ASSUME NEW k \in LinkSet, Held(k)
  PROVE  /\ Opened(k) \in LinkSet /\ Opened(k).callback = k.callback /\ Opened(k).usable = k.usable
         /\ Held(Opened(k))
<1>1. CASE ~k.usable
  BY <1>1, Zenon DEF Opened
<1>2. CASE k.usable
  <2>1. Opened(k) = [k EXCEPT !.phase = "open"]
    BY <1>2, Zenon DEF Opened
  <2>2. QED
    BY <2>1 DEF LinkSet, LinkRecord, Phases, Held
<1>3. QED
  BY <1>1, <1>2

(* SetCallback, on a connection in the hands of the program. *)
LEMMA WithCallbackIs ==
  ASSUME NEW k \in LinkSet, Held(k), NEW s \in Sockets
  PROVE  /\ WithCallback(k, s) \in LinkSet /\ WithCallback(k, s).callback = s
         /\ WithCallback(k, s).usable = k.usable /\ Held(WithCallback(k, s))
<1> DEFINE j == [k EXCEPT !.callback = s]
<1>1. j \in LinkSet /\ j.callback = s /\ j.usable = k.usable /\ Held(j)
  BY DEF LinkSet, LinkRecord, Held
<1> HIDE DEF j
<1>2. WithCallback(k, s) = Opened(j)
  BY Zenon DEF WithCallback, j
<1>3. QED
  BY <1>1, <1>2, OpenedIs

(* Dialled gives the connection its socket. *)
LEMMA OthersAre ==
  ASSUME NEW k \in LinkSet, NEW s \in Sockets
  PROVE  /\ Arrived(k) \in LinkSet /\ Arrived(k).callback = k.callback /\ Arrived(k).phase = "arrived"
         /\ Left(k) \in LinkSet /\ Left(k).callback = k.callback /\ Left(k).phase = k.phase /\ ~Left(k).usable
         /\ Dialled(k, s) \in LinkSet /\ Dialled(k, s).callback = s /\ Dialled(k, s).phase = "offered"
  BY DEF LinkSet, LinkRecord, Phases, Closings, Arrived, Left, Dialled

(* The same phase and callback. *)
LEMMA LinkStays ==
  ASSUME NEW p, NEW j, NEW k, LinkOK(p, k), j.callback = k.callback, j.phase = k.phase
  PROVE  LinkOK(p, j)
  BY DEF LinkOK, Held

(* A connection in the hands of the program. *)
LEMMA LinkHeld ==
  ASSUME NEW p, NEW j, Held(j), p = "TestEchoClient" => j.callback # NoSocket
  PROVE  LinkOK(p, j)
  BY DEF LinkOK, Held

-----------------------------------------------------------------------------
(* A handler is through. *)
LEMMA Handled ==
  ASSUME IInv, UNCHANGED <<program, main, m_bInitDBInfo>>,
         NEW L, NEW M, NEW S, NEW V, Becomes(At(L, M, S, V)), Safe(program, L, M, S, V),
         todo' \subseteq DOMAIN S, program \in {"TestEcho", "RZRQServer"} => todo' = {},
         main # "done" => todo' = {} /\ \A c \in Conns : L[c].callback = NoSocket
  PROVE  IInv'
<1>1. link' = L /\ m_Clients' = M /\ socket' = S /\ visit' = V /\ broken' = FALSE
  BY BecomesSays
<1>2. Safe(program', link', m_Clients', socket', visit')
  BY <1>1
<1>3. main' # "done" => ~m_bInitDBInfo'
  BY Zenon DEF IInv, Loop
<1>4. Loop'
  BY <1>1, <1>3 DEF Loop
<1>5. QED
  BY <1>1, <1>2, <1>4, Zenon DEF IInv

(* The invariant, in the parts that the steps use. *)
LEMMA IInvSays ==
  ASSUME IInv
  PROVE  /\ Here = At(link, m_Clients, socket, visit) /\ Safe(program, link, m_Clients, socket, visit)
         /\ link \in [Conns -> LinkSet] /\ visit \in [Conns -> VisitRecord]
         /\ \A c \in Conns : LinkOK(program, link[c])
         /\ program # "TestEchoClient" => Agree(link, m_Clients, socket)
         /\ program = "TestEchoClient" => ClientAgree(link, socket)
         /\ program \in {"FlashPolicy", "TestEcho", "RZRQServer", "TestEchoClient"}
         /\ todo \subseteq DOMAIN socket /\ (program \in {"TestEcho", "RZRQServer"} => todo = {})
         /\ main # "done" => todo = {} /\ \A c \in Conns : link[c].callback = NoSocket
<1>1. Here = At(link, m_Clients, socket, visit)
  BY HereIs, Zenon DEF IInv
<1>2. Safe(program, link, m_Clients, socket, visit) /\ program \in Programs /\ Loop
  BY Zenon DEF IInv
<1>3. program \in {"FlashPolicy", "TestEcho", "RZRQServer", "TestEchoClient"}
  BY <1>2, ServersAssumption
<1>4. QED
  BY <1>1, <1>2, <1>3 DEF Safe, Types, Sound, Loop, LinkSet

(* There is always an address for a new socket. *)
LEMMA AddressLeft ==
  ASSUME IInv, program # "TestEchoClient", NEW c \in Conns, NEW L, \A d \in Conns : L[d].callback = link[d].callback
  PROVE  Unreferenced(At(L, m_Clients, socket, visit)) # {}
<1> DEFINE v == At(L, m_Clients, socket, visit)
<1>1. Agree(link, m_Clients, socket) /\ IsFiniteSet(Conns) /\ IsFiniteSet(Sockets)
  BY IInvSays, ServersAssumption
<1>2. v.socket = socket /\ v.m_Clients = m_Clients /\ v.link = L
  BY AtFields
<1> HIDE DEF v
<1>3. DOMAIN m_Clients \subseteq Conns
  BY <1>1 DEF Agree
<1>4. IsFiniteSet(DOMAIN m_Clients) /\ Cardinality(DOMAIN m_Clients) <= Cardinality(Conns)
  BY <1>1, <1>3, FS_Subset
<1>5. IsFiniteSet(Range(m_Clients)) /\ Cardinality(Range(m_Clients)) <= Cardinality(DOMAIN m_Clients)
  <2>1. Range(m_Clients) = {m_Clients[d] : d \in DOMAIN m_Clients}
    BY DEF Range
  <2> DEFINE f == [d \in DOMAIN m_Clients |-> m_Clients[d]]
  <2>2. f \in Surjection(DOMAIN m_Clients, Range(m_Clients))
    BY <2>1 DEF Surjection
  <2> HIDE DEF f
  <2>3. QED
    BY <1>4, <2>2, FS_Surjection
<1>6. Cardinality(Conns) \in Nat /\ Cardinality(Sockets) \in Nat /\ Cardinality(Conns) # 0
  BY <1>1, FS_CardinalityType, FS_EmptySet
<1>7. ASSUME Sockets \subseteq Range(m_Clients) PROVE FALSE
  <2>1. Cardinality(Sockets) <= Cardinality(Range(m_Clients))
    BY <1>5, <1>7, FS_Subset
  <2>2. Cardinality(DOMAIN m_Clients) \in Nat /\ Cardinality(Range(m_Clients)) \in Nat
    BY <1>4, <1>5, FS_CardinalityType
  <2>3. Cardinality(Sockets) >= 2 * Cardinality(Conns)
    BY ServersAssumption
  <2>4. QED
    BY <1>4, <1>5, <1>6, <2>1, <2>2, <2>3
<1>8. PICK s \in Sockets : s \notin Range(m_Clients)
  BY <1>7
<1>9. \A d \in Conns : L[d].callback # s
  <2>1. s # NoSocket
    BY Names
  <2>2. ASSUME NEW d \in Conns, link[d].callback = s PROVE s \in Range(m_Clients)
    <3>1. d \in DOMAIN m_Clients /\ m_Clients[d] = s
      BY <1>1, <2>1, <2>2 DEF Agree
    <3>2. QED
      BY <3>1, RangeIs
  <2>3. QED
    BY <1>8, <2>2
<1>10. s \in Unreferenced(v)
  BY <1>1, <1>2, <1>8, <1>9 DEF Unreferenced, Agree
<1>11. QED
  BY <1>10 DEF v

(* OnAccept turns the client away or makes it a socket with a new address. *)
LEMMA InvAccept == ASSUME IInv, NEW c \in Conns, DispatchAccept(c) PROVE IInv'
<1> DEFINE k0 == [link[c] EXCEPT !.phase = "offered"]
           L0 == [link EXCEPT ![c] = k0]
           v  == At(L0, m_Clients, socket, visit)
           s  == CHOOSE x \in Unreferenced(Here) : TRUE
<1>1. /\ Here = At(link, m_Clients, socket, visit) /\ Safe(program, link, m_Clients, socket, visit)
      /\ link \in [Conns -> LinkSet] /\ LinkOK(program, link[c]) /\ todo = {}
      /\ UNCHANGED <<program, main, m_bInitDBInfo, todo>> /\ link[c].phase = "arrived"
  BY IInvSays DEF DispatchAccept, Dispatches
<1>2. program \in {"FlashPolicy", "TestEcho", "RZRQServer"} /\ link[c].callback = NoSocket
  BY <1>1, IInvSays DEF LinkOK, Held
<1>3. /\ k0 \in LinkSet /\ k0.callback = NoSocket /\ k0.usable = link[c].usable /\ k0.phase = "offered" /\ Held(k0)
  BY <1>1, <1>2, OfferedIs
<1>4. [Here EXCEPT !.link[c].phase = "offered"] = v
  BY <1>1 DEF At
<1>5. Becomes(OnAccept(v, c, s))
  BY <1>4 DEF DispatchAccept
<1>6. L0[c] = k0 /\ \A j : [L0 EXCEPT ![c] = j] = [link EXCEPT ![c] = j]
  BY <1>1
<1>7. \A j : [L0 EXCEPT ![c] = j] = [link EXCEPT ![c] = j]
  BY <1>6
<1> HIDE DEF k0, v, s
<1>8. CASE ~AcceptsNow
  <2> DEFINE k == Closed(k0)
             L1 == [link EXCEPT ![c] = k]
  <2>1. k \in LinkSet /\ k.callback = link[c].callback /\ k.phase = "offered" /\ (k.usable => link[c].usable)
    BY <1>2, <1>3, ClosedIs
  <2>2. LinkOK(program, k)
    BY <1>2, <2>1, LinkHeld DEF Held
  <2>3. [L0 EXCEPT ![c] = Closed(@)] = L1
    BY <1>6
  <2> HIDE DEF k
  <2>4. Safe(program, L1, m_Clients, socket, visit)
    BY <1>1, <2>1, <2>2, LinkChange DEF LinkSet
  <2>5. \A d \in Conns : L1[d].callback = link[d].callback
    BY <1>1, <2>1
  <2> HIDE DEF L1, L0
  <2>6. OnAccept(v, c, s) = At(L1, m_Clients, socket, visit)
    <3>1. OnAccept(v, c, s) = At([L0 EXCEPT ![c] = Closed(@)], m_Clients, socket, visit)
      BY <1>8, CloseConnectIs DEF OnAccept, TurnAway, v
    <3>2. QED
      BY <2>3, <3>1
  <2>7. main # "done" => \A d \in Conns : L1[d].callback = NoSocket
    BY <2>5, IInvSays
  <2>8. QED
    BY <1>1, <1>5, <2>4, <2>6, <2>7, Handled
<1>9. CASE AcceptsNow
  <2>1. main = "done"
    BY <1>9, Zenon DEF AcceptsNow, m_bIsInitOK, IInv, Loop
  <2>2. s \in Unreferenced(At(link, m_Clients, socket, visit))
    <3>1. Unreferenced(At(link, m_Clients, socket, visit)) # {}
      BY <1>2, AddressLeft
    <3>2. QED
      BY <1>1, <3>1 DEF s
  <2>3. s \in Sockets /\ s \notin DOMAIN socket /\ s \notin Range(m_Clients)
    BY <2>2, AtFields DEF Unreferenced
  <2>4. c \notin DOMAIN m_Clients
    BY <1>2, IInvSays DEF Agree
  <2> DEFINE k == WithCallback(k0, s)
             L1 == [link EXCEPT ![c] = k]
  <2>5. k \in LinkSet /\ k.callback = s /\ (k.usable => link[c].usable) /\ Held(k)
    BY <1>3, <2>3, WithCallbackIs
  <2>6. [L0 EXCEPT ![c] = WithCallback(@, s)] = L1
    BY <1>6
  <2> HIDE DEF k, L0
  <2>7. PICK r : /\ NewRecord(r, c)
                 /\ OnAccept(v, c, s) = At(L1, With(m_Clients, c, s), With(socket, s, r), visit)
    BY <1>2, <1>9, <2>3, <2>4, <2>6, AcceptIs DEF v
  <2>8. Safe(program, L1, With(m_Clients, c, s), With(socket, s, r), visit)
    BY <1>1, <1>2, <2>3, <2>5, <2>7, AcceptChange DEF LinkSet
  <2> HIDE DEF L1
  <2>9. QED
    BY <1>1, <1>5, <2>1, <2>7, <2>8, Handled
<1>10. QED
  BY <1>8, <1>9

(* A connection of TestEchoClient and its socket. *)
LEMMA ClientSocket ==
  ASSUME IInv, program = "TestEchoClient", NEW c \in Conns, Held(link[c])
  PROVE  LET s == link[c].callback
         IN  /\ s # NoSocket /\ s \in DOMAIN socket /\ socket[s] \in SocketRecord
             /\ socket[s].m_pConnect = c /\ socket[s].m_SocketState \in InUse
             /\ \A d \in Conns : link[d].callback = s => d = c
<1>1. LinkOK(program, link[c]) /\ ClientAgree(link, socket)
  BY IInvSays
<1>2. link[c].callback # NoSocket
  BY <1>1 DEF LinkOK
<1>3. \A t \in DOMAIN socket : socket[t] \in SocketRecord
  BY IInvSays DEF Safe, Types
<1>4. link[c].callback \in DOMAIN socket /\ socket[link[c].callback].m_pConnect = c
  BY <1>1, <1>2 DEF ClientAgree
<1>5. socket[link[c].callback].m_SocketState \in InUse
  BY <1>1, <1>4, Zenon DEF ClientAgree
<1>6. \A d \in Conns : link[d].callback = link[c].callback => d = c
  BY <1>1, <1>2, <1>4 DEF ClientAgree
<1>7. QED
  BY <1>2, <1>3, <1>4, <1>5, <1>6

(* OnConnect of TestEchoClient: the socket was connecting and is connected. *)
LEMMA InvConnect == ASSUME IInv, NEW c \in Conns, DispatchConnect(c) PROVE IInv'
<1> DEFINE s  == link[c].callback
           k  == Opened(link[c])
           L1 == [link EXCEPT ![c] = k]
           r  == [socket[s] EXCEPT !.m_SocketState = "CONNECTED", !.m_ConnectTime = "now"]
           S1 == [socket EXCEPT ![s] = r]
<1>1. /\ Here = At(link, m_Clients, socket, visit) /\ Safe(program, link, m_Clients, socket, visit)
      /\ link \in [Conns -> LinkSet] /\ todo = {} /\ todo' = {}
      /\ UNCHANGED <<program, main, m_bInitDBInfo>>
      /\ program = "TestEchoClient" /\ link[c].phase = "offered"
  BY IInvSays DEF DispatchConnect, Dispatches
<1>2. /\ s # NoSocket /\ s \in DOMAIN socket /\ socket[s] \in SocketRecord /\ socket[s].m_pConnect = c
      /\ \A d \in Conns : link[d].callback = s => d = c
  BY <1>1, ClientSocket DEF Held
<1>3. k \in LinkSet /\ k.callback = s /\ Held(k)
  BY <1>1, OpenedIs DEF Held
<1>4. LinkOK(program, k)
  BY <1>2, <1>3, LinkHeld
<1>5. r \in SocketRecord /\ r.m_SocketState \in InUse /\ r.m_pConnect = c
  BY <1>2 DEF SocketRecord, SocketStates, InUse
<1>6. Counting(socket, s) = S1
  BY DEF Counting
<1>7. Becomes(SocketOnConnect(At(L1, m_Clients, socket, visit), s))
  <2>1. [Here EXCEPT !.link[c] = Opened(@)] = At(L1, m_Clients, socket, visit)
    BY <1>1 DEF At
  <2>2. QED
    BY <2>1 DEF DispatchConnect
<1>8. SocketOnConnect(At(L1, m_Clients, socket, visit), s) = At(L1, m_Clients, S1, visit)
  <2> HIDE DEF L1, S1
  <2>1. QED
    BY <1>1, <1>2, <1>6, SocketOnConnectIs
<1>9. Safe(program, L1, m_Clients, S1, visit)
  <2> HIDE DEF k, r
  <2>1. QED
    BY <1>1, <1>2, <1>3, <1>4, <1>5, ClientChange DEF LinkSet
<1>10. main = "done"
  BY <1>2, IInvSays
<1> HIDE DEF L1, S1
<1>11. QED
  BY <1>1, <1>7, <1>8, <1>9, <1>10, Handled

(* A connection that has a callback, of any program. *)
LEMMA CallbackExists ==
  ASSUME IInv, NEW c \in Conns, link[c].callback # NoSocket
  PROVE  /\ main = "done" /\ link[c].callback \in DOMAIN socket
         /\ program # "TestEchoClient" =>
              c \in DOMAIN m_Clients /\ m_Clients[c] = link[c].callback /\ socket[link[c].callback].m_pConnect = c
<1>1. main = "done"
  BY IInvSays
<1>2. CASE program = "TestEchoClient"
  BY <1>1, <1>2, IInvSays DEF ClientAgree
<1>3. CASE program # "TestEchoClient"
  BY <1>1, <1>3, IInvSays, RangeIs DEF Agree
<1>4. QED
  BY <1>2, <1>3

(* A visit whose four fields are known. *)
(* A visit by its fields. *)
VisitOf(a, g, l, b) == [asks |-> a, given |-> g, logic |-> l, answered |-> b]

(* Setting two fields is setting one after the other. *)
LEMMA VisitTwice ==
  ASSUME NEW v, NEW x, NEW y
  PROVE  /\ [v EXCEPT !.given = x, !.logic = y] = [[v EXCEPT !.given = x] EXCEPT !.logic = y]
         /\ [v EXCEPT !.logic = x, !.answered = y] = [[v EXCEPT !.logic = x] EXCEPT !.answered = y]
  OBVIOUS

(* The two pairs of fields that are set together. *)
Filled(v, x, y)  == [v EXCEPT !.given = x, !.logic = y]
Settled(v, x, y) == [v EXCEPT !.logic = x, !.answered = y]

(* What the two ways to set two fields of a visit give. *)
LEMMA VisitFields ==
  \A a, g, l, b, x, y :
    /\ Filled(VisitOf(a, g, l, b), x, y) = VisitOf(a, x, y, b)
    /\ Settled(VisitOf(a, g, l, b), x, y) = VisitOf(a, g, x, y)
<1> TAKE a, g, l, b, x, y
<1> DEFINE v == VisitOf(a, g, l, b)
           u == VisitOf(a, x, l, b)
           w == VisitOf(a, g, x, b)
<1>1. [v EXCEPT !.given = x] = u /\ [v EXCEPT !.logic = x] = w
  BY DEF VisitOf
<1>2. [u EXCEPT !.logic = y] = VisitOf(a, x, y, b) /\ [w EXCEPT !.answered = y] = VisitOf(a, g, x, y)
  BY DEF VisitOf
<1> HIDE DEF v, u, w
<1>3. [v EXCEPT !.given = x, !.logic = y] = [u EXCEPT !.logic = y]
  BY <1>1, VisitTwice, Zenon
<1>4. [v EXCEPT !.logic = x, !.answered = y] = [w EXCEPT !.answered = y]
  BY <1>1, VisitTwice, Zenon
<1>5. QED
  BY <1>2, <1>3, <1>4 DEF v, Filled, Settled

(* A visit is its four fields. *)
LEMMA FourFields ==
  ASSUME NEW A, NEW G, NEW B, NEW D, NEW y \in [asks : A, given : G, logic : B, answered : D]
  PROVE  y = VisitOf(y.asks, y.given, y.logic, y.answered)
  BY DEF VisitOf

(* A visit with n units more. *)
LEMMA ReceivedIs ==
  ASSUME NEW y \in VisitRecord, NEW n
  PROVE  Received(y, n) = VisitOf(y.asks, y.given + n, y.logic + n, y.answered)
<1>1. y = VisitOf(y.asks, y.given, y.logic, y.answered)
  <2> DEFINE A == BOOLEAN
             G == 0..(Request + 1)
             B == 0..(Request - 1)
  <2>1. y \in [asks : A, given : G, logic : B, answered : A]
    BY Zenon DEF VisitRecord
  <2> HIDE DEF A, G, B
  <2>2. QED
    BY <2>1, FourFields
<1>2. Received(y, n) = Filled(y, y.given + n, y.logic + n)
  BY DEF Received, Filled
<1> DEFINE a == y.asks
           g == y.given
           l == y.logic
           b == y.answered
           g2 == g + n
           l2 == l + n
<1>3. Filled(VisitOf(a, g, l, b), g2, l2) = VisitOf(a, g2, l2, b)
  <2> HIDE DEF a, g, l, b, g2, l2
  <2>1. QED
    BY VisitFields
<1>4. QED
  BY <1>1, <1>2, <1>3, Zenon
(* Data comes: what is kept of it is less than a request, and a request is answered. *)
LEMMA OnMsgVisitIs ==
  ASSUME NEW k, NEW y \in VisitRecord, NEW n \in 1..(Request + 1 - y.given),
         program = "FlashPolicy" => Policy(k, y)
  PROVE  LET x == OnMsgVisit(k, Received(y, n))
         IN  x \in VisitRecord /\ (program = "FlashPolicy" => Policy(k, x))
<1> DEFINE z == Received(y, n)
           x == OnMsgVisit(k, z)
<1>1. Request \in Nat /\ Request >= 1
  BY Names
<1>2. y.given \in 0..(Request + 1) /\ y.logic \in 0..(Request - 1)
  BY DEF VisitRecord
<1>3. y.asks \in BOOLEAN /\ y.answered \in BOOLEAN
  BY Zenon DEF VisitRecord
<1>4. z = VisitOf(y.asks, y.given + n, y.logic + n, y.answered)
  BY ReceivedIs
<1>5. n \in Nat /\ n >= 1 /\ y.given + n \in 0..(Request + 1) /\ y.logic + n \in Nat
  BY <1>1, <1>2
<1> HIDE DEF z
<1>6. CASE program = "FlashPolicy"
  <2> DEFINE a == z.logic - PolicyTaken(z.logic)
             b == z.answered \/ Asked(k, z)
  <2>1. z.given = y.given + n /\ z.logic = y.logic + n
    BY <1>4 DEF VisitOf
  <2>2. z.asks = y.asks /\ z.answered = y.answered
    BY <1>4 DEF VisitOf
  <2>3. x = Settled(z, a, b)
    BY <1>6, Zenon DEF OnMsgVisit, FlashVisit, Settled
  <2>4. b \in BOOLEAN
    BY Zenon, <1>3, <2>2 DEF Asked
  <2>5. a = IF z.logic < Request THEN z.logic ELSE 0
    BY <1>1, <1>5, <2>1 DEF PolicyTaken
  <2>6. a \in 0..(Request - 1)
    BY <1>1, <1>5, <2>1, <2>5
  <2>7. b = (z.answered \/ Asked(k, z))
    OBVIOUS
  <2> HIDE DEF a, b
  <2> DEFINE p == y.asks
             g == y.given + n
             l == y.logic + n
             q == y.answered
  <2>8. x = VisitOf(p, g, a, b)
    <3>1. Settled(VisitOf(p, g, l, q), a, b) = VisitOf(p, g, a, b)
      <4> HIDE DEF p, g, l, q
      <4>1. QED
        BY VisitFields
    <3>2. QED
      BY <1>4, <2>3, <3>1, Zenon
  <2> HIDE DEF x
  <2>9. x \in VisitRecord
    BY <1>3, <1>5, <2>4, <2>6, <2>8, Zenon DEF VisitRecord, VisitOf
  <2>10. x.given = y.given + n /\ x.logic = a
    BY <2>8 DEF VisitOf
  <2>11. x.asks = y.asks /\ x.answered = b
    BY <2>8 DEF VisitOf
  <2>12. Policy(k, y)
    BY <1>6
  <2>13. ASSUME x.given < Request PROVE x.logic = x.given
    BY <1>1, <1>2, <1>5, <2>1, <2>5, <2>10, <2>12, <2>13 DEF Policy
  <2>14. ASSUME x.given = Request PROVE x.logic = 0 /\ z.logic = Request /\ z.given = Request
    <3>1. y.given < Request
      BY <1>1, <1>2, <1>5, <2>10, <2>14
    <3>2. y.logic = y.given
      BY <2>12, <3>1 DEF Policy
    <3>3. z.logic = Request
      BY <2>1, <2>10, <2>14, <3>2
    <3>4. QED
      BY <1>1, <2>1, <2>5, <2>10, <2>14, <3>3
  <2>15. ASSUME x.given = Request, k.usable, x.asks PROVE x.answered
    <3>1. z.asks
      BY <2>2, <2>11, <2>15, Zenon
    <3>2. Asked(k, z)
      BY <2>14, <2>15, <3>1, Zenon DEF Asked
    <3>3. QED
      BY <2>7, <2>11, <3>2, Zenon
  <2>16. Policy(k, x)
    BY <2>13, <2>14, <2>15, Zenon DEF Policy
  <2>17. QED
    BY <2>9, <2>16, Zenon DEF x, z
<1>7. CASE program # "FlashPolicy"
  <2>1. x = [z EXCEPT !.logic = 0]
    BY <1>7 DEF OnMsgVisit
  <2>2. x = VisitOf(y.asks, y.given + n, 0, y.answered)
    BY <1>4, <2>1, Zenon DEF VisitOf
  <2>3. 0 \in 0..(Request - 1)
    BY <1>1
  <2> HIDE DEF x
  <2>4. x \in VisitRecord
    BY <1>3, <1>5, <2>2, <2>3, Zenon DEF VisitRecord, VisitOf
  <2>5. QED
    BY <1>7, <2>4, Zenon DEF x, z
<1>8. QED
  BY <1>6, <1>7

(* OnMsg: sockets and connections stay, and a request is answered or kept. *)
LEMMA InvData == ASSUME IInv, NEW c \in Conns, DispatchData(c) PROVE IInv'
<1> DEFINE s == link[c].callback
<1>1. /\ Here = At(link, m_Clients, socket, visit) /\ Safe(program, link, m_Clients, socket, visit)
      /\ visit \in [Conns -> VisitRecord] /\ todo = {} /\ todo' = {}
      /\ UNCHANGED <<program, main, m_bInitDBInfo>> /\ s # NoSocket
  BY IInvSays DEF DispatchData, Dispatches
<1>2. main = "done" /\ s \in DOMAIN socket
  BY <1>1, CallbackExists
<1>3. PICK n \in 1..(Request + 1 - visit[c].given) :
        Becomes(SocketOnMsg([Here EXCEPT !.visit[c] = Received(@, n)], c, s))
  BY DEF DispatchData
<1> DEFINE z  == Received(visit[c], n)
           V0 == [visit EXCEPT ![c] = z]
           x  == OnMsgVisit(link[c], z)
           V1 == [visit EXCEPT ![c] = x]
<1>4. [Here EXCEPT !.visit[c] = Received(@, n)] = At(link, m_Clients, socket, V0)
  BY <1>1 DEF At
<1>5. SocketOnMsg(At(link, m_Clients, socket, V0), c, s) = At(link, m_Clients, socket, V1)
  <2>1. Answering(link, V0, c) = V1
    BY <1>1 DEF Answering
  <2> HIDE DEF V0, V1, s
  <2>2. SocketOnMsg(At(link, m_Clients, socket, V0), c, s)
          = At(link, m_Clients, socket, Answering(link, V0, c))
    BY <1>2, SocketOnMsgIs
  <2>3. QED
    BY <2>1, <2>2
<1>6. program = "FlashPolicy" => Policy(link[c], visit[c])
  BY <1>1 DEF Safe, Sound
<1>7. x \in VisitRecord /\ (program = "FlashPolicy" => Policy(link[c], x))
  BY <1>1, <1>6, OnMsgVisitIs
<1> HIDE DEF z, x
<1>8. Safe(program, link, m_Clients, socket, V1)
  BY <1>1, <1>7, VisitChange
<1> HIDE DEF V0, V1
<1>9. QED
  BY <1>1, <1>2, <1>3, <1>4, <1>5, <1>8, Handled

(* The end of connection c, for Here, the connections and the visits. *)
Ended(v, c) == [v EXCEPT !.link[c] = NewLink, !.visit[c] = NewVisit(FALSE)]

Freed(L, c) == [L EXCEPT ![c] = NewLink]
Gone(V, c)  == [V EXCEPT ![c] = NewVisit(FALSE)]

(* IOCPClose after the callbacks: the connection waits for its next visit. *)
LEMMA EndedIs ==
  ASSUME NEW L, NEW M, NEW S, NEW V, NEW c
  PROVE  Ended(At(L, M, S, V), c) = At(Freed(L, c), M, S, Gone(V, c))
<1> DEFINE v  == At(L, M, S, V)
           L1 == [L EXCEPT ![c] = NewLink]
           u  == At(L1, M, S, V)
           x  == NewVisit(FALSE)
<1>1. [v EXCEPT !.link[c] = NewLink] = u
  BY DEF At
<1> HIDE DEF L1, x
<1>2. [u EXCEPT !.visit[c] = x] = At(L1, M, S, [V EXCEPT ![c] = x])
  BY DEF At
<1> HIDE DEF v, u
<1>3. Ended(v, c) = [u EXCEPT !.visit[c] = x]
  BY <1>1 DEF Ended, x
<1>4. QED
  BY <1>2, <1>3 DEF v, L1, x, Freed, Gone

(* The callbacks of a close: the socket and its entry go together, if there is one. *)
LEMMA InvClose == ASSUME IInv, NEW c \in Conns, DispatchClose(c) PROVE IInv'
<1> DEFINE s  == link[c].callback
           L1 == [link EXCEPT ![c] = NewLink]
           V1 == [visit EXCEPT ![c] = NewVisit(FALSE)]
           v  == IF s = NoSocket THEN Here ELSE SocketOnClose(Here, s)
<1>1. /\ Here = At(link, m_Clients, socket, visit) /\ Safe(program, link, m_Clients, socket, visit)
      /\ link \in [Conns -> LinkSet] /\ LinkOK(program, link[c]) /\ Held(link[c])
      /\ todo = {} /\ todo' = {} /\ UNCHANGED <<program, main, m_bInitDBInfo>>
  BY IInvSays DEF DispatchClose, Dispatches
<1>2. Becomes(Ended(PoolOnClose(v, c), c))
  BY DEF DispatchClose, Ended
<1>3. main # "done" => \A d \in Conns : L1[d].callback = NoSocket
  BY <1>1, IInvSays, NewLinkIs
<1>4. \A M, S : PoolOnClose(v, c) = At(link, M, S, visit) /\ Safe(program, L1, M, S, V1) => IInv'
  <2> HIDE DEF L1, V1, v
  <2>0. L1 = Freed(link, c) /\ V1 = Gone(visit, c)
    BY DEF L1, V1, Freed, Gone
  <2>1. SUFFICES ASSUME NEW M, NEW S, PoolOnClose(v, c) = At(link, M, S, visit), Safe(program, L1, M, S, V1)
                 PROVE  IInv'
    OBVIOUS
  <2>2. Ended(PoolOnClose(v, c), c) = At(L1, M, S, V1)
    BY <2>0, <2>1, EndedIs
  <2>3. QED
    BY <1>1, <1>2, <1>3, <2>1, <2>2, Handled
<1>5. CASE s = NoSocket
  <2>1. program # "TestEchoClient"
    BY <1>1, <1>5 DEF LinkOK
  <2>2. c \notin DOMAIN m_Clients
    BY <1>5, <2>1, IInvSays DEF Agree
  <2>3. PoolOnClose(v, c) = At(link, m_Clients, socket, visit)
    BY <1>1, <1>5, <2>1, <2>2, DealCloseSocketIs DEF PoolOnClose
  <2>4. Safe(program, L1, m_Clients, socket, V1)
    BY <1>1, <1>5, FreeChange
  <2>5. QED
    BY <1>4, <2>3, <2>4
<1>6. CASE s # NoSocket /\ program # "TestEchoClient"
  <2>1. c \in DOMAIN m_Clients /\ m_Clients[c] = s /\ s \in DOMAIN socket /\ socket[s].m_pConnect = c
    BY <1>6, CallbackExists
  <2>2. program \in {"FlashPolicy", "TestEcho", "RZRQServer"}
    BY <1>6, IInvSays
  <2>3. v = SocketOnClose(At(link, m_Clients, socket, visit), s)
    BY <1>1, <1>6
  <2>4. PoolOnClose(v, c) = At(link, Without(m_Clients, c), Without(socket, s), visit)
    <3> HIDE DEF v, s
    <3>1. QED
      BY <2>1, <2>2, <2>3, OnCloseIs
  <2>5. Safe(program, L1, Without(m_Clients, c), Without(socket, s), V1)
    BY <1>1, <1>6, CloseChange
  <2>6. QED
    BY <1>4, <2>4, <2>5
<1>7. CASE s # NoSocket /\ program = "TestEchoClient"
  <2> DEFINE r  == [socket[s] EXCEPT !.m_SocketState = "CLOSED", !.m_ConnectTime = "zero"]
             S1 == [socket EXCEPT ![s] = r]
  <2>1. /\ s \in DOMAIN socket /\ socket[s] \in SocketRecord /\ socket[s].m_pConnect = c
        /\ \A d \in Conns : link[d].callback = s => d = c
    BY <1>1, <1>7, ClientSocket
  <2>2. r \in SocketRecord /\ r.m_SocketState \notin InUse
    BY <2>1 DEF SocketRecord, SocketStates, InUse
  <2>3. ClientClosed(socket, s) = S1
    BY DEF ClientClosed
  <2>4. v = SocketOnClose(At(link, m_Clients, socket, visit), s)
    BY <1>1, <1>7
  <2>5. PoolOnClose(v, c) = At(link, m_Clients, S1, visit)
    <3> HIDE DEF v, s, S1
    <3>1. QED
      BY <1>7, <2>1, <2>3, <2>4, ClientOnCloseIs
  <2>6. Safe(program, L1, m_Clients, S1, visit)
    <3> HIDE DEF r
    <3>1. QED
      BY <1>1, <1>7, <2>1, <2>2, NewLinkIs, ClientChange
  <2>7. Policy(L1[c], NewVisit(FALSE)) /\ NewVisit(FALSE) \in VisitRecord
    BY NewVisitIs
  <2> HIDE DEF S1, L1
  <2>8. Safe(program, L1, m_Clients, S1, V1)
    BY <2>6, <2>7, VisitChange
  <2>9. QED
    BY <1>4, <2>5, <2>8
<1>8. QED
  BY <1>5, <1>6, <1>7

(* OnTimer starts its loop with sockets that exist. *)
LEMMA InvTimer == ASSUME IInv, Timer PROVE IInv'
<1>1. /\ todo = {} /\ UNCHANGED <<program, main, link, m_Clients, socket, visit, broken>>
      /\ Safe(program, link, m_Clients, socket, visit)
      /\ program \in {"FlashPolicy", "TestEcho", "RZRQServer", "TestEchoClient"}
  BY IInvSays DEF Timer, Dispatches, server
<1>2. Safe(program', link', m_Clients', socket', visit')
  BY <1>1
<1>3. m_bInitDBInfo' \in BOOLEAN /\ (main # "done" => ~m_bInitDBInfo')
  BY Zenon DEF IInv, Loop, Timer, InitDBInfo, m_bIsInitOK
<1>4. todo' \subseteq DOMAIN socket /\ (program \in {"TestEcho", "RZRQServer"} => todo' = {})
      /\ (main # "done" => todo' = {})
  <2>1. CASE program = "FlashPolicy"
    <3>1. todo' = Range(m_Clients) /\ Agree(link, m_Clients, socket)
      BY <2>1, IInvSays DEF Timer
    <3>2. ASSUME main # "done" PROVE todo' = {}
      <4>1. \A c \in Conns : link[c].callback = NoSocket
        BY <3>2, IInvSays
      <4>2. DOMAIN m_Clients = {}
        BY <3>1, <4>1 DEF Agree
      <4>3. QED
        BY <3>1, <4>2, RangeIs
    <3>3. QED
      BY <2>1, <3>1, <3>2 DEF Agree
  <2>2. CASE program = "TestEchoClient" /\ main = "done"
    <3>1. todo' = DOMAIN socket
      BY <2>2 DEF Timer, m_bIsInitOK
    <3>2. QED
      BY <2>2, <3>1
  <2>3. CASE program # "FlashPolicy" /\ ~(program = "TestEchoClient" /\ main = "done")
    <3>1. todo' = {}
      BY <2>3 DEF Timer, m_bIsInitOK
    <3>2. QED
      BY <3>1
  <2>4. QED
    BY <2>1, <2>2, <2>3
<1>5. Loop'
  BY <1>1, <1>3, <1>4, IInvSays, Zenon DEF Loop
<1>6. QED
  BY <1>1, <1>2, <1>3, <1>5, Zenon DEF IInv

(* The timer closes a connection through its socket. *)
LEMMA InvTimerCloses ==
  ASSUME IInv, NEW s \in DOMAIN socket, NEW c \in Conns, socket[s].m_pConnect = c,
         program = "TestEchoClient" => socket[s].m_SocketState \in InUse,
         Becomes(SocketClose(Here, s)), UNCHANGED <<program, main, m_bInitDBInfo>>,
         main = "done", todo' \subseteq DOMAIN socket, program \in {"TestEcho", "RZRQServer"} => todo' = {}
  PROVE  IInv'
<1> DEFINE k  == Closed(link[c])
           r  == [socket[s] EXCEPT !.m_SocketState = "CLOSING"]
           L1 == [link EXCEPT ![c] = k]
           S1 == [socket EXCEPT ![s] = r]
<1>1. /\ Here = At(link, m_Clients, socket, visit) /\ Safe(program, link, m_Clients, socket, visit)
      /\ link \in [Conns -> LinkSet] /\ LinkOK(program, link[c])
  BY IInvSays
<1>2. k \in LinkSet /\ k.callback = link[c].callback /\ k.phase = link[c].phase /\ (k.usable => link[c].usable)
  BY <1>1, ClosedIs
<1>3. LinkOK(program, k)
  BY <1>1, <1>2, LinkStays
<1>4. socket[s] \in SocketRecord
  BY <1>1 DEF Safe, Types
<1>5. r \in SocketRecord /\ r.m_SocketState \in InUse /\ r.m_pConnect = c
  BY <1>4 DEF SocketRecord, SocketStates, InUse
<1>6. Safe(program, L1, m_Clients, socket, visit)
  <2> HIDE DEF k
  <2>1. QED
    BY <1>1, <1>2, <1>3, LinkChange DEF LinkSet
<1>7. Safe(program, L1, m_Clients, S1, visit)
  <2> HIDE DEF r, L1
  <2>1. QED
    BY <1>5, <1>6, SocketChange
<1>8. SocketClose(Here, s) = At(L1, m_Clients, S1, visit)
  <2>1. c # NoConn
    BY Names
  <2>2. SocketClose(Here, s) = At(CutOff(link, c), m_Clients, SetState(socket, s, "CLOSING"), visit)
    BY <1>1, <2>1, SocketCloseIs
  <2>3. CutOff(link, c) = L1 /\ SetState(socket, s, "CLOSING") = S1
    BY DEF SetState, CutOff
  <2> HIDE DEF L1, S1
  <2>4. QED
    BY <2>2, <2>3
<1> HIDE DEF L1, S1
<1>9. DOMAIN S1 = DOMAIN socket
  BY DEF S1
<1>10. QED
  BY <1>7, <1>8, <1>9, Handled

(* A socket that is not in use is nobody's callback. *)
LEMMA NotInUse ==
  ASSUME IInv, program = "TestEchoClient", NEW s \in DOMAIN socket, socket[s].m_SocketState \notin InUse
  PROVE  \A d \in Conns : link[d].callback # s
<1>1. SUFFICES ASSUME NEW d \in Conns, link[d].callback = s PROVE FALSE
  OBVIOUS
<1>2. ClientAgree(link, socket) /\ Safe(program, link, m_Clients, socket, visit)
  BY IInvSays
<1>3. s # NoSocket
  BY <1>2, Names DEF Safe, Types
<1>4. socket[s].m_pConnect = d
  BY <1>1, <1>2, <1>3, Zenon DEF ClientAgree
<1>5. socket[s].m_SocketState \in InUse
  BY <1>1, <1>2, <1>4, Zenon DEF ClientAgree
<1>6. QED
  BY <1>5

(* Connect with a connection, for Here, the connections and the sockets. *)
Calling(v, c, s) ==
  [v EXCEPT !.link[c] = Dialled(@, s), !.socket[s].m_pConnect = c, !.socket[s].m_SocketState = "CONNECTING"]
CalledLink(L, c, s) == [L EXCEPT ![c] = Dialled(@, s)]
CalledSocket(S, c, s) == [S EXCEPT ![s].m_pConnect = c, ![s].m_SocketState = "CONNECTING"]

(* Connect of TestEchoClient that got a connection: three fields are set. *)
LEMMA CallingIs ==
  ASSUME NEW L, NEW M, NEW S, NEW V, NEW c, NEW s
  PROVE  Calling(At(L, M, S, V), c, s) = At(CalledLink(L, c, s), M, CalledSocket(S, c, s), V)
<1> DEFINE v  == At(L, M, S, V)
           L1 == CalledLink(L, c, s)
           S1 == [S EXCEPT ![s].m_pConnect = c]
           u  == At(L1, M, S, V)
           w  == At(L1, M, S1, V)
           z  == At(L1, M, CalledSocket(S, c, s), V)
<1>1. [v EXCEPT !.link[c] = Dialled(@, s)] = u
  BY DEF At, CalledLink
<1>2. [u EXCEPT !.socket[s].m_pConnect = c] = w
  <2> HIDE DEF L1
  <2>1. QED
    BY DEF At
<1>3. [S1 EXCEPT ![s].m_SocketState = "CONNECTING"] = CalledSocket(S, c, s)
  BY DEF CalledSocket
<1>4. [w EXCEPT !.socket[s].m_SocketState = "CONNECTING"] = At(L1, M, [S1 EXCEPT ![s].m_SocketState = "CONNECTING"], V)
  <2> HIDE DEF L1, S1
  <2>1. QED
    BY DEF At
<1>5. [w EXCEPT !.socket[s].m_SocketState = "CONNECTING"] = z
  BY <1>3, <1>4
<1> HIDE DEF v, u, w, z
<1>6. [u EXCEPT !.socket[s].m_pConnect = c, !.socket[s].m_SocketState = "CONNECTING"] = z
  BY <1>2, <1>5
<1>7. Calling(v, c, s) = [u EXCEPT !.socket[s].m_pConnect = c, !.socket[s].m_SocketState = "CONNECTING"]
  BY <1>1 DEF Calling
<1>8. QED
  BY <1>6, <1>7 DEF v, z

(* Connect without one. *)
Failing(v, s) ==
  [v EXCEPT !.socket[s].m_pConnect = NoConn, !.socket[s].m_ConnectTime = "zero", !.socket[s].m_SocketState = "CLOSED"]
FailedSocket(S, s) ==
  [S EXCEPT ![s].m_pConnect = NoConn, ![s].m_ConnectTime = "zero", ![s].m_SocketState = "CLOSED"]

(* Connect of TestEchoClient that got none: three fields of the socket are set. *)
LEMMA FailingIs ==
  ASSUME NEW L, NEW M, NEW S, NEW V, NEW s
  PROVE  Failing(At(L, M, S, V), s) = At(L, M, FailedSocket(S, s), V)
<1> DEFINE v  == At(L, M, S, V)
           S1 == [S EXCEPT ![s].m_pConnect = NoConn]
           S2 == [S1 EXCEPT ![s].m_ConnectTime = "zero"]
           u  == At(L, M, S1, V)
           w  == At(L, M, S2, V)
           z  == At(L, M, FailedSocket(S, s), V)
<1>1. [v EXCEPT !.socket[s].m_pConnect = NoConn] = u
  BY DEF At
<1>2. [S2 EXCEPT ![s].m_SocketState = "CLOSED"] = FailedSocket(S, s)
  BY DEF FailedSocket
<1>3. [u EXCEPT !.socket[s].m_ConnectTime = "zero"] = w
  <2> HIDE DEF S1
  <2>1. QED
    BY DEF At
<1>4. [w EXCEPT !.socket[s].m_SocketState = "CLOSED"] = At(L, M, [S2 EXCEPT ![s].m_SocketState = "CLOSED"], V)
  <2> HIDE DEF S2
  <2>1. QED
    BY DEF At
<1>5. [w EXCEPT !.socket[s].m_SocketState = "CLOSED"] = z
  BY <1>2, <1>4
<1> HIDE DEF v, u, w, z
<1>6. [u EXCEPT !.socket[s].m_ConnectTime = "zero", !.socket[s].m_SocketState = "CLOSED"] = z
  BY <1>3, <1>5
<1>7. Failing(v, s) = [u EXCEPT !.socket[s].m_ConnectTime = "zero", !.socket[s].m_SocketState = "CLOSED"]
  BY <1>1 DEF Failing
<1>8. QED
  BY <1>6, <1>7 DEF v, z

(* Connect of TestEchoClient, with a connection or without. *)
LEMMA InvClientConnect ==
  ASSUME IInv, NEW s \in DOMAIN socket, socket[s].m_SocketState \in {"CLOSED", "NONE"}, ClientConnect(s),
         UNCHANGED <<program, main, m_bInitDBInfo>>, program = "TestEchoClient", main = "done",
         todo' \subseteq DOMAIN socket
  PROVE  IInv'
<1>1. /\ Here = At(link, m_Clients, socket, visit) /\ Safe(program, link, m_Clients, socket, visit)
      /\ link \in [Conns -> LinkSet] /\ s \in Sockets /\ socket[s] \in SocketRecord
  BY IInvSays DEF Safe, Types
<1>2. socket[s].m_SocketState \notin InUse /\ \A d \in Conns : link[d].callback # s
  BY NotInUse DEF InUse
<1>3. ASSUME NEW c \in Conns, Connect(c), Becomes(Calling(Here, c, s)) PROVE IInv'
  <2> DEFINE k  == Dialled(link[c], s)
             r  == [socket[s] EXCEPT !.m_pConnect = c, !.m_SocketState = "CONNECTING"]
             L1 == [link EXCEPT ![c] = k]
             S1 == [socket EXCEPT ![s] = r]
  <2>1. LinkOK(program, link[c]) /\ link[c].phase = "free"
    BY <1>3, IInvSays DEF Connect
  <2>2. link[c].callback = NoSocket
    BY <2>1 DEF LinkOK, Held
  <2>3. k \in LinkSet /\ k.callback = s /\ k.phase = "offered"
    BY <1>1, OthersAre
  <2>4. LinkOK(program, k)
    <3>1. s # NoSocket
      BY <1>1, Names
    <3>2. QED
      BY <2>3, <3>1, LinkHeld DEF Held
  <2>5. r \in SocketRecord /\ r.m_pConnect = c /\ r.m_SocketState \in InUse
    BY <1>1 DEF SocketRecord, SocketStates, InUse
  <2>6. CalledLink(link, c, s) = L1 /\ CalledSocket(socket, c, s) = S1
    BY DEF CalledLink, CalledSocket
  <2>7. Safe(program, L1, m_Clients, S1, visit)
    <3> HIDE DEF k, r
    <3>1. QED
      BY <1>1, <1>2, <2>2, <2>3, <2>4, <2>5, ClientChange DEF LinkSet
  <2>8. DOMAIN S1 = DOMAIN socket
    OBVIOUS
  <2> HIDE DEF L1, S1
  <2>9. Becomes(At(L1, m_Clients, S1, visit))
    BY <1>1, <1>3, <2>6, CallingIs
  <2>10. QED
    BY <2>7, <2>8, <2>9, Handled
<1>4. ASSUME Becomes(Failing(Here, s)) PROVE IInv'
  <2> DEFINE r  == [socket[s] EXCEPT !.m_pConnect = NoConn, !.m_ConnectTime = "zero", !.m_SocketState = "CLOSED"]
             S1 == [socket EXCEPT ![s] = r]
  <2>1. r \in SocketRecord /\ r.m_SocketState \notin InUse
    BY <1>1 DEF SocketRecord, SocketStates, InUse
  <2>2. FailedSocket(socket, s) = S1
    BY DEF FailedSocket
  <2>3. Safe(program, link, m_Clients, S1, visit)
    <3> HIDE DEF r
    <3>1. QED
      BY <1>1, <1>2, <2>1, SocketChange
  <2>4. DOMAIN S1 = DOMAIN socket
    OBVIOUS
  <2> HIDE DEF S1
  <2>5. Becomes(At(link, m_Clients, S1, visit))
    BY <1>1, <1>4, <2>2, FailingIs
  <2>6. QED
    BY <2>3, <2>4, <2>5, Handled
<1>5. (\E c \in Conns : Connect(c) /\ Becomes(Calling(Here, c, s))) \/ Becomes(Failing(Here, s))
  BY Zenon DEF ClientConnect, Calling, Failing
<1>6. QED
  BY <1>3, <1>4, <1>5

(* One socket of the loop of OnTimer. *)
LEMMA InvTimerLoop == ASSUME IInv, NEW s \in Sockets, TimerLoop(s) PROVE IInv'
<1>1. /\ Here = At(link, m_Clients, socket, visit) /\ Safe(program, link, m_Clients, socket, visit)
      /\ s \in todo /\ todo' = todo \ {s} /\ todo \subseteq DOMAIN socket /\ main = "done"
      /\ UNCHANGED <<program, main, m_bInitDBInfo>> /\ program \in {"FlashPolicy", "TestEchoClient"}
  BY IInvSays DEF TimerLoop
<1>2. s \in DOMAIN socket /\ todo' \subseteq DOMAIN socket /\ program \notin {"TestEcho", "RZRQServer"}
  BY <1>1
<1>3. ASSUME Becomes(Here) PROVE IInv'
  BY <1>1, <1>2, <1>3, Handled
<1>4. CASE program = "FlashPolicy"
  <2>1. Becomes(Here) \/ Becomes(SocketClose(Here, s))
    BY <1>4 DEF TimerLoop, FlashCheck
  <2>2. Agree(link, m_Clients, socket) /\ DOMAIN m_Clients \subseteq Conns
    BY <1>4, IInvSays DEF Agree
  <2>3. PICK c \in DOMAIN m_Clients : m_Clients[c] = s
    BY <1>2, <2>2 DEF Agree, Range
  <2>4. c \in Conns /\ socket[s].m_pConnect = c
    BY <2>2, <2>3 DEF Agree
  <2>5. QED
    BY <1>1, <1>2, <1>3, <1>4, <2>1, <2>4, InvTimerCloses
<1>5. CASE program = "TestEchoClient"
  <2>1. ClientCheck(s)
    BY <1>5 DEF TimerLoop
  <2>2. CASE socket[s].m_SocketState \in {"CLOSED", "NONE"}
    <3>1. ClientConnect(s)
      BY <2>1, <2>2 DEF ClientCheck
    <3>2. QED
      BY <1>1, <1>2, <1>5, <2>2, <3>1, InvClientConnect
  <2>3. CASE socket[s].m_SocketState = "CONNECTED"
    <3>1. Becomes(SocketClose(Here, s))
      BY <2>1, <2>3 DEF ClientCheck
    <3>2. ClientAgree(link, socket) /\ socket[s].m_SocketState \in InUse
      BY <1>5, <2>3, IInvSays DEF InUse
    <3>3. PICK c \in Conns : socket[s].m_pConnect = c
      BY <1>2, <3>2, Zenon DEF ClientAgree
    <3>4. QED
      BY <1>1, <1>2, <1>5, <3>1, <3>2, <3>3, InvTimerCloses
  <2>4. CASE socket[s].m_SocketState \notin {"CLOSED", "NONE", "CONNECTED"}
    <3>1. Becomes(Here)
      BY <2>1, <2>4 DEF ClientCheck
    <3>2. QED
      BY <1>3, <3>1
  <2>5. QED
    BY <2>2, <2>3, <2>4
<1>6. QED
  BY <1>1, <1>4, <1>5

(* CConnectPool::Start. *)
LEMMA InvStartPool == ASSUME IInv, StartPool PROVE IInv'
<1>1. Safe(program', link', m_Clients', socket', visit')
  BY IInvSays DEF StartPool, server
<1>2. /\ main = "begun" /\ main' = "started" /\ m_bInitDBInfo' = m_bInitDBInfo /\ todo' = todo
      /\ program' = program /\ link' = link /\ socket' = socket /\ broken' = broken
  BY DEF StartPool, server
<1>3. Loop'
  BY <1>2, Zenon DEF IInv, Loop
<1>4. QED
  BY <1>1, <1>2, <1>3, Zenon DEF IInv

(* The rest of the constructor: TestEchoClient's sockets have no connection yet. *)
LEMMA InvFinishInit == ASSUME IInv, FinishInit PROVE IInv'
<1>1. /\ main = "started" /\ main' = "done" /\ socket = <<>>
      /\ UNCHANGED <<program, m_bInitDBInfo, link, m_Clients, todo, visit, broken>>
  BY DEF FinishInit
<1>2. PICK made \in SUBSET Sockets :
        /\ Cardinality(made) = IF program = "TestEchoClient" THEN Cardinality(Conns) ELSE 0
        /\ socket' = [s \in made |-> NewSocket(NoConn)]
  BY DEF FinishInit
<1>3. /\ Safe(program, link, m_Clients, socket, visit) /\ todo = {}
      /\ \A c \in Conns : link[c].callback = NoSocket
  BY <1>1, IInvSays
<1>4. \A s \in made : socket'[s] \in SocketRecord /\ socket'[s].m_SocketState \notin InUse
  BY <1>2 DEF NewSocket, SocketRecord, SocketStates, InUse
<1>5. DOMAIN socket' = made
  BY <1>2
<1>6. Types(link, m_Clients, socket', visit)
  BY <1>3, <1>4, <1>5 DEF Safe, Types
<1>7. ASSUME program # "TestEchoClient" PROVE Agree(link, m_Clients, socket')
  <2>1. Agree(link, m_Clients, socket)
    BY <1>7, IInvSays
  <2>2. DOMAIN m_Clients = {}
    BY <1>3, <2>1 DEF Agree
  <2>3. made = {}
    <3>1. IsFiniteSet(made) /\ Cardinality(made) = 0
      BY <1>2, <1>7, ServersAssumption, FS_Subset
    <3>2. QED
      BY <3>1, FS_EmptySet
  <2>4. Range(m_Clients) = {}
    BY <2>2, RangeIs
  <2>5. QED
    BY <1>3, <1>5, <2>2, <2>3, <2>4 DEF Agree
<1>8. ClientAgree(link, socket')
  <2>1. \A s \in made : s # NoSocket
    BY Names
  <2>2. QED
    BY <1>3, <1>4, <1>5, <2>1 DEF ClientAgree
<1>9. Safe(program, link, m_Clients, socket', visit)
  BY <1>3, <1>6, <1>7, <1>8 DEF Safe, Sound
<1>10. Safe(program', link', m_Clients', socket', visit')
  BY <1>1, <1>9
<1>11. Loop'
  BY <1>1, <1>3 DEF Loop
<1>12. QED
  BY <1>1, <1>10, <1>11, Zenon DEF IInv

(* What a client does changes a connection, and perhaps its visit. *)
LEMMA PeerStep ==
  ASSUME IInv, UNCHANGED <<program, main, m_bInitDBInfo, m_Clients, socket, todo, broken>>,
         NEW c \in Conns, NEW k, k.callback = link[c].callback, link' = [link EXCEPT ![c] = k],
         Safe(program, link', m_Clients, socket, visit')
  PROVE  IInv'
<1>1. Safe(program', link', m_Clients', socket', visit')
  BY Zenon
<1>2. link \in [Conns -> LinkSet]
  BY IInvSays
<1>3. \A d \in Conns : link'[d].callback = link[d].callback
  BY <1>2
<1>4. main' # "done" => ~m_bInitDBInfo'
  BY Zenon DEF IInv, Loop
<1>5. Loop'
  BY <1>3, <1>4, IInvSays DEF Loop
<1>6. QED
  BY <1>1, <1>5, Zenon DEF IInv

(* A peer leaves. *)
LEMMA InvPeerLeaves == ASSUME IInv, NEW c \in Conns, PeerLeaves(c) PROVE IInv'
<1> DEFINE k == Left(link[c])
<1>1. /\ Safe(program, link, m_Clients, socket, visit) /\ link \in [Conns -> LinkSet]
      /\ LinkOK(program, link[c]) /\ link' = [link EXCEPT ![c] = k] /\ visit' = visit
      /\ UNCHANGED <<program, main, m_bInitDBInfo, m_Clients, socket, todo, broken>>
  BY IInvSays DEF PeerLeaves
<1>2. k \in LinkSet /\ k.callback = link[c].callback /\ k.phase = link[c].phase
  BY <1>1 DEF LinkSet, LinkRecord, Left, Closings
<1>3. ~k.usable
  BY <1>1 DEF LinkSet, LinkRecord, Left
<1>4. LinkOK(program, k)
  BY <1>1, <1>2, LinkStays
<1> HIDE DEF k
<1>5. Safe(program, link', m_Clients, socket, visit')
  BY <1>1, <1>2, <1>3, <1>4, LinkChange DEF LinkSet
<1>6. QED
  BY <1>1, <1>2, <1>5, PeerStep

(* A client comes to a connection that waits, and has no socket yet. *)
LEMMA InvArrive == ASSUME IInv, NEW c \in Conns, Arrive(c) PROVE IInv'
<1> DEFINE k == Arrived(link[c])
<1>1. /\ Safe(program, link, m_Clients, socket, visit) /\ link \in [Conns -> LinkSet]
      /\ LinkOK(program, link[c]) /\ link' = [link EXCEPT ![c] = k]
      /\ program # "TestEchoClient" /\ link[c].phase = "free"
      /\ UNCHANGED <<program, main, m_bInitDBInfo, m_Clients, socket, todo, broken>>
  BY IInvSays DEF Arrive
<1>2. PICK asks \in BOOLEAN : visit' = [visit EXCEPT ![c] = NewVisit(asks)]
  BY DEF Arrive
<1>3. k \in LinkSet /\ k.callback = link[c].callback /\ k.phase = "arrived"
  BY <1>1 DEF LinkSet, LinkRecord, Arrived, Phases
<1>4. link[c].callback = NoSocket
  BY <1>1 DEF LinkOK, Held
<1>5. LinkOK(program, k)
  BY <1>1, <1>3, <1>4 DEF LinkOK
<1> DEFINE x  == NewVisit(asks)
           V1 == [visit EXCEPT ![c] = x]
<1>6. x \in VisitRecord /\ \A j : Policy(j, x)
  BY NewVisitIs
<1> HIDE DEF k, x
<1>7. Safe(program, link, m_Clients, socket, V1)
  BY <1>1, <1>6, VisitChange
<1>8. V1[c] = x
  BY IInvSays
<1>9. visit' = V1
  BY <1>2 DEF x
<1> HIDE DEF V1
<1>10. Safe(program, [link EXCEPT ![c] = k], m_Clients, socket, V1)
  BY <1>3, <1>5, <1>6, <1>7, <1>8, LinkChange DEF LinkSet
<1>11. Safe(program, link', m_Clients, socket, visit')
  BY <1>1, <1>9, <1>10
<1>12. QED
  BY <1>1, <1>3, <1>11, PeerStep

(* It holds when the constructor begins, *)
LEMMA InvInit == Init => IInv
<1> SUFFICES ASSUME Init PROVE IInv
  OBVIOUS
<1>1. /\ program \in Programs /\ main = "begun" /\ m_Clients = <<>> /\ socket = <<>> /\ todo = {}
      /\ link = [c \in Conns |-> NewLink] /\ visit = [c \in Conns |-> NewVisit(FALSE)]
  BY DEF Init
<1>2. m_bInitDBInfo = FALSE /\ broken = FALSE
  BY Zenon DEF Init
<1>3. /\ \A c \in Conns : link[c] = NewLink /\ visit[c] = NewVisit(FALSE)
      /\ link \in [Conns -> LinkRecord(Sockets)]
  BY <1>1, NewLinkIs
<1>4. visit \in [Conns -> VisitRecord]
  BY <1>1, NewVisitIs
<1>5. DOMAIN m_Clients = {} /\ DOMAIN socket = {} /\ Range(m_Clients) = {}
  <2>1. DOMAIN m_Clients = {} /\ DOMAIN socket = {}
    BY <1>1
  <2>2. QED
    BY <2>1 DEF Range
<1>6. Types(link, m_Clients, socket, visit)
  BY <1>3, <1>4, <1>5 DEF Types
<1>7. Agree(link, m_Clients, socket) /\ ClientAgree(link, socket)
  BY <1>3, <1>5, NewLinkIs DEF Agree, ClientAgree
<1>8. \A c \in Conns : LinkOK(program, link[c]) /\ Policy(link[c], visit[c])
  BY <1>3, NewLinkIs, NewVisitIs
<1>9. Safe(program, link, m_Clients, socket, visit)
  BY <1>6, <1>7, <1>8 DEF Safe, Sound
<1>10. Loop
  BY <1>1, <1>2, <1>3, NewLinkIs DEF Loop
<1>11. QED
  BY <1>1, <1>2, <1>9, <1>10, Zenon DEF IInv

(* and every step of the two threads and of the clients keeps it. *)
LEMMA InvStep == IInv /\ [Next]_vars => IInv'
<1> SUFFICES ASSUME IInv, [Next]_vars PROVE IInv'
  OBVIOUS
<1>1. CASE UNCHANGED vars
  BY <1>1, Zenon DEF vars, server, IInv, Loop
<1>2. CASE StartPool
  BY <1>2, InvStartPool
<1>3. CASE FinishInit
  BY <1>3, InvFinishInit
<1>4. ASSUME NEW c \in Conns, Arrive(c) PROVE IInv'
  BY <1>4, InvArrive
<1>5. ASSUME NEW c \in Conns, PeerLeaves(c) PROVE IInv'
  BY <1>5, InvPeerLeaves
<1>6. CASE Timer
  BY <1>6, InvTimer
<1>7. ASSUME NEW s \in Sockets, TimerLoop(s) PROVE IInv'
  BY <1>7, InvTimerLoop
<1>8. ASSUME NEW c \in Conns, DispatchAccept(c) PROVE IInv'
  BY <1>8, InvAccept
<1>9. ASSUME NEW c \in Conns, DispatchConnect(c) PROVE IInv'
  BY <1>9, InvConnect
<1>10. ASSUME NEW c \in Conns, DispatchData(c) PROVE IInv'
  BY <1>10, InvData
<1>11. ASSUME NEW c \in Conns, DispatchClose(c) PROVE IInv'
  BY <1>11, InvClose
<1>12. QED
  BY <1>1, <1>2, <1>3, <1>4, <1>5, <1>6, <1>7, <1>8, <1>9, <1>10, <1>11, Zenon DEF Next, Dispatcher

(* The inductive invariant of the servers: whatever the clients send and   *)
(* whenever they leave, and wherever the constructor of CServer has got.   *)
THEOREM ServersInvariance == Spec => []IInv
  BY InvInit, InvStep, PTL DEF Spec

(* Every state is well formed; between packets FlashPolicy keeps less than *)
(* a request of what a client has sent (OnMsg of CServerSocket).           *)
THEOREM ServersTyping == Spec => []TypeOK
  BY ServersInvariance, SaysTypeOK, PTL

(* No callback of the dispatcher and no turn of OnTimer's loop uses a      *)
(* socket that was deleted, although OnClose of the socket and OnClose of  *)
(* the pool both delete it, and none is forgotten: the callback of the     *)
(* connection, the entry in m_Clients and the socket's m_pConnect agree.   *)
THEOREM SocketsAgreeHolds == Spec => []SocketsAgree
  BY ServersInvariance, SaysSocketsAgree, PTL

(* FlashPolicy's OnMsg has answered each client that has sent the request  *)
(* and nothing else, in whatever pieces, before it was closed.             *)
THEOREM PolicyAnsweredHolds == Spec => []PolicyAnswered
  BY ServersInvariance, SaysPolicyAnswered, PTL
=============================================================================
