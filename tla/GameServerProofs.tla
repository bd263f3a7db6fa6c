-------------------------- MODULE GameServerProofs --------------------------
(***************************************************************************)
(* What holds of the game server for every number of clients, callers and  *)
(* database threads, every bound and every set of speed limits.            *)
(***************************************************************************)
EXTENDS GameServer, FiniteSetTheorems, TLAPS

(* The queue's part of the inductive invariant.  Before the first timer no *)
(* database thread runs, so the timer finds none that has been woken.      *)
QueueType ==
  /\ m_queueMsg \in Seq(1..MaxMsgs) /\ popped \in Seq(1..MaxMsgs)
  /\ m_semaphore \in Nat
  /\ m_lockMsg \in Callers \cup {Nobody}
  /\ thread \in [Threads -> ThreadStates]

QueueInv ==
  /\ QueueType
  /\ ~m_bStartDBThread => \A t \in Threads : thread[t] = "not started"
  /\ SemaphoreCounts

(* The set of the woken threads is finite. *)
LEMMA WokenIsFinite == Woken \in SUBSET Threads /\ IsFiniteSet(Woken) /\ Cardinality(Woken) \in Nat
  BY GameServerAssumption, FS_Subset, FS_CardinalityType DEF Woken

(* A thread that changes from a state other than "woken" to another such. *)
LEMMA WokenSame ==
  ASSUME QueueInv, NEW t \in Threads, NEW s \in ThreadStates,
         thread[t] # "woken", s # "woken", thread' = [thread EXCEPT ![t] = s]
  PROVE  Woken' = Woken /\ thread' \in [Threads -> ThreadStates]
  BY DEF QueueInv, QueueType, Woken

(* The integers of the queue. *)
LEMMA QueueNumbers ==
  ASSUME QueueInv
  PROVE  /\ Len(m_queueMsg) \in Nat /\ Len(popped) \in Nat /\ m_semaphore \in Nat /\ MaxMsgs \in Nat
         /\ Len(m_queueMsg) = m_semaphore + Cardinality(Woken) + Posting
         /\ m_queueMsg \in Seq(1..MaxMsgs) /\ popped \in Seq(1..MaxMsgs)
<1>1. m_queueMsg \in Seq(1..MaxMsgs) /\ popped \in Seq(1..MaxMsgs) /\ m_semaphore \in Nat
  BY DEF QueueInv, QueueType
<1>2. MaxMsgs \in Nat
  BY GameServerAssumption
<1>3. Len(m_queueMsg) = m_semaphore + Cardinality(Woken) + Posting
  BY DEF QueueInv, SemaphoreCounts
<1>4. Len(m_queueMsg) \in Nat /\ Len(popped) \in Nat
  BY <1>1
<1>5. QED
  BY <1>1, <1>2, <1>3, <1>4

LEMMA QueueInit == Init => QueueInv
<1> SUFFICES ASSUME Init PROVE QueueInv
  OBVIOUS
<1>1. Woken = {}
  BY DEF Init, Woken
<1>2. Cardinality(Woken) = 0
  BY <1>1, FS_EmptySet
<1>3. thread \in [Threads -> ThreadStates]
  BY DEF Init, ThreadStates
<1>4. SemaphoreCounts
  <2>1. m_queueMsg = <<>> /\ m_semaphore = 0 /\ m_lockMsg = Nobody
    BY DEF Init
  <2>2. QED
    BY <1>2, <2>1 DEF SemaphoreCounts, Posting
<1>5. \A t \in Threads : thread[t] = "not started"
  BY DEF Init
<1>6. m_queueMsg = <<>> /\ m_semaphore = 0 /\ m_lockMsg = Nobody /\ popped = <<>>
  BY DEF Init
<1>7. QueueType
  BY <1>3, <1>6 DEF QueueType
<1>8. QED
  BY <1>4, <1>5, <1>7 DEF QueueInv

(* Every step that leaves the manager and the threads alone. *)
LEMMA QueueUntouched ==
  ASSUME QueueInv, UNCHANGED <<manager, thread, m_bStartDBThread>>
  PROVE  QueueInv'
  BY DEF QueueInv, QueueType, manager, SemaphoreCounts, Posting, Woken

(* The timer starts threads, none of which has been woken before. *)
LEMMA QueueOnTimer == ASSUME QueueInv, OnTimer PROVE QueueInv'
<1>1. Woken' = Woken
  BY DEF QueueInv, QueueType, OnTimer, Woken
<1>2. thread' \in [Threads -> ThreadStates]
  BY DEF QueueInv, QueueType, OnTimer, ThreadStates
<1>3. QED
  BY <1>1, <1>2 DEF QueueInv, QueueType, OnTimer, manager, SemaphoreCounts, Posting

LEMMA QueuePush == ASSUME QueueInv, NEW p \in Callers, Push(p) PROVE QueueInv'
<1>1. Woken' = Woken /\ Cardinality(Woken) \in Nat
  BY WokenIsFinite DEF Push, Woken
<1>2. Pushed + 1 \in 1..MaxMsgs
  BY QueueNumbers DEF Push, Pushed
<1>3. /\ m_queueMsg' \in Seq(1..MaxMsgs)
      /\ Len(m_queueMsg') = Len(m_queueMsg) + 1
  BY <1>2, QueueNumbers DEF Push
<1>4. p # Nobody
  BY GameServerAssumption
<1>5. SemaphoreCounts'
  BY <1>1, <1>3, <1>4, QueueNumbers DEF Push, SemaphoreCounts, Posting
<1>6. UNCHANGED <<m_bStartDBThread, popped, m_semaphore, thread>> /\ m_lockMsg' = p
  BY DEF Push
<1>7. QED
  BY <1>3, <1>5, <1>6 DEF QueueInv, QueueType

LEMMA QueuePost == ASSUME QueueInv, NEW p \in Callers, Post(p) PROVE QueueInv'
<1>1. Woken' = Woken /\ Cardinality(Woken) \in Nat
  BY WokenIsFinite DEF Post, Woken
<1>2. p # Nobody
  BY GameServerAssumption
<1>3. QED
  <2>1. SemaphoreCounts' /\ m_semaphore' \in Nat
    BY <1>1, <1>2, QueueNumbers DEF Post, SemaphoreCounts, Posting
  <2>2. QueueType'
    BY <2>1 DEF QueueInv, QueueType, Post
  <2>3. UNCHANGED <<m_bStartDBThread, thread>>
    BY DEF Post
  <2>4. QED
    BY <2>1, <2>2, <2>3 DEF QueueInv

LEMMA QueueWait == ASSUME QueueInv, NEW t \in Threads, Wait(t) PROVE QueueInv'
<1>1. Woken' = Woken \cup {t} /\ t \notin Woken
  BY DEF QueueInv, QueueType, Wait, Woken
<1>2. Cardinality(Woken') = Cardinality(Woken) + 1
  BY <1>1, WokenIsFinite, FS_AddElement
<1>3. thread' \in [Threads -> ThreadStates]
  BY DEF QueueInv, QueueType, Wait, ThreadStates
<1>4. m_bStartDBThread
  BY DEF QueueInv, QueueType, Wait
<1>5. QED
  BY <1>2, <1>3, <1>4, WokenIsFinite DEF QueueInv, QueueType, Wait, SemaphoreCounts, Posting

(* A thread that was woken finds a message. *)
LEMMA PopFinds == ASSUME QueueInv, NEW t \in Threads, Pop(t) PROVE Len(m_queueMsg) > 0
<1>1. t \in Woken
  BY DEF Pop, Woken
<1>2. Cardinality(Woken) > 0
  BY <1>1, WokenIsFinite, FS_EmptySet
<1>3. QED
  BY <1>2, WokenIsFinite, QueueNumbers DEF Posting

LEMMA QueuePop == ASSUME QueueInv, NEW t \in Threads, Pop(t) PROVE QueueInv'
<1>1. Woken' = Woken \ {t} /\ t \in Woken
  BY DEF QueueInv, QueueType, Pop, Woken
<1>2. Cardinality(Woken') = Cardinality(Woken) - 1
  BY <1>1, WokenIsFinite, FS_RemoveElement
<1>3. /\ m_queueMsg # <<>> /\ Len(m_queueMsg') = Len(m_queueMsg) - 1
      /\ m_queueMsg' \in Seq(1..MaxMsgs) /\ popped' \in Seq(1..MaxMsgs)
  <2>1. m_queueMsg # <<>>
    BY PopFinds, QueueNumbers
  <2>2. Head(m_queueMsg) \in 1..MaxMsgs
    BY <2>1, QueueNumbers
  <2>3. popped' \in Seq(1..MaxMsgs)
    BY <2>2, QueueNumbers DEF Pop
  <2>4. Tail(m_queueMsg) \in Seq(1..MaxMsgs) /\ Len(Tail(m_queueMsg)) = Len(m_queueMsg) - 1
    BY <2>1, QueueNumbers
  <2>5. QED
    BY <2>1, <2>3, <2>4 DEF Pop
<1>4. thread' \in [Threads -> ThreadStates] /\ m_bStartDBThread
  BY DEF QueueInv, QueueType, Pop, ThreadStates
<1>5. QED
  BY <1>2, <1>3, <1>4, WokenIsFinite DEF QueueInv, QueueType, Pop, SemaphoreCounts, Posting

LEMMA QueueOnRWDBMsg == ASSUME QueueInv, NEW t \in Threads, OnRWDBMsg(t) PROVE QueueInv'
<1>1. Woken' = Woken /\ thread' \in [Threads -> ThreadStates]
  BY WokenSame DEF OnRWDBMsg, ThreadStates
<1>2. m_bStartDBThread
  BY DEF QueueInv, QueueType, OnRWDBMsg
<1>3. QED
  BY <1>1, <1>2 DEF QueueInv, QueueType, OnRWDBMsg, manager, SemaphoreCounts, Posting

LEMMA QueueNext == QueueInv /\ [Next]_vars => QueueInv'
<1> SUFFICES ASSUME QueueInv, [Next]_vars PROVE QueueInv'
  OBVIOUS
<1>1. CASE \E c \in Conns : OnAccept(c) \/ PeerLeaves(c) \/ OnMsg(c) \/ OnClose(c)
  BY <1>1, QueueUntouched DEF OnAccept, PeerLeaves, OnMsg, OnClose
<1>2. CASE OnTimer
  BY <1>2, QueueOnTimer
<1>3. CASE \E p \in Callers : Push(p) \/ Post(p)
  BY <1>3, QueuePush, QueuePost
<1>4. CASE \E t \in Threads : DBMsgThread(t)
  BY <1>4, QueueWait, QueuePop, QueueOnRWDBMsg DEF DBMsgThread
<1>5. CASE UNCHANGED vars
  BY <1>5, QueueUntouched DEF vars
<1>6. QED
  BY <1>1, <1>2, <1>3, <1>4, <1>5 DEF Next

(* The semaphore never lets more threads through than there are messages:  *)
(* PopRWDBMsg (RWDBMsg.h) takes the front of a queue that is not empty,    *)
(* whatever the number of threads and callers.                             *)
THEOREM SemaphoreTheorem == Spec => []SemaphoreCounts
<1>1. QueueInv => SemaphoreCounts
  BY DEF QueueInv, QueueType
<1>2. QED
  BY <1>1, QueueInit, QueueNext, PTL DEF Spec

(* The queue of the database threads implements the channel.               *)
THEOREM QueueIsChannel == Spec => PoppedInOrder
<1>1. Init => Stream!Init
  BY DEF Init, Stream!Init
<1>2. QueueInv /\ [Next]_vars => [Stream!Next]_(Stream!vars)
  <2> SUFFICES ASSUME QueueInv, [Next]_vars, ~UNCHANGED Stream!vars PROVE Stream!Next
    OBVIOUS
  <2>1. CASE \E p \in Callers : Push(p)
    <3>1. Pushed + 1 \in 1..MaxMsgs
      BY <2>1, QueueNumbers DEF Push, Pushed
    <3>2. Stream!Accept
      BY <2>1, <3>1 DEF Push, Stream!Accept
    <3>3. QED
      BY <3>2 DEF Stream!Next
  <2>2. CASE \E t \in Threads : Pop(t)
    <3>1. m_queueMsg # <<>>
      BY <2>2, PopFinds, QueueNumbers
    <3>2. Stream!Deliver
      BY <2>2, <3>1 DEF Pop, Stream!Deliver
    <3>3. QED
      BY <3>2 DEF Stream!Next
  <2>3. QED
    BY <2>1, <2>2 DEF Next, vars, manager, Stream!vars, OnAccept, PeerLeaves, OnMsg, OnClose,
       OnTimer, Post, DBMsgThread, Wait, OnRWDBMsg
<1>3. QED
  BY <1>1, <1>2, QueueInit, QueueNext, PTL DEF Spec, PoppedInOrder, Stream!Spec

-----------------------------------------------------------------------------
(* The clients' part.  A visit starts with a new socket for which nothing  *)
(* has been heard yet, and what is heard follows the socket's step.        *)
Socket == [m_Step : {0, 1}, m_Crypt : {"no key", "key"},
           speed : [DOMAIN Windows -> [age : Nat, count : Nat]]]

Heard == [keys : Nat, joined : BOOLEAN, refused : BOOLEAN]

StepAgrees(s, h) ==
  /\ h.keys <= s.m_Step
  /\ h.joined => s.m_Step = 1
  /\ s.m_Crypt = "key" <=> s.m_Step = 1

ClientInv ==
  /\ heard \in [Conns -> Heard]
  /\ DOMAIN m_LoginSockets \subseteq Conns
  /\ \A c \in DOMAIN m_LoginSockets : m_LoginSockets[c] \in Socket
  /\ \A c \in DOMAIN m_LoginSockets : StepAgrees(m_LoginSockets[c], heard[c])
  /\ \A c \in Conns : c \notin DOMAIN m_LoginSockets => heard[c] = Unheard
  /\ link \in [Conns -> LinkRecord(Conns)]
  /\ \A c \in Conns : link[c].callback = c => c \in DOMAIN m_LoginSockets
  /\ \A c \in DOMAIN m_LoginSockets : link[c].phase # "free"

(* What the sockets carry of the speed limits. *)
LEMMA NewSocket == NewGameSocket \in Socket /\ NewSpeed \in [DOMAIN Windows -> [age : Nat, count : Nat]]
  BY DEF NewGameSocket, NewSpeed, Socket

LEMMA NewAgrees == StepAgrees(NewGameSocket, Unheard)
<1>1. NewGameSocket.m_Step = 0
  BY DEF NewGameSocket
<1>2. Unheard.keys = 0
  BY DEF Unheard
<1>3. Unheard.joined = FALSE
  BY DEF Unheard
<1>4. NewGameSocket.m_Crypt = "no key"
  BY DEF NewGameSocket
<1>5. 0 <= 0 /\ 0 # 1 /\ "no key" # "key"
  OBVIOUS
<1>6. QED
  BY <1>1, <1>2, <1>3, <1>4, <1>5, Zenon DEF StepAgrees

(* A step of the clock or of a counter keeps the type of the speed limits. *)
LEMMA UpToType == \A n, max \in Nat : UpTo(n, max) \in Nat
  BY DEF UpTo

LEMMA SpeedKept ==
  ASSUME NEW s \in Socket
  PROVE  /\ CheckMsgSpeed(s) \in Socket /\ Counted(s) \in Socket /\ Aged(s) \in Socket
         /\ CheckMsgSpeed(s).m_Step = s.m_Step /\ CheckMsgSpeed(s).m_Crypt = s.m_Crypt
         /\ Counted(s).m_Step = s.m_Step /\ Counted(s).m_Crypt = s.m_Crypt
         /\ Aged(s).m_Step = s.m_Step /\ Aged(s).m_Crypt = s.m_Crypt
<1> DEFINE faster == [i \in DOMAIN Windows |->
                        [s.speed[i] EXCEPT !.count = UpTo(@ + 1, Windows[i].packets)]]
           older  == [i \in DOMAIN Windows |->
                        [s.speed[i] EXCEPT !.age = UpTo(@ + 1, Windows[i].seconds)]]
           kept   == [i \in DOMAIN Windows |->
                        IF s.speed[i].age = Windows[i].seconds /\ ~Over(s, i)
                          THEN NewSpeed[i] ELSE s.speed[i]]
           Speeds == [DOMAIN Windows -> [age : Nat, count : Nat]]
<1>1. ASSUME NEW i \in DOMAIN Windows
      PROVE  faster[i] \in [age : Nat, count : Nat] /\ older[i] \in [age : Nat, count : Nat]
  <2>1. Windows[i].packets \in Nat /\ Windows[i].seconds \in Nat
    BY GameServerAssumption
  <2>2. s.speed[i] \in [age : Nat, count : Nat]
    BY DEF Socket
  <2>3. s.speed[i].count + 1 \in Nat /\ s.speed[i].age + 1 \in Nat
    BY <2>2
  <2>4. /\ UpTo(s.speed[i].count + 1, Windows[i].packets) \in Nat
        /\ UpTo(s.speed[i].age + 1, Windows[i].seconds) \in Nat
    BY <2>1, <2>3, UpToType, Zenon
  <2>5. QED
    BY <2>2, <2>4
<1>2. faster \in Speeds /\ older \in Speeds
  BY <1>1
<1>3. kept \in Speeds
  BY NewSocket DEF Socket
<1>4. /\ Counted(s) = [s EXCEPT !.speed = faster]
      /\ Aged(s) = [s EXCEPT !.speed = older]
      /\ CheckMsgSpeed(s) = [s EXCEPT !.speed = kept]
  BY DEF Counted, Aged, CheckMsgSpeed
<1> HIDE DEF faster, older, kept
<1>5. QED
  BY <1>2, <1>3, <1>4 DEF Socket

LEMMA ClientInit == Init => ClientInv
<1> SUFFICES ASSUME Init PROVE ClientInv
  OBVIOUS
<1>1. link = [c \in Conns |-> NewLink] /\ heard = [c \in Conns |-> Unheard] /\ m_LoginSockets = <<>>
  BY DEF Init
<1>2. DOMAIN m_LoginSockets = {}
  BY <1>1
<1>3. Unheard \in Heard
  BY DEF Unheard, Heard
<1>4. NewLink \in LinkRecord(Conns) /\ NewLink.callback = NoSocket /\ NoSocket \notin Conns
  BY GameServerAssumption DEF NewLink, LinkRecord, Phases, Closings
<1>5. QED
  BY <1>1, <1>2, <1>3, <1>4 DEF ClientInv

LEMMA ClientUntouched ==
  ASSUME ClientInv, UNCHANGED game
  PROVE  ClientInv'
  BY DEF ClientInv, game

(* A record of a connection after the steps of Visit. *)
LEMMA LinkSteps ==
  ASSUME NEW k \in LinkRecord(Conns), NEW c \in Conns
  PROVE  /\ Left(k) \in LinkRecord(Conns) /\ Left(k).callback = k.callback /\ Left(k).phase = k.phase
         /\ Closed(k) \in LinkRecord(Conns) /\ Closed(k).callback = k.callback /\ Closed(k).phase = k.phase
         /\ LET a == [Arrived(k) EXCEPT !.phase = "offered"]
            IN  /\ a \in LinkRecord(Conns) /\ a.callback = k.callback
                /\ WithCallback(a, c) \in LinkRecord(Conns) /\ WithCallback(a, c).phase # "free"
  BY DEF LinkRecord, Left, Closed, Arrived, WithCallback, Opened, Phases, Closings

(* A client that arrives is given a new socket, or is turned away. *)
LEMMA ClientOnAccept == ASSUME ClientInv, NEW c \in Conns, OnAccept(c) PROVE ClientInv'
<1> DEFINE a == [Arrived(link[c]) EXCEPT !.phase = "offered"]
<1>1. link[c] \in LinkRecord(Conns)
  BY DEF ClientInv
<1>2. CASE m_bInitDBInfo
  <2>1. link' = [link EXCEPT ![c] = WithCallback(a, c)] /\ UNCHANGED heard
    BY <1>2 DEF OnAccept
  <2>2. m_LoginSockets' = [d \in DOMAIN m_LoginSockets \cup {c} |->
                             IF d = c THEN NewGameSocket ELSE m_LoginSockets[d]]
    BY <1>2 DEF OnAccept
  <2>3. /\ DOMAIN m_LoginSockets' = {c} \cup DOMAIN m_LoginSockets
        /\ m_LoginSockets'[c] = NewGameSocket
        /\ \A d \in DOMAIN m_LoginSockets \ {c} : m_LoginSockets'[d] = m_LoginSockets[d]
    BY <2>2
  <2>4. c \notin DOMAIN m_LoginSockets /\ heard[c] = Unheard
    BY DEF ClientInv, OnAccept
  <2>5. StepAgrees(NewGameSocket, Unheard) /\ NewGameSocket \in Socket
    BY NewSocket, NewAgrees
  <2>6. WithCallback(a, c) \in LinkRecord(Conns) /\ WithCallback(a, c).phase # "free"
    BY <1>1, LinkSteps
  <2>7. QED
    BY <2>1, <2>3, <2>4, <2>5, <2>6 DEF ClientInv
<1>3. CASE ~m_bInitDBInfo
  <2>1. link' = [link EXCEPT ![c] = Closed(a)] /\ UNCHANGED <<heard, m_LoginSockets>>
    BY <1>3 DEF OnAccept
  <2>2. a \in LinkRecord(Conns) /\ a.callback = link[c].callback /\ a.phase # "free"
    BY <1>1, LinkSteps DEF LinkRecord, Arrived
  <2> HIDE DEF a
  <2>3. /\ Closed(a) \in LinkRecord(Conns)
        /\ Closed(a).callback = link[c].callback /\ Closed(a).phase # "free"
    BY <2>2, LinkSteps
  <2>4. QED
    BY <2>1, <2>3 DEF ClientInv
<1>4. QED
  BY <1>2, <1>3

LEMMA ClientPeerLeaves == ASSUME ClientInv, NEW c \in Conns, PeerLeaves(c) PROVE ClientInv'
<1>1. link[c] \in LinkRecord(Conns)
  BY DEF ClientInv
<1>2. /\ Left(link[c]) \in LinkRecord(Conns)
      /\ Left(link[c]).callback = link[c].callback /\ Left(link[c]).phase = link[c].phase
  BY <1>1, LinkSteps
<1>3. link' = [link EXCEPT ![c] = Left(link[c])] /\ UNCHANGED <<heard, m_LoginSockets>>
  BY DEF PeerLeaves
<1>4. QED
  BY <1>2, <1>3 DEF ClientInv

(* The socket goes with what was heard of it. *)
LEMMA ClientOnClose == ASSUME ClientInv, NEW c \in Conns, OnClose(c) PROVE ClientInv'
<1>1. /\ link' = [link EXCEPT ![c] = NewLink]
      /\ m_LoginSockets' = [d \in DOMAIN m_LoginSockets \ {c} |-> m_LoginSockets[d]]
      /\ heard' = [heard EXCEPT ![c] = Unheard]
  BY DEF OnClose, Restrict
<1>2. NewLink \in LinkRecord(Conns) /\ NewLink.callback = NoSocket /\ NoSocket \notin Conns
  BY GameServerAssumption DEF NewLink, LinkRecord, Phases, Closings
<1>3. Unheard \in Heard
  BY DEF Unheard, Heard
<1>4. QED
  BY <1>1, <1>2, <1>3 DEF ClientInv

LEMMA ClientOnTimer == ASSUME ClientInv, OnTimer PROVE ClientInv'
<1>1. /\ m_LoginSockets' = [c \in DOMAIN m_LoginSockets |-> Aged(m_LoginSockets[c])]
      /\ UNCHANGED <<link, heard>>
  BY DEF OnTimer
<1>2. ASSUME NEW c \in DOMAIN m_LoginSockets
      PROVE  Aged(m_LoginSockets[c]) \in Socket /\ StepAgrees(Aged(m_LoginSockets[c]), heard[c])
  <2>1. m_LoginSockets[c] \in Socket /\ StepAgrees(m_LoginSockets[c], heard[c])
    BY DEF ClientInv
  <2>2. QED
    BY <2>1, SpeedKept DEF StepAgrees
<1>3. QED
  BY <1>1, <1>2 DEF ClientInv

(* A message takes its client one step at most, and a key is sent exactly  *)
(* in the step that makes the server decrypt with it.                      *)
LEMMA HandledStep ==
  ASSUME NEW c, NEW s \in Socket, NEW msg \in Messages, NEW explained \in BOOLEAN
  PROVE  LET h == Handled(c, s, msg, explained)
         IN  /\ h.socket \in Socket /\ h.keys \in {0, 1}
             /\ \/ h.socket = s /\ h.keys = 0
                \/ /\ s.m_Step = 0 /\ h.keys = 1
                   /\ h.socket.m_Step = 1 /\ h.socket.m_Crypt = "key"
             /\ msg = "ReqGamePlayerConnect" /\ h.result = "0" => s.m_Step = 1
<1>1. CASE msg = "ReqKey"
  <2>1. Handled(c, s, msg, explained) = OnReqKey(s, explained)
    BY <1>1 DEF Handled
  <2>2. CASE explained /\ s.m_Step = 0
    <3> DEFINE t == [s EXCEPT !.m_Step = 1, !.m_Crypt = "key"]
    <3>1. OnReqKey(s, explained) = [socket |-> t, result |-> "0", keys |-> 1]
      BY <2>2 DEF OnReqKey
    <3>2. t \in Socket /\ t.m_Step = 1 /\ t.m_Crypt = "key"
      BY DEF Socket
    <3> HIDE DEF t
    <3>3. msg # "ReqGamePlayerConnect"
      BY <1>1
    <3>4. /\ Handled(c, s, msg, explained).socket = t
          /\ Handled(c, s, msg, explained).keys = 1
      BY <2>1, <3>1
    <3>5. QED
      BY <2>2, <3>2, <3>3, <3>4
  <2>3. CASE ~explained
    <3>1. Handled(c, s, msg, explained) = [socket |-> s, result |-> "STREAM", keys |-> 0]
      BY <2>1, <2>3 DEF OnReqKey
    <3>2. QED
      BY <1>1, <3>1
  <2>4. CASE explained /\ s.m_Step # 0
    <3>1. Handled(c, s, msg, explained) = [socket |-> s, result |-> "STEPERROR", keys |-> 0]
      BY <2>1, <2>4 DEF OnReqKey
    <3>2. QED
      BY <1>1, <3>1
  <2>5. QED
    BY <2>2, <2>3, <2>4
<1>2. CASE msg = "ReqGamePlayerConnect"
  BY <1>2 DEF Handled
<1>3. CASE msg = "Req_Heart"
  BY <1>3 DEF Handled
<1>4. CASE msg = "other"
  BY <1>4 DEF Handled
<1>5. QED
  BY <1>1, <1>2, <1>3, <1>4 DEF Messages

LEMMA ClientHeartThrows ==
  ASSUME ClientInv, NEW c \in Conns, link[c].callback = c, HeartThrows(c) PROVE ClientInv'
<1>1. /\ c \in DOMAIN m_LoginSockets /\ m_LoginSockets[c] \in Socket
      /\ StepAgrees(m_LoginSockets[c], heard[c])
  BY DEF ClientInv
<1> DEFINE next == Counted(m_LoginSockets[c])
<1>2. next \in Socket /\ StepAgrees(next, heard[c])
  BY <1>1, SpeedKept DEF StepAgrees
<1>3. m_LoginSockets' = [m_LoginSockets EXCEPT ![c] = next] /\ UNCHANGED <<link, heard>>
  BY DEF HeartThrows
<1> HIDE DEF next
<1>4. QED
  BY <1>1, <1>2, <1>3 DEF ClientInv

LEMMA ClientTransMsg ==
  ASSUME ClientInv, NEW c \in Conns, link[c].callback = c,
         NEW msg \in Messages, NEW explained \in BOOLEAN, TransMsg(c, msg, explained)
  PROVE  ClientInv'
<1>1. TransMsg(c, msg, explained)
  OBVIOUS
<1> DEFINE s == Counted(m_LoginSockets[c])
           h == Handled(c, s, msg, explained)
           result == IF TooFast(h.socket) THEN "CLOSE" ELSE h.result
           k == IF Ends(result) THEN Closed(link[c]) ELSE link[c]
           sent == IF link[c].usable THEN h.keys ELSE 0
           keys == UpTo(heard[c].keys + sent, 2)
           joined == heard[c].joined \/ (msg = "ReqGamePlayerConnect" /\ h.result = "0")
           refused == heard[c].refused \/ (result # "0")
<1>2. /\ m_LoginSockets' = [m_LoginSockets EXCEPT ![c] = CheckMsgSpeed(h.socket)]
      /\ link' = [link EXCEPT ![c] = k]
      /\ heard' = [heard EXCEPT ![c] = [keys |-> keys, joined |-> joined, refused |-> refused]]
  BY <1>1 DEF TransMsg
<1>3. /\ c \in DOMAIN m_LoginSockets /\ m_LoginSockets[c] \in Socket
      /\ heard[c] \in Heard /\ link[c] \in LinkRecord(Conns)
      /\ StepAgrees(m_LoginSockets[c], heard[c])
  BY DEF ClientInv
<1>4. s \in Socket /\ StepAgrees(s, heard[c])
  BY <1>3, SpeedKept DEF StepAgrees
<1>5. k \in LinkRecord(Conns) /\ k.callback = link[c].callback /\ k.phase = link[c].phase
  BY <1>3, LinkSteps
<1>6. /\ h.socket \in Socket /\ h.keys \in {0, 1}
      /\ \/ h.socket = s /\ h.keys = 0
         \/ s.m_Step = 0 /\ h.keys = 1 /\ h.socket.m_Step = 1 /\ h.socket.m_Crypt = "key"
      /\ msg = "ReqGamePlayerConnect" /\ h.result = "0" => s.m_Step = 1
  BY <1>4, HandledStep
<1> HIDE DEF s, h, k, result
<1>7. keys \in Nat /\ keys <= h.socket.m_Step
  <2>1. heard[c].keys \in Nat /\ sent \in {0, 1} /\ s.m_Step \in {0, 1} /\ h.socket.m_Step \in {0, 1}
    BY <1>3, <1>4, <1>6 DEF Heard, Socket
  <2>2. heard[c].keys <= s.m_Step
    BY <1>4, Zenon DEF StepAgrees
  <2>3. heard[c].keys + sent <= h.socket.m_Step
    BY <1>6, <2>1, <2>2
  <2> HIDE DEF sent
  <2>4. QED
    BY <2>1, <2>3 DEF UpTo
<1>8. joined => h.socket.m_Step = 1
  BY <1>4, <1>6 DEF StepAgrees
<1>9. h.socket.m_Crypt = "key" <=> h.socket.m_Step = 1
  BY <1>4, <1>6 DEF StepAgrees
<1> DEFINE new == [keys |-> keys, joined |-> joined, refused |-> refused]
<1>10. heard' = [heard EXCEPT ![c] = new]
  BY <1>2
<1>11. new \in Heard
  BY <1>7 DEF Heard
<1>12. CheckMsgSpeed(h.socket) \in Socket /\ StepAgrees(CheckMsgSpeed(h.socket), new)
  BY <1>6, <1>7, <1>8, <1>9, SpeedKept DEF StepAgrees
<1> HIDE DEF new
<1>13. QED
  <2> DEFINE next == CheckMsgSpeed(h.socket)
  <2> HIDE DEF next
  <2>1. /\ m_LoginSockets' = [m_LoginSockets EXCEPT ![c] = next]
        /\ next \in Socket /\ StepAgrees(next, new)
    BY <1>2, <1>12 DEF next
  <2>2. heard' \in [Conns -> Heard]
    BY <1>10, <1>11 DEF ClientInv
  <2>3. DOMAIN m_LoginSockets' = DOMAIN m_LoginSockets /\ DOMAIN m_LoginSockets \subseteq Conns
    BY <2>1 DEF ClientInv
  <2>4. \A d \in DOMAIN m_LoginSockets' : m_LoginSockets'[d] \in Socket
    BY <2>1 DEF ClientInv
  <2>5. \A d \in DOMAIN m_LoginSockets' : StepAgrees(m_LoginSockets'[d], heard'[d])
    <3> TAKE d \in DOMAIN m_LoginSockets'
    <3>1. d \in DOMAIN m_LoginSockets /\ d \in Conns /\ heard \in [Conns -> Heard]
      BY <2>3 DEF ClientInv
    <3>2. CASE d = c
      BY <1>10, <2>1, <3>1, <3>2
    <3>3. CASE d # c
      BY <1>10, <2>1, <3>1, <3>3 DEF ClientInv
    <3>4. QED
      BY <3>2, <3>3
  <2>6. \A d \in Conns : d \notin DOMAIN m_LoginSockets' => heard'[d] = Unheard
    BY <1>3, <1>10, <2>3 DEF ClientInv
  <2>7. link' \in [Conns -> LinkRecord(Conns)]
    BY <1>2, <1>5 DEF ClientInv
  <2>8. /\ \A d \in Conns : link'[d].callback = d => d \in DOMAIN m_LoginSockets'
        /\ \A d \in DOMAIN m_LoginSockets' : link'[d].phase # "free"
    BY <1>2, <1>3, <1>5, <2>3 DEF ClientInv
  <2>9. QED
    BY <2>2, <2>3, <2>4, <2>5, <2>6, <2>7, <2>8 DEF ClientInv

LEMMA ClientOnMsg == ASSUME ClientInv, NEW c \in Conns, OnMsg(c) PROVE ClientInv'
<1>1. CASE \E msg \in Messages, explained \in BOOLEAN : TransMsg(c, msg, explained)
  BY <1>1, ClientTransMsg DEF OnMsg
<1>2. CASE HeartThrows(c)
  BY <1>2, ClientHeartThrows DEF OnMsg
<1>3. QED
  BY <1>1, <1>2 DEF OnMsg

LEMMA ClientNext == ClientInv /\ [Next]_vars => ClientInv'
<1> SUFFICES ASSUME ClientInv, [Next]_vars PROVE ClientInv'
  OBVIOUS
<1>1. CASE \E c \in Conns : OnAccept(c) \/ PeerLeaves(c) \/ OnMsg(c) \/ OnClose(c)
  BY <1>1, ClientOnAccept, ClientPeerLeaves, ClientOnMsg, ClientOnClose
<1>2. CASE OnTimer
  BY <1>2, ClientOnTimer
<1>3. CASE \E p \in Callers : Push(p) \/ Post(p)
  BY <1>3, ClientUntouched DEF Push, Post
<1>4. CASE \E t \in Threads : DBMsgThread(t)
  BY <1>4, ClientUntouched DEF DBMsgThread, Wait, Pop, OnRWDBMsg
<1>5. CASE UNCHANGED vars
  BY <1>5, ClientUntouched DEF vars
<1>6. QED
  BY <1>1, <1>2, <1>3, <1>4, <1>5 DEF Next

(* No client gets two keys, and none is taken in before it has one,        *)
(* whatever it sends in whatever order (GameServerSocket.cpp, m_Step).     *)
THEOREM OneKeyTheorem == Spec => []OneKey
<1>1. ClientInv => OneKey
  <2> SUFFICES ASSUME ClientInv, NEW c \in DOMAIN m_LoginSockets
               PROVE  /\ heard[c].keys <= 1
                      /\ heard[c].joined => m_LoginSockets[c].m_Step = 1
                      /\ m_LoginSockets[c].m_Crypt = "key" <=> m_LoginSockets[c].m_Step = 1
    BY DEF OneKey
  <2>1. /\ m_LoginSockets[c] \in Socket /\ heard[c] \in Heard
        /\ StepAgrees(m_LoginSockets[c], heard[c])
    BY DEF ClientInv
  <2>2. heard[c].keys <= 1
    <3>1. heard[c].keys \in Nat /\ m_LoginSockets[c].m_Step \in {0, 1}
      BY <2>1 DEF Socket, Heard
    <3>2. heard[c].keys <= m_LoginSockets[c].m_Step
      BY <2>1, Zenon DEF StepAgrees
    <3>3. QED
      BY <3>1, <3>2
  <2>3. QED
    BY <2>1, <2>2 DEF StepAgrees
<1>2. QED
  BY <1>1, ClientInit, ClientNext, PTL DEF Spec
=============================================================================
