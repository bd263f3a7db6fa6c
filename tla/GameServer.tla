----------------------------- MODULE GameServer -----------------------------
(***************************************************************************)
(* The RZRQ server behind its sockets: what a GameServerSocket makes of    *)
(* the messages of its client (GameServerSocket.cpp, CServer), and the     *)
(* queue through which the threads that work with the database get theirs  *)
(* (RWDBMsg.h, DBMsgThread).  The dispatcher's thread handles messages and *)
(* the timer, which starts the database threads; those and the callers of  *)
(* PushRWDBMsg run beside it.  The map of sockets is modelled in Servers,  *)
(* the bytes of a message in MessageStream.                                *)
(***************************************************************************)
EXTENDS Visit, Integers, FiniteSets, Sequences, Functions

CONSTANTS
  Conns,       \* the IConnect objects
  Windows,     \* the speed limits: [seconds, packets] of each
  Threads,     \* DBMsgThread objects
  Callers,     \* threads that call PushRWDBMsg
  Nobody,      \* no thread
  MaxMsgs      \* bound: messages pushed in a run

ASSUME GameServerAssumption ==
  /\ IsFiniteSet(Conns) /\ IsFiniteSet(Threads) /\ IsFiniteSet(Callers)
  /\ \A i \in DOMAIN Windows : Windows[i].seconds \in Nat \ {0} /\ Windows[i].packets \in Nat \ {0}
  /\ Nobody \notin Callers \cup Threads /\ NoSocket \notin Conns
  /\ MaxMsgs \in Nat

VARIABLES
  link,             \* the connections
  m_LoginSockets,   \* connection -> its GameServerSocket
  heard,            \* history of a visit: key messages sent to the client, whether
                    \* it was taken in, whether it was refused
  m_bInitDBInfo, m_bStartDBThread,
  m_queueMsg,       \* RWDBMsgManage: the messages,
  m_semaphore,      \* the count of the semaphore
  m_lockMsg,        \* and who holds the lock
  thread,           \* where a database thread is
  popped            \* history: the messages taken out

game == <<link, m_LoginSockets, heard>>
manager == <<m_queueMsg, m_semaphore, m_lockMsg, popped>>
vars == <<game, m_bInitDBInfo, m_bStartDBThread, manager, thread>>

(* Message ids; any other is for a player, and there never is one.         *)
Messages == {"ReqKey", "ReqGamePlayerConnect", "Req_Heart", "other"}

(* What a handler returns: 0, or a code that ends the connection.          *)
Results == {"0", "STREAM", "NOSOCKET", "NOSERVER", "NOPLAYER", "STEPERROR", "CLOSE"}

(* Of a speed limit: the seconds since it was last kept and the packets of *)
(* that time, each up to what the limit names.                             *)
NewSpeed == [i \in DOMAIN Windows |-> [age |-> 0, count |-> 0]]

NewGameSocket == [m_Step |-> 0, m_Crypt |-> "no key", speed |-> NewSpeed]

Unheard == [keys |-> 0, joined |-> FALSE, refused |-> FALSE]

UpTo(n, max) == IF n < max THEN n ELSE max

-----------------------------------------------------------------------------
(* GameServerSocket.                                                       *)

Init ==
  /\ link = [c \in Conns |-> NewLink]
  /\ m_LoginSockets = <<>>
  /\ heard = [c \in Conns |-> Unheard]
  /\ m_bInitDBInfo = FALSE /\ m_bStartDBThread = FALSE
  /\ m_queueMsg = <<>> /\ m_semaphore = 0 /\ m_lockMsg = Nobody /\ popped = <<>>
  /\ thread = [t \in Threads |-> "not started"]

(* The dispatcher tells of a client: CServer::OnAccept. *)
OnAccept(c) ==
  /\ link[c].phase = "free"
  /\ IF m_bInitDBInfo
       THEN /\ link' = [link EXCEPT ![c] = WithCallback([Arrived(@) EXCEPT !.phase = "offered"], c)]
            /\ m_LoginSockets' = [d \in DOMAIN m_LoginSockets \cup {c} |->
                                   IF d = c THEN NewGameSocket ELSE m_LoginSockets[d]]
       ELSE /\ link' = [link EXCEPT ![c] = Closed([Arrived(@) EXCEPT !.phase = "offered"])]
            /\ UNCHANGED m_LoginSockets
  /\ UNCHANGED <<heard, m_bInitDBInfo, m_bStartDBThread, manager, thread>>

PeerLeaves(c) ==
  /\ link[c].usable
  /\ link' = [link EXCEPT ![c] = Left(@)]
  /\ UNCHANGED <<m_LoginSockets, heard, m_bInitDBInfo, m_bStartDBThread, manager, thread>>

(* OnClose, which makes the server delete the socket. *)
OnClose(c) ==
  /\ link[c].closing # "no"
  /\ link' = [link EXCEPT ![c] = NewLink]
  /\ m_LoginSockets' = Restrict(m_LoginSockets, DOMAIN m_LoginSockets \ {c})
  /\ heard' = [heard EXCEPT ![c] = Unheard]
  /\ UNCHANGED <<m_bInitDBInfo, m_bStartDBThread, manager, thread>>

(* FinishMsg counts the packet. *)
Counted(s) ==
  [s EXCEPT !.speed = [i \in DOMAIN Windows |->
     [s.speed[i] EXCEPT !.count = UpTo(@ + 1, Windows[i].packets)]]]

(* A second more.                                                          *)
Aged(s) ==
  [s EXCEPT !.speed = [i \in DOMAIN Windows |->
     [s.speed[i] EXCEPT !.age = UpTo(@ + 1, Windows[i].seconds)]]]

Over(s, i) ==
  s.speed[i].age = Windows[i].seconds /\ s.speed[i].count = Windows[i].packets

(* CheckMsgSpeed: a limit that was kept is measured anew. *)
TooFast(s) == \E i \in DOMAIN Windows : Over(s, i)
CheckMsgSpeed(s) ==
  [s EXCEPT !.speed = [i \in DOMAIN Windows |->
     IF s.speed[i].age = Windows[i].seconds /\ ~Over(s, i) THEN NewSpeed[i] ELSE @[i]]]

(* Mutation of OnReqKey: m_Step is not set. *)
KeyEveryTime(s, explained) ==
  CASE ~explained -> [socket |-> s, result |-> "STREAM", keys |-> 0]
    [] explained /\ s.m_Step = 0 -> [socket |-> [s EXCEPT !.m_Crypt = "key"], result |-> "0", keys |-> 1]
    [] OTHER -> [socket |-> s, result |-> "STEPERROR", keys |-> 0]

(* The first request for a key is answered with one, which is then set. *)
OnReqKey(s, explained) ==
  CASE ~explained -> [socket |-> s, result |-> "STREAM", keys |-> 0]
    [] explained /\ s.m_Step = 0 -> [socket |-> [s EXCEPT !.m_Step = 1, !.m_Crypt = "key"], result |-> "0", keys |-> 1]
    [] OTHER -> [socket |-> s, result |-> "STEPERROR", keys |-> 0]

(* CServer::OnPlayerConnect; the socket is found as long as it exists. *)
OnPlayerConnect(c, explained) ==
  IF ~explained THEN "STREAM"
  ELSE IF c \notin DOMAIN m_LoginSockets THEN "NOSOCKET" ELSE "0"

(* Mutation of Ends: an error of the order of messages does not close. *)
EndsUnlessStep(result) == result \notin {"0", "STEPERROR", "NOSERVER"}

Ends(result) == result # "0"

(* The handler of a message, by its id.                                    *)
Handled(c, s, msg, explained) ==
  CASE msg = "ReqKey" -> OnReqKey(s, explained)
    [] msg = "ReqGamePlayerConnect" ->
         [socket |-> s, keys |-> 0,
          result |-> IF s.m_Step = 1 THEN OnPlayerConnect(c, explained) ELSE "NOSERVER"]
    [] msg = "Req_Heart" -> [socket |-> s, keys |-> 0, result |-> "0"]
    [] msg = "other"     -> [socket |-> s, keys |-> 0, result |-> "NOPLAYER"]

(* TransMsg: the handler of the message, the speed limits, and Close if    *)
(* either says so.                                                         *)
TransMsg(c, msg, explained) ==
  LET h      == Handled(c, Counted(m_LoginSockets[c]), msg, explained)
      result == IF TooFast(h.socket) THEN "CLOSE" ELSE h.result
  IN  /\ m_LoginSockets' = [m_LoginSockets EXCEPT ![c] = CheckMsgSpeed(h.socket)]
      /\ link' = [link EXCEPT ![c] = IF Ends(result) THEN Closed(@) ELSE @]
      /\ heard' = [heard EXCEPT ![c] =
           [keys    |-> UpTo(@.keys + (IF link[c].usable THEN h.keys ELSE 0), 2),
            joined  |-> @.joined \/ (msg = "ReqGamePlayerConnect" /\ h.result = "0"),
            refused |-> @.refused \/ (result # "0")]]

(* A heartbeat too short to be read throws through OnRecvReqHeat and       *)
(* TransMsg to OnMsg: it was counted, and that is all.                     *)
HeartThrows(c) ==
  /\ m_LoginSockets' = [m_LoginSockets EXCEPT ![c] = Counted(@)]
  /\ UNCHANGED <<link, heard>>

(* A message for socket c; the ones that came before a close are handled   *)
(* although the connection is closed by then.                              *)
OnMsg(c) ==
  /\ link[c].callback = c
  /\ \/ \E msg \in Messages, explained \in BOOLEAN :
          (msg = "Req_Heart" => explained) /\ TransMsg(c, msg, explained)
     \/ HeartThrows(c)
  /\ UNCHANGED <<m_bInitDBInfo, m_bStartDBThread, manager, thread>>

(* CServer::OnTimer, a second after the last: the first one starts the     *)
(* database threads and lets clients in.                                   *)
OnTimer ==
  /\ m_bStartDBThread' = TRUE
  /\ thread' = IF m_bStartDBThread THEN thread ELSE [t \in Threads |-> "loop"]
  /\ m_bInitDBInfo' = TRUE
  /\ m_LoginSockets' = [c \in DOMAIN m_LoginSockets |-> Aged(m_LoginSockets[c])]
  /\ UNCHANGED <<link, heard, manager>>

-----------------------------------------------------------------------------
(* RWDBMsgManage and its threads.                                          *)

Pushed == Len(m_queueMsg) + Len(popped)

(* PushRWDBMsg: the message is put in the queue ... *)
Push(p) ==
  /\ Pushed < MaxMsgs
  /\ m_lockMsg = Nobody
  /\ m_lockMsg' = p
  /\ m_queueMsg' = Append(m_queueMsg, Pushed + 1)
  /\ UNCHANGED <<game, m_bInitDBInfo, m_bStartDBThread, m_semaphore, popped, thread>>

(* ... and the semaphore posted, under the same lock. *)
Post(p) ==
  /\ m_lockMsg = p
  /\ m_lockMsg' = Nobody
  /\ m_semaphore' = m_semaphore + 1
  /\ UNCHANGED <<game, m_bInitDBInfo, m_bStartDBThread, m_queueMsg, popped, thread>>

(* Mutation of Wait: it does not take what it waited for. *)
WaitOnly(t) ==
  /\ thread[t] = "loop" /\ m_semaphore > 0
  /\ thread' = [thread EXCEPT ![t] = "woken"]
  /\ UNCHANGED <<game, m_bInitDBInfo, m_bStartDBThread, manager>>

(* PopRWDBMsg: Wait on the semaphore, without the lock ... *)
Wait(t) ==
  /\ thread[t] = "loop" /\ m_semaphore > 0
  /\ m_semaphore' = m_semaphore - 1
  /\ thread' = [thread EXCEPT ![t] = "woken"]
  /\ UNCHANGED <<game, m_bInitDBInfo, m_bStartDBThread, m_queueMsg, m_lockMsg, popped>>

(* Mutation of Pop: the message that came last is taken. *)
PopLast(t) ==
  /\ thread[t] = "woken" /\ m_lockMsg = Nobody
  /\ m_queueMsg' = SubSeq(m_queueMsg, 1, Len(m_queueMsg) - 1)
  /\ popped' = Append(popped, m_queueMsg[Len(m_queueMsg)])
  /\ thread' = [thread EXCEPT ![t] = "busy"]
  /\ UNCHANGED <<game, m_bInitDBInfo, m_bStartDBThread, m_semaphore, m_lockMsg>>

(* ... and front and pop, under the lock. *)
Pop(t) ==
  /\ thread[t] = "woken" /\ m_lockMsg = Nobody
  /\ m_queueMsg' = Tail(m_queueMsg)
  /\ popped' = Append(popped, Head(m_queueMsg))
  /\ thread' = [thread EXCEPT ![t] = "busy"]
  /\ UNCHANGED <<game, m_bInitDBInfo, m_bStartDBThread, m_semaphore, m_lockMsg>>

(* DBOperator::OnRWDBMsg, and DBMsgThread::Run goes round. *)
OnRWDBMsg(t) ==
  /\ thread[t] = "busy"
  /\ thread' = [thread EXCEPT ![t] = "loop"]
  /\ UNCHANGED <<game, m_bInitDBInfo, m_bStartDBThread, manager>>

DBMsgThread(t) == Wait(t) \/ Pop(t) \/ OnRWDBMsg(t)

Next ==
  \/ \E c \in Conns : OnAccept(c) \/ PeerLeaves(c) \/ OnMsg(c) \/ OnClose(c)
  \/ OnTimer
  \/ \E p \in Callers : Push(p) \/ Post(p)
  \/ \E t \in Threads : DBMsgThread(t)

(* Threads run; the dispatcher comes to every close and every second.      *)
Fairness ==
  /\ WF_vars(OnTimer)
  /\ \A c \in Conns : WF_vars(OnClose(c))
  /\ \A p \in Callers : WF_vars(Post(p))
  /\ \A t \in Threads : SF_vars(Pop(t)) /\ WF_vars(Wait(t)) /\ WF_vars(OnRWDBMsg(t))

Spec == Init /\ [][Next]_vars /\ Fairness

-----------------------------------------------------------------------------
ThreadStates == {"not started", "loop", "woken", "busy"}

(* A client is sent at most one key in a visit, the server has a key for   *)
(* the client exactly from the step in which it sends it, and no client is *)
(* taken in without.                                                       *)
OneKey ==
  \A c \in DOMAIN m_LoginSockets :
    /\ heard[c].keys <= 1
    /\ heard[c].joined => m_LoginSockets[c].m_Step = 1
    /\ m_LoginSockets[c].m_Crypt = "key" <=> m_LoginSockets[c].m_Step = 1

Woken == {t \in Threads : thread[t] = "woken"}
Posting == IF m_lockMsg = Nobody THEN 0 ELSE 1

(* The semaphore counts the messages that no thread is on its way to take: *)
(* PopRWDBMsg, which does not look whether the queue is empty, never finds *)
(* it empty.                                                               *)
SemaphoreCounts == Len(m_queueMsg) = m_semaphore + Cardinality(Woken) + Posting

Stream == INSTANCE Channel
  WITH Values <- 1..MaxMsgs, inFlight <- m_queueMsg, delivered <- popped

(* The messages are taken in the order in which they were pushed, each by  *)
(* one thread.                                                             *)
PoppedInOrder == Stream!Spec

(* A client that was refused is gone in the end, and every message for the *)
(* database is taken by some thread.                                       *)
Served ==
  /\ \A c \in Conns : heard[c].refused ~> ~heard[c].refused
  /\ \A n \in 1..MaxMsgs : Pushed >= n ~> Len(popped) >= n
=============================================================================
