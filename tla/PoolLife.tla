------------------------------ MODULE PoolLife ------------------------------
(***************************************************************************)
(* The life of a CConnectPool: what the main thread of a program does with *)
(* it (ConnectPool.cpp, the start and end of CIOCP and CDispatcher) while  *)
(* the thread of its CDispatcher runs, which may call Connect of the same  *)
(* pool in OnTimer, as TestEchoClient does.                                *)
(*                                                                         *)
(* The objects are numbers in CIOCP's lists: what happens to them on the   *)
(* completion port is SocketPool's subject and, while Stop waits,          *)
(* PoolStop's; here the connections are quiet when Stop is called.         *)
(* safe_delete takes the pointer by value: what it deletes is still        *)
(* pointed to.  A use of it is followed no further (broken), as is an      *)
(* assertion that fails (main = "aborted").                                *)
(***************************************************************************)
EXTENDS Thread, Integers, FiniteSets

CONSTANTS
  Addresses,   \* clients' addresses
  MaxPools,    \* bound: pools the program creates, one after the other
  MaxStarts,   \* bound: calls of Start for one pool
  MaxObjects   \* clientcnt and connectcnt are 0 or this

ASSUME LifeAssumption ==
  /\ {MaxPools, MaxStarts} \subseteq Nat /\ MaxObjects \in Nat \ {0}
  /\ NoThread \notin Nat

VARIABLES
  library,   \* the process: connectpool_count, the logger, Winsock
  main,      \* where the main thread is
  pool,      \* CConnectPool with its CIOCP and CDispatcher
  thread,    \* the CThread of the dispatcher
  disp,      \* where each thread it has started is
  asked,     \* the arguments of the last Start
  past,      \* history: pools created, calls of Start, whether one has failed
  broken     \* history: something deleted was used

vars == <<library, main, pool, thread, disp, asked, past, broken>>

Threads == 1..MaxStarts      \* the thread made by the n-th Start of a pool

NoObjects == [accepted |-> 0, outgoing |-> 0]

NewPool(m_iocp) ==
  [m_poolstatus |-> "CPS_NONE",
   m_listener   |-> "null",       \* "listening", "closed" or "deleted" later
   max          |-> NoObjects,    \* m_max_clientcnt, m_max_connectcnt
   lists        |-> NoObjects,    \* how many objects CIOCP has
   m_cpool      |-> FALSE,        \* CDispatcher knows the pool,
   m_iocp       |-> m_iocp,       \* and its CIOCP: "iocp" once it is set
   members      |-> TRUE,         \* the members of CDispatcher exist
   m_forbidips  |-> {}]

Garbage == {"null", "garbage"}    \* CDispatcher's constructor leaves m_iocp alone

Init ==
  /\ library = [connectpool_count |-> 0, logger |-> FALSE, winsock |-> FALSE]
  /\ main = "no pool"
  /\ pool = NewPool("garbage") /\ thread = NewThread
  /\ disp = [t \in Threads |-> "gone"]
  /\ asked = [listens |-> FALSE, max |-> NoObjects]
  /\ past = [pools |-> 0, starts |-> 0, failed |-> FALSE]
  /\ broken = FALSE

(* Main holds m_poolLock from the beginning of Start or Stop to its end. *)
Locked == main \in {"starting", "iocp waits", "iocp ended", "joining"}

-----------------------------------------------------------------------------
(* The main thread.                                                        *)

(* CreateConnectPool; when Winsock does not start the logger has. *)
CreateConnectPool ==
  /\ main = "no pool" /\ past.pools < MaxPools
  /\ \E starts \in BOOLEAN, m_iocp \in Garbage :
       LET up == library.connectpool_count > 0 \/ starts
       IN  /\ library' = [connectpool_count |-> library.connectpool_count + (IF up THEN 1 ELSE 0),
                          logger |-> TRUE, winsock |-> up]
           /\ main' = IF up THEN "idle" ELSE "no pool"
           /\ pool' = NewPool(m_iocp)
  /\ thread' = NewThread
  /\ past' = [pools |-> past.pools + 1, starts |-> 0, failed |-> FALSE]
  /\ UNCHANGED <<disp, asked, broken>>

SetCallback ==
  /\ main = "idle" /\ pool.m_poolstatus = "CPS_NONE"
  /\ pool' = [pool EXCEPT !.m_poolstatus = "CPS_CALLBACK"]
  /\ UNCHANGED <<library, main, thread, disp, asked, past, broken>>

(* What the pool refuses: the set is CDispatcher's, which lives as long as *)
(* the pool.  A DelForbidIP without an address clears it.                  *)
Forbids(ips) ==
  /\ main = "idle"
  /\ pool' = [pool EXCEPT !.m_forbidips = ips]
  /\ UNCHANGED <<library, main, thread, disp, asked, past, broken>>

AddForbidIP == \E ip \in Addresses : Forbids(pool.m_forbidips \cup {ip})
DelForbidIP == \E ips \in {Addresses} \cup {{ip} : ip \in Addresses} : Forbids(pool.m_forbidips \ ips)

(* Mutation of StartDispatcher: the CThread starts a thread each time. *)
StartAnother(t) ==
  /\ thread' = [thread EXCEPT !.hThread = t, !.running = TRUE]
  /\ disp' = [disp EXCEPT ![t] = "loop"]

(* CDispatcher::Init does not look at what Start says. *)
StartDispatcher(t) ==
  /\ thread' = Start(thread, t)
  /\ disp' = IF Starts(thread) THEN [disp EXCEPT ![t] = "loop"] ELSE disp

(* Start, up to and with CDispatcher::Init.  Without a callback, or on a   *)
(* started pool, it changes nothing.                                       *)
Start_Begin ==
  /\ main = "idle" /\ pool.m_poolstatus = "CPS_CALLBACK"
  /\ past.starts < MaxStarts
  /\ \E listens \in BOOLEAN, clients, outs \in {0, MaxObjects} :
       asked' = [listens |-> listens, max |-> [accepted |-> clients, outgoing |-> outs]]
  /\ past' = [past EXCEPT !.starts = @ + 1]
  /\ main' = "starting"
  /\ pool' = [pool EXCEPT !.m_cpool = TRUE]
  /\ StartDispatcher(past.starts + 1)
  /\ UNCHANGED <<library, broken>>

(* CConnect::Listen: any of its calls may fail, most often bind, when the  *)
(* port is taken.  It leaves no socket then.                               *)
ListenCalls == {"WSASocket", "bind", "listen", "BindIoCompletionCallback"}

ConnectListen(failing) ==
  IF failing = {} THEN [status |-> "LISTEN", socket |-> TRUE]
                  ELSE [status |-> "INVALID", socket |-> FALSE]

(* CIOCP::Listen, from the guards to the listener; then it makes objects   *)
(* that wait for clients.                                                  *)
MayListen(p) == p.m_listener = "null" /\ p.max.accepted > 0 /\ p.lists.accepted = 0

Listen(p, failing) ==
  IF ~MayListen(p) THEN p
  ELSE IF ~ConnectListen(failing).socket THEN [p EXCEPT !.m_listener = "deleted"]
  ELSE [p EXCEPT !.m_listener = "listening", !.lists.accepted = p.max.accepted]

Listens(p, failing) == MayListen(p) /\ ConnectListen(failing).socket

(* Mutation of Succeeds: a failed Listen is not reported. *)
SucceedsAlways(p, failing) == TRUE

Succeeds(p, failing) == asked.listens => Listens(p, failing)

(* CDispatcher::SetIOCP looks at the member it is about to set. *)
SetIOCP(p) == [p EXCEPT !.m_iocp = "iocp"]
AssertsIOCP == pool.m_iocp # "null"

(* The rest of Start: CIOCP::Init, SetIOCP and Listen.                     *)
Start_Listen ==
  /\ main = "starting"
  /\ \E failing \in SUBSET ListenCalls :
       /\ Cardinality(failing) <= 1
       /\ LET p == SetIOCP([pool EXCEPT !.max = asked.max])
              q == IF asked.listens THEN Listen(p, failing) ELSE p
          IN  IF ~AssertsIOCP
              THEN /\ main' = "aborted"
                   /\ UNCHANGED <<pool, past>>
              ELSE /\ main' = "idle"
                   /\ pool' = IF Succeeds(p, failing)
                                THEN [q EXCEPT !.m_poolstatus = "CPS_START"] ELSE q
                   /\ past' = [past EXCEPT !.failed = @ \/ ~Succeeds(p, failing)]
  /\ UNCHANGED <<library, thread, disp, asked, broken>>

(* Stop of a started pool, up to the wait of CIOCP::Fini.  A listener that *)
(* was deleted before is closed all the same.                              *)
Stop_Begin ==
  /\ main = "idle" /\ pool.m_poolstatus = "CPS_START"
  /\ IF pool.m_listener = "deleted"
       THEN broken' = TRUE /\ UNCHANGED <<main, pool>>
       ELSE /\ main' = "iocp waits"
            /\ pool' = [pool EXCEPT !.max = NoObjects,
                          !.m_listener = IF @ = "listening" THEN "closed" ELSE @]
            /\ UNCHANGED broken
  /\ UNCHANGED <<library, thread, disp, asked, past>>

(* The second that CIOCP::Fini waits is over; it deletes what it has.      *)
Stop_Deletes ==
  /\ main = "iocp waits"
  /\ main' = "iocp ended"
  /\ pool' = [pool EXCEPT !.lists = NoObjects,
                          !.m_listener = IF @ = "closed" THEN "deleted" ELSE @]
  /\ UNCHANGED <<library, thread, disp, asked, past, broken>>

(* CThread::Terminate up to its wait, from CDispatcher::Fini and, for a    *)
(* pool that is deleted, from ~CThread.                                    *)
Terminate ==
  /\ \/ main = "iocp ended" /\ main' = "joining"
     \/ main = "destroying" /\ main' = "deleting"
  /\ thread' = Stopping(thread)
  /\ UNCHANGED <<library, pool, disp, asked, past, broken>>

(* Mutation of Killed: the wait has no limit. *)
KilledNever == FALSE /\ UNCHANGED disp

(* Mutation of Killed: the wait ends, the thread does not. *)
KilledNot == ~thread.event /\ UNCHANGED disp

(* The wait ends because the thread has said so, or after its time limit:  *)
(* then the thread is ended wherever it is, if it was running.             *)
Joined == thread.event /\ UNCHANGED disp
Killed == ~thread.event /\ disp' = [disp EXCEPT ![thread.hThread] = "gone"]

(* The rest of CDispatcher::Fini. *)
DispatcherFini(p) == [p EXCEPT !.m_cpool = FALSE]

(* Stop: CDispatcher has ended; the new status.                            *)
Stop_End ==
  /\ main = "joining"
  /\ Joined \/ Killed
  /\ thread' = Stopped(thread)
  /\ pool' = [DispatcherFini(pool) EXCEPT !.m_poolstatus = "CPS_CALLBACK"]
  /\ main' = "idle"
  /\ UNCHANGED <<library, asked, past, broken>>

(* Mutation of Forget: the pool is still counted. *)
ForgetNothing == library' = library

(* The last DestoryConnectPool ends Winsock and the logger.                *)
Forget ==
  LET count == library.connectpool_count - 1
  IN  library' = [connectpool_count |-> count, logger |-> count > 0, winsock |-> count > 0]

(* ~CConnectPool: CIOCP and the members of CDispatcher go first, ... *)
DeletePool == pool' = [pool EXCEPT !.members = FALSE]

(* ... then ~CThread ends a thread that runs.  Programs stop a pool before. *)
DestoryConnectPool ==
  /\ main = "idle" /\ pool.m_poolstatus # "CPS_START"
  /\ DeletePool
  /\ IF thread.running
       THEN main' = "destroying" /\ UNCHANGED library
       ELSE main' = "no pool" /\ Forget
  /\ UNCHANGED <<thread, disp, asked, past, broken>>

Destroy_End ==
  /\ main = "deleting"
  /\ Joined \/ Killed
  /\ thread' = Stopped(thread)
  /\ main' = "no pool" /\ Forget
  /\ UNCHANGED <<pool, asked, past, broken>>

-----------------------------------------------------------------------------
(* The dispatcher's thread t.                                              *)

(* t goes on, unless what it uses is gone. *)
Goes(t, there, next) ==
  IF there THEN disp' = [disp EXCEPT ![t] = next] /\ UNCHANGED broken
           ELSE broken' = TRUE /\ UNCHANGED disp

(* A callback of the program, made by way of CDispatcher::m_cpool. *)
Calls(t, next) == Goes(t, pool.m_cpool, next)

(* CDispatcher::Run: the loop's condition and OnPriorityEvent, or its end. *)
(* Broadcast needs m_Lock, which Terminate gives back only while it waits. *)
Run(t) ==
  /\ disp[t] = "loop"
  /\ \/ thread.running
        /\ Calls(t, "timer")
        /\ UNCHANGED thread
     \/ ~thread.running
        /\ disp' = [disp EXCEPT ![t] = "gone"]
        /\ thread' = Broadcast(thread)
        /\ UNCHANGED broken
  /\ UNCHANGED <<library, main, pool, asked, past>>

(* CheckTimer: nothing, or OnTimer, which may call Connect of the pool.    *)
CheckTimer(t) ==
  /\ disp[t] = "timer"
  /\ \E next \in {"packet", "connect"} : Calls(t, next)
  /\ UNCHANGED <<library, main, pool, thread, asked, past>>

(* CIOCP::Connect brings the list up to m_max_connectcnt and takes a free  *)
(* object; one that cannot connect is deleted.                             *)
ObjectsLeft(connects) == IF connects THEN pool.max.outgoing ELSE pool.max.outgoing - 1

MayConnect == pool.m_poolstatus = "CPS_START" /\ pool.max.outgoing > 0

(* CConnectPool::Connect, called by the thread of the pool itself.         *)
Connect(t) ==
  /\ disp[t] = "connect" /\ ~Locked
  /\ \E connects \in BOOLEAN :
       pool' = IF MayConnect THEN [pool EXCEPT !.lists.outgoing = ObjectsLeft(connects)] ELSE pool
  /\ disp' = [disp EXCEPT ![t] = "packet"]
  /\ UNCHANGED <<library, main, thread, asked, past, broken>>

(* DispatchPacket takes m_packetlock and finds nothing: OnIdle.            *)
DispatchPacket(t) ==
  /\ disp[t] = "packet"
  /\ Goes(t, pool.members /\ pool.m_cpool, "loop")
  /\ UNCHANGED <<library, main, pool, thread, asked, past>>

Dispatcher(t) == Run(t) \/ CheckTimer(t) \/ Connect(t) \/ DispatchPacket(t)

Ending == Stop_Deletes \/ Terminate \/ Stop_End \/ Destroy_End

Next ==
  /\ ~broken
  /\ \/ CreateConnectPool \/ SetCallback \/ Start_Begin \/ Start_Listen
     \/ AddForbidIP \/ DelForbidIP
     \/ Stop_Begin \/ DestoryConnectPool \/ Ending
     \/ \E t \in Threads : Dispatcher(t)

(* Main's waits end at their time limit, and main goes on after them. *)
Spec == Init /\ [][Next]_vars /\ WF_vars(~broken /\ Ending)

-----------------------------------------------------------------------------
MainStates ==
  {"no pool", "idle", "starting", "iocp waits", "iocp ended", "joining", "destroying",
   "deleting", "aborted"}

Counts == [accepted : 0..MaxObjects, outgoing : 0..MaxObjects]

(* The type of the state. *)
TypeOK ==
  /\ library \in [connectpool_count : 0..1, logger : BOOLEAN, winsock : BOOLEAN]
  /\ main \in MainStates
  /\ pool \in [m_poolstatus : {"CPS_NONE", "CPS_CALLBACK", "CPS_START"},
               m_listener : {"null", "listening", "closed", "deleted"},
               max : Counts, lists : Counts, m_cpool : BOOLEAN,
               m_iocp : Garbage \cup {"iocp"}, members : BOOLEAN,
               m_forbidips : SUBSET Addresses]
  /\ thread \in ThreadObject(Threads)
  /\ disp \in [Threads -> {"gone", "loop", "timer", "connect", "packet"}]
  /\ asked \in [listens : BOOLEAN, max : Counts]
  /\ past \in [pools : 0..MaxPools, starts : 0..MaxStarts, failed : BOOLEAN]
  /\ broken \in BOOLEAN

(* A pool never has two dispatcher threads, which would make the callbacks *)
(* of a program concurrent: not after a Start that failed and was tried    *)
(* again, nor after Stop and Start, whatever time its threads take to end. *)
OneDispatcher ==
  \A t \in Threads : disp[t] # "gone" => thread.hThread = t

(* The status tells the truth.  A started pool has everything it needs: a  *)
(* thread, which knows the pool and the completion port, and a listener    *)
(* with its objects if a port was asked for.  Any other pool has no object *)
(* left, although the dispatcher may have been about to connect one when   *)
(* Stop was called.  Both have Winsock and the logger.                     *)
StatusAgrees ==
  main = "idle" =>
    /\ library.winsock /\ library.logger
    /\ IF pool.m_poolstatus = "CPS_START"
       THEN /\ thread.running /\ disp[thread.hThread] # "gone"
            /\ pool.m_cpool /\ pool.m_iocp = "iocp"
            /\ asked.listens => /\ pool.m_listener = "listening"
                                /\ pool.lists.accepted = asked.max.accepted
       ELSE pool.lists = NoObjects

(* A program that calls Start once for each pool, and whose Start succeeds, *)
(* uses nothing that was deleted: the dispatcher has ended, or was ended,  *)
(* before what it uses goes.                                               *)
OnceIsSafe == broken => past.starts > 1 \/ past.failed

(* Stop returns although it waits, with m_poolLock held, for a thread that *)
(* may itself be waiting for that lock.                                    *)
StopEnds == main \in {"iocp waits", "iocp ended", "joining"} ~> main = "idle"
=============================================================================
