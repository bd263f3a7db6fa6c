--------------------------- MODULE PoolLifeProofs ---------------------------
(***************************************************************************)
(* What holds of a pool for every number of pools and starts, whatever the *)
(* threads do and however long they take to end.                           *)
(***************************************************************************)
EXTENDS PoolLife, TLAPS

NoneLive == \A t \in Threads : disp[t] = "gone"

(* What is needed of the types.                                            *)
Shape ==
  /\ disp = [t \in Threads |-> disp[t]]
  /\ thread = [hThread |-> thread.hThread, running |-> thread.running, event |-> thread.event]
  /\ past = [pools |-> past.pools, starts |-> past.starts, failed |-> past.failed]
  /\ past.starts \in Nat

(* The thread that runs is the one the CThread names: it was started when  *)
(* there was none, and it is not forgotten before it has ended.            *)
ThreadInv ==
  /\ OneDispatcher
  /\ thread.event => thread.hThread # NoThread /\ NoneLive
  /\ thread.running => thread.hThread \in Threads /\ disp[thread.hThread] # "gone"
  /\ ~thread.running /\ main \notin {"joining", "deleting"} => thread.hThread = NoThread
  /\ main \in {"no pool", "joining", "deleting"} => ~thread.running

LifeInv == Shape /\ ThreadInv

LEMMA ThreadsDiffer == NoThread \notin Threads
  BY LifeAssumption DEF Threads

-----------------------------------------------------------------------------
(* The threads.                                                            *)

LEMMA ThreadInit == Init => LifeInv
<1> SUFFICES ASSUME Init PROVE LifeInv
  OBVIOUS
<1>1. thread.hThread = NoThread /\ ~thread.running /\ ~thread.event
  BY DEF Init, NewThread
<1>2. NoneLive
  BY DEF Init, NoneLive
<1>3. Shape
  BY DEF Init, NewThread, Shape
<1>4. QED
  BY <1>1, <1>2, <1>3 DEF LifeInv, ThreadInv, OneDispatcher, NoneLive

(* Main goes on, and the threads stay what they are.                       *)
LEMMA MainMoves ==
  ASSUME LifeInv, UNCHANGED <<thread, disp, past>>,
         main' \in {"no pool", "joining", "deleting"} => ~thread.running,
         main \in {"joining", "deleting"} => main' \in {"joining", "deleting"}
  PROVE  LifeInv'
<1>1. Shape'
  BY DEF LifeInv, Shape
<1>2. ThreadInv'
  BY DEF LifeInv, ThreadInv, OneDispatcher, NoneLive, Threads
<1>3. QED
  BY <1>1, <1>2 DEF LifeInv

LEMMA NobodyLeft == ASSUME LifeInv, thread.hThread = NoThread PROVE NoneLive /\ ~thread.event
  BY ThreadsDiffer DEF LifeInv, ThreadInv, OneDispatcher, NoneLive

(* The thread of a new pool is one that was never started.                 *)
LEMMA CreateThread == ASSUME LifeInv, CreateConnectPool PROVE LifeInv'
<1>1. thread.hThread = NoThread
  BY DEF LifeInv, ThreadInv, CreateConnectPool
<1>2. NoneLive
  BY <1>1, NobodyLeft
<1>3. thread' = NewThread /\ UNCHANGED disp
  BY DEF CreateConnectPool
<1>4. main' \notin {"joining", "deleting"}
  BY DEF CreateConnectPool
<1>5. Shape'
  <2>1. past' = [pools |-> past.pools + 1, starts |-> 0, failed |-> FALSE]
    BY DEF CreateConnectPool
  <2>2. past' = [pools |-> past'.pools, starts |-> past'.starts, failed |-> past'.failed]
    BY <2>1
  <2>3. past'.starts \in Nat
    BY <2>1
  <2>4. QED
    BY <1>3, <2>2, <2>3 DEF NewThread, Shape, LifeInv
<1>6. QED
  BY <1>2, <1>3, <1>4, <1>5 DEF LifeInv, ThreadInv, OneDispatcher, NewThread, NoneLive

LEMMA StartThread == ASSUME LifeInv, Start_Begin PROVE LifeInv'
<1>1. main' = "starting" /\ main = "idle"
  BY DEF Start_Begin
<1>2. PICK s \in Threads : s = past.starts + 1 /\ StartDispatcher(s)
  BY LifeAssumption DEF Start_Begin, LifeInv, Shape, Threads
<1>3. past' = [past EXCEPT !.starts = s]
  BY <1>2 DEF Start_Begin
<1>4. s \in Nat
  BY DEF Threads
<1>5. past' = [pools |-> past.pools, starts |-> s, failed |-> past.failed]
  BY <1>3 DEF LifeInv, Shape
<1>6. CASE Starts(thread)
  <2>1. thread' = [hThread |-> s, running |-> TRUE, event |-> thread.event]
    BY <1>2, <1>6 DEF StartDispatcher, Start, LifeInv, Shape
  <2>2. disp' = [disp EXCEPT ![s] = "loop"]
    BY <1>2, <1>6 DEF StartDispatcher
  <2>3. NoneLive /\ ~thread.event
    BY <1>6, NobodyLeft DEF Starts
  <2>4. Shape'
    BY <1>4, <1>5, <2>1, <2>2 DEF LifeInv, Shape
  <2>5. \A t \in Threads : disp'[t] # "gone" => t = s
    BY <2>2, <2>3 DEF NoneLive, LifeInv, Shape
  <2>6. disp'[s] # "gone"
    BY <2>2 DEF LifeInv, Shape
  <2>7. QED
    BY <1>1, <2>1, <2>3, <2>4, <2>5, <2>6 DEF LifeInv, ThreadInv, OneDispatcher
<1>7. CASE ~Starts(thread)
  <2>1. UNCHANGED <<thread, disp>>
    BY <1>2, <1>7 DEF StartDispatcher, Start
  <2>2. Shape'
    BY <1>4, <1>5, <2>1 DEF LifeInv, Shape
  <2>3. QED
    BY <1>1, <2>1, <2>2 DEF LifeInv, ThreadInv, OneDispatcher, NoneLive
<1>8. QED
  BY <1>6, <1>7

LEMMA ListenThread == ASSUME LifeInv, Start_Listen PROVE LifeInv'
<1>1. UNCHANGED <<thread, disp>> /\ main' \in {"idle", "aborted"} /\ main = "starting"
  BY DEF Start_Listen
<1>2. past' = [pools |-> past.pools, starts |-> past.starts, failed |-> past'.failed]
  BY DEF Start_Listen, LifeInv, Shape
<1>3. Shape'
  BY <1>1, <1>2 DEF LifeInv, Shape
<1>4. ThreadInv'
  BY <1>1 DEF LifeInv, ThreadInv, OneDispatcher, NoneLive
<1>5. QED
  BY <1>3, <1>4 DEF LifeInv

LEMMA TerminateThread == ASSUME LifeInv, Terminate PROVE LifeInv'
<1>1. thread' = [hThread |-> thread.hThread, running |-> FALSE, event |-> thread.event]
  BY DEF Terminate, Stopping, LifeInv, Shape
<1>2. UNCHANGED <<disp, past>> /\ main' \in {"joining", "deleting"}
  BY DEF Terminate
<1>3. Shape'
  BY <1>1, <1>2 DEF LifeInv, Shape
<1>4. QED
  BY <1>1, <1>2, <1>3 DEF LifeInv, ThreadInv, OneDispatcher, NoneLive

(* When the wait is over nobody is left, and the thread may be forgotten.  *)
LEMMA EndThread ==
  ASSUME LifeInv, Joined \/ Killed, thread' = Stopped(thread), UNCHANGED past,
         main \in {"joining", "deleting"}, main' \notin {"joining", "deleting"}
  PROVE  LifeInv' /\ NoneLive'
<1>1. thread' = [hThread |-> NoThread, running |-> thread.running, event |-> FALSE]
  BY DEF Stopped, LifeInv, Shape
<1>2. ~thread.running
  BY DEF LifeInv, ThreadInv
<1>3. NoneLive' /\ disp' = [t \in Threads |-> disp'[t]]
  BY DEF Joined, Killed, LifeInv, Shape, ThreadInv, OneDispatcher, NoneLive
<1>4. Shape'
  BY <1>1, <1>3 DEF LifeInv, Shape
<1>5. thread'.hThread = NoThread /\ ~thread'.running /\ ~thread'.event
  BY <1>1, <1>2
<1>6. QED
  BY <1>3, <1>4, <1>5 DEF LifeInv, ThreadInv, OneDispatcher, NoneLive

(* A thread of the dispatcher goes on.                                     *)
LEMMA Onwards ==
  ASSUME LifeInv, NEW t \in Threads, disp[t] # "gone", NEW next, next # "gone",
         disp' = [disp EXCEPT ![t] = next] \/ UNCHANGED disp,
         UNCHANGED <<thread, main, past>>
  PROVE  LifeInv'
<1>1. Shape'
  BY DEF LifeInv, Shape
<1>2. \A u \in Threads : disp'[u] = "gone" <=> disp[u] = "gone"
  BY DEF LifeInv, Shape
<1>3. ThreadInv'
  BY <1>2 DEF LifeInv, ThreadInv, OneDispatcher, NoneLive
<1>4. QED
  BY <1>1, <1>3 DEF LifeInv

(* The thread that ends was the only one.                                  *)
LEMMA RunEnds ==
  ASSUME LifeInv, NEW t \in Threads, disp[t] # "gone", ~thread.running,
         disp' = [disp EXCEPT ![t] = "gone"], thread' = Broadcast(thread),
         UNCHANGED <<main, past>>
  PROVE  LifeInv'
<1>1. thread.hThread = t
  BY DEF LifeInv, ThreadInv, OneDispatcher
<1>2. thread' = [hThread |-> t, running |-> thread.running, event |-> TRUE]
  BY <1>1 DEF Broadcast, LifeInv, Shape
<1>3. NoneLive'
  BY <1>1 DEF LifeInv, Shape, ThreadInv, OneDispatcher, NoneLive
<1>4. Shape'
  BY <1>2 DEF LifeInv, Shape
<1>5. main \in {"joining", "deleting"}
  BY <1>1, ThreadsDiffer DEF LifeInv, ThreadInv
<1>6. thread'.hThread = t /\ t # NoThread /\ ~thread'.running /\ main' = main
  BY <1>2, ThreadsDiffer
<1>7. QED
  BY <1>3, <1>4, <1>5, <1>6 DEF LifeInv, ThreadInv, OneDispatcher, NoneLive

LEMMA DispatcherThread ==
  ASSUME LifeInv, NEW t \in Threads, Dispatcher(t)
  PROVE  LifeInv'
<1>1. CASE Run(t)
  <2>1. CASE thread.running /\ Calls(t, "timer") /\ UNCHANGED thread
    BY <1>1, <2>1, Onwards DEF Run, Calls, Goes
  <2>2. CASE ~thread.running /\ disp' = [disp EXCEPT ![t] = "gone"] /\ thread' = Broadcast(thread)
    BY <1>1, <2>2, RunEnds DEF Run
  <2>3. QED
    BY <1>1, <2>1, <2>2 DEF Run
<1>2. CASE CheckTimer(t)
  <2>1. PICK next \in {"packet", "connect"} : Calls(t, next)
    BY <1>2 DEF CheckTimer
  <2>2. QED
    BY <1>2, <2>1, Onwards DEF CheckTimer, Calls, Goes
<1>3. CASE Connect(t)
  BY <1>3, Onwards DEF Connect
<1>4. CASE DispatchPacket(t)
  BY <1>4, Onwards DEF DispatchPacket, Goes
<1>5. QED
  BY <1>1, <1>2, <1>3, <1>4 DEF Dispatcher

LEMMA ThreadNext == ASSUME LifeInv, [Next]_vars PROVE LifeInv'
<1>1. CASE CreateConnectPool
  BY <1>1, CreateThread
<1>2. CASE SetCallback \/ AddForbidIP \/ DelForbidIP
  BY <1>2, MainMoves DEF SetCallback, AddForbidIP, DelForbidIP, Forbids, LifeInv, ThreadInv
<1>3. CASE Start_Begin
  BY <1>3, StartThread
<1>4. CASE Start_Listen
  BY <1>4, ListenThread
<1>5. CASE Stop_Begin \/ Stop_Deletes
  BY <1>5, MainMoves DEF Stop_Begin, Stop_Deletes, LifeInv, ThreadInv
<1>6. CASE DestoryConnectPool
  BY <1>6, MainMoves DEF DestoryConnectPool, LifeInv, ThreadInv
<1>7. CASE Terminate
  BY <1>7, TerminateThread
<1>8. CASE Stop_End
  BY <1>8, EndThread DEF Stop_End
<1>9. CASE Destroy_End
  BY <1>9, EndThread DEF Destroy_End
<1>10. CASE \E t \in Threads : Dispatcher(t)
  BY <1>10, DispatcherThread
<1>11. CASE UNCHANGED vars
  BY <1>11, MainMoves DEF vars, LifeInv, ThreadInv
<1>12. QED
  BY <1>1, <1>2, <1>3, <1>4, <1>5, <1>6, <1>7, <1>8, <1>9, <1>10, <1>11 DEF Next, Ending

(* A pool never has two dispatcher threads.                                *)
THEOREM OneDispatcherTheorem == Spec => []OneDispatcher
<1>1. LifeInv => OneDispatcher
  BY DEF LifeInv, ThreadInv
<1>2. QED
  BY <1>1, ThreadInit, ThreadNext, PTL DEF Spec

-----------------------------------------------------------------------------
(* What a program uses that calls Start once.                              *)

Fields == {"m_poolstatus", "m_listener", "max", "lists", "m_cpool", "m_iocp", "members",
           "m_forbidips"}

Once == past.starts \in {0, 1} /\ ~past.failed

(* Nothing is broken, and it stays so: a thread of the dispatcher has what *)
(* it uses, none is there when the pool is not started, and the listener   *)
(* is closed no more than once.                                            *)
SafeInv ==
  /\ ~broken
  /\ main # "no pool" => pool.members
  /\ ~NoneLive => pool.m_cpool
  /\ main = "idle" /\ pool.m_poolstatus # "CPS_START" => ~thread.running
  /\ main \notin {"destroying", "deleting"}
  /\ main = "starting" \/ past.starts = 0 => pool.m_listener = "null"
  /\ main \in {"starting", "iocp waits"} \/ pool.m_poolstatus = "CPS_START" => past.starts # 0
  /\ main = "idle" /\ pool.m_poolstatus = "CPS_START" => pool.m_listener # "deleted"

OnceInv == DOMAIN pool = Fields /\ (Once => SafeInv)

LEMMA OnceInit == Init => OnceInv
<1> SUFFICES ASSUME Init PROVE OnceInv
  OBVIOUS
<1>1. main = "no pool" /\ ~broken /\ NoneLive
  BY DEF Init, NoneLive
<1>2. pool.m_listener = "null" /\ DOMAIN pool = Fields /\ pool.m_poolstatus = "CPS_NONE"
  BY DEF Init, NewPool, Fields
<1>3. QED
  BY <1>1, <1>2 DEF OnceInv, SafeInv

LEMMA LiveNeedsPool == ASSUME LifeInv, ~NoneLive PROVE main # "no pool"
  BY NobodyLeft DEF LifeInv, ThreadInv

(* A pool that is new has no thread, and what was before it is past.       *)
LEMMA CreateOnce == ASSUME LifeInv, ~broken, CreateConnectPool PROVE OnceInv'
<1>1. NoneLive'
  BY LiveNeedsPool DEF CreateConnectPool, NoneLive
<1>2. PICK m_iocp \in Garbage : pool' = NewPool(m_iocp)
  BY DEF CreateConnectPool
<1>3. DOMAIN pool' = Fields /\ pool'.m_listener = "null" /\ pool'.members
  BY <1>2 DEF NewPool, Fields
<1>4. ~broken' /\ ~thread'.running /\ main' \in {"idle", "no pool"}
  BY DEF CreateConnectPool, NewThread
<1>5. pool'.m_poolstatus = "CPS_NONE"
  BY <1>2 DEF NewPool
<1>6. QED
  BY <1>1, <1>3, <1>4, <1>5 DEF OnceInv, SafeInv

LEMMA CallbackOnce ==
  ASSUME OnceInv, SetCallback \/ AddForbidIP \/ DelForbidIP
  PROVE  OnceInv'
<1>1. UNCHANGED <<main, broken, thread, disp, past>> /\ main = "idle"
  BY DEF SetCallback, AddForbidIP, DelForbidIP, Forbids
<1>2. /\ DOMAIN pool' = DOMAIN pool
      /\ pool'.m_listener = pool.m_listener
      /\ pool'.members = pool.members /\ pool'.m_cpool = pool.m_cpool
      /\ pool'.m_poolstatus = "CPS_START" <=> pool.m_poolstatus = "CPS_START"
  BY DEF SetCallback, AddForbidIP, DelForbidIP, Forbids, OnceInv, Fields
<1>3. QED
  BY <1>1, <1>2 DEF OnceInv, SafeInv, Once, NoneLive

(* The first Start of a pool. *)
LEMMA StartOnce == ASSUME LifeInv, OnceInv, Start_Begin PROVE OnceInv'
<1>1. main = "idle" /\ main' = "starting" /\ UNCHANGED broken
  BY DEF Start_Begin
<1>2. past'.starts = past.starts + 1 /\ past'.failed = past.failed
  BY DEF Start_Begin, LifeInv, Shape
<1>3. /\ DOMAIN pool' = DOMAIN pool /\ pool'.m_cpool
      /\ pool'.m_listener = pool.m_listener /\ pool'.members = pool.members
  BY DEF Start_Begin, OnceInv, Fields
<1>4. ASSUME Once' PROVE past.starts = 0 /\ past'.starts = 1 /\ Once
  <2>1. past.starts + 1 \in {0, 1} /\ past.starts \in Nat
    BY <1>2, <1>4 DEF Once, LifeInv, Shape
  <2>2. past.starts = 0
    BY <2>1
  <2>3. past'.starts = 1
    BY <1>2, <2>2
  <2>4. ~past.failed
    BY <1>2, <1>4 DEF Once
  <2>5. QED
    BY <2>2, <2>3, <2>4 DEF Once
<1>5. QED
  BY <1>1, <1>3, <1>4 DEF OnceInv, SafeInv

(* Listen succeeds, or is not asked for, or Start has failed.              *)
LEMMA ListenOnce == ASSUME LifeInv, OnceInv, Start_Listen PROVE OnceInv'
<1>1. main = "starting" /\ UNCHANGED <<thread, disp, broken>>
  BY DEF Start_Listen
<1>2. CASE ~AssertsIOCP
  <2>1. main' = "aborted" /\ UNCHANGED <<pool, past>>
    BY <1>2 DEF Start_Listen
  <2>2. QED
    BY <1>1, <2>1 DEF OnceInv, SafeInv, Once, NoneLive
<1>3. CASE AssertsIOCP
  <2> DEFINE p == SetIOCP([pool EXCEPT !.max = asked.max])
  <2>1. PICK failing \in SUBSET ListenCalls :
          /\ main' = "idle"
          /\ pool' = IF Succeeds(p, failing)
                       THEN [IF asked.listens THEN Listen(p, failing) ELSE p
                               EXCEPT !.m_poolstatus = "CPS_START"]
                       ELSE IF asked.listens THEN Listen(p, failing) ELSE p
          /\ past' = [past EXCEPT !.failed = @ \/ ~Succeeds(p, failing)]
    BY <1>3 DEF Start_Listen
  <2> DEFINE q == IF asked.listens THEN Listen(p, failing) ELSE p
  <2>2. /\ DOMAIN p = Fields /\ p.m_listener = pool.m_listener
        /\ p.members = pool.members /\ p.m_cpool = pool.m_cpool
    BY DEF SetIOCP, OnceInv, Fields
  <2>3. DOMAIN q = Fields /\ q.members = p.members /\ q.m_cpool = p.m_cpool
    BY <2>2 DEF Listen, Fields
  <2>4. DOMAIN pool' = Fields /\ pool'.members = p.members /\ pool'.m_cpool = p.m_cpool
    BY <2>1, <2>3 DEF Fields
  <2>5. past'.starts = past.starts /\ (past'.failed <=> past.failed \/ ~Succeeds(p, failing))
    BY <2>1 DEF LifeInv, Shape
  <2>6. ASSUME Once' PROVE SafeInv'
    <3>1. Once /\ Succeeds(p, failing)
      BY <2>5, <2>6 DEF Once
    <3>2. past.starts # 0
      BY <1>1, <3>1 DEF OnceInv, SafeInv
    <3>3. p.m_listener = "null"
      BY <1>1, <2>2, <3>1 DEF OnceInv, SafeInv
    <3>4. q.m_listener # "deleted"
      BY <2>2, <3>1, <3>3 DEF Succeeds, Listens, Listen, Fields
    <3>5. pool'.m_listener = q.m_listener /\ pool'.m_poolstatus = "CPS_START"
      BY <2>1, <2>3, <3>1 DEF Fields
    <3>6. QED
      BY <1>1, <2>1, <2>2, <2>4, <2>5, <3>1, <3>2, <3>4, <3>5 DEF OnceInv, SafeInv, NoneLive
  <2>7. QED
    BY <2>4, <2>6 DEF OnceInv
<1>4. QED
  BY <1>2, <1>3

LEMMA StopOnce == ASSUME LifeInv, OnceInv, Stop_Begin PROVE OnceInv'
<1>1. /\ main = "idle" /\ pool.m_poolstatus = "CPS_START"
      /\ UNCHANGED <<thread, disp, past>>
  BY DEF Stop_Begin
<1>2. CASE pool.m_listener = "deleted"
  BY <1>1, <1>2 DEF Stop_Begin, OnceInv, SafeInv, Once
<1>3. CASE pool.m_listener # "deleted"
  <2>1. main' = "iocp waits" /\ UNCHANGED broken
    BY <1>3 DEF Stop_Begin
  <2>2. DOMAIN pool' = Fields /\ pool'.members = pool.members /\ pool'.m_cpool = pool.m_cpool
    BY <1>3 DEF Stop_Begin, OnceInv, Fields
  <2>3. QED
    BY <1>1, <2>1, <2>2 DEF OnceInv, SafeInv, Once, NoneLive
<1>4. QED
  BY <1>2, <1>3

LEMMA DeletesOnce == ASSUME LifeInv, OnceInv, Stop_Deletes PROVE OnceInv'
<1>1. main = "iocp waits" /\ main' = "iocp ended" /\ UNCHANGED <<thread, disp, past, broken>>
  BY DEF Stop_Deletes
<1>2. /\ DOMAIN pool' = Fields /\ pool'.members = pool.members /\ pool'.m_cpool = pool.m_cpool
      /\ pool'.m_poolstatus = pool.m_poolstatus
  BY DEF Stop_Deletes, OnceInv, Fields
<1>3. QED
  BY <1>1, <1>2 DEF OnceInv, SafeInv, Once, NoneLive

LEMMA TerminateOnce == ASSUME LifeInv, OnceInv, Terminate PROVE OnceInv'
<1>1. UNCHANGED <<pool, disp, past, broken>>
  BY DEF Terminate
<1>2. (main = "iocp ended" /\ main' = "joining") \/ main = "destroying"
  BY DEF Terminate
<1>3. QED
  BY <1>1, <1>2 DEF OnceInv, SafeInv, Once, NoneLive

LEMMA EndOnce == ASSUME LifeInv, OnceInv, Stop_End PROVE OnceInv'
<1>1. main = "joining" /\ main' = "idle" /\ UNCHANGED <<past, broken>>
  BY DEF Stop_End
<1>2. NoneLive' /\ LifeInv'
  BY <1>1, EndThread DEF Stop_End
<1>3. /\ DOMAIN pool' = Fields /\ pool'.members = pool.members
      /\ pool'.m_listener = pool.m_listener /\ pool'.m_poolstatus = "CPS_CALLBACK"
  BY DEF Stop_End, DispatcherFini, OnceInv, Fields
<1>4. ~thread'.running
  BY <1>2 DEF LifeInv, ThreadInv, NoneLive
<1>5. QED
  BY <1>1, <1>2, <1>3, <1>4 DEF OnceInv, SafeInv, Once

(* The pool goes when no thread is there, and nobody uses it afterwards.   *)
LEMMA DestroyOnce == ASSUME LifeInv, OnceInv, DestoryConnectPool PROVE OnceInv'
<1>1. main = "idle" /\ pool.m_poolstatus # "CPS_START" /\ UNCHANGED <<thread, disp, past, broken>>
  BY DEF DestoryConnectPool
<1>2. /\ DOMAIN pool' = Fields /\ pool'.m_cpool = pool.m_cpool
      /\ pool'.m_listener = pool.m_listener /\ pool'.m_poolstatus = pool.m_poolstatus
  BY DEF DestoryConnectPool, DeletePool, OnceInv, Fields
<1>3. ~thread.running => main' = "no pool"
  BY DEF DestoryConnectPool
<1>4. QED
  BY <1>1, <1>2, <1>3 DEF OnceInv, SafeInv, Once, NoneLive

LEMMA DestroyEndOnce == ASSUME LifeInv, OnceInv, Destroy_End PROVE OnceInv'
<1>1. main = "deleting" /\ UNCHANGED <<pool, past>>
  BY DEF Destroy_End
<1>2. QED
  BY <1>1 DEF OnceInv, SafeInv, Once

(* The dispatcher finds what it uses.                                      *)
LEMMA GoesOn ==
  ASSUME LifeInv, OnceInv, Once, NEW t \in Threads, disp[t] # "gone"
  PROVE  pool.m_cpool /\ pool.members
<1>1. ~NoneLive
  BY DEF NoneLive
<1>2. main # "no pool"
  BY <1>1, LiveNeedsPool
<1>3. QED
  BY <1>1, <1>2 DEF OnceInv, SafeInv

LEMMA DispatcherOnce ==
  ASSUME LifeInv, OnceInv, NEW t \in Threads, Dispatcher(t)
  PROVE  OnceInv'
<1>1. UNCHANGED <<main, past>> /\ disp[t] # "gone"
  BY DEF Dispatcher, Run, CheckTimer, Connect, DispatchPacket
<1>2. thread'.running = thread.running
  BY DEF Dispatcher, Run, CheckTimer, Connect, DispatchPacket, Broadcast, LifeInv, Shape
<1>3. /\ DOMAIN pool' = Fields /\ pool'.m_cpool = pool.m_cpool /\ pool'.members = pool.members
      /\ pool'.m_listener = pool.m_listener /\ pool'.m_poolstatus = pool.m_poolstatus
  <2>1. CASE Connect(t)
    BY <2>1 DEF Connect, OnceInv, Fields
  <2>2. CASE UNCHANGED pool
    BY <2>2 DEF OnceInv
  <2>3. QED
    BY <2>1, <2>2 DEF Dispatcher, Run, CheckTimer, DispatchPacket
<1>4. ASSUME Once PROVE UNCHANGED broken
  BY <1>1, <1>4, GoesOn DEF Dispatcher, Run, CheckTimer, Connect, DispatchPacket, Calls, Goes
<1>5. ASSUME Once PROVE pool.m_cpool
  BY <1>1, <1>5, GoesOn
<1>6. ASSUME Once PROVE SafeInv'
  <2>1. ~broken' /\ pool'.m_cpool
    <3>1. ~broken /\ broken' = broken
      BY <1>4, <1>6 DEF OnceInv, SafeInv
    <3>2. pool.m_cpool /\ pool'.m_cpool = pool.m_cpool
      BY <1>3, <1>5, <1>6
    <3>3. QED
      BY <3>1, <3>2, Zenon
  <2>2. (main' # "no pool" => pool'.members) /\ main' \notin {"destroying", "deleting"}
    BY <1>1, <1>3, <1>6 DEF OnceInv, SafeInv
  <2>3. main' = "idle" /\ pool'.m_poolstatus # "CPS_START" => ~thread'.running
    BY <1>1, <1>2, <1>3, <1>6 DEF OnceInv, SafeInv
  <2>4. QED
    BY <1>1, <1>3, <1>6, <2>1, <2>2, <2>3 DEF OnceInv, SafeInv
<1>7. QED
  BY <1>1, <1>3, <1>6 DEF OnceInv, Once

LEMMA OnceNext == ASSUME LifeInv, OnceInv, [Next]_vars PROVE OnceInv'
<1>1. CASE CreateConnectPool /\ ~broken
  BY <1>1, CreateOnce
<1>2. CASE SetCallback \/ AddForbidIP \/ DelForbidIP
  BY <1>2, CallbackOnce
<1>3. CASE Start_Begin \/ Start_Listen
  BY <1>3, StartOnce, ListenOnce
<1>4. CASE Stop_Begin \/ Stop_Deletes \/ Terminate \/ Stop_End
  BY <1>4, StopOnce, DeletesOnce, TerminateOnce, EndOnce
<1>5. CASE DestoryConnectPool \/ Destroy_End
  BY <1>5, DestroyOnce, DestroyEndOnce
<1>6. CASE \E t \in Threads : Dispatcher(t)
  BY <1>6, DispatcherOnce
<1>7. CASE UNCHANGED vars
  BY <1>7 DEF vars, OnceInv, SafeInv, Once, NoneLive
<1>8. QED
  BY <1>1, <1>2, <1>3, <1>4, <1>5, <1>6, <1>7 DEF Next, Ending

(* A program that calls Start once for each pool, with success, uses       *)
(* nothing that was deleted.                                               *)
THEOREM OnceIsSafeTheorem == Spec => []OnceIsSafe
<1>1. LifeInv /\ OnceInv => OnceIsSafe
  <2> SUFFICES ASSUME LifeInv, OnceInv, broken PROVE past.starts > 1 \/ past.failed
    BY DEF OnceIsSafe
  <2>1. ~Once
    BY DEF OnceInv, SafeInv
  <2>2. past.starts \in Nat
    BY DEF LifeInv, Shape
  <2>3. past.starts \in {0, 1} \/ past.starts > 1
    BY <2>2
  <2>4. QED
    BY <2>1, <2>3 DEF Once
<1>2. LifeInv /\ OnceInv /\ [Next]_vars => LifeInv' /\ OnceInv'
  BY ThreadNext, OnceNext
<1>3. QED
  BY <1>1, <1>2, ThreadInit, OnceInit, PTL DEF Spec

-----------------------------------------------------------------------------
(* What the status of a pool says.                                         *)

(* The library is there with the pool; a pool that is not started has no   *)
(* object; one that is has what StatusAgrees promises.                     *)
StatusInv ==
  /\ library.connectpool_count = IF main = "no pool" THEN 0 ELSE 1
  /\ main # "no pool" => library.logger /\ library.winsock
  /\ DOMAIN pool = Fields /\ DOMAIN pool.lists = {"accepted", "outgoing"}
  /\ pool.m_poolstatus = "CPS_START" => main \in {"idle", "iocp waits", "iocp ended", "joining"}
  /\ pool.m_poolstatus # "CPS_START" \/ main \in {"iocp ended", "joining"}
       => pool.lists = NoObjects
  /\ main = "starting" => pool.m_cpool /\ thread.running
  /\ main = "idle" /\ pool.m_poolstatus = "CPS_START" =>
       /\ pool.m_cpool /\ thread.running /\ pool.m_iocp = "iocp"
       /\ asked.listens => /\ pool.m_listener = "listening"
                           /\ pool.lists.accepted = asked.max.accepted

LEMMA NoLists == DOMAIN NoObjects = {"accepted", "outgoing"} /\ NoObjects.accepted = 0
  BY DEF NoObjects

LEMMA NewPoolFields ==
  ASSUME NEW m_iocp
  PROVE  /\ DOMAIN NewPool(m_iocp) = Fields
         /\ NewPool(m_iocp).m_poolstatus = "CPS_NONE" /\ NewPool(m_iocp).lists = NoObjects
  BY DEF NewPool, Fields

LEMMA StatusInit == Init => StatusInv
<1> SUFFICES ASSUME Init PROVE StatusInv
  OBVIOUS
<1>1. main = "no pool" /\ library.connectpool_count = 0
  BY DEF Init
<1>2. /\ DOMAIN pool = Fields /\ pool.m_poolstatus = "CPS_NONE"
      /\ pool.lists = NoObjects
  BY NewPoolFields DEF Init
<1>3. QED
  BY <1>1, <1>2, NoLists DEF StatusInv

LEMMA CreateStatus == ASSUME StatusInv, CreateConnectPool PROVE StatusInv'
<1>1. PICK starts \in BOOLEAN, m_iocp \in Garbage :
        LET up == library.connectpool_count > 0 \/ starts
        IN  /\ library' = [connectpool_count |-> library.connectpool_count + (IF up THEN 1 ELSE 0),
                           logger |-> TRUE, winsock |-> up]
            /\ main' = IF up THEN "idle" ELSE "no pool"
            /\ pool' = NewPool(m_iocp)
  BY DEF CreateConnectPool
<1>2. library.connectpool_count = 0 /\ ~(library.connectpool_count > 0)
  <2>1. main = "no pool"
    BY DEF CreateConnectPool
  <2>2. library.connectpool_count = 0
    BY <2>1 DEF StatusInv
  <2>3. QED
    BY <2>2
<1>3. /\ DOMAIN pool' = Fields /\ pool'.m_poolstatus = "CPS_NONE"
      /\ pool'.lists = NoObjects
  BY <1>1, NewPoolFields
<1>4. CASE starts
  <2>1. library' = [connectpool_count |-> 1, logger |-> TRUE, winsock |-> TRUE]
    <3>1. library' = [connectpool_count |-> library.connectpool_count + 1,
                      logger |-> TRUE, winsock |-> TRUE]
      BY <1>1, <1>4, Zenon
    <3>2. library.connectpool_count + 1 = 1
      BY <1>2
    <3>3. QED
      BY <3>1, <3>2, Zenon
  <2>2. main' = "idle"
    BY <1>1, <1>4
  <2>3. QED
    BY <1>3, <2>1, <2>2, NoLists DEF StatusInv
<1>5. CASE ~starts
  <2>1. library'.connectpool_count = 0
    <3>1. library'.connectpool_count = library.connectpool_count + 0
      BY <1>1, <1>2, <1>5
    <3>2. library.connectpool_count + 0 = 0
      BY <1>2
    <3>3. QED
      BY <3>1, <3>2, Zenon
  <2>2. main' = "no pool"
    BY <1>1, <1>2, <1>5
  <2>3. QED
    BY <1>3, <2>1, <2>2, NoLists DEF StatusInv
<1>6. QED
  BY <1>4, <1>5

(* Callbacks and addresses may be set on a pool whatever its status. *)
LEMMA CallbackStatus ==
  ASSUME StatusInv, SetCallback \/ AddForbidIP \/ DelForbidIP
  PROVE  StatusInv'
<1>1. UNCHANGED <<library, main, thread, asked>>
  BY DEF SetCallback, AddForbidIP, DelForbidIP, Forbids
<1>2. /\ DOMAIN pool' = Fields /\ pool'.lists = pool.lists /\ pool'.m_cpool = pool.m_cpool
      /\ pool'.m_listener = pool.m_listener /\ pool'.m_iocp = pool.m_iocp
      /\ pool'.m_poolstatus = "CPS_START" <=> pool.m_poolstatus = "CPS_START"
  BY DEF SetCallback, AddForbidIP, DelForbidIP, Forbids, StatusInv, Fields
<1>3. QED
  BY <1>1, <1>2 DEF StatusInv

LEMMA StartStatus == ASSUME LifeInv, StatusInv, Start_Begin PROVE StatusInv'
<1>1. /\ main = "idle" /\ main' = "starting" /\ pool.m_poolstatus = "CPS_CALLBACK"
      /\ UNCHANGED library
  BY DEF Start_Begin
<1>2. /\ DOMAIN pool' = Fields /\ pool'.lists = pool.lists /\ pool'.m_cpool
      /\ pool'.m_poolstatus = "CPS_CALLBACK"
  BY <1>1 DEF Start_Begin, StatusInv, Fields
<1>3. thread'.running
  <2>1. thread' = Start(thread, past.starts + 1)
    BY DEF Start_Begin, StartDispatcher
  <2>2. CASE Starts(thread)
    BY <2>1, <2>2 DEF Start, LifeInv, Shape
  <2>3. CASE ~Starts(thread)
    BY <1>1, <2>1, <2>3 DEF Start, Starts, LifeInv, ThreadInv
  <2>4. QED
    BY <2>2, <2>3
<1>4. QED
  BY <1>1, <1>2, <1>3 DEF StatusInv

LEMMA ListenStatus == ASSUME LifeInv, StatusInv, Start_Listen PROVE StatusInv'
<1>1. /\ main = "starting" /\ main' \in {"idle", "aborted"}
      /\ UNCHANGED <<library, thread, asked>>
  BY DEF Start_Listen
<1>2. /\ pool.m_poolstatus # "CPS_START" /\ pool.lists = NoObjects
      /\ pool.m_cpool /\ thread.running
  BY <1>1 DEF StatusInv
<1>3. CASE ~AssertsIOCP
  <2>1. main' = "aborted" /\ UNCHANGED pool
    BY <1>3 DEF Start_Listen
  <2>2. QED
    BY <1>1, <1>2, <2>1 DEF StatusInv
<1>4. CASE AssertsIOCP
  <2> DEFINE p == SetIOCP([pool EXCEPT !.max = asked.max])
  <2>1. PICK failing \in SUBSET ListenCalls :
          /\ main' = "idle"
          /\ pool' = IF Succeeds(p, failing)
                       THEN [IF asked.listens THEN Listen(p, failing) ELSE p
                               EXCEPT !.m_poolstatus = "CPS_START"]
                       ELSE IF asked.listens THEN Listen(p, failing) ELSE p
    BY <1>4 DEF Start_Listen
  <2> DEFINE q == IF asked.listens THEN Listen(p, failing) ELSE p
  <2>2. /\ DOMAIN p = Fields /\ p.lists = NoObjects /\ p.m_cpool = pool.m_cpool
        /\ p.m_poolstatus = pool.m_poolstatus /\ p.m_iocp = "iocp" /\ p.max = asked.max
    BY <1>2 DEF SetIOCP, StatusInv, Fields
  <2>3. CASE ~Succeeds(p, failing)
    <3>1. asked.listens /\ ~Listens(p, failing)
      BY <2>3 DEF Succeeds
    <3>2. /\ DOMAIN pool' = Fields /\ pool'.lists = NoObjects
          /\ pool'.m_poolstatus = pool.m_poolstatus
      BY <2>1, <2>2, <2>3, <3>1 DEF Listen, Listens, Fields
    <3>3. QED
      BY <1>1, <1>2, <2>1, <3>2, NoLists DEF StatusInv
  <2>4. CASE Succeeds(p, failing)
    <3>1. asked.listens => Listens(p, failing)
      BY <2>4 DEF Succeeds
    <3>2. /\ DOMAIN q = Fields /\ q.m_cpool = pool.m_cpool /\ q.m_iocp = "iocp"
          /\ DOMAIN q.lists = {"accepted", "outgoing"}
      BY <2>2, NoLists DEF Listen, Fields
    <3>3. asked.listens => q.m_listener = "listening" /\ q.lists.accepted = asked.max.accepted
      BY <2>2, <3>1, NoLists DEF Listen, Listens, Fields
    <3>4. /\ DOMAIN pool' = Fields /\ pool'.m_cpool = pool.m_cpool /\ pool'.m_iocp = "iocp"
          /\ pool'.lists = q.lists /\ pool'.m_listener = q.m_listener
          /\ pool'.m_poolstatus = "CPS_START"
      BY <2>1, <2>4, <3>2 DEF Fields
    <3>5. QED
      BY <1>1, <1>2, <2>1, <3>2, <3>3, <3>4 DEF StatusInv
  <2>5. QED
    BY <2>3, <2>4
<1>5. QED
  BY <1>3, <1>4

LEMMA StopStatus ==
  ASSUME StatusInv, Stop_Begin \/ Stop_Deletes \/ Terminate
  PROVE  StatusInv'
<1>1. CASE Stop_Begin
  <2>1. /\ main = "idle" /\ pool.m_poolstatus = "CPS_START"
        /\ UNCHANGED <<library, thread, asked>>
    BY <1>1 DEF Stop_Begin
  <2>2. CASE pool.m_listener = "deleted"
    BY <1>1, <2>1, <2>2 DEF Stop_Begin, StatusInv
  <2>3. CASE pool.m_listener # "deleted"
    <3>1. main' = "iocp waits"
      BY <1>1, <2>3 DEF Stop_Begin
    <3>2. /\ DOMAIN pool' = Fields /\ pool'.lists = pool.lists
          /\ pool'.m_poolstatus = "CPS_START"
      BY <1>1, <2>1, <2>3 DEF Stop_Begin, StatusInv, Fields
    <3>3. QED
      BY <2>1, <3>1, <3>2 DEF StatusInv
  <2>4. QED
    BY <2>2, <2>3
<1>2. CASE Stop_Deletes
  <2>1. main = "iocp waits" /\ main' = "iocp ended" /\ UNCHANGED library
    BY <1>2 DEF Stop_Deletes
  <2>2. DOMAIN pool' = Fields /\ pool'.lists = NoObjects
    BY <1>2 DEF Stop_Deletes, StatusInv, Fields
  <2>3. QED
    BY <2>1, <2>2, NoLists DEF StatusInv
<1>3. CASE Terminate
  <2>1. UNCHANGED <<library, pool>>
    BY <1>3 DEF Terminate
  <2>2. \/ main = "iocp ended" /\ main' = "joining"
        \/ main = "destroying" /\ main' = "deleting"
    BY <1>3 DEF Terminate
  <2>3. CASE main = "iocp ended" /\ main' = "joining"
    BY <2>1, <2>3 DEF StatusInv
  <2>4. CASE main = "destroying" /\ main' = "deleting"
    BY <2>1, <2>4 DEF StatusInv
  <2>5. QED
    BY <2>2, <2>3, <2>4
<1>4. QED
  BY <1>1, <1>2, <1>3

LEMMA EndStatus == ASSUME StatusInv, Stop_End PROVE StatusInv'
<1>1. main = "joining" /\ main' = "idle" /\ UNCHANGED library
  BY DEF Stop_End
<1>2. /\ DOMAIN pool' = Fields /\ pool'.lists = pool.lists
      /\ pool'.m_poolstatus = "CPS_CALLBACK"
  BY DEF Stop_End, DispatcherFini, StatusInv, Fields
<1>3. QED
  BY <1>1, <1>2 DEF StatusInv

LEMMA NoneIsLeft == 1 - 1 = 0
  OBVIOUS

LEMMA ForgetStatus ==
  ASSUME StatusInv, main # "no pool", Forget
  PROVE  library'.connectpool_count = 0
<1>1. library.connectpool_count = 1
  BY DEF StatusInv
<1>2. library'.connectpool_count = library.connectpool_count - 1
  BY DEF Forget
<1>3. QED
  BY <1>1, <1>2, NoneIsLeft, Zenon

LEMMA DestroyStatus ==
  ASSUME StatusInv, DestoryConnectPool \/ Destroy_End
  PROVE  StatusInv'
<1>1. /\ DOMAIN pool' = Fields /\ pool'.lists = pool.lists
      /\ pool'.m_poolstatus = pool.m_poolstatus
  BY DEF DestoryConnectPool, DeletePool, Destroy_End, StatusInv, Fields
<1>2. main # "no pool" /\ pool.m_poolstatus # "CPS_START"
  BY DEF DestoryConnectPool, Destroy_End, StatusInv
<1>3. \/ main' = "destroying" /\ UNCHANGED library
      \/ main' = "no pool" /\ Forget
  BY DEF DestoryConnectPool, Destroy_End
<1>4. CASE main' = "destroying" /\ UNCHANGED library
  BY <1>1, <1>2, <1>4 DEF StatusInv
<1>5. CASE main' = "no pool" /\ Forget
  <2>1. library'.connectpool_count = 0
    BY <1>2, <1>5, ForgetStatus
  <2>2. QED
    BY <1>1, <1>2, <1>5, <2>1 DEF StatusInv
<1>6. QED
  BY <1>3, <1>4, <1>5

(* Only Connect changes the pool, and it can be called at no time when     *)
(* main is in the middle of something.                                     *)
LEMMA DispatcherStatus ==
  ASSUME LifeInv, StatusInv, NEW t \in Threads, Dispatcher(t)
  PROVE  StatusInv'
<1>1. UNCHANGED <<library, main, asked>>
  BY DEF Dispatcher, Run, CheckTimer, Connect, DispatchPacket
<1>2. thread'.running = thread.running
  BY DEF Dispatcher, Run, CheckTimer, Connect, DispatchPacket, Broadcast, LifeInv, Shape
<1>3. CASE UNCHANGED pool
  BY <1>1, <1>2, <1>3 DEF StatusInv
<1>4. CASE Connect(t) /\ MayConnect
  <2>1. main = "idle" /\ pool.m_poolstatus = "CPS_START"
    BY <1>4 DEF Connect, MayConnect, Locked, StatusInv
  <2>2. PICK n : pool' = [pool EXCEPT !.lists.outgoing = n]
    BY <1>4 DEF Connect
  <2>3. pool' = [pool EXCEPT !.lists = [pool.lists EXCEPT !.outgoing = n]]
    BY <2>2
  <2>4. /\ DOMAIN pool' = Fields /\ pool'.m_cpool = pool.m_cpool
        /\ pool'.m_iocp = pool.m_iocp /\ pool'.m_listener = pool.m_listener
        /\ pool'.m_poolstatus = pool.m_poolstatus
        /\ pool'.lists = [pool.lists EXCEPT !.outgoing = n]
    BY <2>3 DEF StatusInv, Fields
  <2>5. /\ pool'.lists.accepted = pool.lists.accepted
        /\ DOMAIN pool'.lists = {"accepted", "outgoing"}
    BY <2>4 DEF StatusInv
  <2>6. QED
    BY <1>1, <1>2, <2>1, <2>4, <2>5 DEF StatusInv
<1>5. QED
  BY <1>3, <1>4 DEF Dispatcher, Run, CheckTimer, Connect, DispatchPacket

LEMMA StatusNext == ASSUME LifeInv, StatusInv, [Next]_vars PROVE StatusInv'
<1>1. CASE CreateConnectPool
  BY <1>1, CreateStatus
<1>2. CASE SetCallback \/ AddForbidIP \/ DelForbidIP
  BY <1>2, CallbackStatus
<1>3. CASE Start_Begin \/ Start_Listen
  BY <1>3, StartStatus, ListenStatus
<1>4. CASE Stop_Begin \/ Stop_Deletes \/ Terminate \/ Stop_End
  BY <1>4, StopStatus, EndStatus
<1>5. CASE DestoryConnectPool \/ Destroy_End
  BY <1>5, DestroyStatus
<1>6. CASE \E t \in Threads : Dispatcher(t)
  BY <1>6, DispatcherStatus
<1>7. CASE UNCHANGED vars
  BY <1>7 DEF vars, StatusInv
<1>8. QED
  BY <1>1, <1>2, <1>3, <1>4, <1>5, <1>6, <1>7 DEF Next, Ending

(* A started pool has all it needs, any other pool has no object left.     *)
THEOREM StatusTheorem == Spec => []StatusAgrees
<1>1. LifeInv /\ StatusInv => StatusAgrees
  <2> SUFFICES ASSUME LifeInv, StatusInv, main = "idle" PROVE StatusAgrees
    BY DEF StatusAgrees
  <2>1. library.winsock /\ library.logger
    BY DEF StatusInv
  <2>2. CASE pool.m_poolstatus = "CPS_START"
    <3>1. thread.running /\ pool.m_cpool /\ pool.m_iocp = "iocp"
      BY <2>2 DEF StatusInv
    <3>2. disp[thread.hThread] # "gone"
      BY <3>1 DEF LifeInv, ThreadInv
    <3>3. asked.listens => /\ pool.m_listener = "listening"
                           /\ pool.lists.accepted = asked.max.accepted
      BY <2>2 DEF StatusInv
    <3>4. QED
      BY <2>1, <2>2, <3>1, <3>2, <3>3 DEF StatusAgrees
  <2>3. CASE pool.m_poolstatus # "CPS_START"
    BY <2>1, <2>3 DEF StatusAgrees, StatusInv
  <2>4. QED
    BY <2>2, <2>3
<1>2. LifeInv /\ StatusInv /\ [Next]_vars => LifeInv' /\ StatusInv'
  BY ThreadNext, StatusNext
<1>3. QED
  BY <1>1, <1>2, ThreadInit, StatusInit, PTL DEF Spec

(* Names for the sets of TypeOK.                                           *)
LibraryRecord == [connectpool_count : 0..1, logger : BOOLEAN, winsock : BOOLEAN]
PoolRecord ==
  [m_poolstatus : {"CPS_NONE", "CPS_CALLBACK", "CPS_START"},
   m_listener : {"null", "listening", "closed", "deleted"},
   max : Counts, lists : Counts, m_cpool : BOOLEAN,
   m_iocp : Garbage \cup {"iocp"}, members : BOOLEAN,
   m_forbidips : SUBSET Addresses]
Places == {"gone", "loop", "timer", "connect", "packet"}
AskedRecord == [listens : BOOLEAN, max : Counts]
PastRecord == [pools : 0..MaxPools, starts : 0..MaxStarts, failed : BOOLEAN]

(* TypeOK, with its sets under their names.                                *)
Typed ==
  /\ library \in LibraryRecord /\ main \in MainStates /\ pool \in PoolRecord
  /\ thread \in ThreadObject(Threads) /\ disp \in [Threads -> Places]
  /\ asked \in AskedRecord /\ past \in PastRecord /\ broken \in BOOLEAN

(* It is TypeOK.                                                           *)
LEMMA TypedIs == Typed <=> TypeOK
  BY Zenon DEF Typed, TypeOK, LibraryRecord, PoolRecord, Places, AskedRecord, PastRecord

(* A pool without objects has counts like any other.                       *)
LEMMA NoObjectsTyped == NoObjects \in Counts /\ MaxObjects \in Nat /\ MaxObjects >= 1
<1>1. MaxObjects \in Nat /\ MaxObjects >= 1 /\ 0 \in 0..MaxObjects
  BY LifeAssumption
<1>2. QED
  BY <1>1 DEF NoObjects, Counts

(* The constructors give every member a value of its type, whatever the    *)
(* uninitialised one holds.                                                *)
LEMMA NewPoolTyped == \A m \in Garbage : NewPool(m) \in PoolRecord
<1> SUFFICES ASSUME NEW m \in Garbage PROVE NewPool(m) \in PoolRecord
  OBVIOUS
<1>1. NoObjects \in Counts
  BY NoObjectsTyped
<1>2. {} \in SUBSET Addresses /\ m \in Garbage \cup {"iocp"}
  OBVIOUS
<1>3. QED
  BY <1>1, <1>2, Zenon DEF NewPool, PoolRecord

(* The fields of the pool that steps set.                                  *)
LEMMA PoolSet ==
  ASSUME NEW p \in PoolRecord
  PROVE  /\ \A x \in {"CPS_NONE", "CPS_CALLBACK", "CPS_START"} : [p EXCEPT !.m_poolstatus = x] \in PoolRecord
         /\ \A x \in {"null", "listening", "closed", "deleted"} : [p EXCEPT !.m_listener = x] \in PoolRecord
         /\ \A x \in Counts : [p EXCEPT !.max = x] \in PoolRecord /\ [p EXCEPT !.lists = x] \in PoolRecord
         /\ [p EXCEPT !.m_cpool = TRUE] \in PoolRecord /\ [p EXCEPT !.m_cpool = FALSE] \in PoolRecord
         /\ [p EXCEPT !.m_iocp = "iocp"] \in PoolRecord
         /\ [p EXCEPT !.members = FALSE] \in PoolRecord
         /\ \A x \in SUBSET Addresses : [p EXCEPT !.m_forbidips = x] \in PoolRecord
<1>1. \A x \in {"CPS_NONE", "CPS_CALLBACK", "CPS_START"} : [p EXCEPT !.m_poolstatus = x] \in PoolRecord
  BY DEF PoolRecord
<1>2. \A x \in {"null", "listening", "closed", "deleted"} : [p EXCEPT !.m_listener = x] \in PoolRecord
  BY DEF PoolRecord
<1>3. \A x \in Counts : [p EXCEPT !.max = x] \in PoolRecord
  BY DEF PoolRecord
<1>4. \A x \in Counts : [p EXCEPT !.lists = x] \in PoolRecord
  BY DEF PoolRecord
<1>5. [p EXCEPT !.m_cpool = TRUE] \in PoolRecord /\ [p EXCEPT !.m_cpool = FALSE] \in PoolRecord
  BY DEF PoolRecord
<1>6. [p EXCEPT !.m_iocp = "iocp"] \in PoolRecord
  BY DEF PoolRecord
<1>7. [p EXCEPT !.members = FALSE] \in PoolRecord
  BY DEF PoolRecord
<1>8. \A x \in SUBSET Addresses : [p EXCEPT !.m_forbidips = x] \in PoolRecord
  BY DEF PoolRecord
<1>9. QED
  BY <1>1, <1>2, <1>3, <1>4, <1>5, <1>6, <1>7, <1>8

(* What steps do to the record of the CThread.                             *)
LEMMA ThreadSet ==
  ASSUME NEW t \in ThreadObject(Threads), NEW u \in Threads
  PROVE  /\ NewThread \in ThreadObject(Threads) /\ Start(t, u) \in ThreadObject(Threads)
         /\ Stopping(t) \in ThreadObject(Threads) /\ Stopped(t) \in ThreadObject(Threads)
         /\ Broadcast(t) \in ThreadObject(Threads)
<1>1. NewThread \in ThreadObject(Threads)
  BY DEF NewThread, ThreadObject
<1>2. Start(t, u) \in ThreadObject(Threads)
  <2>1. [t EXCEPT !.hThread = u, !.running = TRUE] \in ThreadObject(Threads)
    BY DEF ThreadObject
  <2>2. QED
    BY <2>1, Zenon DEF Start
<1>3. Stopping(t) \in ThreadObject(Threads) /\ Broadcast(t) \in ThreadObject(Threads)
  BY DEF Stopping, Broadcast, ThreadObject
<1>4. Stopped(t) \in ThreadObject(Threads)
  BY DEF Stopped, ThreadObject
<1>5. QED
  BY <1>1, <1>2, <1>3, <1>4

(* CreateConnectPool makes a pool and counts it.                           *)
LEMMA TypedCreate == ASSUME StatusInv, Typed, CreateConnectPool PROVE Typed'
<1>1. PICK starts \in BOOLEAN, m_iocp \in Garbage :
        LET up == library.connectpool_count > 0 \/ starts
        IN  /\ library' = [connectpool_count |-> library.connectpool_count + (IF up THEN 1 ELSE 0),
                           logger |-> TRUE, winsock |-> up]
            /\ main' = IF up THEN "idle" ELSE "no pool"
            /\ pool' = NewPool(m_iocp)
  BY DEF CreateConnectPool
<1> DEFINE up == library.connectpool_count > 0 \/ starts
           n  == library.connectpool_count + (IF up THEN 1 ELSE 0)
<1>2. library.connectpool_count = 0
  BY DEF CreateConnectPool, StatusInv
<1>3. up \in BOOLEAN
  BY Zenon
<1>4. n \in 0..1
  BY <1>2
<1>5. library' = [connectpool_count |-> n, logger |-> TRUE, winsock |-> up]
  BY <1>1, Zenon
<1> HIDE DEF up, n
<1>6. library' \in LibraryRecord
  BY <1>3, <1>4, <1>5, Zenon DEF LibraryRecord
<1>7. main' \in MainStates
  BY <1>1 DEF MainStates
<1>8. pool' \in PoolRecord
  BY <1>1, NewPoolTyped
<1>9. thread' \in ThreadObject(Threads)
  BY DEF CreateConnectPool, NewThread, ThreadObject
<1>10. past' \in PastRecord
  <2>1. past.pools \in 0..MaxPools /\ past.pools < MaxPools /\ MaxPools \in Nat /\ MaxStarts \in Nat
    BY LifeAssumption DEF CreateConnectPool, Typed, PastRecord
  <2>2. past.pools + 1 \in 0..MaxPools /\ 0 \in 0..MaxStarts
    BY <2>1
  <2>3. past' = [pools |-> past.pools + 1, starts |-> 0, failed |-> FALSE]
    BY DEF CreateConnectPool
  <2>4. QED
    BY <2>2, <2>3, Zenon DEF PastRecord
<1>11. UNCHANGED <<disp, asked, broken>>
  BY DEF CreateConnectPool
<1>12. QED
  BY <1>6, <1>7, <1>8, <1>9, <1>10, <1>11, Zenon DEF Typed

(* SetCallback and the forbidden addresses.                                *)
LEMMA TypedCallback ==
  ASSUME Typed, SetCallback \/ AddForbidIP \/ DelForbidIP
  PROVE  Typed'
<1>1. UNCHANGED <<library, main, thread, disp, asked, past, broken>>
  BY DEF SetCallback, AddForbidIP, DelForbidIP, Forbids
<1>2. pool \in PoolRecord
  BY DEF Typed
<1>3. pool.m_forbidips \subseteq Addresses
  BY <1>2 DEF PoolRecord
<1>4. pool' \in PoolRecord
  <2>1. CASE SetCallback
    BY <1>2, <2>1, PoolSet DEF SetCallback
  <2>2. CASE AddForbidIP \/ DelForbidIP
    <3>1. PICK ips \in SUBSET Addresses : pool' = [pool EXCEPT !.m_forbidips = ips]
      BY <1>3, <2>2 DEF AddForbidIP, DelForbidIP, Forbids
    <3>2. QED
      BY <1>2, <3>1, PoolSet
  <2>3. QED
    BY <2>1, <2>2
<1>5. QED
  BY <1>1, <1>4, Zenon DEF Typed

(* Start until it has started its thread.                                  *)
LEMMA TypedStart == ASSUME Typed, Start_Begin PROVE Typed'
<1>1. past \in PastRecord /\ past.starts < MaxStarts /\ MaxStarts \in Nat
  BY LifeAssumption DEF Typed, Start_Begin
<1>2. past.starts + 1 \in 1..MaxStarts /\ past.starts + 1 \in 0..MaxStarts
  BY <1>1 DEF PastRecord
<1>3. past' \in PastRecord
  <2> DEFINE n == past.starts + 1
  <2>1. past' = [past EXCEPT !.starts = n] /\ n \in 0..MaxStarts
    BY <1>2 DEF Start_Begin
  <2> HIDE DEF n
  <2>2. QED
    BY <1>1, <2>1 DEF PastRecord
<1>4. asked' \in AskedRecord
  <2>1. PICK listens \in BOOLEAN, clients \in {0, MaxObjects}, outs \in {0, MaxObjects} :
          asked' = [listens |-> listens, max |-> [accepted |-> clients, outgoing |-> outs]]
    BY DEF Start_Begin
  <2>2. clients \in 0..MaxObjects /\ outs \in 0..MaxObjects
    BY NoObjectsTyped
  <2>3. [accepted |-> clients, outgoing |-> outs] \in Counts
    BY <2>2 DEF Counts
  <2>4. QED
    BY <2>1, <2>3, Zenon DEF AskedRecord
<1>5. pool' \in PoolRecord
  BY PoolSet DEF Typed, Start_Begin
<1>6. thread' \in ThreadObject(Threads) /\ disp' \in [Threads -> Places]
  <2> DEFINE s == past.starts + 1
  <2>1. s \in Threads /\ thread' = Start(thread, s)
        /\ disp' = IF Starts(thread) THEN [disp EXCEPT ![s] = "loop"] ELSE disp
    BY <1>2 DEF Start_Begin, StartDispatcher, Threads
  <2> HIDE DEF s
  <2>2. QED
    BY <2>1, ThreadSet DEF Typed, Places
<1>7. UNCHANGED <<library, broken>> /\ main' \in MainStates
  BY DEF Start_Begin, MainStates
<1>8. QED
  BY <1>3, <1>4, <1>5, <1>6, <1>7, Zenon DEF Typed

(* The rest of Start, whichever calls of Listen fail.                      *)
LEMMA TypedListen == ASSUME Typed, Start_Listen PROVE Typed'
<1>1. UNCHANGED <<library, thread, disp, asked, broken>> /\ main' \in MainStates
  BY DEF Start_Listen, MainStates
<1>2. pool \in PoolRecord /\ past \in PastRecord /\ asked.max \in Counts
  BY DEF Typed, AskedRecord
<1>3. CASE ~AssertsIOCP
  <2>1. UNCHANGED <<pool, past>>
    BY <1>3 DEF Start_Listen
  <2>2. QED
    BY <1>1, <1>2, <2>1, Zenon DEF Typed
<1>4. CASE AssertsIOCP
  <2> DEFINE p == SetIOCP([pool EXCEPT !.max = asked.max])
  <2>1. PICK failing \in SUBSET ListenCalls :
          /\ pool' = IF Succeeds(p, failing)
                       THEN [IF asked.listens THEN Listen(p, failing) ELSE p
                               EXCEPT !.m_poolstatus = "CPS_START"]
                       ELSE IF asked.listens THEN Listen(p, failing) ELSE p
          /\ past' = [past EXCEPT !.failed = @ \/ ~Succeeds(p, failing)]
    BY <1>4 DEF Start_Listen
  <2> DEFINE q == IF asked.listens THEN Listen(p, failing) ELSE p
             f == past.failed \/ ~Succeeds(p, failing)
  <2>2. p \in PoolRecord
    <3> DEFINE p0 == [pool EXCEPT !.max = asked.max]
    <3>1. p0 \in PoolRecord
      BY <1>2, PoolSet
    <3> HIDE DEF p0
    <3>2. SetIOCP(p0) \in PoolRecord
      BY <3>1, PoolSet DEF SetIOCP
    <3>3. QED
      BY <3>2 DEF p0
  <2>3. f \in BOOLEAN /\ past' = [past EXCEPT !.failed = f]
    BY <2>1, Zenon
  <2>4. pool' = IF Succeeds(p, failing) THEN [q EXCEPT !.m_poolstatus = "CPS_START"] ELSE q
    BY <2>1
  <2> HIDE DEF p, f
  <2>5. past' \in PastRecord
    BY <1>2, <2>3 DEF PastRecord
  <2>6. Listen(p, failing) \in PoolRecord
    <3> DEFINE x == [p.lists EXCEPT !.accepted = p.max.accepted]
               p1 == [p EXCEPT !.m_listener = "listening"]
    <3>1. p.lists \in Counts /\ p.max \in Counts
      BY <2>2 DEF PoolRecord
    <3>2. x \in Counts
      BY <3>1 DEF Counts
    <3>3. p1 \in PoolRecord /\ [p EXCEPT !.m_listener = "deleted"] \in PoolRecord
      BY <2>2, PoolSet
    <3>4. [p EXCEPT !.m_listener = "listening", !.lists.accepted = p.max.accepted] = [p1 EXCEPT !.lists = x]
      BY <2>2 DEF PoolRecord
    <3> HIDE DEF x, p1
    <3>5. [p1 EXCEPT !.lists = x] \in PoolRecord
      BY <3>2, <3>3, PoolSet
    <3>6. QED
      BY <2>2, <3>3, <3>4, <3>5, Zenon DEF Listen
  <2>7. q \in PoolRecord
    BY <2>2, <2>6
  <2> HIDE DEF q
  <2>8. pool' \in PoolRecord
    BY <2>4, <2>7, PoolSet
  <2>9. QED
    BY <1>1, <2>5, <2>8, Zenon DEF Typed
<1>5. QED
  BY <1>3, <1>4

(* The arithmetic of the last pool that goes.                              *)
LEMMA LastPool ==
  ASSUME NEW k, k = 1
  PROVE  k - 1 = 0 /\ (k - 1 > 0) = FALSE /\ 0 \in 0..1
  OBVIOUS

(* The count of pools does not go below zero: a pool that goes was counted *)
(* when it came.                                                           *)
LEMMA TypedForget ==
  StatusInv /\ main # "no pool" /\ Forget => library' \in LibraryRecord
<1> SUFFICES ASSUME StatusInv, main # "no pool", Forget PROVE library' \in LibraryRecord
  OBVIOUS
<1> DEFINE n == library.connectpool_count - 1
<1>1. n = 0 /\ (n > 0) = FALSE /\ 0 \in 0..1
  <2>1. library.connectpool_count = 1
    BY DEF StatusInv
  <2>2. QED
    BY <2>1, LastPool, Zenon
<1>2. library' = [connectpool_count |-> n, logger |-> n > 0, winsock |-> n > 0]
  BY Zenon DEF Forget
<1>3. library' = [connectpool_count |-> 0, logger |-> FALSE, winsock |-> FALSE]
  BY <1>1, <1>2, Zenon
<1>4. QED
  BY <1>1, <1>3, Zenon DEF LibraryRecord

(* Stop closes and deletes; a thread that takes too long is ended.         *)
LEMMA TypedStop ==
  ASSUME Typed, Stop_Begin \/ Stop_Deletes \/ Terminate
  PROVE  Typed'
<1>1. UNCHANGED <<library, disp, asked, past>>
  BY DEF Stop_Begin, Stop_Deletes, Terminate
<1>2. pool \in PoolRecord /\ NoObjects \in Counts
  BY NoObjectsTyped DEF Typed
<1>3. pool.m_listener \in {"null", "listening", "closed", "deleted"}
  BY <1>2 DEF PoolRecord
<1>4. CASE Stop_Begin
  <2>1. CASE pool.m_listener = "deleted"
    <3>1. broken' = TRUE /\ UNCHANGED <<main, pool, thread>>
      BY <1>4, <2>1, Zenon DEF Stop_Begin
    <3>2. QED
      BY <1>1, <3>1, Zenon DEF Typed
  <2>2. CASE pool.m_listener # "deleted"
    <3> DEFINE x  == IF pool.m_listener = "listening" THEN "closed" ELSE pool.m_listener
               p1 == [pool EXCEPT !.max = NoObjects]
    <3>1. p1 \in PoolRecord /\ x \in {"null", "listening", "closed", "deleted"}
      BY <1>2, <1>3, PoolSet
    <3>2. pool' = [p1 EXCEPT !.m_listener = x]
      BY <1>2, <1>4, <2>2 DEF Stop_Begin, PoolRecord
    <3> HIDE DEF p1, x
    <3>3. pool' \in PoolRecord
      BY <3>1, <3>2, PoolSet
    <3>4. UNCHANGED <<thread, broken>> /\ main' \in MainStates
      BY <1>4, <2>2 DEF Stop_Begin, MainStates
    <3>5. QED
      BY <1>1, <3>3, <3>4, Zenon DEF Typed
  <2>3. QED
    BY <2>1, <2>2
<1>5. CASE Stop_Deletes
  <2> DEFINE x  == IF pool.m_listener = "closed" THEN "deleted" ELSE pool.m_listener
             p1 == [pool EXCEPT !.lists = NoObjects]
  <2>1. p1 \in PoolRecord /\ x \in {"null", "listening", "closed", "deleted"}
    BY <1>2, <1>3, PoolSet
  <2>2. pool' = [p1 EXCEPT !.m_listener = x]
    BY <1>2, <1>5 DEF Stop_Deletes, PoolRecord
  <2> HIDE DEF p1, x
  <2>3. pool' \in PoolRecord
    BY <2>1, <2>2, PoolSet
  <2>4. UNCHANGED <<thread, broken>> /\ main' \in MainStates
    BY <1>5 DEF Stop_Deletes, MainStates
  <2>5. QED
    BY <1>1, <2>3, <2>4, Zenon DEF Typed
<1>6. CASE Terminate
  <2>1. thread' \in ThreadObject(Threads)
    BY <1>6 DEF Terminate, Stopping, Typed, ThreadObject
  <2>2. UNCHANGED <<pool, broken>> /\ main' \in MainStates
    BY <1>6 DEF Terminate, MainStates
  <2>3. QED
    BY <1>1, <2>1, <2>2, Zenon DEF Typed
<1>7. QED
  BY <1>4, <1>5, <1>6

(* The end of Stop, and the pool's destructor.                             *)
LEMMA TypedEnd ==
  ASSUME StatusInv, Typed, Stop_End \/ DestoryConnectPool \/ Destroy_End
  PROVE  Typed'
<1>1. UNCHANGED <<asked, past, broken>>
  BY DEF Stop_End, DestoryConnectPool, Destroy_End
<1>2. main' \in MainStates /\ main # "no pool"
  BY DEF Stop_End, DestoryConnectPool, Destroy_End, MainStates
<1>3. library' \in LibraryRecord
  <2>1. UNCHANGED library \/ Forget
    BY DEF Stop_End, DestoryConnectPool, Destroy_End
  <2>2. QED
    BY <1>2, <2>1, TypedForget DEF Typed
<1>4. pool' \in PoolRecord
  <2>1. pool \in PoolRecord
    BY DEF Typed
  <2>2. CASE Stop_End
    <3> DEFINE p1 == [pool EXCEPT !.m_cpool = FALSE]
    <3>1. p1 \in PoolRecord
      BY <2>1, PoolSet
    <3>2. pool' = [p1 EXCEPT !.m_poolstatus = "CPS_CALLBACK"]
      BY <2>2 DEF Stop_End, DispatcherFini
    <3> HIDE DEF p1
    <3>3. QED
      BY <3>1, <3>2, PoolSet
  <2>3. CASE DestoryConnectPool
    BY <2>1, <2>3, PoolSet DEF DestoryConnectPool, DeletePool
  <2>4. CASE Destroy_End
    BY <2>1, <2>4 DEF Destroy_End
  <2>5. QED
    BY <2>2, <2>3, <2>4
<1>5. thread' \in ThreadObject(Threads)
  BY DEF Stop_End, DestoryConnectPool, Destroy_End, Stopped, Typed, ThreadObject
<1>6. disp' \in [Threads -> Places]
  BY DEF Stop_End, DestoryConnectPool, Destroy_End, Joined, Killed, Typed, Places
<1>7. QED
  BY <1>1, <1>2, <1>3, <1>4, <1>5, <1>6, Zenon DEF Typed

(* A dispatcher's steps: only Connect changes the pool, and leaves no more *)
(* outgoing objects than Start was asked for.                              *)
LEMMA TypedDispatcher == ASSUME Typed, NEW t \in Threads, Dispatcher(t) PROVE Typed'
<1>1. UNCHANGED <<library, main, asked, past>>
  BY DEF Dispatcher, Run, CheckTimer, Connect, DispatchPacket
<1>2. disp' \in [Threads -> Places]
  BY DEF Dispatcher, Run, CheckTimer, Connect, DispatchPacket, Calls, Goes, Typed, Places
<1>3. broken' \in BOOLEAN
  BY Zenon DEF Dispatcher, Run, CheckTimer, Connect, DispatchPacket, Calls, Goes, Typed
<1>4. thread' \in ThreadObject(Threads)
  BY ThreadSet DEF Dispatcher, Run, CheckTimer, Connect, DispatchPacket, Typed
<1>5. pool' \in PoolRecord
  <2>1. UNCHANGED pool \/ (Connect(t) /\ MayConnect)
    BY DEF Dispatcher, Run, CheckTimer, Connect, DispatchPacket
  <2>2. CASE Connect(t) /\ MayConnect
    <3>1. PICK connects \in BOOLEAN : pool' = [pool EXCEPT !.lists.outgoing = ObjectsLeft(connects)]
      BY <2>2 DEF Connect
    <3> DEFINE n == ObjectsLeft(connects)
               x == [pool.lists EXCEPT !.outgoing = n]
    <3>2. pool \in PoolRecord /\ pool.lists \in Counts /\ pool.max \in Counts
      BY DEF Typed, PoolRecord
    <3>3. pool.max.outgoing \in 0..MaxObjects /\ pool.max.outgoing > 0
      BY <2>2, <3>2 DEF MayConnect, Counts
    <3>4. n \in 0..MaxObjects
      BY <3>3, NoObjectsTyped DEF ObjectsLeft
    <3>5. pool' = [pool EXCEPT !.lists.outgoing = n]
      BY <3>1, Zenon
    <3> HIDE DEF n
    <3>6. pool' = [pool EXCEPT !.lists = x]
      BY <3>2, <3>5 DEF PoolRecord
    <3>8. x \in Counts
      BY <3>2, <3>4 DEF Counts
    <3> HIDE DEF x
    <3>7. QED
      BY <3>2, <3>6, <3>8, PoolSet
  <2>3. QED
    BY <2>1, <2>2 DEF Typed
<1>6. QED
  BY <1>1, <1>2, <1>3, <1>4, <1>5, Zenon DEF Typed

(* A program before its first pool.                                        *)
LEMMA TypedInit == Init => Typed
<1> SUFFICES ASSUME Init PROVE Typed
  OBVIOUS
<1>1. library \in LibraryRecord
  <2>1. library = [connectpool_count |-> 0, logger |-> FALSE, winsock |-> FALSE]
    BY Zenon DEF Init
  <2>2. 0 \in 0..1
    OBVIOUS
  <2>3. QED
    BY <2>1, <2>2, Zenon DEF LibraryRecord
<1>2. main \in MainStates /\ pool \in PoolRecord
  BY NewPoolTyped DEF Init, MainStates, Garbage
<1>3. thread \in ThreadObject(Threads) /\ disp \in [Threads -> Places]
  BY DEF Init, NewThread, ThreadObject, Places
<1>4. asked \in AskedRecord
  BY NoObjectsTyped, Zenon DEF Init, AskedRecord
<1>5. past \in PastRecord
  <2>1. 0 \in 0..MaxPools /\ 0 \in 0..MaxStarts
    BY LifeAssumption
  <2>2. QED
    BY <2>1, Zenon DEF Init, PastRecord
<1>6. broken \in BOOLEAN
  BY Zenon DEF Init
<1>7. QED
  BY <1>1, <1>2, <1>3, <1>4, <1>5, <1>6, Zenon DEF Typed

(* One lemma per group of actions; the count of pools needs StatusInv.     *)
LEMMA TypedNext == ASSUME StatusInv, Typed, [Next]_vars PROVE Typed'
<1>1. CASE CreateConnectPool
  BY <1>1, TypedCreate
<1>2. CASE SetCallback \/ AddForbidIP \/ DelForbidIP
  BY <1>2, TypedCallback
<1>3. CASE Start_Begin \/ Start_Listen
  BY <1>3, TypedStart, TypedListen
<1>4. CASE Stop_Begin \/ Stop_Deletes \/ Terminate
  BY <1>4, TypedStop
<1>5. CASE Stop_End \/ DestoryConnectPool \/ Destroy_End
  BY <1>5, TypedEnd
<1>6. CASE \E t \in Threads : Dispatcher(t)
  BY <1>6, TypedDispatcher
<1>7. CASE UNCHANGED vars
  BY <1>7, Zenon DEF vars, Typed
<1>8. QED
  BY <1>1, <1>2, <1>3, <1>4, <1>5, <1>6, <1>7 DEF Next, Ending

(* The members of a pool keep their types through any number of lives of   *)
(* the pool, and no list holds more objects than a start may ask for.      *)
THEOREM LifeTyping == Spec => []TypeOK
<1>1. Init => LifeInv /\ StatusInv /\ Typed
  BY ThreadInit, StatusInit, TypedInit
<1>2. LifeInv /\ StatusInv /\ Typed /\ [Next]_vars => LifeInv' /\ StatusInv' /\ Typed'
  BY ThreadNext, StatusNext, TypedNext
<1>3. Typed => TypeOK
  BY TypedIs
<1>4. QED
  BY <1>1, <1>2, <1>3, PTL DEF Spec
=============================================================================
