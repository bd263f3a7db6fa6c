# Moguigame: a TLA+ model of the socket library and its users

Moguigame is a C++ library for Windows game servers (`Mogui/`) and the servers
built on it (`Server/`). The library wraps overlapped sockets and completion
ports: connection objects that are reused for session after session, a pool
that hands them to clients and to outgoing connections, and one dispatcher
thread that calls the servers back. This directory models that library in
TLA+, checks it with TLC on small instances, and proves with TLAPS what should
hold for every number of connections.

Line numbers below are of the files under `src/`; paths without a directory
are in `src/Mogui/socket/`.

## The system

### Components

| Component | Code | State it keeps | Operations | Model |
|---|---|---|---|---|
| Connection object | `Connect.h/.cpp`, `Packet.h` | status, socket, callback, the flags `m_sending`, `m_recving`, `m_iocpref`, the queues of packets to send, of close requests and of data kept back, one overlapped structure per operation | `Close`, `Send`, `SetCallback`, `OnConnect`, `OnMsg`, `OnClose`, the handlers `OnSocket...` of completions, `WaitForAccepted`, `Connect`, `Listen`, `TrueClose`, `ReuseClose`, and inside them `ModifySend`, `ModifyRecv`, `ModifyClose` | `Connect` (sessions), `MessageStream` (bytes) |
| Packet queue | `Packet.h` | head, tail, counters, the links of the packets | `PushPacket`, `PushQueue`, `PopPacket` | `PacketQueue` |
| Completion port and lists | `IOCP.h/.cpp` | `m_acceptQueue`, `m_acceptWait`, `m_acceptInUse`, `m_connects`, `m_ConnectInUse`, the listener | `Connect`, `Listen`, `OnIOCPAccept`, `OnIOCPDisConnect`, `IOCPClose`, `IOCP_IO`, `Init`, `Fini` | `SocketPool`, `PoolLife`, `PoolStop` |
| Dispatcher | `Dispatcher.h/.cpp` | queue of packets, forbidden addresses, timer, its thread | `OnRecvPacket`, `DispatchPacket`, `OnPacket`, `CheckTimer`, `Init`, `Fini` | `SocketPool`, `PoolLife` |
| Pool and interface | `ConnectPool.h/.cpp`, `Include/SocketInterFace.h` | status, the user's callbacks | `Start`, `Stop`, `SetCallback`, `Connect`, creation and destruction | `PoolLife`, `SocketPool`, `Session` |
| Log | `Mogui/src/Log.cpp` | queue of lines, writer thread, open file | `Init`, `Log_Text` and its like, `PostLog`, `Run`, `Fini` | `LogWriter` |
| Threads and locks | `Mogui/src/Thread.cpp`, `Condition.cpp`, `Semaphore.cpp`, `Lock.cpp`, `RWLock.cpp` | one Win32 object each | start, wait, signal, terminate | `Thread`, and their users |
| Memory pool | `Mogui/Include/Common/MemoryPool.h`, `MoguiData.h` | free list under a lock | `new`, `delete` | `MemoryPool` |
| Framing, serialisation | `RZRQServer/Include/PublicXY.h`, `xieyi.h`, `DBOperatorXY.h`, `Include/biostream.h`, `MoGuiEncrypt.cpp` | receive buffer | frame and cut messages; write and read numbers, strings, vectors; encrypt | `Wire`, `MessageStream` |
| RZRQ game server | `Server/RZRQServer/` | session map, per client step, key and counts | callbacks of the library, messages, timer | `Servers` (map), `GameServer` (messages) |
| Database queue | `RZRQServer/RWDBMsg.h`, `Server.cpp` | queue of requests, semaphore, threads | `PushRWDBMsg`, `PopRWDBMsg`, `Run` | `GameServer` |
| Small servers | `Server/GateServer`, `TestEcho`, `TestEchoClient`, `FlashPolicy` | client maps, sockets | construction, callbacks of the library, timer | `Servers` |
| Database, memcached | `ReadWriteDB.cpp`, `dbconnect.cpp`, `memoperator.cpp`, `libmemcached/` | in the services; a lock around a third-party client | queries | not modelled |
| Tool, Test2013 | `Tool/`, `Test2013/` | none | string and time helpers, experiments | not modelled |

### How they interact

A user thread calls `CConnectPool::Connect`, or `Close` and `Send` of a
connection, which run under the connection's lock `m_lock` and post overlapped
operations to the kernel. The threads of the completion port run
`CIOCP::IOCP_IO`, which calls the handler of the operation; handlers queue
packets (`PT_DATA`, `PT_ACCEPT`, `PT_CONNECT`, `PT_CLOSE_ACTIVE`,
`PT_CLOSE_PASSIVE`, `PT_SOCKET_REUSE`) in the dispatcher. The dispatcher thread
pops them and calls the connection (`OnMsg`, `OnConnect`, `OnClose`), the
user's callbacks and CIOCP. Locks are always taken in the order pool, CIOCP,
connection, packet queue, except by a user that calls the pool out of a
callback.

The programs under `Server/` create one pool in the constructor of their
`CServer`, whose callbacks the dispatcher calls from then on. They keep a socket
object for each connection in a map. The sockets of the RZRQ server exchange
messages, which `biostream.h` turns into bytes and `PublicXY.h` into frames, and
which may be encrypted; it starts threads that take requests for the database
out of a queue. Every program, and the library itself, logs by way of a queue
that one writer thread empties into files.

### What is hard

* A connection has up to two operations in the kernel while it is in use, user
  threads call it at any time, and it may be closed by the user, by the peer and
  by a refused call at once. It may go back to the pool only when the last
  operation has completed: `m_iocpref` counts them, `ModifyClose` waits for 0.
* The object is then reused. A packet, a flag or an operation that survives
  would belong to the wrong session.
* A close has to end. Closing waits for operations that only end when the peer
  acts or `CancelIoEx` is called.
* The lists of CIOCP, the completions and the dispatcher run in different
  threads: the user may close an object before CIOCP has moved it from the
  waiting list to the list in use.
* Calls of WinSock fail at every point.
* Stop holds the pool's lock while it waits for a dispatcher that may want it,
  and the log's Fini does the same with its writer: both rely on
  `CThread::Terminate`, which ends the thread after half a second wherever it is.
* The writer of the log and the database threads sleep without a time limit;
  what wakes them is decided by a count or the length of a list.
* TCP cuts the stream anywhere: in a frame's length, between packets, in the
  middle of a message that is about to overflow the receiver's buffer.
* Two callbacks of a server delete the same socket, and its callbacks begin
  before its constructor has ended.

The properties of each component follow from these: for the object, the count,
the single send and receive, and the last word of a session; for the lists,
that each object is in one of them and that clients are waited for; for the
whole, that a session is offered, opened and ended for its user once, and that
it ends. PROJECT.json lists the hazards with their lines.

## Modules

* **Connect**: one `CConnect`. The object is a record; every method is an
  operator from the object before to the object after, because a method runs
  under `m_lock`. The result of a WinSock call is the parameter `posts`; the
  packets a method queues are left in `out`, the assertions of the code that
  would fail in `failed`. `io[op]` is the kernel's side: an operation is
  `idle`, `posted`, or `cancelled` and still to complete. The counters
  `m_nIo...` are 0 or 1 and are read off `io`.
* **SocketPool** extends Connect: the objects `conn`, CIOCP's lists, the packet
  queue `packets`, the place `disp` of the dispatcher inside `OnPacket`, the
  network `net` below each object, and the history `told` of the calls of a
  session. One action per call of the user (`ConnectTo`, `UserSetCallback`,
  `UserSend`, `UserClose`), per completion (`IocpRecv` ... `IocpClose`), per
  packet type (`DispatchData` ... `DispatchReuse`), and the second halves
  `OnIOCPAccept` and `IOCPClose` of the two packets during which the dispatcher
  calls the user and then CIOCP.
* **Session**: the abstract specification. A session is offered, may be opened
  once, hears data until it ends, and ends for its user once: `End` tells the
  callback, if there is one, and the pool (SocketInterFace.h:72 names the pool only
  for connections without a callback, see below). The pool is told a
  second time when the kernel could not disconnect (`EndAgain`), never a third,
  and nothing more is said until the object is made ready for another session
  (`Renew`). `SocketPool!SessionSpec` states that SocketPool implements it, with
  the user's view of each connection, a function of `told`, for its variables.
* **Thread**: `CThread` and its condition as functions of the object's state;
  `Terminate` is cut at its wait (`Stopping`, `Stopped`).
* **PoolLife** extends Thread: the pool as the main thread of a program uses it,
  from `CreateConnectPool` to `DestoryConnectPool`, with `Start` and `Stop` cut
  where they wait or where the dispatcher's thread can see a difference, and
  that thread's loop, `OnTimer` calling `Connect` included. Every call of
  `Listen` may fail, `Start` may be repeated. Objects are numbers here.
* **PoolStop** extends SocketPool by `CIOCP::Fini` of a pool that listens, up to its
  wait, and by what happens during the wait, with or without open connections.
* **MemoryPool**, **LogWriter**: the log. Any thread logs (`Begin`, then for each
  packet `Alloc`, `AllocBlock`, `PostLog`), the writer takes a packet, writes it
  into the file of its day and deletes it, `Init_Log` and `Fini_Log` start and
  end it again and again. Packets are objects of the memory pool, which hands
  an address out again.
* **Channel**: the abstract queue, which LogWriter, MessageStream and GameServer
  implement: in order, at most once, losing only what comes first.
* **Wire**: numbers, strings, vectors, big numbers, the layouts of all messages,
  frames and the cipher, as functions.
* **PacketQueue**: `CPacketQueue` as the linked list it is.
* **MessageStream** extends both: one direction of a connection from `SendMsg` to
  `TransMsg`: the send queue, the send buffer, the kernel that takes and
  delivers any part, the receiver's packets, the packets kept until there is a
  callback, and the logic buffer.
* **Visit**: what a program knows of a connection, in one record. **Servers** and
  **GameServer** build on it.
* **Servers**: the programs, chosen by the variable `program`: the constructor of
  `CServer` runs beside the dispatcher, which accepts, delivers, closes and
  calls `OnTimer`; the loop of `OnTimer` over the sockets is a step for each.
* **GameServer**: what the RZRQ server makes of messages, with its limits of speed,
  and `RWDBMsgManage` with the threads that call it.
* **MCSocketPool**, **MCLogWriter**, **MCMessageStream**, **MCServers**,
  **MCGameServer**: values of the constants for the runs.
* **SocketPoolProofs**, **SessionProofs** (which extends it), **PoolLifeProofs**,
  **LogWriterProofs**, **GameServerProofs**, **ServersProofs**, **WireProofs**,
  **MessageStreamProofs** (which extends it): the proofs, see below.

Conventions: a definition with "Mutation of" in its comment is a broken variant
of a definition of the code, used to see that a property notices it; nothing
else refers to it.

### Choices

* The completion of an operation and its handler are one step. Between them
  `IOCP_IO` only lowers the operation's own counter, which nobody else touches
  while the operation's flag is up.
* `ConnectTo` is one step, although completions, packets and users may come
  between ConnectEx and `m_ConnectInUse.insert` (IOCP.cpp:137-139). CIOCP's lock is
  held for both, so nothing that touches the lists can: `IOCPClose` and
  `OnIOCPDisConnect` wait for it. The handlers of completions and `OnConnect` do not
  look at the lists, and the caller has the pointer only afterwards.
* The program is the build with assertions; it stops at the first that fails
  (`Running`), so the states that follow are not explored. `Assertions` in Connect
  names those that are modelled: all of Connect.cpp and IOCP.cpp but those about
  what is constant here, that is types of objects, packets and operations,
  branches of a switch that has a case for each, pointers that are not null, and
  the kernel sending no more than was posted (IOCP.cpp:230, 287, 294, 338, 360,
  Connect.cpp:401, 581, 643, 655). The assertion about the count at the end of
  `IOCP_IO` (IOCP.cpp:426) is the second part of AssertionsHold.
* Calls the user makes out of a callback are separate, later steps: the
  callbacks of the dispatcher happen at any moment between other steps anyway.
* In SocketPool data is counted in packets of 1024 bytes; bytes are the subject
  of MessageStream, where both ends stay connected. Queues of packets are
  sequences in all modules but MessageStream; MessageStreamProofs shows that the
  linked list is one.
* In MessageStream the sender's packets have addresses, `MaxPackets` of them, and
  `Send` takes place only while enough are free, since `new` does not fail in the
  program. Which free addresses it takes makes no difference to the list.
* The loops over bytes and packets are recursive functions, which can be proved
  about.
* In Wire a byte has 6 values and the four types of integers 1 to 4 bytes
  (1, 2, 4 and 8 in the program), so that widths stay distinct and the ends of
  every range are small enough to enumerate. The cipher keeps the length and
  makes each byte depend on those before it, as AES-CFB does.
* `safe_delete` takes its pointer by value, so the pointer survives the
  deletion. PoolLife keeps that (`"deleted"`) and stops where it is used
  (`broken`). In Servers an address is not given out again while anything
  refers to it, for the same reason.
* A wait with a time limit ends because of the event or because of time, at any
  moment; clocks are not modelled, except the calendar of the log.
* Unusual outcomes and uses are named in `Events`, and an instance admits a subset
  (`Allow`). After `sendPost` and `disconnectErr` the library goes on
  correctly, and the passing safety runs admit them. After `acceptPost` it does
  too, except that too few objects may wait for clients: AcceptBacklog excludes
  it, `pool_mixed` admits it. The others lead to failing assertions or to closed
  connections that come back to life: the failures `forbidIP`, `acceptErr`, `bind`
  and `firstRecv`, and two things a user may do, `closeEarly` (Close of an outgoing
  connection before its ConnectEx has completed, as in the destructor of
  TestEchoClient) and `setTwice` (SetCallback of a connection that has a
  callback, against the assertion of Connect.cpp:405, which no program of the
  repository does). The runs that expect a violation show two of the
  failures, and the next section describes the others.

## What the runs show

| Run | Instance | Properties |
|---|---|---|
| `pool_accept` | two accepted objects, one packet of data, `sendPost`, `disconnectErr` | CloseIsLast, FreeIsClean, ListsAgree, AcceptBacklog, ClosedStaysClosed, SessionSpec |
| `pool_mixed` | one accepted and one outgoing object, one packet each way, partial sends, `sendPost`, `disconnectErr`, `acceptPost` | TypeOK, AssertionsHold, IocprefCounts, OneSendOneReceive, ReceiveArmed, NothingStranded, NoStalePacket |
| `sessions_end` | one accepted and one outgoing object, fairness | PeerCloseIsReported, IdleCloseIsAnswered, ObjectsComeBack |
| `log_writer` | two posting threads, a queue of two packets, up to three lines, two starts and the turn of a year | TypeOK, WriterWoken, OneWriter, PacketsHeldOnce, RightFile, InOrder, FiniEnds, Drains |
| `message_stream` | all messages with the ends of their ranges, one or two, cut once or twice | TypeOK, StreamInOrder, AllDelivered |
| `servers` | each of the four programs, two connections | TypeOK, SocketsAgree, PolicyAnswered, VisitsEnd |
| `game_server` | one connection, two limits, two database threads, two callers, three requests | OneKey, SemaphoreCounts, PoppedInOrder, Served |
| `pool_life` | two pools, three starts each, one address | TypeOK, OneDispatcher, StatusAgrees, OnceIsSafe, StopEnds |
| `forbidden_ip` | as pool_accept, a client is refused | violates ClosedWasInUse |
| `revived_connect` | one outgoing object, the first receive is refused | violates ReturnedIsQuiet |
| `close_while_sending` | one outgoing object | violates CloseIsAnswered |
| `stop_pool` | two accepted objects, Stop | violates ReusedIsOpen |

The passing runs have between 7,700 and 884,000 distinct states and take from
a few seconds to about two and a half minutes.

The four violations are reported in PROJECT.json:

* `forbidden_ip`: a client from a forbidden address is closed without a
  `PT_ACCEPT` packet, so it is still in `m_acceptWait` when
  `OnIOCPDisConnect` asserts that it is in `m_acceptInUse` (IOCP.cpp:254). An
  error of AcceptEx, a refused first receive and a failed bind of a new socket
  take the same path.
* `revived_connect`: `OnConnect` (Connect.cpp:444-449) makes an object usable
  whose close packet is already queued, if the first receive was refused.
* `close_while_sending`: a Close while a send is in flight leaves nobody to
  cancel the receive; the promise of SocketInterFace.h:82 is kept only once the
  peer acts. With nothing being sent it is kept: IdleCloseIsAnswered.
* `stop_pool`: Stop ends the completion port before the dispatcher
  (ConnectPool.cpp:142-143). Closing a socket makes its operations fail, also the
  AcceptEx of an object that only waits for a client; that queues a close packet,
  and the dispatcher calls `ReuseClose` for an object without a socket, against
  Connect.cpp:1072. A pool without any connection is enough.

Found while modelling, without a property of their own:

* Close before ConnectEx has completed (the destructor of TestEchoClient may do it,
  Server.cpp:39-41) is forgotten when the connection succeeds: its close packet stays,
  and a second Close fails Connect.cpp:327. The event `closeEarly` admits it.
* `IConnectPoolCallback::OnClose` is called for connections with a callback too
  (ConnectPool.cpp:183-188; Dispatcher.cpp:234 and 244 find out whether there is one,
  for a line of the log only), and again when DisconnectEx completes with an error.
  SocketInterFace.h:72 says only for connections without. Session says what the code
  does; the servers are built for it: SocketsAgree.
* The rule `wait < (wait+queue)/2` of IOCP.cpp:263 and 304 is false of one queued
  object and none waiting. A single free object of a pool of any size may
  therefore lie in the queue while no client can connect: a pool has in effect
  room for one client less than `m_max_clientcnt`, and a pool of one serves its first
  client only. AcceptBacklog says what does hold, that the queue is longer than
  the set of waiting objects by one at most, so that of two free objects one
  waits. If every AcceptEx of a loop is refused, the new objects are not armed
  either (`acceptPost`).
* `m_listener` outlives its listener (IOCP.cpp:76, 173). A pool listens once at
  most: after a failed Start, or after Stop, Start with a port fails for ever,
  and Start with port 0 and Stop after such a history closes a deleted object.
  OnceIsSafe is therefore about programs that call Start once, as all do.
* A Start that fails in Listen leaves the dispatcher running with the status
  CPS_CALLBACK. Stop then does nothing, and `DestoryConnectPool` deletes what
  the thread uses. The programs do not look at what Start returns.
* `CDispatcher::SetIOCP` asserts a member nobody has set (Dispatcher.cpp:105):
  `main = "aborted"` is the choice of the memory's content.
* The writer of an idle log is always killed by Fini, half a second later: nothing
  wakes it.
* A line posted before midnight at the end of a month and written after it goes
  into the right file, but in the directory of the next month: `CreateMonthDir`
  asks the clock. RightFile is about the file's name.
* `m_nMonth` is then the month of the writing and `m_nDate` a day of the month
  without one. A line of 31 December that is written in January leaves December's
  file open with both agreeing with 31 January: if nothing is logged for that
  month, the line of 31 January goes into it. RightFile is false of the calendar
  31 December, 1 January, 31 January; it is checked on one whose days of the month
  differ (`WithinAMonth`). What holds for every calendar is SameDayFile, which is
  proved: the file is named after the line's own day or after that of an earlier
  line of the same day of a month.
* An object of the memory pool is destructed twice, by `delete` and by
  `DeleteObject` (MemoryPool.h:84-92). For the packets of the log both do nothing.
* The speed limits of the RZRQ server start anew only when they were kept at
  their end, so 49 packets and one an hour later are too fast.
* The destructors of all servers close and delete their sockets while the
  dispatcher still runs and may be using the same map.
* The documentation of `OnMsg` (SocketInterFace.h:116) names 4k; the buffer holds
  6144 bytes: room for the longest incomplete frame and another packet, which is what
  StreamInOrder and AllDelivered rest on (BufferIsKept).

### Bounds

* `Clients`, `Outs`: two objects. Objects only meet in the lists, in the packet
  queue and at the dispatcher, two at a time; with two accepted objects one can
  wait, be in use, be refilled from the queue and be returned while the other
  does any of it. Outgoing objects meet in `m_connects` only, so one of each
  kind suffices to mix them. Sets of objects are not declared symmetric: the
  lists are in an order, and the liveness runs would not allow it.
* `SendBuffer`, `MaxSend`: a buffer of one packet and one waiting behind it. With
  what is in flight a send can be partial, be continued and be followed by
  another. Bytes are MessageStream's.
* `MaxData`: packets of a connection the dispatcher has not consumed; one is
  enough for data before and after `SetCallback`, since sessions repeat.
* Log: a queue of two packets takes a line behind another, which sets no event, and
  is full with the third, which is dropped. Two posters meet in every order, two
  starts show what one leaves to the next, and two days end a month and a year.
  `MaxEvents` bounds lines, starts and changes of the day together by four: three
  lines in one run of the log on one day, two with a second run or a second day,
  one with both; three lines in two runs over two days are eight million states
  of the same. `AllocBlockSize` is 1: a smaller block
  makes the pool empty more often.
* MessageStream: packets of 10 bytes, buffers of 40 and 60 in the proportions of
  the program (1024, 4096, 6144); strings of up to 12, data of up to 34 bytes:
  the longest message does not fit into one packet, two of them not into one
  buffer. One cut by the kernel, at any place and time, for all messages; two
  for pairs of short ones. Big numbers take the neighbours of every end of a
  type. `TestXieYi` with the greatest amount of data is the message that SendMsg
  refuses, as in the program. Layout 15 is no message of the program; it adds
  the kinds of members that are in `biostream.h` and in no message yet.
* Servers: two connections and twice as many sockets, so that a new socket is
  there while an old one is still referred to. A request of two units comes
  whole, in pieces or with something behind it.
* GameServer: one client, since clients share nothing; limits of 2 packets in a
  second and 3 in two have the shape of 50 in 10 and 200 in 60: one can be
  passed without the other. Two threads and two callers race for three requests.
* PoolLife: two pools show what is shared, three starts allow one that fails,
  one that works and one that finds what these have left.
* No other counter grows: a session, a visit or a turn ends before the next.

### Fairness

SocketPool's `FairSpec` assumes that the dispatcher thread keeps running; that a
send, ConnectEx and DisconnectEx complete in the end; and that a receive completes
with an error once it was cancelled or the peer has gone. Windows promises the
latter for every overlapped operation whose socket is cancelled or reset, and
the dispatcher is a loop that never blocks (Dispatcher.cpp:109-123). It assumes
nothing of the users, of clients that come (AcceptEx) and of data the peer
sends. The liveness run admits no unusual event: a DisconnectEx or send that
fails for ever would be an environment fair to nobody.

The other modules assume that threads go on (weak fairness of each thread's
steps, of `Library` in MessageStream), that waits with a time limit end
(`Finishing`, `Ending`), and that the dispatcher comes to every packet: its
queue is first in, first out and `OnTimer` comes between packets, which is
strong fairness of a packet's step while other steps interrupt it
(`DispatchAccept`, `DispatchClose` in Servers). A thread that wants `m_lockMsg`
gets it in the end although others take it in between (`SF` of `Pop`).
Nothing is assumed of callers, clients, messages and data that arrive.

Deadlock is checked in the passing runs of SocketPool and in
`close_while_sending`: there is always a connection to open, a client to come, or
an object to return. It is not in the other runs that expect a violation. They go
to an assertion that fails, which ends the program, or, in PoolStop, to the end
of the wait in `CIOCP::Fini`, with which the model ends. The other modules have an end too:
the last line was logged, the last request pushed, the last pool destroyed, the
script of messages sent; their liveness properties say what holds by then.

## What is proved

All for every value of the constants that satisfies the assumptions of the
modules (`SendBufferAssumption`, `PoolAssumption`, `LifeAssumption`, `LogAssumption`,
`GameServerAssumption`, `ServersAssumption`, `PacketsAssumption`, `WireSizes`,
`StreamSizes`, `ScriptsAssumption`).

**SocketPool**: `Invariance` (`Spec => []IInv`), `IocprefIsExact`
(`Spec => []IocprefCounts`) and `OneSendOneReceiveHolds`
(`Spec => []OneSendOneReceive`), for every number of objects, every buffer and
every set of unusual events.

IocprefCounts is not inductive: after `ModifyRecv` posts a receive the count
is right only if the receive's structure was free, and it is free only because
`m_recving` is up while a receive is in the kernel. So `Sound` says three things of
an object: its type; that the count is exact; and that while the object is
usable (its status is not SS_INVALID) an operation in the kernel has its flag
up. The last must be restricted to usable objects, because `TrueClose` and
`ReuseClose` lower the flags of objects that may still be owed completions. In
the middle of a method the restriction does not help: `Close` and `OnConnect`
set the status last, so the lemmas have a second form, `Steady`, without it. The
places where flags and structures could part are `WaitForAccepted`,
`OnSocketIOCPAccept` and `OnSocketIOCPConnect`, which lower both flags: there
the assertion `m_iocpref==0` just before gives, through the exact count, that
no operation is left (`QuietIsIdle`). SocketPoolProofs has one lemma per operator
of Connect and one per group of actions of SocketPool; `NextInv` puts them
together.

SessionProofs proves the other safety properties of SocketPool, for every number
of objects: `AssertionsNeverFail`, `CloseIsLastHolds`, `ClosedStaysClosedHolds`,
`NoStalePacketHolds`, `ReceiveArmedHolds`, `NothingStrandedHolds`,
`FreeIsCleanHolds`, `ListsAgreeHolds`, `Typing`, `AcceptBacklogHolds`, and the
refinement of Session, `SessionsRefined`. All assume

    Usual == Allow \subseteq {"sendPost", "disconnectErr", "acceptPost"}

and must: each of the other unusual events makes an assertion of the code fail or
brings a closed connection back to life, as the runs that expect a violation and
the list above show. So the theorems are about users that close an outgoing
connection only once its ConnectEx has completed and set a callback once, and
about machines on which the excluded calls do not fail; nothing else is assumed
of users and peers, and nothing of the order of calls, completions and packets.
AcceptBacklogHolds also excludes `acceptPost`, for the reason given above.

None of these properties is inductive, alone or with the others: that a handler
finds the object in the state its assertions demand depends on the packets that
are queued, on the dispatcher and on the list the object is in. `PoolInv`
therefore says at which stage an object is. A record is `Clean`, `Waiting` for a
client, `Connecting`, in a session (`InSession`, and `Done` once it is closed and
no operation is left) or `Disconnecting`; `ObjectIs` says of an object that is
free, in `m_acceptWait`, in `m_acceptInUse` or in `m_ConnectInUse` which of these
it can be, which packets are queued for it then, what the dispatcher may be doing
with it, and what its user was told. The central part is `Talks`: during a
session a close packet is queued exactly if the session is `Done`. `Ordered` adds
that a close packet or PT_SOCKET_REUSE is the last packet of its object and
PT_ACCEPT or PT_CONNECT the first.

SocketPoolProofs has a second set of lemmas for this, one per method: from a record
of one stage it leads to one of the next, no assertion fails, and what it hands
to the dispatcher is `Said`: data if anything, then at most one close packet, and
that exactly when the session is over. SessionProofs has one lemma per action of
SocketPool. Each proves `StepOK`, which is `PoolInv'` together with what the
action properties need of the step: `StaysClosed`, `StartsAlone` and, for the
refinement, `SessionStep` (one connection is offered, opened or hears data, or
none is). The invariants follow from `PoolInv` and `IInv`, each by a lemma.

How sessions end needs an invariant of its own, `EndsInv`, on top of these. From
the stage an object is at it gives which closes were told: OnClose at most once,
since `Reset` takes the callback away before the object can be closed again, and
the pool at most twice, since an object whose DisconnectEx failed goes back
without another one. A step adds words to one connection (`GrowingStep`) or makes
objects ready for other sessions (`RenewStep`); `EndsStep`, with a lemma for each
group of actions, gives the step simulation together with `SessionStep`.

AcceptBacklog has an induction of its own on top (`Backlog`): that no accepted object
is lost from the lists unless AcceptEx is refused, and what the loop that calls
AcceptEx leaves behind when its condition ends it (`LoopBacklog`).

**PoolLife**: `OneDispatcherTheorem`, `StatusTheorem`, `OnceIsSafeTheorem`,
`LifeTyping`.
`LifeInv` says that the only thread alive is the one its CThread names, that
its event is set only when it has gone, and that the CThread forgets it only in
`Stop_End` and `Destroy_End`, after the thread has gone by itself or was ended.
`StatusInv` adds to the status where main is: objects are there only in a
started pool, and from `Stop_Deletes` on none can be added, because `Connect`
wants m_poolLock, which Stop holds to its end. `OnceInv` holds as long as there
was one Start and it did not fail: then a thread lives only while main is between
`Start_Begin` and `Stop_End`, and the listener is closed once. `LifeTyping` is
nearly inductive: that the count of pools does not go below zero needs StatusInv,
which ties it to where main is.

**LogWriter**: `OneWriterTheorem`, `WriterWokenTheorem`. `WriterInv` is the same
argument for the log's thread, with the place of Fini; WriterWoken is inductive
together with it: the writer goes to sleep only when it has seen the queue empty,
under the lock, the packet that ends the emptiness sets the event, and the
event is reset only by the writer, with the lock, which then takes a packet.
That there is one writer is needed: a second could reset the first one's event.

`LogTyping`, `PacketsHeldOnceTheorem`, `SameDayFileTheorem` and the refinement of Channel,
`LinesInOrder`, build on it. `Fits` is the type invariant with what keeps it: a
posting thread has an object exactly between NewPacket and PostLog, a writer exactly
before it writes or deletes, and the lines counted are enough for the pieces that are
left. PacketsHeldOnce compares holders with one another and says nothing of the
objects still to be made, so it is not inductive; `OnceInv` (the formula `Once`,
over the pool, the queue and the threads' records) says for each object which
places exclude which, and that it is one of those Malloc has made. Each step
moves one object from one place to another, or all of the queue into the pool, and there
is one lemma per move (`OncePops`, `OncePushes`, `OnceMakes`, `OnceQueues`,
`OnceTakes`, `OnceReturns`), so that the lemmas of the actions only say which. `FileInv`
adds to SameDayFile that the open file is of the day of the month in `m_nDate` and
named after a line written before. Nothing is assumed of the calendar;
`RightFileTheorem` is the corollary for one that is `WithinAMonth`, as that of
the run.
LinesInOrder is a step simulation: PostLog is `Accept`, a written line `Deliver`, a line
the disk refuses `Lose` of one, the end of Fini `Lose` of all; TakePacket moves the
first line of the queue into the writer's hand, which the channel does not see
because, by OneWriter, no other hand holds one.

**GameServer**: `SemaphoreTheorem`, `QueueIsChannel`, `OneKeyTheorem`. `QueueInv` has
the equation between queue, semaphore, threads that were woken and the poster
inside the lock; a woken thread therefore finds a message (its count is at least
one), so `Pop` is a `Deliver` of the channel, and the other steps stutter or
accept: the step simulation of the refinement PoppedInOrder. `ClientInv` relates
what was sent to a client to `m_Step`.

**Servers**: `SocketsAgreeHolds`, `PolicyAnsweredHolds` and `ServersTyping`, for all
four programs, from `ServersInvariance`. SocketsAgree is not inductive for
TestEchoClient, whose sockets outlive their connections: `ClientAgree` adds that
every callback is a socket in use that names this connection, so that two
connections never share one and the timer redials only a socket that is nobody's
callback. `Loop` adds what the timer needs, that its loop holds only sockets
that exist (the dispatcher deletes none while it runs), and what the constructor
needs, that there are no callbacks before it is through: FinishInit then makes
its sockets beside empty maps. `LinkOK` says which connections may have a callback,
and `Policy` of a visit to FlashPolicy that all of it is kept until a request can
be complete; PolicyAnswered is its case of exactly a request. A handler is a
function from state to state (`At`); there is a lemma for what each call it makes
gives (`...Is`), one for each kind of change that keeps `Safe` (`...Change`), and
one for each action that puts these together (`Inv...`). In DispatchClose a socket is
deleted by the first callback and looked for by the second: `OnCloseIs` shows
that the second does nothing then, since the entry went with the socket. That a
new socket gets an address nobody refers to rests on `Cardinality(Sockets) >= 2 *
Cardinality(Conns)`, which stands for an allocator that does not fail
(`AddressLeft`).

**PacketQueue** (in MessageStreamProofs): `PushPacketAppends`, `PopPacketTakesFirst`,
`PushQueueConcatenates`: a list that represents a sequence of packets (linked in
its order from head to tail, the counters agreeing) represents the appended,
shortened or concatenated one afterwards.

**Wire**: for every base, every limit and every layout, `EncodeIsExplained` (what
`operator<<` wrote is what `operator>>` reads: numbers of every width and sign, big
numbers in the narrowest type that holds them, strings with either form of their
length, vectors), `DecryptUndoesEncrypt`, and `FirstFrame`: a buffer that
begins with a part of a frame yields that frame, with its id, length and data, as
soon as all of it is there, and nothing before. These need induction. The
provers cannot instantiate an operator, so the lemma `Induction` is about a set of
numbers, `{n \in Nat : ...}`, and follows from the theorem that < is well founded.
`RecursionExists` gets from it that a recursive function has the values its
definition says, and is used for each of them. That a reader finds each member
where the writer put it (`WriteIsRead`, by the type of the member) becomes a fact
about messages by an induction over the number of members, in which what follows
a member in the buffer is arbitrary.

**MessageStream**: `MessagesInOrder`, the refinement of Channel; `NoMessageLost`,
which the channel would allow; `BufferIsKept`: OnMsg never empties the logic buffer
for want of room; `StreamTyping` (TypeOK). None is inductive. `StreamInv` says that the logic buffer, the saved and
the queued packets, the network, the send buffer and the send queue hold, in this
order, exactly the bytes of the frames of `sent`, and that outside the loop of
OnMsg the logic buffer holds no whole frame. The steps of the library only move
bytes along this line: `PacketsHoldBytes` says that cutting into packets loses none,
`Waits` ties the send queue to the linked list by the theorems above. TransMsg
takes the first frame off its front, and FirstFrame, DecryptUndoesEncrypt and
EncodeIsExplained together say that what it delivers is the first message of
`sent`. In OnMsg the buffer is a proper part of a frame, hence shorter than
`SendBuffer`, and by `SendBuffer + PacketLen <= LogicBuffer` the next packet fits.
There is one lemma per action, and `StreamStep` puts them together.

Model-checked only: the nine liveness properties (PeerCloseIsReported,
IdleCloseIsAnswered, ObjectsComeBack, FiniEnds, Drains, AllDelivered, VisitsEnd,
Served, StopEnds). Temporal proofs under fairness and ENABLED are out of the
prover's reach. Every other property of the passing runs is a theorem.

## Plan

Done: sessions (Connect, SocketPool, Session), the log, the byte stream with its
messages, the servers, the database queue, the life and the stop of a pool.

If worth it: the memcached wrapper's lock, the reader-writer lock.

## Not modelled

* In SocketPool: byte contents and sizes of socket buffers; addresses (a forbidden
  one is an event); the statistics counters; the listener's own socket, which
  has no operation in the kernel; `BindIoCompletionCallback` failing for outgoing
  sockets, which is one of the reasons `ConnectTo` may delete its object; a
  `SetCallback` from another thread than the dispatcher's, which no server of the
  repository does.
* In PoolLife: packets that the dispatcher has left over at Stop, which the next
  Start would deliver; the objects' operations (SocketPool and PoolStop).
* `TerminateThread` within a lock of the run-time library or the memory pool,
  which stays locked then.
* In MessageStream: senders other than SendMsg, whose frames need not be well formed;
  strings that contain a zero byte; the first message of a game socket being a
  Flash policy request (`CheckFlash`). Encryption is modelled although `SetCrypt`
  is never called with true.
* The destructors of the servers; players, which never come into being;
  `AddRzrqInfo`, `CheckRzrqInfo` and the reads of the database, whose callers are
  commented out; the interval of the timers.
* `CRWLock`, `CConditionVariable`, `CMutexObject`: one Win32 object each, without a
  user in the repository.
* Database and memcached operators: calls of services and of third-party code.
  Tool, Test2013: helpers without state and experiments.
