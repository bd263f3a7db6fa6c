--------------------------- MODULE LogWriterProofs --------------------------
(***************************************************************************)
(* What holds of the log for every number of posting threads, every length *)
(* of its queue and every number of starts and ends.                       *)
(***************************************************************************)
EXTENDS LogWriter, SequenceTheorems, TLAPS

AllGone == \A w \in Writers : writer[w] = Gone

(* What is needed of the types: a function of records, and a record.       *)
Shape ==
  /\ writer = [w \in Writers |-> [at |-> writer[w].at, packet |-> writer[w].packet]]
  /\ thread = [hThread |-> thread.hThread, running |-> thread.running, event |-> thread.event]
  /\ runs \in Nat

(* The inductive invariant.  A writer is the thread Start made last; the   *)
(* thread's event says that it has ended; and Fini, once its wait is over  *)
(* without a time limit reached, has nobody left to kill.                  *)
WriterInv ==
  /\ Shape
  /\ OneWriter
  /\ thread.event => thread.hThread # NoThread /\ AllGone
  /\ fini \in {"joined", "clears"} => AllGone

(* Two writers that run are one.                                           *)
LEMMA Unique ==
  ASSUME WriterInv, NEW v \in Writers, NEW w \in Writers, writer[v] # Gone, writer[w] # Gone
  PROVE  v = w
  BY DEF WriterInv, OneWriter

(* A writer goes from one point of its loop to another.                    *)
LEMMA Moves ==
  ASSUME WriterInv, NEW w \in Writers, writer[w] # Gone, NEW r,
         r = [at |-> r.at, packet |-> r.packet],
         writer' = [writer EXCEPT ![w] = r], UNCHANGED <<thread, fini, runs>>
  PROVE  WriterInv'
<1>1. Shape'
  BY DEF WriterInv, Shape
<1>2. OneWriter'
  BY DEF WriterInv, OneWriter, Unlocked, Shape
<1>3. ~thread.event /\ fini \notin {"joined", "clears"}
  BY DEF WriterInv, AllGone
<1>4. QED
  BY <1>1, <1>2, <1>3 DEF WriterInv

LEMMA NotGone == \A w \in Writers : writer[w].at # "gone" => writer[w] # Gone
  BY DEF Gone

LEMMA WriterUntouched ==
  ASSUME WriterInv, UNCHANGED <<writer, thread, fini, runs>>
  PROVE  WriterInv'
  BY DEF WriterInv, Shape, OneWriter, AllGone, Unlocked

LEMMA WriterInit == Init => WriterInv
<1> SUFFICES ASSUME Init PROVE WriterInv
  OBVIOUS
<1>1. AllGone /\ writer = [w \in Writers |-> Gone]
  BY DEF Init, AllGone
<1>2. thread = NewThread /\ fini = "idle" /\ runs = 0
  BY DEF Init
<1>3. Shape
  BY <1>1, <1>2 DEF Shape, Gone, NewThread
<1>4. ~thread.event
  BY <1>2 DEF NewThread
<1>5. QED
  BY <1>1, <1>2, <1>3, <1>4 DEF WriterInv, OneWriter, AllGone

LEMMA WriterRuns ==
  ASSUME WriterInv, NEW w \in Writers,
         Run(w) \/ Enter(w) \/ Wakes(w) \/ Relock(w) \/ Write(w) \/ Delete(w)
  PROVE  WriterInv'
<1>1. writer[w] # Gone /\ UNCHANGED <<thread, fini, runs>>
  BY NotGone DEF Run, Enter, Wakes, Relock, Write, Delete
<1>2. CASE Write(w)
  <2>1. writer' = [writer EXCEPT ![w] = [at |-> "delete", packet |-> writer[w].packet]]
    <3>1. writer' = [writer EXCEPT ![w] = [writer[w] EXCEPT !.at = "delete"]]
      BY <1>2 DEF Write
    <3>2. writer[w] = [at |-> writer[w].at, packet |-> writer[w].packet]
      BY DEF WriterInv, Shape
    <3>3. [writer[w] EXCEPT !.at = "delete"] = [at |-> "delete", packet |-> writer[w].packet]
      BY <3>2
    <3>4. QED
      BY <3>1, <3>3
  <2>2. QED
    BY <1>1, <2>1, Moves
<1>3. CASE Run(w) \/ Wakes(w) \/ Delete(w)
  BY <1>1, <1>3, Moves DEF Run, Wakes, Delete, At
<1>4. CASE Enter(w) \/ Relock(w)
  BY <1>1, <1>4, Moves DEF Enter, Relock, At, TakePacket
<1>5. QED
  BY <1>2, <1>3, <1>4

(* The end of the thread sets the event; it was the only one.              *)
LEMMA WriterEnds == ASSUME WriterInv, NEW w \in Writers, Ends(w) PROVE WriterInv'
<1>1. writer[w] # Gone /\ w = thread.hThread /\ w # NoThread
  BY NotGone, LogAssumption DEF Ends, WriterInv, OneWriter
<1>2. AllGone'
  BY <1>1, Unique DEF Ends, AllGone, WriterInv, Shape
<1>3. thread' = Broadcast(thread) /\ UNCHANGED <<fini, runs>>
  BY DEF Ends
<1>4. thread'.hThread = thread.hThread
  BY <1>3 DEF Broadcast, WriterInv, Shape
<1>5. Shape'
  BY <1>3 DEF Ends, Broadcast, WriterInv, Shape, Gone
<1>6. QED
  BY <1>1, <1>2, <1>4, <1>5 DEF WriterInv, OneWriter, AllGone

(* A new log starts where nobody is left of the old one.                   *)
LEMMA WriterInit_Log == ASSUME WriterInv, Init_Log PROVE WriterInv'
<1>1. fini = "idle" /\ fini' = "idle" /\ runs' = runs + 1 /\ thread' = Start(thread, runs')
  BY DEF Init_Log, Unlocked
<1>2. runs' \in Writers /\ runs' \in Nat
  BY LogAssumption DEF Init_Log, WriterInv, Shape, Writers
<1>3. CASE Starts(thread)
  <2>1. writer' = [writer EXCEPT ![runs'] = [at |-> "loop", packet |-> NoPacket]]
    BY <1>3 DEF Init_Log, At
  <2>2. thread' = [hThread |-> runs', running |-> TRUE, event |-> thread.event]
    BY <1>1, <1>3 DEF Start, WriterInv, Shape
  <2>3. AllGone /\ ~thread.event
    BY <1>3, LogAssumption DEF Starts, WriterInv, OneWriter, AllGone
  <2>4. \A w \in Writers : writer'[w] # Gone => w = runs'
    BY <2>1, <2>3 DEF AllGone, WriterInv, Shape
  <2>5. Shape'
    BY <1>2, <2>1, <2>2 DEF WriterInv, Shape
  <2>6. QED
    BY <1>1, <2>2, <2>3, <2>4, <2>5 DEF WriterInv, OneWriter
<1>4. CASE ~Starts(thread)
  <2>1. UNCHANGED <<writer, thread, fini>>
    BY <1>1, <1>4 DEF Init_Log, Start
  <2>2. QED
    BY <1>2, <2>1 DEF WriterInv, Shape, OneWriter, AllGone, Unlocked
<1>5. QED
  BY <1>3, <1>4

LEMMA WriterFini_Log == ASSUME WriterInv, Fini_Log PROVE WriterInv'
<1>1. UNCHANGED <<writer, runs>> /\ Unlocked
  BY DEF Fini_Log
<1>2. thread' = [hThread |-> thread.hThread, running |-> FALSE, event |-> thread.event]
  BY DEF Fini_Log, Stopping, WriterInv, Shape
<1>3. Shape'
  BY <1>1, <1>2 DEF WriterInv, Shape
<1>4. fini' # "idle" /\ (fini' \in {"joined", "clears"} => ~thread.running)
  BY DEF Fini_Log
<1>5. ~thread.running => AllGone
  BY <1>1 DEF WriterInv, OneWriter, AllGone
<1>6. QED
  BY <1>1, <1>2, <1>3, <1>4, <1>5 DEF WriterInv, OneWriter, AllGone, Unlocked

LEMMA WriterFini_Waited == ASSUME WriterInv, Fini_Waited PROVE WriterInv'
<1>1. UNCHANGED <<writer, thread, runs>> /\ fini' # "idle" /\ fini # "idle"
  BY DEF Fini_Waited
<1>2. fini' \in {"joined", "clears"} => AllGone
  BY DEF Fini_Waited, WriterInv
<1>3. QED
  BY <1>1, <1>2 DEF WriterInv, Shape, OneWriter, AllGone, Unlocked

(* Whoever is left is killed.                                              *)
LEMMA WriterFini_End == ASSUME WriterInv, Fini_End PROVE WriterInv'
<1>1. Killed /\ UNCHANGED runs /\ fini' = "idle" /\ fini \in {"joined", "kills", "clears"}
  BY DEF Fini_End
<1>2. AllGone'
  BY <1>1 DEF Killed, AllGone, WriterInv, OneWriter
<1>3. writer' = [w \in Writers |-> Gone]
  BY <1>1, <1>2 DEF Killed, AllGone
<1>4. CASE fini = "clears"
  <2>1. thread' = thread
    BY <1>4 DEF Fini_End
  <2>2. QED
    BY <1>1, <1>2, <1>3, <2>1 DEF WriterInv, Shape, OneWriter, AllGone, Gone
<1>5. CASE fini # "clears"
  <2>1. thread' = [hThread |-> NoThread, running |-> thread.running, event |-> FALSE]
    BY <1>5 DEF Fini_End, Stopped, WriterInv, Shape
  <2>2. QED
    BY <1>1, <1>2, <1>3, <2>1 DEF WriterInv, Shape, OneWriter, AllGone, Gone
<1>6. QED
  BY <1>4, <1>5

LEMMA WriterNext == WriterInv /\ [Next]_vars => WriterInv'
<1> SUFFICES ASSUME WriterInv, [Next]_vars PROVE WriterInv'
  OBVIOUS
<1>1. CASE \E p \in Posters : LogText(p) \/ LogFormat(p) \/ Poster(p)
  BY <1>1, WriterUntouched DEF LogText, LogFormat, Begin, Poster, Alloc, AllocBlock, PostLog
<1>2. CASE \E w \in Writers : Writer(w)
  BY <1>2, WriterRuns, WriterEnds DEF Writer
<1>3. CASE Init_Log \/ Fini_Log \/ Finishing
  BY <1>3, WriterInit_Log, WriterFini_Log, WriterFini_Waited, WriterFini_End DEF Finishing
<1>4. CASE Tick
  BY <1>4, WriterUntouched DEF Tick
<1>5. CASE UNCHANGED vars
  BY <1>5, WriterUntouched DEF vars
<1>6. QED
  BY <1>1, <1>2, <1>3, <1>4, <1>5 DEF Next

(* One thread at most runs the writer's loop, and none when Fini has       *)
(* returned, however often the log is started and ended (Log.cpp).         *)
THEOREM OneWriterTheorem == Spec => []OneWriter
<1>1. WriterInv => OneWriter
  BY DEF WriterInv
<1>2. QED
  BY <1>1, WriterInit, WriterNext, PTL DEF Spec

-----------------------------------------------------------------------------
(* The event is set whenever somebody sleeps and there is something to     *)
(* write.  Only the one writer resets it, and it is awake then.            *)
LEMMA WokenInit == Init => WriterWoken
  BY NotGone DEF Init, WriterWoken, Gone

LEMMA WokenPost ==
  ASSUME WriterInv, WriterWoken, NEW p \in Posters, PostLog(p)
  PROVE  WriterWoken'
<1>1. UNCHANGED writer
  BY DEF PostLog
<1>2. CASE UNCHANGED <<packets, event>>
  BY <1>1, <1>2 DEF WriterWoken
<1>3. CASE Enqueue(poster[p].object, poster[p].line)
  BY <1>1, <1>3 DEF WriterWoken, Enqueue
<1>4. QED
  BY <1>2, <1>3 DEF PostLog

LEMMA WokenWriter ==
  ASSUME WriterInv, WriterWoken, NEW w \in Writers, Writer(w)
  PROVE  WriterWoken'
<1>1. writer[w] # Gone
  BY NotGone DEF Writer, Run, Enter, Wakes, Relock, Write, Delete, Ends
<1>2. \A v \in Writers : v # w => writer'[v] = writer[v]
  BY DEF Writer, Run, Enter, Wakes, Relock, Write, Delete, Ends, At, TakePacket, WriterInv, Shape
<1>3. \A v \in Writers : v # w => writer'[v].at # "asleep"
  BY <1>1, <1>2, Unique DEF Gone
<1>4. writer'[w].at = "asleep" => packets' = <<>>
  <2>1. CASE Enter(w)
    BY <2>1 DEF Enter, At, TakePacket, WriterInv, Shape
  <2>2. CASE Relock(w)
    BY <2>2 DEF Relock, At, TakePacket, WriterInv, Shape
  <2>3. CASE Write(w)
    BY <2>3 DEF Write, WriterInv, Shape
  <2>4. CASE Run(w) \/ Wakes(w) \/ Delete(w) \/ Ends(w)
    BY <2>4 DEF Run, Wakes, Delete, Ends, At, WriterInv, Shape, Gone
  <2>5. QED
    BY <2>1, <2>2, <2>3, <2>4 DEF Writer
<1>5. QED
  BY <1>3, <1>4 DEF WriterWoken

LEMMA WokenNext == WriterInv /\ WriterWoken /\ [Next]_vars => WriterWoken'
<1> SUFFICES ASSUME WriterInv, WriterWoken, [Next]_vars PROVE WriterWoken'
  OBVIOUS
<1>1. CASE \E p \in Posters : LogText(p) \/ LogFormat(p) \/ Alloc(p) \/ AllocBlock(p)
  <2>1. UNCHANGED <<writer, packets, event>>
    BY <1>1, Zenon DEF LogText, LogFormat, Begin, Alloc, AllocBlock
  <2>2. QED
    BY <2>1 DEF WriterWoken
<1>2. CASE \E p \in Posters : PostLog(p)
  BY <1>2, WokenPost
<1>3. CASE \E w \in Writers : Writer(w)
  BY <1>3, WokenWriter
<1>4. CASE Init_Log
  <2>1. UNCHANGED <<packets, event>>
    BY <1>4 DEF Init_Log
  <2>2. \A w \in Writers : writer'[w].at = "asleep" => writer[w].at = "asleep"
    BY <1>4 DEF Init_Log, At, WriterInv, Shape
  <2>3. QED
    BY <2>1, <2>2 DEF WriterWoken
<1>5. CASE Fini_Log \/ Fini_Waited \/ Tick
  BY <1>5 DEF Fini_Log, Fini_Waited, Tick, WriterWoken
<1>6. CASE Fini_End
  BY <1>6 DEF Fini_End, WriterWoken
<1>7. CASE UNCHANGED vars
  BY <1>7 DEF vars, WriterWoken
<1>8. QED
  BY <1>1, <1>2, <1>3, <1>4, <1>5, <1>6, <1>7 DEF Next, Poster, Finishing

(* The writer never sleeps through a line (Log.cpp, PostLog and Run),      *)
(* although it waits without a time limit and is woken for the first line  *)
(* of the queue only.                                                      *)
THEOREM WriterWokenTheorem == Spec => []WriterWoken
  BY WriterInit, WriterNext, WokenInit, WokenNext, PTL DEF Spec

-----------------------------------------------------------------------------
(* The types: the variables of CLogThread, its pool, its queue and its threads. *)

(* What a posting thread and a writer are, as TypeOK says. *)
PosterRecord == [at : PosterStates, object : Nat \cup {NoObject},
                 line : 0..MaxLines, left : 0..MaxPieces, blank : BOOLEAN, grown : 0..AllocBlockSize]
WriterRecord == [at : WriterStates, packet : Packets]

(* A posting thread is at a line that was counted, has an object exactly when it is about *)
(* to post it, and leaves AllocBlock in time.                                             *)
Posts(r, n) ==
  /\ r.at # "idle" => r.line \in 1..n /\ r.left >= 1 /\ r.line + r.left <= n + 1
  /\ r.at = "grow" => r.grown < AllocBlockSize
  /\ r.at = "post" <=> r.object # NoObject

(* The writer has an object exactly when it is about to write or to delete it. *)
Works(r) == r.at \in {"write", "delete"} <=> r.packet.object # NoObject

(* The types, and what keeps them. *)
Fits ==
  /\ TypeOK
  /\ \A p \in Posters : Posts(poster[p], lines)
  /\ \A w \in Writers : Works(writer[w])
  /\ \A i \in 1..Len(packets) : packets[i].object # NoObject /\ packets[i].line \in 1..MaxLines

(* What is in m_packets: at most MaxLogCount packets, each with an object and a line. *)
QueueOK(q) ==
  /\ q \in Seq(Packets) /\ Len(q) <= MaxLogCount
  /\ \A i \in 1..Len(q) : q[i].object # NoObject /\ q[i].line \in 1..MaxLines

(* The constants of the log and of its memory pool. *)
LEMMA Sizes ==
  /\ MaxLines \in Nat /\ MaxPieces \in Nat \ {0} /\ AllocBlockSize \in Nat \ {0} /\ NoObject \notin Nat
  /\ MaxLogCount \in Nat \ {0} /\ MaxRuns \in Nat
  BY LogAssumption, PoolSizes

(* A writer without a packet has one without an object. *)
LEMMA NoPacketIs == NoPacket \in Packets /\ NoPacket.object = NoObject
<1>1. 1 \in 1..Len(Calendar)
  BY LogAssumption
<1>2. QED
  BY <1>1 DEF NoPacket, Packets

(* Before anything is logged. *)
LEMMA FitsInit == Init => Fits
<1> SUFFICES ASSUME Init PROVE Fits
  OBVIOUS
<1>1. writer \in [Writers -> WriterRecord] /\ \A w \in Writers : Works(writer[w])
  BY NoPacketIs DEF Init, Gone, WriterRecord, WriterStates, Works
<1>2. Idle \in PosterRecord /\ Posts(Idle, lines)
  BY Sizes DEF Idle, PosterRecord, PosterStates, Posts
<1>3. poster \in [Posters -> PosterRecord] /\ \A p \in Posters : Posts(poster[p], lines)
  BY <1>2 DEF Init
<1>4. thread \in ThreadObject(Writers)
  BY DEF Init, NewThread, ThreadObject
<1>5. pool \in [free : Seq(Nat), totalMalloc : Nat] /\ packets \in Seq(Packets) /\ Len(packets) = 0
  BY DEF Init, NewPool
<1>6. now \in 1..Len(Calendar)
  BY LogAssumption DEF Init
<1>0. event \in BOOLEAN /\ init \in BOOLEAN /\ logLevel \subseteq Levels /\ dirCreated \in BOOLEAN
  BY DEF Init
<1>7. /\ fini \in FiniStates
      /\ month \in 0..11 /\ fp \in Names /\ date \in 0..31
      /\ lines \in 0..MaxLines /\ runs \in 0..MaxRuns
      /\ file \in Seq([line : Nat, at : 1..Len(Calendar), name : Names])
  BY Sizes DEF Init, FiniStates, Names, Closed
<1>8. Len(packets) <= MaxLogCount
  BY <1>5, LogAssumption
<1>9. TypeOK
  BY <1>0, <1>1, <1>3, <1>4, <1>5, <1>6, <1>7, <1>8 DEF TypeOK, WriterRecord, PosterRecord
<1>10. QED
  BY <1>1, <1>3, <1>5, <1>9 DEF Fits

(* An idle thread, and one that begins with a line. *)
LEMMA IdlePoster == Idle \in PosterRecord /\ Idle.object = NoObject /\ \A n : Posts(Idle, n)
  BY Sizes DEF Idle, PosterRecord, PosterStates, Posts

(* A posting thread about to allocate the packet of line l, the first of n. *)
Starting(s, l, n) ==
  s \in PosterRecord /\ s.at = "alloc" /\ s.line = l /\ s.left = n /\ s.object = NoObject

(* LogText and LogFormat begin with a line, blank or not. *)
LEMMA NewPoster ==
  ASSUME NEW l \in 0..MaxLines, NEW n \in 0..MaxPieces, NEW b \in BOOLEAN
  PROVE  Starting([Idle EXCEPT !.at = "alloc", !.line = l, !.left = n, !.blank = b], l, n)
<1>1. Idle \in PosterRecord /\ Idle.object = NoObject
  BY IdlePoster
<1>2. QED
  BY <1>1 DEF Starting, PosterRecord, PosterStates

(* A text in pieces goes on with its next line. *)
LEMMA NextPoster ==
  ASSUME NEW l \in 0..MaxLines, NEW n \in 0..MaxPieces
  PROVE  Starting([Idle EXCEPT !.at = "alloc", !.line = l, !.left = n], l, n)
<1>1. Idle \in PosterRecord /\ Idle.object = NoObject
  BY IdlePoster
<1>2. QED
  BY <1>1 DEF Starting, PosterRecord, PosterStates

(* A new line. *)
LEMMA FitsBegin ==
  ASSUME Fits, NEW p \in Posters, NEW level \in Levels, NEW n \in 1..MaxPieces, NEW blank \in BOOLEAN,
         Begin(p, level, n, blank)
  PROVE  Fits'
<1> DEFINE r == [Idle EXCEPT !.at = "alloc", !.line = lines + 1, !.left = n, !.blank = blank]
<1>1. lines \in 0..MaxLines /\ lines' = lines + n /\ lines + n <= MaxLines /\ MaxLines \in Nat /\ MaxPieces \in Nat
  BY Sizes DEF Begin, Fits, TypeOK
<1>2. lines' \in 0..MaxLines
  BY <1>1
<1>3. /\ r.at = "alloc" /\ r.line = lines + 1 /\ r.left = n /\ r.object = NoObject
      /\ r \in PosterRecord
  <2>1. lines + 1 \in 0..MaxLines
    BY <1>1
  <2>2. n \in 0..MaxPieces
    BY <1>1
  <2>3. Starting(r, lines + 1, n)
    BY <2>1, <2>2, NewPoster
  <2> HIDE DEF r
  <2>4. QED
    BY <2>3 DEF Starting
<1>4. poster' = [poster EXCEPT ![p] = r] /\ poster \in [Posters -> PosterRecord]
  BY DEF Begin, Fits, TypeOK, PosterRecord
<1> HIDE DEF r
<1>5. Posts(r, lines')
  BY <1>1, <1>3 DEF Posts
<1>6. ASSUME NEW q \in Posters PROVE Posts(poster'[q], lines')
  <2>1. CASE q = p
    BY <1>4, <1>5, <2>1
  <2>2. CASE q # p
    <3>1. poster'[q] = poster[q] /\ poster[q] \in PosterRecord /\ Posts(poster[q], lines)
      BY <1>4, <2>2 DEF Fits
    <3>2. QED
      BY <1>1, <3>1 DEF Posts, PosterRecord
  <2>3. QED
    BY <2>1, <2>2
<1>7. poster' \in [Posters -> PosterRecord]
  BY <1>3, <1>4
<1>8. UNCHANGED <<pool, packets, event, init, logLevel, thread, writer, fini, disk, now, runs>>
  BY DEF Begin
<1>9. TypeOK'
  BY <1>2, <1>7, <1>8 DEF TypeOK, Fits, PosterRecord, disk
<1>10. QED
  BY <1>6, <1>8, <1>9 DEF Fits, Works

(* A posting thread goes on with another record; the queue and the pool keep their types. *)
LEMMA FitsPoster ==
  ASSUME Fits, NEW p \in Posters, NEW r \in PosterRecord, Posts(r, lines),
         poster' = [poster EXCEPT ![p] = r],
         pool' \in [free : Seq(Nat), totalMalloc : Nat],
         QueueOK(packets'), event' \in BOOLEAN,
         UNCHANGED <<init, logLevel, thread, writer, fini, disk, now, lines, runs>>
  PROVE  Fits'
<1>0. UNCHANGED lines /\ \A q \in Posters : Posts(poster[q], lines)
  BY DEF Fits
<1>1. poster \in [Posters -> PosterRecord]
  BY DEF Fits, TypeOK, PosterRecord
<1>2. poster' \in [Posters -> PosterRecord]
  BY <1>1
<1>3. \A q \in Posters : Posts(poster'[q], lines)
  BY <1>0, <1>1
<1>4. \A q \in Posters : Posts(poster'[q], lines')
  BY <1>0, <1>3
<1>5. TypeOK'
  BY <1>2 DEF TypeOK, Fits, QueueOK, PosterRecord, disk
<1>6. QED
  BY <1>4, <1>5 DEF Fits, QueueOK, Works

(* The operations of CMemoryPool_Public keep its types, and AllocObject finds no object only in an empty list. *)
LEMMA PoolKeeps ==
  ASSUME NEW s \in [free : Seq(Nat), totalMalloc : Nat]
  PROVE  /\ Pop(s) \in [free : Seq(Nat), totalMalloc : Nat]
         /\ Malloc(s) \in [free : Seq(Nat), totalMalloc : Nat]
         /\ \A o \in Nat : Push(s, o) \in [free : Seq(Nat), totalMalloc : Nat]
         /\ Top(s) \in Nat \cup {NoObject} /\ (Top(s) = NoObject <=> s.free = <<>>)
<1>1. s.free \in Seq(Nat) /\ s.totalMalloc \in Nat
  OBVIOUS
<1>2. s.free # <<>> => s.free[Len(s.free)] \in Nat /\ SubSeq(s.free, 1, Len(s.free) - 1) \in Seq(Nat)
  BY <1>1
<1>3. Pop(s) \in [free : Seq(Nat), totalMalloc : Nat]
  BY <1>1, <1>2 DEF Pop
<1>4. Malloc(s) \in [free : Seq(Nat), totalMalloc : Nat]
  BY <1>1 DEF Malloc
<1>5. ASSUME NEW o \in Nat PROVE Push(s, o) \in [free : Seq(Nat), totalMalloc : Nat]
  <2>1. Append(s.free, o) \in Seq(Nat)
    BY <1>1
  <2>2. QED
    BY <1>1, <2>1 DEF Push
<1>6. Top(s) \in Nat \cup {NoObject} /\ (Top(s) = NoObject <=> s.free = <<>>)
  <2>1. s.free = <<>> => Top(s) = NoObject
    BY DEF Top
  <2>2. s.free # <<>> => Top(s) \in Nat
    BY <1>2 DEF Top
  <2>3. NoObject \notin Nat
    BY PoolSizes
  <2>4. QED
    BY <2>1, <2>2, <2>3, Zenon
<1>7. QED
  BY <1>3, <1>4, <1>5, <1>6

(* AllocObject: an object is taken, or AllocBlock begins. *)
LEMMA FitsAlloc ==
  ASSUME Fits, NEW p \in Posters, Alloc(p)
  PROVE  Fits'
<1> DEFINE r == [poster[p] EXCEPT !.object = Top(pool), !.grown = 0,
                                  !.at = IF Top(pool) = NoObject THEN "grow" ELSE "post"]
<1>1. poster[p] \in PosterRecord /\ Posts(poster[p], lines) /\ poster[p].at = "alloc"
  BY DEF Fits, TypeOK, PosterRecord, Alloc
<1>2. pool \in [free : Seq(Nat), totalMalloc : Nat]
  BY DEF Fits, TypeOK
<1>3. Top(pool) \in Nat \cup {NoObject} /\ Pop(pool) \in [free : Seq(Nat), totalMalloc : Nat]
  BY <1>2, PoolKeeps
<1>4. r \in PosterRecord /\ Posts(r, lines)
  <2>1. /\ r.object = Top(pool) /\ r.line = poster[p].line /\ r.left = poster[p].left
        /\ r.at = IF Top(pool) = NoObject THEN "grow" ELSE "post"
        /\ r.grown = 0
    BY <1>1 DEF PosterRecord
  <2>2. 0 \in 0..AllocBlockSize /\ 0 < AllocBlockSize
    BY Sizes
  <2>3. r \in PosterRecord
    BY <1>1, <1>3, <2>2 DEF PosterRecord, PosterStates
  <2> HIDE DEF r
  <2>4. QED
    BY <1>1, <2>1, <2>2, <2>3 DEF Posts
<1>5. /\ pool' = Pop(pool) /\ poster' = [poster EXCEPT ![p] = r]
      /\ UNCHANGED <<packets, event, init, logLevel, thread, writer, fini, disk, now, lines, runs>>
  BY DEF Alloc
<1> HIDE DEF r
<1>6. QueueOK(packets) /\ event \in BOOLEAN
  BY DEF Fits, TypeOK, QueueOK
<1>7. QED
  BY <1>3, <1>4, <1>5, <1>6, FitsPoster

(* AllocBlock makes one object of its block. *)
LEMMA FitsAllocBlock ==
  ASSUME Fits, NEW p \in Posters, AllocBlock(p)
  PROVE  Fits'
<1> DEFINE r == [poster[p] EXCEPT !.grown = @ + 1,
                                  !.at = IF poster[p].grown + 1 = AllocBlockSize THEN "alloc" ELSE "grow"]
<1>1. poster[p] \in PosterRecord /\ Posts(poster[p], lines) /\ poster[p].at = "grow"
  BY DEF Fits, TypeOK, PosterRecord, AllocBlock
<1>2. pool \in [free : Seq(Nat), totalMalloc : Nat]
  BY DEF Fits, TypeOK
<1>3. Malloc(pool) \in [free : Seq(Nat), totalMalloc : Nat]
  BY <1>2, PoolKeeps
<1>4. r \in PosterRecord /\ Posts(r, lines)
  <2>1. /\ r.object = poster[p].object /\ r.line = poster[p].line /\ r.left = poster[p].left
        /\ r.at = IF poster[p].grown + 1 = AllocBlockSize THEN "alloc" ELSE "grow"
        /\ r.grown = poster[p].grown + 1
    BY <1>1 DEF PosterRecord
  <2>2. poster[p].grown \in Nat /\ poster[p].grown < AllocBlockSize /\ AllocBlockSize \in Nat
    BY <1>1, Sizes DEF Posts, PosterRecord
  <2>3. poster[p].grown + 1 \in 0..AllocBlockSize
    BY <2>2
  <2>4. r \in PosterRecord
    BY <1>1, <2>3 DEF PosterRecord, PosterStates
  <2> HIDE DEF r
  <2>5. QED
    BY <1>1, <2>1, <2>2, <2>4 DEF Posts
<1>5. /\ pool' = Malloc(pool) /\ poster' = [poster EXCEPT ![p] = r]
      /\ UNCHANGED <<packets, event, init, logLevel, thread, writer, fini, disk, now, lines, runs>>
  BY DEF AllocBlock
<1> HIDE DEF r
<1>6. QueueOK(packets) /\ event \in BOOLEAN
  BY DEF Fits, TypeOK, QueueOK
<1>7. QED
  BY <1>3, <1>4, <1>5, <1>6, FitsPoster

(* PostLog: the packet is queued, or given back; the next piece follows. *)
LEMMA FitsPostLog ==
  ASSUME Fits, NEW p \in Posters, PostLog(p)
  PROVE  Fits'
<1> DEFINE r == IF poster[p].left = 1 THEN Idle
                ELSE [Idle EXCEPT !.at = "alloc", !.line = poster[p].line + 1, !.left = poster[p].left - 1]
           o == poster[p].object
<1>1. poster[p] \in PosterRecord /\ Posts(poster[p], lines) /\ poster[p].at = "post"
  BY DEF Fits, TypeOK, PosterRecord, PostLog
<1>2. lines \in 0..MaxLines /\ MaxLines \in Nat /\ MaxPieces \in Nat
  BY Sizes DEF Fits, TypeOK
<1>3. o \in Nat /\ poster[p].line \in 1..MaxLines
  BY <1>1, <1>2 DEF Posts, PosterRecord
<1>4. r \in PosterRecord /\ Posts(r, lines)
  <2>1. Idle \in PosterRecord /\ Posts(Idle, lines)
    BY IdlePoster
  <2>2. CASE poster[p].left # 1
    <3> DEFINE l == poster[p].line
               k == poster[p].left
               s == [Idle EXCEPT !.at = "alloc", !.line = l + 1, !.left = k - 1]
    <3>1. l \in 1..lines /\ k \in 1..MaxPieces /\ l + k <= lines + 1
      BY <1>1 DEF Posts, PosterRecord
    <3> HIDE DEF l, k
    <3>2. l + 1 \in 1..lines /\ k - 1 >= 1 /\ k - 1 \in Nat /\ (l + 1) + (k - 1) <= lines + 1
      BY <1>2, <2>2, <3>1 DEF k
    <3>3. l + 1 \in 0..MaxLines /\ k - 1 \in 0..MaxPieces
      BY <1>2, <2>2, <3>1 DEF k
    <3>4. Starting(s, l + 1, k - 1)
      BY <3>3, NextPoster
    <3>5. r = s
      BY <2>2 DEF l, k
    <3> HIDE DEF s
    <3>6. Posts(s, lines)
      BY <3>2, <3>4 DEF Posts, Starting
    <3>7. QED
      BY <3>4, <3>5, <3>6 DEF Starting
  <2>3. QED
    BY <2>1, <2>2
<1>5. /\ poster' = [poster EXCEPT ![p] = r]
      /\ UNCHANGED <<init, logLevel, thread, writer, fini, disk, now, lines, runs>>
  BY DEF PostLog, NextPiece
<1> HIDE DEF r
<1>6. QueueOK(packets) /\ event \in BOOLEAN /\ pool \in [free : Seq(Nat), totalMalloc : Nat]
  BY DEF Fits, TypeOK, QueueOK
<1>7. CASE UNCHANGED <<packets, event>> /\ (pool' = pool \/ pool' = Push(pool, o))
  <2>1. pool' \in [free : Seq(Nat), totalMalloc : Nat]
    BY <1>3, <1>6, <1>7, PoolKeeps
  <2>2. QED
    BY <1>4, <1>5, <1>6, <1>7, <2>1, FitsPoster
<1>8. CASE ~Full /\ Enqueue(o, poster[p].line) /\ UNCHANGED pool
  <2> DEFINE x == [object |-> o, line |-> poster[p].line, at |-> now]
  <2>1. x \in Packets /\ x.object # NoObject /\ x.line \in 1..MaxLines
    BY <1>2, <1>3, Sizes DEF Packets, Fits, TypeOK
  <2>2. packets' = Append(packets, x) /\ event' \in BOOLEAN
    BY <1>6, <1>8 DEF Enqueue
  <2> HIDE DEF x
  <2>3. Len(packets) + 1 <= MaxLogCount
    BY <1>6, <1>8, Sizes DEF Full, QueueOK
  <2>4. QueueOK(packets')
    BY <1>6, <2>1, <2>2, <2>3 DEF QueueOK
  <2>5. QED
    BY <1>4, <1>5, <1>6, <1>8, <2>2, <2>4, FitsPoster
<1>9. QED
  BY <1>7, <1>8 DEF PostLog

(* The types of the file, the directory and what m_nDate and m_nMonth keep. *)
DiskOK ==
  /\ dirCreated \in BOOLEAN /\ month \in 0..11 /\ fp \in Names /\ date \in 0..31
  /\ file \in Seq([line : Nat, at : 1..Len(Calendar), name : Names])

(* A moment is a month and a day. *)
LEMMA CalendarIs == \A i \in 1..Len(Calendar) : Calendar[i] \in [mon : 0..11, mday : 1..31]
<1> DEFINE days == [mon : 0..11, mday : 1..31]
<1>1. Calendar \in Seq(days)
  BY LogAssumption
<1> HIDE DEF days
<1>2. \A i \in 1..Len(Calendar) : Calendar[i] \in days
  BY <1>1
<1>3. QED
  BY <1>2 DEF days

(* What Fits says of each variable. *)
LEMMA FitsSays ==
  ASSUME Fits
  PROVE  /\ QueueOK(packets) /\ DiskOK /\ event \in BOOLEAN
         /\ pool \in [free : Seq(Nat), totalMalloc : Nat] /\ thread \in ThreadObject(Writers)
         /\ \A w \in Writers : writer[w] \in WriterRecord /\ Works(writer[w])
  BY DEF Fits, TypeOK, QueueOK, DiskOK, WriterRecord

(* The threads of the log go on: with a writer function, a CThread, a pool, a queue and a *)
(* disk of the right types.                                                               *)
LEMMA FitsThreads ==
  ASSUME Fits,
         writer' \in [Writers -> WriterRecord], \A w \in Writers : Works(writer'[w]),
         thread' \in ThreadObject(Writers), pool' \in [free : Seq(Nat), totalMalloc : Nat],
         QueueOK(packets'), event' \in BOOLEAN, DiskOK',
         init' \in BOOLEAN, logLevel' \subseteq Levels, fini' \in FiniStates, runs' \in 0..MaxRuns,
         now' \in 1..Len(Calendar), UNCHANGED <<poster, lines>>
  PROVE  Fits'
<1>1. TypeOK'
  BY DEF TypeOK, Fits, QueueOK, DiskOK, WriterRecord
<1>2. \A p \in Posters : Posts(poster'[p], lines')
  BY DEF Fits
<1>3. QED
  BY <1>1, <1>2 DEF Fits, QueueOK, Works

(* One writer goes on, the others stay. *)
LEMMA FitsWriter ==
  ASSUME Fits, NEW w \in Writers, NEW r \in WriterRecord, Works(r),
         writer' = [writer EXCEPT ![w] = r],
         thread' \in ThreadObject(Writers), pool' \in [free : Seq(Nat), totalMalloc : Nat],
         QueueOK(packets'), event' \in BOOLEAN, DiskOK',
         UNCHANGED <<init, logLevel, poster, fini, now, lines, runs>>
  PROVE  Fits'
<1>1. writer \in [Writers -> WriterRecord] /\ \A v \in Writers : Works(writer[v])
  BY DEF Fits, TypeOK, WriterRecord
<1>2. writer' \in [Writers -> WriterRecord] /\ \A v \in Writers : Works(writer'[v])
  BY <1>1
<1>3. /\ init' \in BOOLEAN /\ logLevel' \subseteq Levels /\ fini' \in FiniStates /\ runs' \in 0..MaxRuns
      /\ now' \in 1..Len(Calendar)
  BY DEF Fits, TypeOK
<1>4. QED
  BY <1>2, <1>3, FitsThreads

(* A writer without a packet. *)
LEMMA IdleWriter ==
  ASSUME NEW at \in WriterStates \ {"write", "delete"}
  PROVE  [at |-> at, packet |-> NoPacket] \in WriterRecord /\ Works([at |-> at, packet |-> NoPacket])
  BY NoPacketIs DEF WriterRecord, Works

(* The writer takes what is first in the queue. *)
LEMMA FitsTakes ==
  ASSUME Fits, NEW w \in Writers, TakePacket(w), event' \in BOOLEAN,
         UNCHANGED <<pool, init, logLevel, thread, poster, fini, disk, now, lines, runs>>
  PROVE  Fits'
<1>1. /\ QueueOK(packets) /\ DiskOK' /\ pool' \in [free : Seq(Nat), totalMalloc : Nat]
      /\ thread' \in ThreadObject(Writers)
  BY FitsSays DEF DiskOK, disk
<1>2. CASE packets = <<>>
  <2>1. writer' = [writer EXCEPT ![w] = [at |-> "loop", packet |-> NoPacket]] /\ QueueOK(packets')
    BY <1>1, <1>2 DEF TakePacket, At
  <2>2. "loop" \in WriterStates \ {"write", "delete"}
    BY DEF WriterStates
  <2>3. QED
    BY <1>1, <2>1, <2>2, IdleWriter, FitsWriter
<1>3. CASE packets # <<>>
  <2> DEFINE r == [at |-> "write", packet |-> Head(packets)]
  <2>1. writer' = [writer EXCEPT ![w] = r] /\ packets' = Tail(packets)
    BY <1>3 DEF TakePacket
  <2>2. Head(packets) = packets[1] /\ 1 \in 1..Len(packets) /\ Head(packets) \in Packets
    BY <1>1, <1>3 DEF QueueOK
  <2>3. r \in WriterRecord /\ Works(r)
    BY <1>1, <2>2 DEF WriterRecord, WriterStates, Works, QueueOK
  <2>4. QueueOK(packets')
    BY <1>1, <1>3, <2>1, Sizes DEF QueueOK
  <2> HIDE DEF r
  <2>5. QED
    BY <1>1, <2>1, <2>3, <2>4, FitsWriter
<1>4. QED
  BY <1>2, <1>3

(* A writer goes on without a packet. *)
LEMMA FitsLoop ==
  ASSUME Fits, NEW w \in Writers, NEW at \in WriterStates \ {"write", "delete"}, At(w, at),
         pool' \in [free : Seq(Nat), totalMalloc : Nat],
         UNCHANGED <<packets, event, init, logLevel, thread, poster, fini, disk, now, lines, runs>>
  PROVE  Fits'
<1>1. /\ QueueOK(packets') /\ DiskOK' /\ event' \in BOOLEAN /\ thread' \in ThreadObject(Writers)
  BY FitsSays DEF DiskOK, disk
<1>2. QED
  BY <1>1, IdleWriter, FitsWriter DEF At

(* Log_Text_2File keeps the types, whatever the disk lets it do. *)
LEMMA FitsWrite ==
  ASSUME Fits, NEW w \in Writers, Write(w)
  PROVE  Fits'
<1> DEFINE packet == writer[w].packet
           t == Calendar[packet.at]
           r == [writer[w] EXCEPT !.at = "delete"]
<1>1. /\ writer[w] \in WriterRecord /\ Works(writer[w]) /\ writer[w].at = "write"
      /\ QueueOK(packets) /\ DiskOK /\ event \in BOOLEAN
      /\ pool \in [free : Seq(Nat), totalMalloc : Nat] /\ thread \in ThreadObject(Writers)
  BY FitsSays DEF Write
<1>2. packet \in Packets /\ r \in WriterRecord /\ Works(r)
  BY <1>1 DEF WriterRecord, WriterStates, Works
<1>3. packet.at \in 1..Len(Calendar) /\ packet.line \in Nat
  BY <1>2 DEF Packets
<1>4. t \in [mon : 0..11, mday : 1..31]
  BY <1>3, CalendarIs
<1>5. t \in Names /\ t.mday \in 0..31
  BY <1>4 DEF Names
<1>6. now \in 1..Len(Calendar) /\ Calendar[now].mon \in 0..11
  BY CalendarIs DEF Fits, TypeOK
<1>7. Log_Text_2File(packet)
  BY DEF Write
<1> HIDE DEF packet, t
<1>8. dirCreated' \in BOOLEAN /\ month' \in 0..11
  BY <1>1, <1>6, <1>7 DEF Log_Text_2File, CreateMonthDir, DiskOK
<1>9. ASSUME UNCHANGED <<date, file>>, fp' = fp \/ fp' = Closed PROVE DiskOK'
  <2>1. fp' \in Names
    BY <1>1, <1>9 DEF DiskOK, Closed, Names
  <2>2. date' \in 0..31 /\ file' \in Seq([line : Nat, at : 1..Len(Calendar), name : Names])
    BY <1>1, <1>9 DEF DiskOK
  <2>3. QED
    BY <1>8, <2>1, <2>2, Zenon DEF DiskOK
<1>10. ASSUME Writes(packet), UNCHANGED <<fp, date>> \/ (fp' = t /\ date' = t.mday) PROVE DiskOK'
  <2>1. fp' \in Names /\ date' \in 0..31
    BY <1>1, <1>5, <1>10 DEF DiskOK
  <2>2. [line |-> packet.line, at |-> packet.at, name |-> fp'] \in [line : Nat, at : 1..Len(Calendar), name : Names]
    BY <1>3, <2>1
  <2>3. file' \in Seq([line : Nat, at : 1..Len(Calendar), name : Names])
    BY <1>1, <1>10, <2>2 DEF Writes, DiskOK
  <2>4. QED
    BY <1>8, <2>1, <2>3, Zenon DEF DiskOK
<1>11. DiskOK'
  BY <1>7, <1>9, <1>10, Zenon DEF Log_Text_2File, t
<1> HIDE DEF r
<1>12. writer' = [writer EXCEPT ![w] = r]
  BY DEF Write, r
<1>13. QED
  BY <1>1, <1>2, <1>11, <1>12, FitsWriter DEF Write

(* Every step of a writer. *)
LEMMA FitsWriters ==
  ASSUME Fits, NEW w \in Writers, Writer(w)
  PROVE  Fits'
<1>1. ASSUME NEW at \in {"loop", "enter", "asleep", "awake", "ended", "gone"}
      PROVE  at \in WriterStates \ {"write", "delete"}
  BY DEF WriterStates
<1>2. pool \in [free : Seq(Nat), totalMalloc : Nat] /\ event \in BOOLEAN
  BY FitsSays
<1>3. CASE Run(w)
  BY <1>1, <1>2, <1>3, FitsLoop DEF Run
<1>4. CASE Enter(w)
  <2>1. CASE packets = <<>>
    BY <1>1, <1>2, <1>4, <2>1, FitsLoop DEF Enter
  <2>2. CASE packets # <<>>
    BY <1>2, <1>4, <2>2, FitsTakes DEF Enter
  <2>3. QED
    BY <2>1, <2>2
<1>5. CASE Wakes(w)
  BY <1>1, <1>2, <1>5, FitsLoop DEF Wakes
<1>6. CASE Relock(w)
  BY <1>6, FitsTakes DEF Relock
<1>7. CASE Write(w)
  BY <1>7, FitsWrite
<1>8. CASE Delete(w)
  <2>1. writer[w] \in WriterRecord /\ Works(writer[w]) /\ writer[w].at = "delete"
    BY <1>8, FitsSays DEF Delete
  <2>2. writer[w].packet.object \in Nat
    BY <2>1 DEF WriterRecord, Packets, Works
  <2>3. Push(pool, writer[w].packet.object) \in [free : Seq(Nat), totalMalloc : Nat]
    BY <1>2, <2>2, PoolKeeps
  <2>4. QED
    BY <1>1, <1>8, <2>3, FitsLoop DEF Delete
<1>9. CASE Ends(w)
  <2>1. writer' = [writer EXCEPT ![w] = Gone] /\ thread' = Broadcast(thread)
        /\ UNCHANGED <<pool, packets, event, init, logLevel, poster, fini, disk, now, lines, runs>>
    BY <1>9 DEF Ends
  <2>2. thread' \in ThreadObject(Writers)
    BY <2>1, FitsSays DEF ThreadObject, Broadcast
  <2>3. Gone \in WriterRecord /\ Works(Gone)
    BY <1>1, IdleWriter DEF Gone
  <2>4. QueueOK(packets') /\ DiskOK' /\ event' \in BOOLEAN /\ pool' \in [free : Seq(Nat), totalMalloc : Nat]
    BY <2>1, FitsSays DEF DiskOK, disk
  <2>5. QED
    BY <2>1, <2>2, <2>3, <2>4, FitsWriter
<1>10. QED
  BY <1>3, <1>4, <1>5, <1>6, <1>7, <1>8, <1>9 DEF Writer

(* Init opens the log and starts its thread. *)
LEMMA FitsInit_Log == ASSUME Fits, Init_Log PROVE Fits'
<1>1. runs \in 0..MaxRuns /\ runs < MaxRuns /\ runs' = runs + 1 /\ MaxRuns \in Nat
  BY Sizes DEF Fits, TypeOK, Init_Log
<1>2. runs' \in 0..MaxRuns /\ runs' \in Writers
  BY <1>1 DEF Writers
<1>3. thread' \in ThreadObject(Writers)
  BY <1>2, FitsSays DEF Init_Log, ThreadObject, Start
<1>4. writer' \in [Writers -> WriterRecord] /\ \A w \in Writers : Works(writer'[w])
  <2>1. writer \in [Writers -> WriterRecord] /\ \A w \in Writers : Works(writer[w])
    BY DEF Fits, TypeOK, WriterRecord
  <2>2. "loop" \in WriterStates \ {"write", "delete"}
    BY DEF WriterStates
  <2>3. [at |-> "loop", packet |-> NoPacket] \in WriterRecord /\ Works([at |-> "loop", packet |-> NoPacket])
    BY <2>2, IdleWriter
  <2>4. writer' = writer \/ writer' = [writer EXCEPT ![runs'] = [at |-> "loop", packet |-> NoPacket]]
    BY DEF Init_Log, At
  <2>5. QED
    BY <1>2, <2>1, <2>3, <2>4
<1>5. now \in 1..Len(Calendar) /\ Calendar[now].mon \in 0..11
  BY CalendarIs DEF Fits, TypeOK
<1>6. dirCreated' \in BOOLEAN /\ month' \in 0..11 /\ UNCHANGED <<fp, date, file>>
  BY <1>5, FitsSays DEF Init_Log, CreateMonthDir, DiskOK
<1>7. DiskOK'
  BY <1>6, FitsSays DEF DiskOK
<1>8. /\ init' \in BOOLEAN /\ logLevel' \subseteq Levels /\ fini' \in FiniStates
      /\ now' \in 1..Len(Calendar) /\ UNCHANGED <<poster, lines, pool, packets, event>>
  BY DEF Init_Log, Fits, TypeOK
<1>9. QED
  BY <1>2, <1>3, <1>4, <1>7, <1>8, FitsSays, FitsThreads

(* Fini begins, and its wait ends. *)
LEMMA FitsFini == ASSUME Fits, Fini_Log \/ Fini_Waited PROVE Fits'
<1>1. thread' \in ThreadObject(Writers)
  BY FitsSays DEF Fini_Log, Fini_Waited, ThreadObject, Stopping
<1>2. fini' \in FiniStates
  BY DEF Fini_Log, Fini_Waited, FiniStates
<1>3. UNCHANGED <<pool, packets, event, init, logLevel, writer, poster, disk, now, lines, runs>>
  BY DEF Fini_Log, Fini_Waited
<1>4. writer \in [Writers -> WriterRecord] /\ init \in BOOLEAN /\ logLevel \subseteq Levels /\ runs \in 0..MaxRuns
      /\ now \in 1..Len(Calendar)
  BY DEF Fits, TypeOK, WriterRecord
<1>5. DiskOK'
  BY <1>3, FitsSays DEF DiskOK, disk
<1>6. QED
  BY <1>1, <1>2, <1>3, <1>4, <1>5, FitsSays, FitsThreads

(* What Fini gives back to the pool. *)
LEMMA Returned ==
  ASSUME QueueOK(packets)
  PROVE  LET back == [i \in 1..Len(packets) |-> packets[i].object]
         IN  back \in Seq(Nat) /\ Len(back) = Len(packets) /\ \A i \in 1..Len(packets) : back[i] = packets[i].object
<1> DEFINE back == [i \in 1..Len(packets) |-> packets[i].object]
<1>0. \A i \in 1..Len(packets) : packets[i] \in Packets /\ packets[i].object # NoObject
  BY DEF QueueOK
<1>1. \A i \in 1..Len(packets) : packets[i].object \in Nat
  BY <1>0 DEF Packets
<1>2. Len(packets) \in Nat
  BY DEF QueueOK
<1>3. back \in Seq(Nat) /\ Len(back) = Len(packets)
  BY <1>1, <1>2
<1>4. QED
  BY <1>3

(* Fini ends: the thread is killed or gone, the queue is emptied into the pool. *)
LEMMA FitsFini_End == ASSUME Fits, Fini_End PROVE Fits'
<1> DEFINE back == [i \in 1..Len(packets) |-> packets[i].object]
<1>1. thread' \in ThreadObject(Writers)
  BY FitsSays DEF Fini_End, ThreadObject, Stopped
<1>2. writer' \in [Writers -> WriterRecord] /\ \A w \in Writers : Works(writer'[w])
  <2>1. "gone" \in WriterStates \ {"write", "delete"}
    BY DEF WriterStates
  <2>2. Gone \in WriterRecord /\ Works(Gone)
    BY <2>1, IdleWriter DEF Gone
  <2>3. QED
    BY <2>2, FitsSays DEF Fini_End, Killed
<1>3. pool' \in [free : Seq(Nat), totalMalloc : Nat]
  <2>1. back \in Seq(Nat) /\ pool.free \in Seq(Nat) /\ pool.totalMalloc \in Nat
    BY Returned, FitsSays
  <2>2. pool.free \o back \in Seq(Nat)
    BY <2>1
  <2>3. pool' = [pool EXCEPT !.free = pool.free \o back]
    BY DEF Fini_End
  <2> HIDE DEF back
  <2>4. QED
    BY <2>2, <2>3, FitsSays
<1>4. QueueOK(packets')
  BY Sizes DEF Fini_End, QueueOK
<1>5. DiskOK'
  BY FitsSays DEF Fini_End, DiskOK, Closed, Names
<1>6. /\ init' \in BOOLEAN /\ logLevel' \subseteq Levels /\ fini' \in FiniStates /\ runs' \in 0..MaxRuns
      /\ now' \in 1..Len(Calendar) /\ UNCHANGED <<poster, lines>> /\ event' \in BOOLEAN
  BY DEF Fini_End, Fits, TypeOK, FiniStates
<1>7. QED
  BY <1>1, <1>2, <1>3, <1>4, <1>5, <1>6, FitsThreads

(* Every step keeps the types. *)
LEMMA FitsNext == Fits /\ [Next]_vars => Fits'
<1> SUFFICES ASSUME Fits, [Next]_vars PROVE Fits'
  OBVIOUS
<1>1. ASSUME NEW p \in Posters, LogText(p) \/ LogFormat(p) PROVE Fits'
  <2>1. 1 \in 1..MaxPieces /\ FALSE \in BOOLEAN
    BY Sizes
  <2>2. QED
    BY <1>1, <2>1, FitsBegin DEF LogText, LogFormat
<1>2. CASE \E p \in Posters : Poster(p)
  BY <1>2, FitsAlloc, FitsAllocBlock, FitsPostLog DEF Poster
<1>3. CASE \E w \in Writers : Writer(w)
  BY <1>3, FitsWriters
<1>4. CASE Init_Log \/ Fini_Log \/ Finishing
  BY <1>4, FitsInit_Log, FitsFini, FitsFini_End DEF Finishing
<1>5. CASE Tick
  <2>1. now' \in 1..Len(Calendar)
    BY <1>5 DEF Tick, Fits, TypeOK
  <2>2. UNCHANGED <<pool, packets, event, init, logLevel, thread, writer, poster, fini, disk, lines, runs>>
    BY <1>5 DEF Tick
  <2>3. QED
    BY <2>1, <2>2 DEF Fits, TypeOK, disk, Works
<1>6. CASE UNCHANGED vars
  BY <1>6 DEF vars, disk, Fits, TypeOK, Works
<1>7. QED
  BY <1>1, <1>2, <1>3, <1>4, <1>5, <1>6 DEF Next

(* The types of CLogThread, its threads and the history. *)
THEOREM LogTyping == Spec => []TypeOK
<1>1. Fits => TypeOK
  BY DEF Fits
<1>2. QED
  BY <1>1, FitsInit, FitsNext, PTL DEF Spec

-----------------------------------------------------------------------------
(* Where the packets are. *)

(* Where an object can be: in the pool, in the queue, with a thread that posts, with a writer. *)
InPool(f, o)     == \E i \in 1..Len(f) : f[i] = o
InQueue(q, o)    == \E i \in 1..Len(q) : q[i].object = o
Posting(P, p, o) == P[p].object = o
Writing(W, w, o) == W[w].packet.object = o

(* An object is in one of these places, once, and was made by Malloc. *)
Once(f, n, q, P, W) ==
  /\ \A i, j \in 1..Len(f) : i # j => f[i] # f[j]
  /\ \A i, j \in 1..Len(q) : i # j => q[i].object # q[j].object
  /\ \A o \in Nat :
       /\ \/ InPool(f, o) \/ InQueue(q, o) \/ (\E p \in Posters : Posting(P, p, o))
          \/ (\E w \in Writers : Writing(W, w, o))
          => o \in 1..n
       /\ InPool(f, o) => /\ ~InQueue(q, o)
                          /\ \A p \in Posters : ~Posting(P, p, o)
                          /\ \A w \in Writers : ~Writing(W, w, o)
       /\ InQueue(q, o) => /\ \A p \in Posters : ~Posting(P, p, o)
                           /\ \A w \in Writers : ~Writing(W, w, o)
       /\ \A p \in Posters : Posting(P, p, o) => /\ \A r \in Posters : r # p => ~Posting(P, r, o)
                                                 /\ \A w \in Writers : ~Writing(W, w, o)
       /\ \A v, w \in Writers : v # w => ~(Writing(W, v, o) /\ Writing(W, w, o))

(* The places of the objects in a state. *)
OnceInv == Once(pool.free, pool.totalMalloc, packets, poster, writer)

(* Before anything is logged there is no object. *)
LEMMA OnceInit == Init => OnceInv
<1> SUFFICES ASSUME Init PROVE OnceInv
  OBVIOUS
<1>1. pool.free = <<>> /\ Len(pool.free) = 0 /\ packets = <<>> /\ Len(packets) = 0
  BY DEF Init, NewPool
<1>2. (\A p \in Posters : poster[p].object = NoObject) /\ (\A w \in Writers : writer[w].packet.object = NoObject)
  BY DEF Init, Idle, Gone, NoPacket
<1>3. \A o \in Nat : o # NoObject
  BY Sizes
<1>4. QED
  BY <1>1, <1>2, <1>3 DEF OnceInv, Once, InPool, InQueue, Posting, Writing

(* An object that its holder drops is nowhere, the others stay where they are. *)
LEMMA OnceDrops ==
  ASSUME NEW f, NEW n, NEW q, NEW P, NEW W, Once(f, n, q, P, W), NEW P1, NEW W1,
         \A p \in Posters : P1[p].object \in {NoObject, P[p].object},
         \A w \in Writers : W1[w].packet.object \in {NoObject, W[w].packet.object}
  PROVE  Once(f, n, q, P1, W1)
<1>1. \A o \in Nat, p \in Posters : Posting(P1, p, o) => Posting(P, p, o)
  BY Sizes DEF Posting
<1>2. \A o \in Nat, w \in Writers : Writing(W1, w, o) => Writing(W, w, o)
  BY Sizes DEF Writing
<1>3. QED
  BY <1>1, <1>2 DEF Once

(* A sequence without its last element. *)
LEMMA FirstFew ==
  ASSUME NEW f \in Seq(Nat), NEW k \in Nat, k = Len(f) - 1
  PROVE  Len(SubSeq(f, 1, k)) = k /\ \A i \in 1..k : SubSeq(f, 1, k)[i] = f[i]
<1>1. k \in 0..Len(f) /\ \A i \in 1..k : f[i] \in Nat
  OBVIOUS
<1>2. Len(SubSeq(f, 1, k)) = k
  BY <1>1
<1>3. \A i \in 1..k : SubSeq(f, 1, k)[i] = f[i]
  OBVIOUS
<1>4. QED
  BY <1>2, <1>3, Zenon

(* Alloc: from the top of the stack to the thread. *)
LEMMA OncePops ==
  ASSUME NEW f \in Seq(Nat), f # <<>>, NEW n, NEW q, NEW P, NEW W, Once(f, n, q, P, W),
         NEW p \in Posters, NEW P1, P1[p].object = f[Len(f)],
         \A r \in Posters : r # p => P1[r].object = P[r].object
  PROVE  Once(SubSeq(f, 1, Len(f) - 1), n, q, P1, W)
<1> DEFINE g == SubSeq(f, 1, Len(f) - 1)
<1>0. Len(f) \in Nat /\ Len(f) >= 1
  OBVIOUS
<1>1. Len(g) = Len(f) - 1 /\ \A i \in 1..Len(g) : i \in 1..Len(f) /\ g[i] = f[i]
  <2>1. PICK k \in Nat : k = Len(f) - 1
    BY <1>0
  <2>2. SubSeq(f, 1, k) = g
    BY <2>1
  <2>3. Len(SubSeq(f, 1, k)) = k /\ \A i \in 1..k : SubSeq(f, 1, k)[i] = f[i]
    BY <2>1, FirstFew
  <2> HIDE DEF g
  <2>4. QED
    BY <1>0, <2>1, <2>2, <2>3
<1>2. Len(f) \in 1..Len(f) /\ \A i \in 1..Len(g) : i # Len(f)
  BY <1>0, <1>1
<1>3. \A o : InPool(g, o) => InPool(f, o) /\ o # f[Len(f)]
  BY <1>1, <1>2 DEF InPool, Once
<1>4. InPool(f, f[Len(f)])
  BY <1>2 DEF InPool
<1>5. \A i, j \in 1..Len(g) : i # j => g[i] # g[j]
  BY <1>1 DEF Once
<1>6. \A o \in Nat : /\ Posting(P1, p, o) => o = f[Len(f)]
                     /\ \A r \in Posters : r # p => (Posting(P1, r, o) <=> Posting(P, r, o))
  BY DEF Posting
<1>7. QED
  BY <1>3, <1>4, <1>5, <1>6 DEF Once, g

(* An object on its way back to the pool, from a thread or a writer that drops it. *)
LEMMA OncePushes ==
  ASSUME NEW f \in Seq(Nat), NEW n, NEW q, NEW P, NEW W, Once(f, n, q, P, W), NEW o \in 1..n, n \in Nat,
         ~InPool(f, o), ~InQueue(q, o), \A p \in Posters : ~Posting(P, p, o), \A w \in Writers : ~Writing(W, w, o)
  PROVE  Once(Append(f, o), n, q, P, W)
<1> DEFINE g == Append(f, o)
<1>1. /\ o \in Nat /\ Len(f) \in Nat /\ Len(g) = Len(f) + 1 /\ g[Len(f) + 1] = o
      /\ \A i \in 1..Len(g) : i = Len(f) + 1 \/ (i \in 1..Len(f) /\ g[i] = f[i])
  OBVIOUS
<1> HIDE DEF g
<1>2. \A x : InPool(g, x) => InPool(f, x) \/ x = o
  BY <1>1 DEF InPool
<1>3. \A i, j \in 1..Len(g) : i # j => g[i] # g[j]
  BY <1>1 DEF Once, InPool
<1>4. QED
  BY <1>1, <1>2, <1>3 DEF Once, g

(* A new object. *)
LEMMA OnceMakes ==
  ASSUME NEW f \in Seq(Nat), NEW n \in Nat, NEW q, NEW P, NEW W, Once(f, n, q, P, W)
  PROVE  Once(Append(f, n + 1), n + 1, q, P, W)
<1>1. Once(f, n + 1, q, P, W)
  <2>1. \A o : o \in 1..n => o \in 1..(n + 1)
    OBVIOUS
  <2>2. QED
    BY <2>1 DEF Once
<1>2. /\ n + 1 \in Nat /\ n + 1 \notin 1..n /\ n + 1 \in 1..(n + 1)
  OBVIOUS
<1>3. /\ ~InPool(f, n + 1) /\ ~InQueue(q, n + 1)
      /\ \A p \in Posters : ~Posting(P, p, n + 1)
      /\ \A w \in Writers : ~Writing(W, w, n + 1)
  BY <1>2 DEF Once
<1>4. QED
  BY <1>1, <1>2, <1>3, OncePushes

(* PostLog: an object comes into the queue. *)
LEMMA OnceQueues ==
  ASSUME NEW f, NEW n \in Nat, NEW q \in Seq(Packets), NEW P, NEW W, Once(f, n, q, P, W), NEW x \in Packets,
         LET o == x.object
         IN  /\ o \in 1..n /\ ~InPool(f, o) /\ ~InQueue(q, o)
             /\ \A p \in Posters : ~Posting(P, p, o)
             /\ \A w \in Writers : ~Writing(W, w, o)
  PROVE  Once(f, n, Append(q, x), P, W)
<1> DEFINE s == Append(q, x)
<1>1. /\ Len(q) \in Nat /\ Len(s) = Len(q) + 1 /\ s[Len(q) + 1] = x
      /\ \A i \in 1..Len(s) : i = Len(q) + 1 \/ (i \in 1..Len(q) /\ s[i] = q[i])
  OBVIOUS
<1> HIDE DEF s
<1>2. \A o : InQueue(s, o) => InQueue(q, o) \/ o = x.object
  BY <1>1 DEF InQueue
<1>3. \A i, j \in 1..Len(s) : i # j => s[i].object # s[j].object
  BY <1>1 DEF Once, InQueue
<1>4. QED
  BY <1>2, <1>3 DEF Once, s

(* The writer takes the head of the queue. *)
LEMMA OnceTakes ==
  ASSUME NEW f, NEW n, NEW q \in Seq(Packets), q # <<>>, NEW P, NEW W, Once(f, n, q, P, W),
         NEW w \in Writers, NEW W1, W1[w].packet.object = q[1].object, q[1].object \in Nat,
         \A v \in Writers : v # w => W1[v].packet.object = W[v].packet.object
  PROVE  Once(f, n, Tail(q), P, W1)
<1> DEFINE s == Tail(q)
<1>1. /\ Len(q) \in Nat /\ 1 \in 1..Len(q)
      /\ \A i \in 1..Len(s) : i + 1 \in 1..Len(q) /\ i + 1 # 1 /\ s[i] = q[i + 1]
      /\ \A i, j \in 1..Len(s) : i # j => i + 1 # j + 1
  OBVIOUS
<1> HIDE DEF s
<1>2. \A o : InQueue(s, o) => InQueue(q, o) /\ o # q[1].object
  BY <1>1 DEF InQueue, Once
<1>3. InQueue(q, q[1].object)
  BY <1>1 DEF InQueue
<1>4. \A i, j \in 1..Len(s) : i # j => s[i].object # s[j].object
  BY <1>1 DEF Once
<1>5. \A o \in Nat : /\ Writing(W1, w, o) => o = q[1].object
                     /\ \A v \in Writers : v # w => (Writing(W1, v, o) <=> Writing(W, v, o))
  BY DEF Writing
<1>6. QED
  BY <1>2, <1>3, <1>4, <1>5 DEF Once, s

(* Fini gives the whole queue back. *)
LEMMA OnceReturns ==
  ASSUME NEW f \in Seq(Nat), NEW n, NEW q \in Seq(Packets), NEW P, NEW W, Once(f, n, q, P, W),
         NEW back \in Seq(Nat), Len(back) = Len(q), \A i \in 1..Len(q) : back[i] = q[i].object
  PROVE  Once(f \o back, n, <<>>, P, W)
<1> DEFINE g == f \o back
<1>0. Len(f) \in Nat /\ Len(q) \in Nat
  OBVIOUS
<1>1. /\ Len(g) = Len(f) + Len(q)
      /\ \A i \in 1..Len(g) : \/ i \in 1..Len(f) /\ g[i] = f[i]
                              \/ i - Len(f) \in 1..Len(q) /\ i > Len(f) /\ g[i] = back[i - Len(f)]
  <2>1. Len(g) = Len(f) + Len(q)
    <3>1. Len(f \o back) = Len(f) + Len(back)
      BY ConcatProperties, Zenon
    <3>2. QED
      BY <3>1
  <2>2. ASSUME NEW i \in 1..(Len(f) + Len(q))
        PROVE  \/ i \in 1..Len(f) /\ g[i] = f[i]
               \/ i - Len(f) \in 1..Len(q) /\ i > Len(f) /\ g[i] = back[i - Len(f)]
    <3>1. CASE i <= Len(f)
      BY <1>0, <3>1
    <3>2. CASE i > Len(f)
      BY <1>0, <3>2
    <3>3. QED
      BY <1>0, <3>1, <3>2
  <2> HIDE DEF g
  <2>3. QED
    BY <2>1, <2>2
<1> HIDE DEF g
<1>2. \A i \in 1..Len(g) : \/ i \in 1..Len(f) /\ g[i] = f[i]
                           \/ i - Len(f) \in 1..Len(q) /\ i > Len(f) /\ g[i] = q[i - Len(f)].object
  BY <1>1
<1>3. \A o : InPool(g, o) => InPool(f, o) \/ InQueue(q, o)
  BY <1>2 DEF InPool, InQueue
<1>4. \A i \in 1..Len(f) : f[i] \in Nat /\ InPool(f, f[i])
  BY DEF InPool
<1>5. \A i \in 1..Len(q) : InQueue(q, q[i].object)
  BY DEF InQueue
<1>6. \A i \in 1..Len(f), j \in 1..Len(q) : f[i] # q[j].object
  BY <1>4, <1>5 DEF Once
<1>7. ASSUME NEW i \in 1..Len(g), NEW j \in 1..Len(g), i # j PROVE g[i] # g[j]
  <2>1. CASE i \in 1..Len(f) /\ g[i] = f[i] /\ j \in 1..Len(f) /\ g[j] = f[j]
    BY <1>7, <2>1 DEF Once
  <2>2. CASE i \in 1..Len(f) /\ g[i] = f[i] /\ j - Len(f) \in 1..Len(q) /\ g[j] = q[j - Len(f)].object
    BY <1>6, <2>2
  <2>3. CASE j \in 1..Len(f) /\ g[j] = f[j] /\ i - Len(f) \in 1..Len(q) /\ g[i] = q[i - Len(f)].object
    <3>1. f[j] # q[i - Len(f)].object
      BY <1>6, <2>3
    <3>2. QED
      BY <2>3, <3>1
  <2>4. CASE /\ i - Len(f) \in 1..Len(q) /\ g[i] = q[i - Len(f)].object
             /\ j - Len(f) \in 1..Len(q) /\ g[j] = q[j - Len(f)].object
    <3>1. i - Len(f) # j - Len(f)
      BY <1>0, <1>1, <1>7
    <3>2. QED
      BY <2>4, <3>1 DEF Once
  <2>5. QED
    BY <1>2, <2>1, <2>2, <2>3, <2>4
<1>8. \A o : ~InQueue(<<>>, o)
  BY DEF InQueue
<1>9. \A i, j \in 1..Len(<<>>) : i # j => <<>>[i].object # <<>>[j].object
  OBVIOUS
<1>10. QED
  BY <1>3, <1>7, <1>8, <1>9 DEF Once, g

(* Who dropped the object was the one who had it. *)
LEMMA NowhereElse ==
  ASSUME NEW f, NEW n, NEW q, NEW P, NEW W, Once(f, n, q, P, W), NEW o \in Nat
  PROVE  /\ \A p \in Posters : Posting(P, p, o) =>
              /\ o \in 1..n /\ ~InPool(f, o) /\ ~InQueue(q, o)
              /\ \A r \in Posters : r # p => ~Posting(P, r, o)
              /\ \A w \in Writers : ~Writing(W, w, o)
         /\ \A w \in Writers : Writing(W, w, o) =>
              /\ o \in 1..n /\ ~InPool(f, o) /\ ~InQueue(q, o)
              /\ \A v \in Writers : v # w => ~Writing(W, v, o)
              /\ \A p \in Posters : ~Posting(P, p, o)
  BY DEF Once

(* The pool and the queue hold objects. *)
LEMMA PoolSays ==
  ASSUME Fits
  PROVE  /\ pool.free \in Seq(Nat) /\ pool.totalMalloc \in Nat /\ packets \in Seq(Packets)
         /\ \A i \in 1..Len(packets) : packets[i].object \in Nat
         /\ \A s \in Seq(Nat) : /\ [pool EXCEPT !.free = s].free = s
                                /\ [pool EXCEPT !.free = s].totalMalloc = pool.totalMalloc
<1>1. pool \in [free : Seq(Nat), totalMalloc : Nat] /\ QueueOK(packets)
  BY FitsSays
<1>2. \A i \in 1..Len(packets) : packets[i] \in Packets /\ packets[i].object # NoObject
  BY <1>1 DEF QueueOK
<1>3. QED
  BY <1>1, <1>2 DEF QueueOK, Packets

(* AllocObject moves an object from the pool to the posting thread. *)
LEMMA OnceAlloc == ASSUME Fits, OnceInv, NEW p \in Posters, Alloc(p) PROVE OnceInv'
<1> DEFINE f == pool.free
<1>1. /\ poster \in [Posters -> PosterRecord] /\ f \in Seq(Nat) /\ pool \in [free : Seq(Nat), totalMalloc : Nat]
  BY PoolSays, FitsSays DEF Fits, TypeOK, PosterRecord
<1>2. /\ pool' = Pop(pool) /\ UNCHANGED <<packets, writer>>
      /\ poster'[p].object = Top(pool)
      /\ \A r \in Posters : r # p => poster'[r].object = poster[r].object
  BY <1>1 DEF Alloc, PosterRecord
<1>3. pool'.totalMalloc = pool.totalMalloc
  BY <1>1, <1>2 DEF Pop
<1>4. CASE f = <<>>
  <2>1. pool'.free = f /\ Top(pool) = NoObject
    BY <1>1, <1>2, <1>4 DEF Pop, Top
  <2>2. QED
    BY <1>2, <1>3, <2>1, OnceDrops DEF OnceInv
<1>5. CASE f # <<>>
  <2>1. pool'.free = SubSeq(f, 1, Len(f) - 1) /\ Top(pool) = f[Len(f)]
    BY <1>1, <1>2, <1>5 DEF Pop, Top
  <2> HIDE DEF f
  <2>2. Once(f, pool.totalMalloc, packets, poster, writer)
    BY DEF OnceInv, f
  <2>3. Once(SubSeq(f, 1, Len(f) - 1), pool.totalMalloc, packets, poster', writer)
    BY <1>1, <1>2, <1>5, <2>1, <2>2, OncePops
  <2>4. QED
    BY <1>2, <1>3, <2>1, <2>3 DEF OnceInv
<1>6. QED
  BY <1>4, <1>5

(* AllocBlock adds an object nobody has. *)
LEMMA OnceAllocBlock == ASSUME Fits, OnceInv, NEW p \in Posters, AllocBlock(p) PROVE OnceInv'
<1>1. poster \in [Posters -> PosterRecord]
  BY DEF Fits, TypeOK, PosterRecord
<1>2. /\ pool' = Malloc(pool) /\ UNCHANGED <<packets, writer>>
      /\ \A r \in Posters : poster'[r].object = poster[r].object
  BY <1>1 DEF AllocBlock, PosterRecord
<1>3. pool'.free = Append(pool.free, pool.totalMalloc + 1) /\ pool'.totalMalloc = pool.totalMalloc + 1
  BY <1>2 DEF Malloc
<1>4. Once(pool'.free, pool'.totalMalloc, packets, poster, writer)
  BY <1>3, PoolSays, OnceMakes DEF OnceInv
<1>5. Once(pool'.free, pool'.totalMalloc, packets, poster', writer)
  BY <1>2, <1>4, OnceDrops
<1>6. QED
  BY <1>2, <1>5 DEF OnceInv

(* PostLog moves the object into the queue, or back into the pool. *)
LEMMA OncePostLog == ASSUME Fits, OnceInv, NEW p \in Posters, PostLog(p) PROVE OnceInv'
<1> DEFINE f == pool.free
           n == pool.totalMalloc
           o == poster[p].object
<1>1. /\ poster \in [Posters -> PosterRecord] /\ Posts(poster[p], lines) /\ poster[p].at = "post"
      /\ f \in Seq(Nat) /\ n \in Nat /\ packets \in Seq(Packets)
  BY PoolSays DEF Fits, TypeOK, PosterRecord, PostLog
<1>2. o \in Nat /\ poster[p].line \in 0..MaxLines
  BY <1>1 DEF Posts, PosterRecord
<1>3. /\ UNCHANGED writer
      /\ poster'[p].object = NoObject
      /\ \A r \in Posters : r # p => poster'[r].object = poster[r].object
  <2>1. Idle.object = NoObject /\ \A l, k : [Idle EXCEPT !.at = "alloc", !.line = l, !.left = k].object = NoObject
    BY DEF Idle
  <2>2. QED
    BY <1>1, <2>1 DEF PostLog, NextPiece
<1>4. Once(f, n, packets, poster', writer)
  BY <1>3, OnceDrops DEF OnceInv
<1>5. Posting(poster, p, o) /\ \A r \in Posters : r # p => (Posting(poster', r, o) <=> Posting(poster, r, o))
  BY <1>3 DEF Posting
<1>6. ~Posting(poster', p, o)
  BY <1>2, <1>3, Sizes DEF Posting
<1>7. /\ o \in 1..n /\ ~InPool(f, o) /\ ~InQueue(packets, o)
      /\ \A r \in Posters : ~Posting(poster', r, o)
      /\ \A w \in Writers : ~Writing(writer, w, o)
  BY <1>2, <1>5, <1>6, NowhereElse DEF OnceInv
<1> HIDE DEF f, n, o
<1>8. CASE UNCHANGED <<pool, packets>>
  BY <1>3, <1>4, <1>8 DEF OnceInv, f, n
<1>9. CASE pool' = Push(pool, o) /\ UNCHANGED packets
  <2>1. Once(Append(f, o), n, packets, poster', writer)
    BY <1>1, <1>4, <1>7, OncePushes
  <2>2. Append(f, o) \in Seq(Nat)
    BY <1>1, <1>2
  <2>3. pool'.free = Append(f, o) /\ pool'.totalMalloc = n
    BY <1>9, <2>2, PoolSays DEF Push, f, n
  <2>4. QED
    BY <1>3, <1>9, <2>1, <2>3 DEF OnceInv
<1>10. CASE Enqueue(o, poster[p].line) /\ UNCHANGED pool
  <2> DEFINE x == [object |-> o, line |-> poster[p].line, at |-> now]
  <2>1. x \in Packets /\ x.object = o
    BY <1>2 DEF Packets, Fits, TypeOK
  <2>2. packets' = Append(packets, x)
    BY <1>10 DEF Enqueue
  <2> HIDE DEF x
  <2>3. Once(f, n, Append(packets, x), poster', writer)
    BY <1>1, <1>4, <1>7, <2>1, OnceQueues
  <2>4. QED
    BY <1>3, <1>10, <2>2, <2>3 DEF OnceInv, f, n
<1>11. QED
  BY <1>8, <1>9, <1>10 DEF PostLog, o

(* The writer takes the first object of the queue. *)
LEMMA OnceTakePacket ==
  ASSUME Fits, OnceInv, NEW w \in Writers, TakePacket(w), UNCHANGED <<pool, poster>>
  PROVE  OnceInv'
<1>1. writer \in [Writers -> WriterRecord]
  BY DEF Fits, TypeOK, WriterRecord
<1>2. CASE packets = <<>>
  <2>1. writer' = [writer EXCEPT ![w] = [at |-> "loop", packet |-> NoPacket]] /\ packets' = packets
    BY <1>2 DEF TakePacket, At
  <2>2. \A v \in Writers : writer'[v].packet.object \in {NoObject, writer[v].packet.object}
    BY <1>1, <2>1, NoPacketIs
  <2>3. QED
    BY <2>1, <2>2, OnceDrops DEF OnceInv
<1>3. CASE packets # <<>>
  <2>1. writer' = [writer EXCEPT ![w] = [at |-> "write", packet |-> Head(packets)]] /\ packets' = Tail(packets)
    BY <1>3 DEF TakePacket
  <2>2. packets \in Seq(Packets) /\ Head(packets) = packets[1] /\ 1 \in 1..Len(packets) /\ packets[1].object \in Nat
    BY <1>3, PoolSays
  <2>3. /\ writer'[w].packet.object = packets[1].object
        /\ \A v \in Writers : v # w => writer'[v].packet.object = writer[v].packet.object
    BY <1>1, <2>1, <2>2
  <2>4. Once(pool.free, pool.totalMalloc, Tail(packets), poster, writer')
    BY <1>3, <2>2, <2>3, OnceTakes DEF OnceInv
  <2>5. QED
    BY <2>1, <2>4 DEF OnceInv
<1>4. QED
  BY <1>2, <1>3

(* The writer gives its object back. *)
LEMMA OnceDelete == ASSUME Fits, OnceInv, NEW w \in Writers, Delete(w) PROVE OnceInv'
<1> DEFINE f == pool.free
           n == pool.totalMalloc
           o == writer[w].packet.object
<1>1. /\ writer \in [Writers -> WriterRecord] /\ Works(writer[w]) /\ writer[w].at = "delete"
      /\ f \in Seq(Nat) /\ n \in Nat
  BY PoolSays DEF Fits, TypeOK, WriterRecord, Delete
<1>2. o \in Nat
  BY <1>1 DEF Works, WriterRecord, Packets
<1>3. /\ pool' = Push(pool, o) /\ UNCHANGED <<packets, poster>>
      /\ writer' = [writer EXCEPT ![w] = [at |-> "loop", packet |-> NoPacket]]
  BY DEF Delete, At
<1>4. /\ writer'[w].packet.object = NoObject
      /\ \A v \in Writers : v # w => writer'[v].packet.object = writer[v].packet.object
  BY <1>1, <1>3, NoPacketIs
<1>5. Once(f, n, packets, poster, writer')
  BY <1>4, OnceDrops DEF OnceInv
<1>6. Writing(writer, w, o) /\ \A v \in Writers : v # w => (Writing(writer', v, o) <=> Writing(writer, v, o))
  BY <1>4 DEF Writing
<1>7. ~Writing(writer', w, o)
  BY <1>2, <1>4, Sizes DEF Writing
<1>8. /\ o \in 1..n /\ ~InPool(f, o) /\ ~InQueue(packets, o)
      /\ \A p \in Posters : ~Posting(poster, p, o)
      /\ \A v \in Writers : ~Writing(writer', v, o)
  BY <1>2, <1>6, <1>7, NowhereElse DEF OnceInv
<1>9. Append(f, o) \in Seq(Nat)
  BY <1>1, <1>2
<1> HIDE DEF f, n, o
<1>10. Once(Append(f, o), n, packets, poster, writer')
  BY <1>1, <1>5, <1>8, OncePushes
<1>11. pool'.free = Append(f, o) /\ pool'.totalMalloc = n
  BY <1>3, <1>9, PoolSays DEF Push, f, n
<1>12. QED
  BY <1>3, <1>10, <1>11 DEF OnceInv

(* Fini gives the objects of the queue back; those of a killed writer are lost. *)
LEMMA OnceFini_End == ASSUME Fits, OnceInv, Fini_End PROVE OnceInv'
<1> DEFINE back == [i \in 1..Len(packets) |-> packets[i].object]
           f == pool.free
           n == pool.totalMalloc
<1>1. \A w \in Writers : writer'[w].packet.object \in {NoObject, writer[w].packet.object}
  BY NoPacketIs DEF Fini_End, Killed, Gone
<1>2. Once(f, n, packets, poster, writer')
  BY <1>1, OnceDrops DEF OnceInv
<1>3. back \in Seq(Nat) /\ Len(back) = Len(packets) /\ \A i \in 1..Len(packets) : back[i] = packets[i].object
  BY Returned, FitsSays
<1>4. pool' = [pool EXCEPT !.free = f \o back] /\ packets' = <<>> /\ UNCHANGED poster
  BY DEF Fini_End
<1> HIDE DEF back, f, n
<1>5. f \in Seq(Nat) /\ packets \in Seq(Packets) /\ f \o back \in Seq(Nat)
  BY <1>3, PoolSays DEF f
<1>6. Once(f \o back, n, <<>>, poster, writer')
  BY <1>2, <1>3, <1>5, OnceReturns
<1>7. pool'.free = f \o back /\ pool'.totalMalloc = n
  BY <1>4, <1>5, PoolSays DEF n
<1>8. QED
  BY <1>4, <1>6, <1>7 DEF OnceInv

(* Every step keeps each object in one place. *)
LEMMA OnceNext == Fits /\ OnceInv /\ [Next]_vars => OnceInv'
<1> SUFFICES ASSUME Fits, OnceInv, [Next]_vars PROVE OnceInv'
  OBVIOUS
<1>1. ASSUME NEW P1, NEW W1, poster' = P1, writer' = W1, UNCHANGED <<pool, packets>>,
             \A p \in Posters : P1[p].object \in {NoObject, poster[p].object},
             \A w \in Writers : W1[w].packet.object \in {NoObject, writer[w].packet.object}
      PROVE  OnceInv'
  BY <1>1, OnceDrops DEF OnceInv
<1>2. poster \in [Posters -> PosterRecord] /\ writer \in [Writers -> WriterRecord]
  BY DEF Fits, TypeOK, PosterRecord, WriterRecord
<1>3. ASSUME NEW p \in Posters, LogText(p) \/ LogFormat(p) PROVE OnceInv'
  <2>1. PICK l, n, blank : poster' = [poster EXCEPT ![p] = [Idle EXCEPT !.at = "alloc", !.line = l, !.left = n, !.blank = blank]]
    BY <1>3 DEF LogText, LogFormat, Begin
  <2>2. UNCHANGED <<pool, packets, writer>>
    BY <1>3, Zenon DEF LogText, LogFormat, Begin
  <2>3. [Idle EXCEPT !.at = "alloc", !.line = l, !.left = n, !.blank = blank].object = NoObject
    BY DEF Idle
  <2>4. \A q \in Posters : poster'[q].object \in {NoObject, poster[q].object}
    BY <1>2, <2>1, <2>3
  <2>5. QED
    BY <1>1, <2>2, <2>4
<1>4. CASE \E p \in Posters : Poster(p)
  BY <1>4, OnceAlloc, OnceAllocBlock, OncePostLog DEF Poster
<1>5. ASSUME NEW w \in Writers, NEW at, At(w, at), UNCHANGED <<pool, packets, poster>> PROVE OnceInv'
  <2>1. \A v \in Writers : writer'[v].packet.object \in {NoObject, writer[v].packet.object}
    BY <1>2, <1>5, NoPacketIs DEF At
  <2>2. QED
    BY <1>1, <1>5, <2>1
<1>6. ASSUME NEW w \in Writers, Writer(w) PROVE OnceInv'
  <2>1. CASE Run(w) \/ Wakes(w)
    BY <1>5, <2>1 DEF Run, Wakes
  <2>2. CASE Enter(w)
    BY <1>5, <2>2, OnceTakePacket DEF Enter
  <2>3. CASE Relock(w)
    BY <2>3, OnceTakePacket DEF Relock
  <2>4. CASE Write(w)
    <3>1. writer' = [writer EXCEPT ![w] = [writer[w] EXCEPT !.at = "delete"]] /\ UNCHANGED <<pool, packets, poster>>
      BY <2>4 DEF Write
    <3>2. \A v \in Writers : writer'[v].packet.object = writer[v].packet.object
      BY <1>2, <3>1 DEF WriterRecord
    <3>3. QED
      BY <1>1, <3>1, <3>2
  <2>5. CASE Delete(w)
    BY <2>5, OnceDelete
  <2>6. CASE Ends(w)
    <3>1. At(w, "gone") /\ UNCHANGED <<pool, packets, poster>>
      BY <2>6 DEF Ends, At, Gone
    <3>2. QED
      BY <1>5, <3>1
  <2>7. QED
    BY <1>6, <2>1, <2>2, <2>3, <2>4, <2>5, <2>6 DEF Writer
<1>7. CASE Init_Log
  <2>1. UNCHANGED <<pool, packets, poster>> /\ (writer' = writer \/ At(runs', "loop"))
    BY <1>7 DEF Init_Log
  <2>2. \A v \in Writers : writer'[v].packet.object \in {NoObject, writer[v].packet.object}
    BY <1>2, <2>1, NoPacketIs DEF At
  <2>3. QED
    BY <1>1, <2>1, <2>2
<1>8. CASE Fini_Log \/ Fini_Waited \/ Tick \/ UNCHANGED vars
  BY <1>8, <1>1 DEF Fini_Log, Fini_Waited, Tick, vars
<1>9. CASE Fini_End
  BY <1>9, OnceFini_End
<1>10. QED
  BY <1>3, <1>4, <1>6, <1>7, <1>8, <1>9 DEF Next, Finishing

(* The places of PacketsHeldOnce are these places. *)
LEMMA OncePlaces == ASSUME Fits, OnceInv PROVE PacketsHeldOnce
<1> SUFFICES ASSUME NEW g \in Holders, NEW h \in Holders, g # h PROVE HeldBy(g) # HeldBy(h)
  BY DEF PacketsHeldOnce
<1> DEFINE f == pool.free
<1>1. ASSUME NEW x \in Holders
      PROVE  \/ \E i \in 1..Len(f) : x = <<"pool", i>> /\ HeldBy(x) = f[i]
             \/ \E i \in 1..Len(packets) : x = <<"queue", i>> /\ HeldBy(x) = packets[i].object
             \/ \E p \in Posters : x = <<"poster", p>> /\ HeldBy(x) = poster[p].object /\ poster[p].object # NoObject
             \/ \E w \in Writers : x = <<"writer", w>> /\ HeldBy(x) = writer[w].packet.object
                                   /\ writer[w].packet.object # NoObject
  BY DEF Holders, HeldBy
<1>2. /\ \A i \in 1..Len(f) : f[i] \in Nat /\ InPool(f, f[i])
      /\ \A i \in 1..Len(packets) : packets[i].object \in Nat /\ InQueue(packets, packets[i].object)
  BY PoolSays DEF InPool, InQueue
<1>3. /\ \A p \in Posters : poster[p].object # NoObject => poster[p].object \in Nat
      /\ \A w \in Writers : writer[w].packet.object # NoObject => writer[w].packet.object \in Nat
  BY DEF Fits, TypeOK, Packets
<1>4. /\ \A p \in Posters : Posting(poster, p, poster[p].object)
      /\ \A w \in Writers : Writing(writer, w, writer[w].packet.object)
  BY DEF Posting, Writing
<1>5. Once(f, pool.totalMalloc, packets, poster, writer)
  BY DEF OnceInv
<1> HIDE DEF f
<1>6. CASE \E i \in 1..Len(f) : g = <<"pool", i>> /\ HeldBy(g) = f[i]
  BY <1>1, <1>2, <1>3, <1>4, <1>5, <1>6 DEF Once
<1>7. CASE \E i \in 1..Len(packets) : g = <<"queue", i>> /\ HeldBy(g) = packets[i].object
  BY <1>1, <1>2, <1>3, <1>4, <1>5, <1>7 DEF Once
<1>8. CASE \E p \in Posters : g = <<"poster", p>> /\ HeldBy(g) = poster[p].object /\ poster[p].object # NoObject
  BY <1>1, <1>2, <1>3, <1>4, <1>5, <1>8 DEF Once
<1>9. CASE \E w \in Writers : g = <<"writer", w>> /\ HeldBy(g) = writer[w].packet.object
                              /\ writer[w].packet.object # NoObject
  BY <1>1, <1>2, <1>3, <1>4, <1>5, <1>9 DEF Once
<1>10. QED
  BY <1>1, <1>6, <1>7, <1>8, <1>9

(* Each CLogPacket is with one holder at most: in the pool's free list, in the queue, with a *)
(* thread between NewPacket and PostLog, or with the writer between taking and deleting it,  *)
(* through starts and ends of the log too: nobody writes or frees a packet of somebody else. *)
THEOREM PacketsHeldOnceTheorem == Spec => []PacketsHeldOnce
<1>1. Init => Fits /\ OnceInv
  BY FitsInit, OnceInit
<1>2. Fits /\ OnceInv /\ [Next]_vars => (Fits /\ OnceInv)'
  BY FitsNext, OnceNext
<1>3. Fits /\ OnceInv => PacketsHeldOnce
  BY OncePlaces
<1>4. QED
  BY <1>1, <1>2, <1>3, PTL DEF Spec

-----------------------------------------------------------------------------
(* The file of the day. *)

(* The file of a line, in the file so far. *)
Named(f, i, name) == \E j \in 1..i : name = Calendar[f[j].at]

(* An open file is the one of a line written before, and of the day m_nDate says. *)
FileInv ==
  /\ fp # Closed => date = fp.mday /\ Named(file, Len(file), fp)
  /\ SameDayFile

(* No file is open at first, and no line written. *)
LEMMA FileInit == Init => FileInv
  BY DEF Init, FileInv, SameDayFile

(* A line written to a file of its day of a month that is its own or an earlier line's. *)
LEMMA FileGrows ==
  ASSUME FileInv, file \in Seq([line : Nat, at : 1..Len(Calendar), name : Names]),
         NEW line, NEW at \in 1..Len(Calendar), NEW name,
         file' = Append(file, [line |-> line, at |-> at, name |-> name]),
         name.mday = Calendar[at].mday,
         name = Calendar[at] \/ Named(file, Len(file), name)
  PROVE  SameDayFile' /\ Named(file', Len(file'), name)
<1>1. /\ Len(file') = Len(file) + 1 /\ Len(file) \in Nat
      /\ \A i \in 1..Len(file) : file'[i] = file[i]
      /\ file'[Len(file) + 1] = [line |-> line, at |-> at, name |-> name]
  OBVIOUS
<1>2. Named(file', Len(file'), name)
  BY <1>1 DEF Named
<1>3. SameDayFile'
  <2> SUFFICES ASSUME NEW i \in 1..Len(file')
               PROVE  \E j \in 1..i : /\ file'[i].name = Calendar[file'[j].at]
                                       /\ file'[i].name.mday = Calendar[file'[i].at].mday
    BY Zenon DEF SameDayFile
  <2>1. CASE i = Len(file) + 1
    <3>1. file'[i].name = name /\ file'[i].at = at
      BY <1>1, <2>1
    <3>2. PICK j \in 1..i : name = Calendar[file'[j].at]
      BY <1>1, <1>2, <2>1 DEF Named
    <3>3. QED
      BY <3>1, <3>2
  <2>2. CASE i # Len(file) + 1
    <3>1. i \in 1..Len(file) /\ file'[i] = file[i] /\ \A j \in 1..i : file'[j] = file[j]
      BY <1>1, <2>2
    <3>2. PICK j \in 1..i : /\ file[i].name = Calendar[file[j].at]
                            /\ file[i].name.mday = Calendar[file[i].at].mday
      BY <3>1 DEF FileInv, SameDayFile
    <3>3. QED
      BY <3>1, <3>2
  <2>3. QED
    BY <2>1, <2>2
<1>4. QED
  BY <1>2, <1>3

(* A line is written to an open file only if the day of the month is the same. *)
LEMMA FileWrite == ASSUME Fits, FileInv, NEW w \in Writers, Write(w) PROVE FileInv'
<1> DEFINE packet == writer[w].packet
           t == Calendar[packet.at]
<1>1. writer[w] \in WriterRecord /\ DiskOK
  BY FitsSays
<1>2. packet.at \in 1..Len(Calendar)
  BY <1>1 DEF WriterRecord, Packets
<1>3. Log_Text_2File(packet)
  BY DEF Write
<1>4. file \in Seq([line : Nat, at : 1..Len(Calendar), name : Names])
  BY <1>1 DEF DiskOK
<1> HIDE DEF packet
<1>5. ASSUME UNCHANGED file, fp' = Closed \/ UNCHANGED <<fp, date>> PROVE FileInv'
  BY <1>5 DEF FileInv, SameDayFile, Named
<1>6. ASSUME ~Reopens(t), UNCHANGED <<fp, date>>, Writes(packet) PROVE FileInv'
  <2>1. fp # Closed /\ date = t.mday
    BY <1>6 DEF Reopens
  <2>2. fp.mday = t.mday /\ Named(file, Len(file), fp)
    BY <2>1 DEF FileInv
  <2>3. file' = Append(file, [line |-> packet.line, at |-> packet.at, name |-> fp])
    BY <1>6 DEF Writes
  <2>4. SameDayFile' /\ Named(file', Len(file'), fp)
    BY <1>2, <1>4, <2>2, <2>3, FileGrows
  <2>5. QED
    BY <1>6, <2>1, <2>2, <2>4 DEF FileInv
<1>7. ASSUME fp' = t, date' = t.mday, Writes(packet) PROVE FileInv'
  <2>1. file' = Append(file, [line |-> packet.line, at |-> packet.at, name |-> t])
    BY <1>7 DEF Writes
  <2>2. SameDayFile' /\ Named(file', Len(file'), t)
    BY <1>2, <1>4, <2>1, FileGrows
  <2>3. QED
    BY <1>7, <2>2 DEF FileInv
<1>8. QED
  BY <1>3, <1>5, <1>6, <1>7, Zenon DEF Log_Text_2File

(* Only Write and Fini touch the file. *)
LEMMA FileNext == Fits /\ FileInv /\ [Next]_vars => FileInv'
<1> SUFFICES ASSUME Fits, FileInv, [Next]_vars PROVE FileInv'
  OBVIOUS
<1>1. ASSUME UNCHANGED <<fp, date, file>> PROVE FileInv'
  BY <1>1 DEF FileInv, SameDayFile, Named
<1>2. CASE \E p \in Posters : LogText(p) \/ LogFormat(p) \/ Poster(p)
  BY <1>1, <1>2, Zenon DEF LogText, LogFormat, Begin, Poster, Alloc, AllocBlock, PostLog, disk
<1>3. ASSUME NEW w \in Writers, Writer(w) PROVE FileInv'
  <2>1. CASE Write(w)
    BY <2>1, FileWrite
  <2>2. CASE Run(w) \/ Enter(w) \/ Wakes(w) \/ Relock(w) \/ Delete(w) \/ Ends(w)
    BY <1>1, <2>2, Zenon DEF Run, Enter, Wakes, Relock, Delete, Ends, disk
  <2>3. QED
    BY <1>3, <2>1, <2>2 DEF Writer
<1>4. CASE Init_Log \/ Fini_Log \/ Fini_Waited \/ Tick \/ UNCHANGED vars
  BY <1>1, <1>4, Zenon DEF Init_Log, Fini_Log, Fini_Waited, Tick, vars, disk
<1>5. CASE Fini_End
  BY <1>5 DEF Fini_End, FileInv, SameDayFile
<1>6. QED
  BY <1>2, <1>3, <1>4, <1>5 DEF Next, Finishing

(* Whatever the days on which lines are posted and written, a line is written into the file  *)
(* named after its own day, or after that of an earlier line of the same day of the month;   *)
(* although the writer keeps the file open, compares days and months separately and may fail *)
(* to make a directory or to open a file at any time.                                        *)
THEOREM SameDayFileTheorem == Spec => []SameDayFile
<1>1. Init => Fits /\ FileInv
  BY FitsInit, FileInit
<1>2. Fits /\ FileInv /\ [Next]_vars => (Fits /\ FileInv)'
  BY FitsNext, FileNext
<1>3. Fits /\ FileInv => SameDayFile
  BY DEF FileInv
<1>4. QED
  BY <1>1, <1>2, <1>3, PTL DEF Spec

(* The lines of a file were posted at moments of the calendar. *)
LEMMA LineMoments ==
  ASSUME NEW f \in Seq([line : Nat, at : 1..Len(Calendar), name : Names])
  PROVE  \A k \in 1..Len(f) : f[k].at \in 1..Len(Calendar)
<1> TAKE k \in 1..Len(f)
<1>1. \A S : f \in Seq(S) => f[k] \in S
  OBVIOUS
<1>2. f[k] \in [line : Nat, at : 1..Len(Calendar), name : Names]
  BY <1>1
<1>3. QED
  BY <1>2

(* So the only way into a wrong file is the same day of another month: a calendar without    *)
(* one, as that of the run, has every line in the file of its day.                           *)
COROLLARY RightFileTheorem == WithinAMonth => (Spec => []RightFile)
<1> SUFFICES ASSUME WithinAMonth PROVE Spec => []RightFile
  OBVIOUS
<1>1. Fits /\ SameDayFile => RightFile
  <2> SUFFICES ASSUME Fits, SameDayFile, NEW i \in 1..Len(file) PROVE file[i].name = Calendar[file[i].at]
    BY DEF RightFile
  <2>1. \A k \in 1..Len(file) : file[k].at \in 1..Len(Calendar)
    BY FitsSays, LineMoments DEF DiskOK
  <2>2. PICK j \in 1..i : /\ file[i].name = Calendar[file[j].at]
                          /\ file[i].name.mday = Calendar[file[i].at].mday
    BY DEF SameDayFile
  <2>3. file[i].at \in 1..Len(Calendar) /\ file[j].at \in 1..Len(Calendar)
    BY <2>1, <2>2, FitsSays DEF DiskOK
  <2>4. Calendar[file[j].at].mday = Calendar[file[i].at].mday
    BY <2>2
  <2>5. Calendar[file[j].at] = Calendar[file[i].at]
    BY <2>3, <2>4, Zenon DEF WithinAMonth
  <2>6. QED
    BY <2>2, <2>5
<1>2. Init => Fits
  BY FitsInit
<1>3. Fits /\ [Next]_vars => Fits'
  BY FitsNext
<1>4. QED
  BY <1>1, <1>2, <1>3, SameDayFileTheorem, PTL DEF Spec

-----------------------------------------------------------------------------
(* The lines on their way. *)

Writings(W)  == {w \in Writers : W[w].at = "write"}
(* The line of the packet a writer is about to write. *)
HandLines(W) == IF Writings(W) = {} THEN <<>> ELSE <<W[CHOOSE w \in Writings(W) : TRUE].packet.line>>

(* No writer writes. *)
LEMMA NoHand == ASSUME NEW W, \A w \in Writers : W[w].at # "write" PROVE HandLines(W) = <<>>
  BY DEF HandLines, Writings

(* One writer writes. *)
LEMMA OneHand ==
  ASSUME NEW W, NEW w \in Writers, W[w].at = "write", \A v \in Writers : v # w => W[v].at # "write"
  PROVE  HandLines(W) = <<W[w].packet.line>>
<1>1. Writings(W) = {w}
  BY DEF Writings
<1>2. (CHOOSE v \in {w} : TRUE) = w
  OBVIOUS
<1>3. {w} # {}
  OBVIOUS
<1>4. QED
  BY <1>1, <1>2, <1>3, Zenon DEF HandLines

(* The same writers write the same packets. *)
LEMMA SameHand ==
  ASSUME NEW W, NEW W1, \A w \in Writers : W1[w].at = "write" <=> W[w].at = "write",
         \A w \in Writers : W[w].at = "write" => W1[w].packet = W[w].packet
  PROVE  HandLines(W1) = HandLines(W)
<1>1. Writings(W1) = Writings(W)
  BY DEF Writings
<1>2. CASE Writings(W) = {}
  BY <1>1, <1>2 DEF HandLines
<1>3. CASE Writings(W) # {}
  <2>1. PICK v : v = CHOOSE w \in Writings(W) : TRUE
    OBVIOUS
  <2>2. v \in Writings(W)
    BY <1>3, <2>1
  <2>3. W1[v].packet = W[v].packet
    BY <2>2 DEF Writings
  <2>4. QED
    BY <1>1, <1>3, <2>1, <2>3 DEF HandLines
<1>4. QED
  BY <1>2, <1>3

(* Lines of a queue. *)
LEMMA LinesIs ==
  ASSUME NEW S, \A x \in S : x.line \in Nat, NEW q \in Seq(S)
  PROVE  /\ Lines(q) \in Seq(Nat) /\ Len(Lines(q)) = Len(q)
         /\ \A i \in 1..Len(q) : Lines(q)[i] = q[i].line
<1>1. \A i \in 1..Len(q) : q[i].line \in Nat
  OBVIOUS
<1>2. Len(q) \in Nat
  OBVIOUS
<1>3. Lines(q) \in Seq(Nat) /\ Len(Lines(q)) = Len(q)
  BY <1>1, <1>2 DEF Lines
<1>4. \A i \in 1..Len(q) : Lines(q)[i] = q[i].line
  BY DEF Lines
<1>5. QED
  BY <1>3, <1>4

(* A packet is queued. *)
LEMMA LinesAppend ==
  ASSUME NEW S, \A x \in S : x.line \in Nat, NEW q \in Seq(S), NEW x \in S
  PROVE  Lines(Append(q, x)) = Append(Lines(q), x.line)
<1> DEFINE s == Append(q, x)
           a == Lines(s)
           b == Append(Lines(q), x.line)
<1>1. s \in Seq(S) /\ Len(s) = Len(q) + 1 /\ x.line \in Nat /\ Len(q) \in Nat
      /\ s[Len(q) + 1] = x /\ \A i \in 1..Len(q) : s[i] = q[i]
  OBVIOUS
<1> HIDE DEF s
<1>2. a \in Seq(Nat) /\ Len(a) = Len(q) + 1 /\ \A i \in 1..(Len(q) + 1) : a[i] = s[i].line
  BY <1>1, LinesIs
<1>3. Lines(q) \in Seq(Nat) /\ Len(Lines(q)) = Len(q) /\ \A i \in 1..Len(q) : Lines(q)[i] = q[i].line
  BY LinesIs
<1> HIDE DEF a
<1>4. b \in Seq(Nat) /\ Len(b) = Len(q) + 1 /\ b[Len(q) + 1] = x.line /\ \A i \in 1..Len(q) : b[i] = Lines(q)[i]
  BY <1>1, <1>3
<1> HIDE DEF b
<1>5. ASSUME NEW i \in 1..Len(a) PROVE a[i] = b[i]
  <2>1. CASE i = Len(q) + 1
    BY <1>1, <1>2, <1>4, <2>1
  <2>2. CASE i # Len(q) + 1
    <3>1. i \in 1..Len(q) /\ i \in 1..(Len(q) + 1)
      BY <1>1, <1>2, <2>2
    <3>2. QED
      BY <1>1, <1>2, <1>3, <1>4, <3>1
  <2>3. QED
    BY <2>1, <2>2
<1>6. a = b
  <2>1. Len(a) = Len(b)
    BY <1>2, <1>4
  <2>2. QED
    BY <1>2, <1>4, <1>5, <2>1, SeqEqual
<1>7. QED
  BY <1>6 DEF a, b, s

(* The first packet is taken. *)
LEMMA LinesTail ==
  ASSUME NEW S, \A x \in S : x.line \in Nat, NEW q \in Seq(S), q # <<>>
  PROVE  Lines(q) = <<Head(q).line>> \o Lines(Tail(q))
<1> DEFINE s == Tail(q)
           a == Lines(q)
           h == Head(q).line
           b == <<h>> \o Lines(s)
<1>1. s \in Seq(S) /\ Len(q) \in Nat /\ Len(q) = Len(s) + 1 /\ Head(q) = q[1] /\ Head(q) \in S
      /\ \A i \in 1..Len(s) : s[i] = q[i + 1]
  OBVIOUS
<1>2. h \in Nat
  BY <1>1
<1> HIDE DEF s
<1>3. a \in Seq(Nat) /\ Len(a) = Len(q) /\ \A i \in 1..Len(q) : a[i] = q[i].line
  BY LinesIs
<1>4. Lines(s) \in Seq(Nat) /\ Len(Lines(s)) = Len(s) /\ \A i \in 1..Len(s) : Lines(s)[i] = s[i].line
  BY <1>1, LinesIs
<1>5. h = q[1].line
  BY <1>1
<1> HIDE DEF a, h
<1>6. <<h>> \in Seq(Nat) /\ Len(<<h>>) = 1 /\ <<h>>[1] = h
  BY <1>2
<1>7. /\ b \in Seq(Nat) /\ Len(b) = 1 + Len(s)
      /\ \A i \in 1..(1 + Len(s)) : b[i] = IF i <= 1 THEN <<h>>[i] ELSE Lines(s)[i - 1]
  BY <1>4, <1>6, ConcatProperties
<1> HIDE DEF b
<1>8. ASSUME NEW i \in 1..Len(a) PROVE a[i] = b[i]
  <2>1. CASE i = 1
    BY <1>1, <1>3, <1>5, <1>6, <1>7, <2>1
  <2>2. CASE i # 1
    <3>1. i - 1 \in 1..Len(s) /\ i \in 1..(1 + Len(s)) /\ ~(i <= 1) /\ (i - 1) + 1 = i
      BY <1>1, <1>3, <2>2
    <3>2. b[i] = s[i - 1].line /\ s[i - 1] = q[i]
      BY <1>1, <1>4, <1>7, <3>1
    <3>3. QED
      BY <1>3, <3>2
  <2>3. QED
    BY <2>1, <2>2
<1>9. a = b
  <2>1. Len(a) = Len(b)
    BY <1>1, <1>3, <1>7
  <2>2. QED
    BY <1>3, <1>7, <1>8, <2>1, SeqEqual
<1>10. QED
  BY <1>9 DEF a, b, h, s

(* The lines accepted and not yet written: the one in hand, then the queue. *)
LEMMA PendingIs == Pending = HandLines(writer) \o Lines(packets)
  BY Zenon DEF Pending, InHand, HandLines, Writings

(* The same after a step. *)
LEMMA PendingWillBe == Pending' = HandLines(writer') \o Lines(packets')
  BY Zenon DEF Pending, InHand, HandLines, Writings, Lines

(* The line in hand and those in the queue. *)
LEMMA LinesSay ==
  ASSUME Fits
  PROVE  /\ HandLines(writer) \in Seq(Nat) /\ Lines(packets) \in Seq(Nat) /\ Pending \in Seq(Nat)
         /\ packets \in Seq(Packets) /\ \A x \in Packets : x.line \in Nat
         /\ file \in Seq([line : Nat, at : 1..Len(Calendar), name : Names])
<1>1. packets \in Seq(Packets) /\ file \in Seq([line : Nat, at : 1..Len(Calendar), name : Names])
      /\ writer \in [Writers -> WriterRecord]
  BY DEF Fits, TypeOK, WriterRecord
<1>2. \A x \in Packets : x.line \in Nat
  BY DEF Packets
<1>3. Lines(packets) \in Seq(Nat)
  BY <1>1, <1>2, LinesIs
<1>4. HandLines(writer) \in Seq(Nat)
  <2>1. CASE Writings(writer) = {}
    BY <2>1 DEF HandLines
  <2>2. CASE Writings(writer) # {}
    <3>1. PICK v : v = CHOOSE w \in Writings(writer) : TRUE
      OBVIOUS
    <3>2. v \in Writings(writer)
      BY <2>2, <3>1
    <3>3. writer[v].packet.line \in Nat
      BY <1>1, <1>2, <3>2 DEF Writings, WriterRecord
    <3>4. HandLines(writer) = <<writer[v].packet.line>>
      BY <2>2, <3>1 DEF HandLines
    <3>5. QED
      BY <3>3, <3>4
  <2>3. QED
    BY <2>1, <2>2
<1>5. HandLines(writer) \o Lines(packets) \in Seq(Nat)
  BY <1>3, <1>4
<1>6. QED
  BY <1>1, <1>2, <1>3, <1>4, <1>5, PendingIs

(* What a step of the log is to the channel of lines. *)
ChannelStep == LineChannel!Next \/ UNCHANGED <<Pending, Lines(file)>>

(* Nothing is written, taken or queued. *)
LEMMA StepsAside ==
  ASSUME UNCHANGED <<packets, file>>,
         \A w \in Writers : writer'[w].at = "write" <=> writer[w].at = "write",
         \A w \in Writers : writer[w].at = "write" => writer'[w].packet = writer[w].packet
  PROVE  ChannelStep
<1>1. HandLines(writer') = HandLines(writer)
  BY SameHand
<1>2. Pending' = Pending
  BY <1>1, PendingIs, PendingWillBe
<1>3. Lines(file)' = Lines(file)
  BY DEF Lines
<1>4. QED
  BY <1>2, <1>3 DEF ChannelStep

(* What is appended to a concatenation is appended to its second part. *)
LEMMA AppendConcat ==
  ASSUME NEW h \in Seq(Nat), NEW s \in Seq(Nat), NEW n \in Nat
  PROVE  h \o Append(s, n) = Append(h \o s, n)
<1>1. <<n>> \in Seq(Nat) /\ h \o s \in Seq(Nat)
  OBVIOUS
<1>2. Append(s, n) = s \o <<n>> /\ Append(h \o s, n) = (h \o s) \o <<n>>
  BY <1>1, AppendIsConcat
<1>3. (h \o s) \o <<n>> = h \o (s \o <<n>>)
  BY <1>1, ConcatAssociative
<1>4. QED
  BY Zenon, <1>2, <1>3

(* PostLog accepts a line. *)
LEMMA StepEnqueues ==
  ASSUME Fits, NEW x \in Packets, x.line \in 1..MaxLines, packets' = Append(packets, x), UNCHANGED <<writer, file>>
  PROVE  ChannelStep
<1>1. Lines(packets') = Append(Lines(packets), x.line)
  BY LinesSay, LinesAppend
<1>2. Pending' = HandLines(writer) \o Append(Lines(packets), x.line)
  BY <1>1, PendingWillBe
<1>3. x.line \in Nat
  BY LinesSay
<1>4. HandLines(writer) \o Append(Lines(packets), x.line) = Append(HandLines(writer) \o Lines(packets), x.line)
  BY <1>3, LinesSay, AppendConcat
<1>5. Pending' = Append(Pending, x.line)
  BY <1>2, <1>4, PendingIs
<1>6. Lines(file)' = Lines(file)
  BY DEF Lines
<1>7. LineChannel!Accept
  BY <1>5, <1>6 DEF LineChannel!Accept
<1>8. QED
  BY <1>7 DEF ChannelStep, LineChannel!Next

(* The writer takes the first line of the queue into its hand. *)
LEMMA StepTakes ==
  ASSUME Fits, WriterInv, NEW w \in Writers, writer[w] # Gone, writer[w].at # "write",
         TakePacket(w), UNCHANGED file
  PROVE  ChannelStep
<1>1. writer \in [Writers -> WriterRecord]
  BY DEF Fits, TypeOK, WriterRecord
<1>2. \A v \in Writers : writer[v].at # "write"
  BY Unique DEF Gone
<1>3. CASE packets = <<>>
  <2>1. At(w, "loop") /\ UNCHANGED packets
    BY <1>3 DEF TakePacket
  <2>2. \A v \in Writers : writer'[v].at # "write"
    BY <1>1, <1>2, <2>1 DEF At
  <2>3. QED
    BY <1>2, <2>1, <2>2, StepsAside
<1>4. CASE packets # <<>>
  <2>1. writer' = [writer EXCEPT ![w] = [at |-> "write", packet |-> Head(packets)]] /\ packets' = Tail(packets)
    BY <1>4 DEF TakePacket
  <2>2. /\ writer'[w].at = "write" /\ writer'[w].packet = Head(packets)
        /\ \A v \in Writers : v # w => writer'[v].at # "write"
    BY <1>1, <1>2, <2>1
  <2>3. HandLines(writer') = <<Head(packets).line>>
    BY <2>2, OneHand
  <2>4. Lines(packets) = <<Head(packets).line>> \o Lines(Tail(packets))
    BY <1>4, LinesSay, LinesTail
  <2>5. HandLines(writer) = <<>>
    BY <1>2, NoHand
  <2>6. Pending = Lines(packets)
    BY <2>5, LinesSay, PendingIs
  <2>7. Pending' = Pending
    BY <2>1, <2>3, <2>4, <2>6, PendingWillBe
  <2>8. Lines(file)' = Lines(file)
    BY DEF Lines
  <2>9. QED
    BY <2>7, <2>8 DEF ChannelStep
<1>5. QED
  BY <1>3, <1>4

(* A line that is first: what is left without it. *)
LEMMA WithoutFirst ==
  ASSUME NEW x \in Nat, NEW s \in Seq(Nat)
  PROVE  LET p == <<x>> \o s
         IN  p # <<>> /\ Len(p) >= 1 /\ Len(p) \in Nat /\ Head(p) = x /\ Tail(p) = s /\ SubSeq(p, 2, Len(p)) = s
<1> DEFINE p == <<x>> \o s
<1>1. <<x>> \in Seq(Nat) /\ Len(<<x>>) = 1 /\ <<x>>[1] = x /\ Len(s) \in Nat
  OBVIOUS
<1>2. /\ p \in Seq(Nat) /\ Len(p) = 1 + Len(s)
      /\ \A i \in 1..(1 + Len(s)) : p[i] = IF i <= 1 THEN <<x>>[i] ELSE s[i - 1]
  BY <1>1, ConcatProperties
<1> HIDE DEF p
<1>3. Len(p) >= 1 /\ Len(p) \in Nat /\ p # <<>>
  BY <1>1, <1>2
<1>4. Head(p) = x
  <2>1. p[1] = x
    BY <1>1, <1>2
  <2>2. QED
    BY <1>2, <1>3, <2>1
<1>5. Tail(p) = SubSeq(p, 2, Len(p))
  BY <1>2, <1>3, TailIsSubSeq
<1>6. Tail(p) \in Seq(Nat) /\ Len(Tail(p)) = Len(s) /\ \A i \in 1..Len(s) : Tail(p)[i] = p[i + 1]
  BY <1>1, <1>2, <1>3
<1>7. \A i \in 1..Len(s) : Tail(p)[i] = s[i]
  <2> SUFFICES ASSUME NEW i \in 1..Len(s) PROVE Tail(p)[i] = s[i]
    OBVIOUS
  <2>1. i + 1 \in 1..(1 + Len(s)) /\ ~(i + 1 <= 1) /\ (i + 1) - 1 = i
    BY <1>1
  <2>2. p[i + 1] = s[i]
    BY <1>2, <2>1
  <2>3. QED
    BY <1>6, <2>2
<1>8. Tail(p) = s
  BY <1>6, <1>7, SeqEqual
<1>9. QED
  BY <1>3, <1>4, <1>5, <1>8 DEF p

(* The line in hand is written or lost. *)
LEMMA StepWrites ==
  ASSUME Fits, WriterInv, NEW w \in Writers, Write(w)
  PROVE  ChannelStep
<1> DEFINE l == writer[w].packet.line
<1>1. writer \in [Writers -> WriterRecord] /\ writer[w].at = "write" /\ writer[w] # Gone
  BY NotGone DEF Fits, TypeOK, WriterRecord, Write
<1>2. \A v \in Writers : v # w => writer[v].at # "write"
  BY <1>1, Unique DEF Gone
<1>3. HandLines(writer) = <<l>>
  BY <1>1, <1>2, OneHand
<1>4. writer' = [writer EXCEPT ![w] = [writer[w] EXCEPT !.at = "delete"]] /\ packets' = packets
  BY DEF Write
<1>5. \A v \in Writers : writer'[v].at # "write"
  BY <1>1, <1>2, <1>4 DEF WriterRecord
<1>6. HandLines(writer') = <<>>
  BY <1>5, NoHand
<1>7. l \in Nat /\ Lines(packets) \in Seq(Nat)
  BY <1>1, LinesSay DEF WriterRecord
<1> HIDE DEF l
<1>8. Pending' = Lines(packets)
  BY <1>4, <1>6, <1>7, PendingWillBe
<1>9. Pending = <<l>> \o Lines(packets)
  BY <1>3, PendingIs
<1>10. /\ Pending # <<>> /\ Len(Pending) >= 1 /\ Len(Pending) \in Nat /\ Head(Pending) = l
       /\ Tail(Pending) = Lines(packets) /\ SubSeq(Pending, 2, Len(Pending)) = Lines(packets)
  BY <1>7, <1>9, WithoutFirst
<1>11. Log_Text_2File(writer[w].packet)
  BY DEF Write
<1>12. CASE UNCHANGED file
  <2>1. Lines(file)' = Lines(file)
    BY <1>12 DEF Lines
  <2>2. 1 \in 1..Len(Pending) /\ Pending' = SubSeq(Pending, 1 + 1, Len(Pending))
    BY <1>8, <1>10
  <2>3. LineChannel!Lose
    BY <2>1, <2>2 DEF LineChannel!Lose
  <2>4. QED
    BY <2>3 DEF ChannelStep, LineChannel!Next
<1>13. CASE Writes(writer[w].packet)
  <2> DEFINE entries == [line : Nat, at : 1..Len(Calendar), name : Names]
             x == [line |-> l, at |-> writer[w].packet.at, name |-> fp']
  <2>1. file' = Append(file, x)
    BY <1>13 DEF Writes, l
  <2>2. fp' \in Names /\ writer[w].packet.at \in 1..Len(Calendar)
    BY <1>1, FitsWrite DEF Fits, TypeOK, WriterRecord, Packets
  <2>3. x \in entries /\ x.line = l
    BY <1>7, <2>2
  <2>4. file \in Seq(entries) /\ \A y \in entries : y.line \in Nat
    BY LinesSay
  <2> HIDE DEF entries, x
  <2>5. Lines(file') = Append(Lines(file), l)
    BY <2>1, <2>3, <2>4, LinesAppend
  <2>6. Lines(file)' = Lines(file')
    BY DEF Lines
  <2>7. LineChannel!Deliver
    BY <1>8, <1>10, <2>5, <2>6 DEF LineChannel!Deliver
  <2>8. QED
    BY <2>7 DEF ChannelStep, LineChannel!Next
<1>14. QED
  BY <1>11, <1>12, <1>13, Zenon DEF Log_Text_2File

(* Fini loses all lines. *)
LEMMA StepEnds ==
  ASSUME Fits, WriterInv, Fini_End
  PROVE  ChannelStep
<1>1. \A w \in Writers : writer'[w].at # "write"
  <2>1. Killed /\ fini \in {"joined", "kills", "clears"}
    BY DEF Fini_End
  <2>2. QED
    BY <2>1 DEF Killed, AllGone, WriterInv, OneWriter, Gone
<1>2. HandLines(writer') = <<>>
  BY <1>1, NoHand
<1>3. packets' = <<>> /\ file' = file
  BY DEF Fini_End
<1>4. Lines(packets') = <<>>
  BY <1>3 DEF Lines
<1>5. Pending' = <<>>
  BY <1>2, <1>4, PendingWillBe
<1>6. Lines(file)' = Lines(file)
  BY <1>3 DEF Lines
<1>7. Pending \in Seq(Nat)
  BY LinesSay
<1>8. CASE Pending = <<>>
  BY <1>5, <1>6, <1>8 DEF ChannelStep
<1>9. CASE Pending # <<>>
  <2>1. Len(Pending) \in 1..Len(Pending)
    BY <1>7, <1>9
  <2>2. SubSeq(Pending, Len(Pending) + 1, Len(Pending)) = <<>>
    BY <1>7
  <2>3. LineChannel!Lose
    BY <1>5, <1>6, <2>1, <2>2 DEF LineChannel!Lose
  <2>4. QED
    BY <2>3 DEF ChannelStep, LineChannel!Next
<1>10. QED
  BY <1>8, <1>9

(* Every step of the log is a step of the channel or leaves it alone. *)
LEMMA StepsInOrder == Fits /\ WriterInv /\ [Next]_vars => ChannelStep
<1> SUFFICES ASSUME Fits, WriterInv, [Next]_vars PROVE ChannelStep
  OBVIOUS
<1>0. writer \in [Writers -> WriterRecord]
  BY DEF Fits, TypeOK, WriterRecord
<1>1. ASSUME UNCHANGED <<packets, file, writer>> PROVE ChannelStep
  BY <1>1, StepsAside
<1>2. ASSUME NEW p \in Posters, LogText(p) \/ LogFormat(p) \/ Alloc(p) \/ AllocBlock(p) PROVE ChannelStep
  BY <1>1, <1>2, Zenon DEF LogText, LogFormat, Begin, Alloc, AllocBlock, disk
<1>3. ASSUME NEW p \in Posters, PostLog(p) PROVE ChannelStep
  <2>1. UNCHANGED <<writer, file>>
    BY <1>3 DEF PostLog, disk
  <2>2. CASE UNCHANGED packets
    BY <1>1, <2>1, <2>2
  <2>3. CASE Enqueue(poster[p].object, poster[p].line)
    <3> DEFINE x == [object |-> poster[p].object, line |-> poster[p].line, at |-> now]
    <3>1. /\ poster[p] \in PosterRecord /\ Posts(poster[p], lines) /\ poster[p].at = "post"
          /\ lines \in 0..MaxLines /\ now \in 1..Len(Calendar)
      BY <1>3 DEF Fits, TypeOK, PosterRecord, PostLog
    <3>2. poster[p].line \in 1..MaxLines
      BY <3>1, Sizes DEF Posts, PosterRecord
    <3>3. poster[p].line \in Nat /\ poster[p].object \in Nat \cup {NoObject}
      BY <3>1 DEF PosterRecord
    <3>4. x \in Packets
      BY <3>1, <3>3 DEF Packets
    <3>5. x.line \in 1..MaxLines /\ packets' = Append(packets, x)
      BY <2>3, <3>2 DEF Enqueue
    <3> HIDE DEF x
    <3>6. QED
      BY <2>1, <3>4, <3>5, StepEnqueues
  <2>4. QED
    BY <1>3, <2>2, <2>3 DEF PostLog
<1>4. ASSUME NEW w \in Writers, NEW at, At(w, at), at # "write", writer[w].at # "write", UNCHANGED <<packets, file>>
      PROVE  ChannelStep
  <2>1. \A v \in Writers : (v # w => writer'[v] = writer[v]) /\ writer'[w].at # "write"
    BY <1>0, <1>4 DEF At
  <2>2. QED
    BY <1>4, <2>1, StepsAside
<1>5. ASSUME NEW w \in Writers, Writer(w) PROVE ChannelStep
  <2>1. CASE Run(w) \/ Wakes(w) \/ Delete(w)
    BY <1>4, <2>1 DEF Run, Wakes, Delete, disk
  <2>2. CASE Ends(w)
    <3>1. At(w, "gone") /\ writer[w].at # "write" /\ UNCHANGED <<packets, file>>
      BY <2>2 DEF Ends, At, Gone, disk
    <3>2. QED
      BY <1>4, <3>1
  <2>3. CASE Enter(w)
    <3>1. writer[w].at = "enter" /\ writer[w] # Gone /\ UNCHANGED file
      BY <2>3, NotGone DEF Enter, disk
    <3>2. CASE packets = <<>>
      <4>1. At(w, "asleep") /\ UNCHANGED packets
        BY <2>3, <3>2 DEF Enter
      <4>2. QED
        BY <1>4, <3>1, <4>1
    <3>3. CASE packets # <<>>
      <4>1. TakePacket(w)
        BY <2>3, <3>3 DEF Enter
      <4>2. QED
        BY <3>1, <4>1, StepTakes
    <3>4. QED
      BY <3>2, <3>3
  <2>4. CASE Relock(w)
    <3>1. writer[w].at = "awake" /\ writer[w] # Gone /\ TakePacket(w) /\ UNCHANGED file
      BY <2>4, NotGone DEF Relock, disk
    <3>2. QED
      BY <3>1, StepTakes
  <2>5. CASE Write(w)
    BY <2>5, StepWrites
  <2>6. QED
    BY <1>5, <2>1, <2>2, <2>3, <2>4, <2>5 DEF Writer
<1>6. CASE Init_Log
  <2>1. UNCHANGED <<packets, file>> /\ thread.hThread = thread.hThread
    BY <1>6 DEF Init_Log
  <2>2. CASE Starts(thread)
    <3>1. At(runs', "loop")
      BY <1>6, <2>2 DEF Init_Log
    <3>2. runs' \in Writers
      BY <1>6, Sizes DEF Init_Log, WriterInv, Shape, Writers
    <3>3. writer[runs'] = Gone
      BY <2>2, <3>2, LogAssumption DEF Starts, WriterInv, OneWriter
    <3>4. writer[runs'].at # "write"
      BY <3>3 DEF Gone
    <3>5. QED
      BY <1>4, <2>1, <3>1, <3>2, <3>4
  <2>3. CASE ~Starts(thread)
    BY <1>1, <1>6, <2>1, <2>3 DEF Init_Log
  <2>4. QED
    BY <2>2, <2>3
<1>7. CASE Fini_Log \/ Fini_Waited \/ Tick \/ UNCHANGED vars
  BY <1>1, <1>7, Zenon DEF Fini_Log, Fini_Waited, Tick, vars, disk
<1>8. CASE Fini_End
  BY <1>8, StepEnds
<1>9. QED
  BY <1>2, <1>3, <1>5, <1>6, <1>7, <1>8 DEF Next, Finishing, Poster

(* At first the channel is empty. *)
LEMMA StartsEmpty == Init => LineChannel!Init
<1> SUFFICES ASSUME Init PROVE LineChannel!Init
  OBVIOUS
<1>1. \A w \in Writers : writer[w].at # "write"
  BY DEF Init, Gone
<1>2. HandLines(writer) = <<>>
  BY <1>1, NoHand
<1>3. Lines(packets) = <<>> /\ Lines(file) = <<>>
  BY DEF Init, Lines
<1>4. Pending = <<>>
  BY <1>2, <1>3, PendingIs
<1>5. QED
  BY <1>3, <1>4 DEF LineChannel!Init

(* The log implements the lossy channel of Channel.tla: what reaches the file is what PostLog   *)
(* accepted, in that order, no line twice, each line lost only by a disk that refuses it or by  *)
(* Fini, which loses the rest at once.  Logging, queue, writer and Fini together, step by step: *)
(* PostLog is Accept, Log_Text_2File Deliver or Lose, the end of Fini Lose.                     *)
THEOREM LinesInOrder == Spec => InOrder
<1>1. Init => Fits /\ WriterInv /\ LineChannel!Init
  BY FitsInit, WriterInit, StartsEmpty
<1>2. Fits /\ WriterInv /\ [Next]_vars => (Fits /\ WriterInv)'
  BY FitsNext, WriterNext
<1>3. Fits /\ WriterInv /\ [Next]_vars => [LineChannel!Next]_(LineChannel!vars)
  BY StepsInOrder DEF ChannelStep, LineChannel!vars
<1>4. QED
  BY <1>1, <1>2, <1>3, PTL DEF Spec, InOrder, LineChannel!Spec
=============================================================================
