------------------------------ MODULE LogWriter -----------------------------
(***************************************************************************)
(* The log of Log.cpp: CLogThread, its queue of packets, its writer thread *)
(* and the functions any thread logs with.  InitLogger and FiniLogger start *)
(* and end it again and again; Fini holds the queue's lock while it waits  *)
(* for the writer, for the time limit of Terminate, and then kills it.     *)
(* The two log threads of the program (InitLogger, Mogui_InitLogger) differ *)
(* in nothing but their name; this is one of them.                         *)
(***************************************************************************)
EXTENDS Thread, MemoryPool, FiniteSets, SequencesExt

CONSTANTS
  Posters,       \* threads that log
  Levels,        \* the bits of a log level
  MaxLogCount,   \* MAX_LOG_COUNT
  Calendar,      \* what localtime gives for the moments of the model
  MaxPieces,     \* bound: packets one text is cut into
  MaxLines,      \* bound: packets for which texts were cut
  MaxRuns,       \* bound: successful calls of InitLogger
  MaxEvents      \* bound: such packets, such calls and days that ended, together

(* Each start of the log is another thread.                                *)
Writers == 1..MaxRuns

ASSUME LogAssumption ==
  /\ NoThread \notin Writers
  /\ MaxLogCount \in Nat \ {0}
  /\ Calendar \in Seq([mon : 0..11, mday : 1..31]) /\ Calendar # <<>>
  /\ MaxPieces \in Nat \ {0} /\ MaxLines \in Nat /\ MaxRuns \in Nat
  /\ MaxEvents \in Nat

VARIABLES
  pool,       \* CMemoryPool_Public<CLogPacket>
  packets,    \* m_packets, of packets with the line they carry
  event,      \* m_packetCondition
  init,       \* m_init
  logLevel,   \* m_nLogLevel, as the set of its bits
  thread,     \* the CThread
  writer,     \* what each writer thread is at, and its packet
  poster,     \* what each posting thread is at
  fini,       \* what Fini is at; it holds m_packetlock until it is idle
  dirCreated, month, fp, date,   \* m_bDirCreated, m_nMonth, m_fp, m_nDate
  now,        \* environment: the clock
  lines,      \* history: packets for which texts were cut
  file,       \* history: the lines written, each with the file it is in
  runs        \* history: successful calls of InitLogger

disk == <<dirCreated, month, fp, date, file>>
vars == <<pool, packets, event, init, logLevel, thread, writer, poster, fini,
          disk, now, lines, runs>>

NoPacket == [object |-> NoObject, line |-> 0, at |-> 1]
Closed   == [mon |-> 0, mday |-> 0]
Idle     == [at |-> "idle", object |-> NoObject, line |-> 0, left |-> 0, blank |-> FALSE, grown |-> 0]
Gone     == [at |-> "gone", packet |-> NoPacket]

Unlocked == fini = "idle"

(* The bound MaxEvents leaves room for n more. *)
Room(n) == lines + runs + (now - 1) + n <= MaxEvents

-----------------------------------------------------------------------------
IsLevelLog(level) == level \in logLevel

(* A caller begins: it has n packets to make, for the line numbers to come. *)
Begin(p, level, n, blank) ==
  /\ poster[p].at = "idle"
  /\ init /\ IsLevelLog(level)
  /\ lines + n <= MaxLines /\ Room(n)
  /\ lines' = lines + n
  /\ poster' = [poster EXCEPT ![p] = [Idle EXCEPT !.at = "alloc", !.line = lines + 1,
                                                  !.left = n, !.blank = blank]]
  /\ UNCHANGED <<pool, packets, event, init, logLevel, thread, writer, fini, disk, now, runs>>

(* Log_Text cuts a text into packets.                                      *)
LogText(p) == \E level \in Levels, n \in 1..MaxPieces : Begin(p, level, n, FALSE)

(* Log_Text_Format, Mogui_Debug and the others make one packet, which may  *)
(* turn out to be empty.                                                   *)
LogFormat(p) == \E level \in Levels, blank \in BOOLEAN : Begin(p, level, 1, blank)

(* AllocFromPool looks at the pool, again after each block it allocated.   *)
Alloc(p) ==
  /\ poster[p].at = "alloc"
  /\ pool' = Pop(pool)
  /\ poster' = [poster EXCEPT ![p].object = Top(pool), ![p].grown = 0,
                              ![p].at = IF Top(pool) = NoObject THEN "grow" ELSE "post"]
  /\ UNCHANGED <<packets, event, init, logLevel, thread, writer, fini, disk, now, lines, runs>>

AllocBlock(p) ==
  /\ poster[p].at = "grow"
  /\ pool' = Malloc(pool)
  /\ poster' = [poster EXCEPT ![p].grown = @ + 1,
                              ![p].at = IF poster[p].grown + 1 = AllocBlockSize THEN "alloc" ELSE "grow"]
  /\ UNCHANGED <<packets, event, init, logLevel, thread, writer, fini, disk, now, lines, runs>>

(* The caller goes on to the next piece of its text.                       *)
NextPiece(p) ==
  poster' = [poster EXCEPT ![p] = IF poster[p].left = 1 THEN Idle
                                  ELSE [Idle EXCEPT !.at = "alloc", !.line = poster[p].line + 1,
                                                !.left = poster[p].left - 1]]

Enqueue(object, line) ==
  /\ packets' = Append(packets, [object |-> object, line |-> line, at |-> now])
  /\ event' = (event \/ packets = <<>>)

(* Mutation of Full: off by one. *)
FullLate == Len(packets) > MaxLogCount

Full == Len(packets) >= MaxLogCount

(* PostLog: an empty packet is forgotten before the lock is taken, one too *)
(* many is deleted under it.                                               *)
PostLog(p) ==
  /\ poster[p].at = "post"
  /\ NextPiece(p)
  /\ \/ poster[p].blank /\ UNCHANGED <<pool, packets, event>>
     \/ /\ ~poster[p].blank /\ Unlocked
        /\ Full
        /\ pool' = Push(pool, poster[p].object)
        /\ UNCHANGED <<packets, event>>
     \/ /\ ~poster[p].blank /\ Unlocked
        /\ ~Full
        /\ Enqueue(poster[p].object, poster[p].line)
        /\ UNCHANGED pool
  /\ UNCHANGED <<init, logLevel, thread, writer, fini, disk, now, lines, runs>>

-----------------------------------------------------------------------------
(* The writer thread: CLogThread::Run, from one look at m_bRunning to the  *)
(* next.                                                                   *)
At(w, at) == writer' = [writer EXCEPT ![w] = [at |-> at, packet |-> NoPacket]]

Run(w) ==
  /\ writer[w].at = "loop"
  /\ At(w, IF thread.running THEN "enter" ELSE "ended")
  /\ UNCHANGED <<pool, packets, event, init, logLevel, thread, poster, fini, disk, now, lines, runs>>

(* Mutation of TakePacket: the packet queued last is taken. *)
TakeLast(w) ==
  IF packets = <<>> THEN At(w, "loop") /\ UNCHANGED packets
  ELSE /\ writer' = [writer EXCEPT ![w] = [at |-> "write", packet |-> packets[Len(packets)]]]
       /\ packets' = SubSeq(packets, 1, Len(packets) - 1)

(* The rest of the locked section, once there is no reason to wait.        *)
TakePacket(w) ==
  IF packets = <<>> THEN At(w, "loop") /\ UNCHANGED packets
  ELSE /\ writer' = [writer EXCEPT ![w] = [at |-> "write", packet |-> Head(packets)]]
       /\ packets' = Tail(packets)

(* Mutation of Enter: the writer sleeps without a look at the queue. *)
SleepsFirst(w) ==
  /\ writer[w].at = "enter" /\ Unlocked
  /\ At(w, "asleep")
  /\ UNCHANGED <<pool, packets, event, init, logLevel, thread, poster, fini, disk, now, lines, runs>>

Enter(w) ==
  /\ writer[w].at = "enter" /\ Unlocked
  /\ IF packets = <<>> THEN At(w, "asleep") /\ UNCHANGED packets ELSE TakePacket(w)
  /\ UNCHANGED <<pool, event, init, logLevel, thread, poster, fini, disk, now, lines, runs>>

(* CCondition::Wait, without a time limit: the event, then the lock again. *)
Wakes(w) ==
  /\ writer[w].at = "asleep" /\ event
  /\ At(w, "awake")
  /\ UNCHANGED <<pool, packets, event, init, logLevel, thread, poster, fini, disk, now, lines, runs>>

Relock(w) ==
  /\ writer[w].at = "awake" /\ Unlocked
  /\ event' = FALSE
  /\ TakePacket(w)
  /\ UNCHANGED <<pool, init, logLevel, thread, poster, fini, disk, now, lines, runs>>

(* CreateMonthDir, which looks at the clock and not at the line.           *)
CreateMonthDir(made) ==
  /\ dirCreated' = made
  /\ month' = IF made THEN Calendar[now].mon ELSE month

(* The packet's line goes to the open file.                                *)
Writes(packet) ==
  file' = Append(file, [line |-> packet.line, at |-> packet.at, name |-> fp'])

(* Mutation of Reopens: the change of the day is not looked at. *)
ReopensMonthly(t) == fp = Closed \/ t.mon # month

Reopens(t) == fp = Closed \/ date # t.mday \/ t.mon # month

Log_Text_2File(packet) ==
  LET t == Calendar[packet.at]
  IN  /\ IF t.mon # month THEN \E made \in BOOLEAN : CreateMonthDir(made)
                          ELSE UNCHANGED <<dirCreated, month>>
      /\ \/ ~dirCreated' /\ UNCHANGED <<fp, date, file>>
         \/ dirCreated' /\ ~Reopens(t) /\ UNCHANGED <<fp, date>> /\ Writes(packet)
         \/ dirCreated' /\ Reopens(t) /\ fp' = Closed /\ UNCHANGED <<date, file>>
         \/ dirCreated' /\ Reopens(t) /\ fp' = t /\ date' = t.mday /\ Writes(packet)

Write(w) ==
  /\ writer[w].at = "write"
  /\ Log_Text_2File(writer[w].packet)
  /\ writer' = [writer EXCEPT ![w].at = "delete"]
  /\ UNCHANGED <<pool, packets, event, init, logLevel, thread, poster, fini, now, lines, runs>>

(* Mutation of Delete: the pointer is kept. *)
DeleteKeeps(w) ==
  /\ writer[w].at = "delete"
  /\ pool' = Push(pool, writer[w].packet.object)
  /\ writer' = [writer EXCEPT ![w].at = "loop"]
  /\ UNCHANGED <<packets, event, init, logLevel, thread, poster, fini, disk, now, lines, runs>>

Delete(w) ==
  /\ writer[w].at = "delete"
  /\ pool' = Push(pool, writer[w].packet.object)
  /\ At(w, "loop")
  /\ UNCHANGED <<packets, event, init, logLevel, thread, poster, fini, disk, now, lines, runs>>

(* ThreadFunc after Run.                                                   *)
Ends(w) ==
  /\ writer[w].at = "ended"
  /\ thread' = Broadcast(thread)
  /\ writer' = [writer EXCEPT ![w] = Gone]
  /\ UNCHANGED <<pool, packets, event, init, logLevel, poster, fini, disk, now, lines, runs>>

-----------------------------------------------------------------------------
(* The thread that starts and ends the log.                                *)
Init_Log ==
  /\ Unlocked /\ ~init /\ runs < MaxRuns /\ Room(1)
  /\ init' = TRUE /\ runs' = runs + 1
  /\ \E level \in SUBSET Levels : logLevel' = level
  /\ \E made \in BOOLEAN : CreateMonthDir(made)
  /\ thread' = Start(thread, runs')
  /\ IF Starts(thread) THEN At(runs', "loop") ELSE UNCHANGED writer
  /\ UNCHANGED <<pool, packets, event, poster, fini, fp, date, file, now, lines>>

(* Fini takes the lock and Terminate begins.                               *)
Fini_Log ==
  /\ Unlocked
  /\ thread' = Stopping(thread)
  /\ fini' = IF thread.running THEN "waits" ELSE "clears"
  /\ UNCHANGED <<pool, packets, event, init, logLevel, writer, poster, disk, now, lines, runs>>

(* Mutation of Fini_Waited: a wait without a time limit. *)
Fini_WaitedForever ==
  /\ fini = "waits" /\ thread.event /\ fini' = "joined"
  /\ UNCHANGED <<pool, packets, event, init, logLevel, thread, writer, poster, disk, now, lines, runs>>

(* WaitForSingleObject of Terminate returns.                               *)
Fini_Waited ==
  /\ fini = "waits"
  /\ \/ thread.event /\ fini' = "joined"
     \/ fini' = "kills"
  /\ UNCHANGED <<pool, packets, event, init, logLevel, thread, writer, poster, disk, now, lines, runs>>

(* Mutation of Killed: a writer that was too slow is left running. *)
KilledNot == UNCHANGED writer

(* TerminateThread; the packet of the thread is lost with it.              *)
Killed ==
  writer' = [w \in Writers |-> IF fini = "kills" /\ w = thread.hThread THEN Gone ELSE writer[w]]

(* The end of Terminate and of Fini.                                       *)
Fini_End ==
  /\ fini \in {"joined", "kills", "clears"}
  /\ Killed
  /\ thread' = IF fini = "clears" THEN thread ELSE Stopped(thread)
  /\ fp' = Closed
  /\ pool' = [pool EXCEPT !.free = @ \o [i \in 1..Len(packets) |-> packets[i].object]]
  /\ packets' = <<>>
  /\ init' = FALSE
  /\ fini' = "idle"
  /\ UNCHANGED <<event, logLevel, poster, dirCreated, month, date, file, now, lines, runs>>

Tick ==
  /\ now < Len(Calendar) /\ Room(1)
  /\ now' = now + 1
  /\ UNCHANGED <<pool, packets, event, init, logLevel, thread, writer, poster, fini, disk, lines, runs>>

-----------------------------------------------------------------------------
Init ==
  /\ pool = NewPool /\ packets = <<>> /\ event = FALSE
  /\ init = FALSE /\ logLevel = Levels
  /\ thread = NewThread /\ writer = [w \in Writers |-> Gone]
  /\ poster = [p \in Posters |-> Idle]
  /\ fini = "idle"
  /\ dirCreated = FALSE /\ month = 0 /\ fp = Closed /\ date = 0
  /\ now = 1 /\ lines = 0 /\ file = <<>> /\ runs = 0

Poster(p) == Alloc(p) \/ AllocBlock(p) \/ PostLog(p)
Writer(w) == Run(w) \/ Enter(w) \/ Wakes(w) \/ Relock(w) \/ Write(w) \/ Delete(w) \/ Ends(w)
Finishing == Fini_Waited \/ Fini_End

Next ==
  \/ \E p \in Posters : LogText(p) \/ LogFormat(p) \/ Poster(p)
  \/ \E w \in Writers : Writer(w)
  \/ Init_Log \/ Fini_Log \/ Finishing \/ Tick

(* The system runs its threads and its waits end at their time limit; that *)
(* anybody logs, or starts or ends the log, is not assumed.                *)
Fairness ==
  /\ \A p \in Posters : WF_vars(Poster(p))
  /\ \A w \in Writers : WF_vars(Writer(w))
  /\ WF_vars(Finishing)

Spec == Init /\ [][Next]_vars /\ Fairness

-----------------------------------------------------------------------------
PosterStates == {"idle", "alloc", "grow", "post"}
WriterStates == {"gone", "loop", "enter", "asleep", "awake", "write", "delete", "ended"}
FiniStates   == {"idle", "waits", "joined", "kills", "clears"}

Packets == [object : Nat \cup {NoObject}, line : Nat, at : 1..Len(Calendar)]
Names   == [mon : 0..11, mday : 0..31]

(* Types of the variables of CLogThread, of its threads and of the history. *)
TypeOK ==
  /\ pool \in [free : Seq(Nat), totalMalloc : Nat]
  /\ packets \in Seq(Packets) /\ Len(packets) <= MaxLogCount
  /\ event \in BOOLEAN /\ init \in BOOLEAN /\ logLevel \subseteq Levels
  /\ thread \in ThreadObject(Writers)
  /\ writer \in [Writers -> [at : WriterStates, packet : Packets]]
  /\ poster \in [Posters -> [at : PosterStates, object : Nat \cup {NoObject},
                             line : 0..MaxLines, left : 0..MaxPieces, blank : BOOLEAN, grown : 0..AllocBlockSize]]
  /\ fini \in FiniStates
  /\ dirCreated \in BOOLEAN /\ month \in 0..11 /\ fp \in Names /\ date \in 0..31
  /\ now \in 1..Len(Calendar) /\ lines \in 0..MaxLines /\ runs \in 0..MaxRuns
  /\ file \in Seq([line : Nat, at : 1..Len(Calendar), name : Names])

(* Run waits for the event without a time limit and PostLog sets it only   *)
(* for the first packet of the queue, yet whenever the writer sleeps with  *)
(* packets queued, the event that wakes it is set.                         *)
WriterWoken ==
  \A w \in Writers : writer[w].at = "asleep" /\ packets # <<>> => event

(* At any time one thread at most runs the writer's loop, the one Start    *)
(* made, and none does once Fini has returned: a new log never finds the   *)
(* old one's thread at its file.                                           *)
OneWriter ==
  \A w \in Writers : writer[w] # Gone => w = thread.hThread /\ (thread.running \/ ~Unlocked)

Holders ==
  {<<"pool", i>> : i \in 1..Len(pool.free)} \cup {<<"queue", i>> : i \in 1..Len(packets)}
  \cup {<<"poster", p>> : p \in {q \in Posters : poster[q].object # NoObject}}
  \cup {<<"writer", w>> : w \in {v \in Writers : writer[v].packet.object # NoObject}}

HeldBy(h) ==
  CASE h[1] = "pool"   -> pool.free[h[2]]
    [] h[1] = "queue"  -> packets[h[2]].object
    [] h[1] = "poster" -> poster[h[2]].object
    [] OTHER           -> writer[h[2]].packet.object

(* A packet is in one place only, in the pool, with a thread that posts    *)
(* it, in the queue or with the writer, whatever steps of new and delete   *)
(* fall between each other, and wherever Fini kills the writer.            *)
PacketsHeldOnce ==
  \A g, h \in Holders : g # h => HeldBy(g) # HeldBy(h)

(* Equal days are of equal months.  Log_Text_2File compares m_nDate with    *)
(* the day of the month only, and m_nMonth is the month of the writing,    *)
(* not of the line: after a line of 31 December written in January, m_fp   *)
(* is the file of that December, m_nDate 31 and m_nMonth January, and a    *)
(* next line on 31 January goes into it.                                   *)
WithinAMonth ==
  \A i, j \in 1..Len(Calendar) : Calendar[i].mday = Calendar[j].mday => Calendar[i] = Calendar[j]

(* Each line is in the file named after the day on which it was posted,    *)
(* also when the day or month has changed since, when a directory or a     *)
(* file could not be made, and when the log was ended and started again;   *)
(* for a calendar that is WithinAMonth.                                    *)
RightFile ==
  \A i \in 1..Len(file) : file[i].name = Calendar[file[i].at]

(* What is left of it for every calendar: the file is named after the day  *)
(* of the line or of an earlier line of the same day of a month.           *)
SameDayFile ==
  \A i \in 1..Len(file) : \E j \in 1..i :
    /\ file[i].name = Calendar[file[j].at]
    /\ file[i].name.mday = Calendar[file[i].at].mday

(* The lines posted and not yet written, as the channel of Channel.tla.    *)
Lines(s) == [i \in 1..Len(s) |-> s[i].line]
InHand   == {w \in Writers : writer[w].at = "write"}
Pending  == (IF InHand = {} THEN <<>> ELSE <<writer[CHOOSE w \in InHand : TRUE].packet.line>>)
            \o Lines(packets)

LineChannel == INSTANCE Channel WITH Values <- 1..MaxLines, inFlight <- Pending, delivered <- Lines(file)

(* Lines reach the file in the order PostLog queued them, each once; those *)
(* that are lost, to a full disk or to Fini, are the oldest ones.          *)
InOrder == LineChannel!Spec

(* Fini always ends, although it waits for a thread that may itself be     *)
(* waiting for the lock Fini holds.                                        *)
FiniEnds == ~Unlocked ~> Unlocked

(* A line in the queue of a running log is written or given up: it does    *)
(* not stay there.                                                         *)
Drains == init /\ packets # <<>> ~> packets = <<>>
=============================================================================
