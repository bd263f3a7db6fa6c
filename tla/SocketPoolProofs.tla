-------------------------- MODULE SocketPoolProofs --------------------------
(***************************************************************************)
(* What holds of the socket library for every number of objects, every     *)
(* bound and every set of unusual events.                                  *)
(***************************************************************************)
EXTENDS SocketPool, FiniteSetTheorems, TLAPS

-----------------------------------------------------------------------------
(* What every method of a connection object (Connect.tla) preserves,       *)
(* whatever state the object is in: one lemma per operator.                *)

(* m_iocpref is the number of operations in the kernel. *)
Counted(r) == r.iocpref = Outstanding(r)

(* An operation in the kernel has its flag set. *)
Flagged(r) ==
  /\ r.io["SEND"] # "idle" => r.sending
  /\ r.io["RECV"] # "idle" => r.recving

(* The counters of sends and receives are not the first assertion to fail. *)
Single(r) == r.failed \subseteq {OneAtATime["SEND"], OneAtATime["RECV"]} => r.failed = {}

(* The invariant of an object. *)
Sound(r) ==
  /\ r \in ConnectRecord
  /\ Single(r)
  /\ r.failed = {} => /\ Counted(r)
                      /\ r.status # "INVALID" => Flagged(r)

(* In the middle of a method the flags are right whatever the status is. *)
Steady(r) ==
  /\ r \in ConnectRecord
  /\ Single(r)
  /\ r.failed = {} => Counted(r) /\ Flagged(r)

(* Steady is the stronger of the two. *)
LEMMA SteadyIsSound == ASSUME NEW r, Steady(r) PROVE Sound(r)
  BY DEF Steady, Sound

(* An object that was just created. *)
LEMMA NewIsSteady == Steady(NewConnect)
  BY SendBufferAssumption DEF Steady, NewConnect, ConnectRecord, Single, Counted, Flagged, Outstanding, Busy,
     Ops, IoStates, InKernel, Statuses, PacketTypes, Assertions

(* A failing assertion is recorded and changes nothing else. *)
LEMMA CheckType ==
  ASSUME NEW r \in ConnectRecord, NEW holds, NEW what \in Assertions
  PROVE  /\ Check(r, holds, what) \in ConnectRecord
         /\ Check(r, holds, what).io = r.io
         /\ Check(r, holds, what).iocpref = r.iocpref
         /\ Check(r, holds, what).failed = IF holds THEN r.failed ELSE r.failed \cup {what}
         /\ Check(r, holds, what).sending = r.sending
         /\ Check(r, holds, what).recving = r.recving
         /\ Check(r, holds, what).status = r.status
<1>1. CASE holds
  BY <1>1 DEF Check
<1>2. CASE ~holds
  <2>1. r.failed \cup {what} \in SUBSET Assertions
    BY DEF ConnectRecord
  <2>2. QED
    BY <1>2, <2>1 DEF Check, ConnectRecord
<1>3. QED
  BY <1>1, <1>2

(* A failing assertion that is not one of the two Single is about. *)
LEMMA CheckSteady ==
  ASSUME NEW r, Steady(r), NEW holds, NEW what \in Assertions,
         what \notin {OneAtATime["SEND"], OneAtATime["RECV"]}
  PROVE  Steady(Check(r, holds, what))
<1> DEFINE s == Check(r, holds, what)
<1>1. /\ s \in ConnectRecord /\ s.io = r.io /\ s.iocpref = r.iocpref
      /\ s.failed = IF holds THEN r.failed ELSE r.failed \cup {what}
      /\ s.sending = r.sending /\ s.recving = r.recving /\ s.status = r.status
  BY CheckType DEF Steady
<1> HIDE DEF s
<1>2. Single(s)
  BY <1>1 DEF Steady, Single
<1>3. s.failed = {} => r.failed = {}
  BY <1>1
<1>4. QED
  BY <1>1, <1>2, <1>3 DEF Steady, Counted, Flagged, Outstanding, Busy, s

(* The same between the methods. *)
LEMMA CheckSound ==
  ASSUME NEW r, Sound(r), NEW holds, NEW what \in Assertions,
         what \notin {OneAtATime["SEND"], OneAtATime["RECV"]}
  PROVE  Sound(Check(r, holds, what))
<1> DEFINE s == Check(r, holds, what)
<1>1. /\ s \in ConnectRecord /\ s.io = r.io /\ s.iocpref = r.iocpref
      /\ s.failed = IF holds THEN r.failed ELSE r.failed \cup {what}
      /\ s.sending = r.sending /\ s.recving = r.recving /\ s.status = r.status
  BY CheckType DEF Sound
<1> HIDE DEF s
<1>2. Single(s)
  BY <1>1 DEF Sound, Single
<1>3. s.failed = {} => r.failed = {}
  BY <1>1
<1>4. QED
  BY <1>1, <1>2, <1>3 DEF Sound, Counted, Flagged, Outstanding, Busy, s

(* Post: one more operation, counted, if its structure was free. *)
LEMMA PostType ==
  ASSUME NEW r \in ConnectRecord, NEW op \in Ops
  PROVE  /\ Post(r, op) \in ConnectRecord
         /\ Post(r, op).iocpref = r.iocpref + 1
         /\ Post(r, op).io = [r.io EXCEPT ![op] = "posted"]
         /\ Post(r, op).failed = IF r.io[op] = "idle" THEN r.failed ELSE r.failed \cup {OneAtATime[op]}
         /\ Post(r, op).status = r.status
         /\ Post(r, op).sending = r.sending
         /\ Post(r, op).recving = r.recving
<1> DEFINE s == Check(r, r.io[op] = "idle", OneAtATime[op])
<1>1. OneAtATime[op] \in Assertions
  <2>1. op \in {"ACCEPT", "CONNECT", "SEND", "RECV", "DISCONNECT"}
    BY DEF Ops
  <2>2. CASE op = "ACCEPT"
    BY <2>2 DEF OneAtATime, Assertions
  <2>3. CASE op = "CONNECT"
    BY <2>3 DEF OneAtATime, Assertions
  <2>4. CASE op = "SEND"
    BY <2>4 DEF OneAtATime, Assertions
  <2>5. CASE op = "RECV"
    BY <2>5 DEF OneAtATime, Assertions
  <2>6. CASE op = "DISCONNECT"
    BY <2>6 DEF OneAtATime, Assertions
  <2>7. QED
    BY <2>1, <2>2, <2>3, <2>4, <2>5, <2>6
<1>2. s \in ConnectRecord
  <2>1. CASE r.io[op] = "idle"
    BY <2>1 DEF Check
  <2>2. CASE r.io[op] # "idle"
    <3>1. r.failed \cup {OneAtATime[op]} \in SUBSET Assertions
      BY <1>1 DEF ConnectRecord
    <3>2. QED
      BY <2>2, <3>1 DEF Check, ConnectRecord
  <2>3. QED
    BY <2>1, <2>2
<1>3. Post(r, op) = [s EXCEPT !.iocpref = @ + 1, !.io[op] = "posted"]
  BY DEF Post
<1>4. /\ s.io = r.io /\ s.iocpref = r.iocpref /\ s.status = r.status
      /\ s.sending = r.sending /\ s.recving = r.recving
      /\ s.failed = IF r.io[op] = "idle" THEN r.failed ELSE r.failed \cup {OneAtATime[op]}
  BY DEF Check, ConnectRecord
<1>5. [s.io EXCEPT ![op] = "posted"] \in [Ops -> IoStates]
  BY <1>2 DEF ConnectRecord, IoStates, InKernel
<1> HIDE DEF s
<1>6. [s EXCEPT !.iocpref = @ + 1, !.io[op] = "posted"]
        = [s EXCEPT !.iocpref = s.iocpref + 1, !.io = [s.io EXCEPT ![op] = "posted"]]
  BY <1>2 DEF ConnectRecord
<1>7. s.iocpref + 1 \in Int
  BY <1>2 DEF ConnectRecord
<1>8. Post(r, op) \in ConnectRecord
  BY <1>2, <1>3, <1>5, <1>6, <1>7 DEF ConnectRecord
<1>9. QED
  BY <1>2, <1>3, <1>4, <1>6, <1>8 DEF ConnectRecord

(* The invariant looks at five fields. *)
LEMMA SameSteady ==
  ASSUME NEW r, Steady(r), NEW s \in ConnectRecord,
         s.io = r.io, s.iocpref = r.iocpref, s.failed = r.failed,
         s.sending = r.sending, s.recving = r.recving
  PROVE  Steady(s)
  BY DEF Steady, Single, Counted, Flagged, Outstanding, Busy

(* A send or a receive is posted when its flag is down, and the flag raised. *)
LEMMA SendPostedSteady ==
  ASSUME NEW r, Steady(r), ~r.sending, NEW type \in {"NONE", "DATA", "CLOSE_ACTIVE"}
  PROVE  Steady([Post(r, "SEND") EXCEPT !.sending = TRUE, !.packettype = type])
<1> DEFINE p == Post(r, "SEND")
           s == [p EXCEPT !.sending = TRUE, !.packettype = type]
<1>1. r \in ConnectRecord /\ "SEND" \in Ops
  BY DEF Steady, Ops
<1>2. /\ p \in ConnectRecord /\ p.iocpref = r.iocpref + 1
      /\ p.io = [r.io EXCEPT !["SEND"] = "posted"] /\ p.recving = r.recving
      /\ p.failed = IF r.io["SEND"] = "idle" THEN r.failed ELSE r.failed \cup {OneAtATime["SEND"]}
  BY <1>1, PostType
<1> HIDE DEF p
<1>3. /\ s \in ConnectRecord /\ s.iocpref = r.iocpref + 1 /\ s.failed = p.failed
      /\ s.io = [r.io EXCEPT !["SEND"] = "posted"] /\ s.recving = r.recving /\ s.sending
  BY <1>2 DEF ConnectRecord
<1> HIDE DEF s
<1>4. Single(s)
  BY <1>2, <1>3 DEF Steady, Single, Flagged
<1>5. ASSUME s.failed = {} PROVE Counted(s) /\ Flagged(s)
  <2>1. r.failed = {} /\ r.io["SEND"] = "idle"
    BY <1>2, <1>3, <1>5
  <2>2. Counted(s)
    <3>1. /\ s.io["SEND"] = "posted" /\ r.io["SEND"] = "idle"
          /\ s.io["ACCEPT"] = r.io["ACCEPT"] /\ s.io["CONNECT"] = r.io["CONNECT"]
          /\ s.io["RECV"] = r.io["RECV"] /\ s.io["DISCONNECT"] = r.io["DISCONNECT"]
      BY <1>1, <1>3, <2>1 DEF ConnectRecord, Ops
    <3>2. Counted(r) /\ s.iocpref = r.iocpref + 1
      BY <1>3, <2>1 DEF Steady
    <3>3. QED
      BY <3>1, <3>2 DEF Counted, Outstanding, Busy
  <2>3. Flagged(s)
    BY <1>1, <1>3, <2>1 DEF Steady, Flagged, ConnectRecord, Ops
  <2>4. QED
    BY <2>2, <2>3
<1>6. QED
  BY <1>3, <1>4, <1>5 DEF Steady, s, p

(* The same for a receive. *)
LEMMA RecvPostedSteady ==
  ASSUME NEW r, Steady(r), ~r.recving
  PROVE  Steady([Post(r, "RECV") EXCEPT !.recving = TRUE])
<1> DEFINE p == Post(r, "RECV")
           s == [p EXCEPT !.recving = TRUE]
<1>1. r \in ConnectRecord /\ "RECV" \in Ops
  BY DEF Steady, Ops
<1>2. /\ p \in ConnectRecord /\ p.iocpref = r.iocpref + 1
      /\ p.io = [r.io EXCEPT !["RECV"] = "posted"] /\ p.sending = r.sending
      /\ p.failed = IF r.io["RECV"] = "idle" THEN r.failed ELSE r.failed \cup {OneAtATime["RECV"]}
  BY <1>1, PostType
<1> HIDE DEF p
<1>3. /\ s \in ConnectRecord /\ s.iocpref = r.iocpref + 1 /\ s.failed = p.failed
      /\ s.io = [r.io EXCEPT !["RECV"] = "posted"] /\ s.sending = r.sending /\ s.recving
  BY <1>2 DEF ConnectRecord
<1> HIDE DEF s
<1>4. Single(s)
  BY <1>2, <1>3 DEF Steady, Single, Flagged
<1>5. ASSUME s.failed = {} PROVE Counted(s) /\ Flagged(s)
  <2>1. r.failed = {} /\ r.io["RECV"] = "idle"
    BY <1>2, <1>3, <1>5
  <2>2. Counted(s)
    <3>1. /\ s.io["RECV"] = "posted" /\ r.io["RECV"] = "idle"
          /\ s.io["ACCEPT"] = r.io["ACCEPT"] /\ s.io["CONNECT"] = r.io["CONNECT"]
          /\ s.io["SEND"] = r.io["SEND"] /\ s.io["DISCONNECT"] = r.io["DISCONNECT"]
      BY <1>1, <1>3, <2>1 DEF ConnectRecord, Ops
    <3>2. Counted(r) /\ s.iocpref = r.iocpref + 1
      BY <1>3, <2>1 DEF Steady
    <3>3. QED
      BY <3>1, <3>2 DEF Counted, Outstanding, Busy
  <2>3. Flagged(s)
    BY <1>1, <1>3, <2>1 DEF Steady, Flagged, ConnectRecord, Ops
  <2>4. QED
    BY <2>2, <2>3
<1>6. QED
  BY <1>3, <1>4, <1>5 DEF Steady, s, p

(* The buffer of a send never overflows. *)
LEMMA FillSteady ==
  ASSUME NEW r, Steady(r)
  PROVE  /\ Steady(FillSendBuffer(r))
         /\ FillSendBuffer(r).sending = r.sending
         /\ FillSendBuffer(r).status = r.status
<1> DEFINE room == SendBuffer - r.sendused
           n    == IF r.sendpackets <= room THEN r.sendpackets ELSE room
           f    == FillSendBuffer(r)
<1>1. r \in ConnectRecord
  BY DEF Steady
<1>2. n \in Nat /\ r.sendused + n \in 0..SendBuffer /\ r.sendpackets - n \in Nat
  <2>1. r.sendused \in 0..SendBuffer /\ r.sendpackets \in Nat
    BY <1>1 DEF ConnectRecord
  <2>2. room \in Nat /\ r.sendused + room = SendBuffer
    BY <2>1, SendBufferAssumption
  <2>3. CASE r.sendpackets <= room
    BY <2>1, <2>2, <2>3, SendBufferAssumption
  <2>4. CASE ~(r.sendpackets <= room)
    BY <2>1, <2>2, <2>4, SendBufferAssumption
  <2>5. QED
    BY <2>3, <2>4
<1>3. f = [r EXCEPT !.sendused = r.sendused + n, !.sendpackets = r.sendpackets - n]
  BY DEF FillSendBuffer
<1> HIDE DEF n
<1>4. /\ f \in ConnectRecord
      /\ f.io = r.io /\ f.iocpref = r.iocpref /\ f.failed = r.failed /\ f.sending = r.sending
      /\ f.recving = r.recving /\ f.status = r.status
  BY <1>1, <1>2, <1>3 DEF ConnectRecord
<1>5. QED
  BY <1>4, SameSteady

(* A refused WSASend changes nothing the invariant looks at. *)
LEMMA PostSendSteady ==
  ASSUME NEW r, Steady(r), ~r.sending, NEW type \in {"DATA", "CLOSE_ACTIVE"},
         NEW posts \in BOOLEAN
  PROVE  Steady(PostSend(r, type, posts))
<1>1. CASE posts
  BY <1>1, SendPostedSteady DEF PostSend
<1>2. CASE ~posts
  <2> DEFINE s == [r EXCEPT !.packettype = type]
  <2>1. /\ s \in ConnectRecord /\ s.io = r.io /\ s.iocpref = r.iocpref /\ s.failed = r.failed
        /\ s.sending = r.sending /\ s.recving = r.recving
    BY DEF Steady, ConnectRecord
  <2>2. PostSend(r, type, posts) = s
    BY <1>2 DEF PostSend
  <2>3. QED
    BY <2>1, <2>2, SameSteady
<1>3. QED
  BY <1>1, <1>2

(* ModifySend: m_sending keeps it from posting a second send. *)
LEMMA ModifySendSteady ==
  ASSUME NEW r, Steady(r), NEW posts \in BOOLEAN
  PROVE  Steady(ModifySend(r, posts))
<1> DEFINE f == FillSendBuffer(r)
<1>1. CASE r.status = "INVALID" \/ r.sending
  BY <1>1 DEF ModifySend
<1>2. CASE r.status # "INVALID" /\ ~r.sending
  <2>1. Steady(f) /\ ~f.sending
    BY <1>2, FillSteady
  <2>2. Steady(PostSend(f, "DATA", posts)) /\ Steady(PostSend(f, "CLOSE_ACTIVE", posts))
    BY <2>1, PostSendSteady
  <2>3. ModifySend(r, posts) \in {f, PostSend(f, "DATA", posts), PostSend(f, "CLOSE_ACTIVE", posts)}
    BY <1>2 DEF ModifySend
  <2>4. QED
    BY <2>1, <2>2, <2>3
<1>3. QED
  BY <1>1, <1>2

(* ModifyRecv: m_recving keeps it from posting a second receive. *)
LEMMA ModifyRecvSteady ==
  ASSUME NEW r, Steady(r), NEW posts \in BOOLEAN
  PROVE  Steady(ModifyRecv(r, posts))
  BY RecvPostedSteady DEF ModifyRecv

(* The close of an object, which leaves it without a status. *)
LEMMA CloseEffect ==
  ASSUME NEW r \in ConnectRecord
  PROVE  /\ ModifyClose(r) \in ConnectRecord
         /\ ModifyClose(r).io = r.io /\ ModifyClose(r).iocpref = r.iocpref
         /\ ModifyClose(r).failed = r.failed
         /\ ModifyClose(r).sending = r.sending /\ ModifyClose(r).recving = r.recving
         /\ ModifyClose(r).status = "INVALID"
<1> DEFINE s == [r EXCEPT !.status = "INVALID"]
<1>1. s \in ConnectRecord
  BY DEF ConnectRecord, Statuses
<1>2. /\ s.io = r.io /\ s.iocpref = r.iocpref /\ s.failed = r.failed
      /\ s.sending = r.sending /\ s.recving = r.recving /\ s.status = "INVALID"
  BY DEF ConnectRecord
<1> HIDE DEF s
<1>3. CASE s.iocpref # 0
  BY <1>1, <1>2, <1>3 DEF ModifyClose, s
<1>4. CASE s.iocpref = 0 /\ s.closepackets > 0
  <2> DEFINE t == [s EXCEPT !.closepackets = @ - 1]
  <2>1. s.closepackets - 1 \in Nat
    BY <1>1, <1>4 DEF ConnectRecord
  <2>2. t \in ConnectRecord /\ t.io = s.io /\ t.iocpref = s.iocpref /\ t.failed = s.failed
        /\ t.sending = s.sending /\ t.recving = s.recving /\ t.status = s.status
    BY <1>1, <2>1 DEF ConnectRecord
  <2> HIDE DEF t
  <2>3. ModifyClose(r) = [t EXCEPT !.out = Append(@, "CLOSE_ACTIVE")]
    BY <1>4 DEF ModifyClose, Tell, s, t
  <2>4. Append(t.out, "CLOSE_ACTIVE") \in Seq(PacketTypes)
    BY <2>2 DEF ConnectRecord, PacketTypes
  <2>5. QED
    BY <1>2, <2>2, <2>3, <2>4 DEF ConnectRecord
<1>5. CASE s.iocpref = 0 /\ ~(s.closepackets > 0)
  <2>1. ModifyClose(r) = [s EXCEPT !.out = Append(@, "CLOSE_PASSIVE")]
    BY <1>5 DEF ModifyClose, Tell, s
  <2>2. Append(s.out, "CLOSE_PASSIVE") \in Seq(PacketTypes)
    BY <1>1 DEF ConnectRecord, PacketTypes
  <2>3. QED
    BY <1>1, <1>2, <2>1, <2>2 DEF ConnectRecord
<1>6. QED
  BY <1>3, <1>4, <1>5

(* ModifyClose in the middle of a method. *)
LEMMA ModifyCloseSteady ==
  ASSUME NEW r, Steady(r)
  PROVE  Steady(ModifyClose(r))
  BY CloseEffect, SameSteady DEF Steady

(* ModifyClose of an object in any state. *)
LEMMA ModifyCloseSound ==
  ASSUME NEW r, Sound(r)
  PROVE  Sound(ModifyClose(r))
  BY CloseEffect DEF Sound, Single, Counted, Outstanding, Busy

(* While an object is usable, its flags are right. *)
LEMMA SoundIsSteady ==
  ASSUME NEW r, Sound(r), r.status # "INVALID"
  PROVE  Steady(r)
  BY DEF Sound, Steady

(* ModifySend, and ModifyClose if it is refused. *)
LEMMA SendOrCloseSteady ==
  ASSUME NEW r, Steady(r), NEW posts \in BOOLEAN
  PROVE  Steady(SendOrClose(r, posts))
  BY ModifySendSteady, ModifyCloseSteady DEF SendOrClose

(* ModifyRecv, and ModifyClose if it is refused. *)
LEMMA RecvOrCloseSteady ==
  ASSUME NEW r, Steady(r), NEW posts \in BOOLEAN
  PROVE  Steady(RecvOrClose(r, posts))
  BY ModifyRecvSteady, ModifyCloseSteady DEF RecvOrClose

(* The same for an object in any state: a closed one is only closed again. *)
LEMMA SendOrCloseSound ==
  ASSUME NEW r, Sound(r), NEW posts \in BOOLEAN
  PROVE  Sound(SendOrClose(r, posts))
<1>1. CASE r.status = "INVALID"
  BY <1>1, ModifyCloseSound DEF SendOrClose, SendRefused, ModifySend
<1>2. CASE r.status # "INVALID"
  BY <1>2, SoundIsSteady, SendOrCloseSteady, SteadyIsSound
<1>3. QED
  BY <1>1, <1>2

(* The same for the receive. *)
LEMMA RecvOrCloseSound ==
  ASSUME NEW r, Sound(r), NEW posts \in BOOLEAN
  PROVE  Sound(RecvOrClose(r, posts))
<1>1. CASE r.status = "INVALID"
  BY <1>1, ModifyCloseSound DEF RecvOrClose, RecvRefused, ModifyRecv
<1>2. CASE r.status # "INVALID"
  BY <1>2, SoundIsSteady, RecvOrCloseSteady, SteadyIsSound
<1>3. QED
  BY <1>1, <1>2

-----------------------------------------------------------------------------
(* The methods the user calls.                                             *)

(* The status is free to change where the flags are right. *)
LEMMA StatusSteady ==
  ASSUME NEW r, Steady(r), NEW st \in Statuses
  PROVE  Steady([r EXCEPT !.status = st])
<1> DEFINE s == [r EXCEPT !.status = st]
<1>1. /\ s \in ConnectRecord /\ s.io = r.io /\ s.iocpref = r.iocpref /\ s.failed = r.failed
      /\ s.sending = r.sending /\ s.recving = r.recving
  BY DEF Steady, ConnectRecord
<1>2. QED
  BY <1>1, SameSteady

(* CConnect::Close. *)
LEMMA CloseSound ==
  ASSUME NEW r, Sound(r), NEW posts \in BOOLEAN
  PROVE  Sound(Close(r, posts))
<1>1. CASE r.status = "INVALID"
  BY <1>1 DEF Close
<1>2. CASE r.status # "INVALID"
  <2> DEFINE k == Check(r, r.closepackets = 0, "m_closepackets.Size()==1")
             q == [k EXCEPT !.closepackets = @ + 1]
  <2>1. Steady(k)
    BY <1>2, SoundIsSteady, CheckSteady DEF Assertions, OneAtATime
  <2> HIDE DEF k
  <2>2. /\ q \in ConnectRecord /\ q.io = k.io /\ q.iocpref = k.iocpref /\ q.failed = k.failed
        /\ q.sending = k.sending /\ q.recving = k.recving
    <3>1. k \in ConnectRecord /\ k.closepackets + 1 \in Nat
      BY <2>1 DEF Steady, ConnectRecord
    <3>2. QED
      BY <3>1 DEF ConnectRecord
  <2>3. Steady(q)
    BY <2>1, <2>2, SameSteady
  <2>4. Steady([SendOrClose(q, posts) EXCEPT !.status = "INVALID"])
    BY <2>3, SendOrCloseSteady, StatusSteady DEF Statuses
  <2>5. Close(r, posts) = [SendOrClose(q, posts) EXCEPT !.status = "INVALID"]
    BY <1>2 DEF Close, q, k
  <2>6. QED
    BY <2>4, <2>5, SteadyIsSound
<1>3. QED
  BY <1>1, <1>2

(* CConnect::Send. *)
LEMMA SendSound ==
  ASSUME NEW r, Sound(r), NEW n \in Nat, NEW posts \in BOOLEAN
  PROVE  Sound(Send(r, n, posts))
<1>1. CASE r.status \notin {"COMMON", "CONNECTING"}
  BY <1>1 DEF Send
<1>2. CASE r.status \in {"COMMON", "CONNECTING"}
  <2> DEFINE q == [r EXCEPT !.sendpackets = @ + n]
  <2>1. Steady(r)
    BY <1>2, SoundIsSteady
  <2>2. /\ q \in ConnectRecord /\ q.io = r.io /\ q.iocpref = r.iocpref /\ q.failed = r.failed
        /\ q.sending = r.sending /\ q.recving = r.recving
    <3>1. r \in ConnectRecord /\ r.sendpackets + n \in Nat
      BY <2>1 DEF Steady, ConnectRecord
    <3>2. QED
      BY <3>1 DEF ConnectRecord
  <2>3. Steady(q)
    BY <2>1, <2>2, SameSteady
  <2>4. QED
    BY <1>2, <2>3, SendOrCloseSteady, SteadyIsSound DEF Send
<1>3. QED
  BY <1>1, <1>2

(* The status is SS_COMMON afterwards even when the receive was refused: *)
(* the flags are still right.                                            *)
LEMMA OnConnectSound ==
  ASSUME NEW r, Sound(r), NEW posts \in BOOLEAN
  PROVE  Sound(OnConnect(r, posts))
<1> DEFINE k == Check(r, r.onConnectTimes = 0, "m_nOnConnectTimes==1")
           s == [k EXCEPT !.onConnectTimes = @ + 1]
           t == RecvOrClose(s, posts)
           u == [t EXCEPT !.status = "COMMON", !.buffered = 0]
<1>1. Sound(k)
  BY CheckSound DEF Assertions, OneAtATime
<1> HIDE DEF k
<1>2. /\ s \in ConnectRecord /\ s.io = k.io /\ s.iocpref = k.iocpref /\ s.failed = k.failed
      /\ s.sending = k.sending /\ s.recving = k.recving /\ s.status = k.status
  <2>1. k \in ConnectRecord /\ k.onConnectTimes + 1 \in Nat
    BY <1>1 DEF Sound, ConnectRecord
  <2>2. QED
    BY <2>1 DEF ConnectRecord
<1> HIDE DEF s
<1>3. Sound(s)
  BY <1>1, <1>2 DEF Sound, Single, Counted, Flagged, Outstanding, Busy
<1>4. CASE s.status # "CONNECTING"
  BY <1>3, <1>4 DEF OnConnect, s, k
<1>5. CASE s.status = "CONNECTING"
  <2>1. Steady(t)
    BY <1>3, <1>5, SoundIsSteady, RecvOrCloseSteady
  <2> HIDE DEF t
  <2>2. /\ u \in ConnectRecord /\ u.io = t.io /\ u.iocpref = t.iocpref /\ u.failed = t.failed
        /\ u.sending = t.sending /\ u.recving = t.recving
    BY <2>1 DEF Steady, ConnectRecord, Statuses
  <2>3. Steady(u)
    BY <2>1, <2>2, SameSteady
  <2>4. OnConnect(r, posts) = u
    BY <1>5 DEF OnConnect, u, t, s, k
  <2>5. QED
    BY <2>3, <2>4, SteadyIsSound
<1>6. QED
  BY <1>4, <1>5

(* The invariant looks at six fields. *)
LEMMA SameSound ==
  ASSUME NEW r, Sound(r), NEW s \in ConnectRecord,
         s.io = r.io, s.iocpref = r.iocpref, s.failed = r.failed,
         s.sending = r.sending, s.recving = r.recving, s.status = r.status
  PROVE  Sound(s)
  BY DEF Sound, Single, Counted, Flagged, Outstanding, Busy

(* A packet for the dispatcher changes nothing but the list of packets. *)
LEMMA TellType ==
  ASSUME NEW r \in ConnectRecord, NEW type \in PacketTypes
  PROVE  /\ Tell(r, type) \in ConnectRecord
         /\ Tell(r, type).io = r.io /\ Tell(r, type).iocpref = r.iocpref
         /\ Tell(r, type).failed = r.failed /\ Tell(r, type).status = r.status
         /\ Tell(r, type).sending = r.sending /\ Tell(r, type).recving = r.recving
<1>1. Append(r.out, type) \in Seq(PacketTypes)
  BY DEF ConnectRecord
<1>2. QED
  BY <1>1 DEF Tell, ConnectRecord

(* CConnect::SetCallback, with the OnConnect of an accepted connection. *)
LEMMA SetCallbackSound ==
  ASSUME NEW r, Sound(r), NEW accepted \in BOOLEAN, NEW posts \in BOOLEAN
  PROVE  Sound(SetCallback(r, accepted, posts))
<1> DEFINE k == Check(r, r.setCallbackTimes = 0, "m_nSetCallBackTimes==1")
           s == [k EXCEPT !.setCallbackTimes = @ + 1, !.callback = TRUE]
<1>1. Sound(k)
  BY CheckSound DEF Assertions, OneAtATime
<1> HIDE DEF k
<1>2. k \in ConnectRecord /\ k.setCallbackTimes + 1 \in Nat
  BY <1>1 DEF Sound, ConnectRecord
<1>3. /\ s \in ConnectRecord /\ s.io = k.io /\ s.iocpref = k.iocpref /\ s.failed = k.failed
      /\ s.sending = k.sending /\ s.recving = k.recving /\ s.status = k.status
  BY <1>2 DEF ConnectRecord
<1> HIDE DEF s
<1>4. Sound(s)
  BY <1>1, <1>3, SameSound
<1>5. WithCallback(r) = s
  BY DEF WithCallback, s, k
<1>6. QED
  BY <1>4, <1>5, OnConnectSound DEF SetCallback

(* CConnect::OnMsg. *)
LEMMA OnMsgSound ==
  ASSUME NEW r, Sound(r)
  PROVE  Sound(OnMsg(r))
<1> DEFINE s == [r EXCEPT !.buffered = @ + 1]
<1>1. r \in ConnectRecord /\ r.buffered + 1 \in Nat
  BY DEF Sound, ConnectRecord
<1>2. /\ s \in ConnectRecord /\ s.io = r.io /\ s.iocpref = r.iocpref /\ s.failed = r.failed
      /\ s.sending = r.sending /\ s.recving = r.recving /\ s.status = r.status
  BY <1>1 DEF ConnectRecord
<1>3. Sound(s)
  BY <1>2, SameSound
<1>4. QED
  BY <1>3 DEF OnMsg

-----------------------------------------------------------------------------
(* The handlers of completed operations.                                   *)

(* A completion takes one operation out of the kernel and one off m_iocpref. *)
LEMMA CompleteSound ==
  ASSUME NEW r, Sound(r), r.failed = {}, NEW op \in Ops, r.io[op] \in InKernel
  PROVE  /\ Sound(Complete(r, op))
         /\ Counted(Complete(r, op))
         /\ Complete(r, op).failed = {}
         /\ Complete(r, op).io = [r.io EXCEPT ![op] = "idle"]
         /\ Complete(r, op).status = r.status
<1> DEFINE s == Complete(r, op)
<1>1. r \in ConnectRecord /\ Counted(r) /\ r.io[op] # "idle"
  BY DEF Sound, InKernel
<1>2. r.iocpref - 1 \in Int /\ [r.io EXCEPT ![op] = "idle"] \in [Ops -> IoStates]
  BY <1>1 DEF ConnectRecord, IoStates
<1>3. /\ s \in ConnectRecord /\ s.iocpref = r.iocpref - 1 /\ s.io = [r.io EXCEPT ![op] = "idle"]
      /\ s.failed = {} /\ s.status = r.status /\ s.sending = r.sending /\ s.recving = r.recving
  BY <1>1, <1>2 DEF Complete, ConnectRecord
<1> HIDE DEF s
<1>4. \A x \in Ops : Busy(s, x) = IF x = op THEN 0 ELSE Busy(r, x)
  BY <1>1, <1>3 DEF Busy, ConnectRecord
<1>5. Busy(r, op) = 1 /\ \A x \in Ops : Busy(r, x) \in {0, 1}
  BY <1>1 DEF Busy
<1>6. Counted(s)
  <2>1. op \in {"ACCEPT", "CONNECT", "SEND", "RECV", "DISCONNECT"}
    BY DEF Ops
  <2>2. r.iocpref = Outstanding(r)
    BY <1>1 DEF Counted
  <2>3. CASE op = "ACCEPT"
    BY <1>3, <1>4, <1>5, <2>2, <2>3 DEF Counted, Outstanding, Ops
  <2>4. CASE op = "CONNECT"
    BY <1>3, <1>4, <1>5, <2>2, <2>4 DEF Counted, Outstanding, Ops
  <2>5. CASE op = "SEND"
    BY <1>3, <1>4, <1>5, <2>2, <2>5 DEF Counted, Outstanding, Ops
  <2>6. CASE op = "RECV"
    BY <1>3, <1>4, <1>5, <2>2, <2>6 DEF Counted, Outstanding, Ops
  <2>7. CASE op = "DISCONNECT"
    BY <1>3, <1>4, <1>5, <2>2, <2>7 DEF Counted, Outstanding, Ops
  <2>8. QED
    BY <2>1, <2>3, <2>4, <2>5, <2>6, <2>7
<1>7. Flagged(r) => Flagged(s)
  BY <1>1, <1>3 DEF Flagged, ConnectRecord, Ops
<1>8. Sound(s)
  BY <1>3, <1>6, <1>7 DEF Sound, Single
<1>9. QED
  BY <1>3, <1>6, <1>8 DEF s

(* With m_iocpref at 0 nothing is in the kernel. *)
LEMMA QuietIsIdle ==
  ASSUME NEW r \in ConnectRecord, Counted(r), r.iocpref = 0
  PROVE  \A op \in Ops : r.io[op] = "idle"
<1>1. \A x \in Ops : Busy(r, x) \in {0, 1}
  BY DEF Busy
<1>2. \A x \in Ops : Busy(r, x) = 0
  BY <1>1 DEF Counted, Outstanding, Ops
<1>3. QED
  BY <1>2 DEF Busy

(* A receive has completed: the flag is lowered, and the next one posted. *)
LEMMA OnSocketIOCPRecvSound ==
  ASSUME NEW r, Sound(r), r.failed = {}, r.io["RECV"] \in InKernel, NEW posts \in BOOLEAN
  PROVE  Sound(OnSocketIOCPRecv(r, posts))
<1> DEFINE c == Complete(r, "RECV")
           t == Tell(c, "DATA")
           u == [t EXCEPT !.recving = FALSE]
<1>1. Sound(c) /\ c.failed = {} /\ c.io = [r.io EXCEPT !["RECV"] = "idle"]
  BY CompleteSound DEF Ops
<1>2. c \in ConnectRecord /\ r \in ConnectRecord
  BY <1>1 DEF Sound
<1> HIDE DEF c
<1>3. /\ t \in ConnectRecord /\ t.io = c.io /\ t.iocpref = c.iocpref /\ t.failed = c.failed
      /\ t.sending = c.sending /\ t.recving = c.recving /\ t.status = c.status
  BY <1>2, TellType DEF PacketTypes
<1> HIDE DEF t
<1>4. Sound(t)
  BY <1>1, <1>3, SameSound
<1>5. u \in ConnectRecord /\ u.io = t.io /\ u.iocpref = t.iocpref /\ u.failed = t.failed
      /\ u.sending = t.sending /\ u.status = t.status
  BY <1>3 DEF ConnectRecord
<1>6. u.io["RECV"] = "idle"
  BY <1>1, <1>2, <1>3, <1>5 DEF ConnectRecord, Ops
<1> HIDE DEF u
<1>7. Sound(u)
  BY <1>4, <1>5, <1>6 DEF Sound, Single, Counted, Flagged, Outstanding, Busy
<1>8. QED
  BY <1>7, RecvOrCloseSound DEF OnSocketIOCPRecv, u, t, c

(* CancelIoEx: a cancelled operation is still to complete, and still counted. *)
LEMMA CancelIoExSound ==
  ASSUME NEW r, Sound(r)
  PROVE  Sound(CancelIoEx(r))
<1> DEFINE s == CancelIoEx(r)
           x == [r.io EXCEPT !["RECV"] = Cancelled(@), !["SEND"] = Cancelled(@)]
<1>1. r \in ConnectRecord
  BY DEF Sound
<1>2. x \in [Ops -> IoStates]
  BY <1>1 DEF ConnectRecord, IoStates, InKernel, Cancelled
<1>3. \A op \in Ops : (x[op] = "idle") <=> (r.io[op] = "idle")
  BY <1>1 DEF ConnectRecord, Cancelled, Ops
<1>4. s = [r EXCEPT !.io = x]
  BY <1>1 DEF CancelIoEx, ConnectRecord
<1> HIDE DEF x
<1>5. /\ s \in ConnectRecord /\ s.io = x /\ s.iocpref = r.iocpref /\ s.failed = r.failed
      /\ s.sending = r.sending /\ s.recving = r.recving /\ s.status = r.status
  BY <1>1, <1>2, <1>4 DEF ConnectRecord
<1> HIDE DEF s
<1>6. /\ Busy(s, "ACCEPT") = Busy(r, "ACCEPT") /\ Busy(s, "CONNECT") = Busy(r, "CONNECT")
      /\ Busy(s, "SEND") = Busy(r, "SEND") /\ Busy(s, "RECV") = Busy(r, "RECV")
      /\ Busy(s, "DISCONNECT") = Busy(r, "DISCONNECT")
  BY <1>3, <1>5 DEF Busy, Ops
<1>7. (Counted(r) => Counted(s)) /\ (Flagged(r) => Flagged(s))
  BY <1>3, <1>5, <1>6 DEF Counted, Flagged, Outstanding, Ops
<1>8. QED
  BY <1>5, <1>7 DEF Sound, Single, s

(* A send has completed: data, or the mark that everything before a close is sent. *)
LEMMA OnSocketIOCPSendSound ==
  ASSUME NEW r, Sound(r), r.failed = {}, r.io["SEND"] \in InKernel,
         NEW sent \in 0..r.sendused, NEW posts \in BOOLEAN
  PROVE  Sound(OnSocketIOCPSend(r, sent, posts))
<1> DEFINE c == Complete(r, "SEND")
           s == [c EXCEPT !.sending = FALSE]
           u == [s EXCEPT !.sendused = @ - sent]
           k == Check(s, s.closepackets = 1, "m_closepackets.Size()==1")
<1>1. Sound(c) /\ c.io = [r.io EXCEPT !["SEND"] = "idle"]
  BY CompleteSound DEF Ops
<1>2. c \in ConnectRecord /\ r \in ConnectRecord
  BY <1>1 DEF Sound
<1>3. c.sendused = r.sendused
  BY <1>2 DEF Complete, ConnectRecord
<1> HIDE DEF c
<1>4. /\ s \in ConnectRecord /\ s.io = c.io /\ s.iocpref = c.iocpref /\ s.failed = c.failed
      /\ s.recving = c.recving /\ s.status = c.status /\ s.sendused = r.sendused
  BY <1>2, <1>3 DEF ConnectRecord
<1>5. s.io["SEND"] = "idle"
  BY <1>1, <1>2, <1>4 DEF ConnectRecord, Ops
<1> HIDE DEF s
<1>6. Sound(s)
  BY <1>1, <1>4, <1>5 DEF Sound, Single, Counted, Flagged, Outstanding, Busy
<1>7. CASE r.packettype = "CLOSE_ACTIVE" /\ s.iocpref > 0
  BY <1>6, <1>7, CancelIoExSound DEF OnSocketIOCPSend, s, c
<1>8. CASE r.packettype = "CLOSE_ACTIVE" /\ ~(s.iocpref > 0)
  <2>1. Sound(k)
    BY <1>6, CheckSound DEF Assertions, OneAtATime
  <2>2. QED
    BY <1>8, <2>1, ModifyCloseSound DEF OnSocketIOCPSend, s, c
<1>9. CASE r.packettype # "CLOSE_ACTIVE"
  <2>1. s.sendused - sent \in 0..SendBuffer
    <3>1. r.sendused \in 0..SendBuffer
      BY <1>2 DEF ConnectRecord
    <3>2. QED
      BY <1>4, <3>1, SendBufferAssumption
  <2>2. /\ u \in ConnectRecord /\ u.io = s.io /\ u.iocpref = s.iocpref /\ u.failed = s.failed
        /\ u.sending = s.sending /\ u.recving = s.recving /\ u.status = s.status
    BY <1>4, <2>1 DEF ConnectRecord
  <2>3. Sound(u)
    BY <1>6, <2>2, SameSound
  <2>4. QED
    BY <1>9, <2>3, SendOrCloseSound DEF OnSocketIOCPSend, s, c
<1>10. QED
  BY <1>7, <1>8, <1>9

(* A session starts with both flags down, and nothing in the kernel. *)
LEMMA EstablishedSound ==
  ASSUME NEW r, Sound(r), Counted(r), r.failed = {} => r.iocpref = 0
  PROVE  Sound(Established(r))
<1> DEFINE s == Established(r)
<1>1. r \in ConnectRecord
  BY DEF Sound
<1>2. /\ s \in ConnectRecord /\ s.io = r.io /\ s.iocpref = r.iocpref /\ s.failed = r.failed
  BY <1>1 DEF Established, ConnectRecord, Statuses
<1> HIDE DEF s
<1>3. s.failed = {} => Flagged(s)
  BY <1>1, <1>2, QuietIsIdle DEF Flagged, Ops
<1>4. QED
  BY <1>2, <1>3 DEF Sound, Single, Counted, Outstanding, Busy, s

(* ConnectEx has completed. *)
LEMMA OnSocketIOCPConnectSound ==
  ASSUME NEW r, Sound(r), r.failed = {}, r.io["CONNECT"] \in InKernel
  PROVE  Sound(OnSocketIOCPConnect(r))
<1> DEFINE c == Complete(r, "CONNECT")
           k == Check(c, c.iocpref = 0, "m_iocpref==0")
           e == Established(k)
           t == Tell(e, "CONNECT")
<1>1. Sound(c) /\ Counted(c) /\ c.failed = {}
  BY CompleteSound DEF Ops
<1>2. c \in ConnectRecord
  BY <1>1 DEF Sound
<1> HIDE DEF c
<1>3. Sound(k)
  BY <1>1, CheckSound DEF Assertions, OneAtATime
<1>4. /\ k.io = c.io /\ k.iocpref = c.iocpref
      /\ k.failed = IF c.iocpref = 0 THEN c.failed ELSE c.failed \cup {"m_iocpref==0"}
  BY <1>2 DEF Check, ConnectRecord
<1> HIDE DEF k
<1>5. Counted(k) /\ (k.failed = {} => k.iocpref = 0)
  BY <1>1, <1>4 DEF Counted, Outstanding, Busy
<1>6. Sound(e)
  BY <1>3, <1>5, EstablishedSound
<1>7. e \in ConnectRecord
  BY <1>6 DEF Sound
<1> HIDE DEF e
<1>8. /\ t \in ConnectRecord /\ t.io = e.io /\ t.iocpref = e.iocpref /\ t.failed = e.failed
      /\ t.sending = e.sending /\ t.recving = e.recving /\ t.status = e.status
  BY <1>7, TellType DEF PacketTypes
<1>9. Sound(t)
  BY <1>6, <1>8, SameSound
<1>10. QED
  BY <1>9 DEF OnSocketIOCPConnect, t, e, k, c

(* AcceptEx has completed, for a client that is allowed or not. *)
LEMMA OnSocketIOCPAcceptSound ==
  ASSUME NEW r, Sound(r), r.failed = {}, r.io["ACCEPT"] \in InKernel,
         NEW binds \in BOOLEAN, NEW allowed \in BOOLEAN, NEW posts \in BOOLEAN
  PROVE  Sound(OnSocketIOCPAccept(r, binds, allowed, posts))
<1> DEFINE c == Complete(r, "ACCEPT")
           k == Check(c, c.iocpref = 0, "m_iocpref==0")
           e == Established(k)
           t == [e EXCEPT !.bound = @ \/ binds]
           m == ModifyRecv(t, posts)
           a == Tell(m, "ACCEPT")
<1>1. Sound(c) /\ Counted(c) /\ c.failed = {}
  BY CompleteSound DEF Ops
<1>2. c \in ConnectRecord
  BY <1>1 DEF Sound
<1> HIDE DEF c
<1>3. Sound(k)
  BY <1>1, CheckSound DEF Assertions, OneAtATime
<1>4. /\ k \in ConnectRecord /\ k.io = c.io /\ k.iocpref = c.iocpref
      /\ k.failed = IF c.iocpref = 0 THEN c.failed ELSE c.failed \cup {"m_iocpref==0"}
  BY <1>2, <1>3 DEF Check, ConnectRecord, Sound
<1> HIDE DEF k
<1>5. Counted(k) /\ (k.failed = {} => k.iocpref = 0)
  BY <1>1, <1>4 DEF Counted, Outstanding, Busy
<1>6. Sound(e)
  BY <1>3, <1>5, EstablishedSound
<1>7. e \in ConnectRecord /\ e.status = "CONNECTING"
  BY <1>4, <1>6 DEF Sound, Established, ConnectRecord
<1> HIDE DEF e
<1>8. /\ t \in ConnectRecord /\ t.io = e.io /\ t.iocpref = e.iocpref /\ t.failed = e.failed
      /\ t.sending = e.sending /\ t.recving = e.recving /\ t.status = e.status
  BY <1>7 DEF ConnectRecord
<1>9. Sound(t)
  BY <1>6, <1>8, SameSound
<1> HIDE DEF t
<1>10. Steady(m)
  BY <1>7, <1>8, <1>9, SoundIsSteady, ModifyRecvSteady
<1>11. m \in ConnectRecord
  BY <1>10 DEF Steady
<1> HIDE DEF m
<1>12. /\ a \in ConnectRecord /\ a.io = m.io /\ a.iocpref = m.iocpref /\ a.failed = m.failed
       /\ a.sending = m.sending /\ a.recving = m.recving
  BY <1>11, TellType DEF PacketTypes
<1>13. Sound(a)
  BY <1>10, <1>12, SameSteady, SteadyIsSound
<1>14. OnSocketIOCPAccept(r, binds, allowed, posts) \in {ModifyClose(k), a, ModifyClose(t)}
  BY DEF OnSocketIOCPAccept, a, m, t, e, k, c
<1>15. QED
  BY <1>3, <1>9, <1>13, <1>14, ModifyCloseSound

(* An operation has failed, or the peer has gone. *)
LEMMA OnSocketIOCPCloseSound ==
  ASSUME NEW r, Sound(r), r.failed = {}, NEW op \in Ops, r.io[op] \in InKernel,
         NEW error \in BOOLEAN
  PROVE  Sound(OnSocketIOCPClose(r, op, error))
<1> DEFINE c == Complete(r, op)
           s == [c EXCEPT !.recving = @ /\ error]
           k == Check(s, s.iocpref >= 0, "m_iocpref>=0")
<1>1. Sound(c) /\ Counted(c) /\ c.failed = {}
  BY CompleteSound
<1>2. c \in ConnectRecord
  BY <1>1 DEF Sound
<1> HIDE DEF c
<1>3. s \in ConnectRecord /\ s.io = c.io /\ s.iocpref = c.iocpref /\ s.failed = c.failed
  BY <1>2 DEF ConnectRecord
<1> HIDE DEF s
<1>4. /\ k \in ConnectRecord /\ k.io = s.io /\ k.iocpref = s.iocpref
      /\ k.failed \in {s.failed, s.failed \cup {"m_iocpref>=0"}}
  <2>1. CASE s.iocpref >= 0
    BY <1>3, <2>1 DEF Check
  <2>2. CASE ~(s.iocpref >= 0)
    <3>1. s.failed \cup {"m_iocpref>=0"} \in SUBSET Assertions
      BY <1>3 DEF ConnectRecord, Assertions
    <3>2. QED
      BY <1>3, <2>2, <3>1 DEF Check, ConnectRecord
  <2>3. QED
    BY <2>1, <2>2
<1> HIDE DEF k
<1> DEFINE m == ModifyClose(k)
<1>5. /\ m \in ConnectRecord /\ m.io = k.io /\ m.iocpref = k.iocpref /\ m.failed = k.failed
      /\ m.status = "INVALID"
  BY <1>4, CloseEffect
<1> HIDE DEF m
<1>6. Counted(m) /\ Single(m)
  BY <1>1, <1>3, <1>4, <1>5 DEF Counted, Outstanding, Busy, Single, OneAtATime
<1>7. Sound(m)
  BY <1>5, <1>6 DEF Sound
<1>8. QED
  BY <1>7 DEF OnSocketIOCPClose, m, k, s, c

(* DisconnectEx has completed. *)
LEMMA OnSocketIODisConnectSound ==
  ASSUME NEW r, Sound(r), r.failed = {}, r.io["DISCONNECT"] \in InKernel
  PROVE  Sound(OnSocketIODisConnect(r))
<1> DEFINE c == Complete(r, "DISCONNECT")
           k == Check(c, c.iocpref >= 0, "m_iocpref>=0")
           t == Tell(k, "SOCKET_REUSE")
<1>1. Sound(c)
  BY CompleteSound DEF Ops
<1> HIDE DEF c
<1>2. Sound(k)
  BY <1>1, CheckSound DEF Assertions, OneAtATime
<1>3. k \in ConnectRecord
  BY <1>2 DEF Sound
<1> HIDE DEF k
<1>4. /\ t \in ConnectRecord /\ t.io = k.io /\ t.iocpref = k.iocpref /\ t.failed = k.failed
      /\ t.sending = k.sending /\ t.recving = k.recving /\ t.status = k.status
  BY <1>3, TellType DEF PacketTypes
<1>5. Sound(t)
  BY <1>2, <1>4, SameSound
<1>6. QED
  BY <1>5 DEF OnSocketIODisConnect, t, k, c

-----------------------------------------------------------------------------
(* What the pool calls at the start and at the end of a session.           *)

(* An operation of the pool is posted: counted once, and no flag is concerned. *)
LEMMA PostSound ==
  ASSUME NEW r, Sound(r), NEW op \in {"ACCEPT", "CONNECT", "DISCONNECT"}
  PROVE  /\ Sound(Post(r, op))
         /\ Post(r, op).failed = {} => r.failed = {}
<1> DEFINE s == Post(r, op)
<1>1. r \in ConnectRecord /\ op \in Ops
  BY DEF Sound, Ops
<1>2. /\ s \in ConnectRecord /\ s.iocpref = r.iocpref + 1 /\ s.io = [r.io EXCEPT ![op] = "posted"]
      /\ s.failed = IF r.io[op] = "idle" THEN r.failed ELSE r.failed \cup {OneAtATime[op]}
      /\ s.status = r.status /\ s.sending = r.sending /\ s.recving = r.recving
  BY <1>1, PostType
<1> HIDE DEF s
<1>3. OneAtATime[op] \notin {OneAtATime["SEND"], OneAtATime["RECV"]}
  <2>1. CASE op = "ACCEPT"
    BY <2>1 DEF OneAtATime
  <2>2. CASE op = "CONNECT"
    BY <2>2 DEF OneAtATime
  <2>3. CASE op = "DISCONNECT"
    BY <2>3 DEF OneAtATime
  <2>4. QED
    BY <2>1, <2>2, <2>3
<1>4. Single(s)
  BY <1>2, <1>3 DEF Sound, Single
<1>5. ASSUME s.failed = {} PROVE r.failed = {} /\ Counted(s) /\ (Flagged(r) => Flagged(s))
  <2>1. r.failed = {} /\ r.io[op] = "idle"
    BY <1>2, <1>5
  <2>2. s.io["SEND"] = r.io["SEND"] /\ s.io["RECV"] = r.io["RECV"]
    BY <1>1, <1>2 DEF ConnectRecord, Ops
  <2>3. Flagged(r) => Flagged(s)
    BY <1>2, <2>2 DEF Flagged
  <2>4. \A x \in Ops : Busy(s, x) = IF x = op THEN 1 ELSE Busy(r, x)
    BY <1>1, <1>2, <2>1 DEF Busy, ConnectRecord
  <2>5. Busy(r, op) = 0 /\ \A x \in Ops : Busy(r, x) \in {0, 1}
    BY <2>1 DEF Busy
  <2>6. r.iocpref = Outstanding(r)
    BY <2>1 DEF Sound, Counted
  <2>7. Counted(s)
    <3>1. CASE op = "ACCEPT"
      BY <1>2, <2>4, <2>5, <2>6, <3>1 DEF Counted, Outstanding, Ops
    <3>2. CASE op = "CONNECT"
      BY <1>2, <2>4, <2>5, <2>6, <3>2 DEF Counted, Outstanding, Ops
    <3>3. CASE op = "DISCONNECT"
      BY <1>2, <2>4, <2>5, <2>6, <3>3 DEF Counted, Outstanding, Ops
    <3>4. QED
      BY <3>1, <3>2, <3>3
  <2>8. QED
    BY <2>1, <2>3, <2>7
<1>6. Sound(s)
  BY <1>2, <1>4, <1>5 DEF Sound
<1>7. QED
  BY <1>5, <1>6 DEF s

(* WaitForAccepted lowers both flags: nothing is outstanding when it may. *)
LEMMA WaitForAcceptedSound ==
  ASSUME NEW r, Sound(r)
  PROVE  Sound(WaitForAccepted(r))
<1> DEFINE k == Check(r, r.iocpref = 0, "m_iocpref==0")
           q == Post(k, "ACCEPT")
           s == WaitForAccepted(r)
<1>1. r \in ConnectRecord
  BY DEF Sound
<1>2. Sound(k)
  BY CheckSound DEF Assertions, OneAtATime
<1>3. k.io = r.io /\ (k.failed = {} => r.failed = {} /\ r.iocpref = 0)
  BY <1>1 DEF Check, ConnectRecord
<1>4. k \in ConnectRecord
  BY <1>2 DEF Sound
<1>5. s = [q EXCEPT !.socket = TRUE, !.recving = FALSE, !.sending = FALSE]
  BY DEF WaitForAccepted
<1> HIDE DEF k
<1>6. Sound(q) /\ (q.failed = {} => k.failed = {}) /\ q.io = [k.io EXCEPT !["ACCEPT"] = "posted"]
  BY <1>2, <1>4, PostSound, PostType DEF Ops
<1> HIDE DEF q
<1>7. q \in ConnectRecord
  BY <1>6 DEF Sound
<1>8. /\ s \in ConnectRecord /\ s.io = q.io /\ s.iocpref = q.iocpref /\ s.failed = q.failed
      /\ s.status = q.status
  BY <1>5, <1>7 DEF ConnectRecord
<1> HIDE DEF s
<1>9. ASSUME s.failed = {} PROVE Flagged(s)
  <2>1. r.failed = {} /\ r.iocpref = 0
    BY <1>3, <1>6, <1>8, <1>9
  <2>2. r.io["SEND"] = "idle" /\ r.io["RECV"] = "idle"
    BY <1>1, <2>1, QuietIsIdle DEF Sound, Ops
  <2>3. s.io["SEND"] = "idle" /\ s.io["RECV"] = "idle"
    BY <1>1, <1>3, <1>6, <1>8, <2>2 DEF ConnectRecord, Ops
  <2>4. QED
    BY <2>3 DEF Flagged
<1>10. QED
  BY <1>6, <1>8, <1>9 DEF Sound, Single, Counted, Outstanding, Busy, s

(* The start of an outgoing session. *)
LEMMA ConnectOutSound ==
  ASSUME NEW r, Sound(r)
  PROVE  Sound(ConnectOut(r))
<1> DEFINE k == Check(r, r.iocpref = 0, "m_iocpref==0")
           q == Post(k, "CONNECT")
           s == ConnectOut(r)
<1>1. r \in ConnectRecord
  BY DEF Sound
<1>2. Sound(k)
  BY CheckSound DEF Assertions, OneAtATime
<1>3. k.io = r.io /\ (k.failed = {} => r.failed = {} /\ r.iocpref = 0)
  BY <1>1 DEF Check, ConnectRecord
<1>4. k \in ConnectRecord
  BY <1>2 DEF Sound
<1>5. s = [q EXCEPT !.socket = TRUE, !.bound = TRUE, !.status = "CONNECTOUT"]
  BY DEF ConnectOut
<1> HIDE DEF k
<1>6. Sound(q) /\ (q.failed = {} => k.failed = {}) /\ q.io = [k.io EXCEPT !["CONNECT"] = "posted"]
  BY <1>2, <1>4, PostSound, PostType DEF Ops
<1> HIDE DEF q
<1>7. q \in ConnectRecord
  BY <1>6 DEF Sound
<1>8. s \in ConnectRecord /\ s.io = q.io /\ s.iocpref = q.iocpref /\ s.failed = q.failed
  BY <1>5, <1>7 DEF ConnectRecord, Statuses
<1> HIDE DEF s
<1>9. ASSUME s.failed = {} PROVE Flagged(s)
  <2>1. r.failed = {} /\ r.iocpref = 0
    BY <1>3, <1>6, <1>8, <1>9
  <2>2. r.io["SEND"] = "idle" /\ r.io["RECV"] = "idle"
    BY <1>1, <2>1, QuietIsIdle DEF Sound, Ops
  <2>3. s.io["SEND"] = "idle" /\ s.io["RECV"] = "idle"
    BY <1>1, <1>3, <1>6, <1>8, <2>2 DEF ConnectRecord, Ops
  <2>4. QED
    BY <2>3 DEF Flagged
<1>10. QED
  BY <1>6, <1>8, <1>9 DEF Sound, Single, Counted, Outstanding, Busy, s

(* The fields of the session are cleared; what the kernel owes stays counted. *)
LEMMA ResetSound ==
  ASSUME NEW r, Sound(r)
  PROVE  Sound(Reset(r)) /\ Reset(r).status = "INVALID" /\ Reset(r).io = r.io
<1> DEFINE s == Reset(r)
<1>1. r \in ConnectRecord
  BY DEF Sound
<1>2. /\ s \in ConnectRecord /\ s.io = r.io /\ s.iocpref = r.iocpref /\ s.failed = r.failed
      /\ s.status = "INVALID"
  <2>1. 0 \in 0..SendBuffer /\ 0 \in Nat /\ "INVALID" \in Statuses
    BY SendBufferAssumption DEF Statuses
  <2>2. s \in ConnectRecord
    BY <1>1, <2>1 DEF Reset, ConnectRecord
  <2>3. /\ s.io = r.io /\ s.iocpref = r.iocpref /\ s.failed = r.failed /\ s.status = "INVALID"
    BY <1>1 DEF Reset, ConnectRecord
  <2>4. QED
    BY <2>2, <2>3
<1> HIDE DEF s
<1>3. Sound(s)
  BY <1>2 DEF Sound, Single, Counted, Outstanding, Busy
<1>4. QED
  BY <1>2, <1>3 DEF s

(* closesocket: what was posted will complete with an error. *)
LEMMA TrueCloseSound ==
  ASSUME NEW r, Sound(r)
  PROVE  Sound(TrueClose(r))
<1> DEFINE q == Reset(r)
           x == [op \in Ops |-> Cancelled(q.io[op])]
           s == TrueClose(r)
<1>1. Sound(q) /\ q.status = "INVALID"
  BY ResetSound
<1>2. q \in ConnectRecord
  BY <1>1 DEF Sound
<1>3. s = [q EXCEPT !.socket = FALSE, !.io = x]
  BY DEF TrueClose
<1> HIDE DEF q
<1>4. x \in [Ops -> IoStates] /\ \A op \in Ops : (x[op] = "idle") <=> (q.io[op] = "idle")
  BY <1>2 DEF ConnectRecord, IoStates, InKernel, Cancelled
<1> HIDE DEF x
<1>5. /\ s \in ConnectRecord /\ s.io = x /\ s.iocpref = q.iocpref /\ s.failed = q.failed
      /\ s.status = "INVALID"
  BY <1>1, <1>2, <1>3, <1>4 DEF ConnectRecord
<1> HIDE DEF s
<1>6. /\ Busy(s, "ACCEPT") = Busy(q, "ACCEPT") /\ Busy(s, "CONNECT") = Busy(q, "CONNECT")
      /\ Busy(s, "SEND") = Busy(q, "SEND") /\ Busy(s, "RECV") = Busy(q, "RECV")
      /\ Busy(s, "DISCONNECT") = Busy(q, "DISCONNECT")
  BY <1>4, <1>5 DEF Busy, Ops
<1>7. QED
  BY <1>1, <1>5, <1>6 DEF Sound, Single, Counted, Outstanding, s

(* ReuseClose, with DisconnectEx accepted or refused. *)
LEMMA ReuseCloseSound ==
  ASSUME NEW r, Sound(r), NEW posts \in BOOLEAN
  PROVE  Sound(ReuseClose(r, posts))
<1> DEFINE k == Check(r, r.socket, "INVALID_SOCKET!=m_socket")
           s == Reset(k)
<1>1. Sound(k)
  BY CheckSound DEF Assertions, OneAtATime
<1>2. Sound(s)
  BY <1>1, ResetSound
<1>3. Sound(Check(s, s.io["DISCONNECT"] = "idle", "m_nIoDisconnect==1"))
  BY <1>2, CheckSound DEF Assertions, OneAtATime
<1>4. QED
  BY <1>2, <1>3, PostSound DEF ReuseClose

(* The object that is created in place of a deleted one. *)
LEMMA DeletedSound ==
  ASSUME NEW r, Sound(r)
  PROVE  Sound(Deleted(r))
<1> DEFINE s == Deleted(r)
           k == Check(r, r.iocpref = 0, "m_iocpref==0")
<1>1. NewConnect \in ConnectRecord /\ Steady(NewConnect)
  BY NewIsSteady DEF Steady
<1>2. k.failed \in SUBSET Assertions /\ Single(k)
  <2>1. Sound(k)
    BY CheckSound DEF Assertions, OneAtATime
  <2>2. QED
    BY <2>1 DEF Sound, ConnectRecord
<1> HIDE DEF k
<1>3. /\ s \in ConnectRecord /\ s.io = NewConnect.io /\ s.iocpref = NewConnect.iocpref
      /\ s.failed = k.failed /\ s.status = NewConnect.status
  BY <1>1, <1>2 DEF Deleted, ConnectRecord, k
<1> HIDE DEF s
<1>4. NewConnect.failed = {} /\ NewConnect.status = "INVALID"
  BY DEF NewConnect
<1>5. Counted(s)
  BY <1>1, <1>3, <1>4 DEF Steady, Counted, Outstanding, Busy
<1>6. QED
  BY <1>2, <1>3, <1>4, <1>5 DEF Sound, Single, s

-----------------------------------------------------------------------------
(* The sessions of an object: what its methods keep between the call that *)
(* begins one and the close packet that ends it.                           *)

(* The session is over for the library: nothing is outstanding and nothing can start. *)
Done(r) == r.status = "INVALID" /\ r.iocpref = 0

(* What a method hands over beyond out: a close packet exactly when it leaves the object Done. *)
Closes(s, out) ==
  IF Done(s) THEN \E x \in ClosePackets : s.out = Append(out, x) ELSE s.out = out

(* The fields the methods of a session leave alone. *)
Kept(r, s) ==
  /\ s.socket = r.socket /\ s.callback = r.callback /\ s.failed = r.failed
  /\ s.setCallbackTimes = r.setCallbackTimes /\ s.onConnectTimes = r.onConnectTimes

(* What Reset leaves, whatever is in the kernel. *)
Unused(r) ==
  /\ r.status = "INVALID" /\ ~r.callback /\ ~r.sending /\ ~r.recving
  /\ r.sendused = 0 /\ r.sendpackets = 0 /\ r.closepackets = 0 /\ r.buffered = 0
  /\ r.setCallbackTimes = 0 /\ r.onConnectTimes = 0

(* Only operations of the set are in the kernel. *)
Only(r, ops) == \A op \in Ops \ ops : r.io[op] = "idle"

(* A free object: nothing of its last session is left, and nothing is in the kernel. *)
Clean(r)         == Unused(r) /\ Only(r, {})
(* An object whose AcceptEx is posted. *)
Waiting(r)       == Unused(r) /\ r.socket /\ Only(r, {"ACCEPT"}) /\ r.io["ACCEPT"] = "posted"
(* An object whose socket is being recycled by DisconnectEx. *)
Disconnecting(r) == Unused(r) /\ r.socket /\ Only(r, {"DISCONNECT"}) /\ r.io["DISCONNECT"] = "posted"

(* An object whose ConnectEx is posted. *)
Connecting(r) ==
  /\ r.status = "CONNECTOUT" /\ r.socket /\ r.callback /\ ~r.sending /\ ~r.recving
  /\ r.sendused = 0 /\ r.sendpackets = 0 /\ r.closepackets = 0 /\ r.buffered = 0
  /\ r.setCallbackTimes = 1 /\ r.onConnectTimes = 0
  /\ Only(r, {"CONNECT"}) /\ r.io["CONNECT"] = "posted"

(* An object in a session, between any two calls that one of its methods makes. *)
Serving(r) ==
  /\ r.socket
  /\ Only(r, {"SEND", "RECV"})
  /\ r.status \in {"INVALID", "COMMON", "CONNECTING"}
  /\ r.closepackets <= 1
  /\ r.status # "INVALID" => /\ r.sending <=> r.io["SEND"] # "idle"
                             /\ r.recving <=> r.io["RECV"] # "idle"
  /\ r.io["SEND"] # "idle" /\ r.packettype = "CLOSE_ACTIVE" => r.closepackets = 1
  /\ r.setCallbackTimes = (IF r.callback THEN 1 ELSE 0)
  /\ r.onConnectTimes <= 1

(* The same between two methods: while the connection is up, data that waits has a *)
(* send in flight and a connection the user has been told of has a receive posted. *)
InSession(r) ==
  /\ Serving(r)
  /\ r.status # "INVALID" =>
       /\ r.closepackets = 0
       /\ r.sendpackets + r.sendused > 0 => r.io["SEND"] # "idle"
  /\ r.status = "CONNECTING" => r.onConnectTimes = 0
  /\ r.status = "COMMON" => r.onConnectTimes = 1 /\ r.io["RECV"] # "idle"

(* Where sessions of accepted and of outgoing objects differ: which of SetCallback and *)
(* OnConnect comes first, and when the first receive is posted.                        *)
OfKind(r, accepted) ==
  IF accepted THEN /\ r.onConnectTimes = r.setCallbackTimes
                   /\ r.status = "CONNECTING" => r.io["RECV"] # "idle"
              ELSE /\ r.setCallbackTimes = 1
                   /\ r.onConnectTimes = 0 => r.io["RECV"] = "idle"

(* ModifyClose touches the status, the close packets and the packets handed over only. *)
LEMMA ModifyCloseFields ==
  ASSUME NEW r \in ConnectRecord
  PROVE  LET s == ModifyClose(r)
         IN  /\ Kept(r, s) /\ s.status = "INVALID"
             /\ s.io = r.io /\ s.iocpref = r.iocpref
             /\ s.sending = r.sending /\ s.recving = r.recving /\ s.packettype = r.packettype
             /\ s.sendused = r.sendused /\ s.sendpackets = r.sendpackets
             /\ s.closepackets <= r.closepackets
             /\ s.iocpref # 0 => s.closepackets = r.closepackets
             /\ Closes(s, r.out)
<1> DEFINE s == [r EXCEPT !.status = "INVALID"]
<1>1. s \in ConnectRecord /\ s.closepackets = r.closepackets /\ s.iocpref = r.iocpref /\ s.out = r.out
  BY DEF ConnectRecord, Statuses
<1>2. CASE s.iocpref # 0
  <2>1. ModifyClose(r) = s
    BY <1>2 DEF ModifyClose
  <2>2. QED
    BY <1>1, <1>2, <2>1 DEF ConnectRecord, Kept, Closes, Done
<1>3. CASE s.iocpref = 0 /\ s.closepackets > 0
  <2>1. ModifyClose(r) = [s EXCEPT !.closepackets = s.closepackets - 1, !.out = Append(s.out, "CLOSE_ACTIVE")]
    BY <1>1, <1>3 DEF ModifyClose, Tell, ConnectRecord
  <2>2. QED
    BY <1>1, <1>3, <2>1 DEF ConnectRecord, Kept, Closes, Done, ClosePackets
<1>4. CASE s.iocpref = 0 /\ ~(s.closepackets > 0)
  <2>1. ModifyClose(r) = [s EXCEPT !.out = Append(s.out, "CLOSE_PASSIVE")]
    BY <1>1, <1>4 DEF ModifyClose, Tell, ConnectRecord
  <2>2. QED
    BY <1>1, <1>4, <2>1 DEF ConnectRecord, Kept, Closes, Done, ClosePackets
<1>5. QED
  BY <1>2, <1>3, <1>4

(* Posting an operation that is not in the kernel fails no assertion. *)
LEMMA PostFree ==
  ASSUME NEW r \in ConnectRecord, NEW op \in Ops, r.io[op] = "idle"
  PROVE  Post(r, op) = [r EXCEPT !.iocpref = r.iocpref + 1, !.io = [r.io EXCEPT ![op] = "posted"]]
  BY DEF Post, Check, ConnectRecord

(* FillSendBuffer moves packets, loses none, and leaves none waiting for an empty buffer. *)
LEMMA FillFields ==
  ASSUME NEW r \in ConnectRecord
  PROVE  \E u \in 0..SendBuffer, p \in Nat :
           /\ FillSendBuffer(r) = [r EXCEPT !.sendused = u, !.sendpackets = p]
           /\ u + p = r.sendused + r.sendpackets
           /\ u = 0 => p = 0
<1> DEFINE room == SendBuffer - r.sendused
           n    == IF r.sendpackets <= room THEN r.sendpackets ELSE room
<1>1. r.sendused \in 0..SendBuffer /\ r.sendpackets \in Nat
  BY DEF ConnectRecord
<1>2. /\ n \in Nat /\ r.sendused + n \in 0..SendBuffer /\ r.sendpackets - n \in Nat
      /\ r.sendused + n = 0 => r.sendpackets - n = 0
  BY <1>1, SendBufferAssumption
<1>3. FillSendBuffer(r) = [r EXCEPT !.sendused = r.sendused + n, !.sendpackets = r.sendpackets - n]
  BY DEF FillSendBuffer, ConnectRecord
<1>4. (r.sendused + n) + (r.sendpackets - n) = r.sendused + r.sendpackets
  BY <1>1, <1>2
<1> HIDE DEF n
<1>5. QED
  BY <1>2, <1>3, <1>4

(* The three outcomes of ModifySend for an object that is up and not sending. *)
LEMMA ModifySendIs ==
  ASSUME NEW r, NEW posts, r.status # "INVALID", ~r.sending, NEW f, f = FillSendBuffer(r),
         f.sendused \in Nat
  PROVE  /\ f.sendused > 0 => ModifySend(r, posts) = PostSend(f, "DATA", posts)
         /\ ~(f.sendused > 0) /\ f.sendused = 0 /\ f.closepackets > 0
              => ModifySend(r, posts) = PostSend(f, "CLOSE_ACTIVE", posts)
         /\ ~(f.sendused > 0) /\ ~(f.sendused = 0 /\ f.closepackets > 0)
              => ModifySend(r, posts) = f
<1>0. ~(f.sendused > 0 /\ f.sendused = 0)
  OBVIOUS
<1>1. CASE f.sendused > 0
  BY <1>0, <1>1, Zenon DEF ModifySend
<1>2. CASE ~(f.sendused > 0) /\ f.sendused = 0 /\ f.closepackets > 0
  BY <1>2, Zenon DEF ModifySend
<1>3. CASE ~(f.sendused > 0) /\ ~(f.sendused = 0 /\ f.closepackets > 0)
  BY <1>3, Zenon DEF ModifySend
<1>4. QED
  BY <1>1, <1>2, <1>3

(* ModifySend, and ModifyClose where it is refused, keep the object in its session; *)
(* what still waits has a send in flight.                                           *)
LEMMA SendOrCloseServes ==
  ASSUME NEW r, Sound(r), r.failed = {}, Serving(r), r.status # "INVALID", NEW posts \in BOOLEAN
  PROVE  LET s == SendOrClose(r, posts)
         IN  /\ Serving(s) /\ Kept(r, s) /\ Closes(s, r.out)
             /\ s.status \in {r.status, "INVALID"} /\ s.io["RECV"] = r.io["RECV"]
             /\ s.status # "INVALID" =>
                  /\ s.closepackets = r.closepackets
                  /\ s.sendpackets + s.sendused + s.closepackets > 0 => s.io["SEND"] # "idle"
<1>1. r \in ConnectRecord /\ Counted(r)
  BY DEF Sound
<1>2. PICK u \in 0..SendBuffer, p \in Nat :
           /\ FillSendBuffer(r) = [r EXCEPT !.sendused = u, !.sendpackets = p]
           /\ u + p = r.sendused + r.sendpackets
           /\ u = 0 => p = 0
  BY <1>1, FillFields
<1> DEFINE f == [r EXCEPT !.sendused = u, !.sendpackets = p]
<1>3. f \in ConnectRecord
  BY <1>1 DEF ConnectRecord
<1>4. CASE r.sending
  <2>1. SendOrClose(r, posts) = r
    BY <1>4 DEF SendOrClose, ModifySend, SendRefused
  <2>2. QED
    BY <1>1, <1>4, <2>1 DEF Serving, Kept, Closes, Done
<1> DEFINE m == ModifySend(r, posts)
<1>5. /\ u > 0 /\ ~r.sending => m = PostSend(f, "DATA", posts)
      /\ u = 0 /\ r.closepackets > 0 /\ ~r.sending => m = PostSend(f, "CLOSE_ACTIVE", posts)
      /\ u = 0 /\ r.closepackets = 0 /\ ~r.sending => m = f
  <2>1. f.sendused = u /\ f.closepackets = r.closepackets /\ r.closepackets \in Nat /\ u \in Nat
    BY <1>1, SendBufferAssumption DEF ConnectRecord
  <2>2. f = FillSendBuffer(r)
    BY <1>2
  <2> HIDE DEF f
  <2>3. QED
    BY <2>1, <2>2, ModifySendIs
<1>6. CASE ~r.sending /\ u + r.closepackets > 0 /\ posts
  <2> DEFINE x == IF u > 0 THEN "DATA" ELSE "CLOSE_ACTIVE"
             n == [f EXCEPT !.iocpref = r.iocpref + 1, !.io = [r.io EXCEPT !["SEND"] = "posted"],
                            !.sending = TRUE, !.packettype = x]
  <2>0. r.closepackets \in Nat /\ u \in Nat
    BY <1>1, SendBufferAssumption DEF ConnectRecord
  <2>1. m = PostSend(f, x, posts)
    <3>1. CASE u > 0
      BY <1>5, <1>6, <3>1
    <3>2. CASE u = 0
      <4>1. r.closepackets > 0 /\ x = "CLOSE_ACTIVE"
        BY <1>6, <2>0, <3>2
      <4>2. QED
        BY <1>5, <1>6, <3>2, <4>1
    <3>3. QED
      BY <2>0, <3>1, <3>2
  <2>2. f.io["SEND"] = "idle"
    BY <1>1, <1>6 DEF Serving, ConnectRecord
  <2>3. PostSend(f, x, posts) = n
    BY <1>1, <1>3, <1>6, <2>2, PostFree DEF PostSend, Ops, ConnectRecord
  <2>4. SendOrClose(r, posts) = n
    BY <1>6, <2>1, <2>3 DEF SendOrClose, SendRefused
  <2>5. n.io["SEND"] = "posted" /\ n.io["RECV"] = r.io["RECV"] /\ Only(n, {"SEND", "RECV"})
    BY <1>1 DEF ConnectRecord, Ops, Only, Serving
  <2>6. n.iocpref # 0 \/ n.status # "INVALID"
    BY <1>1 DEF ConnectRecord
  <2>7. n.packettype = "CLOSE_ACTIVE" => r.closepackets = 1
    BY <1>1, <1>6, <2>0 DEF ConnectRecord, Serving
  <2>8. /\ Kept(r, n) /\ n.status = r.status /\ n.closepackets = r.closepackets
        /\ n.sending /\ n.recving = r.recving /\ n.out = r.out
    BY <1>1 DEF ConnectRecord, Kept
  <2> HIDE DEF x, n
  <2>9. QED
    BY <1>1, <1>6, <2>4, <2>5, <2>6, <2>7, <2>8 DEF Serving, Kept, Closes, Done
<1>7. CASE ~r.sending /\ u + r.closepackets = 0
  <2>1. SendOrClose(r, posts) = f
    BY <1>1, <1>2, <1>5, <1>7 DEF SendOrClose, SendRefused, ConnectRecord
  <2>2. /\ Kept(r, f) /\ f.status = r.status /\ f.closepackets = r.closepackets /\ f.io = r.io
        /\ f.sending = r.sending /\ f.recving = r.recving /\ f.out = r.out /\ f.packettype = r.packettype
        /\ f.sendused = u /\ f.sendpackets = p
    BY <1>1 DEF ConnectRecord, Kept
  <2>3. u = 0 /\ p = 0 /\ r.closepackets = 0
    BY <1>1, <1>2, <1>7, SendBufferAssumption DEF ConnectRecord
  <2> HIDE DEF f, m
  <2>4. QED
    BY <2>1, <2>2, <2>3 DEF Serving, Kept, Closes, Done, Only
<1>8. CASE ~r.sending /\ u + r.closepackets > 0 /\ ~posts
  <2> DEFINE x == IF u > 0 THEN "DATA" ELSE "CLOSE_ACTIVE"
             n == [f EXCEPT !.packettype = x]
  <2>0. r.closepackets \in Nat /\ u \in Nat /\ r.sendused \in Nat /\ r.sendpackets \in Nat
    BY <1>1, SendBufferAssumption DEF ConnectRecord
  <2>1. m = PostSend(f, x, posts)
    <3>1. CASE u > 0
      BY <1>5, <1>8, <3>1
    <3>2. CASE u = 0
      BY <1>5, <1>8, <2>0, <3>2
    <3>3. QED
      BY <2>0, <3>1, <3>2
  <2>2. m = n
    BY <1>8, <2>1 DEF PostSend
  <2>3. SendOrClose(r, posts) = ModifyClose(n)
    BY <1>2, <1>8, <2>0, <2>2 DEF SendOrClose, SendRefused
  <2>4. n \in ConnectRecord
    BY <1>3 DEF ConnectRecord
  <2>5. /\ n.io = r.io /\ n.iocpref = r.iocpref /\ Kept(r, n) /\ n.closepackets = r.closepackets
        /\ n.out = r.out /\ r.closepackets \in Nat
    BY <1>1 DEF ConnectRecord, Kept
  <2>6. r.io["SEND"] = "idle"
    BY <1>8 DEF Serving
  <2> HIDE DEF n, x, m, f
  <2> DEFINE s == ModifyClose(n)
  <2>7. /\ Kept(n, s) /\ s.status = "INVALID" /\ s.io = n.io /\ s.iocpref = n.iocpref
        /\ s.closepackets <= n.closepackets /\ Closes(s, n.out)
    BY <2>4, ModifyCloseFields
  <2>8. s.closepackets \in Nat
    BY <2>4, CloseEffect DEF ConnectRecord
  <2> HIDE DEF s
  <2>9. s.closepackets <= 1
    BY <2>5, <2>7, <2>8 DEF Serving
  <2>10. Serving(s)
    BY <2>5, <2>6, <2>7, <2>9 DEF Serving, Kept, Only
  <2>11. Kept(r, s) /\ Closes(s, r.out)
    BY <2>5, <2>7 DEF Kept, Closes
  <2>12. QED
    BY <2>3, <2>5, <2>7, <2>10, <2>11 DEF s
<1>9. u + r.closepackets \in Nat
  BY <1>1, SendBufferAssumption DEF ConnectRecord
<1>10. QED
  BY <1>4, <1>6, <1>7, <1>8, <1>9

(* An operation in the kernel keeps m_iocpref from 0. *)
LEMMA BusyIsCounted ==
  ASSUME NEW r, Sound(r), r.failed = {}, NEW op \in Ops, r.io[op] # "idle"
  PROVE  r.iocpref # 0
  BY QuietIsIdle DEF Sound

(* ModifyRecv, and ModifyClose where it is refused: a receive is posted or the *)
(* connection is down.                                                         *)
LEMMA RecvOrCloseServes ==
  ASSUME NEW r, Sound(r), r.failed = {}, Serving(r), r.status # "INVALID", NEW posts \in BOOLEAN
  PROVE  LET s == RecvOrClose(r, posts)
         IN  /\ Serving(s) /\ Kept(r, s) /\ Closes(s, r.out)
             /\ s.status \in {r.status, "INVALID"}
             /\ s.status # "INVALID" =>
                  /\ s.closepackets = r.closepackets /\ s.sendused = r.sendused
                  /\ s.sendpackets = r.sendpackets /\ s.io["SEND"] = r.io["SEND"]
                  /\ s.io["RECV"] # "idle"
             /\ posts \/ r.recving => s.status = r.status
<1>1. r \in ConnectRecord /\ Counted(r)
  BY DEF Sound
<1>2. CASE r.recving
  <2>1. RecvOrClose(r, posts) = r
    BY <1>2 DEF RecvOrClose, ModifyRecv, RecvRefused
  <2>2. QED
    BY <1>1, <1>2, <2>1 DEF Serving, Kept, Closes, Done
<1>3. CASE ~r.recving /\ posts
  <2> DEFINE n == [r EXCEPT !.iocpref = r.iocpref + 1, !.io = [r.io EXCEPT !["RECV"] = "posted"],
                            !.recving = TRUE]
  <2>1. r.io["RECV"] = "idle"
    BY <1>3 DEF Serving
  <2>2. [Post(r, "RECV") EXCEPT !.recving = TRUE] = n
    BY <1>1, <2>1, PostFree DEF Ops, ConnectRecord
  <2>3. RecvOrClose(r, posts) = n
    BY <1>3, <2>2 DEF RecvOrClose, RecvRefused, ModifyRecv
  <2>4. n.io["RECV"] = "posted" /\ n.io["SEND"] = r.io["SEND"] /\ Only(n, {"SEND", "RECV"})
    BY <1>1 DEF ConnectRecord, Ops, Only, Serving
  <2>5. /\ Kept(r, n) /\ n.status = r.status /\ n.closepackets = r.closepackets /\ n.sendused = r.sendused
        /\ n.sendpackets = r.sendpackets /\ n.sending = r.sending /\ n.recving /\ n.out = r.out
        /\ n.packettype = r.packettype
    BY <1>1 DEF ConnectRecord, Kept
  <2> HIDE DEF n
  <2>6. QED
    BY <2>3, <2>4, <2>5 DEF Serving, Kept, Closes, Done
<1>4. CASE ~r.recving /\ ~posts
  <2> DEFINE s == ModifyClose(r)
  <2>1. RecvOrClose(r, posts) = s
    BY <1>4 DEF RecvOrClose, RecvRefused, ModifyRecv
  <2>2. /\ Kept(r, s) /\ s.status = "INVALID" /\ s.io = r.io /\ s.iocpref = r.iocpref
        /\ s.closepackets <= r.closepackets /\ s.packettype = r.packettype
        /\ s.iocpref # 0 => s.closepackets = r.closepackets
        /\ Closes(s, r.out)
    BY <1>1, ModifyCloseFields
  <2>3. s.closepackets \in Nat /\ r.closepackets \in Nat
    BY <1>1, CloseEffect DEF ConnectRecord
  <2>4. r.io["SEND"] # "idle" => r.iocpref # 0
    BY BusyIsCounted DEF Ops
  <2> HIDE DEF s
  <2>5. Serving(s)
    BY <2>2, <2>3, <2>4 DEF Serving, Kept, Only
  <2>6. QED
    BY <1>4, <2>1, <2>2, <2>5
<1>5. QED
  BY <1>2, <1>3, <1>4

(* ModifyClose leaves the object in a session that is down. *)
LEMMA ModifyCloseServes ==
  ASSUME NEW r, Sound(r), r.failed = {}, Serving(r)
  PROVE  LET s == ModifyClose(r)
         IN  /\ InSession(s) /\ Kept(r, s) /\ Closes(s, r.out) /\ s.status = "INVALID" /\ s.io = r.io
<1> DEFINE s == ModifyClose(r)
<1>1. r \in ConnectRecord /\ Counted(r)
  BY DEF Sound
<1>2. /\ Kept(r, s) /\ s.status = "INVALID" /\ s.io = r.io /\ s.iocpref = r.iocpref
      /\ s.closepackets <= r.closepackets /\ s.packettype = r.packettype
      /\ s.iocpref # 0 => s.closepackets = r.closepackets
      /\ Closes(s, r.out)
  BY <1>1, ModifyCloseFields
<1>3. s.closepackets \in Nat /\ r.closepackets \in Nat
  BY <1>1, CloseEffect DEF ConnectRecord
<1>4. r.io["SEND"] # "idle" => r.iocpref # 0
  BY BusyIsCounted DEF Ops
<1> HIDE DEF s
<1>5. Serving(s)
  BY <1>2, <1>3, <1>4 DEF Serving, Kept, Only
<1>6. QED
  BY <1>2, <1>5 DEF InSession, s

(* Close takes the connection down, and says so when nothing is outstanding. *)
LEMMA CloseServes ==
  ASSUME NEW r, Sound(r), r.failed = {}, InSession(r), r.status # "INVALID", NEW posts \in BOOLEAN
  PROVE  LET s == Close(r, posts)
         IN  /\ InSession(s) /\ Kept(r, s) /\ Closes(s, r.out) /\ s.status = "INVALID"
             /\ s.io["RECV"] = r.io["RECV"]
<1> DEFINE q == [r EXCEPT !.closepackets = r.closepackets + 1]
           t == SendOrClose(q, posts)
           s == [t EXCEPT !.status = "INVALID"]
<1>1. r \in ConnectRecord /\ r.closepackets = 0
  BY DEF Sound, InSession
<1>2. Close(r, posts) = s
  BY <1>1 DEF Close, Check, ConnectRecord
<1>3. /\ q \in ConnectRecord /\ q.io = r.io /\ q.iocpref = r.iocpref /\ q.failed = r.failed
      /\ q.sending = r.sending /\ q.recving = r.recving /\ q.status = r.status
      /\ q.closepackets = 1 /\ q.packettype = r.packettype /\ Kept(r, q) /\ q.out = r.out
  BY <1>1 DEF ConnectRecord, Kept
<1> HIDE DEF q
<1>4. Sound(q)
  BY <1>3, SameSound
<1>5. Serving(q)
  BY <1>3 DEF InSession, Serving, Kept, Only
<1>6. /\ Serving(t) /\ Kept(q, t) /\ Closes(t, q.out) /\ t.io["RECV"] = q.io["RECV"]
      /\ t.status # "INVALID" =>
           /\ t.closepackets = q.closepackets
           /\ t.sendpackets + t.sendused + t.closepackets > 0 => t.io["SEND"] # "idle"
  BY <1>3, <1>4, <1>5, SendOrCloseServes
<1>7. Sound(t) /\ t.failed = {}
  BY <1>3, <1>4, <1>6, SendOrCloseSound DEF Kept
<1>8. t \in ConnectRecord
  BY <1>7 DEF Sound
<1>9. t.status # "INVALID" => t.iocpref # 0
  <2>1. t.sendpackets \in Nat /\ t.sendused \in Nat
    BY <1>8, SendBufferAssumption DEF ConnectRecord
  <2>2. t.status # "INVALID" => t.io["SEND"] # "idle"
    BY <1>3, <1>6, <2>1
  <2>3. QED
    BY <1>7, <2>2, BusyIsCounted DEF Ops
<1> HIDE DEF t
<1>10. /\ s.io = t.io /\ s.iocpref = t.iocpref /\ Kept(t, s) /\ s.closepackets = t.closepackets
       /\ s.packettype = t.packettype /\ s.out = t.out /\ s.status = "INVALID"
  BY <1>8 DEF ConnectRecord, Kept
<1> HIDE DEF s
<1>11. Serving(s) /\ InSession(s)
  BY <1>6, <1>10 DEF Serving, InSession, Kept, Only
<1>12. Closes(s, r.out)
  BY <1>3, <1>6, <1>9, <1>10 DEF Closes, Done
<1>13. Kept(r, s)
  BY <1>3, <1>6, <1>10 DEF Kept
<1>14. QED
  BY <1>2, <1>3, <1>6, <1>10, <1>11, <1>12, <1>13

(* Send strands nothing: a send is in flight afterwards, or the connection is down. *)
LEMMA SendServes ==
  ASSUME NEW r, Sound(r), r.failed = {}, InSession(r), r.status # "INVALID",
         NEW n \in Nat, NEW posts \in BOOLEAN
  PROVE  LET s == Send(r, n, posts)
         IN  /\ InSession(s) /\ Kept(r, s) /\ Closes(s, r.out) /\ s.status \in {r.status, "INVALID"}
             /\ s.io["RECV"] = r.io["RECV"]
<1> DEFINE q == [r EXCEPT !.sendpackets = r.sendpackets + n]
           s == SendOrClose(q, posts)
<1>1. r \in ConnectRecord /\ r.closepackets = 0 /\ r.status \in {"COMMON", "CONNECTING"}
  BY DEF Sound, InSession, Serving
<1>2. Send(r, n, posts) = s
  BY <1>1 DEF Send
<1>0. r.sendpackets + n \in Nat
  BY <1>1 DEF ConnectRecord
<1>3. /\ q \in ConnectRecord /\ q.io = r.io /\ q.iocpref = r.iocpref /\ q.failed = r.failed
      /\ q.sending = r.sending /\ q.recving = r.recving /\ q.status = r.status
      /\ q.closepackets = 0 /\ q.packettype = r.packettype /\ Kept(r, q) /\ q.out = r.out
  BY <1>0, <1>1 DEF ConnectRecord, Kept
<1> HIDE DEF q
<1>4. Sound(q)
  BY <1>3, SameSound
<1>5. Serving(q)
  BY <1>3 DEF InSession, Serving, Kept, Only
<1>6. /\ Serving(s) /\ Kept(q, s) /\ Closes(s, q.out) /\ s.io["RECV"] = q.io["RECV"]
      /\ s.status \in {q.status, "INVALID"}
      /\ s.status # "INVALID" =>
           /\ s.closepackets = q.closepackets
           /\ s.sendpackets + s.sendused + s.closepackets > 0 => s.io["SEND"] # "idle"
  BY <1>3, <1>4, <1>5, SendOrCloseServes
<1>7. Sound(s)
  BY <1>4, SendOrCloseSound
<1>8. s.sendpackets \in Nat /\ s.sendused \in Nat
  BY <1>7, SendBufferAssumption DEF Sound, ConnectRecord
<1> HIDE DEF s
<1>9. s.status # "INVALID" => s.status = r.status /\ s.closepackets = 0
  BY <1>3, <1>6
<1>10. s.status # "INVALID" /\ s.sendpackets + s.sendused > 0 => s.io["SEND"] # "idle"
  BY <1>6, <1>8, <1>9
<1>11. s.onConnectTimes = r.onConnectTimes /\ s.io["RECV"] = r.io["RECV"]
  BY <1>3, <1>6 DEF Kept
<1>12. InSession(s)
  BY <1>6, <1>9, <1>10, <1>11 DEF InSession
<1>13. QED
  BY <1>2, <1>3, <1>6, <1>12 DEF Kept

(* OnConnect makes a connection that is up common, with a receive posted. *)
LEMMA OnConnectServes ==
  ASSUME NEW r, Sound(r), r.failed = {}, InSession(r), r.onConnectTimes = 0,
         NEW posts \in BOOLEAN, posts \/ (r.status = "CONNECTING" => r.io["RECV"] # "idle")
  PROVE  LET s == OnConnect(r, posts)
         IN  /\ InSession(s) /\ s.failed = {} /\ s.onConnectTimes = 1
             /\ s.callback = r.callback /\ s.setCallbackTimes = r.setCallbackTimes
             /\ s.status = IF r.status = "CONNECTING" THEN "COMMON" ELSE r.status
             /\ Done(s) <=> Done(r)
             /\ s.out = r.out
<1> DEFINE q == [r EXCEPT !.onConnectTimes = 1]
           t == RecvOrClose(q, posts)
           u == [t EXCEPT !.status = "COMMON", !.buffered = 0]
<1>1. r \in ConnectRecord
  BY DEF Sound
<1>2. [Check(r, r.onConnectTimes = 0, "m_nOnConnectTimes==1") EXCEPT !.onConnectTimes = @ + 1] = q
  BY <1>1 DEF Check, ConnectRecord
<1>3. /\ q \in ConnectRecord /\ q.io = r.io /\ q.iocpref = r.iocpref /\ q.failed = r.failed
      /\ q.sending = r.sending /\ q.recving = r.recving /\ q.status = r.status
      /\ q.closepackets = r.closepackets /\ q.packettype = r.packettype /\ q.out = r.out
      /\ q.sendused = r.sendused /\ q.sendpackets = r.sendpackets
      /\ q.socket = r.socket /\ q.callback = r.callback /\ q.setCallbackTimes = r.setCallbackTimes
      /\ q.onConnectTimes = 1
  BY <1>1 DEF ConnectRecord
<1>4. CASE r.status # "CONNECTING"
  <2>1. OnConnect(r, posts) = q
    BY <1>2, <1>3, <1>4 DEF OnConnect
  <2>2. r.status = "INVALID"
    BY <1>4 DEF InSession, Serving
  <2> HIDE DEF q
  <2>3. InSession(q)
    BY <1>3, <2>2 DEF InSession, Serving, Only
  <2>4. QED
    BY <1>3, <1>4, <2>1, <2>3 DEF Done
<1>5. CASE r.status = "CONNECTING"
  <2>1. OnConnect(r, posts) = u
    BY <1>2, <1>3, <1>5 DEF OnConnect
  <2> HIDE DEF q
  <2>2. Sound(q)
    BY <1>3, SameSound
  <2>3. Serving(q) /\ (posts \/ q.recving)
    BY <1>3, <1>5 DEF InSession, Serving, Only
  <2>4. /\ Serving(t) /\ Kept(q, t) /\ Closes(t, q.out) /\ t.status = "CONNECTING"
        /\ t.closepackets = q.closepackets /\ t.sendused = q.sendused
        /\ t.sendpackets = q.sendpackets /\ t.io["SEND"] = q.io["SEND"] /\ t.io["RECV"] # "idle"
    BY <1>3, <1>5, <2>2, <2>3, RecvOrCloseServes
  <2>5. t \in ConnectRecord
    BY <2>2, RecvOrCloseSound DEF Sound
  <2> HIDE DEF t
  <2>6. /\ u.io = t.io /\ Kept(t, u) /\ u.closepackets = t.closepackets /\ u.sending = t.sending
        /\ u.recving = t.recving /\ u.sendused = t.sendused /\ u.sendpackets = t.sendpackets
        /\ u.packettype = t.packettype /\ u.out = t.out /\ u.status = "COMMON"
    BY <2>5 DEF ConnectRecord, Kept
  <2> HIDE DEF u
  <2>7. Serving(u)
    BY <2>4, <2>6 DEF Serving, Kept, Only
  <2>8. u.closepackets = 0 /\ (u.sendpackets + u.sendused > 0 => u.io["SEND"] # "idle")
    BY <1>3, <1>5, <2>4, <2>6 DEF InSession
  <2>9. u.onConnectTimes = 1 /\ u.io["RECV"] # "idle"
    BY <1>3, <2>4, <2>6 DEF Kept
  <2>10. InSession(u)
    BY <2>6, <2>7, <2>8, <2>9 DEF InSession
  <2>11. u.out = r.out
    BY <1>3, <2>4, <2>6 DEF Closes, Done
  <2>12. QED
    BY <1>3, <1>5, <2>1, <2>4, <2>6, <2>9, <2>10, <2>11 DEF Kept, Done
<1>6. QED
  BY <1>4, <1>5

(* SetCallback of an accepted connection, which calls OnConnect. *)
LEMMA SetCallbackServes ==
  ASSUME NEW r, Sound(r), r.failed = {}, InSession(r), ~r.callback, r.onConnectTimes = 0,
         NEW posts \in BOOLEAN, r.status = "CONNECTING" => r.io["RECV"] # "idle"
  PROVE  LET s == SetCallback(r, TRUE, posts)
         IN  /\ InSession(s) /\ s.failed = {} /\ s.onConnectTimes = 1
             /\ s.callback /\ s.setCallbackTimes = 1
             /\ s.status = IF r.status = "CONNECTING" THEN "COMMON" ELSE r.status
             /\ Done(s) <=> Done(r)
             /\ s.out = r.out
<1> DEFINE q == [r EXCEPT !.setCallbackTimes = 1, !.callback = TRUE]
<1>1. r \in ConnectRecord /\ r.setCallbackTimes = 0
  BY DEF Sound, InSession, Serving
<1>2. WithCallback(r) = q
  <2>1. Check(r, r.setCallbackTimes = 0, "m_nSetCallBackTimes==1") = r
    BY <1>1 DEF Check
  <2>2. r.setCallbackTimes + 1 = 1
    BY <1>1
  <2>3. WithCallback(r) = [r EXCEPT !.setCallbackTimes = r.setCallbackTimes + 1, !.callback = TRUE]
    BY <2>1, Zenon DEF WithCallback
  <2>4. QED
    BY <2>2, <2>3
<1>3. /\ q \in ConnectRecord /\ q.io = r.io /\ q.iocpref = r.iocpref /\ q.failed = r.failed
      /\ q.sending = r.sending /\ q.recving = r.recving /\ q.status = r.status
      /\ q.closepackets = r.closepackets /\ q.packettype = r.packettype /\ q.out = r.out
      /\ q.sendused = r.sendused /\ q.sendpackets = r.sendpackets
      /\ q.socket = r.socket /\ q.callback /\ q.setCallbackTimes = 1
      /\ q.onConnectTimes = r.onConnectTimes
  BY <1>1 DEF ConnectRecord
<1>4. SetCallback(r, TRUE, posts) = OnConnect(q, posts)
  BY <1>2 DEF SetCallback
<1> HIDE DEF q
<1>5. Sound(q)
  BY <1>3, SameSound
<1>6. InSession(q)
  BY <1>3 DEF InSession, Serving, Only
<1> DEFINE s == OnConnect(q, posts)
<1>7. /\ InSession(s) /\ s.failed = {} /\ s.onConnectTimes = 1
      /\ s.callback = q.callback /\ s.setCallbackTimes = q.setCallbackTimes
      /\ s.status = IF q.status = "CONNECTING" THEN "COMMON" ELSE q.status
      /\ Done(s) <=> Done(q)
      /\ s.out = q.out
  <2>1. q.status = "CONNECTING" => q.io["RECV"] # "idle"
    BY <1>3
  <2>2. q.onConnectTimes = 0 /\ q.failed = {}
    BY <1>3
  <2> HIDE DEF s
  <2>3. QED
    BY <1>5, <1>6, <2>1, <2>2, OnConnectServes DEF s
<1>8. Done(q) <=> Done(r)
  BY <1>3 DEF Done
<1> HIDE DEF s
<1>9. QED
  BY <1>3, <1>4, <1>7, <1>8 DEF s

(* OnMsg only consumes what was received. *)
LEMMA OnMsgServes ==
  ASSUME NEW r, Sound(r), InSession(r)
  PROVE  LET s == OnMsg(r)
         IN  /\ InSession(s) /\ Kept(r, s) /\ s.status = r.status /\ s.io = r.io /\ s.iocpref = r.iocpref
             /\ s.out = r.out
<1> DEFINE q == [r EXCEPT !.buffered = @ + 1]
<1>1. r \in ConnectRecord
  BY DEF Sound
<1>2. /\ q.io = r.io /\ q.iocpref = r.iocpref /\ q.failed = r.failed
      /\ q.sending = r.sending /\ q.recving = r.recving /\ q.status = r.status
      /\ q.closepackets = r.closepackets /\ q.packettype = r.packettype /\ q.out = r.out
      /\ q.sendused = r.sendused /\ q.sendpackets = r.sendpackets
      /\ Kept(r, q)
  BY <1>1 DEF ConnectRecord, Kept
<1>3. OnMsg(r) = q \/ OnMsg(r) = r
  BY DEF OnMsg
<1> HIDE DEF q
<1>4. InSession(q)
  BY <1>2 DEF InSession, Serving, Only, Kept
<1>5. QED
  BY <1>2, <1>3, <1>4 DEF Kept

(* Taking a completion: one operation less in the kernel, nothing else changed. *)
LEMMA CompleteFields ==
  ASSUME NEW r, Sound(r), r.failed = {}, NEW op \in Ops, r.io[op] \in InKernel
  PROVE  LET s == Complete(r, op)
         IN  /\ Sound(s) /\ s \in ConnectRecord /\ Counted(s) /\ Kept(r, s)
             /\ s.io[op] = "idle" /\ \A x \in Ops \ {op} : s.io[x] = r.io[x]
             /\ s.status = r.status /\ s.sending = r.sending /\ s.recving = r.recving
             /\ s.packettype = r.packettype /\ s.closepackets = r.closepackets /\ s.out = r.out
             /\ s.sendused = r.sendused /\ s.sendpackets = r.sendpackets /\ s.bound = r.bound
             /\ s.buffered = r.buffered
<1> DEFINE s == Complete(r, op)
<1>1. r \in ConnectRecord
  BY DEF Sound
<1>2. Sound(s) /\ Counted(s) /\ s \in ConnectRecord
  BY CompleteSound DEF Sound
<1>3. s = [r EXCEPT !.iocpref = r.iocpref - 1, !.io = [r.io EXCEPT ![op] = "idle"]]
  BY <1>1 DEF Complete, ConnectRecord
<1> HIDE DEF s
<1>4. s.io[op] = "idle" /\ \A x \in Ops \ {op} : s.io[x] = r.io[x]
  BY <1>1, <1>3 DEF ConnectRecord
<1>5. QED
  BY <1>1, <1>2, <1>3, <1>4 DEF ConnectRecord, Kept, s

(* A receive completes: its data is handed over, then the next receive is posted or the *)
(* connection goes down.                                                                *)
LEMMA RecvServes ==
  ASSUME NEW r, Sound(r), r.failed = {}, InSession(r), r.io["RECV"] \in InKernel, NEW posts \in BOOLEAN
  PROVE  LET s == OnSocketIOCPRecv(r, posts)
         IN  /\ InSession(s) /\ Kept(r, s) /\ Closes(s, Append(r.out, "DATA"))
             /\ s.status \in {r.status, "INVALID"}
             /\ s.status # "INVALID" => s.io["RECV"] # "idle"
<1> DEFINE c == Complete(r, "RECV")
           q == [c EXCEPT !.out = Append(c.out, "DATA"), !.recving = FALSE]
           s == RecvOrClose(q, posts)
<1>1. /\ c \in ConnectRecord /\ Counted(c) /\ Kept(r, c) /\ Sound(c)
      /\ c.io["RECV"] = "idle" /\ \A x \in Ops \ {"RECV"} : c.io[x] = r.io[x]
      /\ c.status = r.status /\ c.sending = r.sending
      /\ c.packettype = r.packettype /\ c.closepackets = r.closepackets /\ c.out = r.out
      /\ c.sendused = r.sendused /\ c.sendpackets = r.sendpackets
  <2>1. "RECV" \in Ops
    BY DEF Ops
  <2>2. LET n == Complete(r, "RECV")
        IN  /\ Sound(n) /\ n \in ConnectRecord /\ Counted(n) /\ Kept(r, n)
            /\ n.io["RECV"] = "idle" /\ \A x \in Ops \ {"RECV"} : n.io[x] = r.io[x]
            /\ n.status = r.status /\ n.sending = r.sending /\ n.recving = r.recving
            /\ n.packettype = r.packettype /\ n.closepackets = r.closepackets /\ n.out = r.out
            /\ n.sendused = r.sendused /\ n.sendpackets = r.sendpackets
    BY <2>1, CompleteFields
  <2>3. QED
    BY <2>2
<1> HIDE DEF c
<1>2. Append(c.out, "DATA") \in Seq(PacketTypes)
  BY <1>1 DEF ConnectRecord, PacketTypes
<1>3. [Tell(c, "DATA") EXCEPT !.recving = FALSE] = q
  BY <1>1, <1>2 DEF Tell, ConnectRecord
<1>4. /\ q \in ConnectRecord /\ q.iocpref = c.iocpref /\ q.io = c.io /\ q.status = c.status
      /\ q.sending = c.sending /\ ~q.recving /\ q.packettype = c.packettype
      /\ q.closepackets = c.closepackets /\ q.out = Append(c.out, "DATA")
      /\ q.sendused = c.sendused /\ q.sendpackets = c.sendpackets /\ Kept(c, q)
  BY <1>1, <1>2 DEF ConnectRecord, Kept
<1>5. OnSocketIOCPRecv(r, posts) = s
  BY <1>3 DEF OnSocketIOCPRecv, c
<1> HIDE DEF q
<1>6. Sound(q)
  BY <1>1, <1>4 DEF Sound, Single, Counted, Flagged, Outstanding, Busy, Kept
<1>7. "SEND" \in Ops \ {"RECV"} /\ r.closepackets <= 1
  BY DEF Ops, InSession, Serving
<1>8. Only(q, {"SEND", "RECV"})
  BY <1>1, <1>4 DEF Only, InSession, Serving
<1>9. Serving(q)
  BY <1>1, <1>4, <1>7, <1>8 DEF Serving, Kept, InSession
<1>10. CASE r.status = "INVALID"
  <2>1. s = ModifyClose(q)
    BY <1>1, <1>4, <1>10 DEF RecvOrClose, RecvRefused, ModifyRecv
  <2>2. q.failed = {}
    BY <1>1, <1>4 DEF Kept
  <2>3. LET t == ModifyClose(q)
        IN  /\ InSession(t) /\ Kept(q, t) /\ Closes(t, q.out) /\ t.status = "INVALID" /\ t.io = q.io
    BY <1>6, <1>9, <2>2, ModifyCloseServes
  <2> HIDE DEF s
  <2>4. QED
    BY <1>1, <1>4, <1>5, <2>1, <2>3 DEF Kept
<1>11. CASE r.status # "INVALID"
  <2>1. q.failed = {} /\ q.status # "INVALID"
    BY <1>1, <1>4, <1>11 DEF Kept
  <2>2. /\ Serving(s) /\ Kept(q, s) /\ Closes(s, q.out)
        /\ s.status \in {q.status, "INVALID"}
        /\ s.status # "INVALID" =>
                  /\ s.closepackets = q.closepackets /\ s.sendused = q.sendused
                  /\ s.sendpackets = q.sendpackets /\ s.io["SEND"] = q.io["SEND"]
                  /\ s.io["RECV"] # "idle"
    BY <1>6, <1>9, <2>1, RecvOrCloseServes
  <2> HIDE DEF s
  <2>3. InSession(s)
    BY <1>1, <1>4, <1>7, <1>11, <2>2 DEF InSession, Kept
  <2>4. QED
    BY <1>1, <1>4, <1>5, <2>2, <2>3 DEF Kept
<1>12. QED
  BY <1>10, <1>11

(* CancelIoEx takes no operation out of the kernel. *)
LEMMA CancelFields ==
  ASSUME NEW r \in ConnectRecord
  PROVE  LET s == CancelIoEx(r)
         IN  /\ Kept(r, s) /\ s.status = r.status /\ s.iocpref = r.iocpref /\ s.out = r.out
             /\ s.packettype = r.packettype /\ s.closepackets = r.closepackets
             /\ \A op \in Ops : s.io[op] = "idle" <=> r.io[op] = "idle"
<1> DEFINE x == [r.io EXCEPT !["RECV"] = Cancelled(@), !["SEND"] = Cancelled(@)]
           s == [r EXCEPT !.io = x]
<1>1. CancelIoEx(r) = s
  BY DEF CancelIoEx, ConnectRecord
<1>2. \A op \in Ops : x[op] = "idle" <=> r.io[op] = "idle"
  BY DEF Cancelled, ConnectRecord, Ops
<1> HIDE DEF x
<1>3. QED
  BY <1>1, <1>2 DEF ConnectRecord, Kept

(* A send completes: the next one is posted while anything waits. *)
LEMMA SendDoneServes ==
  ASSUME NEW r, Sound(r), r.failed = {}, InSession(r), r.io["SEND"] \in InKernel,
         NEW sent \in 0..r.sendused, NEW posts \in BOOLEAN
  PROVE  LET s == OnSocketIOCPSend(r, sent, posts)
         IN  /\ InSession(s) /\ Kept(r, s) /\ Closes(s, r.out)
             /\ s.status \in {r.status, "INVALID"}
             /\ s.io["RECV"] = "idle" <=> r.io["RECV"] = "idle"
<1> DEFINE c == Complete(r, "SEND")
           q == [c EXCEPT !.sending = FALSE]
<1>1. /\ c \in ConnectRecord /\ Counted(c) /\ Kept(r, c) /\ Sound(c)
      /\ c.io["SEND"] = "idle" /\ \A x \in Ops \ {"SEND"} : c.io[x] = r.io[x]
      /\ c.status = r.status /\ c.recving = r.recving
      /\ c.packettype = r.packettype /\ c.closepackets = r.closepackets /\ c.out = r.out
      /\ c.sendused = r.sendused /\ c.sendpackets = r.sendpackets
  <2>1. "SEND" \in Ops
    BY DEF Ops
  <2>2. LET s == Complete(r, "SEND")
        IN  /\ Sound(s) /\ s \in ConnectRecord /\ Counted(s) /\ Kept(r, s)
            /\ s.io["SEND"] = "idle" /\ \A x \in Ops \ {"SEND"} : s.io[x] = r.io[x]
            /\ s.status = r.status /\ s.sending = r.sending /\ s.recving = r.recving
            /\ s.packettype = r.packettype /\ s.closepackets = r.closepackets /\ s.out = r.out
            /\ s.sendused = r.sendused /\ s.sendpackets = r.sendpackets
    BY <2>1, CompleteFields
  <2>3. QED
    BY <2>2
<1>2. /\ r.closepackets <= 1 /\ "RECV" \in Ops \ {"SEND"} /\ "SEND" \in Ops /\ "RECV" \in Ops
      /\ r.io["SEND"] # "idle" /\ r.sendused \in Nat
  BY SendBufferAssumption DEF Ops, InSession, Serving, InKernel, Sound, ConnectRecord
<1> HIDE DEF c
<1>3. /\ q \in ConnectRecord /\ q.iocpref = c.iocpref /\ q.io = c.io /\ q.status = c.status
      /\ ~q.sending /\ q.recving = c.recving /\ q.packettype = c.packettype
      /\ q.closepackets = c.closepackets /\ q.out = c.out
      /\ q.sendused = c.sendused /\ q.sendpackets = c.sendpackets /\ Kept(c, q)
  BY <1>1 DEF ConnectRecord, Kept
<1> HIDE DEF q
<1>4. Sound(q) /\ q.failed = {}
  BY <1>1, <1>3 DEF Sound, Single, Counted, Flagged, Outstanding, Busy, Kept
<1>5. Only(q, {"SEND", "RECV"})
  BY <1>1, <1>3 DEF Only, InSession, Serving
<1>6. Serving(q)
  BY <1>1, <1>2, <1>3, <1>5 DEF Serving, Kept, InSession
<1>7. Kept(r, q) /\ q.status = r.status /\ q.out = r.out /\ q.io["RECV"] = r.io["RECV"]
  BY <1>1, <1>2, <1>3 DEF Kept
<1>8. CASE r.packettype = "CLOSE_ACTIVE"
  <2>1. r.closepackets = 1 /\ r.status = "INVALID"
    BY <1>2, <1>8 DEF InSession, Serving
  <2>2. Check(q, q.closepackets = 1, "m_closepackets.Size()==1") = q
    BY <1>1, <1>3, <2>1 DEF Check
  <2>3. OnSocketIOCPSend(r, sent, posts) = IF q.iocpref > 0 THEN CancelIoEx(q) ELSE ModifyClose(q)
    BY <1>8, <2>2, Zenon DEF OnSocketIOCPSend, q, c
  <2>4. CASE q.iocpref > 0
    <3> DEFINE s == CancelIoEx(q)
    <3>1. /\ Kept(q, s) /\ s.status = q.status /\ s.iocpref = q.iocpref /\ s.out = q.out
          /\ s.packettype = q.packettype /\ s.closepackets = q.closepackets
          /\ \A op \in Ops : s.io[op] = "idle" <=> q.io[op] = "idle"
      BY <1>3, CancelFields
    <3> HIDE DEF s
    <3>2. Only(s, {"SEND", "RECV"})
      BY <1>5, <3>1 DEF Only
    <3>3. InSession(s)
      BY <1>2, <1>3, <1>6, <1>7, <2>1, <3>1, <3>2 DEF InSession, Serving, Kept
    <3>4. Closes(s, r.out)
      <4>1. s.iocpref # 0
        BY <1>4, <2>4, <3>1 DEF Sound, ConnectRecord
      <4>2. QED
        BY <1>7, <3>1, <4>1 DEF Closes, Done
    <3>5. Kept(r, s) /\ s.status = r.status /\ (s.io["RECV"] = "idle" <=> r.io["RECV"] = "idle")
      BY <1>2, <1>7, <3>1 DEF Kept
    <3>6. QED
      BY <2>3, <2>4, <3>3, <3>4, <3>5 DEF s
  <2>5. CASE ~(q.iocpref > 0)
    <3> DEFINE s == ModifyClose(q)
    <3>1. /\ InSession(s) /\ Kept(q, s) /\ Closes(s, q.out) /\ s.status = "INVALID" /\ s.io = q.io
      BY <1>4, <1>6, ModifyCloseServes
    <3> HIDE DEF s
    <3>2. Kept(r, s)
      BY <1>7, <3>1 DEF Kept
    <3>3. QED
      BY <1>7, <2>3, <2>5, <3>1, <3>2 DEF s
  <2>6. QED
    BY <2>4, <2>5
<1>9. CASE r.packettype # "CLOSE_ACTIVE"
  <2> DEFINE p == [q EXCEPT !.sendused = q.sendused - sent]
             s == SendOrClose(p, posts)
  <2>1. OnSocketIOCPSend(r, sent, posts) = s
    <3>1. [q EXCEPT !.sendused = @ - sent] = p
      BY <1>3 DEF ConnectRecord
    <3> HIDE DEF p
    <3>2. QED
      BY <1>9, <3>1, Zenon DEF OnSocketIOCPSend, q, c
  <2>2. q.sendused - sent \in 0..SendBuffer
    <3>1. r.sendused \in 0..SendBuffer /\ q.sendused = r.sendused
      BY <1>1, <1>3 DEF Sound, ConnectRecord
    <3>2. QED
      BY <3>1, SendBufferAssumption
  <2>3. /\ p \in ConnectRecord /\ p.iocpref = q.iocpref /\ p.io = q.io /\ p.status = q.status
        /\ p.sending = q.sending /\ p.recving = q.recving /\ p.packettype = q.packettype
        /\ p.closepackets = q.closepackets /\ p.out = q.out /\ Kept(q, p)
    BY <1>3, <2>2 DEF ConnectRecord, Kept
  <2> HIDE DEF p
  <2>4. Sound(p) /\ p.failed = {}
    BY <1>3, <1>4, <2>3, SameSound DEF Kept
  <2>5. Serving(p)
    BY <1>3, <1>6, <2>3 DEF Serving, Kept, Only
  <2>6. CASE r.status = "INVALID"
    <3> DEFINE t == ModifyClose(p)
    <3>1. s = t
      BY <1>7, <2>3, <2>6 DEF SendOrClose, SendRefused, ModifySend
    <3>2. /\ InSession(t) /\ Kept(p, t) /\ Closes(t, p.out) /\ t.status = "INVALID" /\ t.io = p.io
      BY <2>4, <2>5, ModifyCloseServes
    <3> HIDE DEF s, t
    <3>3. Kept(r, t)
      BY <1>7, <2>3, <3>2 DEF Kept
    <3>4. QED
      BY <1>7, <2>1, <2>3, <3>1, <3>2, <3>3
  <2>7. CASE r.status # "INVALID"
    <3>1. p.status # "INVALID"
      BY <1>7, <2>3, <2>7
    <3>2. /\ Serving(s) /\ Kept(p, s) /\ Closes(s, p.out) /\ s.io["RECV"] = p.io["RECV"]
          /\ s.status \in {p.status, "INVALID"}
          /\ s.status # "INVALID" =>
                /\ s.closepackets = p.closepackets
                /\ s.sendpackets + s.sendused + s.closepackets > 0 => s.io["SEND"] # "idle"
      BY <2>4, <2>5, <3>1, SendOrCloseServes
    <3>3. Sound(s)
      BY <2>4, SendOrCloseSound
    <3>4. s.sendpackets \in Nat /\ s.sendused \in Nat
      BY <3>3, SendBufferAssumption DEF Sound, ConnectRecord
    <3> HIDE DEF s
    <3>5. s.status # "INVALID" => s.status = r.status /\ s.closepackets = 0
      BY <1>1, <1>3, <1>7, <2>3, <2>7, <3>2 DEF InSession
    <3>6. s.status # "INVALID" /\ s.sendpackets + s.sendused > 0 => s.io["SEND"] # "idle"
      BY <3>2, <3>4, <3>5
    <3>7. Kept(r, s) /\ s.io["RECV"] = r.io["RECV"]
      BY <1>7, <2>3, <3>2 DEF Kept
    <3>8. InSession(s)
      BY <3>2, <3>5, <3>6, <3>7 DEF InSession, Kept
    <3>9. QED
      BY <1>7, <2>1, <2>3, <3>2, <3>7, <3>8
  <2>8. QED
    BY <2>6, <2>7
<1>10. QED
  BY <1>8, <1>9

(* An operation fails: it leaves the kernel and the connection is down. *)
LEMMA CloseDoneFields ==
  ASSUME NEW r, Sound(r), r.failed = {}, NEW op \in Ops, r.io[op] \in InKernel, NEW error \in BOOLEAN
  PROVE  LET s == OnSocketIOCPClose(r, op, error)
         IN  /\ Sound(s) /\ Kept(r, s) /\ Closes(s, r.out) /\ s.status = "INVALID"
             /\ s.io[op] = "idle" /\ \A x \in Ops \ {op} : s.io[x] = r.io[x]
             /\ s.packettype = r.packettype
             /\ s.closepackets \in Nat /\ s.closepackets <= r.closepackets
             /\ s.iocpref # 0 => s.closepackets = r.closepackets
<1> DEFINE c == Complete(r, op)
           q == [c EXCEPT !.recving = @ /\ error]
           s == ModifyClose(q)
<1>1. /\ c \in ConnectRecord /\ Counted(c) /\ Kept(r, c) /\ Sound(c)
      /\ c.io[op] = "idle" /\ \A x \in Ops \ {op} : c.io[x] = r.io[x]
      /\ c.packettype = r.packettype /\ c.closepackets = r.closepackets /\ c.out = r.out
  BY CompleteFields
<1> HIDE DEF c
<1>2. /\ q \in ConnectRecord /\ q.io = c.io /\ q.iocpref = c.iocpref
      /\ q.closepackets = c.closepackets /\ q.packettype = c.packettype /\ q.out = c.out /\ Kept(c, q)
  BY <1>1 DEF ConnectRecord, Kept
<1> HIDE DEF q
<1>3. q.iocpref >= 0
  <2>1. \A x \in Ops : Busy(c, x) \in {0, 1}
    BY DEF Busy
  <2>2. c.iocpref >= 0
    BY <1>1, <2>1 DEF Counted, Outstanding, Ops
  <2>3. QED
    BY <1>2, <2>2
<1>4. OnSocketIOCPClose(r, op, error) = s
  BY <1>3 DEF OnSocketIOCPClose, Check, q, c
<1>5. /\ Kept(q, s) /\ s.status = "INVALID" /\ s.io = q.io /\ s.iocpref = q.iocpref
      /\ s.packettype = q.packettype /\ s.closepackets <= q.closepackets
      /\ s.iocpref # 0 => s.closepackets = q.closepackets
      /\ Closes(s, q.out)
  BY <1>2, ModifyCloseFields
<1>6. s.closepackets \in Nat
  BY <1>2, CloseEffect DEF ConnectRecord
<1>7. Sound(s)
  BY <1>4, OnSocketIOCPCloseSound
<1> HIDE DEF s
<1>8. Kept(r, s)
  BY <1>1, <1>2, <1>5 DEF Kept
<1>9. QED
  BY <1>1, <1>2, <1>4, <1>5, <1>6, <1>7, <1>8

(* A failing send or receive leaves the object in a session that is down. *)
LEMMA CloseDoneServes ==
  ASSUME NEW r, Sound(r), r.failed = {}, InSession(r), NEW op \in {"SEND", "RECV"}, r.io[op] \in InKernel,
         NEW error \in BOOLEAN
  PROVE  LET s == OnSocketIOCPClose(r, op, error)
         IN  /\ InSession(s) /\ Kept(r, s) /\ Closes(s, r.out) /\ s.status = "INVALID"
             /\ r.io["RECV"] = "idle" => s.io["RECV"] = "idle"
<1> DEFINE s == OnSocketIOCPClose(r, op, error)
<1>1. op \in Ops /\ "SEND" \in Ops /\ "RECV" \in Ops
  BY DEF Ops
<1>2. /\ Sound(s) /\ Kept(r, s) /\ Closes(s, r.out) /\ s.status = "INVALID"
      /\ s.io[op] = "idle" /\ \A x \in Ops \ {op} : s.io[x] = r.io[x]
      /\ s.packettype = r.packettype
      /\ s.closepackets \in Nat /\ s.closepackets <= r.closepackets
      /\ s.iocpref # 0 => s.closepackets = r.closepackets
  BY <1>1, CloseDoneFields
<1>3. r.closepackets \in Nat
  BY DEF Sound, ConnectRecord
<1>4. s.io["SEND"] # "idle" => s.iocpref # 0
  <2>1. s.failed = {}
    BY <1>2 DEF Kept
  <2>2. QED
    BY <1>1, <1>2, <2>1, BusyIsCounted
<1> HIDE DEF s
<1>5. \A x \in Ops : r.io[x] = "idle" => s.io[x] = "idle"
  BY <1>2
<1>6. Only(s, {"SEND", "RECV"})
  BY <1>5 DEF Only, InSession, Serving
<1>7. s.closepackets <= 1
  BY <1>2, <1>3 DEF InSession, Serving
<1>8. s.io["SEND"] # "idle" /\ s.packettype = "CLOSE_ACTIVE" => s.closepackets = 1
  BY <1>1, <1>2, <1>4, <1>5 DEF InSession, Serving
<1>9. InSession(s)
  BY <1>2, <1>6, <1>7, <1>8 DEF InSession, Serving, Kept
<1>10. QED
  BY <1>1, <1>2, <1>5, <1>9 DEF s

(* Nothing is outstanding once the only operation is no longer in the kernel. *)
LEMMA OnlyIsIdle ==
  ASSUME NEW r, Sound(r), NEW op \in Ops, Only(r, {op}), r.io[op] = "idle", r.failed = {}
  PROVE  r.iocpref = 0 /\ Only(r, {}) /\ Only(r, {"SEND", "RECV"})
<1>1. \A x \in Ops : r.io[x] = "idle"
  BY DEF Only
<1>2. r.iocpref = 0
  BY <1>1 DEF Sound, Counted, Outstanding, Busy, Ops
<1>3. QED
  BY <1>1, <1>2 DEF Only

(* ConnectEx fails: the session is over at once and is said to be. *)
LEMMA ConnectFailsServes ==
  ASSUME NEW r, Sound(r), r.failed = {}, Connecting(r), NEW error \in BOOLEAN
  PROVE  LET s == OnSocketIOCPClose(r, "CONNECT", error)
         IN  /\ InSession(s) /\ Kept(r, s) /\ Closes(s, r.out) /\ Done(s)
             /\ s.io["RECV"] = "idle"
<1> DEFINE s == OnSocketIOCPClose(r, "CONNECT", error)
<1>1. "CONNECT" \in Ops /\ "SEND" \in Ops /\ "RECV" \in Ops /\ r.io["CONNECT"] \in InKernel
  BY DEF Ops, InKernel, Connecting
<1>2. /\ Sound(s) /\ Kept(r, s) /\ Closes(s, r.out) /\ s.status = "INVALID"
      /\ s.io["CONNECT"] = "idle" /\ \A x \in Ops \ {"CONNECT"} : s.io[x] = r.io[x]
      /\ s.packettype = r.packettype
      /\ s.closepackets \in Nat /\ s.closepackets <= r.closepackets
  BY <1>1, CloseDoneFields
<1> HIDE DEF s
<1>3. Only(s, {"CONNECT"}) /\ s.failed = {}
  BY <1>2 DEF Only, Connecting, Kept
<1>4. s.iocpref = 0 /\ Only(s, {}) /\ Only(s, {"SEND", "RECV"})
  BY <1>1, <1>2, <1>3, OnlyIsIdle
<1>5. s.io["SEND"] = "idle" /\ s.io["RECV"] = "idle"
  BY <1>1, <1>4 DEF Only
<1>6. s.closepackets <= 1
  BY <1>2 DEF Connecting
<1>7. InSession(s)
  BY <1>2, <1>4, <1>5, <1>6 DEF InSession, Serving, Kept, Connecting
<1>8. QED
  BY <1>2, <1>4, <1>5, <1>7 DEF Done, s

(* DisconnectEx fails: the object hands over a close packet, as for a session. *)
LEMMA DisconnectFailsServes ==
  ASSUME NEW r, Sound(r), r.failed = {}, Disconnecting(r), NEW error \in BOOLEAN
  PROVE  LET s == OnSocketIOCPClose(r, "DISCONNECT", error)
         IN  /\ InSession(s) /\ Kept(r, s) /\ Closes(s, r.out) /\ Done(s)
             /\ s.io["RECV"] = "idle"
<1> DEFINE s == OnSocketIOCPClose(r, "DISCONNECT", error)
<1>1. "DISCONNECT" \in Ops /\ "SEND" \in Ops /\ "RECV" \in Ops /\ r.io["DISCONNECT"] \in InKernel
  BY DEF Ops, InKernel, Disconnecting
<1>2. /\ Sound(s) /\ Kept(r, s) /\ Closes(s, r.out) /\ s.status = "INVALID"
      /\ s.io["DISCONNECT"] = "idle" /\ \A x \in Ops \ {"DISCONNECT"} : s.io[x] = r.io[x]
      /\ s.packettype = r.packettype
      /\ s.closepackets \in Nat /\ s.closepackets <= r.closepackets
  BY <1>1, CloseDoneFields
<1> HIDE DEF s
<1>3. Only(s, {"DISCONNECT"}) /\ s.failed = {}
  BY <1>2 DEF Only, Disconnecting, Kept
<1>4. s.iocpref = 0 /\ Only(s, {}) /\ Only(s, {"SEND", "RECV"})
  BY <1>1, <1>2, <1>3, OnlyIsIdle
<1>5. s.io["SEND"] = "idle" /\ s.io["RECV"] = "idle"
  BY <1>1, <1>4 DEF Only
<1>6. s.closepackets <= 1
  BY <1>2 DEF Disconnecting, Unused
<1>7. InSession(s)
  BY <1>2, <1>4, <1>5, <1>6 DEF InSession, Serving, Kept, Disconnecting, Unused
<1>8. QED
  BY <1>2, <1>4, <1>5, <1>7 DEF Done, s

(* DisconnectEx completes: the object is clean and asks to be taken back. *)
LEMMA DisconnectedIsClean ==
  ASSUME NEW r, Sound(r), r.failed = {}, Disconnecting(r)
  PROVE  LET s == OnSocketIODisConnect(r)
         IN  /\ Clean(s) /\ s.socket /\ s.failed = {} /\ s.out = Append(r.out, "SOCKET_REUSE")
<1> DEFINE c == Complete(r, "DISCONNECT")
           s == [c EXCEPT !.out = Append(c.out, "SOCKET_REUSE")]
<1>1. "DISCONNECT" \in Ops /\ r.io["DISCONNECT"] \in InKernel
  BY DEF Ops, InKernel, Disconnecting
<1>2. /\ c \in ConnectRecord /\ Kept(r, c) /\ Sound(c)
      /\ c.io["DISCONNECT"] = "idle" /\ \A x \in Ops \ {"DISCONNECT"} : c.io[x] = r.io[x]
      /\ c.status = r.status /\ c.sending = r.sending /\ c.recving = r.recving
      /\ c.closepackets = r.closepackets /\ c.out = r.out
      /\ c.sendused = r.sendused /\ c.sendpackets = r.sendpackets /\ c.buffered = r.buffered
  BY <1>1, CompleteFields
<1> HIDE DEF c
<1>3. Only(c, {"DISCONNECT"}) /\ c.failed = {}
  BY <1>2 DEF Only, Disconnecting, Kept
<1>4. c.iocpref = 0 /\ Only(c, {})
  BY <1>1, <1>2, <1>3, OnlyIsIdle
<1>5. OnSocketIODisConnect(r) = s
  BY <1>4 DEF OnSocketIODisConnect, Check, Tell, c
<1>6. /\ Kept(c, s) /\ s.io = c.io /\ s.status = c.status /\ s.sending = c.sending /\ s.recving = c.recving
      /\ s.closepackets = c.closepackets /\ s.out = Append(c.out, "SOCKET_REUSE")
      /\ s.sendused = c.sendused /\ s.sendpackets = c.sendpackets /\ s.buffered = c.buffered
  BY <1>2 DEF ConnectRecord, Kept
<1> HIDE DEF s
<1>7. Clean(s) /\ s.socket
  BY <1>2, <1>4, <1>6 DEF Clean, Only, Unused, Disconnecting, Kept
<1>8. QED
  BY <1>2, <1>5, <1>6, <1>7 DEF Kept

(* A client is accepted: its session begins with a receive posted. *)
LEMMA AcceptServes ==
  ASSUME NEW r, Sound(r), r.failed = {}, Waiting(r), NEW binds \in BOOLEAN, binds \/ r.bound
  PROVE  LET s == OnSocketIOCPAccept(r, binds, TRUE, TRUE)
         IN  /\ InSession(s) /\ s.failed = {} /\ s.status = "CONNECTING" /\ s.io["RECV"] # "idle"
             /\ ~s.callback /\ s.setCallbackTimes = 0 /\ s.onConnectTimes = 0
             /\ s.out = Append(r.out, "ACCEPT")
<1> DEFINE c == Complete(r, "ACCEPT")
           t == [Established(c) EXCEPT !.bound = @ \/ binds]
           n == [t EXCEPT !.iocpref = t.iocpref + 1, !.io = [t.io EXCEPT !["RECV"] = "posted"],
                          !.recving = TRUE]
           s == [n EXCEPT !.out = Append(n.out, "ACCEPT")]
<1>1. "ACCEPT" \in Ops /\ "RECV" \in Ops /\ "SEND" \in Ops /\ r.io["ACCEPT"] \in InKernel
  BY DEF Ops, InKernel, Waiting
<1>2. /\ c \in ConnectRecord /\ Kept(r, c) /\ Sound(c)
      /\ c.io["ACCEPT"] = "idle" /\ \A x \in Ops \ {"ACCEPT"} : c.io[x] = r.io[x]
      /\ c.status = r.status /\ c.sending = r.sending /\ c.recving = r.recving
      /\ c.closepackets = r.closepackets /\ c.out = r.out
      /\ c.sendused = r.sendused /\ c.sendpackets = r.sendpackets /\ c.buffered = r.buffered
  BY <1>1, CompleteFields
<1> HIDE DEF c
<1>3. Only(c, {"ACCEPT"}) /\ c.failed = {}
  BY <1>2 DEF Only, Waiting, Kept
<1>4. c.iocpref = 0 /\ Only(c, {})
  BY <1>1, <1>2, <1>3, OnlyIsIdle
<1>5. /\ t \in ConnectRecord /\ t.io = c.io /\ t.iocpref = 0 /\ Kept(c, t) /\ t.status = "CONNECTING"
      /\ ~t.sending /\ ~t.recving /\ t.closepackets = c.closepackets /\ t.out = c.out
      /\ t.sendused = c.sendused /\ t.sendpackets = c.sendpackets
  BY <1>2, <1>4 DEF ConnectRecord, Kept, Established, Statuses
<1> HIDE DEF t
<1>6. t.io["RECV"] = "idle"
  BY <1>1, <1>4, <1>5 DEF Only
<1>7. [Post(t, "RECV") EXCEPT !.recving = TRUE] = n
  BY <1>1, <1>5, <1>6, PostFree DEF ConnectRecord
<1>8. ModifyRecv(t, TRUE) = n /\ ~RecvRefused(t, TRUE)
  <2>1. t.status # "INVALID" /\ ~t.recving
    BY <1>5
  <2>2. ModifyRecv(t, TRUE) = [Post(t, "RECV") EXCEPT !.recving = TRUE]
    BY <2>1, Zenon DEF ModifyRecv
  <2> HIDE DEF n
  <2>3. QED
    BY <1>7, <2>1, <2>2 DEF RecvRefused
<1>9. /\ n.out = t.out /\ n.io = [t.io EXCEPT !["RECV"] = "posted"] /\ Kept(t, n) /\ n.status = t.status
      /\ n.sending = t.sending /\ n.recving /\ n.closepackets = t.closepackets
      /\ n.sendused = t.sendused /\ n.sendpackets = t.sendpackets /\ n \in ConnectRecord
  <2>1. n \in ConnectRecord
    <3> DEFINE io == [t.io EXCEPT !["RECV"] = "posted"]
    <3>1. t.iocpref + 1 \in Int /\ t.io \in [Ops -> IoStates] /\ "posted" \in IoStates
      BY <1>5 DEF ConnectRecord, IoStates, InKernel
    <3>2. io \in [Ops -> IoStates]
      BY <3>1
    <3> HIDE DEF io
    <3>3. QED
      BY <1>5, <3>1, <3>2 DEF ConnectRecord, n, io
  <2>2. /\ n.out = t.out /\ n.io = [t.io EXCEPT !["RECV"] = "posted"] /\ Kept(t, n) /\ n.status = t.status
        /\ n.sending = t.sending /\ n.recving /\ n.closepackets = t.closepackets
        /\ n.sendused = t.sendused /\ n.sendpackets = t.sendpackets
    BY <1>5 DEF ConnectRecord, Kept
  <2>3. QED
    BY <2>1, <2>2
<1> HIDE DEF n
<1>10. OnSocketIOCPAccept(r, binds, TRUE, TRUE) = Tell(n, "ACCEPT")
  <2>1. Check(c, c.iocpref = 0, "m_iocpref==0") = c
    BY <1>4 DEF Check
  <2>2. ~(~binds /\ ~r.bound)
    OBVIOUS
  <2> DEFINE t2 == [Established(c) EXCEPT !.bound = @ \/ binds]
  <2>3. OnSocketIOCPAccept(r, binds, TRUE, TRUE)
          = IF ~RecvRefused(t2, TRUE) THEN Tell(ModifyRecv(t2, TRUE), "ACCEPT") ELSE ModifyClose(t2)
    BY <2>1, <2>2 DEF OnSocketIOCPAccept, c
  <2>4. t2 = t
    BY DEF t
  <2> HIDE DEF t2
  <2>5. QED
    BY <1>8, <2>3, <2>4
<1>11. Tell(n, "ACCEPT") = s
  BY <1>9 DEF Tell
<1>12. /\ s.io = n.io /\ Kept(n, s) /\ s.status = n.status /\ s.sending = n.sending /\ s.recving = n.recving
       /\ s.closepackets = n.closepackets /\ s.sendused = n.sendused /\ s.sendpackets = n.sendpackets
       /\ s.out = Append(n.out, "ACCEPT")
  BY <1>9 DEF ConnectRecord, Kept
<1> HIDE DEF s
<1>13. s.io["RECV"] = "posted" /\ s.io["SEND"] = "idle" /\ Only(s, {"SEND", "RECV"})
  <2>1. t.io \in [Ops -> IoStates]
    BY <1>5 DEF ConnectRecord
  <2>2. QED
    BY <1>1, <1>4, <1>5, <1>9, <1>12, <2>1 DEF Only
<1>14. /\ s.socket /\ ~s.callback /\ s.setCallbackTimes = 0 /\ s.onConnectTimes = 0 /\ s.failed = {}
       /\ s.status = "CONNECTING" /\ ~s.sending /\ s.recving
       /\ s.closepackets = 0 /\ s.sendused = 0 /\ s.sendpackets = 0
  BY <1>2, <1>5, <1>9, <1>12 DEF Kept, Waiting, Unused
<1>15. InSession(s)
  BY <1>13, <1>14 DEF InSession, Serving
<1>16. s.out = Append(r.out, "ACCEPT") /\ s.io["RECV"] # "idle"
  BY <1>2, <1>5, <1>9, <1>12, <1>13
<1>17. QED
  BY <1>10, <1>11, <1>14, <1>15, <1>16

(* ConnectEx completes: the session begins, the first receive comes with OnConnect. *)
LEMMA ConnectedServes ==
  ASSUME NEW r, Sound(r), r.failed = {}, Connecting(r)
  PROVE  LET s == OnSocketIOCPConnect(r)
         IN  /\ InSession(s) /\ Kept(r, s) /\ s.status = "CONNECTING" /\ s.io["RECV"] = "idle"
             /\ s.out = Append(r.out, "CONNECT")
<1> DEFINE c == Complete(r, "CONNECT")
           s == [c EXCEPT !.status = "CONNECTING", !.recving = FALSE, !.sending = FALSE,
                          !.out = Append(c.out, "CONNECT")]
<1>1. "CONNECT" \in Ops /\ "RECV" \in Ops /\ "SEND" \in Ops /\ r.io["CONNECT"] \in InKernel
  BY DEF Ops, InKernel, Connecting
<1>2. /\ c \in ConnectRecord /\ Kept(r, c) /\ Sound(c)
      /\ c.io["CONNECT"] = "idle" /\ \A x \in Ops \ {"CONNECT"} : c.io[x] = r.io[x]
      /\ c.closepackets = r.closepackets /\ c.out = r.out
      /\ c.sendused = r.sendused /\ c.sendpackets = r.sendpackets /\ c.buffered = r.buffered
  BY <1>1, CompleteFields
<1> HIDE DEF c
<1>3. Only(c, {"CONNECT"}) /\ c.failed = {}
  BY <1>2 DEF Only, Connecting, Kept
<1>4. c.iocpref = 0 /\ Only(c, {}) /\ Only(c, {"SEND", "RECV"})
  BY <1>1, <1>2, <1>3, OnlyIsIdle
<1>5. OnSocketIOCPConnect(r) = s
  BY <1>2, <1>4 DEF OnSocketIOCPConnect, Check, Tell, Established, ConnectRecord, c
<1>6. /\ Kept(c, s) /\ s.io = c.io /\ s.status = "CONNECTING" /\ ~s.sending /\ ~s.recving
      /\ s.closepackets = c.closepackets /\ s.out = Append(c.out, "CONNECT")
      /\ s.sendused = c.sendused /\ s.sendpackets = c.sendpackets
  BY <1>2 DEF ConnectRecord, Kept
<1> HIDE DEF s
<1>7. s.io["SEND"] = "idle" /\ s.io["RECV"] = "idle" /\ Only(s, {"SEND", "RECV"})
  BY <1>1, <1>4, <1>6 DEF Only
<1>8. InSession(s)
  BY <1>2, <1>6, <1>7 DEF InSession, Serving, Kept, Connecting
<1>9. QED
  BY <1>2, <1>5, <1>6, <1>7, <1>8 DEF Kept

(* A clean object is owed nothing by the kernel. *)
LEMMA CleanIsQuiet ==
  ASSUME NEW r, Sound(r), r.failed = {}, Clean(r)
  PROVE  r.iocpref = 0
  BY DEF Sound, Counted, Outstanding, Busy, Ops, Clean, Only

(* A clean object can wait for a client. *)
LEMMA WaitsAfterClean ==
  ASSUME NEW r, Sound(r), r.failed = {}, Clean(r)
  PROVE  LET s == WaitForAccepted(r) IN Waiting(s) /\ s.failed = {} /\ s.out = r.out
<1> DEFINE s == [r EXCEPT !.iocpref = r.iocpref + 1, !.io = [r.io EXCEPT !["ACCEPT"] = "posted"],
                          !.socket = TRUE, !.recving = FALSE, !.sending = FALSE]
<1>1. r \in ConnectRecord /\ r.iocpref = 0 /\ "ACCEPT" \in Ops /\ r.io["ACCEPT"] = "idle"
  BY CleanIsQuiet DEF Sound, Ops, Clean, Only
<1>2. WaitForAccepted(r) = s
  <2>1. Check(r, r.iocpref = 0, "m_iocpref==0") = r
    BY <1>1 DEF Check
  <2>2. Post(r, "ACCEPT") = [r EXCEPT !.iocpref = r.iocpref + 1, !.io = [r.io EXCEPT !["ACCEPT"] = "posted"]]
    BY <1>1, PostFree
  <2>3. QED
    BY <1>1, <2>1, <2>2 DEF WaitForAccepted, ConnectRecord
<1>3. s.io["ACCEPT"] = "posted" /\ Only(s, {"ACCEPT"})
  BY <1>1 DEF ConnectRecord, Only, Clean
<1>4. Unused(s) /\ s.socket /\ s.failed = {} /\ s.out = r.out
  BY <1>1 DEF ConnectRecord, Clean, Unused
<1> HIDE DEF s
<1>5. QED
  BY <1>2, <1>3, <1>4 DEF Waiting

(* A clean object can connect. *)
LEMMA ConnectsAfterClean ==
  ASSUME NEW r, Sound(r), r.failed = {}, Clean(r)
  PROVE  LET s == ConnectOut(SetCallback(Check(r, r.iocpref = 0, "m_iocpref==0"), FALSE, TRUE))
         IN  Connecting(s) /\ s.failed = {} /\ s.out = r.out
<1> DEFINE t == [r EXCEPT !.setCallbackTimes = 1, !.callback = TRUE]
           s == [t EXCEPT !.iocpref = t.iocpref + 1, !.io = [t.io EXCEPT !["CONNECT"] = "posted"],
                          !.socket = TRUE, !.bound = TRUE, !.status = "CONNECTOUT"]
<1>1. r \in ConnectRecord /\ r.iocpref = 0 /\ "CONNECT" \in Ops /\ r.io["CONNECT"] = "idle"
  BY CleanIsQuiet DEF Sound, Ops, Clean, Only
<1>2. SetCallback(Check(r, r.iocpref = 0, "m_iocpref==0"), FALSE, TRUE) = t
  <2>1. Check(r, r.iocpref = 0, "m_iocpref==0") = r
    BY <1>1 DEF Check
  <2>2. Check(r, r.setCallbackTimes = 0, "m_nSetCallBackTimes==1") = r /\ r.setCallbackTimes = 0
    BY DEF Check, Clean, Unused
  <2>3. [r EXCEPT !.setCallbackTimes = @ + 1, !.callback = TRUE] = t
    BY <1>1, <2>2 DEF ConnectRecord
  <2>4. WithCallback(r) = [r EXCEPT !.setCallbackTimes = @ + 1, !.callback = TRUE]
    BY <2>2, Zenon DEF WithCallback
  <2> HIDE DEF t
  <2>5. QED
    BY <2>1, <2>3, <2>4, Zenon DEF SetCallback
<1>3. /\ t \in ConnectRecord /\ t.iocpref = 0 /\ t.io = r.io /\ t.out = r.out /\ t.failed = r.failed
      /\ t.setCallbackTimes = 1 /\ t.callback /\ t.onConnectTimes = r.onConnectTimes
      /\ t.sending = r.sending /\ t.recving = r.recving /\ t.sendused = r.sendused
      /\ t.sendpackets = r.sendpackets /\ t.closepackets = r.closepackets /\ t.buffered = r.buffered
  BY <1>1 DEF ConnectRecord
<1> HIDE DEF t
<1>4. ConnectOut(t) = s
  <2>1. Check(t, t.iocpref = 0, "m_iocpref==0") = t
    BY <1>3 DEF Check
  <2>2. Post(t, "CONNECT") = [t EXCEPT !.iocpref = t.iocpref + 1, !.io = [t.io EXCEPT !["CONNECT"] = "posted"]]
    <3>1. t.io["CONNECT"] = "idle"
      BY <1>1, <1>3
    <3> HIDE DEF s
    <3>2. QED
      BY <1>1, <1>3, <3>1, PostFree
  <2>3. Post(Check(t, t.iocpref = 0, "m_iocpref==0"), "CONNECT")
          = [t EXCEPT !.iocpref = t.iocpref + 1, !.io = [t.io EXCEPT !["CONNECT"] = "posted"]]
    BY <2>1, <2>2, Zenon
  <2>4. [[t EXCEPT !.iocpref = t.iocpref + 1, !.io = [t.io EXCEPT !["CONNECT"] = "posted"]]
          EXCEPT !.socket = TRUE, !.bound = TRUE, !.status = "CONNECTOUT"] = s
    BY <1>3 DEF ConnectRecord
  <2> HIDE DEF s
  <2>5. QED
    BY <2>3, <2>4, Zenon DEF ConnectOut
<1>5. s.io["CONNECT"] = "posted" /\ Only(s, {"CONNECT"})
  BY <1>1, <1>3 DEF ConnectRecord, Only, Clean
<1>6. /\ s.status = "CONNECTOUT" /\ s.socket /\ s.callback /\ ~s.sending /\ ~s.recving
      /\ s.sendused = 0 /\ s.sendpackets = 0 /\ s.closepackets = 0 /\ s.buffered = 0
      /\ s.setCallbackTimes = 1 /\ s.onConnectTimes = 0 /\ s.failed = {} /\ s.out = r.out
  BY <1>3 DEF ConnectRecord, Clean, Unused
<1> HIDE DEF s
<1>7. QED
  BY <1>2, <1>4, <1>5, <1>6 DEF Connecting

(* A new object is clean; a deleted one had to be quiet. *)
LEMMA DeletedIsClean ==
  ASSUME NEW r
  PROVE  /\ Clean(Deleted(r)) /\ Deleted(r).out = <<>>
         /\ r.iocpref = 0 => Deleted(r).failed = r.failed
  BY DEF Deleted, Check, NewConnect, Clean, Unused, Only, Ops

(* SetCallback on a clean object fails no assertion. *)
LEMMA SetCallbackQuiet ==
  ASSUME NEW r, Sound(r), r.failed = {}, Clean(r)
  PROVE  LET s == SetCallback(Check(r, r.iocpref = 0, "m_iocpref==0"), FALSE, TRUE)
         IN  s.failed = {} /\ s.iocpref = 0
<1>1. r \in ConnectRecord /\ r.iocpref = 0
  BY CleanIsQuiet DEF Sound
<1>2. QED
  BY <1>1 DEF Check, SetCallback, WithCallback, Clean, Unused, ConnectRecord

(* Nothing is in the kernel once the session is over. *)
LEMMA DoneIsIdle ==
  ASSUME NEW r, Sound(r), r.failed = {}, Done(r)
  PROVE  \A op \in Ops : r.io[op] = "idle"
  BY QuietIsIdle DEF Sound, Done

(* TrueClose with nothing in the kernel leaves a clean object. *)
LEMMA TrueCloseIsClean ==
  ASSUME NEW r \in ConnectRecord, Only(r, {})
  PROVE  LET s == TrueClose(r)
         IN  Clean(s) /\ s.failed = r.failed /\ s.out = r.out /\ s.iocpref = r.iocpref
<1> DEFINE io == [op \in Ops |-> Cancelled(r.io[op])]
           s == TrueClose(r)
<1>1. \A op \in Ops : io[op] = "idle"
  BY DEF Only, Cancelled
<1>2. /\ Unused(s) /\ s.failed = r.failed /\ s.out = r.out /\ s.io = io /\ s.iocpref = r.iocpref
  BY DEF TrueClose, Reset, Unused, ConnectRecord
<1> HIDE DEF io, s
<1>3. QED
  BY <1>1, <1>2 DEF Clean, Only, s

(* ReuseClose at the end of a session: DisconnectEx is posted, or TrueClose follows and *)
(* the object is clean.                                                                 *)
LEMMA ReuseCloseCleans ==
  ASSUME NEW r, Sound(r), r.failed = {}, InSession(r), Done(r)
  PROVE  /\ LET s == ReuseClose(r, TRUE)
            IN  Disconnecting(s) /\ s.failed = {} /\ s.out = r.out
         /\ LET s == TrueClose(ReuseClose(r, FALSE))
            IN  Clean(s) /\ s.failed = {} /\ s.out = r.out /\ s.iocpref = 0
<1> DEFINE t == Reset(r)
           s == [t EXCEPT !.iocpref = t.iocpref + 1, !.io = [t.io EXCEPT !["DISCONNECT"] = "posted"]]
           u == TrueClose(t)
<1>1. r \in ConnectRecord /\ r.iocpref = 0 /\ "DISCONNECT" \in Ops /\ r.socket
  BY DEF Sound, Ops, InSession, Serving, Done
<1>2. \A op \in Ops : r.io[op] = "idle"
  BY DoneIsIdle
<1>3. Check(r, r.socket, "INVALID_SOCKET!=m_socket") = r
  BY <1>1 DEF Check
<1>4. /\ t \in ConnectRecord /\ Unused(t) /\ t.io = r.io /\ t.out = r.out /\ t.failed = r.failed
      /\ t.socket = r.socket /\ t.iocpref = r.iocpref
  <2>1. t \in ConnectRecord
    BY ResetSound DEF Sound
  <2>2. Unused(t)
    BY <1>1 DEF Reset, ConnectRecord, Unused
  <2>3. t.io = r.io /\ t.out = r.out /\ t.failed = r.failed /\ t.socket = r.socket /\ t.iocpref = r.iocpref
    BY <1>1 DEF Reset, ConnectRecord
  <2> HIDE DEF t
  <2>4. QED
    BY <2>1, <2>2, <2>3
<1> HIDE DEF t
<1>5. t.io["DISCONNECT"] = "idle"
  BY <1>1, <1>2, <1>4
<1>6. Post(t, "DISCONNECT") = s
  BY <1>1, <1>4, <1>5, PostFree
<1>7. Check(t, t.io["DISCONNECT"] = "idle", "m_nIoDisconnect==1") = t
  BY <1>5 DEF Check
<1>8. ReuseClose(r, TRUE) = s /\ ReuseClose(r, FALSE) = t
  <2>1. Reset(Check(r, r.socket, "INVALID_SOCKET!=m_socket")) = t
    BY <1>3, Zenon DEF t
  <2> HIDE DEF s
  <2>2. QED
    BY <1>6, <1>7, <2>1, Zenon DEF ReuseClose
<1>9. s.io["DISCONNECT"] = "posted" /\ Only(s, {"DISCONNECT"})
  BY <1>1, <1>2, <1>4 DEF ConnectRecord, Only
<1>10. Unused(s) /\ s.socket /\ s.failed = {} /\ s.out = r.out
  BY <1>1, <1>4 DEF ConnectRecord, Unused
<1> HIDE DEF s
<1>11. Only(t, {})
  BY <1>2, <1>4 DEF Only
<1>12. Clean(u) /\ u.failed = t.failed /\ u.out = t.out /\ u.iocpref = t.iocpref
  BY <1>4, <1>11, TrueCloseIsClean
<1> HIDE DEF u
<1>13. QED
  BY <1>1, <1>4, <1>8, <1>9, <1>10, <1>12 DEF Disconnecting, u

-----------------------------------------------------------------------------
(* The pool and the dispatcher.                                            *)

Packet == [type : PacketTypes, conn : Conns]

(* The inductive invariant: every object is Sound, and the dispatcher is    *)
(* only ever told of objects of the pool.                                  *)
IInv ==
  /\ conn \in [Conns -> ConnectRecord]
  /\ \A c \in Conns : Sound(conn[c])
  /\ packets \in Seq(Packet)
  /\ disp.at # "idle" => disp.conn \in Conns

(* A method of an object ran, and left it Sound. *)
LEMMA CommitInv ==
  ASSUME IInv, NEW c \in Conns, NEW r, Sound(r), Commit(c, r), UNCHANGED disp
  PROVE  IInv'
<1> DEFINE s == [r EXCEPT !.out = <<>>]
           told_ == [i \in 1..Len(r.out) |-> [type |-> r.out[i], conn |-> c]]
<1>1. r \in ConnectRecord
  BY DEF Sound
<1>2. <<>> \in Seq(PacketTypes) /\ r.out \in Seq(PacketTypes)
  BY <1>1 DEF ConnectRecord
<1>3. /\ s \in ConnectRecord /\ s.io = r.io /\ s.iocpref = r.iocpref /\ s.failed = r.failed
      /\ s.sending = r.sending /\ s.recving = r.recving /\ s.status = r.status
  BY <1>1, <1>2 DEF ConnectRecord
<1> HIDE DEF s
<1>4. Sound(s)
  BY <1>3, SameSound
<1>5. conn' = [conn EXCEPT ![c] = s]
  BY DEF Commit, s
<1>6. told_ \in Seq(Packet)
  BY <1>2 DEF Packet
<1>7. packets' \in Seq(Packet)
  BY <1>6 DEF Commit, IInv
<1>8. conn' \in [Conns -> ConnectRecord]
  BY <1>3, <1>5 DEF IInv
<1>9. \A x \in Conns : Sound(conn'[x])
  BY <1>4, <1>5 DEF IInv
<1>10. QED
  BY <1>7, <1>8, <1>9 DEF IInv

(* The same in the dispatcher, which has popped the packet that says so. *)
LEMMA CommitPoppedInv ==
  ASSUME IInv, NEW c \in Conns, NEW r, Sound(r), packets # <<>>, CommitPopped(c, r),
         UNCHANGED disp
  PROVE  IInv'
<1> DEFINE s == [r EXCEPT !.out = <<>>]
           told_ == [i \in 1..Len(r.out) |-> [type |-> r.out[i], conn |-> c]]
<1>1. r \in ConnectRecord
  BY DEF Sound
<1>2. <<>> \in Seq(PacketTypes) /\ r.out \in Seq(PacketTypes)
  BY <1>1 DEF ConnectRecord
<1>3. /\ s \in ConnectRecord /\ s.io = r.io /\ s.iocpref = r.iocpref /\ s.failed = r.failed
      /\ s.sending = r.sending /\ s.recving = r.recving /\ s.status = r.status
  BY <1>1, <1>2 DEF ConnectRecord
<1> HIDE DEF s
<1>4. Sound(s)
  BY <1>3, SameSound
<1>5. conn' = [conn EXCEPT ![c] = s]
  BY DEF CommitPopped, s
<1>6. told_ \in Seq(Packet)
  BY <1>2 DEF Packet
<1>7. Tail(packets) \in Seq(Packet)
  BY DEF IInv
<1>8. packets' \in Seq(Packet)
  BY <1>6, <1>7 DEF CommitPopped
<1>9. conn' \in [Conns -> ConnectRecord]
  BY <1>3, <1>5 DEF IInv
<1>10. \A x \in Conns : Sound(conn'[x])
  BY <1>4, <1>5 DEF IInv
<1>11. QED
  BY <1>8, <1>9, <1>10 DEF IInv

(* The results a step chooses between are Booleans. *)
LEMMA Outcomes ==
  /\ \A event : Unless(event) \subseteq BOOLEAN
  /\ \A c \in Conns : SendPosts(c) \subseteq BOOLEAN
  BY DEF Unless, SendPosts

-----------------------------------------------------------------------------
(* The calls of the users.                                                 *)

(* SetCallback, Send and Close, called from any thread at any time. *)
LEMMA UserInv ==
  ASSUME IInv, NEW c \in Conns, UserSetCallback(c) \/ UserSend(c) \/ UserClose(c)
  PROVE  IInv'
<1>1. Sound(conn[c]) /\ conn[c] \in ConnectRecord
  BY DEF IInv
<1>2. CASE UserSetCallback(c)
  <2>1. PICK posts \in Unless("firstRecv") : Commit(c, SetCallback(conn[c], Accepted(c), posts))
    BY <1>2 DEF UserSetCallback
  <2>2. posts \in BOOLEAN /\ Accepted(c) \in BOOLEAN
    BY Outcomes DEF Accepted
  <2>3. Sound(SetCallback(conn[c], Accepted(c), posts))
    BY <1>1, <2>2, SetCallbackSound
  <2>4. UNCHANGED disp
    BY <1>2 DEF UserSetCallback
  <2>5. QED
    BY <2>1, <2>3, <2>4, CommitInv
<1>3. CASE UserSend(c)
  <2>1. PICK n \in 1..(MaxSend - conn[c].sendpackets), posts \in SendPosts(c) :
          Commit(c, Send(conn[c], n, posts))
    BY <1>3 DEF UserSend
  <2>2. posts \in BOOLEAN /\ n \in Nat
    <3>1. conn[c].sendpackets \in Nat
      BY <1>1 DEF ConnectRecord
    <3>2. QED
      BY <3>1, Outcomes, PoolAssumption
  <2>3. Sound(Send(conn[c], n, posts))
    BY <1>1, <2>2, SendSound
  <2>4. UNCHANGED disp
    BY <1>3 DEF UserSend
  <2>5. QED
    BY <2>1, <2>3, <2>4, CommitInv
<1>4. CASE UserClose(c)
  <2>1. PICK posts \in SendPosts(c) : Commit(c, Close(conn[c], posts))
    BY <1>4 DEF UserClose
  <2>2. posts \in BOOLEAN
    BY Outcomes
  <2>3. Sound(Close(conn[c], posts))
    BY <1>1, <2>2, CloseSound
  <2>4. UNCHANGED disp
    BY <1>4 DEF UserClose
  <2>5. QED
    BY <2>1, <2>3, <2>4, CommitInv
<1>5. QED
  BY <1>2, <1>3, <1>4

-----------------------------------------------------------------------------
(* The completion port threads.                                            *)

(* What is known of the object an operation completes for. *)
LEMMA CompletesFacts ==
  ASSUME IInv, NEW c \in Conns, NEW op, NEW result, Completes(c, op, result)
  PROVE  /\ Sound(conn[c]) /\ conn[c] \in ConnectRecord
         /\ conn[c].failed = {} /\ conn[c].io[op] \in InKernel
         /\ UNCHANGED disp
  BY DEF IInv, Completes, Running

(* Every completion CIOCP::IOCP_IO handles, in any order. *)
LEMMA CompletionInv ==
  ASSUME IInv, Completion
  PROVE  IInv'
<1>1. PICK c \in Conns : \/ IocpRecv(c) \/ IocpSend(c) \/ IocpConnect(c) \/ IocpAccept(c)
                         \/ IocpDisconnect(c) \/ \E op \in Ops : IocpClose(c, op)
  BY DEF Completion
<1>2. CASE IocpRecv(c)
  <2>1. PICK posts \in BOOLEAN : Commit(c, OnSocketIOCPRecv(conn[c], posts))
    BY <1>2 DEF IocpRecv
  <2>2. /\ Sound(conn[c]) /\ conn[c].failed = {} /\ conn[c].io["RECV"] \in InKernel
        /\ UNCHANGED disp
    BY <1>2, CompletesFacts DEF IocpRecv
  <2>3. Sound(OnSocketIOCPRecv(conn[c], posts))
    BY <2>2, OnSocketIOCPRecvSound
  <2>4. QED
    BY <2>1, <2>2, <2>3, CommitInv
<1>3. CASE IocpSend(c)
  <2>1. PICK sent \in IF conn[c].packettype = "DATA" THEN 1..conn[c].sendused ELSE {0},
             posts \in SendPosts(c) : Commit(c, OnSocketIOCPSend(conn[c], sent, posts))
    BY <1>3 DEF IocpSend
  <2>2. /\ Sound(conn[c]) /\ conn[c].failed = {} /\ conn[c].io["SEND"] \in InKernel
        /\ UNCHANGED disp /\ conn[c] \in ConnectRecord
    BY <1>3, CompletesFacts DEF IocpSend
  <2>3. conn[c].sendused \in Nat
    BY <2>2, SendBufferAssumption DEF ConnectRecord
  <2>4. sent \in 0..conn[c].sendused
    BY <2>1, <2>3
  <2>5. posts \in BOOLEAN
    BY Outcomes
  <2>6. Sound(OnSocketIOCPSend(conn[c], sent, posts))
    BY <2>2, <2>4, <2>5, OnSocketIOCPSendSound
  <2>7. QED
    BY <2>1, <2>2, <2>6, CommitInv
<1>4. CASE IocpConnect(c)
  <2>1. Commit(c, OnSocketIOCPConnect(conn[c]))
    BY <1>4 DEF IocpConnect
  <2>2. /\ Sound(conn[c]) /\ conn[c].failed = {} /\ conn[c].io["CONNECT"] \in InKernel
        /\ UNCHANGED disp
    BY <1>4, CompletesFacts DEF IocpConnect
  <2>3. Sound(OnSocketIOCPConnect(conn[c]))
    BY <2>2, OnSocketIOCPConnectSound
  <2>4. QED
    BY <2>1, <2>2, <2>3, CommitInv
<1>5. CASE IocpAccept(c)
  <2>1. PICK binds \in IF conn[c].bound THEN {FALSE} ELSE Unless("bind"),
             allowed \in Unless("forbidIP"), posts \in Unless("firstRecv") :
          Commit(c, OnSocketIOCPAccept(conn[c], binds, allowed, posts))
    BY <1>5 DEF IocpAccept
  <2>2. /\ Sound(conn[c]) /\ conn[c].failed = {} /\ conn[c].io["ACCEPT"] \in InKernel
        /\ UNCHANGED disp
    BY <1>5, CompletesFacts DEF IocpAccept
  <2>3. binds \in BOOLEAN /\ allowed \in BOOLEAN /\ posts \in BOOLEAN
    BY Outcomes
  <2>4. Sound(OnSocketIOCPAccept(conn[c], binds, allowed, posts))
    BY <2>2, <2>3, OnSocketIOCPAcceptSound
  <2>5. QED
    BY <2>1, <2>2, <2>4, CommitInv
<1>6. CASE IocpDisconnect(c)
  <2>1. Commit(c, OnSocketIODisConnect(conn[c]))
    BY <1>6 DEF IocpDisconnect
  <2>2. /\ Sound(conn[c]) /\ conn[c].failed = {} /\ conn[c].io["DISCONNECT"] \in InKernel
        /\ UNCHANGED disp
    BY <1>6, CompletesFacts DEF IocpDisconnect
  <2>3. Sound(OnSocketIODisConnect(conn[c]))
    BY <2>2, OnSocketIODisConnectSound
  <2>4. QED
    BY <2>1, <2>2, <2>3, CommitInv
<1>7. CASE \E op \in Ops : IocpClose(c, op)
  <2>1. PICK op \in Ops, result \in {"eof", "err"} :
          /\ Completes(c, op, result)
          /\ Commit(c, OnSocketIOCPClose(conn[c], op, result = "err"))
    BY <1>7 DEF IocpClose
  <2>2. /\ Sound(conn[c]) /\ conn[c].failed = {} /\ conn[c].io[op] \in InKernel
        /\ UNCHANGED disp
    BY <2>1, CompletesFacts
  <2>3. Sound(OnSocketIOCPClose(conn[c], op, TRUE)) /\ Sound(OnSocketIOCPClose(conn[c], op, FALSE))
    BY <2>2, OnSocketIOCPCloseSound
  <2>4. (result = "err") \in BOOLEAN
    OBVIOUS
  <2>5. Sound(OnSocketIOCPClose(conn[c], op, result = "err"))
    BY <2>3, <2>4
  <2>6. QED
    BY <2>1, <2>2, <2>5, CommitInv
<1>8. QED
  BY <1>1, <1>2, <1>3, <1>4, <1>5, <1>6, <1>7

-----------------------------------------------------------------------------
(* The lists of CIOCP.                                                     *)

(* A step that leaves the queue and the dispatcher alone, or takes a packet *)
(* from the front of the queue.                                             *)
LEMMA ObjectsInv ==
  ASSUME IInv, conn' \in [Conns -> ConnectRecord], \A x \in Conns : Sound(conn'[x]),
         packets' = packets \/ (packets # <<>> /\ packets' = Tail(packets)),
         disp' = disp \/ disp' = Idle
  PROVE  IInv'
<1>1. packets' \in Seq(Packet)
  BY DEF IInv
<1>2. disp'.at # "idle" => disp'.conn \in Conns
  BY DEF IInv, Idle
<1>3. QED
  BY <1>1, <1>2 DEF IInv

(* Objects that each did nothing, waited for a client or were replaced. *)
LEMMA ArmedSound ==
  ASSUME NEW cf, \A x \in Conns : Sound(cf[x]),
         conn' = [x \in Conns |-> conn'[x]],
         \A x \in Conns : conn'[x] \in {WaitForAccepted(cf[x]), Deleted(cf[x]), cf[x]}
  PROVE  conn' \in [Conns -> ConnectRecord] /\ \A x \in Conns : Sound(conn'[x])
<1>1. ASSUME NEW x \in Conns PROVE Sound(conn'[x])
  <2>1. Sound(cf[x]) /\ Sound(WaitForAccepted(cf[x])) /\ Sound(Deleted(cf[x]))
    BY WaitForAcceptedSound, DeletedSound
  <2>2. QED
    BY <2>1
<1>2. \A x \in Conns : conn'[x] \in ConnectRecord
  BY <1>1 DEF Sound
<1>3. QED
  BY <1>1, <1>2

(* The loop, wherever it runs. *)
LEMMA LoopSound ==
  ASSUME NEW cf, \A x \in Conns : Sound(cf[x]), NEW q, NEW w, NEW u, NEW listens,
         Armed(cf, q, w, u, listens)
  PROVE  conn' \in [Conns -> ConnectRecord] /\ \A x \in Conns : Sound(conn'[x])
<1>1. conn' = [x \in Conns |-> conn'[x]]
  BY DEF Armed
<1>2. \A x \in Conns : conn'[x] \in {WaitForAccepted(cf[x]), Deleted(cf[x]), cf[x]}
  BY DEF Armed
<1>3. QED
  BY <1>1, <1>2, ArmedSound

(* CIOCP::Listen. *)
LEMMA ListenInv ==
  ASSUME IInv, Listen
  PROVE  IInv'
<1>1. \A x \in Conns : Sound(conn[x])
  BY DEF IInv
<1>2. Armed(conn, SetToSeq(Clients), {}, {}, TRUE) /\ UNCHANGED <<packets, disp>>
  BY DEF Listen
<1>3. conn' \in [Conns -> ConnectRecord] /\ \A x \in Conns : Sound(conn'[x])
  BY <1>1, <1>2, LoopSound
<1>4. QED
  BY <1>2, <1>3, ObjectsInv

(* One object is replaced by a Sound one. *)
LEMMA ReplaceSound ==
  ASSUME NEW cf \in [Conns -> ConnectRecord], \A x \in Conns : Sound(cf[x]),
         NEW c \in Conns, NEW r, Sound(r)
  PROVE  /\ [cf EXCEPT ![c] = r] \in [Conns -> ConnectRecord]
         /\ \A x \in Conns : Sound([cf EXCEPT ![c] = r][x])
  BY DEF Sound

(* The object goes back to its list, or an assertion about it is recorded. *)
LEMMA OnIOCPDisConnectSound ==
  ASSUME NEW cf \in [Conns -> ConnectRecord], \A x \in Conns : Sound(cf[x]),
         NEW c \in Conns, OnIOCPDisConnect(cf, c)
  PROVE  conn' \in [Conns -> ConnectRecord] /\ \A x \in Conns : Sound(conn'[x])
<1> DEFINE quiet == Check(cf[c], cf[c].iocpref = 0, "nIORef==0")
           usedA == Check(quiet, c \in acceptInUse, "m_acceptInUse has socket")
           onceA == Check(usedA, c \notin ToSet(acceptQueue), "socket is not in the free queue")
           doneA == Check(onceA, ClientsFit(Append(acceptQueue, c), acceptWait, acceptInUse \ {c}),
                          "no more than m_max_clientcnt")
           usedC == Check(quiet, c \in connectInUse, "m_ConnectInUse has socket")
           onceC == Check(usedC, c \notin ToSet(connects), "socket is not in the free queue")
           doneC == Check(onceC, OutsFit(Append(connects, c), connectInUse \ {c}),
                          "no more than m_max_connectcnt")
<1>1. Sound(quiet)
  BY CheckSound DEF Assertions, OneAtATime
<1> HIDE DEF quiet
<1>2. Sound(usedA) /\ Sound(usedC)
  BY <1>1, CheckSound DEF Assertions, OneAtATime
<1> HIDE DEF usedA, usedC
<1>3. Sound(onceA) /\ Sound(onceC)
  BY <1>2, CheckSound DEF Assertions, OneAtATime
<1> HIDE DEF onceA, onceC
<1>3a. Sound(doneA) /\ Sound(doneC)
  BY <1>3, CheckSound DEF Assertions, OneAtATime
<1> HIDE DEF doneA, doneC
<1>4. CASE Accepted(c)
  <2> DEFINE after == [cf EXCEPT ![c] = doneA]
  <2>1. \A x \in Conns : Sound(after[x])
    BY <1>3a, ReplaceSound
  <2>2. Armed(after, Append(acceptQueue, c), acceptWait, acceptInUse \ {c}, FALSE)
    BY <1>4, Zenon DEF OnIOCPDisConnect, quiet, usedA, onceA, doneA, after
  <2> HIDE DEF after
  <2>3. QED
    BY <2>1, <2>2, LoopSound
<1>5. CASE ~Accepted(c)
  <2>1. conn' = [cf EXCEPT ![c] = doneC]
    BY <1>5, Zenon DEF OnIOCPDisConnect, quiet, usedC, onceC, doneC
  <2>2. QED
    BY <1>3a, <2>1, ReplaceSound
<1>6. QED
  BY <1>4, <1>5

-----------------------------------------------------------------------------
(* The calls of the pool and the steps of the dispatcher thread.           *)

(* The object Connect takes may be any: an object it creates is a new one. *)
LEMMA ConnectToInv ==
  ASSUME IInv, ConnectTo
  PROVE  IInv'
<1>1. PICK c : \/ conn' = [conn EXCEPT ![c] = Check(ConnectOut(SetCallback(
                              Check(conn[c], conn[c].iocpref = 0, "m_iocpref==0"), FALSE, TRUE)),
                              c \notin connectInUse, "m_ConnectInUse lacks socket")]
               \/ conn' = [conn EXCEPT ![c] = Deleted(SetCallback(
                              Check(conn[c], conn[c].iocpref = 0, "m_iocpref==0"), FALSE, TRUE))]
  BY DEF ConnectTo
<1>2. UNCHANGED <<packets, disp>>
  BY DEF ConnectTo
<1>3. CASE c \in Conns
  <2> DEFINE k == Check(conn[c], conn[c].iocpref = 0, "m_iocpref==0")
             r == SetCallback(k, FALSE, TRUE)
  <2>1. Sound(conn[c])
    BY <1>3 DEF IInv
  <2>2. Sound(k)
    BY <2>1, CheckSound DEF Assertions, OneAtATime
  <2> HIDE DEF k
  <2>3. Sound(r)
    BY <2>2, SetCallbackSound
  <2> HIDE DEF r
  <2> DEFINE u == Check(ConnectOut(r), c \notin connectInUse, "m_ConnectInUse lacks socket")
  <2>4. Sound(u) /\ Sound(Deleted(r))
    <3>1. Sound(ConnectOut(r)) /\ Sound(Deleted(r))
      BY <2>3, ConnectOutSound, DeletedSound
    <3>2. QED
      BY <3>1, CheckSound DEF Assertions, OneAtATime
  <2>5. \/ conn' = [conn EXCEPT ![c] = u]
        \/ conn' = [conn EXCEPT ![c] = Deleted(r)]
    BY <1>1 DEF r, k
  <2> HIDE DEF u
  <2>6. conn \in [Conns -> ConnectRecord] /\ \A x \in Conns : Sound(conn[x])
    BY DEF IInv
  <2>7. \A s : Sound(s) => /\ [conn EXCEPT ![c] = s] \in [Conns -> ConnectRecord]
                          /\ \A x \in Conns : Sound([conn EXCEPT ![c] = s][x])
    BY <1>3, <2>6, ReplaceSound
  <2>8. conn' \in [Conns -> ConnectRecord] /\ \A x \in Conns : Sound(conn'[x])
    BY <2>4, <2>5, <2>7
  <2>9. QED
    BY <1>2, <2>8, ObjectsInv
<1>4. CASE c \notin Conns
  <2>1. conn \in [Conns -> ConnectRecord]
    BY DEF IInv
  <2>2. \A s : [conn EXCEPT ![c] = s] = conn
    BY <1>4, <2>1
  <2>3. conn' = conn
    BY <1>1, <2>2
  <2>4. QED
    BY <1>2, <2>3 DEF IInv
<1>5. QED
  BY <1>3, <1>4

(* The packet the dispatcher pops is of an object of the pool. *)
LEMMA PoppedFacts ==
  ASSUME IInv, NEW types, NextPacket(types)
  PROVE  /\ packets # <<>> /\ Head(packets).conn \in Conns
         /\ Sound(conn[Head(packets).conn]) /\ conn[Head(packets).conn] \in ConnectRecord
<1>1. packets # <<>> /\ packets \in Seq(Packet)
  BY DEF NextPacket, IInv
<1>2. Head(packets) \in Packet
  BY <1>1
<1>3. QED
  BY <1>1, <1>2 DEF Packet, IInv

(* A method of the object whose packet was popped. *)
LEMMA DispatchPacketInv ==
  ASSUME IInv, DispatchData \/ DispatchConnect \/ DispatchReuse
  PROVE  IInv'
<1> DEFINE c == Head(packets).conn
<1>1. CASE DispatchData
  <2>1. /\ packets # <<>> /\ c \in Conns /\ Sound(conn[c])
    BY <1>1, PoppedFacts DEF DispatchData
  <2>2. Sound(OnMsg(conn[c]))
    BY <2>1, OnMsgSound
  <2>3. CommitPopped(c, OnMsg(conn[c])) /\ UNCHANGED disp
    BY <1>1 DEF DispatchData
  <2>4. QED
    BY <2>1, <2>2, <2>3, CommitPoppedInv
<1>2. CASE DispatchConnect
  <2>1. /\ packets # <<>> /\ c \in Conns /\ Sound(conn[c])
    BY <1>2, PoppedFacts DEF DispatchConnect
  <2>2. PICK posts \in Unless("firstRecv") : CommitPopped(c, OnConnect(conn[c], posts))
    BY <1>2 DEF DispatchConnect
  <2>3. posts \in BOOLEAN
    BY Outcomes
  <2>4. Sound(OnConnect(conn[c], posts))
    BY <2>1, <2>3, OnConnectSound
  <2>5. UNCHANGED disp
    BY <1>2 DEF DispatchConnect
  <2>6. QED
    BY <2>1, <2>2, <2>4, <2>5, CommitPoppedInv
<1>3. CASE DispatchReuse
  <2>1. /\ packets # <<>> /\ c \in Conns
    BY <1>3, PoppedFacts DEF DispatchReuse
  <2>2. OnIOCPDisConnect(conn, c) /\ packets' = Tail(packets) /\ UNCHANGED disp
    BY <1>3 DEF DispatchReuse
  <2>3. conn \in [Conns -> ConnectRecord] /\ \A x \in Conns : Sound(conn[x])
    BY DEF IInv
  <2> HIDE DEF c
  <2>4. conn' \in [Conns -> ConnectRecord] /\ \A x \in Conns : Sound(conn'[x])
    BY <2>1, <2>2, <2>3, OnIOCPDisConnectSound
  <2>5. QED
    BY <2>1, <2>2, <2>4, ObjectsInv
<1>4. QED
  BY <1>1, <1>2, <1>3

(* The two packets that take two steps: the callback, then CIOCP. *)
LEMMA DispatchTwiceInv ==
  ASSUME IInv, DispatchAccept \/ OnIOCPAccept \/ DispatchClose \/ IOCPClose
  PROVE  IInv'
<1>1. CASE DispatchAccept \/ DispatchClose
  <2>1. packets # <<>> /\ Head(packets).conn \in Conns
    BY <1>1, PoppedFacts DEF DispatchAccept, DispatchClose
  <2>2. /\ packets' = Tail(packets) /\ UNCHANGED conn
        /\ disp'.conn = Head(packets).conn
    BY <1>1 DEF DispatchAccept, DispatchClose
  <2>3. QED
    BY <2>1, <2>2 DEF IInv
<1>2. CASE OnIOCPAccept
  <2> DEFINE c == disp.conn
             w == acceptWait \ {c}
             u == acceptInUse \cup {c}
             r == Check(conn[c], c \in acceptWait, "m_acceptWait has socket")
             s == Check(r, c \notin acceptInUse, "m_acceptInUse lacks socket")
             t == Check(s, ClientsFit(acceptQueue, w, u), "no more than m_max_clientcnt")
             cf == [conn EXCEPT ![c] = t]
  <2>1. c \in Conns /\ Sound(conn[c])
    BY <1>2 DEF OnIOCPAccept, IInv
  <2>2. Sound(r)
    BY <2>1, CheckSound DEF Assertions, OneAtATime
  <2> HIDE DEF r
  <2>2a. Sound(s)
    BY <2>2, CheckSound DEF Assertions, OneAtATime
  <2> HIDE DEF s
  <2>2b. Sound(t)
    BY <2>2a, CheckSound DEF Assertions, OneAtATime
  <2>3. /\ Armed(cf, acceptQueue, w, u, FALSE)
        /\ disp' = Idle /\ UNCHANGED packets
    BY <1>2, Zenon DEF OnIOCPAccept, c, w, u, r, s, t, cf
  <2> HIDE DEF t, w, u, c
  <2>4. \A x \in Conns : Sound(cf[x])
    BY <2>1, <2>2b, ReplaceSound DEF IInv
  <2> HIDE DEF cf
  <2>5. conn' \in [Conns -> ConnectRecord] /\ \A x \in Conns : Sound(conn'[x])
    BY <2>3, <2>4, LoopSound
  <2>6. QED
    BY <2>3, <2>5, ObjectsInv
<1>3. CASE IOCPClose
  <2> DEFINE c == disp.conn
  <2>1. c \in Conns /\ Sound(conn[c]) /\ conn \in [Conns -> ConnectRecord]
        /\ \A x \in Conns : Sound(conn[x])
    BY <1>3 DEF IOCPClose, IInv
  <2>2. disp' = Idle /\ UNCHANGED packets
    BY <1>3 DEF IOCPClose
  <2>3. \/ \E posts \in BOOLEAN : \/ conn' = [conn EXCEPT ![c] = ReuseClose(conn[c], posts)]
                                 \/ OnIOCPDisConnect([conn EXCEPT ![c] =
                                       TrueClose(ReuseClose(conn[c], posts))], c)
        \/ OnIOCPDisConnect([conn EXCEPT ![c] = TrueClose(conn[c])], c)
    BY <1>3 DEF IOCPClose
  <2> HIDE DEF c
  <2>4. \A posts \in BOOLEAN : Sound(ReuseClose(conn[c], posts))
    BY <2>1, ReuseCloseSound
  <2>5. \A posts \in BOOLEAN : Sound(TrueClose(ReuseClose(conn[c], posts)))
    BY <2>4, TrueCloseSound
  <2>6. Sound(TrueClose(conn[c]))
    BY <2>1, TrueCloseSound
  <2>7. \A r : Sound(r) => /\ [conn EXCEPT ![c] = r] \in [Conns -> ConnectRecord]
                          /\ \A x \in Conns : Sound([conn EXCEPT ![c] = r][x])
    BY <2>1, ReplaceSound
  <2>8. \A r : Sound(r) /\ OnIOCPDisConnect([conn EXCEPT ![c] = r], c)
              => conn' \in [Conns -> ConnectRecord] /\ \A x \in Conns : Sound(conn'[x])
    BY <2>1, <2>7, OnIOCPDisConnectSound
  <2>9. conn' \in [Conns -> ConnectRecord] /\ \A x \in Conns : Sound(conn'[x])
    BY <2>3, <2>4, <2>5, <2>6, <2>7, <2>8
  <2>10. QED
    BY <2>2, <2>9, ObjectsInv
<1>4. QED
  BY <1>1, <1>2, <1>3

-----------------------------------------------------------------------------

(* The invariant holds when the library is started. *)
LEMMA InitInv == Init => IInv
<1> SUFFICES ASSUME Init PROVE IInv
  OBVIOUS
<1>1. Sound(NewConnect)
  BY NewIsSteady, SteadyIsSound
<1>2. NewConnect \in ConnectRecord
  BY <1>1 DEF Sound
<1>3. QED
  BY <1>1, <1>2 DEF Init, IInv, Idle

(* Every step of every thread preserves the invariant. *)
LEMMA NextInv == IInv /\ [Next]_vars => IInv'
<1> SUFFICES ASSUME IInv, [Next]_vars PROVE IInv'
  OBVIOUS
<1>1. CASE Listen
  BY <1>1, ListenInv
<1>2. CASE User
  BY <1>2, ConnectToInv, UserInv DEF User
<1>3. CASE \E c \in Conns : PeerClose(c)
  BY <1>3 DEF PeerClose, IInv
<1>4. CASE Completion
  BY <1>4, CompletionInv
<1>5. CASE Dispatcher
  BY <1>5, DispatchPacketInv, DispatchTwiceInv DEF Dispatcher
<1>6. CASE UNCHANGED vars
  BY <1>6 DEF vars, IInv
<1>7. QED
  BY <1>1, <1>2, <1>3, <1>4, <1>5, <1>6 DEF Next

(* Every object keeps to its type and to Sound, at every moment of every run. *)
THEOREM Invariance == Spec => []IInv
  BY InitInv, NextInv, PTL DEF Spec

(* m_iocpref counts the operations the kernel owes the object, for every   *)
(* number of objects and whatever fails: CConnect may be closed when it is 0. *)
THEOREM IocprefIsExact == Spec => []IocprefCounts
<1>1. IInv => IocprefCounts
  BY DEF IInv, Sound, Counted, IocprefCounts
<1>2. QED
  BY <1>1, Invariance, PTL

(* Two sends, or two receives, are never outstanding on one object. *)
THEOREM OneSendOneReceiveHolds == Spec => []OneSendOneReceive
<1>1. IInv => OneSendOneReceive
  BY DEF IInv, Sound, Single, OneSendOneReceive
<1>2. QED
  BY <1>1, Invariance, PTL

-----------------------------------------------------------------------------
(* The queue of packets, as one object sees it.                            *)

(* A packet of one of the types is queued for object c. *)
Has(p, c, types) == \E i \in 1..Len(p) : p[i].conn = c /\ p[i].type \in types

(* The packets that begin and end what is queued for an object. *)
FirstPackets == {"ACCEPT", "CONNECT"}
LastPackets  == ClosePackets \cup {"SOCKET_REUSE"}

(* What is queued for an object begins and ends in the right order. *)
Ordered(p, c) ==
  \A i, j \in 1..Len(p) :
    i < j /\ p[i].conn = c /\ p[j].conn = c
      => p[i].type \notin LastPackets /\ p[j].type \notin FirstPackets

(* The packets a method of c hands over. *)
PacketsOf(c, out) == [i \in 1..Len(out) |-> [type |-> out[i], conn |-> c]]

(* The queue behind which they are put. *)
LEMMA ConcatFacts ==
  ASSUME NEW p \in Seq(Packet), NEW c \in Conns, NEW out \in Seq(PacketTypes)
  PROVE  LET q == p \o PacketsOf(c, out)
         IN  /\ q \in Seq(Packet) /\ Len(q) = Len(p) + Len(out)
             /\ \A i \in 1..Len(p) : q[i] = p[i]
             /\ \A i \in 1..Len(q) : i > Len(p) =>
                  /\ i - Len(p) \in 1..Len(out)
                  /\ q[i].conn = c /\ q[i].type = out[i - Len(p)]
             /\ \A i \in 1..Len(out) : q[Len(p) + i].conn = c /\ q[Len(p) + i].type = out[i]
<1> DEFINE t == PacketsOf(c, out)
           q == p \o t
<1>1. t \in Seq(Packet) /\ Len(t) = Len(out) /\ \A i \in 1..Len(out) : t[i] = [type |-> out[i], conn |-> c]
  <2>1. \A i \in 1..Len(out) : out[i] \in PacketTypes
    OBVIOUS
  <2>2. QED
    BY <2>1 DEF PacketsOf, Packet
<1> HIDE DEF t
<1>2. /\ q \in Seq(Packet) /\ Len(q) = Len(p) + Len(t)
      /\ \A i \in 1..Len(p) : q[i] = p[i]
      /\ \A i \in 1..Len(q) : i > Len(p) => i - Len(p) \in 1..Len(t) /\ q[i] = t[i - Len(p)]
      /\ \A i \in 1..Len(t) : q[Len(p) + i] = t[i]
  BY <1>1
<1> HIDE DEF q
<1>3. /\ \A i \in 1..Len(q) : i > Len(p) =>
           /\ i - Len(p) \in 1..Len(out)
           /\ q[i].conn = c /\ q[i].type = out[i - Len(p)]
      /\ \A i \in 1..Len(out) : q[Len(p) + i].conn = c /\ q[Len(p) + i].type = out[i]
  <2>1. ASSUME NEW i \in 1..Len(out) PROVE t[i].conn = c /\ t[i].type = out[i]
    <3>1. t[i] = [type |-> out[i], conn |-> c]
      BY <1>1
    <3>2. QED
      BY <3>1
  <2>2. Len(t) = Len(out)
    BY <1>1
  <2> HIDE DEF Packet
  <2>3. QED
    BY <1>2, <2>1, <2>2
<1>4. Len(q) = Len(p) + Len(out)
  BY <1>1, <1>2
<1>5. QED
  BY <1>2, <1>3, <1>4 DEF q, t

(* Packets of one object change nothing for another. *)
LEMMA QueueElsewhere ==
  ASSUME NEW p \in Seq(Packet), NEW c \in Conns, NEW out \in Seq(PacketTypes),
         NEW x \in Conns, x # c
  PROVE  LET q == p \o PacketsOf(c, out)
         IN  /\ \A types : Has(q, x, types) <=> Has(p, x, types)
             /\ Ordered(p, x) => Ordered(q, x)
<1> DEFINE q == p \o PacketsOf(c, out)
<1>1. /\ q \in Seq(Packet) /\ Len(q) = Len(p) + Len(out) /\ Len(p) \in Nat /\ Len(out) \in Nat
      /\ \A i \in 1..Len(p) : q[i] = p[i]
      /\ \A i \in 1..Len(q) : i > Len(p) => q[i].conn = c
  BY ConcatFacts
<1> HIDE DEF q
<1>2. \A i \in 1..Len(q) : q[i].conn = x => i \in 1..Len(p)
  BY <1>1
<1>3. \A types : Has(q, x, types) <=> Has(p, x, types)
  BY <1>1, <1>2 DEF Has
<1>4. Ordered(p, x) => Ordered(q, x)
  BY <1>1, <1>2 DEF Ordered
<1>5. QED
  BY <1>3, <1>4 DEF q

(* What is queued for the object whose packets they are. *)
LEMMA QueueGrows ==
  ASSUME NEW p \in Seq(Packet), NEW c \in Conns, NEW out \in Seq(PacketTypes)
  PROVE  LET q == p \o PacketsOf(c, out)
         IN  /\ \A types : Has(q, c, types) <=> \/ Has(p, c, types)
                                               \/ \E i \in 1..Len(out) : out[i] \in types
             /\ (/\ Ordered(p, c)
                 /\ out # <<>> => ~Has(p, c, LastPackets)
                 /\ \A i \in 1..Len(out) :
                      /\ out[i] \in LastPackets => i = Len(out)
                      /\ out[i] \in FirstPackets => i = 1 /\ ~Has(p, c, PacketTypes))
                => Ordered(q, c)
<1> DEFINE q == p \o PacketsOf(c, out)
<1>1. /\ q \in Seq(Packet) /\ Len(q) = Len(p) + Len(out) /\ Len(p) \in Nat /\ Len(out) \in Nat
      /\ \A i \in 1..Len(p) : q[i] = p[i]
      /\ \A i \in 1..Len(q) : i > Len(p) =>
                  /\ i - Len(p) \in 1..Len(out)
                  /\ q[i].conn = c /\ q[i].type = out[i - Len(p)]
      /\ \A i \in 1..Len(out) : q[Len(p) + i].conn = c /\ q[Len(p) + i].type = out[i]
  BY ConcatFacts
<1> HIDE DEF q
<1>2. ASSUME NEW types
      PROVE  Has(q, c, types) <=> Has(p, c, types) \/ \E i \in 1..Len(out) : out[i] \in types
  <2>1. ASSUME NEW i \in 1..Len(q), q[i].conn = c, q[i].type \in types
        PROVE  Has(p, c, types) \/ \E j \in 1..Len(out) : out[j] \in types
    <3>1. CASE i <= Len(p)
      BY <1>1, <2>1, <3>1 DEF Has
    <3>2. CASE i > Len(p)
      BY <1>1, <2>1, <3>2
    <3>3. QED
      BY <1>1, <3>1, <3>2
  <2>2. Has(p, c, types) => Has(q, c, types)
    BY <1>1 DEF Has
  <2>3. ASSUME NEW i \in 1..Len(out), out[i] \in types PROVE Has(q, c, types)
    <3>1. Len(p) + i \in 1..Len(q)
      BY <1>1
    <3>2. QED
      BY <1>1, <2>3, <3>1 DEF Has
  <2>4. QED
    BY <2>1, <2>2, <2>3 DEF Has
<1>3. ASSUME Ordered(p, c), out # <<>> => ~Has(p, c, LastPackets),
             \A i \in 1..Len(out) :
                      /\ out[i] \in LastPackets => i = Len(out)
                      /\ out[i] \in FirstPackets => i = 1 /\ ~Has(p, c, PacketTypes),
             NEW i \in 1..Len(q), NEW j \in 1..Len(q), i < j, q[i].conn = c, q[j].conn = c
      PROVE  q[i].type \notin LastPackets /\ q[j].type \notin FirstPackets
  <2>1. CASE j <= Len(p)
    <3>1. i \in 1..Len(p) /\ j \in 1..Len(p) /\ q[i] = p[i] /\ q[j] = p[j]
      BY <1>1, <1>3, <2>1
    <3>2. QED
      BY <1>3, <3>1 DEF Ordered
  <2>2. CASE j > Len(p) /\ i <= Len(p)
    <3>1. i \in 1..Len(p) /\ p[i] \in Packet /\ p[i].conn = c /\ p[i].type = q[i].type
      BY <1>1, <1>3, <2>2
    <3>2. p[i].type \in PacketTypes
      BY <3>1 DEF Packet
    <3>3. j - Len(p) \in 1..Len(out) /\ q[j].type = out[j - Len(p)]
      BY <1>1, <2>2
    <3>4. out # <<>>
      BY <3>3
    <3>5. Has(p, c, PacketTypes)
      BY <3>1, <3>2 DEF Has
    <3>6. q[i].type \notin LastPackets
      BY <1>3, <3>1, <3>4 DEF Has
    <3>7. QED
      BY <1>3, <3>3, <3>5, <3>6
  <2>3. CASE i > Len(p)
    <3>1. /\ i - Len(p) \in 1..Len(out) /\ q[i].type = out[i - Len(p)]
          /\ j - Len(p) \in 1..Len(out) /\ q[j].type = out[j - Len(p)]
      BY <1>1, <1>3, <2>3
    <3>2. j - Len(p) # 1 /\ i - Len(p) # Len(out)
      BY <1>1, <1>3, <3>1
    <3>3. QED
      BY <1>3, <3>1, <3>2
  <2>4. QED
    BY <1>1, <2>1, <2>2, <2>3
<1>4. QED
  BY <1>2, <1>3 DEF Ordered, q

(* The dispatcher takes the packet at the head. *)
LEMMA QueuePops ==
  ASSUME NEW p \in Seq(Packet), p # <<>>
  PROVE  LET c == Head(p).conn  t == Head(p).type  q == Tail(p)
         IN  /\ q \in Seq(Packet) /\ c \in Conns /\ t \in PacketTypes
             /\ \A x : Ordered(p, x) => Ordered(q, x)
             /\ \A x, types : Has(q, x, types) => Has(p, x, types)
             /\ \A x, types : x # c \/ t \notin types => (Has(q, x, types) <=> Has(p, x, types))
             /\ Has(p, c, {t})
             /\ Ordered(p, c) => ~Has(q, c, FirstPackets)
             /\ Ordered(p, c) /\ t \in LastPackets => ~Has(q, c, PacketTypes)
<1> DEFINE q == Tail(p)
<1>1. /\ q \in Seq(Packet) /\ Len(q) = Len(p) - 1 /\ Len(p) \in Nat /\ Len(p) > 0
      /\ \A i \in 1..Len(q) : i + 1 \in 1..Len(p) /\ q[i] = p[i + 1]
      /\ \A i \in 1..Len(p) : i > 1 => i - 1 \in 1..Len(q) /\ p[i] = q[i - 1]
      /\ Head(p) = p[1] /\ p[1] \in Packet
  OBVIOUS
<1> HIDE DEF q
<1>2. p[1].conn \in Conns /\ p[1].type \in PacketTypes
  BY <1>1 DEF Packet
<1>3. ASSUME NEW x, Ordered(p, x) PROVE Ordered(q, x)
  BY <1>1, <1>3 DEF Ordered
<1>4. ASSUME NEW x, NEW types, Has(q, x, types) PROVE Has(p, x, types)
  BY <1>1, <1>4 DEF Has
<1>5. ASSUME NEW x, NEW types, x # p[1].conn \/ p[1].type \notin types, Has(p, x, types)
      PROVE  Has(q, x, types)
  <2>1. PICK i \in 1..Len(p) : p[i].conn = x /\ p[i].type \in types
    BY <1>5 DEF Has
  <2>2. i > 1
    BY <1>5, <2>1
  <2>3. QED
    BY <1>1, <2>1, <2>2 DEF Has
<1>6. Has(p, p[1].conn, {p[1].type})
  BY <1>1 DEF Has
<1>7. ASSUME Ordered(p, p[1].conn), NEW i \in 1..Len(q), q[i].conn = p[1].conn
      PROVE  q[i].type \notin FirstPackets /\ p[1].type \notin LastPackets
  <2>1. i + 1 \in 1..Len(p) /\ 1 \in 1..Len(p) /\ 1 < i + 1 /\ p[i + 1].conn = p[1].conn /\ p[i + 1] = q[i]
    BY <1>1, <1>7
  <2>2. QED
    BY <1>7, <2>1 DEF Ordered
<1>8. Ordered(p, p[1].conn) => ~Has(q, p[1].conn, FirstPackets)
  BY <1>7 DEF Has
<1>9. Ordered(p, p[1].conn) /\ p[1].type \in LastPackets => ~Has(q, p[1].conn, PacketTypes)
  BY <1>7 DEF Has
<1>10. QED
  BY <1>1, <1>2, <1>3, <1>4, <1>5, <1>6, <1>8, <1>9 DEF q

(* A finite set as a list: each element once. *)
LEMMA SetToSeqFacts ==
  ASSUME NEW S, IsFiniteSet(S)
  PROVE  /\ SetToSeq(S) \in Seq(S) /\ IsInjective(SetToSeq(S)) /\ ToSet(SetToSeq(S)) = S
         /\ Len(SetToSeq(S)) = Cardinality(S)
<1> DEFINE n == Cardinality(S)
           f == SetToSeq(S)
<1>1. n \in Nat /\ ExistsBijection(1..n, S)
  BY FS_CardinalityType
<1>2. \E g \in [1..n -> S] : IsInjective(g)
  BY <1>1 DEF ExistsBijection, Bijection, Injection
<1>3. f \in [1..n -> S] /\ IsInjective(f)
  BY <1>2 DEF SetToSeq
<1>4. f \in Seq(S)
  BY <1>1, <1>3
<1>5. f \in Injection(1..n, S)
  BY <1>3 DEF Injection
<1>6. Cardinality(1..n) = n
  BY <1>1, FS_Interval
<1>7. f \in Surjection(1..n, S)
  BY <1>5, <1>6, FS_Injection
<1>8. \A t \in S : \E s \in 1..n : f[s] = t
  BY <1>7 DEF Surjection
<1> HIDE DEF f, n
<1>9. ToSet(f) = S /\ Len(f) = n
  BY <1>1, <1>3, <1>8 DEF ToSet
<1>10. QED
  BY <1>3, <1>4, <1>9 DEF f, n

-----------------------------------------------------------------------------
(* The lists of CIOCP.                                                     *)

(* A list without repetitions takes a new element. *)
LEMMA AppendNew ==
  ASSUME NEW S, NEW q \in Seq(S), IsInjective(q), NEW c \in S, c \notin ToSet(q)
  PROVE  /\ Append(q, c) \in Seq(S) /\ IsInjective(Append(q, c))
         /\ ToSet(Append(q, c)) = ToSet(q) \cup {c}
<1> DEFINE a == Append(q, c)
<1>1. /\ a \in Seq(S) /\ Len(a) = Len(q) + 1 /\ Len(q) \in Nat /\ DOMAIN a = 1..Len(a) /\ DOMAIN q = 1..Len(q)
      /\ \A i \in 1..Len(q) : a[i] = q[i]
      /\ a[Len(q) + 1] = c
  OBVIOUS
<1> HIDE DEF a
<1>2. \A i \in 1..Len(q) : q[i] # c
  BY <1>1 DEF ToSet
<1>3. \A i \in 1..Len(a) : i \in 1..Len(q) \/ i = Len(q) + 1
  BY <1>1
<1>4. IsInjective(a)
  BY <1>1, <1>2, <1>3 DEF IsInjective
<1>5. ToSet(a) = ToSet(q) \cup {c}
  <2>1. \A x \in ToSet(a) : x \in ToSet(q) \cup {c}
    BY <1>1, <1>3 DEF ToSet
  <2>2. \A x \in ToSet(q) : x \in ToSet(a)
    BY <1>1 DEF ToSet
  <2>3. c \in ToSet(a)
    <3>1. Len(q) + 1 \in 1..Len(a)
      BY <1>1
    <3>2. QED
      BY <1>1, <3>1 DEF ToSet
  <2>4. QED
    BY <2>1, <2>2, <2>3
<1>6. QED
  BY <1>1, <1>4, <1>5 DEF a

(* Two lists without a common element, one behind the other. *)
LEMMA JoinNew ==
  ASSUME NEW S, NEW q \in Seq(S), IsInjective(q), NEW m \in Seq(S), IsInjective(m),
         ToSet(q) \cap ToSet(m) = {}
  PROVE  /\ q \o m \in Seq(S) /\ IsInjective(q \o m)
         /\ ToSet(q \o m) = ToSet(q) \cup ToSet(m)
<1> DEFINE a == q \o m
<1>1. /\ a \in Seq(S) /\ Len(a) = Len(q) + Len(m) /\ Len(q) \in Nat /\ Len(m) \in Nat
      /\ DOMAIN a = 1..Len(a) /\ DOMAIN q = 1..Len(q) /\ DOMAIN m = 1..Len(m)
      /\ \A i \in 1..Len(q) : a[i] = q[i]
      /\ \A i \in 1..Len(a) : i > Len(q) => i - Len(q) \in 1..Len(m) /\ a[i] = m[i - Len(q)]
      /\ \A i \in 1..Len(m) : Len(q) + i \in 1..Len(a) /\ a[Len(q) + i] = m[i]
  OBVIOUS
<1> HIDE DEF a
<1>2. \A i \in 1..Len(q) : q[i] \in ToSet(q)
  BY <1>1 DEF ToSet
<1>3. \A i \in 1..Len(m) : m[i] \in ToSet(m)
  BY <1>1 DEF ToSet
<1>4. \A i \in 1..Len(q), j \in 1..Len(m) : q[i] # m[j]
  BY <1>2, <1>3
<1>5. IsInjective(a)
  <2>1. SUFFICES ASSUME NEW i \in 1..Len(a), NEW j \in 1..Len(a), a[i] = a[j] PROVE i = j
    BY <1>1 DEF IsInjective
  <2>2. \A x, y \in 1..Len(q) : q[x] = q[y] => x = y
    BY <1>1 DEF IsInjective
  <2>3. \A x, y \in 1..Len(m) : m[x] = m[y] => x = y
    BY <1>1 DEF IsInjective
  <2>4. CASE i <= Len(q) /\ j <= Len(q)
    BY <1>1, <2>1, <2>2, <2>4
  <2>5. CASE i > Len(q) /\ j > Len(q)
    <3>1. i - Len(q) = j - Len(q)
      BY <1>1, <2>1, <2>3, <2>5
    <3>2. QED
      BY <1>1, <3>1
  <2>6. CASE i <= Len(q) /\ j > Len(q)
    BY <1>1, <1>4, <2>1, <2>6
  <2>7. CASE i > Len(q) /\ j <= Len(q)
    BY <1>1, <1>4, <2>1, <2>7
  <2>8. QED
    BY <1>1, <2>4, <2>5, <2>6, <2>7
<1>6. ToSet(a) = ToSet(q) \cup ToSet(m)
  <2>1. ASSUME NEW x \in ToSet(a) PROVE x \in ToSet(q) \cup ToSet(m)
    <3>1. PICK i \in 1..Len(a) : x = a[i]
      BY <1>1 DEF ToSet
    <3>2. CASE i <= Len(q)
      BY <1>1, <1>2, <3>1, <3>2
    <3>3. CASE i > Len(q)
      BY <1>1, <1>3, <3>1, <3>3
    <3>4. QED
      BY <1>1, <3>2, <3>3
  <2>2. \A x \in ToSet(q) : x \in ToSet(a)
    BY <1>1 DEF ToSet
  <2>3. \A x \in ToSet(m) : x \in ToSet(a)
    <3>1. \A i \in 1..Len(m) : a[Len(q) + i] \in ToSet(a)
      BY <1>1 DEF ToSet
    <3>2. \A i \in 1..Len(m) : m[i] \in ToSet(a)
      BY <1>1, <3>1
    <3>3. QED
      BY <1>1, <3>2 DEF ToSet
  <2>4. QED
    BY <2>1, <2>2, <2>3
<1>7. QED
  BY <1>1, <1>5, <1>6 DEF a

(* The first of a list without repetitions is not in the rest. *)
LEMMA TakeFirst ==
  ASSUME NEW S, NEW q \in Seq(S), IsInjective(q), q # <<>>
  PROVE  /\ Tail(q) \in Seq(S) /\ IsInjective(Tail(q)) /\ Head(q) \in S
         /\ Head(q) \in ToSet(q) /\ ToSet(Tail(q)) \subseteq ToSet(q)
         /\ Head(q) \notin ToSet(Tail(q))
<1> DEFINE a == Tail(q)
<1>1. /\ a \in Seq(S) /\ Len(a) = Len(q) - 1 /\ Len(q) \in Nat /\ Len(q) # 0
      /\ DOMAIN a = 1..Len(a) /\ DOMAIN q = 1..Len(q) /\ Head(q) = q[1]
      /\ \A i \in 1..Len(a) : i + 1 \in 1..Len(q) /\ a[i] = q[i + 1]
  OBVIOUS
<1> HIDE DEF a
<1>2. \A x, y \in 1..Len(q) : q[x] = q[y] => x = y
  BY <1>1 DEF IsInjective
<1>3. IsInjective(a)
  <2>1. SUFFICES ASSUME NEW i \in 1..Len(a), NEW j \in 1..Len(a), a[i] = a[j] PROVE i = j
    BY <1>1 DEF IsInjective
  <2>2. i + 1 = j + 1
    BY <1>1, <1>2, <2>1
  <2>3. QED
    BY <2>2
<1>4. 1 \in 1..Len(q)
  BY <1>1
<1>5. Head(q) \in ToSet(q) /\ Head(q) \in S
  BY <1>1, <1>4 DEF ToSet
<1>6. ToSet(a) \subseteq ToSet(q)
  BY <1>1 DEF ToSet
<1>7. \A i \in 1..Len(a) : a[i] # q[1]
  <2>1. SUFFICES ASSUME NEW i \in 1..Len(a), a[i] = q[1] PROVE FALSE
    OBVIOUS
  <2>2. i + 1 = 1
    BY <1>1, <1>2, <1>4, <2>1
  <2>3. QED
    BY <2>2
<1>8. Head(q) \notin ToSet(a)
  BY <1>1, <1>7 DEF ToSet
<1>9. QED
  BY <1>1, <1>3, <1>5, <1>6, <1>8 DEF a

(* How often an object is in a list without repetitions. *)
LEMMA CountedOnce ==
  ASSUME NEW S, NEW q \in Seq(S), IsInjective(q), NEW c
  PROVE  /\ c \in ToSet(q) => Cardinality({i \in DOMAIN q : q[i] = c}) = 1
         /\ c \notin ToSet(q) => Cardinality({i \in DOMAIN q : q[i] = c}) = 0
<1> DEFINE K == {i \in DOMAIN q : q[i] = c}
<1>1. CASE c \in ToSet(q)
  <2>1. PICK i \in DOMAIN q : q[i] = c
    BY <1>1 DEF ToSet
  <2>2. K = {i}
    BY <2>1 DEF IsInjective
  <2>3. QED
    BY <1>1, <2>2, FS_Singleton
<1>2. CASE c \notin ToSet(q)
  <2>1. K = {}
    BY <1>2 DEF ToSet
  <2>2. QED
    BY <1>2, <2>1, FS_EmptySet
<1>3. QED
  BY <1>1, <1>2

(* The set of the elements of an initial part of a list without repetitions. *)
LEMMA FirstElements ==
  ASSUME NEW S, NEW q \in Seq(S), IsInjective(q), NEW k \in 0..Len(q)
  PROVE  LET T == {q[i] : i \in 1..k}
         IN  IsFiniteSet(T) /\ Cardinality(T) = k /\ T \subseteq ToSet(q)
<1> DEFINE T == {q[i] : i \in 1..k}
           f == [i \in 1..k |-> q[i]]
<1>1. k \in Nat /\ 1..k \subseteq 1..Len(q) /\ DOMAIN q = 1..Len(q)
  OBVIOUS
<1>2. f \in Injection(1..k, T)
  BY <1>1 DEF Injection, IsInjective
<1>3. f \in Surjection(1..k, T)
  BY <1>1 DEF Surjection
<1>4. ExistsBijection(1..k, T)
  BY <1>2, <1>3 DEF ExistsBijection, Bijection
<1>5. IsFiniteSet(1..k) /\ Cardinality(1..k) = k
  BY <1>1, FS_Interval
<1>6. T \subseteq ToSet(q)
  BY <1>1 DEF ToSet
<1> HIDE DEF T, f
<1>7. QED
  BY <1>4, <1>5, <1>6, FS_Bijection DEF T

(* An object that a list may give to a new session. *)
Fresh(r) == Sound(r) /\ r.failed = {} /\ r.out = <<>> /\ Clean(r)

(* Armed, for given results of its rounds. *)
LoopLeaves(cf, q, w, u, listens, k, ok) ==
  LET armed == {q[i] : i \in {j \in 1..k : ok[j]}}
      gone  == {q[i] : i \in {j \in 1..k : ~ok[j]}}
      rest  == SubSeq(q, k + 1, Len(q))
      fresh == IF listens THEN {} ELSE Clients \ (ToSet(rest) \cup w \cup armed \cup u)
  IN  /\ acceptQueue' = rest \o SetToSeq(fresh)
      /\ acceptWait' = w \cup armed
      /\ acceptInUse' = u
      /\ conn' = [c \in Conns |-> CASE c \in armed -> WaitForAccepted(cf[c])
                                    [] c \in gone  -> Deleted(cf[c])
                                    [] OTHER       -> cf[c]]
      /\ told' = [c \in Conns |-> IF c \in armed \cup gone THEN {} ELSE told[c]]

(* What the loop does to the lists and the objects, whatever its rounds give. *)
LoopDoes(cf, q, w, u) ==
  /\ acceptQueue' \in Seq(Clients) /\ IsInjective(acceptQueue')
  /\ w \subseteq acceptWait' /\ acceptWait' \subseteq w \cup ToSet(q) /\ acceptInUse' = u
  /\ ToSet(acceptQueue') \cap (acceptWait' \cup u) = {}
  /\ conn' = [x \in Conns |-> conn'[x]] /\ told' = [x \in Conns |-> told'[x]]
  /\ \A x \in acceptWait' \ w :
       Waiting(conn'[x]) /\ conn'[x].failed = {} /\ conn'[x].out = <<>> /\ told'[x] = {}
  /\ \A x \in Conns \ (acceptWait' \ w) :
       \/ conn'[x] = cf[x] /\ told'[x] = told[x]
       \/ x \in ToSet(q) /\ Clean(conn'[x]) /\ conn'[x].failed = {} /\ conn'[x].out = <<>>
            /\ told'[x] = {}

(* CIOCP takes only free objects into the waiting list, and no object is lost or doubled. *)
LEMMA ArmedEffect ==
  ASSUME NEW cf, NEW q \in Seq(Clients), IsInjective(q),
         NEW w \in SUBSET Clients, NEW u \in SUBSET Clients, NEW listens \in BOOLEAN,
         ToSet(q) \cap (w \cup u) = {},
         \A x \in ToSet(q) : Fresh(cf[x]),
         Armed(cf, q, w, u, listens)
  PROVE  LoopDoes(cf, q, w, u)
<1>0. PICK k \in 0..Len(q) : \E ok \in [1..k -> Unless("acceptPost")] : LoopLeaves(cf, q, w, u, listens, k, ok)
  BY DEF Armed, LoopLeaves
<1>1. PICK ok \in [1..k -> Unless("acceptPost")] : LoopLeaves(cf, q, w, u, listens, k, ok)
  BY <1>0
<1> DEFINE armed == {q[i] : i \in {j \in 1..k : ok[j]}}
           gone  == {q[i] : i \in {j \in 1..k : ~ok[j]}}
           rest  == SubSeq(q, k + 1, Len(q))
           fresh == IF listens THEN {} ELSE Clients \ (ToSet(rest) \cup w \cup armed \cup u)
           more  == SetToSeq(fresh)
<1>2. /\ acceptQueue' = rest \o more
      /\ acceptWait' = w \cup armed
      /\ acceptInUse' = u
      /\ conn' = [c \in Conns |-> CASE c \in armed -> WaitForAccepted(cf[c])
                                    [] c \in gone  -> Deleted(cf[c])
                                    [] OTHER       -> cf[c]]
      /\ told' = [c \in Conns |-> IF c \in armed \cup gone THEN {} ELSE told[c]]
  BY <1>1 DEF LoopLeaves
<1>3. Len(q) \in Nat /\ k \in Nat /\ k <= Len(q) /\ 1..k \subseteq 1..Len(q) /\ DOMAIN q = 1..Len(q)
  OBVIOUS
<1>4. \A a, b \in 1..Len(q) : q[a] = q[b] => a = b
  BY <1>3 DEF IsInjective
<1>5. armed \subseteq ToSet(q) /\ gone \subseteq ToSet(q) /\ armed \cap gone = {}
  <2>1. armed \subseteq ToSet(q) /\ gone \subseteq ToSet(q)
    BY <1>3 DEF ToSet
  <2>2. ASSUME NEW x \in armed, x \in gone PROVE FALSE
    <3>1. PICK i \in 1..k : ok[i] /\ q[i] = x
      BY <2>2
    <3>2. PICK j \in 1..k : ~ok[j] /\ q[j] = x
      BY <2>2
    <3>3. i = j
      BY <1>3, <1>4, <3>1, <3>2
    <3>4. QED
      BY <3>1, <3>2, <3>3
  <2>3. QED
    BY <2>1, <2>2
<1>6. rest \in Seq(Clients) /\ Len(rest) = Len(q) - k /\ \A i \in 1..Len(rest) : rest[i] = q[k + i]
  BY <1>3
<1> HIDE DEF rest
<1>7. \A i \in 1..Len(rest) : k + i \in 1..Len(q) /\ ~(k + i \in 1..k)
  BY <1>3, <1>6
<1>8. ToSet(rest) \subseteq ToSet(q) /\ ToSet(rest) \cap armed = {}
  <2>1. \A x \in ToSet(rest) : \E i \in 1..Len(rest) : x = q[k + i]
    BY <1>6 DEF ToSet
  <2>2. ToSet(rest) \subseteq ToSet(q)
    BY <1>3, <1>7, <2>1 DEF ToSet
  <2>3. ASSUME NEW x \in ToSet(rest), x \in armed PROVE FALSE
    <3>1. PICK i \in 1..Len(rest) : x = q[k + i]
      BY <2>1
    <3>2. PICK j \in 1..k : q[j] = x
      BY <2>3
    <3>3. k + i = j
      BY <1>3, <1>4, <1>7, <3>1, <3>2
    <3>4. QED
      BY <1>7, <3>3
  <2>4. QED
    BY <2>2, <2>3
<1>9. \A i, j \in 1..Len(rest) : rest[i] = rest[j] => i = j
  <2>1. ASSUME NEW i \in 1..Len(rest), NEW j \in 1..Len(rest), rest[i] = rest[j] PROVE i = j
    <3>1. k + i = k + j
      BY <1>4, <1>6, <1>7, <2>1
    <3>2. QED
      BY <1>3, <3>1
  <2>2. QED
    BY <2>1
<1>10. /\ fresh \subseteq Clients /\ IsFiniteSet(fresh)
       /\ fresh \cap (ToSet(rest) \cup w \cup armed \cup u) = {}
  <2>1. fresh \subseteq Clients
    OBVIOUS
  <2>2. IsFiniteSet(fresh)
    BY <2>1, PoolAssumption, FS_Subset
  <2>3. QED
    BY <2>1, <2>2
<1> HIDE DEF fresh
<1>11. more \in Seq(fresh) /\ IsInjective(more) /\ ToSet(more) = fresh
  BY <1>10, SetToSeqFacts
<1> HIDE DEF more, armed, gone
<1>12. /\ Len(more) \in Nat /\ DOMAIN more = 1..Len(more)
       /\ \A i \in 1..Len(more) : more[i] \in fresh
       /\ \A i, j \in 1..Len(more) : more[i] = more[j] => i = j
  BY <1>11 DEF IsInjective
<1> DEFINE all == rest \o more
<1>13. all \in Seq(Clients)
  <2>1. more \in Seq(Clients)
    BY <1>10, <1>11
  <2>2. QED
    BY <1>6, <2>1
<1>14. /\ DOMAIN all = 1..Len(all) /\ Len(all) = Len(rest) + Len(more) /\ Len(rest) \in Nat
       /\ \A i \in 1..Len(all) : IF i <= Len(rest) THEN i \in 1..Len(rest) /\ all[i] = rest[i]
                                 ELSE i - Len(rest) \in 1..Len(more) /\ all[i] = more[i - Len(rest)]
  <2>1. rest \in Seq(Clients) /\ more \in Seq(Clients)
    BY <1>6, <1>10, <1>11
  <2>2. /\ DOMAIN all = 1..Len(all) /\ Len(all) = Len(rest) + Len(more)
        /\ Len(rest) \in Nat /\ Len(more) \in Nat
        /\ \A i \in 1..Len(rest) : all[i] = rest[i]
    BY <2>1
  <2>3. \A i \in 1..Len(more) : all[Len(rest) + i] = more[i]
    BY <2>1
  <2> HIDE DEF all
  <2>4. ASSUME NEW i \in 1..Len(all), ~(i <= Len(rest))
        PROVE  i - Len(rest) \in 1..Len(more) /\ all[i] = more[i - Len(rest)]
    <3>1. i - Len(rest) \in 1..Len(more) /\ Len(rest) + (i - Len(rest)) = i
      BY <2>2, <2>4
    <3>2. QED
      BY <2>3, <3>1
  <2>5. QED
    BY <2>2, <2>4
<1> HIDE DEF all
<1>15. \A i \in 1..Len(rest) : rest[i] \in ToSet(rest)
  BY <1>6 DEF ToSet
<1>16. IsInjective(all)
  <2>1. ASSUME NEW i \in 1..Len(all), NEW j \in 1..Len(all), all[i] = all[j] PROVE i = j
    <3>1. CASE i <= Len(rest) /\ j <= Len(rest)
      BY <1>9, <1>14, <2>1, <3>1
    <3>2. CASE i <= Len(rest) /\ ~(j <= Len(rest))
      BY <1>10, <1>12, <1>14, <1>15, <2>1, <3>2
    <3>3. CASE ~(i <= Len(rest)) /\ j <= Len(rest)
      BY <1>10, <1>12, <1>14, <1>15, <2>1, <3>3
    <3>4. CASE ~(i <= Len(rest)) /\ ~(j <= Len(rest))
      <4>1. i - Len(rest) = j - Len(rest)
        BY <1>12, <1>14, <2>1, <3>4
      <4>2. QED
        BY <1>14, <4>1
    <3>5. QED
      BY <3>1, <3>2, <3>3, <3>4
  <2>2. QED
    BY <1>14, <2>1 DEF IsInjective
<1>17. ToSet(all) \subseteq ToSet(rest) \cup fresh
  <2>1. \A i \in 1..Len(all) : all[i] \in ToSet(rest) \cup fresh
    BY <1>12, <1>14, <1>15
  <2>2. QED
    BY <1>14, <2>1 DEF ToSet
<1>18. ToSet(all) \cap (w \cup armed \cup u) = {}
  BY <1>5, <1>8, <1>10, <1>17
<1>19. w \cup armed \subseteq w \cup ToSet(q)
  BY <1>5
<1>20. armed \subseteq Clients /\ gone \subseteq Clients /\ ToSet(q) \subseteq Clients /\ armed \cap w = {}
  <2>1. ToSet(q) \subseteq Clients
    BY DEF ToSet
  <2>2. QED
    BY <1>5, <2>1
<1>21. ASSUME NEW x \in acceptWait' \ w
       PROVE  Waiting(conn'[x]) /\ conn'[x].failed = {} /\ conn'[x].out = <<>> /\ told'[x] = {}
  <2>1. x \in armed /\ x \in Conns /\ x \in ToSet(q)
    BY <1>2, <1>5, <1>20, <1>21 DEF Conns
  <2>2. Fresh(cf[x])
    BY <2>1
  <2>3. conn'[x] = WaitForAccepted(cf[x]) /\ told'[x] = {}
    BY <1>2, <1>5, <2>1, Zenon
  <2>4. LET s == WaitForAccepted(cf[x]) IN Waiting(s) /\ s.failed = {} /\ s.out = cf[x].out
    BY <2>2, WaitsAfterClean DEF Fresh
  <2>5. QED
    BY <2>2, <2>3, <2>4 DEF Fresh
<1>22. ASSUME NEW x \in Conns \ (acceptWait' \ w)
       PROVE  \/ conn'[x] = cf[x] /\ told'[x] = told[x]
              \/ x \in ToSet(q) /\ Clean(conn'[x]) /\ conn'[x].failed = {} /\ conn'[x].out = <<>>
                   /\ told'[x] = {}
  <2>1. x \notin armed
    BY <1>2, <1>20, <1>22
  <2>2. CASE x \in gone
    <3>1. Fresh(cf[x]) /\ x \in ToSet(q)
      BY <1>5, <2>2
    <3>2. conn'[x] = Deleted(cf[x]) /\ told'[x] = {}
      BY <1>2, <1>5, <2>1, <2>2, Zenon
    <3>3. Clean(Deleted(cf[x])) /\ Deleted(cf[x]).failed = cf[x].failed /\ Deleted(cf[x]).out = <<>>
      BY <3>1, CleanIsQuiet, DeletedIsClean DEF Fresh
    <3>4. QED
      BY <3>1, <3>2, <3>3 DEF Fresh
  <2>3. CASE x \notin gone
    BY <1>2, <2>1, <2>3, Zenon
  <2>4. QED
    BY <2>2, <2>3
<1>23. conn' = [x \in Conns |-> conn'[x]] /\ told' = [x \in Conns |-> told'[x]]
  BY <1>2
<1>24. QED
  BY <1>2, <1>13, <1>16, <1>18, <1>19, <1>21, <1>22, <1>23 DEF all, LoopDoes
=============================================================================
