--------------------------- MODULE SessionProofs ---------------------------
(***************************************************************************)
(* The socket library as a whole: the state of every CConnect object, the  *)
(* packets queued for it, what the dispatcher does with it and what its    *)
(* user was told agree with the list of CIOCP the object is in (PoolInv).  *)
(* From this follow the safety properties of SocketPool.tla; with what was *)
(* said of the end of an object's last session (EndsInv) it follows that   *)
(* the library implements Session.tla.                                     *)
(***************************************************************************)
EXTENDS SocketPoolProofs, SequenceTheorems

-----------------------------------------------------------------------------
(* The stages of an object.                                                 *)

(* What a user was told of a session (the argument is told[c]). *)
Holds(t)  == t \cap {"OnAccept", "Connect"} # {}
Opened(t) == t \cap {"OnConnect", "OnMsg"} # {}
Untold(t) == ~Holds(t) /\ ~Opened(t)

(* Neither the queue nor the dispatcher has anything of the object. *)
Away(c, p, d) == ~Has(p, c, PacketTypes) /\ d.conn # c

(* A session is under way, and a close packet is queued exactly when it is over. *)
Talks(c, r, p, t) ==
  /\ InSession(r) /\ OfKind(r, Accepted(c))
  /\ ~Has(p, c, {"SOCKET_REUSE"})
  /\ Done(r) <=> Has(p, c, ClosePackets)
  /\ Opened(t) => r.onConnectTimes = 1 /\ Holds(t)

(* The user has heard of the close, and the pool has still to take the object back. *)
AtClose(c, r, p, d, t) ==
  /\ d.at = "IOCPClose" /\ d.conn = c
  /\ InSession(r) /\ Done(r)
  /\ ~Has(p, c, PacketTypes)
  /\ Untold(t)

(* The stages of an object: in a free list, waiting for a client, in use, connected out. *)
IsFree(c, r, p, d, t) == Clean(r) /\ Away(c, p, d) /\ Untold(t)

Waits(c, r, p, d, t) ==
  \/ Waiting(r) /\ Away(c, p, d) /\ Untold(t)
  \/ Talks(c, r, p, t) /\ d.conn # c /\ Untold(t) /\ Has(p, c, {"ACCEPT"})
  \/ /\ d.at = "OnIOCPAccept" /\ d.conn = c
     /\ Talks(c, r, p, t) /\ Holds(t) /\ ~Has(p, c, FirstPackets)

Used(c, r, p, d, t) ==
  \/ /\ Talks(c, r, p, t) /\ d.conn # c /\ ~Has(p, c, FirstPackets)
     /\ ~Done(r) \/ r.callback \/ Has(p, c, {"DATA"}) => Holds(t)
  \/ AtClose(c, r, p, d, t)
  \/ Disconnecting(r) /\ Away(c, p, d) /\ Untold(t)
  \/ /\ Clean(r) /\ d.conn # c /\ Untold(t)
     /\ Has(p, c, {"SOCKET_REUSE"}) /\ ~Has(p, c, PacketTypes \ {"SOCKET_REUSE"})

ConnectUsed(c, r, p, d, t) ==
  \/ Connecting(r) /\ Away(c, p, d) /\ ~Opened(t) /\ Holds(t)
  \/ /\ Talks(c, r, p, t) /\ d.conn # c /\ Holds(t) /\ ~Has(p, c, {"ACCEPT"})
     /\ Has(p, c, {"CONNECT"}) => r.onConnectTimes = 0
     /\ r.onConnectTimes = 0 => ~Has(p, c, {"DATA"})
  \/ AtClose(c, r, p, d, t)

(* The stage agrees with the list the object is in: w, u and k are the three of objects *)
(* that are not free.                                                                   *)
ObjectIs(c, r, p, d, t, w, u, k) ==
  /\ Ordered(p, c)
  /\ r.out = <<>> /\ r.failed = {}
  /\ c \notin w \cup u \cup k => IsFree(c, r, p, d, t)
  /\ c \in w => Waits(c, r, p, d, t)
  /\ c \in u => Used(c, r, p, d, t)
  /\ c \in k => ConnectUsed(c, r, p, d, t)

(* An object is in one of them at most. *)
Apart(w, u, k) ==
  /\ w \subseteq Clients /\ u \subseteq Clients /\ w \cap u = {}
  /\ k \subseteq Outs

(* An object a step does not concern. *)
LEMMA Unconcerned ==
  ASSUME NEW c, NEW r, NEW t, NEW p, NEW d, NEW w, NEW u, NEW k,
         ObjectIs(c, r, p, d, t, w, u, k),
         NEW q, NEW e, NEW w1, NEW u1, NEW k1,
         \A types : Has(q, c, types) <=> Has(p, c, types),
         Ordered(q, c),
         e = d \/ (d.conn # c /\ e.conn # c),
         c \in w1 <=> c \in w, c \in u1 <=> c \in u, c \in k1 <=> c \in k
  PROVE  ObjectIs(c, r, q, e, t, w1, u1, k1)
<1>1. Talks(c, r, p, t) <=> Talks(c, r, q, t)
  BY DEF Talks
<1>2. CASE e = d
  BY <1>1, <1>2 DEF ObjectIs, IsFree, Waits, Used, ConnectUsed, AtClose, Away
<1>3. CASE d.conn # c /\ e.conn # c
  BY <1>1, <1>3 DEF ObjectIs, IsFree, Waits, Used, ConnectUsed, AtClose, Away
<1>4. QED
  BY <1>2, <1>3

(* A clean object has nothing outstanding. *)
LEMMA CleanIsDone ==
  ASSUME NEW r, Sound(r), r.failed = {}, Clean(r)
  PROVE  Done(r)
  BY CleanIsQuiet DEF Done, Clean, Unused

(* What an object is found to be, from what is known of it. *)
LEMMA BusyTalks ==
  ASSUME NEW c, NEW r, NEW p, NEW d, NEW t, NEW w, NEW u, NEW k,
         ObjectIs(c, r, p, d, t, w, u, k), Sound(r),
         NEW op \in {"SEND", "RECV"}, r.io[op] \in InKernel
  PROVE  Talks(c, r, p, t) /\ ~Done(r)
<1>1. op \in Ops /\ r.io[op] # "idle" /\ r.failed = {}
  BY DEF Ops, InKernel, ObjectIs
<1>2. ~Done(r)
  BY <1>1, BusyIsCounted DEF Done
<1>3. ~Clean(r) /\ ~Waiting(r) /\ ~Disconnecting(r) /\ ~Connecting(r)
  BY <1>1 DEF Clean, Waiting, Disconnecting, Connecting, Only
<1>4. QED
  BY <1>2, <1>3 DEF ObjectIs, IsFree, Waits, Used, ConnectUsed, AtClose

(* A connection the user holds and that is not connecting is in a session. *)
LEMMA HeldTalks ==
  ASSUME NEW c, NEW r, NEW p, NEW d, NEW t, NEW w, NEW u, NEW k,
         ObjectIs(c, r, p, d, t, w, u, k), Holds(t), r.status # "CONNECTOUT"
  PROVE  Talks(c, r, p, t)
  BY DEF ObjectIs, IsFree, Waits, Used, ConnectUsed, AtClose, Untold, Connecting

(* Only an object that waits has an AcceptEx in the kernel. *)
LEMMA AcceptingWaits ==
  ASSUME NEW c, NEW r, NEW p, NEW d, NEW t, NEW w, NEW u, NEW k,
         ObjectIs(c, r, p, d, t, w, u, k), r.io["ACCEPT"] # "idle"
  PROVE  c \in w /\ Waiting(r) /\ Away(c, p, d) /\ Untold(t)
<1>1. "ACCEPT" \in Ops
  BY DEF Ops
<1>2. ~Clean(r) /\ ~InSession(r) /\ ~Disconnecting(r) /\ ~Connecting(r)
  BY <1>1 DEF Clean, InSession, Serving, Disconnecting, Connecting, Only
<1>3. QED
  BY <1>2 DEF ObjectIs, IsFree, Waits, Used, ConnectUsed, AtClose, Talks

(* Only an object in use has a ConnectEx in the kernel. *)
LEMMA ConnectingIsUsed ==
  ASSUME NEW c, NEW r, NEW p, NEW d, NEW t, NEW w, NEW u, NEW k,
         ObjectIs(c, r, p, d, t, w, u, k), r.io["CONNECT"] # "idle"
  PROVE  c \in k /\ Connecting(r) /\ Away(c, p, d) /\ ~Opened(t) /\ Holds(t)
<1>1. "CONNECT" \in Ops
  BY DEF Ops
<1>2. ~Clean(r) /\ ~InSession(r) /\ ~Disconnecting(r) /\ ~Waiting(r)
  BY <1>1 DEF Clean, InSession, Serving, Disconnecting, Waiting, Only
<1>3. QED
  BY <1>2 DEF ObjectIs, IsFree, Waits, Used, ConnectUsed, AtClose, Talks

(* Only an object in use has a DisconnectEx in the kernel. *)
LEMMA DisconnectingIsUsed ==
  ASSUME NEW c, NEW r, NEW p, NEW d, NEW t, NEW w, NEW u, NEW k,
         ObjectIs(c, r, p, d, t, w, u, k), r.io["DISCONNECT"] # "idle"
  PROVE  c \in u /\ Disconnecting(r) /\ Away(c, p, d) /\ Untold(t)
<1>1. "DISCONNECT" \in Ops
  BY DEF Ops
<1>2. ~Clean(r) /\ ~InSession(r) /\ ~Connecting(r) /\ ~Waiting(r)
  BY <1>1 DEF Clean, InSession, Serving, Connecting, Waiting, Only
<1>3. QED
  BY <1>2 DEF ObjectIs, IsFree, Waits, Used, ConnectUsed, AtClose, Talks

(* The packets an object hands over are not part of what it is. *)
LEMMA OutIsTaken ==
  ASSUME NEW s \in ConnectRecord
  PROVE  LET e == [s EXCEPT !.out = <<>>]
         IN  /\ e.out = <<>> /\ e.failed = s.failed /\ e.onConnectTimes = s.onConnectTimes
             /\ e.status = s.status /\ e.io = s.io /\ e.socket = s.socket
             /\ InSession(s) => InSession(e)
             /\ \A a : OfKind(s, a) => OfKind(e, a)
             /\ Done(e) <=> Done(s)
             /\ Clean(s) => Clean(e)
             /\ Waiting(s) => Waiting(e)
             /\ Connecting(s) => Connecting(e)
             /\ Disconnecting(s) => Disconnecting(e)
<1> DEFINE e == [s EXCEPT !.out = <<>>]
<1>1. /\ e.status = s.status /\ e.socket = s.socket /\ e.callback = s.callback /\ e.sending = s.sending
      /\ e.recving = s.recving /\ e.packettype = s.packettype /\ e.sendused = s.sendused
      /\ e.sendpackets = s.sendpackets /\ e.closepackets = s.closepackets /\ e.buffered = s.buffered
      /\ e.iocpref = s.iocpref /\ e.io = s.io /\ e.setCallbackTimes = s.setCallbackTimes
      /\ e.onConnectTimes = s.onConnectTimes /\ e.failed = s.failed /\ e.out = <<>>
  BY DEF ConnectRecord
<1> HIDE DEF e
<1>2. InSession(s) => InSession(e)
  BY <1>1 DEF InSession, Serving, Only
<1>3. \A a : OfKind(s, a) => OfKind(e, a)
  BY <1>1 DEF OfKind
<1>4. /\ Done(e) <=> Done(s)
      /\ Clean(s) => Clean(e)
      /\ Waiting(s) => Waiting(e)
      /\ Connecting(s) => Connecting(e)
      /\ Disconnecting(s) => Disconnecting(e)
  BY <1>1 DEF Done, Clean, Waiting, Connecting, Disconnecting, Unused, Only
<1>5. QED
  BY <1>1, <1>2, <1>3, <1>4 DEF e

(* What a method may hand over in a session: data first, a close packet last and only when *)
(* the session is over.                                                                    *)
Said(r, s, out) ==
  \/ out = <<>> /\ (Done(s) <=> Done(r))
  \/ out = <<"DATA">> /\ ~Done(r) /\ ~Done(s)
  \/ ~Done(r) /\ Done(s) /\ \E x \in ClosePackets : out = <<x>> \/ out = <<"DATA", x>>

(* The methods of a session say no more than that. *)
LEMMA ClosesSays ==
  ASSUME NEW r, NEW s, ~Done(r), r.out = <<>>,
         Closes(s, r.out) \/ Closes(s, Append(r.out, "DATA"))
  PROVE  Said(r, s, s.out)
<1>1. CASE Closes(s, r.out)
  BY <1>1 DEF Closes, Said, ClosePackets
<1>2. CASE Closes(s, Append(r.out, "DATA"))
  <2>1. Append(r.out, "DATA") = <<"DATA">>
    <3>1. Append(<<>>, "DATA") = <<"DATA">>
      OBVIOUS
    <3>2. QED
      BY <3>1, Zenon
  <2>2. ASSUME NEW x \in ClosePackets PROVE Append(<<"DATA">>, x) = <<"DATA", x>>
    <3>1. <<"DATA">> \in Seq({"DATA"} \cup ClosePackets)
      OBVIOUS
    <3>2. Append(<<"DATA">>, x) \in Seq({"DATA"} \cup ClosePackets) /\ <<"DATA", x>> \in Seq({"DATA"} \cup ClosePackets)
      BY <2>2, <3>1
    <3>3. Len(Append(<<"DATA">>, x)) = 2 /\ Append(<<"DATA">>, x)[1] = "DATA" /\ Append(<<"DATA">>, x)[2] = x
      BY <2>2, <3>1
    <3>4. Len(<<"DATA", x>>) = 2 /\ <<"DATA", x>>[1] = "DATA" /\ <<"DATA", x>>[2] = x
      OBVIOUS
    <3>5. \A i \in 1..2 : Append(<<"DATA">>, x)[i] = <<"DATA", x>>[i]
      BY <3>3, <3>4
    <3>6. QED
      BY <3>2, <3>3, <3>4, <3>5, SeqEqual
  <2>3. CASE Done(s)
    BY <1>2, <2>1, <2>2, <2>3 DEF Closes, Said
  <2>4. CASE ~Done(s)
    BY <1>2, <2>1, <2>4 DEF Closes, Said
  <2>5. QED
    BY <2>3, <2>4
<1>3. QED
  BY <1>1, <1>2

(* The same, packet by packet. *)
LEMMA SaidFacts ==
  ASSUME NEW r, NEW s, NEW out, Said(r, s, out)
  PROVE  /\ out \in Seq(PacketTypes)
         /\ out # <<>> => ~Done(r)
         /\ \A i \in 1..Len(out) : /\ out[i] \in LastPackets => i = Len(out)
                                   /\ out[i] \notin FirstPackets \cup {"SOCKET_REUSE"}
                                   /\ out[i] = "DATA" => out[1] = "DATA"
         /\ Done(s) <=> Done(r) \/ \E i \in 1..Len(out) : out[i] \in ClosePackets
<1>1. CASE out = <<>> /\ (Done(s) <=> Done(r))
  BY <1>1
<1>2. CASE out = <<"DATA">> /\ ~Done(r) /\ ~Done(s)
  <2>1. Len(out) = 1 /\ out[1] = "DATA" /\ out \in Seq(PacketTypes)
    BY <1>2 DEF PacketTypes
  <2>2. QED
    BY <1>2, <2>1 DEF FirstPackets, LastPackets, ClosePackets
<1>3. ASSUME ~Done(r), Done(s), NEW x \in ClosePackets, out = <<x>>
      PROVE  /\ out \in Seq(PacketTypes) /\ Len(out) = 1 /\ out[1] = x
  BY <1>3 DEF PacketTypes, ClosePackets
<1>4. ASSUME ~Done(r), Done(s), NEW x \in ClosePackets, out = <<"DATA", x>>
      PROVE  /\ out \in Seq(PacketTypes) /\ Len(out) = 2 /\ out[1] = "DATA" /\ out[2] = x
  BY <1>4 DEF PacketTypes, ClosePackets
<1>5. CASE ~Done(r) /\ Done(s) /\ \E x \in ClosePackets : out = <<x>> \/ out = <<"DATA", x>>
  <2>1. PICK x \in ClosePackets : out = <<x>> \/ out = <<"DATA", x>>
    BY <1>5
  <2>2. CASE out = <<x>>
    BY <1>3, <1>5, <2>2 DEF FirstPackets, LastPackets, ClosePackets
  <2>3. CASE out = <<"DATA", x>>
    BY <1>4, <1>5, <2>3 DEF FirstPackets, LastPackets, ClosePackets
  <2>4. QED
    BY <2>1, <2>2, <2>3
<1>6. QED
  BY <1>1, <1>2, <1>5 DEF Said

(* A session goes on, or is over and said to be. *)
LEMMA TalksOn ==
  ASSUME NEW c \in Conns, NEW p \in Seq(Packet), NEW r, NEW t, Talks(c, r, p, t), Ordered(p, c),
         NEW s, NEW out, Said(r, s, out), InSession(s), OfKind(s, Accepted(c)),
         NEW h, Opened(h) => s.onConnectTimes = 1 /\ Holds(h)
  PROVE  LET q == p \o PacketsOf(c, out)
         IN  /\ Talks(c, s, q, h) /\ Ordered(q, c)
             /\ \A types \in {FirstPackets, {"ACCEPT"}, {"CONNECT"}} : Has(q, c, types) <=> Has(p, c, types)
             /\ Has(q, c, {"DATA"}) => Has(p, c, {"DATA"}) \/ (out # <<>> /\ out[1] = "DATA")
<1> DEFINE q == p \o PacketsOf(c, out)
<1>1. /\ out \in Seq(PacketTypes)
      /\ out # <<>> => ~Done(r)
      /\ \A i \in 1..Len(out) : /\ out[i] \in LastPackets => i = Len(out)
                                /\ out[i] \notin FirstPackets \cup {"SOCKET_REUSE"}
                                /\ out[i] = "DATA" => out[1] = "DATA"
      /\ Done(s) <=> Done(r) \/ \E i \in 1..Len(out) : out[i] \in ClosePackets
  BY SaidFacts
<1>2. ~Done(r) => ~Has(p, c, LastPackets)
  BY DEF Talks, Has, LastPackets
<1>3. /\ \A types : Has(q, c, types) <=> \/ Has(p, c, types)
                                       \/ \E i \in 1..Len(out) : out[i] \in types
      /\ Ordered(q, c)
  <2>1. /\ \A types : Has(q, c, types) <=> \/ Has(p, c, types)
                                       \/ \E i \in 1..Len(out) : out[i] \in types
        /\ (/\ Ordered(p, c)
            /\ out # <<>> => ~Has(p, c, LastPackets)
            /\ \A i \in 1..Len(out) :
                 /\ out[i] \in LastPackets => i = Len(out)
                 /\ out[i] \in FirstPackets => i = 1 /\ ~Has(p, c, PacketTypes))
           => Ordered(q, c)
    BY <1>1, QueueGrows
  <2> HIDE DEF q
  <2>2. /\ out # <<>> => ~Has(p, c, LastPackets)
        /\ \A i \in 1..Len(out) : /\ out[i] \in LastPackets => i = Len(out)
                                  /\ out[i] \in FirstPackets => i = 1 /\ ~Has(p, c, PacketTypes)
    BY <1>1, <1>2, Zenon
  <2>3. Ordered(q, c)
    BY <2>1, <2>2, Zenon
  <2>4. QED
    BY <2>1, <2>3, Zenon
<1> HIDE DEF q
<1>4. \A i \in 1..Len(out) : ~(out[i] \in FirstPackets) /\ ~(out[i] \in {"ACCEPT"})
                             /\ ~(out[i] \in {"CONNECT"}) /\ ~(out[i] \in {"SOCKET_REUSE"})
  BY <1>1, Zenon DEF FirstPackets
<1>5. Talks(c, s, q, h)
  <2>1. ~Has(q, c, {"SOCKET_REUSE"})
    BY <1>3, <1>4, Zenon DEF Talks
  <2>2. Has(q, c, ClosePackets) <=> \/ Has(p, c, ClosePackets)
                                   \/ \E i \in 1..Len(out) : out[i] \in ClosePackets
    BY <1>3, Zenon
  <2>3. Done(s) <=> Has(q, c, ClosePackets)
    BY <1>1, <2>2, Zenon DEF Talks
  <2>4. QED
    BY <2>1, <2>3 DEF Talks
<1>6. \A types \in {FirstPackets, {"ACCEPT"}, {"CONNECT"}} : Has(q, c, types) <=> Has(p, c, types)
  <2>1. Has(q, c, FirstPackets) <=> Has(p, c, FirstPackets)
    BY <1>3, <1>4, Zenon
  <2>2. Has(q, c, {"ACCEPT"}) <=> Has(p, c, {"ACCEPT"})
    BY <1>3, <1>4, Zenon
  <2>3. Has(q, c, {"CONNECT"}) <=> Has(p, c, {"CONNECT"})
    BY <1>3, <1>4, Zenon
  <2>4. QED
    BY <2>1, <2>2, <2>3
<1>7. Has(q, c, {"DATA"}) => Has(p, c, {"DATA"}) \/ (out # <<>> /\ out[1] = "DATA")
  <2>1. Has(q, c, {"DATA"}) <=> Has(p, c, {"DATA"}) \/ \E i \in 1..Len(out) : out[i] \in {"DATA"}
    BY <1>3, Zenon
  <2>2. ASSUME NEW i \in 1..Len(out), out[i] \in {"DATA"} PROVE out # <<>> /\ out[1] = "DATA"
    <3>1. out[1] = "DATA"
      BY <1>1, <2>2, Zenon
    <3>2. QED
      BY <1>1, <3>1
  <2>3. QED
    BY <2>1, <2>2, Zenon
<1>8. QED
  BY <1>3, <1>5, <1>6, <1>7 DEF q

(* A method of an object whose session is under way. *)
LEMMA TalkingObject ==
  ASSUME NEW c \in Conns, NEW p \in Seq(Packet), NEW r, NEW t, Talks(c, r, p, t),
         NEW d, NEW w, NEW u, NEW k, Apart(w, u, k), ObjectIs(c, r, p, d, t, w, u, k), Sound(r),
         ~Done(r) \/ Holds(t),
         NEW s \in ConnectRecord, Said(r, s, s.out), InSession(s), OfKind(s, Accepted(c)), s.failed = {},
         NEW h, Opened(h) => s.onConnectTimes = 1 /\ Holds(h),
         h = t \/ (Holds(t) /\ Holds(h)),
         s.onConnectTimes = r.onConnectTimes \/ Accepted(c),
         Accepted(c) \/ s.out = <<>> \/ s.out[1] # "DATA" \/ s.onConnectTimes = 1
  PROVE  ObjectIs(c, [s EXCEPT !.out = <<>>], p \o PacketsOf(c, s.out), d, h, w, u, k)
<1> DEFINE q == p \o PacketsOf(c, s.out)
           e == [s EXCEPT !.out = <<>>]
<1>1. e.out = <<>> /\ e.failed = {} /\ e.onConnectTimes = s.onConnectTimes
      /\ InSession(e) /\ OfKind(e, Accepted(c)) /\ (Done(e) <=> Done(s))
  BY OutIsTaken
<1> HIDE DEF e
<1>2. /\ Talks(c, s, q, h) /\ Ordered(q, c)
      /\ \A types \in {FirstPackets, {"ACCEPT"}, {"CONNECT"}} : Has(q, c, types) <=> Has(p, c, types)
      /\ Has(q, c, {"DATA"}) => Has(p, c, {"DATA"}) \/ (s.out # <<>> /\ s.out[1] = "DATA")
  BY TalksOn DEF ObjectIs
<1>3. s.out # <<>> => ~Done(r)
  BY SaidFacts
<1>4. ~Done(s) => ~Done(r)
  BY SaidFacts
<1> HIDE DEF q
<1>5. Talks(c, e, q, h)
  BY <1>1, <1>2 DEF Talks
<1>6. Has(q, c, {"DATA"}) => Has(p, c, {"DATA"}) \/ (~Done(r) /\ s.out[1] = "DATA")
  BY <1>2, <1>3
<1>7. /\ Has(q, c, FirstPackets) <=> Has(p, c, FirstPackets)
      /\ Has(q, c, {"ACCEPT"}) <=> Has(p, c, {"ACCEPT"})
      /\ Has(q, c, {"CONNECT"}) <=> Has(p, c, {"CONNECT"})
  BY <1>2
<1>8. ~AtClose(c, r, p, d, t)
  BY DEF AtClose, Talks, Has, PacketTypes, ClosePackets
<1>9. ~Away(c, p, d) \/ ~Done(r)
  BY DEF Away, Talks, Has, PacketTypes, ClosePackets
<1>10. ~Waiting(r) /\ ~Disconnecting(r) /\ ~Connecting(r)
  BY DEF Talks, InSession, Serving, Only, Waiting, Disconnecting, Connecting, Ops
<1>11. r.failed = {} /\ Ordered(p, c)
  BY DEF ObjectIs
<1>12. Clean(r) => Done(r)
  BY <1>11, CleanIsDone
<1>13. c \in w \cup u \cup k
  BY <1>9, <1>12 DEF ObjectIs, IsFree
<1>14. h = t \/ (Holds(t) /\ Holds(h) /\ ~Untold(t))
  BY DEF Untold
<1>15. CASE c \in w
  <2>1. Waits(c, e, q, d, h)
    BY <1>5, <1>7, <1>10, <1>14, <1>15 DEF ObjectIs, Waits
  <2>2. c \notin u /\ c \notin k
    BY <1>15, PoolAssumption DEF Apart
  <2>3. QED
    BY <1>1, <1>2, <1>15, <2>1, <2>2 DEF ObjectIs, e, q
<1>16. CASE c \in u
  <2>1. \/ ~Has(p, c, {"SOCKET_REUSE"})
        \/ FALSE
    BY DEF Talks
  <2>2. /\ Talks(c, r, p, t) /\ d.conn # c /\ ~Has(p, c, FirstPackets)
        /\ Holds(t)
    BY <1>8, <1>10, <1>16, <2>1 DEF ObjectIs, Used
  <2>3. Holds(h)
    BY <1>14, <2>2
  <2>4. Used(c, e, q, d, h)
    BY <1>5, <1>7, <2>2, <2>3 DEF Used
  <2>5. c \notin w /\ c \notin k
    BY <1>16, PoolAssumption DEF Apart
  <2>6. QED
    BY <1>1, <1>2, <1>16, <2>4, <2>5 DEF ObjectIs, e, q
<1>17. CASE c \in k
  <2>1. c \notin w /\ c \notin u /\ ~Accepted(c)
    BY <1>17, PoolAssumption DEF Apart, Accepted
  <2>2. /\ Talks(c, r, p, t) /\ d.conn # c /\ Holds(t) /\ ~Has(p, c, {"ACCEPT"})
        /\ Has(p, c, {"CONNECT"}) => r.onConnectTimes = 0
        /\ r.onConnectTimes = 0 => ~Has(p, c, {"DATA"})
    BY <1>8, <1>10, <1>17 DEF ObjectIs, ConnectUsed
  <2>3. e.onConnectTimes = r.onConnectTimes
    BY <1>1, <2>1
  <2>4. e.onConnectTimes = 0 => ~Has(q, c, {"DATA"})
    <3>1. SUFFICES ASSUME e.onConnectTimes = 0 PROVE ~Has(q, c, {"DATA"})
      OBVIOUS
    <3>2. s.onConnectTimes # 1 /\ ~Has(p, c, {"DATA"})
      BY <1>1, <2>2, <2>3, <3>1
    <3>3. QED
      BY <1>2, <2>1, <3>2
  <2>5. ConnectUsed(c, e, q, d, h)
    BY <1>5, <1>7, <1>14, <2>2, <2>3, <2>4 DEF ConnectUsed
  <2>6. QED
    BY <1>1, <1>2, <1>17, <2>1, <2>5 DEF ObjectIs, e, q
<1>18. QED
  BY <1>13, <1>15, <1>16, <1>17

-----------------------------------------------------------------------------
(* The invariant, and what a step has to do.                                *)

(* The user has seen nothing of the step. *)
SameView(t, h) ==
  /\ Holds(t) <=> Holds(h)
  /\ "OnConnect" \in t <=> "OnConnect" \in h
  /\ "OnMsg" \in t <=> "OnMsg" \in h

(* The steps of Session.tla, but for what is told of an end, in what was told before and after. *)
Moves(t, h) ==
  \/ SameView(t, h)
  \/ Untold(t) /\ Holds(h) /\ ~Opened(h)
  \/ Holds(t) /\ ~Opened(t) /\ Holds(h) /\ "OnConnect" \in h
  \/ Holds(t) /\ Holds(h) /\ ("OnConnect" \in t <=> "OnConnect" \in h) /\ "OnMsg" \in h
  \/ Holds(t) /\ Untold(h)

(* The lists of CIOCP: no object twice, none in two, none used before Listen. *)
ListsOK(aq, w, u, cq, k, l) ==
  /\ aq \in Seq(Clients) /\ IsInjective(aq)
  /\ Apart(w, u, k) /\ ToSet(aq) \cap (w \cup u) = {}
  /\ cq \in Seq(Outs) /\ IsInjective(cq) /\ ToSet(cq) \cap k = {}
  /\ l \in BOOLEAN
  /\ ~l => aq = <<>> /\ w = {} /\ u = {}

(* The dispatcher is idle or on its way back from a callback about an object. *)
DispOK == disp = Idle \/ disp \in [at : {"OnIOCPAccept", "IOCPClose"}, conn : Conns]

(* Every object is in a stage that agrees with the lists. *)
Objects(cf, p, d, tt, w, u, k) == \A x \in Conns : ObjectIs(x, cf[x], p, d, tt[x], w, u, k)

(* The calls of a session. *)
Words == {"OnAccept", "Connect", "OnConnect", "OnMsg", "Close", "CloseSending"} \cup CloseWords

(* The inductive invariant. *)
PoolInv ==
  /\ ListsOK(acceptQueue, acceptWait, acceptInUse, connects, connectInUse, listening)
  /\ DispOK
  /\ told \in [Conns -> SUBSET Words]
  /\ Objects(conn, packets, disp, told, acceptWait, acceptInUse, connectInUse)

(* What ClosedStaysClosed, NoStalePacket and SessionSpec ask of a step. *)
StaysClosed(x) ==
  conn[x].status = "INVALID" /\ conn'[x].status # "INVALID" =>
    \/ conn[x].io["ACCEPT"] = "posted" /\ conn'[x].io["ACCEPT"] = "idle"
    \/ x \in connectInUse' \ connectInUse

StartsAlone ==
  \A x \in (acceptWait' \ acceptWait) \cup (connectInUse' \ connectInUse) :
    ~Has(packets', x, PacketTypes)

SessionStep ==
  \E c \in Conns : /\ Moves(told[c], told'[c])
                   /\ \A x \in Conns \ {c} : SameView(told[x], told'[x])

(* What the proofs of the steps show. *)
StepOK ==
  /\ PoolInv'
  /\ \A x \in Conns : StaysClosed(x)
  /\ StartsAlone
  /\ Conns # {} => SessionStep

(* A step that tells a user nothing is a stutter for him. *)
LEMMA SameViewSelf ==
  ASSUME NEW t
  PROVE  SameView(t, t) /\ Moves(t, t)
  BY DEF SameView, Moves

(* A step of one object that leaves the lists alone. *)
LEMMA OneObject ==
  ASSUME IInv, PoolInv, NEW c \in Conns, NEW e, NEW h \in SUBSET Words,
         conn' = [conn EXCEPT ![c] = e], told' = [told EXCEPT ![c] = h],
         UNCHANGED <<lists, listening>>, DispOK',
         disp' = disp \/ (disp.conn \in {NoConn, c} /\ disp'.conn \in {NoConn, c}),
         \A x \in Conns \ {c} : /\ \A types : Has(packets', x, types) <=> Has(packets, x, types)
                                /\ Ordered(packets, x) => Ordered(packets', x),
         ObjectIs(c, e, packets', disp', h, acceptWait, acceptInUse, connectInUse),
         Moves(told[c], h),
         conn[c].status = "INVALID" /\ e.status # "INVALID" =>
           conn[c].io["ACCEPT"] = "posted" /\ e.io["ACCEPT"] = "idle"
  PROVE  StepOK
<1>1. conn \in [Conns -> ConnectRecord] /\ told \in [Conns -> SUBSET Words]
  BY DEF IInv, PoolInv
<1>2. /\ conn'[c] = e /\ told'[c] = h
      /\ \A x \in Conns \ {c} : conn'[x] = conn[x] /\ told'[x] = told[x]
  BY <1>1
<1>3. /\ acceptQueue' = acceptQueue /\ acceptWait' = acceptWait /\ acceptInUse' = acceptInUse
      /\ connects' = connects /\ connectInUse' = connectInUse /\ listening' = listening
  BY DEF lists
<1>4. ASSUME NEW x \in Conns \ {c}
      PROVE  ObjectIs(x, conn'[x], packets', disp', told'[x], acceptWait', acceptInUse', connectInUse')
  <2>1. ObjectIs(x, conn[x], packets, disp, told[x], acceptWait, acceptInUse, connectInUse)
    BY DEF PoolInv, Objects
  <2>2. Ordered(packets', x)
    BY <2>1 DEF ObjectIs
  <2>3. disp' = disp \/ (disp.conn # x /\ disp'.conn # x)
    BY PoolAssumption DEF Idle, PoolInv, DispOK
  <2>4. \A types : Has(packets', x, types) <=> Has(packets, x, types)
    OBVIOUS
  <2>5. ObjectIs(x, conn[x], packets', disp', told[x], acceptWait, acceptInUse, connectInUse)
    BY <2>1, <2>2, <2>3, <2>4, Unconcerned
  <2>6. QED
    BY <1>2, <1>3, <2>5
<1>5. \A x \in Conns : ObjectIs(x, conn'[x], packets', disp', told'[x], acceptWait', acceptInUse', connectInUse')
  BY <1>2, <1>3, <1>4
<1>6. PoolInv'
  <2>1. told' \in [Conns -> SUBSET Words]
    BY <1>1
  <2>2. ListsOK(acceptQueue', acceptWait', acceptInUse', connects', connectInUse', listening')
    BY <1>3 DEF PoolInv
  <2>3. QED
    BY <1>5, <2>1, <2>2 DEF PoolInv, Objects
<1>7. \A x \in Conns : StaysClosed(x)
  BY <1>2 DEF StaysClosed
<1>8. StartsAlone
  BY <1>3 DEF StartsAlone
<1>9. SessionStep
  BY <1>2, SameViewSelf DEF SessionStep
<1>10. QED
  BY <1>6, <1>7, <1>8, <1>9 DEF StepOK

(* A method of an object that leaves the queue as it was but for its own packets. *)
LEMMA CommitOK ==
  ASSUME IInv, PoolInv, NEW c \in Conns, NEW s \in ConnectRecord, NEW h \in SUBSET Words,
         Commit(c, s), told' = [told EXCEPT ![c] = h], UNCHANGED <<disp, lists, listening>>,
         ObjectIs(c, [s EXCEPT !.out = <<>>], packets \o PacketsOf(c, s.out), disp, h,
                  acceptWait, acceptInUse, connectInUse),
         Moves(told[c], h),
         conn[c].status = "INVALID" /\ s.status # "INVALID" =>
           conn[c].io["ACCEPT"] = "posted" /\ s.io["ACCEPT"] = "idle"
  PROVE  StepOK
<1> DEFINE e == [s EXCEPT !.out = <<>>]
<1>1. e.status = s.status /\ e.io = s.io
  BY DEF ConnectRecord
<1>2. conn' = [conn EXCEPT ![c] = e] /\ packets' = packets \o PacketsOf(c, s.out)
  BY DEF Commit, PacketsOf
<1> HIDE DEF e
<1>3. packets \in Seq(Packet) /\ s.out \in Seq(PacketTypes)
  BY DEF IInv, ConnectRecord
<1>4. \A x \in Conns \ {c} : /\ \A types : Has(packets', x, types) <=> Has(packets, x, types)
                             /\ Ordered(packets, x) => Ordered(packets', x)
  BY <1>2, <1>3, QueueElsewhere
<1>5. ObjectIs(c, e, packets', disp', h, acceptWait, acceptInUse, connectInUse)
  BY <1>2 DEF e
<1>6. DispOK'
  BY DEF PoolInv, DispOK
<1>7. QED
  BY <1>1, <1>2, <1>4, <1>5, <1>6, OneObject

(* A step of the dispatcher for the object whose packet it pops. *)
LEMMA PopOK ==
  ASSUME IInv, PoolInv, packets # <<>>, NEW c, c = Head(packets).conn, NEW e, NEW h \in SUBSET Words,
         conn' = [conn EXCEPT ![c] = e], packets' = Tail(packets), told' = [told EXCEPT ![c] = h],
         UNCHANGED <<lists, listening>>, DispOK', disp = Idle, disp' = Idle \/ disp'.conn = c,
         ObjectIs(c, e, packets', disp', h, acceptWait, acceptInUse, connectInUse),
         Moves(told[c], h),
         conn[c].status = "INVALID" => e.status = "INVALID"
  PROVE  StepOK
<1>1. packets \in Seq(Packet)
  BY DEF IInv
<1>2. /\ c \in Conns
      /\ \A x : Ordered(packets, x) => Ordered(packets', x)
      /\ \A x, types : x # c => (Has(packets', x, types) <=> Has(packets, x, types))
  BY <1>1, QueuePops
<1>3. disp.conn \in {NoConn, c} /\ disp'.conn \in {NoConn, c}
  BY DEF Idle
<1>4. QED
  BY <1>2, <1>3, OneObject

-----------------------------------------------------------------------------
(* The calls of the users.                                                  *)

(* The calls of the users. *)
LEMMA HeldFacts ==
  ASSUME IInv, PoolInv, Running, NEW c \in Conns, Held(c), conn[c].status # "CONNECTOUT"
  PROVE  /\ Talks(c, conn[c], packets, told[c]) /\ Holds(told[c])
         /\ ObjectIs(c, conn[c], packets, disp, told[c], acceptWait, acceptInUse, connectInUse)
         /\ Sound(conn[c]) /\ conn[c].failed = {} /\ conn[c].out = <<>>
         /\ Apart(acceptWait, acceptInUse, connectInUse) /\ packets \in Seq(Packet)
<1>1. /\ ObjectIs(c, conn[c], packets, disp, told[c], acceptWait, acceptInUse, connectInUse)
      /\ Apart(acceptWait, acceptInUse, connectInUse)
  BY DEF PoolInv, Objects, ListsOK
<1>2. Holds(told[c])
  BY DEF Held, Holds
<1>3. Talks(c, conn[c], packets, told[c])
  BY <1>1, <1>2, HeldTalks
<1>4. QED
  BY <1>1, <1>2, <1>3 DEF IInv, ObjectIs

(* A method of an object in its session that can only add data or a close packet. *)
LEMMA MethodOK ==
  ASSUME IInv, PoolInv, NEW c \in Conns, Talks(c, conn[c], packets, told[c]), conn[c].failed = {},
         ~Done(conn[c]),
         NEW s, Sound(s), InSession(s), OfKind(s, Accepted(c)), Kept(conn[c], s),
         s.status \in {conn[c].status, "INVALID"},
         \/ Closes(s, conn[c].out)
         \/ Closes(s, Append(conn[c].out, "DATA")) /\ (Accepted(c) \/ s.onConnectTimes = 1),
         NEW h \in SUBSET Words, SameView(told[c], h), h = told[c] \/ Holds(told[c]),
         Commit(c, s), told' = [told EXCEPT ![c] = h], UNCHANGED <<disp, listening, lists>>
  PROVE  StepOK
<1> DEFINE r == conn[c]
<1>1. /\ ObjectIs(c, r, packets, disp, told[c], acceptWait, acceptInUse, connectInUse)
      /\ Apart(acceptWait, acceptInUse, connectInUse)
  BY DEF PoolInv, Objects, ListsOK
<1>2. Sound(r) /\ packets \in Seq(Packet) /\ r.out = <<>> /\ s \in ConnectRecord
  BY <1>1 DEF IInv, ObjectIs, Sound
<1>3. s.failed = {} /\ s.onConnectTimes = r.onConnectTimes
  BY DEF Kept
<1>4. Opened(h) => s.onConnectTimes = 1 /\ Holds(h)
  BY <1>3 DEF Talks, SameView, Opened
<1>5. h = told[c] \/ (Holds(told[c]) /\ Holds(h))
  BY DEF SameView
<1>6. Said(r, s, s.out)
  BY <1>2, ClosesSays
<1>7. Accepted(c) \/ s.out = <<>> \/ s.out[1] # "DATA" \/ s.onConnectTimes = 1
  <2>1. CASE Accepted(c) \/ s.onConnectTimes = 1
    BY <2>1
  <2>2. CASE Closes(s, r.out) /\ Done(s)
    <3>1. PICK x \in ClosePackets : s.out = Append(<<>>, x)
      BY <1>2, <2>2 DEF Closes
    <3>2. s.out[1] = x
      BY <3>1
    <3>3. QED
      BY <3>2 DEF ClosePackets
  <2>3. CASE Closes(s, r.out) /\ ~Done(s)
    BY <1>2, <2>3 DEF Closes
  <2>4. QED
    BY <2>1, <2>2, <2>3
<1>8. ObjectIs(c, [s EXCEPT !.out = <<>>], packets \o PacketsOf(c, s.out), disp, h,
               acceptWait, acceptInUse, connectInUse)
  BY <1>1, <1>2, <1>3, <1>4, <1>5, <1>6, <1>7, TalkingObject
<1>9. Moves(told[c], h)
  BY DEF Moves
<1>10. QED
  BY <1>2, <1>8, <1>9, CommitOK

(* Send. *)
LEMMA UserSendOK ==
  ASSUME IInv, PoolInv, NEW c \in Conns, UserSend(c)
  PROVE  StepOK
<1>1. /\ Running /\ Held(c) /\ conn[c].status \in {"COMMON", "CONNECTING"}
      /\ UNCHANGED <<disp, listening, lists, told>>
  BY DEF UserSend
<1>2. PICK n \in 1..(MaxSend - conn[c].sendpackets), posts \in SendPosts(c) :
        Commit(c, Send(conn[c], n, posts))
  BY DEF UserSend
<1>3. Talks(c, conn[c], packets, told[c]) /\ Sound(conn[c]) /\ conn[c].failed = {}
  BY <1>1, HeldFacts
<1>4. posts \in BOOLEAN /\ n \in Nat
  <2>1. conn[c].sendpackets \in Nat
    BY <1>3 DEF Sound, ConnectRecord
  <2>2. QED
    BY <2>1, Outcomes, PoolAssumption
<1> DEFINE r == conn[c]
           s == Send(r, n, posts)
<1>5. InSession(r) /\ OfKind(r, Accepted(c))
  BY <1>3 DEF Talks
<1>6. /\ InSession(s) /\ Kept(r, s) /\ Closes(s, r.out) /\ s.status \in {r.status, "INVALID"}
      /\ s.io["RECV"] = r.io["RECV"]
  BY <1>1, <1>3, <1>4, <1>5, SendServes
<1>7. Sound(s)
  BY <1>3, <1>4, SendSound
<1>8. Commit(c, s)
  BY <1>2
<1> HIDE DEF s
<1>9. OfKind(s, Accepted(c))
  BY <1>5, <1>6 DEF OfKind, Kept
<1>10. ~Done(r)
  BY <1>1 DEF Done
<1>11. told' = [told EXCEPT ![c] = told[c]] /\ told[c] \in SUBSET Words
  BY <1>1 DEF PoolInv
<1>12. QED
  BY <1>1, <1>3, <1>6, <1>7, <1>8, <1>9, <1>10, <1>11, SameViewSelf, MethodOK

(* Close, once ConnectEx has completed. *)
LEMMA UserCloseOK ==
  ASSUME IInv, PoolInv, "closeEarly" \notin Allow, NEW c \in Conns, UserClose(c)
  PROVE  StepOK
<1>1. /\ Running /\ Held(c) /\ conn[c].status # "INVALID" /\ conn[c].status # "CONNECTOUT"
      /\ UNCHANGED <<disp, listening, lists>>
  BY DEF UserClose
<1>2. PICK posts \in SendPosts(c) : Commit(c, Close(conn[c], posts))
  BY DEF UserClose
<1>3. Talks(c, conn[c], packets, told[c]) /\ Sound(conn[c]) /\ conn[c].failed = {} /\ Holds(told[c])
  BY <1>1, HeldFacts
<1>4. posts \in BOOLEAN
  BY Outcomes
<1> DEFINE r == conn[c]
           s == Close(r, posts)
           h == told[c] \cup {IF conn[c].sending THEN "CloseSending" ELSE "Close"}
<1>5. InSession(r) /\ OfKind(r, Accepted(c))
  BY <1>3 DEF Talks
<1>6. /\ InSession(s) /\ Kept(r, s) /\ Closes(s, r.out) /\ s.status = "INVALID"
      /\ s.io["RECV"] = r.io["RECV"]
  BY <1>1, <1>3, <1>4, <1>5, CloseServes
<1>7. Sound(s)
  BY <1>3, <1>4, CloseSound
<1>8. Commit(c, s)
  BY <1>2
<1> HIDE DEF s
<1>9. OfKind(s, Accepted(c))
  BY <1>5, <1>6 DEF OfKind, Kept
<1>10. ~Done(r)
  BY <1>1 DEF Done
<1>11. told' = [told EXCEPT ![c] = h]
  BY DEF UserClose
<1>12. h \in SUBSET Words /\ SameView(told[c], h)
  <2>1. told[c] \in SUBSET Words
    BY DEF PoolInv
  <2>2. QED
    BY <2>1 DEF Words, SameView, Holds
<1> HIDE DEF h
<1>13. QED
  BY <1>1, <1>3, <1>6, <1>7, <1>8, <1>9, <1>10, <1>11, <1>12, MethodOK

(* The user has a connection without a callback only from OnAccept: Connect sets it. *)
LEMMA NoCallbackIsAccepted ==
  ASSUME PoolInv, NEW c \in Conns, Held(c), ~conn[c].callback, conn[c].setCallbackTimes \in Nat
  PROVE  Accepted(c)
<1>1. ObjectIs(c, conn[c], packets, disp, told[c], acceptWait, acceptInUse, connectInUse)
  BY DEF PoolInv, Objects
<1>2. Holds(told[c])
  BY DEF Held, Holds
<1>3. ~Connecting(conn[c])
  BY DEF Connecting
<1>4. Talks(c, conn[c], packets, told[c])
  BY <1>1, <1>2, <1>3 DEF ObjectIs, IsFree, Waits, Used, ConnectUsed, AtClose, Untold
<1>5. InSession(conn[c]) /\ OfKind(conn[c], Accepted(c))
  BY <1>4 DEF Talks
<1>6. conn[c].setCallbackTimes = 0
  BY <1>5 DEF InSession, Serving
<1>7. QED
  BY <1>5, <1>6 DEF OfKind

(* SetCallback, where there is no callback yet. *)
LEMMA UserSetCallbackOK ==
  ASSUME IInv, PoolInv, "setTwice" \notin Allow, NEW c \in Conns, UserSetCallback(c)
  PROVE  StepOK
<1> DEFINE r == conn[c]
           h == told[c] \cup IF r.status # "CONNECTING"
                               THEN {}
                               ELSE {"OnConnect"} \cup (IF r.buffered = 0 THEN {} ELSE {"OnMsg"})
<1>1. /\ Running /\ Accepted(c) /\ Held(c) /\ ~r.callback
      /\ told' = [told EXCEPT ![c] = h]
      /\ UNCHANGED <<disp, listening, lists>>
  <2>1. /\ Running /\ Held(c) /\ ~r.callback /\ UNCHANGED <<disp, listening, lists>>
    BY DEF UserSetCallback
  <2>2. r.setCallbackTimes \in Nat
    BY DEF IInv, ConnectRecord
  <2>3. Accepted(c)
    BY <2>1, <2>2, NoCallbackIsAccepted
  <2>4. told' = [told EXCEPT ![c] = h]
    BY <2>3 DEF UserSetCallback
  <2>5. QED
    BY <2>1, <2>3, <2>4
<1>2. PICK posts \in Unless("firstRecv") : Commit(c, SetCallback(r, TRUE, posts))
  <2>1. Accepted(c) = TRUE
    BY <1>1 DEF Accepted
  <2>2. QED
    BY <2>1 DEF UserSetCallback
<1>3. posts \in BOOLEAN
  BY Outcomes
<1>4. r.status # "CONNECTOUT"
  <2>1. /\ ObjectIs(c, r, packets, disp, told[c], acceptWait, acceptInUse, connectInUse)
        /\ Apart(acceptWait, acceptInUse, connectInUse)
    BY DEF PoolInv, Objects, ListsOK
  <2>2. c \notin connectInUse
    BY <1>1, <2>1, PoolAssumption DEF Accepted, Apart
  <2>3. QED
    BY <2>1, <2>2 DEF ObjectIs, IsFree, Waits, Used, AtClose, Talks, InSession, Serving, Clean, Waiting,
                      Disconnecting, Unused
<1>5. /\ Talks(c, r, packets, told[c]) /\ Holds(told[c])
      /\ ObjectIs(c, r, packets, disp, told[c], acceptWait, acceptInUse, connectInUse)
      /\ Sound(r) /\ r.failed = {} /\ r.out = <<>>
      /\ Apart(acceptWait, acceptInUse, connectInUse) /\ packets \in Seq(Packet)
  BY <1>1, <1>4, HeldFacts
<1>6. /\ InSession(r) /\ r.onConnectTimes = 0 /\ ~Opened(told[c])
      /\ r.status = "CONNECTING" => r.io["RECV"] # "idle"
  BY <1>1, <1>5 DEF Talks, OfKind, InSession, Serving
<1> DEFINE s == SetCallback(r, TRUE, posts)
<1>7. /\ InSession(s) /\ s.failed = {} /\ s.onConnectTimes = 1
      /\ s.setCallbackTimes = 1
      /\ s.status = IF r.status = "CONNECTING" THEN "COMMON" ELSE r.status
      /\ Done(s) <=> Done(r)
      /\ s.out = r.out
  BY <1>1, <1>3, <1>5, <1>6, SetCallbackServes
<1>8. s \in ConnectRecord
  BY <1>3, <1>5, SetCallbackSound DEF Sound
<1>9. Commit(c, s)
  BY <1>2
<1> HIDE DEF s
<1>10. /\ h \in SUBSET Words /\ Holds(h)
       /\ h = told[c] \/ "OnConnect" \in h
  <2>1. told[c] \in SUBSET Words
    BY DEF PoolInv
  <2>2. CASE r.status # "CONNECTING"
    <3>1. h = told[c]
      BY <2>2
    <3>2. QED
      BY <1>5, <2>1, <3>1
  <2>3. CASE r.status = "CONNECTING"
    <3>1. h \in {told[c] \cup {"OnConnect"}, told[c] \cup {"OnConnect", "OnMsg"}}
      BY <2>3
    <3>2. QED
      BY <1>5, <2>1, <3>1 DEF Words, Holds
  <2>4. QED
    BY <2>2, <2>3
<1> HIDE DEF h
<1>11. Moves(told[c], h)
  BY <1>5, <1>6, <1>10, SameViewSelf DEF Moves
<1>12. OfKind(s, Accepted(c))
  BY <1>1, <1>7 DEF OfKind
<1>13. Said(r, s, s.out)
  BY <1>5, <1>7 DEF Said
<1>14. ObjectIs(c, [s EXCEPT !.out = <<>>], packets \o PacketsOf(c, s.out), disp, h,
                acceptWait, acceptInUse, connectInUse)
  BY <1>1, <1>5, <1>7, <1>8, <1>10, <1>12, <1>13, TalkingObject
<1>15. r.status = "INVALID" => s.status = "INVALID"
  BY <1>7
<1>16. QED
  BY <1>1, <1>8, <1>9, <1>10, <1>11, <1>14, <1>15, CommitOK

(* A send or a receive completes: the object is in its session. *)
LEMMA BusyFacts ==
  ASSUME IInv, PoolInv, NEW c \in Conns, NEW op \in {"SEND", "RECV"}, NEW result,
         Completes(c, op, result)
  PROVE  /\ Talks(c, conn[c], packets, told[c]) /\ ~Done(conn[c])
         /\ InSession(conn[c]) /\ OfKind(conn[c], Accepted(c))
         /\ Sound(conn[c]) /\ conn[c].failed = {} /\ conn[c].io[op] \in InKernel
         /\ UNCHANGED <<disp, listening, lists>> /\ told' = [told EXCEPT ![c] = told[c]]
         /\ told[c] \in SUBSET Words
<1>1. ObjectIs(c, conn[c], packets, disp, told[c], acceptWait, acceptInUse, connectInUse)
  BY DEF PoolInv, Objects
<1>2. Sound(conn[c]) /\ conn[c].failed = {} /\ conn[c].io[op] \in InKernel
  BY DEF IInv, Completes, Running
<1>3. Talks(c, conn[c], packets, told[c]) /\ ~Done(conn[c])
  BY <1>1, <1>2, BusyTalks
<1>4. /\ UNCHANGED <<disp, listening, lists>> /\ told' = [told EXCEPT ![c] = told[c]]
      /\ told[c] \in SUBSET Words
  BY DEF Completes, PoolInv
<1>5. QED
  BY <1>2, <1>3, <1>4 DEF Talks

(* A receive completes. *)
LEMMA IocpRecvOK ==
  ASSUME IInv, PoolInv, NEW c \in Conns, IocpRecv(c)
  PROVE  StepOK
<1> DEFINE r == conn[c]
<1>1. PICK posts \in BOOLEAN : Commit(c, OnSocketIOCPRecv(r, posts))
  BY DEF IocpRecv
<1>2. /\ Talks(c, r, packets, told[c]) /\ ~Done(r) /\ InSession(r) /\ OfKind(r, Accepted(c))
      /\ Sound(r) /\ r.failed = {} /\ r.io["RECV"] \in InKernel
      /\ UNCHANGED <<disp, listening, lists>> /\ told' = [told EXCEPT ![c] = told[c]]
      /\ told[c] \in SUBSET Words
  BY BusyFacts DEF IocpRecv
<1> DEFINE s == OnSocketIOCPRecv(r, posts)
<1>3. /\ InSession(s) /\ Kept(r, s) /\ Closes(s, Append(r.out, "DATA"))
      /\ s.status \in {r.status, "INVALID"}
      /\ s.status # "INVALID" => s.io["RECV"] # "idle"
  BY <1>2, RecvServes
<1>4. Sound(s)
  BY <1>2, OnSocketIOCPRecvSound
<1> HIDE DEF s
<1>5. Accepted(c) \/ s.onConnectTimes = 1
  <2>1. r.io["RECV"] # "idle"
    BY <1>2 DEF InKernel
  <2>2. r.onConnectTimes \in Nat
    BY <1>2 DEF Sound, ConnectRecord
  <2>3. QED
    BY <1>2, <1>3, <2>1, <2>2 DEF OfKind, InSession, Serving, Kept
<1>6. OfKind(s, Accepted(c))
  BY <1>2, <1>3, <1>5 DEF OfKind, Kept
<1>7. Commit(c, s)
  BY <1>1 DEF s
<1>8. QED
  BY <1>2, <1>3, <1>4, <1>5, <1>6, <1>7, SameViewSelf, MethodOK

(* A send completes. *)
LEMMA IocpSendOK ==
  ASSUME IInv, PoolInv, NEW c \in Conns, IocpSend(c)
  PROVE  StepOK
<1> DEFINE r == conn[c]
<1>1. PICK sent \in IF r.packettype = "DATA" THEN 1..r.sendused ELSE {0}, posts \in SendPosts(c) :
        Commit(c, OnSocketIOCPSend(r, sent, posts))
  BY DEF IocpSend
<1>2. /\ Talks(c, r, packets, told[c]) /\ ~Done(r) /\ InSession(r) /\ OfKind(r, Accepted(c))
      /\ Sound(r) /\ r.failed = {} /\ r.io["SEND"] \in InKernel
      /\ UNCHANGED <<disp, listening, lists>> /\ told' = [told EXCEPT ![c] = told[c]]
      /\ told[c] \in SUBSET Words
  BY BusyFacts DEF IocpSend
<1>3. sent \in 0..r.sendused /\ posts \in BOOLEAN
  <2>1. r.sendused \in Nat
    BY <1>2, SendBufferAssumption DEF Sound, ConnectRecord
  <2>2. QED
    BY <1>1, <2>1, Outcomes
<1> DEFINE s == OnSocketIOCPSend(r, sent, posts)
<1>4. /\ InSession(s) /\ Kept(r, s) /\ Closes(s, r.out)
      /\ s.status \in {r.status, "INVALID"}
      /\ s.io["RECV"] = "idle" <=> r.io["RECV"] = "idle"
  BY <1>2, <1>3, SendDoneServes
<1>5. Sound(s)
  BY <1>2, <1>3, OnSocketIOCPSendSound
<1> HIDE DEF s
<1>6. OfKind(s, Accepted(c))
  BY <1>2, <1>4 DEF OfKind, Kept
<1>7. Commit(c, s)
  BY <1>1 DEF s
<1>8. QED
  BY <1>2, <1>4, <1>5, <1>6, <1>7, SameViewSelf, MethodOK

-----------------------------------------------------------------------------
(* The completion port.                                                     *)

(* A completion with an error, or a receive of no bytes. *)
LEMMA BusyCloseOK ==
  ASSUME IInv, PoolInv, NEW c \in Conns, NEW op \in {"SEND", "RECV"}, IocpClose(c, op)
  PROVE  StepOK
<1> DEFINE r == conn[c]
<1>1. PICK result \in {"eof", "err"} :
        Completes(c, op, result) /\ Commit(c, OnSocketIOCPClose(r, op, result = "err"))
  BY DEF IocpClose
<1>2. /\ Talks(c, r, packets, told[c]) /\ ~Done(r) /\ InSession(r) /\ OfKind(r, Accepted(c))
      /\ Sound(r) /\ r.failed = {} /\ r.io[op] \in InKernel
      /\ UNCHANGED <<disp, listening, lists>> /\ told' = [told EXCEPT ![c] = told[c]]
      /\ told[c] \in SUBSET Words
  BY <1>1, BusyFacts
<1>3. PICK error \in BOOLEAN : error = (result = "err")
  OBVIOUS
<1> DEFINE s == OnSocketIOCPClose(r, op, error)
<1>4. /\ InSession(s) /\ Kept(r, s) /\ Closes(s, r.out) /\ s.status = "INVALID"
      /\ r.io["RECV"] = "idle" => s.io["RECV"] = "idle"
  BY <1>2, CloseDoneServes
<1>5. Sound(s)
  <2>1. op \in Ops
    BY DEF Ops
  <2>2. Sound(OnSocketIOCPClose(r, op, TRUE)) /\ Sound(OnSocketIOCPClose(r, op, FALSE))
    BY <1>2, <2>1, OnSocketIOCPCloseSound
  <2>3. QED
    BY <2>2
<1>6. Commit(c, s)
  BY <1>1, <1>3
<1> HIDE DEF s
<1>7. OfKind(s, Accepted(c))
  BY <1>2, <1>4 DEF OfKind, Kept
<1>8. QED
  BY <1>2, <1>4, <1>5, <1>6, <1>7, SameViewSelf, MethodOK

(* What is known of any object an operation completes for. *)
LEMMA CompletingFacts ==
  ASSUME IInv, PoolInv, NEW c \in Conns, NEW op \in Ops, NEW result, Completes(c, op, result)
  PROVE  /\ ObjectIs(c, conn[c], packets, disp, told[c], acceptWait, acceptInUse, connectInUse)
         /\ Apart(acceptWait, acceptInUse, connectInUse) /\ packets \in Seq(Packet)
         /\ Sound(conn[c]) /\ conn[c].failed = {} /\ conn[c].out = <<>>
         /\ conn[c].io[op] \in InKernel /\ conn[c].io[op] # "idle"
         /\ UNCHANGED <<disp, listening, lists>> /\ told' = [told EXCEPT ![c] = told[c]]
         /\ told[c] \in SUBSET Words
<1>1. /\ ObjectIs(c, conn[c], packets, disp, told[c], acceptWait, acceptInUse, connectInUse)
      /\ Apart(acceptWait, acceptInUse, connectInUse)
  BY DEF PoolInv, Objects, ListsOK
<1>2. /\ UNCHANGED <<disp, listening, lists>> /\ told' = [told EXCEPT ![c] = told[c]]
      /\ told[c] \in SUBSET Words
  BY DEF Completes, PoolInv
<1>3. QED
  BY <1>1, <1>2 DEF ObjectIs, IInv, Completes, Running, InKernel

(* The first packet of a session, for an object of which none is queued. *)
LEMMA FirstPacket ==
  ASSUME NEW c \in Conns, NEW p \in Seq(Packet), Ordered(p, c), ~Has(p, c, PacketTypes),
         NEW x \in PacketTypes
  PROVE  LET q == p \o PacketsOf(c, <<x>>)
         IN  Ordered(q, c) /\ \A types : Has(q, c, types) <=> x \in types
<1> DEFINE q == p \o PacketsOf(c, <<x>>)
           out == <<x>>
<1>1. out \in Seq(PacketTypes) /\ Len(out) = 1 /\ out[1] = x
  OBVIOUS
<1> HIDE DEF out
<1>2. \A types : ~Has(p, c, types)
  <2>1. ASSUME NEW i \in 1..Len(p) PROVE p[i].type \in PacketTypes
    <3>1. p[i] \in Packet
      OBVIOUS
    <3>2. QED
      BY <3>1 DEF Packet
  <2>2. QED
    BY <2>1 DEF Has
<1>3. \A i \in 1..Len(out) : i = 1 /\ i = Len(out) /\ out[i] = x
  BY <1>1
<1>4. 1 \in 1..Len(out)
  BY <1>1
<1>5. LET o == p \o PacketsOf(c, out)
      IN  /\ \A types : Has(o, c, types) <=> Has(p, c, types) \/ \E i \in 1..Len(out) : out[i] \in types
          /\ (/\ Ordered(p, c)
              /\ out # <<>> => ~Has(p, c, LastPackets)
              /\ \A i \in 1..Len(out) :
                   /\ out[i] \in LastPackets => i = Len(out)
                   /\ out[i] \in FirstPackets => i = 1 /\ ~Has(p, c, PacketTypes))
             => Ordered(o, c)
  BY <1>1, QueueGrows
<1>6. q = p \o PacketsOf(c, out)
  BY DEF out
<1> HIDE DEF q
<1>7. Ordered(q, c)
  BY <1>2, <1>3, <1>5, <1>6, Zenon
<1>8. ASSUME NEW types PROVE Has(q, c, types) <=> x \in types
  <2>1. Has(q, c, types) <=> \E i \in 1..Len(out) : out[i] \in types
    BY <1>2, <1>5, <1>6, Zenon
  <2>2. QED
    BY <1>3, <1>4, <2>1
<1>9. QED
  BY <1>7, <1>8 DEF q

(* AcceptEx completes. *)
LEMMA IocpAcceptOK ==
  ASSUME IInv, PoolInv, "forbidIP" \notin Allow, "bind" \notin Allow, "firstRecv" \notin Allow,
         NEW c \in Conns, IocpAccept(c)
  PROVE  StepOK
<1> DEFINE r == conn[c]
<1>1. PICK binds \in IF r.bound THEN {FALSE} ELSE Unless("bind"),
           allowed \in Unless("forbidIP"), posts \in Unless("firstRecv") :
        Commit(c, OnSocketIOCPAccept(r, binds, allowed, posts))
  BY DEF IocpAccept
<1>2. allowed = TRUE /\ posts = TRUE /\ binds \in BOOLEAN /\ (binds \/ r.bound)
  BY <1>1 DEF Unless
<1>3. /\ ObjectIs(c, r, packets, disp, told[c], acceptWait, acceptInUse, connectInUse)
      /\ Apart(acceptWait, acceptInUse, connectInUse) /\ packets \in Seq(Packet)
      /\ Sound(r) /\ r.failed = {} /\ r.out = <<>>
      /\ r.io["ACCEPT"] \in InKernel /\ r.io["ACCEPT"] # "idle"
      /\ UNCHANGED <<disp, listening, lists>> /\ told' = [told EXCEPT ![c] = told[c]]
      /\ told[c] \in SUBSET Words
  <2>1. "ACCEPT" \in Ops /\ Completes(c, "ACCEPT", "ok")
    BY DEF Ops, IocpAccept
  <2>2. QED
    BY <2>1, CompletingFacts
<1>4. c \in acceptWait /\ Waiting(r) /\ Away(c, packets, disp) /\ Untold(told[c])
  BY <1>3, AcceptingWaits
<1>5. c \notin acceptInUse /\ c \notin connectInUse /\ Accepted(c)
  BY <1>3, <1>4, PoolAssumption DEF Apart, Accepted
<1> DEFINE s == OnSocketIOCPAccept(r, binds, TRUE, TRUE)
<1>6. /\ InSession(s) /\ s.failed = {} /\ s.status = "CONNECTING" /\ s.io["RECV"] # "idle"
      /\ ~s.callback /\ s.setCallbackTimes = 0 /\ s.onConnectTimes = 0
      /\ s.out = Append(r.out, "ACCEPT")
  BY <1>2, <1>3, <1>4, AcceptServes
<1>7. s \in ConnectRecord
  BY <1>2, <1>3, OnSocketIOCPAcceptSound DEF Sound
<1>8. Commit(c, s)
  BY <1>1, <1>2
<1> HIDE DEF s
<1> DEFINE q == packets \o PacketsOf(c, <<"ACCEPT">>)
           e == [s EXCEPT !.out = <<>>]
<1>9. s.out = <<"ACCEPT">>
  <2>1. Append(<<>>, "ACCEPT") = <<"ACCEPT">>
    OBVIOUS
  <2>2. QED
    BY <1>3, <1>6, <2>1, Zenon
<1>10. e.out = <<>> /\ e.failed = {} /\ e.onConnectTimes = 0 /\ InSession(e) /\ OfKind(e, Accepted(c))
       /\ ~Done(e)
  <2>1. OfKind(s, Accepted(c)) /\ ~Done(s)
    BY <1>5, <1>6 DEF OfKind, Done
  <2>2. QED
    BY <1>6, <1>7, <2>1, OutIsTaken
<1> HIDE DEF e
<1>11. Ordered(q, c) /\ \A types : Has(q, c, types) <=> "ACCEPT" \in types
  <2>1. "ACCEPT" \in PacketTypes /\ Ordered(packets, c) /\ ~Has(packets, c, PacketTypes)
    BY <1>3, <1>4 DEF PacketTypes, ObjectIs, Away
  <2>2. QED
    BY <1>3, <2>1, FirstPacket
<1> HIDE DEF q
<1>12. Has(q, c, {"ACCEPT"}) /\ ~Has(q, c, {"SOCKET_REUSE"}) /\ ~Has(q, c, ClosePackets)
  BY <1>11 DEF ClosePackets
<1>13. Talks(c, e, q, told[c]) /\ disp.conn # c
  BY <1>4, <1>10, <1>12 DEF Talks, Untold, Away
<1>14. ObjectIs(c, e, q, disp, told[c], acceptWait, acceptInUse, connectInUse)
  BY <1>4, <1>5, <1>10, <1>11, <1>12, <1>13 DEF ObjectIs, Waits
<1>15. ObjectIs(c, [s EXCEPT !.out = <<>>], packets \o PacketsOf(c, s.out), disp, told[c],
                acceptWait, acceptInUse, connectInUse)
  BY <1>9, <1>14 DEF e, q
<1>16. r.io["ACCEPT"] = "posted" /\ s.io["ACCEPT"] = "idle"
  BY <1>4, <1>6 DEF Waiting, InSession, Serving, Only, Ops
<1>17. QED
  BY <1>3, <1>7, <1>8, <1>15, <1>16, SameViewSelf, CommitOK

(* The first element of a list. *)
LEMMA AppendToNone ==
  ASSUME NEW x
  PROVE  Append(<<>>, x) = <<x>>
  OBVIOUS

(* An object of which nothing is queued hands over one packet and stays where it is. *)
LEMMA OnePacketOK ==
  ASSUME IInv, PoolInv, NEW c \in Conns, conn[c].out = <<>>, ~Has(packets, c, PacketTypes),
         Ordered(packets, c),
         NEW s \in ConnectRecord, NEW x \in PacketTypes, s.out = Append(conn[c].out, x),
         Commit(c, s), UNCHANGED <<disp, lists, listening>>, told' = [told EXCEPT ![c] = told[c]],
         told[c] \in SUBSET Words,
         \A e, q : /\ e.out = <<>> /\ e.failed = s.failed /\ e.onConnectTimes = s.onConnectTimes
                   /\ e.status = s.status /\ e.io = s.io /\ e.socket = s.socket
                   /\ InSession(s) => InSession(e)
                   /\ \A a : OfKind(s, a) => OfKind(e, a)
                   /\ Done(e) <=> Done(s)
                   /\ Clean(s) => Clean(e)
                   /\ Ordered(q, c) /\ \A types : Has(q, c, types) <=> x \in types
                   => ObjectIs(c, e, q, disp, told[c], acceptWait, acceptInUse, connectInUse),
         conn[c].status = "INVALID" => s.status = "INVALID"
  PROVE  StepOK
<1> DEFINE e == [s EXCEPT !.out = <<>>]
           q == packets \o PacketsOf(c, <<x>>)
<1>1. s.out = <<x>>
  BY AppendToNone
<1>2. /\ e.out = <<>> /\ e.failed = s.failed /\ e.onConnectTimes = s.onConnectTimes
      /\ e.status = s.status /\ e.io = s.io /\ e.socket = s.socket
      /\ InSession(s) => InSession(e)
      /\ \A a : OfKind(s, a) => OfKind(e, a)
      /\ Done(e) <=> Done(s)
      /\ Clean(s) => Clean(e)
  BY OutIsTaken
<1>3. Ordered(q, c) /\ \A types : Has(q, c, types) <=> x \in types
  BY FirstPacket DEF IInv
<1>4. ObjectIs(c, e, q, disp, told[c], acceptWait, acceptInUse, connectInUse)
  <2> HIDE DEF e, q
  <2>1. QED
    BY <1>2, <1>3, Zenon
<1>5. ObjectIs(c, [s EXCEPT !.out = <<>>], packets \o PacketsOf(c, s.out), disp, told[c],
               acceptWait, acceptInUse, connectInUse)
  BY <1>1, <1>4
<1>6. QED
  BY <1>5, SameViewSelf, CommitOK

(* ConnectEx completes. *)
LEMMA IocpConnectOK ==
  ASSUME IInv, PoolInv, NEW c \in Conns, IocpConnect(c)
  PROVE  StepOK
<1> DEFINE r == conn[c]
           s == OnSocketIOCPConnect(r)
<1>1. Commit(c, s)
  BY DEF IocpConnect
<1>2. /\ ObjectIs(c, r, packets, disp, told[c], acceptWait, acceptInUse, connectInUse)
      /\ Apart(acceptWait, acceptInUse, connectInUse) /\ packets \in Seq(Packet)
      /\ Sound(r) /\ r.failed = {} /\ r.out = <<>>
      /\ r.io["CONNECT"] \in InKernel /\ r.io["CONNECT"] # "idle"
      /\ UNCHANGED <<disp, listening, lists>> /\ told' = [told EXCEPT ![c] = told[c]]
      /\ told[c] \in SUBSET Words
  <2>1. "CONNECT" \in Ops /\ Completes(c, "CONNECT", "ok")
    BY DEF Ops, IocpConnect
  <2>2. QED
    BY <2>1, CompletingFacts
<1>3. c \in connectInUse /\ Connecting(r) /\ Away(c, packets, disp) /\ ~Opened(told[c]) /\ Holds(told[c])
  BY <1>2, ConnectingIsUsed
<1>4. c \notin acceptInUse /\ c \notin acceptWait /\ ~Accepted(c)
  BY <1>2, <1>3, PoolAssumption DEF Apart, Accepted
<1>5. /\ InSession(s) /\ Kept(r, s) /\ s.status = "CONNECTING" /\ s.io["RECV"] = "idle"
      /\ s.out = Append(r.out, "CONNECT")
  BY <1>2, <1>3, ConnectedServes
<1>6. s \in ConnectRecord
  BY <1>2, OnSocketIOCPConnectSound DEF Sound
<1> HIDE DEF s
<1>7. s.failed = {} /\ s.onConnectTimes = 0 /\ OfKind(s, Accepted(c)) /\ ~Done(s)
  BY <1>2, <1>3, <1>4, <1>5 DEF Kept, Connecting, OfKind, Done
<1>8. ASSUME NEW e, NEW q,
             e.out = <<>> /\ e.failed = s.failed /\ e.onConnectTimes = s.onConnectTimes,
             InSession(e), OfKind(e, Accepted(c)), ~Done(e),
             Ordered(q, c), \A types : Has(q, c, types) <=> "CONNECT" \in types
      PROVE  ObjectIs(c, e, q, disp, told[c], acceptWait, acceptInUse, connectInUse)
  <2>1. ~Has(q, c, {"SOCKET_REUSE"}) /\ ~Has(q, c, ClosePackets) /\ ~Has(q, c, {"ACCEPT"})
        /\ ~Has(q, c, {"DATA"})
    BY <1>8 DEF ClosePackets
  <2>2. Talks(c, e, q, told[c])
    BY <1>3, <1>8, <2>1 DEF Talks
  <2>3. ConnectUsed(c, e, q, disp, told[c])
    BY <1>3, <1>7, <1>8, <2>1, <2>2 DEF ConnectUsed, Away
  <2>4. QED
    BY <1>3, <1>4, <1>7, <1>8, <2>3 DEF ObjectIs
<1>9. ~Has(packets, c, PacketTypes) /\ Ordered(packets, c) /\ "CONNECT" \in PacketTypes
  BY <1>2, <1>3 DEF Away, ObjectIs, PacketTypes
<1>10. r.status # "INVALID"
  BY <1>3 DEF Connecting
<1>11. QED
  BY <1>1, <1>2, <1>5, <1>6, <1>7, <1>8, <1>9, <1>10, OnePacketOK

(* ConnectEx fails. *)
LEMMA ConnectFailsOK ==
  ASSUME IInv, PoolInv, NEW c \in Conns, IocpClose(c, "CONNECT")
  PROVE  StepOK
<1> DEFINE r == conn[c]
<1>0. PICK result \in {"eof", "err"} :
        Completes(c, "CONNECT", result) /\ Commit(c, OnSocketIOCPClose(r, "CONNECT", result = "err"))
  BY DEF IocpClose
<1>1. PICK error \in BOOLEAN : error = (result = "err")
  OBVIOUS
<1> DEFINE s == OnSocketIOCPClose(r, "CONNECT", error)
<1>2. /\ ObjectIs(c, r, packets, disp, told[c], acceptWait, acceptInUse, connectInUse)
      /\ Apart(acceptWait, acceptInUse, connectInUse) /\ packets \in Seq(Packet)
      /\ Sound(r) /\ r.failed = {} /\ r.out = <<>>
      /\ r.io["CONNECT"] \in InKernel /\ r.io["CONNECT"] # "idle"
      /\ UNCHANGED <<disp, listening, lists>> /\ told' = [told EXCEPT ![c] = told[c]]
      /\ told[c] \in SUBSET Words
  <2>1. "CONNECT" \in Ops
    BY DEF Ops
  <2>2. QED
    BY <1>0, <2>1, CompletingFacts
<1>3. c \in connectInUse /\ Connecting(r) /\ Away(c, packets, disp) /\ ~Opened(told[c]) /\ Holds(told[c])
  BY <1>2, ConnectingIsUsed
<1>4. c \notin acceptInUse /\ c \notin acceptWait /\ ~Accepted(c)
  BY <1>2, <1>3, PoolAssumption DEF Apart, Accepted
<1>5. /\ InSession(s) /\ Kept(r, s) /\ Closes(s, r.out) /\ Done(s)
      /\ s.io["RECV"] = "idle"
  BY <1>2, <1>3, ConnectFailsServes
<1>6. s \in ConnectRecord
  <2>1. "CONNECT" \in Ops
    BY DEF Ops
  <2>2. Sound(OnSocketIOCPClose(r, "CONNECT", TRUE)) /\ Sound(OnSocketIOCPClose(r, "CONNECT", FALSE))
    BY <1>2, <2>1, OnSocketIOCPCloseSound
  <2>3. QED
    BY <2>2 DEF Sound
<1>7. Commit(c, s)
  BY <1>0, <1>1
<1> HIDE DEF s
<1>8. PICK x \in ClosePackets : s.out = Append(r.out, x)
  BY <1>5 DEF Closes
<1>9. s.failed = {} /\ s.onConnectTimes = 0 /\ OfKind(s, Accepted(c))
  BY <1>2, <1>3, <1>4, <1>5 DEF Kept, Connecting, OfKind
<1>10. ASSUME NEW e, NEW q,
              e.out = <<>> /\ e.failed = s.failed /\ e.onConnectTimes = s.onConnectTimes,
              InSession(e), OfKind(e, Accepted(c)), Done(e),
              Ordered(q, c), \A types : Has(q, c, types) <=> x \in types
       PROVE  ObjectIs(c, e, q, disp, told[c], acceptWait, acceptInUse, connectInUse)
  <2>1. ~Has(q, c, {"SOCKET_REUSE"}) /\ Has(q, c, ClosePackets) /\ ~Has(q, c, {"ACCEPT"})
        /\ ~Has(q, c, {"DATA"}) /\ ~Has(q, c, {"CONNECT"})
    BY <1>10 DEF ClosePackets
  <2>2. Talks(c, e, q, told[c])
    BY <1>3, <1>10, <2>1 DEF Talks
  <2>3. ConnectUsed(c, e, q, disp, told[c])
    BY <1>3, <1>10, <2>1, <2>2 DEF ConnectUsed, Away
  <2>4. QED
    BY <1>3, <1>4, <1>9, <1>10, <2>3 DEF ObjectIs
<1>11. ~Has(packets, c, PacketTypes) /\ Ordered(packets, c) /\ x \in PacketTypes
  BY <1>2, <1>3 DEF Away, ObjectIs, PacketTypes, ClosePackets
<1>12. r.status # "INVALID"
  BY <1>3 DEF Connecting
<1>13. QED
  BY <1>2, <1>5, <1>6, <1>7, <1>8, <1>9, <1>10, <1>11, <1>12, OnePacketOK

(* DisconnectEx completes. *)
LEMMA IocpDisconnectOK ==
  ASSUME IInv, PoolInv, NEW c \in Conns, IocpDisconnect(c)
  PROVE  StepOK
<1> DEFINE r == conn[c]
           s == OnSocketIODisConnect(r)
<1>1. Commit(c, s)
  BY DEF IocpDisconnect
<1>2. /\ ObjectIs(c, r, packets, disp, told[c], acceptWait, acceptInUse, connectInUse)
      /\ Apart(acceptWait, acceptInUse, connectInUse) /\ packets \in Seq(Packet)
      /\ Sound(r) /\ r.failed = {} /\ r.out = <<>>
      /\ r.io["DISCONNECT"] \in InKernel /\ r.io["DISCONNECT"] # "idle"
      /\ UNCHANGED <<disp, listening, lists>> /\ told' = [told EXCEPT ![c] = told[c]]
      /\ told[c] \in SUBSET Words
  <2>1. "DISCONNECT" \in Ops /\ Completes(c, "DISCONNECT", "ok")
    BY DEF Ops, IocpDisconnect
  <2>2. QED
    BY <2>1, CompletingFacts
<1>3. c \in acceptInUse /\ Disconnecting(r) /\ Away(c, packets, disp) /\ Untold(told[c])
  BY <1>2, DisconnectingIsUsed
<1>4. c \notin connectInUse /\ c \notin acceptWait
  BY <1>2, <1>3, PoolAssumption DEF Apart
<1>5. Clean(s) /\ s.failed = {} /\ s.out = Append(r.out, "SOCKET_REUSE")
  BY <1>2, <1>3, DisconnectedIsClean
<1>6. s \in ConnectRecord
  BY <1>2, OnSocketIODisConnectSound DEF Sound
<1> HIDE DEF s
<1>7. ASSUME NEW e, NEW q,
             e.out = <<>> /\ e.failed = s.failed, Clean(e),
             Ordered(q, c), \A types : Has(q, c, types) <=> "SOCKET_REUSE" \in types
      PROVE  ObjectIs(c, e, q, disp, told[c], acceptWait, acceptInUse, connectInUse)
  <2>1. Has(q, c, {"SOCKET_REUSE"}) /\ ~Has(q, c, PacketTypes \ {"SOCKET_REUSE"})
    BY <1>7
  <2>2. Used(c, e, q, disp, told[c])
    BY <1>3, <1>7, <2>1 DEF Used, Away
  <2>3. QED
    BY <1>3, <1>4, <1>5, <1>7, <2>2 DEF ObjectIs
<1>8. ~Has(packets, c, PacketTypes) /\ Ordered(packets, c) /\ "SOCKET_REUSE" \in PacketTypes
  BY <1>2, <1>3 DEF Away, ObjectIs, PacketTypes
<1>9. s.status = "INVALID"
  BY <1>5 DEF Clean, Unused
<1>10. QED
  BY <1>1, <1>2, <1>5, <1>6, <1>7, <1>8, <1>9, OnePacketOK

(* DisconnectEx fails. *)
LEMMA DisconnectFailsOK ==
  ASSUME IInv, PoolInv, NEW c \in Conns, IocpClose(c, "DISCONNECT")
  PROVE  StepOK
<1> DEFINE r == conn[c]
<1>0. PICK result \in {"eof", "err"} :
        Completes(c, "DISCONNECT", result) /\ Commit(c, OnSocketIOCPClose(r, "DISCONNECT", result = "err"))
  BY DEF IocpClose
<1>1. PICK error \in BOOLEAN : error = (result = "err")
  OBVIOUS
<1> DEFINE s == OnSocketIOCPClose(r, "DISCONNECT", error)
<1>2. /\ ObjectIs(c, r, packets, disp, told[c], acceptWait, acceptInUse, connectInUse)
      /\ Apart(acceptWait, acceptInUse, connectInUse) /\ packets \in Seq(Packet)
      /\ Sound(r) /\ r.failed = {} /\ r.out = <<>>
      /\ r.io["DISCONNECT"] \in InKernel /\ r.io["DISCONNECT"] # "idle"
      /\ UNCHANGED <<disp, listening, lists>> /\ told' = [told EXCEPT ![c] = told[c]]
      /\ told[c] \in SUBSET Words
  <2>1. "DISCONNECT" \in Ops
    BY DEF Ops
  <2>2. QED
    BY <1>0, <2>1, CompletingFacts
<1>3. c \in acceptInUse /\ Disconnecting(r) /\ Away(c, packets, disp) /\ Untold(told[c])
  BY <1>2, DisconnectingIsUsed
<1>4. c \notin connectInUse /\ c \notin acceptWait /\ Accepted(c)
  BY <1>2, <1>3, PoolAssumption DEF Apart, Accepted
<1>5. /\ InSession(s) /\ Kept(r, s) /\ Closes(s, r.out) /\ Done(s)
  BY <1>2, <1>3, DisconnectFailsServes
<1>6. s \in ConnectRecord
  <2>1. "DISCONNECT" \in Ops
    BY DEF Ops
  <2>2. Sound(OnSocketIOCPClose(r, "DISCONNECT", TRUE)) /\ Sound(OnSocketIOCPClose(r, "DISCONNECT", FALSE))
    BY <1>2, <2>1, OnSocketIOCPCloseSound
  <2>3. QED
    BY <2>2 DEF Sound
<1>7. Commit(c, s)
  BY <1>0, <1>1
<1> HIDE DEF s
<1>8. PICK x \in ClosePackets : s.out = Append(r.out, x)
  BY <1>5 DEF Closes
<1>9. s.failed = {} /\ OfKind(s, Accepted(c)) /\ s.status = "INVALID" /\ s.onConnectTimes = 0
  BY <1>2, <1>3, <1>4, <1>5 DEF Kept, Disconnecting, Unused, OfKind, Done
<1>10. ASSUME NEW e, NEW q,
              e.out = <<>> /\ e.failed = s.failed /\ e.onConnectTimes = s.onConnectTimes,
              InSession(e), OfKind(e, Accepted(c)), Done(e),
              Ordered(q, c), \A types : Has(q, c, types) <=> x \in types
       PROVE  ObjectIs(c, e, q, disp, told[c], acceptWait, acceptInUse, connectInUse)
  <2>1. ~Has(q, c, {"SOCKET_REUSE"}) /\ Has(q, c, ClosePackets) /\ ~Has(q, c, FirstPackets)
        /\ ~Has(q, c, {"DATA"})
    BY <1>10 DEF ClosePackets, FirstPackets
  <2>2. Talks(c, e, q, told[c])
    BY <1>3, <1>10, <2>1 DEF Talks, Untold
  <2>5. ~e.callback
    BY <1>4, <1>9, <1>10 DEF OfKind, InSession, Serving
  <2>3. Used(c, e, q, disp, told[c])
    BY <1>3, <1>10, <2>1, <2>2, <2>5 DEF Used, Away
  <2>4. QED
    BY <1>3, <1>4, <1>9, <1>10, <2>3 DEF ObjectIs
<1>11. ~Has(packets, c, PacketTypes) /\ Ordered(packets, c) /\ x \in PacketTypes
  BY <1>2, <1>3 DEF Away, ObjectIs, PacketTypes, ClosePackets
<1>12. QED
  BY <1>2, <1>5, <1>6, <1>7, <1>8, <1>9, <1>10, <1>11, OnePacketOK

(* An AcceptEx that is never cancelled fails for one reason only. *)
LEMMA AcceptNeverFails ==
  ASSUME IInv, PoolInv, "acceptErr" \notin Allow, NEW c \in Conns
  PROVE  ~IocpClose(c, "ACCEPT")
<1> SUFFICES ASSUME NEW result \in {"eof", "err"}, Completes(c, "ACCEPT", result) PROVE FALSE
  BY DEF IocpClose
<1>1. "ACCEPT" \in Ops
  BY DEF Ops
<1>2. /\ ObjectIs(c, conn[c], packets, disp, told[c], acceptWait, acceptInUse, connectInUse)
      /\ conn[c].io["ACCEPT"] # "idle"
  BY <1>1, CompletingFacts
<1>3. Waiting(conn[c])
  BY <1>2, AcceptingWaits
<1>4. conn[c].io["ACCEPT"] = "posted"
  BY <1>3 DEF Waiting
<1>5. KernelResults(c, "ACCEPT") = {"ok"}
  BY <1>4 DEF KernelResults, ErrIf
<1>6. QED
  BY <1>5 DEF Completes

(* Every completion. *)
LEMMA CompletionOK ==
  ASSUME IInv, PoolInv, Allow \subseteq {"sendPost", "disconnectErr", "acceptPost"}, Completion
  PROVE  StepOK
<1>1. PICK c \in Conns : \/ IocpRecv(c) \/ IocpSend(c) \/ IocpConnect(c) \/ IocpAccept(c)
                         \/ IocpDisconnect(c) \/ \E op \in Ops : IocpClose(c, op)
  BY DEF Completion
<1>2. CASE \E op \in Ops : IocpClose(c, op)
  <2>1. IocpClose(c, "ACCEPT") \/ IocpClose(c, "CONNECT") \/ IocpClose(c, "DISCONNECT")
          \/ IocpClose(c, "SEND") \/ IocpClose(c, "RECV")
    BY <1>2 DEF Ops
  <2>2. "acceptErr" \notin Allow
    OBVIOUS
  <2>3. QED
    BY <2>1, <2>2, AcceptNeverFails, ConnectFailsOK, DisconnectFailsOK, BusyCloseOK
<1>3. "forbidIP" \notin Allow /\ "bind" \notin Allow /\ "firstRecv" \notin Allow
  OBVIOUS
<1>4. QED
  BY <1>1, <1>2, <1>3, IocpRecvOK, IocpSendOK, IocpConnectOK, IocpAcceptOK, IocpDisconnectOK

-----------------------------------------------------------------------------
(* The dispatcher.                                                          *)

(* The packet the dispatcher pops, and what the object it names is found to be. *)
LEMMA PoppedIs ==
  ASSUME IInv, PoolInv, NEW types, NextPacket(types)
  PROVE  LET c == Head(packets).conn  t == Head(packets).type  q == Tail(packets)
         IN  /\ packets # <<>> /\ c \in Conns /\ t \in types /\ t \in PacketTypes /\ disp = Idle /\ disp.conn # c
             /\ ObjectIs(c, conn[c], packets, disp, told[c], acceptWait, acceptInUse, connectInUse)
             /\ Apart(acceptWait, acceptInUse, connectInUse)
             /\ Sound(conn[c]) /\ conn[c].failed = {} /\ conn[c].out = <<>>
             /\ told[c] \in SUBSET Words
             /\ Ordered(q, c) /\ ~Has(q, c, FirstPackets)
             /\ \A s : Has(q, c, s) => Has(packets, c, s)
             /\ \A s : t \notin s => (Has(q, c, s) <=> Has(packets, c, s))
             /\ t \in LastPackets => ~Has(q, c, PacketTypes)
             /\ Has(packets, c, {t}) /\ Has(packets, c, PacketTypes)
             /\ t # "ACCEPT" => ~Has(packets, c, {"ACCEPT"})
             /\ t # "CONNECT" => ~Has(packets, c, {"CONNECT"})
<1> DEFINE c == Head(packets).conn
           t == Head(packets).type
           q == Tail(packets)
<1>1. packets # <<>> /\ packets \in Seq(Packet) /\ disp = Idle /\ t \in types /\ Running
  BY DEF NextPacket, IInv
<1>2. /\ c \in Conns /\ t \in PacketTypes
      /\ \A x : Ordered(packets, x) => Ordered(q, x)
      /\ \A x, s : Has(q, x, s) => Has(packets, x, s)
      /\ \A x, s : x # c \/ t \notin s => (Has(q, x, s) <=> Has(packets, x, s))
      /\ Has(packets, c, {t})
      /\ Ordered(packets, c) => ~Has(q, c, FirstPackets)
      /\ Ordered(packets, c) /\ t \in LastPackets => ~Has(q, c, PacketTypes)
  BY <1>1, QueuePops
<1> HIDE DEF c, t, q
<1>3. /\ ObjectIs(c, conn[c], packets, disp, told[c], acceptWait, acceptInUse, connectInUse)
      /\ Apart(acceptWait, acceptInUse, connectInUse) /\ told[c] \in SUBSET Words
      /\ Sound(conn[c]) /\ conn[c].failed = {}
  BY <1>1, <1>2 DEF PoolInv, Objects, ListsOK, IInv, Running
<1>4. conn[c].out = <<>> /\ Ordered(packets, c)
  BY <1>3 DEF ObjectIs
<1>5. disp.conn # c
  BY <1>1, <1>2, PoolAssumption DEF Idle
<1>6. ~Has(q, c, FirstPackets) /\ Ordered(q, c)
  BY <1>2, <1>4
<1>7. Has(packets, c, PacketTypes)
  BY <1>2 DEF Has
<1>8. /\ \A s : Has(q, c, s) => Has(packets, c, s)
      /\ \A s : t \notin s => (Has(q, c, s) <=> Has(packets, c, s))
  BY <1>2, Zenon
<1>9. ~Has(q, c, {"ACCEPT"}) /\ ~Has(q, c, {"CONNECT"})
  BY <1>6 DEF Has, FirstPackets
<1>10. t # "ACCEPT" => ~Has(packets, c, {"ACCEPT"})
  <2>1. t # "ACCEPT" => ~(t \in {"ACCEPT"})
    OBVIOUS
  <2>2. QED
    BY <1>8, <1>9, <2>1, Zenon
<1>11. t # "CONNECT" => ~Has(packets, c, {"CONNECT"})
  <2>1. t # "CONNECT" => ~(t \in {"CONNECT"})
    OBVIOUS
  <2>2. QED
    BY <1>8, <1>9, <2>1, Zenon
<1>12. t \in LastPackets => ~Has(q, c, PacketTypes)
  BY <1>2, <1>4
<1>13. QED
  BY <1>1, <1>2, <1>3, <1>4, <1>5, <1>6, <1>7, <1>8, <1>10, <1>11, <1>12, Zenon DEF c, t, q

(* Which of the stages an object with a packet at the head of the queue is in. *)
LEMMA HeadStage ==
  ASSUME NEW c, NEW r, NEW p, NEW d, NEW t, NEW w, NEW u, NEW k,
         ObjectIs(c, r, p, d, t, w, u, k), d = Idle, c \in Conns, Has(p, c, PacketTypes)
  PROVE  \/ /\ c \in w /\ Talks(c, r, p, t) /\ Untold(t) /\ Has(p, c, {"ACCEPT"})
         \/ /\ c \in u /\ Talks(c, r, p, t) /\ ~Has(p, c, FirstPackets)
            /\ ~Done(r) \/ r.callback \/ Has(p, c, {"DATA"}) => Holds(t)
         \/ /\ c \in u /\ Clean(r) /\ Untold(t)
            /\ Has(p, c, {"SOCKET_REUSE"}) /\ ~Has(p, c, PacketTypes \ {"SOCKET_REUSE"})
         \/ /\ c \in k /\ Talks(c, r, p, t) /\ Holds(t) /\ ~Has(p, c, {"ACCEPT"})
            /\ Has(p, c, {"CONNECT"}) => r.onConnectTimes = 0
            /\ r.onConnectTimes = 0 => ~Has(p, c, {"DATA"})
  BY DEF ObjectIs, IsFree, Waits, Used, ConnectUsed, AtClose, Away, Idle

(* The dispatcher delivers data. *)
LEMMA DispatchDataOK ==
  ASSUME IInv, PoolInv, DispatchData
  PROVE  StepOK
<1> DEFINE c == Head(packets).conn
           r == conn[c]
           q == Tail(packets)
           s == OnMsg(r)
           e == [s EXCEPT !.out = <<>>]
           h == told[c] \cup (IF HearsData(r) THEN {"OnMsg"} ELSE {})
<1>1. /\ NextPacket({"DATA"}) /\ CommitPopped(c, s) /\ told' = [told EXCEPT ![c] = h]
      /\ UNCHANGED <<disp, listening, lists, net>>
  BY DEF DispatchData
<1>2. Head(packets).type = "DATA"
  BY <1>1 DEF NextPacket
<1>3. /\ packets # <<>> /\ c \in Conns /\ disp = Idle /\ disp.conn # c
      /\ ObjectIs(c, r, packets, disp, told[c], acceptWait, acceptInUse, connectInUse)
      /\ Apart(acceptWait, acceptInUse, connectInUse)
      /\ Sound(r) /\ r.failed = {} /\ r.out = <<>>
      /\ told[c] \in SUBSET Words
      /\ Ordered(q, c) /\ ~Has(q, c, FirstPackets)
      /\ \A x : Has(q, c, x) => Has(packets, c, x)
      /\ \A x : "DATA" \notin x => (Has(q, c, x) <=> Has(packets, c, x))
      /\ Has(packets, c, {"DATA"}) /\ Has(packets, c, PacketTypes)
      /\ ~Has(packets, c, {"ACCEPT"}) /\ ~Has(packets, c, {"CONNECT"})
  BY <1>1, <1>2, PoppedIs
<1> HIDE DEF c, q
<1>4. \/ /\ c \in acceptInUse /\ Talks(c, r, packets, told[c])
         /\ Holds(told[c])
      \/ /\ c \in connectInUse /\ Talks(c, r, packets, told[c]) /\ Holds(told[c])
         /\ r.onConnectTimes # 0
  <2>1. ~(c \in acceptInUse /\ ~Has(packets, c, PacketTypes \ {"SOCKET_REUSE"}))
    BY <1>3 DEF Has, PacketTypes
  <2>2. QED
    BY <1>3, <2>1, HeadStage
<1>5. InSession(r) /\ OfKind(r, Accepted(c)) /\ (Opened(told[c]) => r.onConnectTimes = 1) /\ Holds(told[c])
  BY <1>4 DEF Talks
<1>6. /\ InSession(s) /\ Kept(r, s) /\ s.status = r.status /\ s.io = r.io /\ s.iocpref = r.iocpref
      /\ s.out = <<>>
  BY <1>3, <1>5, OnMsgServes
<1>7. s \in ConnectRecord
  BY <1>3, OnMsgSound DEF Sound
<1> HIDE DEF s
<1>8. OfKind(s, Accepted(c)) /\ (Done(s) <=> Done(r)) /\ s.failed = {} /\ s.onConnectTimes = r.onConnectTimes
  BY <1>3, <1>5, <1>6 DEF OfKind, Done, Kept
<1>9. /\ e.out = <<>> /\ e.failed = {} /\ e.onConnectTimes = r.onConnectTimes /\ e.status = r.status
      /\ InSession(e) /\ OfKind(e, Accepted(c)) /\ (Done(e) <=> Done(r))
  BY <1>6, <1>7, <1>8, OutIsTaken
<1>10. conn' = [conn EXCEPT ![c] = e] /\ packets' = q
  <2>1. packets' = q \o PacketsOf(c, <<>>)
    BY <1>1, <1>6 DEF CommitPopped, PacketsOf, c, q
  <2>2. PacketsOf(c, <<>>) = <<>>
    BY DEF PacketsOf
  <2>3. q \in Seq(Packet)
    BY <1>3 DEF q, IInv
  <2>4. conn' = [conn EXCEPT ![c] = e]
    BY <1>1 DEF CommitPopped, c
  <2>5. q \o <<>> = q
    BY <2>3
  <2>6. QED
    BY <2>1, <2>2, <2>4, <2>5, Zenon
<1> HIDE DEF e
<1>11. /\ h \in SUBSET Words /\ Holds(h) /\ Moves(told[c], h)
       /\ h = told[c] \/ HearsData(r)
  <2>1. CASE HearsData(r)
    <3>1. h = told[c] \cup {"OnMsg"}
      BY <2>1
    <3>2. QED
      BY <1>3, <1>5, <2>1, <3>1 DEF Words, Holds, Moves
  <2>2. CASE ~HearsData(r)
    <3>1. h = told[c]
      BY <2>2
    <3>2. QED
      BY <1>3, <1>5, <3>1, SameViewSelf
  <2>3. QED
    BY <2>1, <2>2
<1> HIDE DEF h
<1>12. Opened(h) => e.onConnectTimes = 1
  <2>1. CASE h = told[c]
    BY <1>5, <1>9, <2>1
  <2>2. CASE HearsData(r)
    <3>1. r.callback /\ r.setCallbackTimes = 1 /\ r.onConnectTimes <= 1 /\ r.onConnectTimes \in Nat
      BY <1>3, <1>5, <2>2 DEF HearsData, InSession, Serving, Sound, ConnectRecord
    <3>2. Accepted(c) => r.onConnectTimes = 1
      BY <1>5, <3>1 DEF OfKind
    <3>3. c \in acceptInUse => Accepted(c)
      BY <1>3 DEF Apart, Accepted
    <3>4. QED
      BY <1>4, <1>9, <3>1, <3>2, <3>3
  <2>3. QED
    BY <1>11, <2>1, <2>2
<1>13. /\ Has(q, c, {"SOCKET_REUSE"}) <=> Has(packets, c, {"SOCKET_REUSE"})
       /\ Has(q, c, ClosePackets) <=> Has(packets, c, ClosePackets)
       /\ ~Has(q, c, {"ACCEPT"}) /\ ~Has(q, c, {"CONNECT"})
  BY <1>3 DEF ClosePackets
<1>14. Talks(c, e, q, h)
  BY <1>4, <1>9, <1>11, <1>12, <1>13 DEF Talks
<1>15. ObjectIs(c, e, q, disp, h, acceptWait, acceptInUse, connectInUse)
  <2>1. CASE c \in acceptInUse
    <3>1. Used(c, e, q, disp, h)
      BY <1>3, <1>11, <1>14 DEF Used
    <3>2. c \notin acceptWait /\ c \notin connectInUse
      BY <1>3, <2>1, PoolAssumption DEF Apart
    <3>3. QED
      BY <1>3, <1>9, <2>1, <3>1, <3>2 DEF ObjectIs
  <2>2. CASE c \in connectInUse
    <3>1. c \notin acceptWait /\ c \notin acceptInUse
      BY <1>3, <2>2, PoolAssumption DEF Apart
    <3>2. ConnectUsed(c, e, q, disp, h)
      BY <1>3, <1>4, <1>9, <1>11, <1>13, <1>14, <3>1 DEF ConnectUsed
    <3>3. QED
      BY <1>3, <1>9, <2>2, <3>1, <3>2 DEF ObjectIs
  <2>3. QED
    BY <1>4, <2>1, <2>2
<1>16. QED
  BY <1>1, <1>3, <1>9, <1>10, <1>11, <1>15, PopOK DEF c, q, PoolInv, DispOK

(* The dispatcher offers an accepted connection. *)
LEMMA DispatchAcceptOK ==
  ASSUME IInv, PoolInv, DispatchAccept
  PROVE  StepOK
<1> DEFINE c == Head(packets).conn
           r == conn[c]
           q == Tail(packets)
           h == told[c] \cup {"OnAccept"}
<1>1. /\ NextPacket({"ACCEPT"}) /\ told' = [told EXCEPT ![c] = h]
      /\ disp' = [at |-> "OnIOCPAccept", conn |-> c] /\ packets' = q
      /\ UNCHANGED <<conn, listening, lists, net>>
  BY DEF DispatchAccept
<1>2. Head(packets).type = "ACCEPT"
  BY <1>1 DEF NextPacket
<1>3. /\ packets # <<>> /\ c \in Conns /\ disp = Idle /\ disp.conn # c
      /\ ObjectIs(c, r, packets, disp, told[c], acceptWait, acceptInUse, connectInUse)
      /\ Apart(acceptWait, acceptInUse, connectInUse)
      /\ Sound(r) /\ r.failed = {} /\ r.out = <<>>
      /\ told[c] \in SUBSET Words
      /\ Ordered(q, c) /\ ~Has(q, c, FirstPackets)
      /\ \A x : "ACCEPT" \notin x => (Has(q, c, x) <=> Has(packets, c, x))
      /\ Has(packets, c, {"ACCEPT"}) /\ Has(packets, c, PacketTypes)
  BY <1>1, <1>2, PoppedIs
<1> HIDE DEF c, q
<1>4. c \in acceptWait /\ Talks(c, r, packets, told[c]) /\ Untold(told[c])
  <2>1. Has(packets, c, FirstPackets) /\ Has(packets, c, PacketTypes \ {"SOCKET_REUSE"})
    BY <1>3 DEF Has, FirstPackets, PacketTypes
  <2>2. QED
    BY <1>3, <2>1, HeadStage
<1>5. h \in SUBSET Words /\ Holds(h) /\ ~Opened(h) /\ Moves(told[c], h)
  BY <1>3, <1>4 DEF Words, Untold, Holds, Opened, Moves
<1> HIDE DEF h
<1>6. Talks(c, r, q, h)
  <2>1. /\ Has(q, c, {"SOCKET_REUSE"}) <=> Has(packets, c, {"SOCKET_REUSE"})
        /\ Has(q, c, ClosePackets) <=> Has(packets, c, ClosePackets)
    BY <1>3 DEF ClosePackets
  <2>2. QED
    BY <1>4, <1>5, <2>1 DEF Talks
<1>7. Waits(c, r, q, disp', h)
  BY <1>1, <1>3, <1>5, <1>6 DEF Waits
<1>8. c \notin acceptInUse /\ c \notin connectInUse
  BY <1>3, <1>4, PoolAssumption DEF Apart
<1>9. ObjectIs(c, r, q, disp', h, acceptWait, acceptInUse, connectInUse)
  BY <1>3, <1>4, <1>7, <1>8 DEF ObjectIs
<1>10. conn' = [conn EXCEPT ![c] = r] /\ DispOK' /\ disp'.conn = c
  BY <1>1, <1>3 DEF IInv, DispOK
<1>11. QED
  BY <1>1, <1>3, <1>5, <1>9, <1>10, PopOK DEF c, q

(* The dispatcher reports the end of a session. *)
LEMMA DispatchCloseOK ==
  ASSUME IInv, PoolInv, DispatchClose
  PROVE  StepOK
<1> DEFINE c == Head(packets).conn
           r == conn[c]
           q == Tail(packets)
           h == (told[c] \cap CloseWords) \cup {PoolClose(told[c])}
                  \cup (IF HearsClose(r) THEN {OwnClose(told[c])} ELSE {})
<1>1. /\ NextPacket(ClosePackets) /\ told' = [told EXCEPT ![c] = h]
      /\ disp' = [at |-> "IOCPClose", conn |-> c] /\ packets' = q
      /\ UNCHANGED <<conn, listening, lists, net>>
  BY DEF DispatchClose
<1>2. Head(packets).type \in ClosePackets
  BY <1>1 DEF NextPacket
<1>3. /\ packets # <<>> /\ c \in Conns /\ disp = Idle /\ disp.conn # c
      /\ ObjectIs(c, r, packets, disp, told[c], acceptWait, acceptInUse, connectInUse)
      /\ Apart(acceptWait, acceptInUse, connectInUse)
      /\ Sound(r) /\ r.failed = {} /\ r.out = <<>>
      /\ told[c] \in SUBSET Words
      /\ Ordered(q, c) /\ ~Has(q, c, PacketTypes)
      /\ Has(packets, c, {Head(packets).type}) /\ Has(packets, c, PacketTypes)
      /\ ~Has(packets, c, {"ACCEPT"})
  BY <1>1, <1>2, PoppedIs DEF LastPackets, ClosePackets
<1>4. Has(packets, c, ClosePackets) /\ Has(packets, c, PacketTypes \ {"SOCKET_REUSE"})
  BY <1>2, <1>3 DEF Has, ClosePackets, PacketTypes
<1> HIDE DEF c, q
<1>5. (c \in acceptInUse \/ c \in connectInUse) /\ Talks(c, r, packets, told[c])
  BY <1>3, <1>4, HeadStage
<1>6. InSession(r) /\ Done(r) /\ (Opened(told[c]) => Holds(told[c]))
  BY <1>4, <1>5 DEF Talks
<1>7. h \in SUBSET Words /\ Untold(h)
  <2>1. PoolClose(told[c]) \in CloseWords /\ OwnClose(told[c]) \in CloseWords
    BY DEF PoolClose, OwnClose, CloseWords
  <2>2. h \subseteq CloseWords
    BY <2>1
  <2> HIDE DEF h
  <2>3. QED
    BY <2>2 DEF Words, CloseWords, Untold, Holds, Opened
<1> HIDE DEF h
<1>8. Moves(told[c], h)
  BY <1>6, <1>7 DEF Moves, Untold, Opened, SameView
<1>9. AtClose(c, r, q, disp', h)
  BY <1>1, <1>3, <1>6, <1>7 DEF AtClose
<1>10. c \notin acceptWait
  BY <1>3, <1>5, PoolAssumption DEF Apart
<1>11. ObjectIs(c, r, q, disp', h, acceptWait, acceptInUse, connectInUse)
  BY <1>3, <1>5, <1>9, <1>10 DEF ObjectIs, Used, ConnectUsed
<1>12. conn' = [conn EXCEPT ![c] = r] /\ DispOK' /\ disp'.conn = c
  BY <1>1, <1>3 DEF IInv, DispOK
<1>13. QED
  BY <1>1, <1>3, <1>7, <1>8, <1>11, <1>12, PopOK DEF c, q

(* The dispatcher reports that an outgoing connection is up. *)
LEMMA DispatchConnectOK ==
  ASSUME IInv, PoolInv, "firstRecv" \notin Allow, DispatchConnect
  PROVE  StepOK
<1> DEFINE c == Head(packets).conn
           r == conn[c]
           q == Tail(packets)
           h == told[c] \cup (IF r.status = "CONNECTING" THEN {"OnConnect"} ELSE {})
           s == OnConnect(r, TRUE)
           e == [s EXCEPT !.out = <<>>]
<1>1. /\ NextPacket({"CONNECT"}) /\ CommitPopped(c, s) /\ told' = [told EXCEPT ![c] = h]
      /\ UNCHANGED <<disp, listening, lists, net>>
  BY DEF DispatchConnect, Unless
<1>2. Head(packets).type = "CONNECT"
  BY <1>1 DEF NextPacket
<1>3. /\ packets # <<>> /\ c \in Conns /\ disp = Idle /\ disp.conn # c
      /\ ObjectIs(c, r, packets, disp, told[c], acceptWait, acceptInUse, connectInUse)
      /\ Apart(acceptWait, acceptInUse, connectInUse)
      /\ Sound(r) /\ r.failed = {} /\ r.out = <<>>
      /\ told[c] \in SUBSET Words
      /\ Ordered(q, c) /\ ~Has(q, c, FirstPackets)
      /\ \A x : "CONNECT" \notin x => (Has(q, c, x) <=> Has(packets, c, x))
      /\ Has(packets, c, {"CONNECT"}) /\ Has(packets, c, PacketTypes)
      /\ ~Has(packets, c, {"ACCEPT"})
  BY <1>1, <1>2, PoppedIs
<1> HIDE DEF c, q
<1>4. c \in connectInUse /\ Talks(c, r, packets, told[c]) /\ Holds(told[c]) /\ r.onConnectTimes = 0
  <2>1. Has(packets, c, FirstPackets) /\ Has(packets, c, PacketTypes \ {"SOCKET_REUSE"})
    BY <1>3 DEF Has, FirstPackets, PacketTypes
  <2>2. QED
    BY <1>3, <2>1, HeadStage
<1>5. c \notin acceptWait /\ c \notin acceptInUse /\ ~Accepted(c)
  BY <1>3, <1>4, PoolAssumption DEF Apart, Accepted
<1>6. InSession(r) /\ OfKind(r, FALSE) /\ ~Opened(told[c])
  BY <1>4, <1>5 DEF Talks, OfKind
<1>7. /\ InSession(s) /\ s.failed = {} /\ s.onConnectTimes = 1
      /\ s.callback = r.callback /\ s.setCallbackTimes = r.setCallbackTimes
      /\ s.status = IF r.status = "CONNECTING" THEN "COMMON" ELSE r.status
      /\ Done(s) <=> Done(r)
      /\ s.out = <<>>
  BY <1>3, <1>4, <1>6, OnConnectServes
<1>8. s \in ConnectRecord
  BY <1>3, OnConnectSound DEF Sound
<1> HIDE DEF s
<1>9. OfKind(s, Accepted(c))
  BY <1>5, <1>6, <1>7 DEF OfKind
<1>10. /\ e.out = <<>> /\ e.failed = {} /\ e.onConnectTimes = 1 /\ e.status = s.status
       /\ InSession(e) /\ OfKind(e, Accepted(c)) /\ (Done(e) <=> Done(r))
  BY <1>7, <1>8, <1>9, OutIsTaken
<1>11. conn' = [conn EXCEPT ![c] = e] /\ packets' = q
  <2>1. packets' = q \o PacketsOf(c, <<>>)
    BY <1>1, <1>7 DEF CommitPopped, PacketsOf, c, q
  <2>2. PacketsOf(c, <<>>) = <<>>
    BY DEF PacketsOf
  <2>3. q \in Seq(Packet)
    BY <1>3 DEF q, IInv
  <2>4. conn' = [conn EXCEPT ![c] = e]
    BY <1>1 DEF CommitPopped, c
  <2>5. q \o <<>> = q
    BY <2>3
  <2>6. QED
    BY <2>1, <2>2, <2>4, <2>5, Zenon
<1> HIDE DEF e
<1>12. h \in SUBSET Words /\ Holds(h) /\ Moves(told[c], h)
  <2>1. h = told[c] \/ h = told[c] \cup {"OnConnect"}
    OBVIOUS
  <2> HIDE DEF h
  <2>2. CASE h = told[c]
    BY <1>3, <1>4, <2>2, SameViewSelf
  <2>3. CASE h = told[c] \cup {"OnConnect"}
    BY <1>3, <1>4, <1>6, <2>3 DEF Words, Holds, Moves
  <2>4. QED
    BY <2>1, <2>2, <2>3
<1> HIDE DEF h
<1>13. /\ Has(q, c, {"SOCKET_REUSE"}) <=> Has(packets, c, {"SOCKET_REUSE"})
       /\ Has(q, c, ClosePackets) <=> Has(packets, c, ClosePackets)
       /\ ~Has(q, c, {"ACCEPT"}) /\ ~Has(q, c, {"CONNECT"})
  <2>1. ~Has(q, c, {"ACCEPT"}) /\ ~Has(q, c, {"CONNECT"})
    BY <1>3 DEF Has, FirstPackets
  <2>2. QED
    BY <1>3, <2>1 DEF ClosePackets
<1>14. Talks(c, e, q, h)
  BY <1>4, <1>10, <1>12, <1>13 DEF Talks
<1>15. ConnectUsed(c, e, q, disp, h)
  BY <1>3, <1>10, <1>12, <1>13, <1>14 DEF ConnectUsed
<1>16. ObjectIs(c, e, q, disp, h, acceptWait, acceptInUse, connectInUse)
  BY <1>3, <1>4, <1>5, <1>10, <1>15 DEF ObjectIs
<1>17. r.status = "INVALID" => e.status = "INVALID"
  BY <1>7, <1>10
<1>18. QED
  BY <1>1, <1>3, <1>11, <1>12, <1>16, <1>17, PopOK DEF c, q, PoolInv, DispOK

(* LoopDoes, as the invariant needs it. *)
LoopKeeps(cf, p, d, w, k) ==
  /\ acceptQueue' \in Seq(Clients) /\ IsInjective(acceptQueue')
  /\ Apart(acceptWait', acceptInUse', k)
  /\ ToSet(acceptQueue') \cap (acceptWait' \cup acceptInUse') = {}
  /\ told' \in [Conns -> SUBSET Words]
  /\ Objects(conn', p, d, told', acceptWait', acceptInUse', k)
  /\ \A x \in acceptWait' \ w : ~Has(p, x, PacketTypes)
  /\ \A x \in Conns : SameView(told[x], told'[x])
  /\ \A x \in Conns : conn'[x].status = cf[x].status \/ conn'[x].status = "INVALID"

(* The loop over the free queue, seen from the objects. *)
LEMMA ArmedObjects ==
  ASSUME NEW cf, \A x \in Conns : Sound(cf[x]), NEW p, NEW d,
         NEW q \in Seq(Clients), IsInjective(q),
         NEW w \in SUBSET Clients, NEW u \in SUBSET Clients, NEW k \in SUBSET Outs, w \cap u = {},
         ToSet(q) \cap (w \cup u) = {}, NEW listens \in BOOLEAN,
         told \in [Conns -> SUBSET Words],
         Objects(cf, p, d, told, w, u, k), Armed(cf, q, w, u, listens)
  PROVE  LoopKeeps(cf, p, d, w, k)
<1>1. \A x \in ToSet(q) : /\ x \in Conns /\ x \notin w \cup u \cup k
                          /\ IsFree(x, cf[x], p, d, told[x]) /\ Ordered(p, x) /\ Fresh(cf[x])
  <2>1. SUFFICES ASSUME NEW x \in ToSet(q)
                 PROVE  /\ x \in Conns /\ x \notin w \cup u \cup k
                        /\ IsFree(x, cf[x], p, d, told[x]) /\ Ordered(p, x) /\ Fresh(cf[x])
    OBVIOUS
  <2>2. x \in Clients
    BY DEF ToSet
  <2>3. x \in Conns /\ x \notin w \cup u \cup k
    BY <2>2, PoolAssumption DEF Conns
  <2>4. ObjectIs(x, cf[x], p, d, told[x], w, u, k)
    BY <2>3 DEF Objects
  <2>5. IsFree(x, cf[x], p, d, told[x]) /\ Ordered(p, x) /\ cf[x].failed = {} /\ cf[x].out = <<>>
    BY <2>3, <2>4 DEF ObjectIs
  <2>6. QED
    BY <2>3, <2>5 DEF IsFree, Fresh
<1>2. /\ acceptQueue' \in Seq(Clients) /\ IsInjective(acceptQueue')
      /\ w \subseteq acceptWait' /\ acceptWait' \subseteq w \cup ToSet(q) /\ acceptInUse' = u
      /\ ToSet(acceptQueue') \cap (acceptWait' \cup u) = {}
      /\ conn' = [x \in Conns |-> conn'[x]] /\ told' = [x \in Conns |-> told'[x]]
      /\ \A x \in acceptWait' \ w :
           Waiting(conn'[x]) /\ conn'[x].failed = {} /\ conn'[x].out = <<>> /\ told'[x] = {}
      /\ \A x \in Conns \ (acceptWait' \ w) :
           \/ conn'[x] = cf[x] /\ told'[x] = told[x]
           \/ x \in ToSet(q) /\ Clean(conn'[x]) /\ conn'[x].failed = {} /\ conn'[x].out = <<>>
                /\ told'[x] = {}
  <2>1. \A x \in ToSet(q) : Fresh(cf[x])
    BY <1>1
  <2>2. LoopDoes(cf, q, w, u)
    BY <2>1, ArmedEffect
  <2>3. QED
    BY <2>2 DEF LoopDoes
<1>3. Apart(acceptWait', acceptInUse', k)
  <2>1. ToSet(q) \subseteq Clients
    BY DEF ToSet
  <2>2. QED
    BY <1>2, <2>1 DEF Apart
<1>4. Untold({})
  BY DEF Untold, Holds, Opened
<1>5. \A t : Untold(t) => SameView(t, {})
  BY DEF Untold, Holds, Opened, SameView
<1>6. ASSUME NEW x \in Conns
      PROVE  /\ ObjectIs(x, conn'[x], p, d, told'[x], acceptWait', acceptInUse', k)
             /\ SameView(told[x], told'[x])
             /\ conn'[x].status = cf[x].status \/ conn'[x].status = "INVALID"
             /\ told'[x] \in SUBSET Words
             /\ x \in acceptWait' \ w => ~Has(p, x, PacketTypes)
  <2>1. CASE x \in acceptWait' \ w
    <3>1. /\ x \in ToSet(q) /\ x \notin u /\ x \notin k /\ Away(x, p, d) /\ Untold(told[x]) /\ Ordered(p, x)
      BY <1>1, <1>2, <2>1 DEF IsFree
    <3>2. Waiting(conn'[x]) /\ conn'[x].failed = {} /\ conn'[x].out = <<>> /\ told'[x] = {}
      BY <1>2, <2>1
    <3>3. ObjectIs(x, conn'[x], p, d, told'[x], acceptWait', acceptInUse', k)
      BY <1>2, <1>4, <2>1, <3>1, <3>2 DEF ObjectIs, Waits
    <3>4. QED
      BY <1>5, <3>1, <3>2, <3>3 DEF Away, Waiting, Unused
  <2>2. CASE conn'[x] = cf[x] /\ told'[x] = told[x] /\ x \notin acceptWait' \ w
    <3>1. ObjectIs(x, cf[x], p, d, told[x], w, u, k)
      BY DEF Objects
    <3>2. ObjectIs(x, cf[x], p, d, told[x], acceptWait', acceptInUse', k)
      BY <1>2, <2>2, <3>1, Unconcerned DEF ObjectIs
    <3>3. QED
      BY <2>2, <3>2, SameViewSelf
  <2>3. CASE /\ x \in ToSet(q) /\ Clean(conn'[x]) /\ conn'[x].failed = {} /\ conn'[x].out = <<>>
             /\ told'[x] = {} /\ x \notin acceptWait' \ w
    <3>1. /\ x \notin acceptWait' /\ x \notin acceptInUse' /\ x \notin k
          /\ Away(x, p, d) /\ Untold(told[x]) /\ Ordered(p, x)
      BY <1>1, <1>2, <2>3 DEF IsFree
    <3>2. ObjectIs(x, conn'[x], p, d, told'[x], acceptWait', acceptInUse', k)
      BY <1>4, <2>3, <3>1 DEF ObjectIs, IsFree
    <3>3. QED
      BY <1>5, <2>3, <3>1, <3>2 DEF Clean, Unused
  <2>4. QED
    BY <1>2, <2>1, <2>2, <2>3
<1>7. told' \in [Conns -> SUBSET Words]
  BY <1>2, <1>6
<1>8. \A x \in acceptWait' \ w : ~Has(p, x, PacketTypes)
  BY <1>3, <1>6 DEF Apart, Conns
<1>9. QED
  BY <1>2, <1>3, <1>6, <1>7, <1>8 DEF Objects, LoopKeeps

(* A list without repetitions is as long as the set of its elements. *)
LEMMA ListLength ==
  ASSUME NEW S, NEW q \in Seq(S), IsInjective(q)
  PROVE  IsFiniteSet(ToSet(q)) /\ Cardinality(ToSet(q)) = Len(q)
<1> DEFINE T == {q[i] : i \in 1..Len(q)}
<1>1. Len(q) \in 0..Len(q)
  OBVIOUS
<1>2. IsFiniteSet(T) /\ Cardinality(T) = Len(q)
  BY <1>1, FirstElements
<1>3. T = ToSet(q)
  BY DEF ToSet
<1>4. QED
  BY <1>2, <1>3, Zenon

(* Lists and sets that share no object have room for all of them together. *)
LEMMA ClientsAlwaysFit ==
  ASSUME NEW q \in Seq(Clients), IsInjective(q), NEW w \in SUBSET Clients, NEW u \in SUBSET Clients,
         w \cap u = {}, ToSet(q) \cap (w \cup u) = {}
  PROVE  ClientsFit(q, w, u)
<1> DEFINE T == ToSet(q)
<1>1. IsFiniteSet(T) /\ Cardinality(T) = Len(q) /\ T \subseteq Clients
  <2>1. IsFiniteSet(T) /\ Cardinality(T) = Len(q)
    BY ListLength
  <2>2. T \subseteq Clients
    BY DEF ToSet
  <2>3. QED
    BY <2>1, <2>2
<1> HIDE DEF T
<1>2. IsFiniteSet(w) /\ IsFiniteSet(u) /\ IsFiniteSet(Clients)
  BY PoolAssumption, FS_Subset
<1>3. IsFiniteSet(w \cup u) /\ Cardinality(w \cup u) = Cardinality(w) + Cardinality(u)
  <2>1. Cardinality(w \cap u) = 0 /\ Cardinality(w) \in Nat /\ Cardinality(u) \in Nat
    BY <1>2, FS_EmptySet, FS_CardinalityType
  <2>2. IsFiniteSet(w \cup u) /\ Cardinality(w \cup u) = Cardinality(w) + Cardinality(u) - Cardinality(w \cap u)
    BY <1>2, FS_Union
  <2>3. QED
    BY <2>1, <2>2
<1>4. Cardinality(T \cup (w \cup u)) = Len(q) + (Cardinality(w) + Cardinality(u))
  <2>1. T \cap (w \cup u) = {}
    BY DEF T
  <2>2. Cardinality(T \cap (w \cup u)) = 0 /\ Cardinality(T) \in Nat /\ Cardinality(w \cup u) \in Nat
    BY <1>1, <1>3, <2>1, FS_EmptySet, FS_CardinalityType
  <2>3. Cardinality(T \cup (w \cup u))
          = Cardinality(T) + Cardinality(w \cup u) - Cardinality(T \cap (w \cup u))
    BY <1>1, <1>3, FS_Union
  <2>4. QED
    BY <1>1, <1>3, <2>2, <2>3
<1>5. Cardinality(T \cup (w \cup u)) <= Cardinality(Clients)
  BY <1>1, <1>2, FS_Subset
<1>6. Cardinality(w) \in Nat /\ Cardinality(u) \in Nat /\ Len(q) \in Nat
  BY <1>2, FS_CardinalityType
<1>7. QED
  BY <1>4, <1>5, <1>6 DEF ClientsFit

(* The same of the outgoing objects. *)
LEMMA OutsAlwaysFit ==
  ASSUME NEW q \in Seq(Outs), IsInjective(q), NEW k \in SUBSET Outs, ToSet(q) \cap k = {}
  PROVE  OutsFit(q, k)
<1> DEFINE T == ToSet(q)
<1>1. IsFiniteSet(T) /\ Cardinality(T) = Len(q) /\ T \subseteq Outs /\ T \cap k = {}
  BY ListLength DEF ToSet
<1> HIDE DEF T
<1>2. IsFiniteSet(k) /\ IsFiniteSet(Outs)
  BY PoolAssumption, FS_Subset
<1>3. Cardinality(T \cap k) = 0 /\ Cardinality(T) \in Nat /\ Cardinality(k) \in Nat
  BY <1>1, <1>2, FS_EmptySet, FS_CardinalityType
<1>4. Cardinality(T \cup k) = Cardinality(T) + Cardinality(k) - Cardinality(T \cap k)
  BY <1>1, <1>2, FS_Union
<1>5. Cardinality(T \cup k) <= Cardinality(Outs)
  BY <1>1, <1>2, FS_Subset
<1>6. QED
  BY <1>1, <1>3, <1>4, <1>5 DEF OutsFit

(* An object the pool takes back. *)
LEMMA OnIOCPDisConnectOK ==
  ASSUME IInv, PoolInv, NEW cf \in [Conns -> ConnectRecord], \A x \in Conns : Sound(cf[x]),
         NEW c \in acceptInUse \cup connectInUse, Fresh(cf[c]), Untold(told[c]),
         Away(c, packets', disp'), Ordered(packets', c),
         \A x \in Conns \ {c} :
           /\ cf[x] = conn[x]
           /\ ObjectIs(x, cf[x], packets', disp', told[x], acceptWait, acceptInUse, connectInUse),
         OnIOCPDisConnect(cf, c), UNCHANGED listening, DispOK'
  PROVE  StepOK
<1>1. /\ ListsOK(acceptQueue, acceptWait, acceptInUse, connects, connectInUse, listening)
      /\ told \in [Conns -> SUBSET Words]
  BY DEF PoolInv
<1>2. /\ acceptQueue \in Seq(Clients) /\ IsInjective(acceptQueue)
      /\ acceptWait \in SUBSET Clients /\ acceptInUse \in SUBSET Clients /\ connectInUse \in SUBSET Outs
      /\ acceptWait \cap acceptInUse = {}
      /\ ToSet(acceptQueue) \cap (acceptWait \cup acceptInUse) = {}
      /\ connects \in Seq(Outs) /\ IsInjective(connects) /\ ToSet(connects) \cap connectInUse = {}
      /\ listening \in BOOLEAN
      /\ ~listening => acceptQueue = <<>> /\ acceptWait = {} /\ acceptInUse = {}
  BY <1>1 DEF ListsOK, Apart
<1>3. c \in Conns
  BY <1>2 DEF Conns
<1> DEFINE r == cf[c]
<1>4. Sound(r) /\ r.failed = {} /\ r.out = <<>> /\ Clean(r) /\ r.iocpref = 0
  BY CleanIsQuiet DEF Fresh
<1>5. Check(r, r.iocpref = 0, "nIORef==0") = r
  BY <1>4 DEF Check
<1>6. [cf EXCEPT ![c] = r] = cf
  OBVIOUS
<1>7. \A k \in {acceptInUse, acceptInUse \ {c}}, j \in {connectInUse, connectInUse \ {c}} :
        \A x \in Conns \ {c} : ObjectIs(x, cf[x], packets', disp', told[x], acceptWait, k, j)
  BY Unconcerned DEF ObjectIs
<1>8. \A k, j : c \notin acceptWait \cup k \cup j
                  => ObjectIs(c, r, packets', disp', told[c], acceptWait, k, j)
  BY <1>4 DEF ObjectIs, IsFree
<1>9. cf[c].status = "INVALID" /\ conn[c].status \in {"INVALID", "COMMON", "CONNECTING", "CONNECTOUT"}
  BY <1>3, <1>4 DEF Clean, Unused, IInv, ConnectRecord, Statuses
<1>10. CASE Accepted(c)
  <2> DEFINE q == Append(acceptQueue, c)
             u == acceptInUse \ {c}
  <2>1. c \in acceptInUse /\ c \notin connectInUse /\ c \notin acceptWait /\ c \notin ToSet(acceptQueue)
    BY <1>2, <1>10, PoolAssumption DEF Accepted
  <2>5. q \in Seq(Clients) /\ IsInjective(q) /\ ToSet(q) = ToSet(acceptQueue) \cup {c}
    BY <1>2, <1>10, <2>1, AppendNew DEF Accepted
  <2>6. ToSet(q) \cap (acceptWait \cup u) = {} /\ u \in SUBSET Clients /\ acceptWait \cap u = {}
    <3> HIDE DEF q
    <3>1. QED
      BY <1>2, <2>1, <2>5
  <2>2. /\ Check(r, c \in acceptInUse, "m_acceptInUse has socket") = r
        /\ Check(r, c \notin ToSet(acceptQueue), "socket is not in the free queue") = r
        /\ Check(r, ClientsFit(q, acceptWait, u), "no more than m_max_clientcnt") = r
    <3>1. ClientsFit(q, acceptWait, u)
      BY <1>2, <2>5, <2>6, ClientsAlwaysFit
    <3>2. QED
      BY <2>1, <3>1 DEF Check
  <2>3. /\ Armed([cf EXCEPT ![c] = r], q, acceptWait, u, FALSE)
        /\ UNCHANGED <<connects, connectInUse>>
    BY <1>5, <1>10, <2>2 DEF OnIOCPDisConnect
  <2>4. Armed(cf, q, acceptWait, u, FALSE)
    BY <1>6, <2>3, Zenon
  <2> HIDE DEF q
  <2>7. Objects(cf, packets', disp', told, acceptWait, u, connectInUse)
    <3>1. c \notin acceptWait \cup u \cup connectInUse
      BY <2>1
    <3>2. QED
      BY <1>7, <1>8, <3>1 DEF Objects
  <2> HIDE DEF u
  <2>8. FALSE \in BOOLEAN
    OBVIOUS
  <2>9. /\ acceptQueue' \in Seq(Clients) /\ IsInjective(acceptQueue')
        /\ Apart(acceptWait', acceptInUse', connectInUse)
        /\ ToSet(acceptQueue') \cap (acceptWait' \cup acceptInUse') = {}
        /\ told' \in [Conns -> SUBSET Words]
        /\ Objects(conn', packets', disp', told', acceptWait', acceptInUse', connectInUse)
        /\ \A x \in acceptWait' \ acceptWait : ~Has(packets', x, PacketTypes)
        /\ \A x \in Conns : SameView(told[x], told'[x])
        /\ \A x \in Conns : conn'[x].status = cf[x].status \/ conn'[x].status = "INVALID"
    <3>1. LoopKeeps(cf, packets', disp', acceptWait, connectInUse)
      BY <1>1, <1>2, <2>4, <2>5, <2>6, <2>7, <2>8, ArmedObjects
    <3>2. QED
      BY <3>1 DEF LoopKeeps
  <2>10. listening' = TRUE
    BY <1>2, <2>1
  <2>11. ListsOK(acceptQueue', acceptWait', acceptInUse', connects', connectInUse', listening')
    BY <1>2, <2>3, <2>9, <2>10 DEF ListsOK
  <2>12. PoolInv'
    BY <2>3, <2>9, <2>11 DEF PoolInv, Objects
  <2>13. \A x \in Conns : StaysClosed(x)
    BY <1>9, <2>9 DEF StaysClosed
  <2>14. StartsAlone
    BY <2>3, <2>9 DEF StartsAlone
  <2>15. SessionStep
    BY <1>3, <2>9 DEF SessionStep, Moves
  <2>16. QED
    BY <2>12, <2>13, <2>14, <2>15 DEF StepOK
<1>11. CASE ~Accepted(c)
  <2> DEFINE k == connectInUse \ {c}
  <2>1. c \notin acceptInUse /\ c \in connectInUse /\ c \notin acceptWait /\ c \notin ToSet(connects)
    BY <1>2, <1>11, PoolAssumption DEF Accepted
  <2> DEFINE q == Append(connects, c)
  <2>13. q \in Seq(Outs) /\ IsInjective(q) /\ ToSet(q) = ToSet(connects) \cup {c}
    BY <1>2, <2>1, AppendNew
  <2>14. OutsFit(q, k)
    <3> HIDE DEF q
    <3>1. ToSet(q) \cap k = {} /\ k \in SUBSET Outs
      BY <1>2, <2>1, <2>13
    <3> HIDE DEF k
    <3>2. QED
      BY <2>13, <3>1, OutsAlwaysFit
  <2>2. /\ Check(r, c \in connectInUse, "m_ConnectInUse has socket") = r
        /\ Check(r, c \notin ToSet(connects), "socket is not in the free queue") = r
        /\ Check(r, OutsFit(q, k), "no more than m_max_connectcnt") = r
    BY <2>1, <2>14 DEF Check
  <2>3. /\ conn' = [cf EXCEPT ![c] = r]
        /\ connects' = Append(connects, c) /\ connectInUse' = k
        /\ acceptQueue' = acceptQueue /\ acceptWait' = acceptWait /\ acceptInUse' = acceptInUse
        /\ told' = told
    <3> DEFINE quiet == Check(r, r.iocpref = 0, "nIORef==0")
               used  == Check(quiet, c \in connectInUse, "m_ConnectInUse has socket")
               once  == Check(used, c \notin ToSet(connects), "socket is not in the free queue")
               done  == Check(once, OutsFit(q, k), "no more than m_max_connectcnt")
    <3>1. /\ conn' = [cf EXCEPT ![c] = done]
          /\ connects' = q /\ connectInUse' = k
          /\ UNCHANGED <<acceptQueue, acceptWait, acceptInUse, told>>
      BY <1>11 DEF OnIOCPDisConnect
    <3>2. quiet = r
      BY <1>5
    <3> HIDE DEF quiet
    <3>3. used = r
      BY <2>2, <3>2
    <3> HIDE DEF used
    <3>4. once = r
      BY <2>2, <3>3
    <3> HIDE DEF once
    <3>5. done = r
      BY <2>2, <3>4
    <3> HIDE DEF done
    <3>6. QED
      BY <3>1, <3>5
  <2>4. conn' = cf
    BY <1>6, <2>3, Zenon
  <2>5. connects' \in Seq(Outs) /\ IsInjective(connects') /\ ToSet(connects') = ToSet(connects) \cup {c}
    BY <1>2, <2>1, <2>3, AppendNew
  <2>6. Objects(conn', packets', disp', told', acceptWait', acceptInUse', connectInUse')
    <3>1. c \notin acceptWait \cup acceptInUse \cup k
      BY <2>1
    <3>2. Objects(cf, packets', disp', told, acceptWait, acceptInUse, k)
      BY <1>7, <1>8, <3>1 DEF Objects
    <3>3. QED
      BY <2>3, <2>4, <3>2
  <2>7. ListsOK(acceptQueue', acceptWait', acceptInUse', connects', connectInUse', listening')
    BY <1>2, <2>3, <2>5 DEF ListsOK, Apart
  <2>8. PoolInv'
    BY <1>1, <2>3, <2>6, <2>7 DEF PoolInv, Objects
  <2>9. \A x \in Conns : StaysClosed(x)
    BY <1>9, <2>4 DEF StaysClosed
  <2>10. StartsAlone
    BY <2>3 DEF StartsAlone
  <2>11. SessionStep
    BY <1>3, <2>3, SameViewSelf DEF SessionStep
  <2>12. QED
    BY <2>8, <2>9, <2>10, <2>11 DEF StepOK
<1>12. QED
  BY <1>10, <1>11

(* The socket is recycled: the object goes back to the free queue. *)
LEMMA DispatchReuseOK ==
  ASSUME IInv, PoolInv, DispatchReuse
  PROVE  StepOK
<1> DEFINE c == Head(packets).conn
           q == Tail(packets)
<1>1. /\ NextPacket({"SOCKET_REUSE"}) /\ packets' = q /\ OnIOCPDisConnect(conn, c)
      /\ disp' = disp /\ UNCHANGED listening
  BY DEF DispatchReuse
<1>2. Head(packets).type = "SOCKET_REUSE"
  BY <1>1 DEF NextPacket
<1>3. /\ packets # <<>> /\ c \in Conns /\ disp = Idle /\ disp.conn # c
      /\ ObjectIs(c, conn[c], packets, disp, told[c], acceptWait, acceptInUse, connectInUse)
      /\ Sound(conn[c]) /\ conn[c].failed = {} /\ conn[c].out = <<>>
      /\ Ordered(q, c) /\ ~Has(q, c, PacketTypes)
      /\ Has(packets, c, {"SOCKET_REUSE"}) /\ Has(packets, c, PacketTypes)
  BY <1>1, <1>2, PoppedIs DEF LastPackets
<1>4. /\ \A x : Ordered(packets, x) => Ordered(q, x)
      /\ \A x, s : x # c => (Has(q, x, s) <=> Has(packets, x, s))
  BY <1>3, QueuePops DEF IInv
<1> HIDE DEF c, q
<1>5. c \in acceptInUse /\ Clean(conn[c]) /\ Untold(told[c])
  BY <1>3, HeadStage DEF Talks
<1>6. Fresh(conn[c]) /\ Away(c, packets', disp')
  BY <1>1, <1>3, <1>5 DEF Fresh, Away
<1>7. \A x \in Conns \ {c} :
        ObjectIs(x, conn[x], packets', disp', told[x], acceptWait, acceptInUse, connectInUse)
  <2>1. SUFFICES ASSUME NEW x \in Conns \ {c}
                 PROVE  ObjectIs(x, conn[x], packets', disp', told[x], acceptWait, acceptInUse, connectInUse)
    OBVIOUS
  <2>2. ObjectIs(x, conn[x], packets, disp, told[x], acceptWait, acceptInUse, connectInUse)
    BY DEF PoolInv, Objects
  <2>3. Ordered(packets', x) /\ \A s : Has(packets', x, s) <=> Has(packets, x, s)
    BY <1>1, <1>4, <2>2 DEF ObjectIs
  <2>4. QED
    BY <1>1, <2>2, <2>3, Unconcerned
<1>8. conn \in [Conns -> ConnectRecord] /\ \A x \in Conns : Sound(conn[x])
  BY DEF IInv
<1>9. DispOK'
  BY <1>1 DEF PoolInv, DispOK
<1>10. Ordered(packets', c) /\ OnIOCPDisConnect(conn, c) /\ UNCHANGED listening
  BY <1>1, <1>3
<1>11. QED
  BY <1>5, <1>6, <1>7, <1>8, <1>9, <1>10, OnIOCPDisConnectOK

(* What the dispatcher finds when it comes back from a callback. *)
LEMMA ReturnFacts ==
  ASSUME IInv, PoolInv, Running, disp.at # "idle"
  PROVE  LET c == disp.conn
         IN  /\ c \in Conns /\ Sound(conn[c]) /\ conn[c].failed = {} /\ conn[c].out = <<>>
             /\ ObjectIs(c, conn[c], packets, disp, told[c], acceptWait, acceptInUse, connectInUse)
             /\ Apart(acceptWait, acceptInUse, connectInUse) /\ told[c] \in SUBSET Words
             /\ Ordered(packets, c) /\ Idle.conn # c
             /\ \A x \in Conns \ {c} :
                  ObjectIs(x, conn[x], packets, Idle, told[x], acceptWait, acceptInUse, connectInUse)
<1> DEFINE c == disp.conn
<1>1. c \in Conns
  BY DEF IInv
<1>2. Idle.conn \notin Conns
  BY PoolAssumption DEF Idle
<1>3. \A x \in Conns : ObjectIs(x, conn[x], packets, disp, told[x], acceptWait, acceptInUse, connectInUse)
  BY DEF PoolInv, Objects
<1>4. ASSUME NEW x \in Conns \ {c}
      PROVE  ObjectIs(x, conn[x], packets, Idle, told[x], acceptWait, acceptInUse, connectInUse)
  <2>1. ObjectIs(x, conn[x], packets, disp, told[x], acceptWait, acceptInUse, connectInUse)
    BY <1>3
  <2>2. disp.conn # x /\ Idle.conn # x /\ Ordered(packets, x)
    BY <1>2, <2>1 DEF ObjectIs
  <2>3. QED
    BY <2>1, <2>2, Unconcerned
<1>5. /\ Sound(conn[c]) /\ conn[c].failed = {} /\ told[c] \in SUBSET Words
      /\ Apart(acceptWait, acceptInUse, connectInUse)
  BY <1>1 DEF IInv, PoolInv, ListsOK, Running
<1> HIDE DEF c
<1>6. conn[c].out = <<>> /\ Ordered(packets, c)
  BY <1>1, <1>3 DEF ObjectIs
<1>7. QED
  BY <1>1, <1>2, <1>3, <1>4, <1>5, <1>6 DEF c

(* The object the dispatcher has reported the close of. *)
LEMMA ClosingStage ==
  ASSUME NEW c \in Conns, NEW r, NEW p, NEW d, NEW t, NEW w, NEW u, NEW k,
         ObjectIs(c, r, p, d, t, w, u, k), d.conn = c, d.at = "IOCPClose"
  PROVE  c \in u \cup k /\ AtClose(c, r, p, d, t)
  BY DEF ObjectIs, IsFree, Waits, Used, ConnectUsed, Away

(* The object the dispatcher has offered. *)
LEMMA AcceptingStage ==
  ASSUME NEW c \in Conns, NEW r, NEW p, NEW d, NEW t, NEW w, NEW u, NEW k,
         ObjectIs(c, r, p, d, t, w, u, k), d.conn = c, d.at = "OnIOCPAccept"
  PROVE  c \in w /\ Talks(c, r, p, t) /\ Holds(t) /\ ~Has(p, c, FirstPackets)
  BY DEF ObjectIs, IsFree, Waits, Used, ConnectUsed, Away, AtClose

(* CIOCP takes the object back after the callbacks of its close. *)
LEMMA IOCPCloseOK ==
  ASSUME IInv, PoolInv, IOCPClose
  PROVE  StepOK
<1> DEFINE c == disp.conn
           r == conn[c]
<1>1. /\ Running /\ disp.at = "IOCPClose" /\ disp' = Idle /\ UNCHANGED <<packets, listening>>
  BY DEF IOCPClose
<1>2. /\ c \in Conns /\ Sound(r) /\ r.failed = {} /\ r.out = <<>>
      /\ ObjectIs(c, r, packets, disp, told[c], acceptWait, acceptInUse, connectInUse)
      /\ Apart(acceptWait, acceptInUse, connectInUse) /\ told[c] \in SUBSET Words
      /\ Ordered(packets, c) /\ Idle.conn # c
      /\ \A x \in Conns \ {c} :
           ObjectIs(x, conn[x], packets, Idle, told[x], acceptWait, acceptInUse, connectInUse)
  BY <1>1, ReturnFacts
<1>3. /\ c \in acceptInUse \cup connectInUse
      /\ InSession(r) /\ Done(r) /\ ~Has(packets, c, PacketTypes) /\ Untold(told[c])
  BY <1>1, <1>2, ClosingStage DEF AtClose
<1>4. Away(c, packets', disp') /\ Ordered(packets', c) /\ DispOK'
  BY <1>1, <1>2, <1>3 DEF Away, DispOK
<1>5. conn \in [Conns -> ConnectRecord] /\ \A x \in Conns : Sound(conn[x])
  BY DEF IInv
<1>6. ASSUME NEW s, Sound(s), Clean(s), s.failed = {}, s.out = <<>>,
             OnIOCPDisConnect([conn EXCEPT ![c] = s], c)
      PROVE  StepOK
  <2> DEFINE cf == [conn EXCEPT ![c] = s]
  <2>1. cf \in [Conns -> ConnectRecord] /\ \A x \in Conns : Sound(cf[x])
    BY <1>2, <1>5, <1>6, ReplaceSound
  <2>2. cf[c] = s /\ \A x \in Conns \ {c} : cf[x] = conn[x]
    BY <1>2, <1>5
  <2>3. OnIOCPDisConnect(cf, c)
    BY <1>6
  <2> HIDE DEF cf, c
  <2>4. Fresh(cf[c])
    BY <1>6, <2>2 DEF Fresh
  <2>5. \A x \in Conns \ {c} :
          /\ cf[x] = conn[x]
          /\ ObjectIs(x, cf[x], packets', disp', told[x], acceptWait, acceptInUse, connectInUse)
    BY <1>1, <1>2, <2>2
  <2>6. UNCHANGED listening
    BY <1>1
  <2>7. QED
    BY <1>3, <1>4, <2>1, <2>3, <2>4, <2>5, <2>6, OnIOCPDisConnectOK
<1>7. CASE Accepted(c)
  <2>1. PICK posts \in BOOLEAN :
          LET s == ReuseClose(r, posts)
          IN  IF posts THEN conn' = [conn EXCEPT ![c] = s] /\ UNCHANGED <<lists, told>>
                       ELSE OnIOCPDisConnect([conn EXCEPT ![c] = TrueClose(s)], c)
    BY <1>7 DEF IOCPClose
  <2>2. /\ LET s == ReuseClose(r, TRUE)
           IN  Disconnecting(s) /\ s.failed = {} /\ s.out = r.out
        /\ LET s == TrueClose(ReuseClose(r, FALSE))
           IN  Clean(s) /\ s.failed = {} /\ s.out = r.out /\ s.iocpref = 0
    BY <1>2, <1>3, ReuseCloseCleans
  <2>3. CASE posts
    <3> DEFINE s == ReuseClose(r, TRUE)
    <3>1. conn' = [conn EXCEPT ![c] = s] /\ UNCHANGED <<lists, told>>
      BY <2>1, <2>3
    <3>2. Disconnecting(s) /\ s.failed = {} /\ s.out = <<>>
      BY <1>2, <2>2
    <3> HIDE DEF s
    <3>3. c \in acceptInUse /\ c \notin acceptWait /\ c \notin connectInUse
      BY <1>2, <1>3, <1>7, PoolAssumption DEF Apart, Accepted
    <3>4. ObjectIs(c, s, packets', disp', told[c], acceptWait, acceptInUse, connectInUse)
      BY <1>3, <1>4, <3>2, <3>3 DEF ObjectIs, Used
    <3>5. told' = [told EXCEPT ![c] = told[c]]
      BY <3>1 DEF PoolInv
    <3>6. s.status = "INVALID"
      BY <3>2 DEF Disconnecting, Unused
    <3>7. disp.conn \in {NoConn, c} /\ disp'.conn \in {NoConn, c}
      BY <1>1 DEF Idle
    <3>8. UNCHANGED <<lists, listening>>
      BY <1>1, <3>1
    <3>9. \A x \in Conns \ {c} : /\ \A types : Has(packets', x, types) <=> Has(packets, x, types)
                                 /\ Ordered(packets, x) => Ordered(packets', x)
      BY <1>1
    <3> HIDE DEF c
    <3>10. QED
      BY <1>2, <1>4, <3>1, <3>4, <3>5, <3>6, <3>7, <3>8, <3>9, SameViewSelf, OneObject
  <2>4. CASE ~posts
    <3> DEFINE s == TrueClose(ReuseClose(r, FALSE))
    <3>1. OnIOCPDisConnect([conn EXCEPT ![c] = s], c)
      BY <2>1, <2>4
    <3>2. Clean(s) /\ s.failed = {} /\ s.out = <<>>
      BY <1>2, <2>2
    <3>3. Sound(s)
      BY <1>2, ReuseCloseSound, TrueCloseSound
    <3> HIDE DEF s, c
    <3>4. QED
      BY <1>6, <3>1, <3>2, <3>3
  <2>5. QED
    BY <2>3, <2>4
<1>8. CASE ~Accepted(c)
  <2> DEFINE s == TrueClose(r)
  <2>1. OnIOCPDisConnect([conn EXCEPT ![c] = s], c)
    <3>1. [conn EXCEPT ![c] = TrueClose(@)] = [conn EXCEPT ![c] = s]
      OBVIOUS
    <3>2. OnIOCPDisConnect([conn EXCEPT ![c] = TrueClose(@)], c)
      BY <1>8 DEF IOCPClose
    <3>3. QED
      BY <3>1, <3>2
  <2>2. Only(r, {})
    BY <1>2, <1>3, DoneIsIdle DEF Only
  <2>3. Clean(s) /\ s.failed = {} /\ s.out = <<>>
    BY <1>2, <2>2, TrueCloseIsClean DEF Sound
  <2>4. Sound(s)
    BY <1>2, TrueCloseSound
  <2> HIDE DEF s, c
  <2>5. QED
    BY <1>6, <2>1, <2>3, <2>4
<1>9. QED
  BY <1>7, <1>8

(* The loop runs on the objects as they are, and the step does nothing else. *)
LEMMA LoopOK ==
  ASSUME IInv, PoolInv, NEW q \in Seq(Clients), IsInjective(q),
         NEW w \in SUBSET Clients, NEW u \in SUBSET Clients, w \cap u = {},
         ToSet(q) \cap (w \cup u) = {}, NEW listens \in BOOLEAN,
         Objects(conn, packets', disp', told, w, u, connectInUse), Armed(conn, q, w, u, listens),
         w \subseteq acceptWait, listening' = TRUE, UNCHANGED <<connects, connectInUse>>, DispOK'
  PROVE  StepOK
<1>1. \A x \in Conns : Sound(conn[x])
  BY DEF IInv
<1>2. /\ connectInUse \in SUBSET Outs /\ told \in [Conns -> SUBSET Words]
      /\ connects \in Seq(Outs) /\ IsInjective(connects) /\ ToSet(connects) \cap connectInUse = {}
  BY DEF PoolInv, ListsOK, Apart
<1>3. /\ acceptQueue' \in Seq(Clients) /\ IsInjective(acceptQueue')
      /\ Apart(acceptWait', acceptInUse', connectInUse)
      /\ ToSet(acceptQueue') \cap (acceptWait' \cup acceptInUse') = {}
      /\ told' \in [Conns -> SUBSET Words]
      /\ Objects(conn', packets', disp', told', acceptWait', acceptInUse', connectInUse)
      /\ \A x \in acceptWait' \ w : ~Has(packets', x, PacketTypes)
      /\ \A x \in Conns : SameView(told[x], told'[x])
      /\ \A x \in Conns : conn'[x].status = conn[x].status \/ conn'[x].status = "INVALID"
  <2>1. LoopKeeps(conn, packets', disp', w, connectInUse)
    BY <1>1, <1>2, ArmedObjects
  <2>2. QED
    BY <2>1 DEF LoopKeeps
<1>4. PoolInv'
  <2>1. ListsOK(acceptQueue', acceptWait', acceptInUse', connects', connectInUse', listening')
    BY <1>2, <1>3 DEF ListsOK
  <2>2. QED
    BY <1>3, <2>1 DEF PoolInv
<1>5. \A x \in Conns : StaysClosed(x)
  BY <1>3 DEF StaysClosed
<1>6. StartsAlone
  BY <1>3 DEF StartsAlone
<1>7. Conns # {} => SessionStep
  BY <1>3 DEF SessionStep, Moves
<1>8. QED
  BY <1>4, <1>5, <1>6, <1>7 DEF StepOK

(* CIOCP moves the object the dispatcher has offered to the ones in use. *)
LEMMA OnIOCPAcceptOK ==
  ASSUME IInv, PoolInv, OnIOCPAccept
  PROVE  StepOK
<1> DEFINE c == disp.conn
           r == conn[c]
           w == acceptWait \ {c}
           u == acceptInUse \cup {c}
<1>1. /\ Running /\ disp.at = "OnIOCPAccept" /\ disp' = Idle
      /\ UNCHANGED <<packets, listening, connects, connectInUse>>
      /\ LET a == Check(r, c \in acceptWait, "m_acceptWait has socket")
             b == Check(a, c \notin acceptInUse, "m_acceptInUse lacks socket")
             t == Check(b, ClientsFit(acceptQueue, w, u), "no more than m_max_clientcnt")
         IN  Armed([conn EXCEPT ![c] = t], acceptQueue, w, u, FALSE)
  BY DEF OnIOCPAccept
<1>2. /\ c \in Conns /\ Sound(r) /\ r.failed = {} /\ r.out = <<>>
      /\ ObjectIs(c, r, packets, disp, told[c], acceptWait, acceptInUse, connectInUse)
      /\ Apart(acceptWait, acceptInUse, connectInUse) /\ told[c] \in SUBSET Words
      /\ Ordered(packets, c) /\ Idle.conn # c
      /\ \A x \in Conns \ {c} :
           ObjectIs(x, conn[x], packets, Idle, told[x], acceptWait, acceptInUse, connectInUse)
  BY <1>1, ReturnFacts
<1>3. c \in acceptWait /\ Talks(c, r, packets, told[c]) /\ Holds(told[c]) /\ ~Has(packets, c, FirstPackets)
  BY <1>1, <1>2, AcceptingStage
<1>5. /\ acceptQueue \in Seq(Clients) /\ IsInjective(acceptQueue)
      /\ acceptWait \in SUBSET Clients /\ acceptInUse \in SUBSET Clients /\ connectInUse \in SUBSET Outs
      /\ acceptWait \cap acceptInUse = {} /\ ToSet(acceptQueue) \cap (acceptWait \cup acceptInUse) = {}
      /\ listening \in BOOLEAN /\ (~listening => acceptWait = {})
  BY DEF PoolInv, ListsOK, Apart
<1>4. Armed(conn, acceptQueue, w, u, FALSE)
  <2>1. ClientsFit(acceptQueue, w, u)
    <3>1. /\ w \in SUBSET Clients /\ u \in SUBSET Clients /\ w \cap u = {}
          /\ ToSet(acceptQueue) \cap (w \cup u) = {}
      BY <1>3, <1>5
    <3>2. QED
      BY <1>5, <3>1, ClientsAlwaysFit
  <2>2. /\ Check(r, c \in acceptWait, "m_acceptWait has socket") = r
        /\ Check(r, c \notin acceptInUse, "m_acceptInUse lacks socket") = r
        /\ Check(r, ClientsFit(acceptQueue, w, u), "no more than m_max_clientcnt") = r
    BY <1>3, <1>5, <2>1 DEF Check
  <2>3. [conn EXCEPT ![c] = r] = conn
    BY <1>2 DEF IInv
  <2>4. QED
    BY <1>1, <2>2, <2>3, Zenon
<1> HIDE DEF c
<1>6. /\ w \in SUBSET Clients /\ u \in SUBSET Clients /\ w \cap u = {}
      /\ ToSet(acceptQueue) \cap (w \cup u) = {} /\ c \notin connectInUse
  BY <1>3, <1>5, PoolAssumption
<1>7. Objects(conn, packets, Idle, told, w, u, connectInUse)
  <2>1. ASSUME NEW x \in Conns \ {c}
        PROVE  ObjectIs(x, conn[x], packets, Idle, told[x], w, u, connectInUse)
    <3>1. ObjectIs(x, conn[x], packets, Idle, told[x], acceptWait, acceptInUse, connectInUse)
      BY <1>2
    <3>2. QED
      BY <3>1, Unconcerned DEF ObjectIs
  <2>2. Used(c, r, packets, Idle, told[c])
    BY <1>2, <1>3 DEF Used
  <2>3. ObjectIs(c, r, packets, Idle, told[c], w, u, connectInUse)
    BY <1>2, <1>6, <2>2 DEF ObjectIs
  <2>4. QED
    BY <2>1, <2>3 DEF Objects
<1>8. Objects(conn, packets', disp', told, w, u, connectInUse)
  BY <1>1, <1>7
<1>9. DispOK'
  BY <1>1 DEF DispOK
<1>10. w \subseteq acceptWait /\ FALSE \in BOOLEAN /\ UNCHANGED <<connects, connectInUse>>
  BY <1>1
<1>11. listening' = TRUE
  BY <1>1, <1>3, <1>5
<1> HIDE DEF w, u
<1>12. QED
  BY <1>4, <1>5, <1>6, <1>8, <1>9, <1>10, <1>11, LoopOK

(* Listen. *)
LEMMA ListenOK ==
  ASSUME IInv, PoolInv, Listen
  PROVE  StepOK
<1>1. /\ ~listening /\ listening' = TRUE
      /\ Armed(conn, SetToSeq(Clients), {}, {}, TRUE)
      /\ UNCHANGED <<packets, disp, connects, connectInUse>>
  BY DEF Listen
<1>2. acceptWait = {} /\ acceptInUse = {}
  BY <1>1 DEF PoolInv, ListsOK
<1>3. SetToSeq(Clients) \in Seq(Clients) /\ IsInjective(SetToSeq(Clients))
  BY PoolAssumption, SetToSeqFacts
<1>4. Objects(conn, packets', disp', told, {}, {}, connectInUse) /\ DispOK'
  BY <1>1, <1>2 DEF PoolInv, DispOK
<1>5. ToSet(SetToSeq(Clients)) \cap ({} \cup {}) = {} /\ {} \cap {} = {} /\ {} \in SUBSET Clients
      /\ TRUE \in BOOLEAN /\ {} \subseteq acceptWait /\ UNCHANGED <<connects, connectInUse>>
  BY <1>1
<1>6. QED
  BY <1>1, <1>3, <1>4, <1>5, LoopOK

-----------------------------------------------------------------------------
(* Connect.                                                                 *)

(* The objects Connect takes the first of: the free ones, and new ones for those missing. *)
LEMMA ConnectTakes ==
  ASSUME PoolInv, NEW q, q = connects \o SetToSeq(Outs \ (ToSet(connects) \cup connectInUse)),
         q # <<>>
  PROVE  LET c == Head(q)
         IN  /\ c \in Outs /\ c \in Conns /\ c \notin acceptWait \cup acceptInUse \cup connectInUse
             /\ Tail(q) \in Seq(Outs) /\ IsInjective(Tail(q))
             /\ ToSet(Tail(q)) \cap (connectInUse \cup {c}) = {}
<1> DEFINE fresh == Outs \ (ToSet(connects) \cup connectInUse)
           m     == SetToSeq(fresh)
           c     == Head(q)
<1>1. /\ connects \in Seq(Outs) /\ IsInjective(connects) /\ ToSet(connects) \cap connectInUse = {}
      /\ acceptWait \subseteq Clients /\ acceptInUse \subseteq Clients /\ connectInUse \subseteq Outs
  BY DEF PoolInv, ListsOK, Apart
<1>2. m \in Seq(fresh) /\ IsInjective(m) /\ ToSet(m) = fresh
  <2>1. IsFiniteSet(fresh)
    BY PoolAssumption, FS_Subset
  <2>2. QED
    BY <2>1, SetToSeqFacts
<1>3. q = connects \o m
  OBVIOUS
<1> HIDE DEF m
<1>4. m \in Seq(Outs) /\ ToSet(connects) \cap ToSet(m) = {}
  <2>1. fresh \subseteq Outs /\ ToSet(connects) \cap fresh = {}
    OBVIOUS
  <2> HIDE DEF fresh
  <2>2. m \in Seq(Outs)
    BY <1>2, <2>1
  <2>3. QED
    BY <1>2, <2>1, <2>2
<1>5. q \in Seq(Outs) /\ IsInjective(q) /\ ToSet(q) = ToSet(connects) \cup fresh
  <2>1. /\ connects \o m \in Seq(Outs) /\ IsInjective(connects \o m)
        /\ ToSet(connects \o m) = ToSet(connects) \cup ToSet(m)
    BY ONLY <1>1, <1>2, <1>4, JoinNew
  <2>2. QED
    BY <1>2, <1>3, <2>1, Zenon
<1>6. /\ Tail(q) \in Seq(Outs) /\ IsInjective(Tail(q)) /\ c \in Outs /\ c \in ToSet(q)
      /\ ToSet(Tail(q)) \subseteq ToSet(q) /\ c \notin ToSet(Tail(q))
  <2>1. q # <<>>
    OBVIOUS
  <2>2. QED
    BY ONLY <1>5, <2>1, TakeFirst
<1>7. /\ c \in Conns /\ c \notin acceptWait \cup acceptInUse \cup connectInUse
      /\ ToSet(Tail(q)) \cap (connectInUse \cup {c}) = {}
  <2> DEFINE Q == ToSet(q)
             R == ToSet(Tail(q))
  <2>1. /\ Q \cap connectInUse = {} /\ c \in Outs /\ c \in Q /\ R \subseteq Q /\ c \notin R
    BY <1>1, <1>5, <1>6
  <2> HIDE DEF Q, R, c
  <2>2. /\ c \in Conns /\ c \notin acceptWait \cup acceptInUse \cup connectInUse
        /\ R \cap (connectInUse \cup {c}) = {}
    BY <1>1, <2>1, PoolAssumption DEF Conns
  <2>3. QED
    BY <2>2 DEF R
<1>8. QED
  BY <1>6, <1>7

(* Connect uses the first of them. *)
LEMMA ConnectToOK ==
  ASSUME IInv, PoolInv, ConnectTo
  PROVE  StepOK
<1> DEFINE fresh == Outs \ (ToSet(connects) \cup connectInUse)
           q     == connects \o SetToSeq(fresh)
           c     == Head(q)
           s     == SetCallback(Check(conn[c], conn[c].iocpref = 0, "m_iocpref==0"), FALSE, TRUE)
<1>1. /\ q # <<>> /\ connects' = Tail(q)
      /\ \/ /\ conn' = [conn EXCEPT ![c] = Check(ConnectOut(s), c \notin connectInUse,
                                                 "m_ConnectInUse lacks socket")]
            /\ connectInUse' = connectInUse \cup {c}
            /\ told' = [told EXCEPT ![c] = {"Connect"}]
         \/ /\ conn' = [conn EXCEPT ![c] = Deleted(s)]
            /\ told' = [told EXCEPT ![c] = {}]
            /\ connectInUse' = connectInUse
      /\ packets' = packets /\ disp' = disp /\ listening' = listening
      /\ acceptQueue' = acceptQueue /\ acceptWait' = acceptWait /\ acceptInUse' = acceptInUse
  BY DEF ConnectTo
<1>2. connectInUse \subseteq Outs
  BY DEF PoolInv, ListsOK, Apart
<1>3. /\ c \in Outs /\ c \in Conns /\ c \notin acceptWait \cup acceptInUse \cup connectInUse
      /\ connects' \in Seq(Outs) /\ IsInjective(connects')
      /\ ToSet(connects') \cap (connectInUse \cup {c}) = {}
  BY <1>1, ConnectTakes
<1> HIDE DEF c, q, fresh
<1>4. /\ conn \in [Conns -> ConnectRecord] /\ Sound(conn[c]) /\ told \in [Conns -> SUBSET Words]
      /\ ObjectIs(c, conn[c], packets, disp, told[c], acceptWait, acceptInUse, connectInUse)
  BY <1>3 DEF IInv, PoolInv, Objects
<1>5. /\ Clean(conn[c]) /\ Away(c, packets, disp) /\ Untold(told[c]) /\ conn[c].failed = {}
      /\ Ordered(packets, c)
  BY <1>3, <1>4 DEF ObjectIs, IsFree
<1>6. connectInUse \subseteq connectInUse' /\ connectInUse' \subseteq connectInUse \cup {c}
  BY <1>1
<1>7. \A x \in Conns \ {c} : /\ conn'[x] = conn[x] /\ told'[x] = told[x]
                             /\ x \in connectInUse' <=> x \in connectInUse
  BY <1>1, <1>4, <1>6
<1>8. ASSUME NEW x \in Conns \ {c}
      PROVE  ObjectIs(x, conn'[x], packets', disp', told'[x], acceptWait', acceptInUse', connectInUse')
  <2>1. ObjectIs(x, conn[x], packets, disp, told[x], acceptWait, acceptInUse, connectInUse)
    BY DEF PoolInv, Objects
  <2>2. Ordered(packets, x)
    BY <2>1 DEF ObjectIs
  <2>3. ObjectIs(x, conn[x], packets, disp, told[x], acceptWait, acceptInUse, connectInUse')
    BY <1>7, <2>1, <2>2, Unconcerned
  <2>4. QED
    BY <1>1, <1>7, <2>3
<1>9. /\ ObjectIs(c, conn'[c], packets', disp', told'[c], acceptWait', acceptInUse', connectInUse')
      /\ told' \in [Conns -> SUBSET Words] /\ Moves(told[c], told'[c])
      /\ conn'[c].status = "INVALID" \/ c \in connectInUse' \ connectInUse
  <2>1. CASE /\ conn' = [conn EXCEPT ![c] = Check(ConnectOut(s), c \notin connectInUse,
                                                  "m_ConnectInUse lacks socket")]
             /\ connectInUse' = connectInUse \cup {c}
             /\ told' = [told EXCEPT ![c] = {"Connect"}]
    <3> DEFINE e == ConnectOut(s)
    <3>10. Check(e, c \notin connectInUse, "m_ConnectInUse lacks socket") = e
      BY <1>3 DEF Check
    <3>1. Connecting(e) /\ e.failed = {} /\ e.out = conn[c].out
      BY <1>4, <1>5, ConnectsAfterClean
    <3> HIDE DEF e
    <3>2. conn'[c] = e /\ told'[c] = {"Connect"} /\ told' \in [Conns -> SUBSET Words]
      BY <1>3, <1>4, <2>1, <3>10 DEF Words, e
    <3>3. e.out = <<>>
      BY <1>4, <3>1 DEF ObjectIs
    <3>4. Holds({"Connect"}) /\ ~Opened({"Connect"})
      BY DEF Holds, Opened
    <3>5. ConnectUsed(c, e, packets, disp, {"Connect"})
      BY <1>5, <3>1, <3>4 DEF ConnectUsed
    <3>6. c \notin acceptWait /\ c \notin acceptInUse /\ c \in connectInUse'
      BY <1>3, <2>1
    <3>7. ObjectIs(c, e, packets, disp, {"Connect"}, acceptWait, acceptInUse, connectInUse')
      BY <1>5, <3>1, <3>3, <3>5, <3>6 DEF ObjectIs
    <3>8. Moves(told[c], {"Connect"})
      BY <1>5, <3>4 DEF Moves
    <3>9. QED
      BY <1>1, <1>3, <3>2, <3>6, <3>7, <3>8
  <2>2. CASE /\ conn' = [conn EXCEPT ![c] = Deleted(s)]
             /\ told' = [told EXCEPT ![c] = {}]
             /\ connectInUse' = connectInUse
    <3> DEFINE e == Deleted(s)
    <3>1. Clean(e) /\ e.failed = {} /\ e.out = <<>>
      BY <1>4, <1>5, SetCallbackQuiet, DeletedIsClean
    <3> HIDE DEF e
    <3>2. conn'[c] = e /\ told'[c] = {} /\ told' \in [Conns -> SUBSET Words]
      BY <1>3, <1>4, <2>2 DEF e
    <3>3. Untold({}) /\ SameView(told[c], {})
      BY <1>5 DEF Untold, Holds, Opened, SameView
    <3>4. ObjectIs(c, e, packets, disp, {}, acceptWait, acceptInUse, connectInUse)
      BY <1>3, <1>5, <3>1, <3>3 DEF ObjectIs, IsFree
    <3>5. e.status = "INVALID"
      BY <3>1 DEF Clean, Unused
    <3>6. QED
      BY <1>1, <2>2, <3>2, <3>3, <3>4, <3>5 DEF Moves
  <2>3. QED
    BY <1>1, <2>1, <2>2
<1>10. PoolInv'
  <2>1. ListsOK(acceptQueue', acceptWait', acceptInUse', connects', connectInUse', listening')
    <3>1. ListsOK(acceptQueue, acceptWait, acceptInUse, connects, connectInUse, listening)
      BY DEF PoolInv
    <3>2. connectInUse' \subseteq Outs /\ ToSet(connects') \cap connectInUse' = {}
      BY <1>2, <1>3, <1>6
    <3>3. QED
      BY <1>1, <1>3, <3>1, <3>2 DEF ListsOK, Apart
  <2>2. DispOK'
    BY <1>1 DEF PoolInv, DispOK
  <2>3. Objects(conn', packets', disp', told', acceptWait', acceptInUse', connectInUse')
    BY <1>8, <1>9 DEF Objects
  <2>4. QED
    BY <1>9, <2>1, <2>2, <2>3 DEF PoolInv
<1>11. \A x \in Conns : StaysClosed(x)
  BY <1>7, <1>9 DEF StaysClosed
<1>12. StartsAlone
  BY <1>1, <1>5, <1>6 DEF StartsAlone, Away
<1>13. SessionStep
  BY <1>3, <1>7, <1>9, SameViewSelf DEF SessionStep
<1>14. QED
  BY <1>10, <1>11, <1>12, <1>13 DEF StepOK

(* A step that touches no object and no list. *)
LEMMA NothingMoves ==
  ASSUME PoolInv, UNCHANGED <<conn, packets, disp, listening, lists, told>>
  PROVE  StepOK
<1>1. /\ conn' = conn /\ packets' = packets /\ disp' = disp /\ listening' = listening /\ told' = told
      /\ acceptQueue' = acceptQueue /\ acceptWait' = acceptWait /\ acceptInUse' = acceptInUse
      /\ connects' = connects /\ connectInUse' = connectInUse
  BY DEF lists
<1>2. PoolInv'
  BY <1>1 DEF PoolInv, DispOK
<1>3. \A x \in Conns : StaysClosed(x)
  BY <1>1 DEF StaysClosed
<1>4. StartsAlone
  BY <1>1 DEF StartsAlone
<1>5. Conns # {} => SessionStep
  BY <1>1, SameViewSelf DEF SessionStep
<1>6. QED
  BY <1>2, <1>3, <1>4, <1>5 DEF StepOK

-----------------------------------------------------------------------------
(* Every step.                                                              *)

(* The unusual events the theorems admit: WSASend refused while the         *)
(* connection is up, DisconnectEx failing, and AcceptEx refused.  The      *)
(* others are left out because the code does not stand them: forbidIP,     *)
(* acceptErr and bind close an object that is still waiting for a client,  *)
(* which trips IOCP.cpp:254; firstRecv revives a closed connection;        *)
(* closeEarly and setTwice are calls of the user that trip Connect.cpp:327 *)
(* and Connect.cpp:405.                                                    *)
Usual == Allow \subseteq {"sendPost", "disconnectErr", "acceptPost"}

(* The invariant holds when the library is started. *)
LEMMA InitPool == Init => PoolInv
<1> SUFFICES ASSUME Init PROVE PoolInv
  OBVIOUS
<1>1. /\ conn = [c \in Conns |-> NewConnect] /\ packets = <<>> /\ disp = Idle /\ listening = FALSE
      /\ acceptQueue = <<>> /\ acceptWait = {} /\ acceptInUse = {}
      /\ connects = <<>> /\ connectInUse = {} /\ told = [c \in Conns |-> {}]
  BY DEF Init
<1>2. ListsOK(acceptQueue, acceptWait, acceptInUse, connects, connectInUse, listening)
  <2>1. \A S : <<>> \in Seq(S) /\ ToSet(<<>>) = {} /\ IsInjective(<<>>)
    BY DEF ToSet, IsInjective
  <2>2. QED
    BY <1>1, <2>1 DEF ListsOK, Apart
<1>3. ASSUME NEW x \in Conns
      PROVE  ObjectIs(x, conn[x], packets, disp, told[x], acceptWait, acceptInUse, connectInUse)
  <2>1. conn[x] = NewConnect /\ told[x] = {}
    BY <1>1
  <2>2. Clean(NewConnect) /\ NewConnect.failed = {} /\ NewConnect.out = <<>>
    BY DEF NewConnect, Clean, Unused, Only, Ops
  <2>3. \A s : ~Has(<<>>, x, s)
    BY DEF Has
  <2>4. Ordered(<<>>, x)
    BY DEF Ordered
  <2>5. Idle.conn # x
    BY PoolAssumption DEF Idle
  <2>6. Untold({})
    BY DEF Untold, Holds, Opened
  <2>7. IsFree(x, NewConnect, <<>>, Idle, {})
    BY <2>2, <2>3, <2>5, <2>6 DEF IsFree, Away
  <2>8. QED
    BY <1>1, <2>1, <2>2, <2>4, <2>7 DEF ObjectIs
<1>4. QED
  BY <1>1, <1>2, <1>3 DEF PoolInv, Objects, DispOK

(* Every step of every thread. *)
LEMMA NextPool ==
  ASSUME Usual, IInv, PoolInv, [Next]_vars
  PROVE  StepOK
<1>1. /\ "closeEarly" \notin Allow /\ "setTwice" \notin Allow /\ "firstRecv" \notin Allow
      /\ Allow \subseteq {"sendPost", "disconnectErr", "acceptPost"}
  BY DEF Usual
<1>2. CASE Listen
  BY <1>2, ListenOK
<1>3. CASE User
  <2>1. CASE ConnectTo
    BY <2>1, ConnectToOK
  <2>2. CASE \E c \in Conns : UserSetCallback(c) \/ UserSend(c) \/ UserClose(c)
    BY <1>1, <2>2, UserSetCallbackOK, UserSendOK, UserCloseOK
  <2>3. QED
    BY <1>3, <2>1, <2>2 DEF User
<1>4. CASE \E c \in Conns : PeerClose(c)
  BY <1>4, NothingMoves DEF PeerClose
<1>5. CASE Completion
  BY <1>1, <1>5, CompletionOK
<1>6. CASE Dispatcher
  BY <1>1, <1>6, DispatchDataOK, DispatchAcceptOK, OnIOCPAcceptOK, DispatchConnectOK, DispatchCloseOK,
     IOCPCloseOK, DispatchReuseOK DEF Dispatcher
<1>7. CASE UNCHANGED vars
  BY <1>7, NothingMoves DEF vars
<1>8. QED
  BY <1>2, <1>3, <1>4, <1>5, <1>6, <1>7 DEF Next

(* Each object is in the stage its list says, at every moment of every run, for every *)
(* number of objects.                                                                 *)
THEOREM PoolInvariance ==
  ASSUME Usual
  PROVE  Spec => []PoolInv
<1>1. IInv /\ PoolInv /\ [Next]_vars => PoolInv'
  BY NextPool DEF StepOK
<1>2. QED
  BY <1>1, InitPool, Invariance, PTL DEF Spec

(* An object is owed two operations at most, a send and a receive. *)
LEMMA FewOutstanding ==
  ASSUME NEW c, NEW r, NEW p, NEW d, NEW t, NEW w, NEW u, NEW k,
         ObjectIs(c, r, p, d, t, w, u, k), Sound(r)
  PROVE  r.iocpref \in 0..2
<1>1. Only(r, {}) \/ Only(r, {"ACCEPT"}) \/ Only(r, {"DISCONNECT"}) \/ Only(r, {"CONNECT"})
      \/ Only(r, {"SEND", "RECV"})
  BY DEF ObjectIs, IsFree, Waits, Used, ConnectUsed, AtClose, Talks, InSession, Serving,
         Clean, Waiting, Disconnecting, Connecting
<1>2. r.iocpref = Busy(r, "ACCEPT") + Busy(r, "CONNECT") + Busy(r, "SEND") + Busy(r, "RECV")
                    + Busy(r, "DISCONNECT")
  BY DEF Sound, Counted, Outstanding, ObjectIs
<1>3. \A op \in Ops : Busy(r, op) \in {0, 1} /\ (r.io[op] = "idle" => Busy(r, op) = 0)
  BY DEF Busy
<1>4. QED
  BY <1>1, <1>2, <1>3 DEF Only, Ops

(* None of the modelled Assertions of Connect.cpp and IOCP.cpp fails, whatever the     *)
(* interleaving of users, network and threads, in the instances that are Usual: the   *)
(* user closes an outgoing connection only once it is connected and sets a callback   *)
(* once, no peer is forbidden, and AcceptEx completes without error, its socket is    *)
(* bound and the first receive of a session is posted.                                *)
THEOREM AssertionsNeverFail ==
  ASSUME Usual
  PROVE  Spec => []AssertionsHold
<1>1. IInv /\ PoolInv => AssertionsHold
  <2> SUFFICES ASSUME IInv, PoolInv, NEW c \in Conns
               PROVE  conn[c].failed = {} /\ conn[c].iocpref \in 0..3
    BY DEF AssertionsHold, Running
  <2>1. ObjectIs(c, conn[c], packets, disp, told[c], acceptWait, acceptInUse, connectInUse) /\ Sound(conn[c])
    BY DEF PoolInv, Objects, IInv
  <2>2. conn[c].iocpref \in 0..2
    BY <2>1, FewOutstanding
  <2>3. QED
    BY <2>1, <2>2 DEF ObjectIs
<1>2. QED
  BY <1>1, PoolInvariance, Invariance, PTL

(* The step, in the words of the property. *)
LEMMA ClosedStep ==
  ASSUME StepOK
  PROVE  \A c \in Conns :
           conn[c].status = "INVALID" /\ conn'[c].status # "INVALID" =>
             \/ conn[c].io["ACCEPT"] = "posted" /\ conn'[c].io["ACCEPT"] = "idle"
             \/ c \in connectInUse' \ connectInUse
  BY DEF StepOK, StaysClosed

(* A connection that is closed is not revived by a late call of a user or of the dispatcher. *)
THEOREM ClosedStaysClosedHolds ==
  ASSUME Usual
  PROVE  Spec => ClosedStaysClosed
<1>1. IInv /\ PoolInv /\ [Next]_vars =>
        [\A c \in Conns :
           conn[c].status = "INVALID" /\ conn'[c].status # "INVALID" =>
             \/ conn[c].io["ACCEPT"] = "posted" /\ conn'[c].io["ACCEPT"] = "idle"
             \/ c \in connectInUse' \ connectInUse]_vars
  BY NextPool, ClosedStep
<1>2. QED
  BY <1>1, PoolInvariance, Invariance, PTL DEF Spec, ClosedStaysClosed

(* The step, in the words of the property. *)
LEMMA StaleStep ==
  ASSUME StepOK, IInv'
  PROVE  \A c \in (acceptWait' \ acceptWait) \cup (connectInUse' \ connectInUse) :
           \A i \in DOMAIN packets' : packets'[i].conn # c
<1>1. SUFFICES ASSUME NEW c \in (acceptWait' \ acceptWait) \cup (connectInUse' \ connectInUse),
                      NEW i \in DOMAIN packets'
               PROVE  packets'[i].conn # c
  OBVIOUS
<1>2. ~Has(packets', c, PacketTypes)
  BY DEF StepOK, StartsAlone
<1>3. packets' \in Seq(Packet) /\ i \in 1..Len(packets')
  BY DEF IInv
<1>4. packets'[i] \in Packet
  BY <1>3
<1>5. packets'[i].type \in PacketTypes
  BY <1>4 DEF Packet
<1>6. QED
  BY <1>2, <1>3, <1>5 DEF Has

(* No packet outlives the session it was made in. *)
THEOREM NoStalePacketHolds ==
  ASSUME Usual
  PROVE  Spec => NoStalePacket
<1>1. IInv /\ IInv' /\ PoolInv /\ [Next]_vars =>
        [\A c \in (acceptWait' \ acceptWait) \cup (connectInUse' \ connectInUse) :
           \A i \in DOMAIN packets' : packets'[i].conn # c]_vars
  BY NextPool, StaleStep
<1>2. QED
  BY <1>1, PoolInvariance, Invariance, PTL DEF Spec, NoStalePacket

-----------------------------------------------------------------------------
(* What the invariant says.                                                 *)

(* A packet of the queue is seen by Has. *)
LEMMA QueuedIsHad ==
  ASSUME packets \in Seq(Packet), NEW i \in DOMAIN packets
  PROVE  /\ packets[i].conn \in Conns /\ packets[i].type \in PacketTypes /\ i \in 1..Len(packets)
         /\ \A s : packets[i].type \in s => Has(packets, packets[i].conn, s)
<1>1. i \in 1..Len(packets)
  OBVIOUS
<1>2. packets[i] \in Packet
  OBVIOUS
<1>3. QED
  BY <1>1, <1>2 DEF Packet, Has

(* The close packet of an object. *)
LEMMA ClosedTalks ==
  ASSUME NEW c, NEW r, NEW p, NEW d, NEW t, NEW w, NEW u, NEW k,
         ObjectIs(c, r, p, d, t, w, u, k), Has(p, c, ClosePackets)
  PROVE  Talks(c, r, p, t)
<1>1. Has(p, c, PacketTypes) /\ Has(p, c, PacketTypes \ {"SOCKET_REUSE"})
  BY DEF Has, ClosePackets, PacketTypes
<1>2. QED
  BY <1>1 DEF ObjectIs, IsFree, Waits, Used, ConnectUsed, AtClose, Away

(* A close packet, or the close under way, is the last there is of an object. *)
LEMMA PoolCloseIsLast ==
  ASSUME IInv, PoolInv
  PROVE  CloseIsLast
<1>1. packets \in Seq(Packet)
  BY DEF IInv
<1>2. \A x \in Conns : ObjectIs(x, conn[x], packets, disp, told[x], acceptWait, acceptInUse, connectInUse)
  BY DEF PoolInv, Objects
<1>3. ASSUME NEW i \in DOMAIN packets, packets[i].type \in ClosePackets
      PROVE  /\ conn[packets[i].conn].iocpref = 0 /\ conn[packets[i].conn].status = "INVALID"
             /\ \A j \in DOMAIN packets : j > i => packets[j].conn # packets[i].conn
  <2> DEFINE c == packets[i].conn
  <2>1. c \in Conns /\ i \in 1..Len(packets) /\ Has(packets, c, ClosePackets)
    BY <1>1, <1>3, QueuedIsHad
  <2>2. ObjectIs(c, conn[c], packets, disp, told[c], acceptWait, acceptInUse, connectInUse)
    BY <1>2, <2>1
  <2>3. Ordered(packets, c)
    BY <2>2 DEF ObjectIs
  <2> HIDE DEF c
  <2>4. Talks(c, conn[c], packets, told[c])
    BY <2>1, <2>2, ClosedTalks
  <2>5. Done(conn[c])
    BY <2>1, <2>4 DEF Talks
  <2>6. ASSUME NEW j \in DOMAIN packets, j > i, packets[j].conn = c PROVE FALSE
    <3>1. j \in 1..Len(packets)
      BY <1>1
    <3>2. packets[i].type \in LastPackets
      BY <1>3 DEF LastPackets
    <3>3. QED
      BY <2>1, <2>3, <2>6, <3>1, <3>2 DEF Ordered, c
  <2>7. QED
    BY <2>5, <2>6 DEF Done, c
<1>4. ASSUME disp.at = "IOCPClose"
      PROVE  /\ conn[disp.conn].iocpref = 0 /\ conn[disp.conn].status = "INVALID"
             /\ \A i \in DOMAIN packets : packets[i].conn # disp.conn
  <2>1. disp.conn \in Conns
    BY <1>4 DEF IInv
  <2>2. AtClose(disp.conn, conn[disp.conn], packets, disp, told[disp.conn])
    BY <1>2, <1>4, <2>1, ClosingStage
  <2>3. Done(conn[disp.conn]) /\ ~Has(packets, disp.conn, PacketTypes)
    BY <2>2 DEF AtClose
  <2>4. \A i \in DOMAIN packets : packets[i].conn # disp.conn
    BY <1>1, <2>3, QueuedIsHad
  <2>5. QED
    BY <2>3, <2>4 DEF Done
<1>5. QED
  BY <1>3, <1>4 DEF CloseIsLast

(* A connection that is up is in a session. *)
LEMMA UpTalks ==
  ASSUME NEW c, NEW r, NEW p, NEW d, NEW t, NEW w, NEW u, NEW k,
         ObjectIs(c, r, p, d, t, w, u, k), r.status \in {"COMMON", "CONNECTING"}
  PROVE  InSession(r)
  BY DEF ObjectIs, IsFree, Waits, Used, ConnectUsed, AtClose, Talks,
         Clean, Waiting, Disconnecting, Connecting, Unused

(* A connection that is up has its receive posted and strands nothing. *)
LEMMA PoolInSession ==
  ASSUME PoolInv
  PROVE  NothingStranded /\ ReceiveArmed
<1>1. ASSUME NEW c \in Conns, conn[c].status \in {"COMMON", "CONNECTING"}
      PROVE  InSession(conn[c])
  <2>1. ObjectIs(c, conn[c], packets, disp, told[c], acceptWait, acceptInUse, connectInUse)
    BY DEF PoolInv, Objects
  <2>2. QED
    BY <1>1, <2>1, UpTalks
<1>2. QED
  BY <1>1 DEF NothingStranded, ReceiveArmed, InSession

(* Objects with the same fields are the same. *)
LEMMA Fields ==
  ASSUME NEW r \in ConnectRecord, NEW n \in ConnectRecord,
         r.status = n.status, r.socket = n.socket, r.bound = n.bound, r.callback = n.callback,
         r.sending = n.sending, r.recving = n.recving, r.packettype = n.packettype,
         r.sendused = n.sendused, r.sendpackets = n.sendpackets, r.closepackets = n.closepackets,
         r.buffered = n.buffered, r.iocpref = n.iocpref, r.io = n.io,
         r.setCallbackTimes = n.setCallbackTimes, r.onConnectTimes = n.onConnectTimes,
         r.out = n.out, r.failed = n.failed
  PROVE  r = n
  BY DEF ConnectRecord

(* A clean object is a new one but for the fields a session leaves. *)
LEMMA CleanIsNew ==
  ASSUME NEW r, Sound(r), Clean(r), r.failed = {}, r.out = <<>>
  PROVE  r = [NewConnect EXCEPT !.socket = r.socket, !.bound = r.bound, !.packettype = r.packettype]
<1> DEFINE n == [NewConnect EXCEPT !.socket = r.socket, !.bound = r.bound, !.packettype = r.packettype]
<1>1. r \in ConnectRecord /\ r.iocpref = 0
  BY CleanIsQuiet DEF Sound
<1>2. NewConnect \in ConnectRecord
  BY NewIsSteady, SteadyIsSound DEF Sound
<1>3. n \in ConnectRecord
  BY <1>1, <1>2 DEF ConnectRecord
<1>4. /\ n.socket = r.socket /\ n.bound = r.bound /\ n.packettype = r.packettype
      /\ n.status = "INVALID" /\ n.callback = FALSE /\ n.sending = FALSE /\ n.recving = FALSE
      /\ n.sendused = 0 /\ n.sendpackets = 0 /\ n.closepackets = 0 /\ n.buffered = 0
      /\ n.iocpref = 0 /\ n.io = [op \in Ops |-> "idle"]
      /\ n.setCallbackTimes = 0 /\ n.onConnectTimes = 0 /\ n.out = <<>> /\ n.failed = {}
  BY DEF NewConnect
<1> HIDE DEF n
<1>5. r.io = [op \in Ops |-> "idle"]
  BY <1>1 DEF Clean, Only, ConnectRecord
<1>6. /\ r.status = "INVALID" /\ r.callback = FALSE /\ r.sending = FALSE /\ r.recving = FALSE
      /\ r.sendused = 0 /\ r.sendpackets = 0 /\ r.closepackets = 0 /\ r.buffered = 0
      /\ r.setCallbackTimes = 0 /\ r.onConnectTimes = 0
  BY <1>1 DEF Clean, Unused, ConnectRecord
<1>7. r = n
  BY <1>1, <1>3, <1>4, <1>5, <1>6, Fields
<1>8. QED
  BY <1>7 DEF n

(* An object in a free list is in no other. *)
LEMMA ListedIsFree ==
  ASSUME IInv, PoolInv, NEW c \in ToSet(acceptQueue) \cup ToSet(connects)
  PROVE  /\ c \in Conns /\ c \notin acceptWait \cup acceptInUse \cup connectInUse
         /\ IsFree(c, conn[c], packets, disp, told[c])
<1>1. /\ acceptQueue \in Seq(Clients) /\ connects \in Seq(Outs)
      /\ ToSet(acceptQueue) \cap (acceptWait \cup acceptInUse) = {} /\ ToSet(connects) \cap connectInUse = {}
      /\ acceptWait \subseteq Clients /\ acceptInUse \subseteq Clients /\ connectInUse \subseteq Outs
  BY DEF PoolInv, ListsOK, Apart
<1>2. ToSet(acceptQueue) \subseteq Clients /\ ToSet(connects) \subseteq Outs
  BY <1>1 DEF ToSet
<1>3. c \in Conns /\ c \notin acceptWait \cup acceptInUse \cup connectInUse
  BY <1>1, <1>2, PoolAssumption DEF Conns
<1>4. ObjectIs(c, conn[c], packets, disp, told[c], acceptWait, acceptInUse, connectInUse)
  BY <1>3 DEF PoolInv, Objects
<1>5. QED
  BY <1>3, <1>4 DEF ObjectIs

(* A free object carries nothing over. *)
LEMMA PoolFreeIsClean ==
  ASSUME IInv, PoolInv
  PROVE  FreeIsClean
<1>1. SUFFICES ASSUME NEW c \in ToSet(acceptQueue) \cup ToSet(connects)
      PROVE  /\ conn[c] = [NewConnect EXCEPT !.socket = conn[c].socket, !.bound = conn[c].bound,
                                             !.packettype = conn[c].packettype]
             /\ \A i \in DOMAIN packets : packets[i].conn # c
  BY DEF FreeIsClean
<1>2. c \in Conns /\ IsFree(c, conn[c], packets, disp, told[c])
  BY ListedIsFree
<1>3. Sound(conn[c]) /\ packets \in Seq(Packet)
  BY <1>2 DEF IInv
<1>4. ObjectIs(c, conn[c], packets, disp, told[c], acceptWait, acceptInUse, connectInUse)
  BY <1>2 DEF PoolInv, Objects
<1>5. Clean(conn[c]) /\ conn[c].failed = {} /\ conn[c].out = <<>> /\ ~Has(packets, c, PacketTypes)
  BY <1>2, <1>4 DEF IsFree, Away, ObjectIs
<1>6. \A i \in DOMAIN packets : packets[i].conn # c
  BY <1>3, <1>5, QueuedIsHad
<1>7. QED
  BY <1>3, <1>5, <1>6, CleanIsNew

(* An object is in one list, once. *)
LEMMA PoolListsApart ==
  ASSUME PoolInv, NEW c \in Conns
  PROVE  Cardinality({i \in DOMAIN acceptQueue : acceptQueue[i] = c})
           + Cardinality({i \in DOMAIN connects : connects[i] = c})
           + Cardinality({l \in {1, 2, 3} : c \in <<acceptWait, acceptInUse, connectInUse>>[l]}) <= 1
<1> DEFINE a == Cardinality({i \in DOMAIN acceptQueue : acceptQueue[i] = c})
           b == Cardinality({i \in DOMAIN connects : connects[i] = c})
           L == {l \in {1, 2, 3} : c \in <<acceptWait, acceptInUse, connectInUse>>[l]}
<1>1. /\ acceptQueue \in Seq(Clients) /\ IsInjective(acceptQueue)
      /\ connects \in Seq(Outs) /\ IsInjective(connects)
      /\ acceptWait \subseteq Clients /\ acceptInUse \subseteq Clients /\ acceptWait \cap acceptInUse = {}
      /\ connectInUse \subseteq Outs
      /\ ToSet(acceptQueue) \cap (acceptWait \cup acceptInUse) = {} /\ ToSet(connects) \cap connectInUse = {}
  BY DEF PoolInv, ListsOK, Apart
<1>2. ToSet(acceptQueue) \subseteq Clients /\ ToSet(connects) \subseteq Outs /\ Clients \cap Outs = {}
  BY <1>1, PoolAssumption DEF ToSet
<1>3. /\ c \in ToSet(acceptQueue) => a = 1
      /\ c \notin ToSet(acceptQueue) => a = 0
  BY <1>1, CountedOnce
<1>4. /\ c \in ToSet(connects) => b = 1
      /\ c \notin ToSet(connects) => b = 0
  BY <1>1, CountedOnce
<1> HIDE DEF a, b
<1>5. CASE c \in acceptWait
  <2>1. L = {1}
    BY <1>1, <1>2, <1>5
  <2>2. Cardinality(L) = 1
    BY <2>1, FS_Singleton
  <2>3. a = 0 /\ b = 0
    BY <1>1, <1>2, <1>3, <1>4, <1>5
  <2> HIDE DEF L
  <2>4. QED
    BY <2>2, <2>3 DEF a, b, L
<1>6. CASE c \in acceptInUse
  <2>1. L = {2}
    BY <1>1, <1>2, <1>6
  <2>2. Cardinality(L) = 1
    BY <2>1, FS_Singleton
  <2>3. a = 0 /\ b = 0
    BY <1>1, <1>2, <1>3, <1>4, <1>6
  <2> HIDE DEF L
  <2>4. QED
    BY <2>2, <2>3 DEF a, b, L
<1>7. CASE c \in connectInUse
  <2>1. L = {3}
    BY <1>1, <1>2, <1>7
  <2>2. Cardinality(L) = 1
    BY <2>1, FS_Singleton
  <2>3. a = 0 /\ b = 0
    BY <1>1, <1>2, <1>3, <1>4, <1>7
  <2> HIDE DEF L
  <2>4. QED
    BY <2>2, <2>3 DEF a, b, L
<1>8. CASE c \notin acceptWait \cup acceptInUse \cup connectInUse
  <2>1. L = {}
    BY <1>8
  <2>2. Cardinality(L) = 0
    BY <2>1, FS_EmptySet
  <2>3. a + b <= 1
    BY <1>2, <1>3, <1>4
  <2>4. a \in Int /\ b \in Int
    BY <1>3, <1>4
  <2> HIDE DEF L
  <2>5. QED
    BY <2>2, <2>3, <2>4 DEF a, b, L
<1>9. QED
  BY <1>5, <1>6, <1>7, <1>8

(* Only an object that waits for a client has an ACCEPT packet. *)
LEMMA AcceptedWaits ==
  ASSUME NEW c \in Clients, NEW r, NEW p, NEW d, NEW t, NEW w, NEW u, NEW k,
         ObjectIs(c, r, p, d, t, w, u, k), k \subseteq Outs, Has(p, c, {"ACCEPT"})
  PROVE  c \in w
<1>1. Has(p, c, PacketTypes) /\ Has(p, c, FirstPackets) /\ Has(p, c, PacketTypes \ {"SOCKET_REUSE"})
  BY DEF Has, PacketTypes, FirstPackets
<1>2. c \notin k
  BY PoolAssumption
<1>3. QED
  BY <1>1, <1>2 DEF ObjectIs, IsFree, Used, AtClose, Away

(* An object waits for a client exactly while its acceptance is under way. *)
LEMMA PoolListsAgree ==
  ASSUME IInv, PoolInv
  PROVE  ListsAgree
<1>1. ASSUME NEW c \in Clients
      PROVE  c \in acceptWait <=>
               \/ conn[c].io["ACCEPT"] # "idle"
               \/ \E i \in DOMAIN packets : packets[i].type = "ACCEPT" /\ packets[i].conn = c
               \/ disp = [at |-> "OnIOCPAccept", conn |-> c]
  <2>1. ObjectIs(c, conn[c], packets, disp, told[c], acceptWait, acceptInUse, connectInUse)
    BY DEF PoolInv, Objects, Conns
  <2>2. connectInUse \subseteq Outs /\ packets \in Seq(Packet) /\ c \in Conns
    BY DEF PoolInv, ListsOK, Apart, IInv, Conns
  <2>3. Has(packets, c, {"ACCEPT"}) <=>
          \E i \in DOMAIN packets : packets[i].type = "ACCEPT" /\ packets[i].conn = c
    BY <2>2 DEF Has
  <2>4. disp.at = "OnIOCPAccept" /\ disp.conn = c <=> disp = [at |-> "OnIOCPAccept", conn |-> c]
    BY <2>2 DEF PoolInv, DispOK, Idle
  <2>5. ASSUME c \in acceptWait
        PROVE  \/ conn[c].io["ACCEPT"] # "idle" \/ Has(packets, c, {"ACCEPT"})
               \/ disp.at = "OnIOCPAccept" /\ disp.conn = c
    BY <2>1, <2>5 DEF ObjectIs, Waits, Waiting
  <2>6. conn[c].io["ACCEPT"] # "idle" => c \in acceptWait
    BY <2>1, AcceptingWaits
  <2>7. Has(packets, c, {"ACCEPT"}) => c \in acceptWait
    BY <2>1, <2>2, AcceptedWaits
  <2>8. disp.at = "OnIOCPAccept" /\ disp.conn = c => c \in acceptWait
    BY <2>1, <2>2, AcceptingStage
  <2>9. QED
    BY <2>3, <2>4, <2>5, <2>6, <2>7, <2>8
<1>2. QED
  BY <1>1, PoolListsApart DEF ListsAgree

(* A close packet is the last word of a session: nothing is outstanding, nothing follows. *)
THEOREM CloseIsLastHolds ==
  ASSUME Usual
  PROVE  Spec => []CloseIsLast
<1>1. IInv /\ PoolInv => CloseIsLast
  BY PoolCloseIsLast
<1>2. QED
  BY <1>1, PoolInvariance, Invariance, PTL

(* A connection the user has been told of always has a receive posted. *)
THEOREM ReceiveArmedHolds ==
  ASSUME Usual
  PROVE  Spec => []ReceiveArmed
<1>1. IInv /\ PoolInv => ReceiveArmed
  BY PoolInSession
<1>2. QED
  BY <1>1, PoolInvariance, Invariance, PTL

(* While a connection is up, data that waits has a send in flight. *)
THEOREM NothingStrandedHolds ==
  ASSUME Usual
  PROVE  Spec => []NothingStranded
<1>1. IInv /\ PoolInv => NothingStranded
  BY PoolInSession
<1>2. QED
  BY <1>1, PoolInvariance, Invariance, PTL

(* An object in a free list carries nothing over from its last session. *)
THEOREM FreeIsCleanHolds ==
  ASSUME Usual
  PROVE  Spec => []FreeIsClean
<1>1. IInv /\ PoolInv => FreeIsClean
  BY PoolFreeIsClean
<1>2. QED
  BY <1>1, PoolInvariance, Invariance, PTL

(* CIOCP has each object in one list at most, and the one its state calls for. *)
THEOREM ListsAgreeHolds ==
  ASSUME Usual
  PROVE  Spec => []ListsAgree
<1>1. IInv /\ PoolInv => ListsAgree
  BY PoolListsAgree
<1>2. QED
  BY <1>1, PoolInvariance, Invariance, PTL

(* The connection below the object is one of three. *)
NetOK == net \in [Conns -> {"none", "open", "closed"}]

(* Every step keeps it so. *)
LEMMA NetStep == NetOK /\ IInv /\ [Next]_vars => NetOK'
<1> SUFFICES ASSUME NetOK, IInv, [Next]_vars PROVE NetOK'
  OBVIOUS
<1> DEFINE NetMoves == \E c, s : s \in {"none", "open", "closed"} /\ net' = [net EXCEPT ![c] = s]
<1>1. vars' = vars => net' = net
  BY DEF vars
<1>2. ASSUME Dispatcher PROVE net' = net \/ NetMoves
  BY <1>2, Zenon DEF Dispatcher, DispatchData, DispatchAccept, OnIOCPAccept, DispatchConnect,
              DispatchClose, IOCPClose, DispatchReuse
<1>3. Completion => net' = net \/ NetMoves
  BY DEF Completion, IocpRecv, IocpSend, IocpConnect, IocpAccept, IocpDisconnect, IocpClose
<1>4. (\E c \in Conns : PeerClose(c)) => NetMoves
  BY DEF PeerClose
<1>5. Listen \/ User => net' = net \/ NetMoves
  BY DEF Listen, User, ConnectTo, UserSetCallback, UserSend, UserClose
<1>6. net' = net \/ NetMoves
  BY <1>1, <1>2, <1>3, <1>4, <1>5 DEF Next
<1> QED
  BY <1>6 DEF NetOK

(* Every variable holds what its declaration allows. *)
THEOREM Typing ==
  ASSUME Usual
  PROVE  Spec => []TypeOK
<1>1. Init => NetOK
  BY DEF Init, NetOK
<1>2. IInv /\ PoolInv /\ NetOK => TypeOK
  <2> SUFFICES ASSUME IInv, PoolInv, NetOK PROVE TypeOK
    OBVIOUS
  <2>1. conn \in [Conns -> ConnectRecord] /\ packets \in Seq([type : PacketTypes, conn : Conns])
    BY DEF IInv, Packet
  <2>2. disp \in [at : {"idle", "OnIOCPAccept", "IOCPClose"}, conn : Conns \cup {NoConn}]
    BY DEF PoolInv, DispOK, Idle
  <2>3. /\ listening \in BOOLEAN /\ acceptQueue \in Seq(Clients) /\ acceptWait \subseteq Clients
        /\ acceptInUse \subseteq Clients /\ connects \in Seq(Outs) /\ connectInUse \subseteq Outs
    BY DEF PoolInv, ListsOK, Apart
  <2>4. told \in [Conns -> SUBSET ({"OnAccept", "Connect", "OnConnect", "OnMsg", "Close",
                                    "CloseSending"} \cup CloseWords)]
    BY DEF PoolInv, Words
  <2>5. QED
    BY <2>1, <2>2, <2>3, <2>4 DEF TypeOK, NetOK
<1>3. QED
  BY <1>1, <1>2, NetStep, PoolInvariance, Invariance, PTL DEF Spec

-----------------------------------------------------------------------------
(* The sessions of Session.tla.                                             *)

(* What was said of the end of an object's last session (the argument t is told[c]) and the *)
(* connection n below it: an accepted object in use that nobody holds was reported closed,  *)
(* and while the dispatcher is not closing it, it was reported once and has no connection,  *)
(* so that its next close is its last.                                                      *)
Ending(c, d, t, n, w, u) ==
  /\ Holds(t) \/ c \in w => t \cap CloseWords = {}
  /\ "PoolOnClose" \notin t => t \cap CloseWords = {}
  /\ "PoolOnCloseOften" \notin t /\ "OnCloseAgain" \notin t
  /\ c \in u /\ ~Holds(t) => "PoolOnClose" \in t
  /\ c \in u /\ ~Holds(t) /\ d.conn # c => "PoolOnCloseAgain" \notin t /\ n = "none"
  /\ c \in u /\ "PoolOnCloseAgain" \in t => n = "none"

EndsInv == \A x \in Conns : Ending(x, disp, told[x], net[x], acceptWait, acceptInUse)

(* The variables of Session.tla. *)
phases   == [c \in Conns |-> UserPhase(c)]
heards   == [c \in Conns |-> "OnMsg" \in told[c]]
closings == [c \in Conns |-> told[c] \cap CloseWords]

(* What the proofs of the steps show. *)
EndsOK == EndsInv' /\ [UserView!Next]_(UserView!vars)

(* UserPhase, from what was told. *)
PhaseOf(t) ==
  IF "OnConnect" \in t THEN "open" ELSE
  IF Holds(t) THEN "offered" ELSE
  IF "PoolOnClose" \in t THEN "ended" ELSE "idle"

(* It is that, before and after a step. *)
LEMMA PhaseIs ==
  \A c \in Conns : UserPhase(c) = PhaseOf(told[c]) /\ UserPhase(c)' = PhaseOf(told'[c])
<1>1. ASSUME NEW c \in Conns PROVE UserPhase(c) = PhaseOf(told[c])
  BY DEF UserPhase, PhaseOf, Held, Holds
<1>2. ASSUME NEW c \in Conns PROVE UserPhase(c)' = PhaseOf(told'[c])
  BY DEF UserPhase, PhaseOf, Held, Holds
<1>3. QED
  BY <1>1, <1>2

(* No session is under way when the library is started. *)
LEMMA InitSession == Init => EndsInv /\ UserView!Init
<1> SUFFICES ASSUME Init PROVE EndsInv /\ UserView!Init
  OBVIOUS
<1>1. (\A c \in Conns : told[c] = {}) /\ acceptWait = {} /\ acceptInUse = {}
  BY DEF Init
<1>2. \A c \in Conns : UserPhase(c) = "idle" /\ ("OnMsg" \in told[c]) = FALSE
                       /\ told[c] \cap CloseWords = {}
  BY <1>1, PhaseIs DEF PhaseOf, Holds
<1>3. EndsInv
  BY <1>1 DEF EndsInv, Ending, Holds
<1>4. QED
  BY <1>2, <1>3 DEF UserView!Init

(* A step in which nothing is unsaid and no close is reported. *)
LEMMA GrowingStep ==
  ASSUME StepOK, EndsInv',
         \A x \in Conns : told[x] \subseteq told'[x] /\ told'[x] \cap CloseWords = told[x] \cap CloseWords
  PROVE  [UserView!Next]_(UserView!vars)
<1>1. closings' = closings
  BY DEF closings
<1>2. CASE Conns = {}
  <2>1. phases' = phases /\ heards' = heards
    BY <1>2 DEF phases, heards
  <2>2. QED
    BY <1>1, <2>1 DEF UserView!vars, phases, heards, closings
<1>3. CASE Conns # {}
  <2>1. PICK c \in Conns : /\ Moves(told[c], told'[c])
                           /\ \A x \in Conns \ {c} : SameView(told[x], told'[x])
    BY <1>3 DEF StepOK, SessionStep
  <2>2. \A x \in Conns : "PoolOnClose" \in told'[x] <=> "PoolOnClose" \in told[x]
    <3>1. "PoolOnClose" \in CloseWords
      BY DEF CloseWords
    <3>2. QED
      BY <3>1
  <2>3. \A x \in Conns : SameView(told[x], told'[x]) =>
          UserPhase(x)' = UserPhase(x) /\ ("OnMsg" \in told'[x]) = ("OnMsg" \in told[x])
    BY <2>2, PhaseIs DEF SameView, PhaseOf
  <2>4. \A s : UserPhase(c)' = s => phases' = [phases EXCEPT ![c] = s]
    BY <2>1, <2>3 DEF phases
  <2>5. \A b \in BOOLEAN : ("OnMsg" \in told'[c]) = b => heards' = [heards EXCEPT ![c] = b]
    BY <2>1, <2>3 DEF heards
  <2>6. /\ UserPhase(c)' = UserPhase(c) => phases' = phases
        /\ ("OnMsg" \in told'[c]) = ("OnMsg" \in told[c]) => heards' = heards
    BY <2>1, <2>3 DEF phases, heards
  <2>7. phases[c] = PhaseOf(told[c]) /\ heards[c] = ("OnMsg" \in told[c])
    BY PhaseIs DEF phases, heards
  <2>8. UserPhase(c)' = PhaseOf(told'[c]) /\ UserPhase(c) = PhaseOf(told[c])
    BY PhaseIs
  <2>9. CASE SameView(told[c], told'[c])
    <3>1. phases' = phases /\ heards' = heards
      BY <2>3, <2>6, <2>9
    <3>2. QED
      BY <1>1, <3>1 DEF UserView!vars, phases, heards, closings
  <2>10. CASE Untold(told[c]) /\ Holds(told'[c]) /\ ~Opened(told'[c])
    <3>1. /\ phases[c] \in {"idle", "ended"} /\ phases' = [phases EXCEPT ![c] = "offered"]
          /\ heards' = heards
      BY <2>4, <2>6, <2>7, <2>8, <2>10 DEF Untold, Opened, PhaseOf
    <3>2. closings' = [closings EXCEPT ![c] = {}]
      <4>1. told'[c] \cap CloseWords = {}
        BY <2>10 DEF EndsInv, Ending
      <4>2. QED
        BY <4>1 DEF closings
    <3>3. UserView!Offer(c)
      BY <3>1, <3>2 DEF UserView!Offer, phases, heards, closings
    <3>4. QED
      BY <3>3 DEF UserView!Next
  <2>11. CASE Holds(told[c]) /\ ~Opened(told[c]) /\ Holds(told'[c]) /\ "OnConnect" \in told'[c]
    <3>1. phases[c] = "offered" /\ ~heards[c] /\ phases' = [phases EXCEPT ![c] = "open"]
      BY <2>4, <2>7, <2>8, <2>11 DEF Opened, PhaseOf
    <3>2. \E h \in BOOLEAN : heards' = [heards EXCEPT ![c] = h]
      <4>1. ("OnMsg" \in told'[c]) \in BOOLEAN
        OBVIOUS
      <4>2. QED
        BY <2>5, <4>1
    <3>3. UserView!Open(c)
      BY <1>1, <3>1, <3>2 DEF UserView!Open, phases, heards, closings
    <3>4. QED
      BY <3>3 DEF UserView!Next
  <2>12. CASE /\ Holds(told[c]) /\ Holds(told'[c])
              /\ "OnConnect" \in told[c] <=> "OnConnect" \in told'[c]
              /\ "OnMsg" \in told'[c]
    <3>1. phases[c] \in {"offered", "open"} /\ phases' = phases
      BY <2>6, <2>7, <2>8, <2>12 DEF PhaseOf
    <3>2. heards' = [heards EXCEPT ![c] = TRUE]
      BY <2>5, <2>12
    <3>3. UserView!Hear(c)
      BY <1>1, <3>1, <3>2 DEF UserView!Hear, phases, heards, closings
    <3>4. QED
      BY <3>3 DEF UserView!Next
  <2>13. ~(Holds(told[c]) /\ Untold(told'[c]))
    BY DEF Untold, Holds
  <2>14. QED
    BY <2>1, <2>9, <2>10, <2>11, <2>12, <2>13 DEF Moves
<1>4. QED
  BY <1>2, <1>3

(* A step that makes objects ready for other sessions. *)
LEMMA RenewStep ==
  ASSUME EndsInv,
         \A x \in Conns : told'[x] = told[x] \/ (Untold(told[x]) /\ told'[x] = {})
  PROVE  [UserView!Next]_(UserView!vars)
<1> DEFINE C == {x \in Conns : phases[x] = "ended" /\ told'[x] = {}}
<1>1. \A x \in Conns : phases[x] = PhaseOf(told[x]) /\ UserPhase(x)' = PhaseOf(told'[x])
  BY PhaseIs DEF phases
<1>2. PhaseOf({}) = "idle"
  BY DEF PhaseOf, Holds
<1>3. \A x \in Conns : UserPhase(x)' = IF x \in C THEN "idle" ELSE phases[x]
  <2>1. \A x \in Conns : Untold(told[x]) => PhaseOf(told[x]) \in {"idle", "ended"}
    BY DEF Untold, Opened, PhaseOf
  <2>2. QED
    BY <1>1, <1>2, <2>1
<1>4. \A x \in Conns : told'[x] \cap CloseWords = IF x \in C THEN {} ELSE told[x] \cap CloseWords
  <2>1. \A x \in Conns : Untold(told[x]) /\ phases[x] # "ended" => told[x] \cap CloseWords = {}
    BY <1>1 DEF Untold, Opened, PhaseOf, EndsInv, Ending
  <2>2. QED
    BY <2>1
<1>5. heards' = heards
  BY DEF heards, Untold, Opened
<1>6. C \in SUBSET {x \in Conns : phases[x] = "ended"}
  OBVIOUS
<1> HIDE DEF C
<1>7. /\ phases' = [x \in Conns |-> IF x \in C THEN "idle" ELSE phases[x]]
      /\ closings' = [x \in Conns |-> IF x \in C THEN {} ELSE closings[x]]
  BY <1>3, <1>4 DEF phases, closings
<1>8. UserView!Renew
  BY <1>5, <1>6, <1>7 DEF UserView!Renew, phases, heards, closings
<1>9. QED
  BY <1>8 DEF UserView!Next

(* An object a step does not concern, or concerns only in what it adds to what was told. *)
LEMMA EndingKept ==
  ASSUME NEW c, NEW d, NEW t, NEW n, NEW w, NEW u, Ending(c, d, t, n, w, u),
         NEW e, NEW h, NEW m, NEW w1, NEW u1,
         h \cap CloseWords = t \cap CloseWords, Holds(h) <=> Holds(t),
         c \in w1 <=> c \in w, c \in u1 <=> c \in u,
         c \notin u \/ ((m = n \/ n # "none") /\ (e.conn # c => d.conn # c))
  PROVE  Ending(c, e, h, m, w1, u1)
<1>1. \A x \in CloseWords : x \in h <=> x \in t
  OBVIOUS
<1>2. {"PoolOnClose", "PoolOnCloseAgain", "PoolOnCloseOften", "OnCloseAgain"} \subseteq CloseWords
  BY DEF CloseWords
<1>3. QED
  BY <1>1, <1>2 DEF Ending

(* What the loop that arms objects tells: those it takes from the queue q start anew. *)
LEMMA ArmedTells ==
  ASSUME NEW cf, NEW S, NEW q \in Seq(S), NEW w \in SUBSET Conns, NEW u, NEW l, Armed(cf, q, w, u, l)
  PROVE  /\ acceptInUse' = u
         /\ \A x \in Conns : /\ x \in acceptWait' \ w => told'[x] = {} /\ x \in ToSet(q)
                             /\ told'[x] = told[x] \/ (x \in ToSet(q) /\ told'[x] = {})
<1>1. PICK k \in 0..Len(q) : \E ok \in [1..k -> Unless("acceptPost")] :
        LET armed == {q[i] : i \in {j \in 1..k : ok[j]}}
            gone  == {q[i] : i \in {j \in 1..k : ~ok[j]}}
        IN  /\ acceptWait' = w \cup armed
            /\ acceptInUse' = u
            /\ told' = [c \in Conns |-> IF c \in armed \cup gone THEN {} ELSE told[c]]
  BY Zenon DEF Armed
<1>2. PICK ok \in [1..k -> Unless("acceptPost")] :
        LET armed == {q[i] : i \in {j \in 1..k : ok[j]}}
            gone  == {q[i] : i \in {j \in 1..k : ~ok[j]}}
        IN  /\ acceptWait' = w \cup armed
            /\ acceptInUse' = u
            /\ told' = [c \in Conns |-> IF c \in armed \cup gone THEN {} ELSE told[c]]
  BY <1>1
<1> DEFINE taken == {q[i] : i \in {j \in 1..k : ok[j]}}
           lost  == {q[i] : i \in {j \in 1..k : ~ok[j]}}
<1>3. taken \subseteq ToSet(q) /\ lost \subseteq ToSet(q)
  BY DEF ToSet
<1>4. /\ acceptWait' = w \cup taken /\ acceptInUse' = u
      /\ told' = [c \in Conns |-> IF c \in taken \cup lost THEN {} ELSE told[c]]
  BY <1>2
<1> HIDE DEF taken, lost
<1>5. QED
  BY <1>3, <1>4

(* A step that starts objects of Q anew, w being the ones that waited before and still do. *)
LEMMA LoopEnds ==
  ASSUME EndsInv, NEW Q, NEW w \in SUBSET acceptWait, acceptInUse' \cap Q = {},
         \A x \in Conns : /\ x \in acceptWait' \ w => told'[x] = {}
                          /\ told'[x] = told[x] \/ (x \in Q /\ told'[x] = {} /\ Untold(told[x])),
         \A x \in acceptInUse' : \/ x \in acceptInUse /\ disp.conn # x /\ net'[x] = net[x]
                                 \/ Holds(told[x])
  PROVE  EndsOK
<1>1. ASSUME NEW x \in Conns
      PROVE  Ending(x, disp', told'[x], net'[x], acceptWait', acceptInUse')
  <2>1. Ending(x, disp, told[x], net[x], acceptWait, acceptInUse)
    BY DEF EndsInv
  <2>2. CASE told'[x] = {} /\ x \notin acceptInUse'
    BY <2>2 DEF Ending
  <2>3. CASE told'[x] = told[x] /\ ~(told'[x] = {} /\ x \notin acceptInUse')
    <3>1. /\ Holds(told'[x]) \/ x \in acceptWait' => told'[x] \cap CloseWords = {}
          /\ "PoolOnClose" \notin told'[x] => told'[x] \cap CloseWords = {}
          /\ "PoolOnCloseOften" \notin told'[x] /\ "OnCloseAgain" \notin told'[x]
      BY <2>1, <2>3 DEF Ending
    <3>2. CASE x \notin acceptInUse'
      BY <3>1, <3>2 DEF Ending
    <3>3. CASE x \in acceptInUse' /\ Holds(told[x])
      <4>1. "PoolOnCloseAgain" \in CloseWords
        BY DEF CloseWords
      <4>2. "PoolOnCloseAgain" \notin told'[x]
        BY <2>3, <3>1, <3>3, <4>1
      <4>3. QED
        BY <2>3, <3>1, <3>3, <4>2 DEF Ending
    <3>4. CASE x \in acceptInUse' /\ x \in acceptInUse /\ disp.conn # x /\ net'[x] = net[x]
      BY <2>1, <2>3, <3>1, <3>4 DEF Ending
    <3>5. QED
      BY <3>2, <3>3, <3>4
  <2>4. QED
    BY <2>2, <2>3
<1>2. EndsInv'
  BY <1>1 DEF EndsInv
<1>3. [UserView!Next]_(UserView!vars)
  BY RenewStep
<1>4. QED
  BY <1>2, <1>3 DEF EndsOK

(* A step that adds a call of the session to what was told of one object, or nothing. *)
LEMMA QuietStep ==
  ASSUME PoolInv, NetOK, EndsInv, StepOK, NEW c \in Conns,
         NEW X \in SUBSET {"OnConnect", "OnMsg", "Close", "CloseSending"},
         told' = [told EXCEPT ![c] = told[c] \cup X],
         acceptWait' = acceptWait, acceptInUse' = acceptInUse, disp' = disp,
         net' = net \/ (c \notin acceptInUse /\ \E s : net' = [net EXCEPT ![c] = s])
           \/ (net[c] # "none" /\ \E s : net' = [net EXCEPT ![c] = s])
  PROVE  EndsOK
<1>1. told \in [Conns -> SUBSET Words]
  BY DEF PoolInv
<1>2. told'[c] = told[c] \cup X /\ \A x \in Conns \ {c} : told'[x] = told[x]
  BY <1>1
<1>3. X \cap CloseWords = {} /\ X \cap {"OnAccept", "Connect"} = {}
  BY DEF CloseWords
<1>4. \A x \in Conns : /\ told[x] \subseteq told'[x] /\ told'[x] \cap CloseWords = told[x] \cap CloseWords
                       /\ Holds(told'[x]) <=> Holds(told[x])
  BY <1>2, <1>3 DEF Holds
<1>5. ASSUME NEW x \in Conns
      PROVE  Ending(x, disp', told'[x], net'[x], acceptWait', acceptInUse')
  <2>1. Ending(x, disp, told[x], net[x], acceptWait, acceptInUse)
    BY DEF EndsInv
  <2>2. x \notin acceptInUse \/ net'[x] = net[x] \/ net[x] # "none"
    <3>1. x # c => net'[x] = net[x]
      BY DEF NetOK
    <3>2. QED
      BY <3>1
  <2>3. /\ x \in acceptWait' <=> x \in acceptWait
        /\ x \in acceptInUse' <=> x \in acceptInUse
        /\ x \notin acceptInUse
             \/ ((net'[x] = net[x] \/ net[x] # "none") /\ (disp'.conn # x => disp.conn # x))
    BY <2>2
  <2>4. told'[x] \cap CloseWords = told[x] \cap CloseWords /\ (Holds(told'[x]) <=> Holds(told[x]))
    BY <1>4
  <2>5. QED
    BY <2>1, <2>3, <2>4, EndingKept
<1>6. EndsInv'
  BY <1>5 DEF EndsInv
<1>7. QED
  BY <1>4, <1>6, GrowingStep DEF EndsOK

(* What the kernel completes, and what the peer does. *)
LEMMA KernelEnds ==
  ASSUME IInv, PoolInv, NetOK, EndsInv, StepOK, Completion \/ \E c \in Conns : PeerClose(c)
  PROVE  EndsOK
<1>1. /\ told' = told /\ disp' = disp /\ UNCHANGED lists
  BY DEF Completion, IocpRecv, IocpSend, IocpConnect, IocpAccept, IocpDisconnect, IocpClose, Completes,
         PeerClose
<1>2. PICK c \in Conns : \/ net' = net
                         \/ c \notin acceptInUse /\ \E s : net' = [net EXCEPT ![c] = s]
                         \/ net[c] # "none" /\ \E s : net' = [net EXCEPT ![c] = s]
  <2>1. ASSUME NEW c \in Conns, PeerClose(c)
        PROVE  net[c] # "none" /\ \E s : net' = [net EXCEPT ![c] = s]
    BY <2>1 DEF PeerClose
  <2>2. ASSUME NEW c \in Conns, IocpConnect(c) \/ IocpAccept(c)
        PROVE  c \notin acceptInUse /\ \E s : net' = [net EXCEPT ![c] = s]
    <3>1. ObjectIs(c, conn[c], packets, disp, told[c], acceptWait, acceptInUse, connectInUse)
      BY DEF PoolInv, Objects
    <3>2. Apart(acceptWait, acceptInUse, connectInUse)
      BY DEF PoolInv, ListsOK
    <3>3. conn[c].io["ACCEPT"] # "idle" \/ conn[c].io["CONNECT"] # "idle"
      BY <2>2 DEF IocpConnect, IocpAccept, Completes, InKernel
    <3>4. c \in acceptWait \/ c \in connectInUse
      BY <3>1, <3>3, AcceptingWaits, ConnectingIsUsed
    <3>5. c \notin acceptInUse
      BY <3>2, <3>4, PoolAssumption DEF Apart
    <3>6. QED
      BY <2>2, <3>5 DEF IocpConnect, IocpAccept
  <2>3. ASSUME NEW c \in Conns, IocpRecv(c) \/ IocpSend(c) \/ IocpDisconnect(c) \/ \E op \in Ops : IocpClose(c, op)
        PROVE  net' = net
    BY <2>3 DEF IocpRecv, IocpSend, IocpDisconnect, IocpClose
  <2>4. QED
    BY <2>1, <2>2, <2>3 DEF Completion
<1>3. told' = [told EXCEPT ![c] = told[c] \cup {}]
  BY <1>1 DEF PoolInv
<1>4. acceptWait' = acceptWait /\ acceptInUse' = acceptInUse /\ disp' = disp
  BY <1>1 DEF lists
<1>5. {} \in SUBSET {"OnConnect", "OnMsg", "Close", "CloseSending"}
  OBVIOUS
<1>6. QED
  BY <1>2, <1>3, <1>4, <1>5, QuietStep

(* What the users do with their connections. *)
LEMMA UserEnds ==
  ASSUME PoolInv, NetOK, EndsInv, StepOK, NEW c \in Conns, UserSetCallback(c) \/ UserSend(c) \/ UserClose(c)
  PROVE  EndsOK
<1>1. disp' = disp /\ net' = net /\ UNCHANGED lists
  BY DEF UserSetCallback, UserSend, UserClose
<1>2. told \in [Conns -> SUBSET Words]
  BY DEF PoolInv
<1>3. PICK X \in SUBSET {"OnConnect", "OnMsg", "Close", "CloseSending"} :
        told' = [told EXCEPT ![c] = told[c] \cup X]
  <2>1. CASE UserSetCallback(c)
    <3> DEFINE X == IF ~Accepted(c) \/ conn[c].status # "CONNECTING"
                      THEN {}
                      ELSE {"OnConnect"} \cup (IF conn[c].buffered = 0 THEN {} ELSE {"OnMsg"})
    <3>1. told' = [told EXCEPT ![c] = told[c] \cup X]
      BY <2>1 DEF UserSetCallback
    <3>2. X \in SUBSET {"OnConnect", "OnMsg", "Close", "CloseSending"}
      OBVIOUS
    <3> HIDE DEF X
    <3>3. QED
      BY <3>1, <3>2
  <2>2. CASE UserSend(c)
    <3>1. told' = [told EXCEPT ![c] = told[c] \cup {}]
      BY <1>2, <2>2 DEF UserSend
    <3>2. {} \in SUBSET {"OnConnect", "OnMsg", "Close", "CloseSending"}
      OBVIOUS
    <3>3. QED
      BY <3>1, <3>2
  <2>3. CASE UserClose(c)
    BY <2>3 DEF UserClose
  <2>4. QED
    BY <2>1, <2>2, <2>3
<1>4. acceptWait' = acceptWait /\ acceptInUse' = acceptInUse
  BY <1>1 DEF lists
<1>5. QED
  BY <1>1, <1>3, <1>4, QuietStep

(* Data and the end of a connect, as the dispatcher delivers them. *)
LEMMA DeliveryEnds ==
  ASSUME IInv, PoolInv, NetOK, EndsInv, StepOK, DispatchData \/ DispatchConnect
  PROVE  EndsOK
<1> DEFINE c == Head(packets).conn
<1>1. disp' = disp /\ net' = net /\ UNCHANGED lists
  BY Zenon DEF DispatchData, DispatchConnect
<1>2. c \in Conns
  <2>1. NextPacket({"DATA"}) \/ NextPacket({"CONNECT"})
    BY Zenon DEF DispatchData, DispatchConnect
  <2>2. {"DATA"} \subseteq PacketTypes /\ {"CONNECT"} \subseteq PacketTypes
    BY DEF PacketTypes
  <2>3. QED
    BY <2>1, <2>2, PoppedIs
<1>3. PICK X \in SUBSET {"OnConnect", "OnMsg", "Close", "CloseSending"} :
        told' = [told EXCEPT ![c] = told[c] \cup X]
  <2>1. CASE DispatchData
    <3> DEFINE X == IF HearsData(conn[c]) THEN {"OnMsg"} ELSE {}
    <3>1. told' = [told EXCEPT ![c] = told[c] \cup X]
      BY <2>1, Zenon DEF DispatchData
    <3>2. X \in SUBSET {"OnConnect", "OnMsg", "Close", "CloseSending"}
      OBVIOUS
    <3> HIDE DEF X
    <3>3. QED
      BY <3>1, <3>2
  <2>2. CASE DispatchConnect
    <3> DEFINE X == IF conn[c].status = "CONNECTING" THEN {"OnConnect"} ELSE {}
    <3>1. told' = [told EXCEPT ![c] = told[c] \cup X]
      BY <2>2, Zenon DEF DispatchConnect
    <3>2. X \in SUBSET {"OnConnect", "OnMsg", "Close", "CloseSending"}
      OBVIOUS
    <3> HIDE DEF X
    <3>3. QED
      BY <3>1, <3>2
  <2>3. QED
    BY <2>1, <2>2
<1>4. acceptWait' = acceptWait /\ acceptInUse' = acceptInUse
  BY <1>1 DEF lists
<1> HIDE DEF c
<1>5. QED
  BY <1>1, <1>2, <1>3, <1>4, QuietStep

(* The offer of an accepted connection, whose object was waiting. *)
LEMMA OfferEnds ==
  ASSUME IInv, PoolInv, EndsInv, StepOK, DispatchAccept
  PROVE  EndsOK
<1> DEFINE c == Head(packets).conn
<1>1. /\ NextPacket({"ACCEPT"}) /\ told' = [told EXCEPT ![c] = told[c] \cup {"OnAccept"}]
      /\ net' = net /\ UNCHANGED lists
  BY Zenon DEF DispatchAccept
<1>2. Head(packets).type = "ACCEPT"
  BY <1>1 DEF NextPacket
<1>3. /\ c \in Conns /\ disp = Idle
      /\ ObjectIs(c, conn[c], packets, disp, told[c], acceptWait, acceptInUse, connectInUse)
      /\ Apart(acceptWait, acceptInUse, connectInUse) /\ told[c] \in SUBSET Words
      /\ Has(packets, c, {"ACCEPT"}) /\ Has(packets, c, PacketTypes)
  <2>1. {"ACCEPT"} \subseteq PacketTypes
    BY DEF PacketTypes
  <2>2. QED
    BY <1>1, <1>2, <2>1, PoppedIs
<1> HIDE DEF c
<1>4. c \in acceptWait /\ c \notin acceptInUse
  <2>1. Has(packets, c, FirstPackets) /\ Has(packets, c, PacketTypes \ {"SOCKET_REUSE"})
    BY <1>3 DEF Has, FirstPackets, PacketTypes
  <2>2. c \in acceptWait
    BY <1>3, <2>1, HeadStage
  <2>3. QED
    BY <1>3, <2>2 DEF Apart
<1>5. told'[c] = told[c] \cup {"OnAccept"} /\ \A x \in Conns \ {c} : told'[x] = told[x]
  BY <1>1, <1>3 DEF PoolInv
<1>6. "OnAccept" \notin CloseWords
  BY DEF CloseWords
<1>7. acceptWait' = acceptWait /\ acceptInUse' = acceptInUse
  BY <1>1 DEF lists
<1>8. \A x \in Conns : disp.conn # x
  BY <1>3, PoolAssumption DEF Idle
<1>9. ASSUME NEW x \in Conns
      PROVE  Ending(x, disp', told'[x], net'[x], acceptWait', acceptInUse')
  <2>1. Ending(x, disp, told[x], net[x], acceptWait, acceptInUse)
    BY DEF EndsInv
  <2>2. CASE x = c
    <3>1. told'[x] \cap CloseWords = {}
      BY <1>4, <1>5, <1>6, <2>1, <2>2 DEF Ending
    <3>2. "PoolOnCloseOften" \in CloseWords /\ "OnCloseAgain" \in CloseWords
      BY DEF CloseWords
    <3>3. QED
      BY <1>4, <1>7, <2>2, <3>1, <3>2 DEF Ending
  <2>3. CASE x # c
    <3>1. told'[x] = told[x] /\ net'[x] = net[x] /\ disp.conn # x
      BY <1>1, <1>5, <1>8, <2>3
    <3>2. QED
      BY <1>7, <2>1, <3>1, EndingKept
  <2>4. QED
    BY <2>2, <2>3
<1>10. EndsInv'
  BY <1>9 DEF EndsInv
<1>11. \A x \in Conns : told[x] \subseteq told'[x] /\ told'[x] \cap CloseWords = told[x] \cap CloseWords
  BY <1>5, <1>6
<1>12. QED
  BY <1>10, <1>11, GrowingStep DEF EndsOK

(* The report of a close: the first of the session, or, for an object nobody holds any more, *)
(* the one after a failed DisconnectEx.                                                      *)
LEMMA CloseEnds ==
  ASSUME IInv, PoolInv, EndsInv, StepOK, DispatchClose
  PROVE  EndsOK
<1>0. PICK c : c = Head(packets).conn
  OBVIOUS
<1> DEFINE r == conn[c]
           t == told[c]
           h == (t \cap CloseWords) \cup {PoolClose(t)} \cup (IF HearsClose(r) THEN {OwnClose(t)} ELSE {})
<1>1. /\ NextPacket(ClosePackets) /\ told' = [told EXCEPT ![c] = h]
      /\ disp' = [at |-> "IOCPClose", conn |-> c] /\ net' = net /\ UNCHANGED lists
  BY <1>0, Zenon DEF DispatchClose
<1>2. Head(packets).type \in ClosePackets
  BY <1>1 DEF NextPacket
<1>3. /\ c \in Conns /\ disp = Idle
      /\ ObjectIs(c, r, packets, disp, t, acceptWait, acceptInUse, connectInUse)
      /\ Apart(acceptWait, acceptInUse, connectInUse)
      /\ Has(packets, c, {Head(packets).type}) /\ Has(packets, c, PacketTypes)
      /\ ~Has(packets, c, {"ACCEPT"})
  <2>1. ClosePackets \subseteq PacketTypes
    BY DEF ClosePackets, PacketTypes
  <2>2. QED
    BY <1>0, <1>1, <1>2, <2>1, PoppedIs DEF ClosePackets
<1>4. Has(packets, c, ClosePackets) /\ Has(packets, c, PacketTypes \ {"SOCKET_REUSE"})
  BY <1>2, <1>3 DEF Has, ClosePackets, PacketTypes
<1>5. told'[c] = h /\ \A x \in Conns \ {c} : told'[x] = told[x]
  BY <1>1, <1>3 DEF PoolInv
<1>6. acceptWait' = acceptWait /\ acceptInUse' = acceptInUse
  BY <1>1 DEF lists
<1>7. Ending(c, disp, t, net[c], acceptWait, acceptInUse)
  BY <1>3 DEF EndsInv
<1>8. \A x \in Conns : disp.conn # x
  BY <1>3, PoolAssumption DEF Idle
<1> HIDE DEF h
<1>9. /\ Talks(c, r, packets, t)
      /\ c \notin acceptWait
      /\ ~Holds(t) => c \in acceptInUse /\ ~r.callback
  <2>1. \/ /\ c \in acceptInUse /\ Talks(c, r, packets, t) /\ (r.callback => Holds(t))
        \/ /\ c \in connectInUse /\ Talks(c, r, packets, t) /\ Holds(t)
    BY <1>3, <1>4, HeadStage
  <2>2. QED
    BY <1>3, <2>1, PoolAssumption DEF Apart
<1>10. Opened(t) => Holds(t) /\ r.onConnectTimes = 1
  BY <1>9 DEF Talks
<1>11. r.onConnectTimes = 1 => r.callback
  BY <1>9 DEF Talks, InSession, OfKind, Serving
<1>12. ASSUME NEW x \in Conns \ {c}
       PROVE  Ending(x, disp', told'[x], net'[x], acceptWait', acceptInUse')
  <2>1. Ending(x, disp, told[x], net[x], acceptWait, acceptInUse)
    BY DEF EndsInv
  <2>2. told'[x] = told[x] /\ net'[x] = net[x] /\ disp.conn # x
    BY <1>1, <1>5, <1>8
  <2>3. QED
    BY <1>6, <2>1, <2>2, EndingKept
<1>13. disp'.conn = c
  BY <1>1
<1>14. \A x \in Conns \ {c} : UserPhase(x)' = UserPhase(x)
  BY <1>5, PhaseIs
<1>15. phases[c] = PhaseOf(t)
  BY <1>3, PhaseIs DEF phases
<1>16. CASE Holds(t)
  <2>1. /\ t \cap CloseWords = {}
        /\ "PoolOnClose" \notin t /\ "PoolOnCloseAgain" \notin t /\ "OnClose" \notin t
    BY <1>7, <1>16 DEF Ending, CloseWords
  <2>2. h = {"PoolOnClose"} \cup IF r.callback THEN {"OnClose"} ELSE {}
    <3>1. PoolClose(t) = "PoolOnClose" /\ OwnClose(t) = "OnClose"
      BY <2>1 DEF PoolClose, OwnClose
    <3>2. QED
      BY <2>1, <3>1 DEF h, HearsClose
  <2>3. /\ ~Holds(h) /\ ~Opened(h) /\ "PoolOnClose" \in h
        /\ "PoolOnCloseAgain" \notin h /\ "PoolOnCloseOften" \notin h /\ "OnCloseAgain" \notin h
        /\ h \cap CloseWords = h
    BY <2>2 DEF Holds, Opened, CloseWords
  <2>4. Ending(c, disp', h, net'[c], acceptWait', acceptInUse')
    BY <1>6, <1>9, <1>13, <2>3 DEF Ending
  <2>5. EndsInv'
    BY <1>5, <1>12, <2>4 DEF EndsInv
  <2>6. UserPhase(c)' = "ended"
    BY <1>3, <1>5, <2>3, PhaseIs DEF PhaseOf, Opened
  <2>7. phases' = [phases EXCEPT ![c] = "ended"]
    BY <1>3, <1>14, <2>6 DEF phases
  <2>8. heards' = [heards EXCEPT ![c] = FALSE]
    <3>1. ("OnMsg" \in told'[c]) = FALSE
      BY <1>5, <2>3 DEF Opened
    <3>2. QED
      BY <1>3, <1>5, <3>1 DEF heards
  <2>9. closings' = [closings EXCEPT ![c] = h]
    BY <1>3, <1>5, <2>3 DEF closings
  <2>10. phases[c] \in {"offered", "open"} /\ (phases[c] = "open" => r.callback)
    BY <1>10, <1>11, <1>15, <1>16 DEF PhaseOf, Opened
  <2>11. \E own \in {{"OnClose"}} \cup (IF phases[c] = "open" THEN {} ELSE {{}}) :
           closings' = [closings EXCEPT ![c] = {"PoolOnClose"} \cup own]
    <3>1. CASE r.callback
      BY <2>2, <2>9, <3>1
    <3>2. CASE ~r.callback
      BY <2>2, <2>9, <2>10, <3>2
    <3>3. QED
      BY <3>1, <3>2
  <2>12. UserView!End(c)
    BY <2>7, <2>8, <2>10, <2>11 DEF UserView!End, phases, heards, closings
  <2>13. QED
    BY <1>3, <2>5, <2>12, Zenon DEF EndsOK, UserView!Next
<1>17. CASE ~Holds(t)
  <2>1. /\ c \in acceptInUse /\ ~r.callback /\ ~Opened(t)
        /\ "PoolOnClose" \in t /\ "PoolOnCloseAgain" \notin t /\ net[c] = "none"
        /\ "PoolOnCloseOften" \notin t /\ "OnCloseAgain" \notin t
    BY <1>3, <1>7, <1>8, <1>9, <1>10, <1>17 DEF Ending
  <2>2. h = (t \cap CloseWords) \cup {"PoolOnCloseAgain"}
    <3>1. PoolClose(t) = "PoolOnCloseAgain"
      BY <2>1 DEF PoolClose
    <3>2. QED
      BY <2>1, <3>1 DEF h, HearsClose
  <2>3. /\ ~Holds(h) /\ ~Opened(h) /\ "PoolOnClose" \in h
        /\ "PoolOnCloseOften" \notin h /\ "OnCloseAgain" \notin h
        /\ h \cap CloseWords = (t \cap CloseWords) \cup {"PoolOnCloseAgain"}
    BY <2>1, <2>2 DEF Holds, Opened, CloseWords
  <2>4. Ending(c, disp', h, net'[c], acceptWait', acceptInUse')
    BY <1>1, <1>6, <1>9, <1>13, <2>1, <2>3 DEF Ending
  <2>5. EndsInv'
    BY <1>5, <1>12, <2>4 DEF EndsInv
  <2>6. UserPhase(c)' = "ended" /\ phases[c] = "ended"
    BY <1>3, <1>5, <1>15, <1>17, <2>1, <2>3, PhaseIs DEF PhaseOf, Opened
  <2>7. phases' = phases
    BY <1>14, <2>6 DEF phases
  <2>8. heards' = heards
    BY <1>5, <2>1, <2>3 DEF heards, Opened
  <2>9. closings' = [closings EXCEPT ![c] = closings[c] \cup {"PoolOnCloseAgain"}]
    BY <1>3, <1>5, <2>3 DEF closings
  <2>10. "PoolOnCloseAgain" \notin closings[c]
    BY <1>3, <2>1 DEF closings
  <2>11. UserView!EndAgain(c)
    BY <2>6, <2>7, <2>8, <2>9, <2>10 DEF UserView!EndAgain, phases, heards, closings
  <2>12. QED
    BY <1>3, <2>5, <2>11, Zenon DEF EndsOK, UserView!Next
<1>18. QED
  BY <1>16, <1>17

(* An object the pool takes back, and the ones that wait for a client because of it. *)
LEMMA DisconnectEnds ==
  ASSUME IInv, PoolInv, EndsInv, NEW cf, NEW c \in Conns, OnIOCPDisConnect(cf, c), Untold(told[c]),
         c \in acceptInUse \cup connectInUse,
         \A x \in Conns \ {c} : net'[x] = net[x] /\ disp.conn # x
  PROVE  EndsOK
<1>1. /\ acceptQueue \in Seq(Clients) /\ IsInjective(acceptQueue)
      /\ Apart(acceptWait, acceptInUse, connectInUse)
      /\ ToSet(acceptQueue) \cap (acceptWait \cup acceptInUse) = {}
      /\ told \in [Conns -> SUBSET Words]
  BY DEF PoolInv, ListsOK
<1>2. CASE Accepted(c)
  <2> DEFINE q == Append(acceptQueue, c)
             u == acceptInUse \ {c}
  <2>1. c \in acceptInUse /\ c \notin ToSet(acceptQueue) /\ c \in Clients
    BY <1>1, <1>2, PoolAssumption DEF Apart, Accepted
  <2>2. q \in Seq(Clients) /\ ToSet(q) = ToSet(acceptQueue) \cup {c}
    BY <1>1, <2>1, AppendNew
  <2>3. \E e : Armed(e, q, acceptWait, u, FALSE)
    BY <1>2, Zenon DEF OnIOCPDisConnect
  <2> HIDE DEF q
  <2>4. acceptWait \in SUBSET Conns
    BY <1>1 DEF Apart, Conns
  <2>5. /\ acceptInUse' = u
        /\ \A x \in Conns : /\ x \in acceptWait' \ acceptWait => told'[x] = {} /\ x \in ToSet(q)
                            /\ told'[x] = told[x] \/ (x \in ToSet(q) /\ told'[x] = {})
    BY <2>2, <2>3, <2>4, ArmedTells
  <2>6. \A x \in ToSet(q) : Untold(told[x])
    BY <2>2, ListedIsFree DEF IsFree
  <2>7. u \cap ToSet(q) = {} /\ u \subseteq Conns \ {c}
    BY <1>1, <2>2 DEF Apart, Conns
  <2> DEFINE Q == ToSet(q)
  <2>8. /\ acceptInUse' \cap Q = {} /\ acceptWait \in SUBSET acceptWait
        /\ \A x \in Conns : /\ x \in acceptWait' \ acceptWait => told'[x] = {}
                            /\ told'[x] = told[x] \/ (x \in Q /\ told'[x] = {} /\ Untold(told[x]))
        /\ \A x \in acceptInUse' : x \in acceptInUse /\ disp.conn # x /\ net'[x] = net[x]
    BY <2>5, <2>6, <2>7
  <2> HIDE DEF Q
  <2>9. QED
    BY <2>8, LoopEnds
<1>3. CASE ~Accepted(c)
  <2>1. told' = told /\ acceptWait' = acceptWait /\ acceptInUse' = acceptInUse
    BY <1>3, Zenon DEF OnIOCPDisConnect
  <2>2. \A x \in acceptInUse : x \in Conns \ {c}
    BY <1>1, <1>3 DEF Apart, Conns, Accepted
  <2>3. /\ acceptInUse' \cap {} = {} /\ acceptWait \in SUBSET acceptWait
        /\ \A x \in Conns : x \notin acceptWait' \ acceptWait /\ told'[x] = told[x]
        /\ \A x \in acceptInUse' : x \in acceptInUse /\ disp.conn # x /\ net'[x] = net[x]
    BY <2>1, <2>2
  <2>4. QED
    BY <2>3, LoopEnds
<1>4. QED
  BY <1>2, <1>3

(* The object of a recycled socket goes back. *)
LEMMA ReuseEnds ==
  ASSUME IInv, PoolInv, EndsInv, DispatchReuse
  PROVE  EndsOK
<1> DEFINE c == Head(packets).conn
<1>1. NextPacket({"SOCKET_REUSE"}) /\ OnIOCPDisConnect(conn, c) /\ net' = net
  BY Zenon DEF DispatchReuse
<1>2. Head(packets).type = "SOCKET_REUSE"
  BY <1>1 DEF NextPacket
<1>3. /\ c \in Conns /\ disp = Idle
      /\ ObjectIs(c, conn[c], packets, disp, told[c], acceptWait, acceptInUse, connectInUse)
      /\ Has(packets, c, {"SOCKET_REUSE"}) /\ Has(packets, c, PacketTypes)
  <2>1. {"SOCKET_REUSE"} \subseteq PacketTypes
    BY DEF PacketTypes
  <2>2. QED
    BY <1>1, <1>2, <2>1, PoppedIs
<1> HIDE DEF c
<1>4. c \in acceptInUse /\ Untold(told[c])
  BY <1>3, HeadStage DEF Talks
<1>5. \A x \in Conns : disp.conn # x
  BY <1>3, PoolAssumption DEF Idle
<1>6. QED
  BY <1>1, <1>3, <1>4, <1>5, DisconnectEnds

(* After the callbacks of a close the object is disconnected, at most once, or goes back. *)
LEMMA ReturnEnds ==
  ASSUME IInv, PoolInv, NetOK, EndsInv, IOCPClose
  PROVE  EndsOK
<1> DEFINE c == disp.conn
<1>1. /\ Running /\ disp.at = "IOCPClose" /\ disp' = Idle /\ net' = [net EXCEPT ![c] = "none"]
  BY Zenon DEF IOCPClose
<1>2. /\ c \in Conns
      /\ ObjectIs(c, conn[c], packets, disp, told[c], acceptWait, acceptInUse, connectInUse)
      /\ Apart(acceptWait, acceptInUse, connectInUse)
  BY <1>1, ReturnFacts
<1>3. c \in acceptInUse \cup connectInUse /\ Untold(told[c])
  BY <1>1, <1>2, ClosingStage DEF AtClose
<1>4. \A x \in Conns \ {c} : net'[x] = net[x] /\ disp.conn # x
  BY <1>1 DEF NetOK
<1>5. \/ \E cf : OnIOCPDisConnect(cf, c)
      \/ Accepted(c) /\ net[c] # "none" /\ UNCHANGED <<lists, told>>
  <2>1. CASE Accepted(c)
    <3>1. PICK posts \in IF net[c] = "none" THEN {FALSE} ELSE BOOLEAN :
            LET r == ReuseClose(conn[c], posts)
            IN  IF posts THEN conn' = [conn EXCEPT ![c] = r] /\ UNCHANGED <<lists, told>>
                         ELSE OnIOCPDisConnect([conn EXCEPT ![c] = TrueClose(r)], c)
      BY <2>1, Zenon DEF IOCPClose
    <3>2. QED
      BY <2>1, <3>1
  <2>2. CASE ~Accepted(c)
    BY <2>2, Zenon DEF IOCPClose
  <2>3. QED
    BY <2>1, <2>2
<1> HIDE DEF c
<1>6. CASE \E cf : OnIOCPDisConnect(cf, c)
  BY <1>2, <1>3, <1>4, <1>6, DisconnectEnds
<1>7. CASE Accepted(c) /\ net[c] # "none" /\ UNCHANGED <<lists, told>>
  <2>1. /\ told' = told /\ acceptWait' = acceptWait /\ acceptInUse' = acceptInUse
        /\ net'[c] = "none"
    BY <1>1, <1>2, <1>7 DEF lists, NetOK
  <2>2. ASSUME NEW x \in Conns \ {c}
        PROVE  Ending(x, disp', told'[x], net'[x], acceptWait', acceptInUse')
    <3>1. Ending(x, disp, told[x], net[x], acceptWait, acceptInUse)
      BY DEF EndsInv
    <3>2. net'[x] = net[x] /\ disp.conn # x
      BY <1>4
    <3>3. QED
      BY <2>1, <3>1, <3>2, EndingKept
  <2>3. Ending(c, disp', told'[c], net'[c], acceptWait', acceptInUse')
    <3>1. Ending(c, disp, told[c], net[c], acceptWait, acceptInUse)
      BY <1>2 DEF EndsInv
    <3>2. c \in acceptInUse => "PoolOnCloseAgain" \notin told[c]
      BY <1>7, <3>1 DEF Ending
    <3>3. QED
      BY <2>1, <3>1, <3>2 DEF Ending
  <2>4. EndsInv'
    BY <2>2, <2>3 DEF EndsInv
  <2>5. \A x \in Conns : told'[x] = told[x]
    BY <2>1
  <2>6. QED
    BY <2>4, <2>5, RenewStep DEF EndsOK
<1>8. QED
  BY <1>5, <1>6, <1>7

(* The offered object moves to the ones in use, and others wait in its place. *)
LEMMA MoveEnds ==
  ASSUME IInv, PoolInv, EndsInv, OnIOCPAccept
  PROVE  EndsOK
<1> DEFINE c == disp.conn
           w == acceptWait \ {c}
           u == acceptInUse \cup {c}
<1>1. /\ Running /\ disp.at = "OnIOCPAccept" /\ net' = net
      /\ \E cf : Armed(cf, acceptQueue, w, u, FALSE)
  BY Zenon DEF OnIOCPAccept
<1>2. /\ c \in Conns
      /\ ObjectIs(c, conn[c], packets, disp, told[c], acceptWait, acceptInUse, connectInUse)
  BY <1>1, ReturnFacts
<1>3. c \in acceptWait /\ Holds(told[c])
  BY <1>1, <1>2, AcceptingStage
<1>4. /\ acceptQueue \in Seq(Clients) /\ acceptWait \subseteq Conns
      /\ ToSet(acceptQueue) \cap (acceptWait \cup acceptInUse) = {}
  BY DEF PoolInv, ListsOK, Apart, Conns
<1>5. w \in SUBSET Conns /\ w \in SUBSET acceptWait /\ u \cap ToSet(acceptQueue) = {}
  BY <1>3, <1>4
<1>6. \A x \in u : x = c \/ (x \in acceptInUse /\ disp.conn # x)
  OBVIOUS
<1> HIDE DEF c, w, u
<1>7. /\ acceptInUse' = u
      /\ \A x \in Conns : /\ x \in acceptWait' \ w => told'[x] = {} /\ x \in ToSet(acceptQueue)
                          /\ told'[x] = told[x] \/ (x \in ToSet(acceptQueue) /\ told'[x] = {})
  BY <1>1, <1>4, <1>5, ArmedTells
<1>8. \A x \in ToSet(acceptQueue) : Untold(told[x])
  BY ListedIsFree DEF IsFree
<1> DEFINE Q == ToSet(acceptQueue)
<1>9. /\ acceptInUse' \cap Q = {}
      /\ \A x \in Conns : /\ x \in acceptWait' \ w => told'[x] = {}
                          /\ told'[x] = told[x] \/ (x \in Q /\ told'[x] = {} /\ Untold(told[x]))
      /\ \A x \in acceptInUse' : (x \in acceptInUse /\ disp.conn # x /\ net'[x] = net[x]) \/ Holds(told[x])
  BY <1>1, <1>3, <1>5, <1>6, <1>7, <1>8
<1> HIDE DEF Q
<1>10. QED
  BY <1>5, <1>9, LoopEnds

(* Listen starts with no object in use. *)
LEMMA ListenEnds ==
  ASSUME IInv, PoolInv, EndsInv, Listen
  PROVE  EndsOK
<1> DEFINE q == SetToSeq(Clients)
<1>1. ~listening /\ net' = net /\ Armed(conn, q, {}, {}, TRUE)
  BY DEF Listen
<1>2. /\ acceptWait = {} /\ acceptInUse = {} /\ connectInUse \subseteq Outs
      /\ Objects(conn, packets, disp, told, acceptWait, acceptInUse, connectInUse)
  BY <1>1 DEF PoolInv, ListsOK, Apart
<1>3. q \in Seq(Clients) /\ ToSet(q) = Clients
  BY PoolAssumption, SetToSeqFacts
<1> HIDE DEF q
<1>4. /\ acceptInUse' = {}
      /\ \A x \in Conns : /\ x \in acceptWait' \ {} => told'[x] = {} /\ x \in ToSet(q)
                          /\ told'[x] = told[x] \/ (x \in ToSet(q) /\ told'[x] = {})
  BY <1>1, <1>3, ArmedTells
<1>5. \A x \in Clients : x \in Conns /\ Untold(told[x])
  BY <1>2, PoolAssumption DEF Objects, ObjectIs, IsFree, Conns
<1>6. /\ acceptInUse' \cap Clients = {} /\ {} \in SUBSET acceptWait
      /\ \A x \in Conns : /\ x \in acceptWait' \ {} => told'[x] = {}
                          /\ told'[x] = told[x] \/ (x \in Clients /\ told'[x] = {} /\ Untold(told[x]))
      /\ \A x \in acceptInUse' : x \in acceptInUse /\ disp.conn # x /\ net'[x] = net[x]
  BY <1>3, <1>4, <1>5
<1>7. QED
  BY <1>6, LoopEnds

(* A Connect begins a session or, where it fails, leaves a new object. *)
LEMMA ConnectEnds ==
  ASSUME IInv, PoolInv, EndsInv, StepOK, ConnectTo
  PROVE  EndsOK
<1> DEFINE q == connects \o SetToSeq(Outs \ (ToSet(connects) \cup connectInUse))
<1>1. PICK c : c = Head(q)
  OBVIOUS
<1>2. /\ q # <<>> /\ net' = net /\ disp' = disp
      /\ acceptWait' = acceptWait /\ acceptInUse' = acceptInUse
      /\ \E h \in {{}, {"Connect"}} : told' = [told EXCEPT ![c] = h]
  BY <1>1 DEF ConnectTo
<1>3. c \in Conns /\ c \notin acceptWait \cup acceptInUse \cup connectInUse
  BY <1>1, <1>2, ConnectTakes
<1> HIDE DEF q
<1>4. PICK h \in {{}, {"Connect"}} : told' = [told EXCEPT ![c] = h]
  BY <1>2
<1>5. told'[c] = h /\ \A x \in Conns \ {c} : told'[x] = told[x]
  BY <1>3, <1>4 DEF PoolInv
<1>6. Untold(told[c])
  BY <1>3 DEF PoolInv, Objects, ObjectIs, IsFree
<1>7. h \cap CloseWords = {} /\ "PoolOnCloseOften" \notin h /\ "OnCloseAgain" \notin h
  BY DEF CloseWords
<1>8. ASSUME NEW x \in Conns
      PROVE  Ending(x, disp', told'[x], net'[x], acceptWait', acceptInUse')
  <2>1. Ending(x, disp, told[x], net[x], acceptWait, acceptInUse)
    BY DEF EndsInv
  <2>2. CASE x = c
    BY <1>2, <1>3, <1>5, <1>7, <2>2 DEF Ending
  <2>3. CASE x # c
    BY <1>2, <1>5, <2>1, <2>3
  <2>4. QED
    BY <2>2, <2>3
<1>9. EndsInv'
  BY <1>8 DEF EndsInv
<1>10. CASE h = {}
  <2>1. \A x \in Conns : told'[x] = told[x] \/ (Untold(told[x]) /\ told'[x] = {})
    BY <1>5, <1>6, <1>10
  <2>2. QED
    BY <1>9, <2>1, RenewStep DEF EndsOK
<1>11. CASE h = {"Connect"}
  <2>1. \A x \in Conns \ {c} : UserPhase(x)' = UserPhase(x)
    BY <1>5, PhaseIs
  <2>2. UserPhase(c)' = "offered" /\ phases[c] \in {"idle", "ended"}
    BY <1>3, <1>5, <1>6, <1>11, PhaseIs DEF phases, PhaseOf, Holds, Untold, Opened
  <2>3. phases' = [phases EXCEPT ![c] = "offered"]
    BY <1>3, <2>1, <2>2 DEF phases
  <2>4. heards' = heards
    <3>1. \A x \in Conns : ("OnMsg" \in told'[x]) = ("OnMsg" \in told[x])
      BY <1>5, <1>6, <1>11 DEF Untold, Opened
    <3>2. QED
      BY <3>1 DEF heards
  <2>5. closings' = [closings EXCEPT ![c] = {}]
    BY <1>3, <1>5, <1>7 DEF closings
  <2>6. UserView!Offer(c)
    BY <2>2, <2>3, <2>4, <2>5 DEF UserView!Offer, phases, heards, closings
  <2>7. QED
    BY <1>3, <1>9, <2>6, Zenon DEF EndsOK, UserView!Next
<1>12. QED
  BY <1>4, <1>10, <1>11

(* A step that does nothing. *)
LEMMA StutterEnds ==
  ASSUME EndsInv, UNCHANGED vars
  PROVE  EndsOK
<1>1. /\ acceptInUse' \cap {} = {} /\ acceptInUse' = acceptInUse /\ acceptWait' = acceptWait
      /\ told' = told /\ disp' = disp /\ net' = net
  BY DEF vars, lists
<1>2. EndsInv'
  BY <1>1 DEF EndsInv, Ending
<1>3. \A x \in Conns : told'[x] = told[x]
  BY <1>1
<1>4. QED
  BY <1>2, <1>3, RenewStep DEF EndsOK

(* Every step of every thread. *)
LEMMA EndsStep ==
  ASSUME Usual, IInv, PoolInv, NetOK, EndsInv, [Next]_vars
  PROVE  EndsOK
<1>1. StepOK
  BY NextPool
<1>2. CASE User
  <2>1. CASE ConnectTo
    BY <1>1, <2>1, ConnectEnds
  <2>2. CASE \E c \in Conns : UserSetCallback(c) \/ UserSend(c) \/ UserClose(c)
    BY <1>1, <2>2, UserEnds
  <2>3. QED
    BY <1>2, <2>1, <2>2 DEF User
<1>3. CASE Dispatcher
  BY <1>1, <1>3, DeliveryEnds, OfferEnds, MoveEnds, CloseEnds, ReturnEnds, ReuseEnds DEF Dispatcher
<1>4. CASE Completion \/ \E c \in Conns : PeerClose(c)
  BY <1>1, <1>4, KernelEnds
<1>5. CASE Listen
  BY <1>5, ListenEnds
<1>6. CASE UNCHANGED vars
  BY <1>6, StutterEnds
<1>7. QED
  BY <1>2, <1>3, <1>4, <1>5, <1>6 DEF Next

(* Session.tla is implemented: for its user every session ends once, with at most one *)
(* OnClose, and the pool is told of an end twice at most, where DisconnectEx fails.   *)
THEOREM SessionsRefined ==
  ASSUME Usual
  PROVE  Spec => SessionSpec
<1>1. Init => NetOK /\ EndsInv /\ UserView!Init
  BY InitSession DEF Init, NetOK
<1>2. /\ IInv /\ PoolInv /\ NetOK /\ EndsInv /\ [Next]_vars
           => NetOK' /\ EndsInv' /\ [UserView!Next]_(UserView!vars)
  BY NetStep, EndsStep DEF EndsOK
<1>3. QED
  BY <1>1, <1>2, PoolInvariance, Invariance, PTL DEF Spec, SessionSpec, UserView!Spec

-----------------------------------------------------------------------------
(* The clients that can wait.                                               *)

(* The loop where AcceptEx is never refused, with every object in some list. *)
LEMMA LoopBacklog ==
  ASSUME "acceptPost" \notin Allow,
         NEW cf, NEW q \in Seq(Clients), IsInjective(q),
         NEW w \in SUBSET Clients, NEW u \in SUBSET Clients, NEW listens \in BOOLEAN,
         ToSet(q) \cap (w \cup u) = {}, Clients \subseteq ToSet(q) \cup w \cup u,
         listens => w = {} /\ Len(q) = Cardinality(Clients),
         Armed(cf, q, w, u, listens)
  PROVE  AcceptBacklog' /\ Clients \subseteq ToSet(acceptQueue') \cup acceptWait' \cup acceptInUse'
<1>0. PICK k \in 0..Len(q) : \E ok \in [1..k -> Unless("acceptPost")] :
        Rounds(q, w, k, ok, listens) /\ LoopLeaves(cf, q, w, u, listens, k, ok)
  BY DEF Armed, LoopLeaves
<1>1. PICK ok \in [1..k -> Unless("acceptPost")] :
        Rounds(q, w, k, ok, listens) /\ LoopLeaves(cf, q, w, u, listens, k, ok)
  BY <1>0
<1> DEFINE armed == {q[i] : i \in 1..k}
           rest  == SubSeq(q, k + 1, Len(q))
           fresh == IF listens THEN {} ELSE Clients \ (ToSet(rest) \cup w \cup armed \cup u)
           n     == Cardinality(w)
<1>2. Len(q) \in Nat /\ k \in Nat /\ k <= Len(q) /\ 1..k \subseteq 1..Len(q) /\ DOMAIN q = 1..Len(q)
      /\ k \in 0..k
  OBVIOUS
<1>3. {j \in 1..k : ok[j]} = 1..k
  BY DEF Unless
<1>4. {q[i] : i \in {j \in 1..k : ok[j]}} = armed
  BY <1>3
<1>5. /\ acceptQueue' = rest \o SetToSeq(fresh) /\ acceptWait' = w \cup armed /\ acceptInUse' = u
  <2> HIDE DEF armed
  <2>1. QED
    BY <1>1, <1>4 DEF LoopLeaves
<1>6. IsFiniteSet(armed) /\ Cardinality(armed) = k /\ armed \subseteq ToSet(q)
  BY <1>2, FirstElements
<1>7. ~Goes(listens, Len(q) - k, n + k)
  <2>1. Cardinality(1..k) = k
    BY <1>2, FS_Interval
  <2>2. \A i \in 0..k :
          i < k <=> Goes(listens, Len(q) - i, Cardinality(w) + Cardinality({j \in 1..i : ok[j]}))
    BY <1>1 DEF Rounds
  <2>3. k < k <=> Goes(listens, Len(q) - k, Cardinality(w) + Cardinality({j \in 1..k : ok[j]}))
    BY <1>2, <2>2, Zenon
  <2>4. ~(k < k)
    BY <1>2
  <2>5. Cardinality({j \in 1..k : ok[j]}) = k
    BY <1>3, <2>1
  <2>6. QED
    BY <2>3, <2>4, <2>5, Zenon
<1>8. rest \in Seq(Clients) /\ Len(rest) = Len(q) - k /\ \A i \in 1..Len(rest) : rest[i] = q[k + i]
  <2>1. Len(q) \in Nat /\ k \in Nat /\ k <= Len(q)
    BY <1>2
  <2> HIDE DEF armed
  <2>2. QED
    BY <2>1
<1> HIDE DEF rest, armed
<1>9. IsFiniteSet(w) /\ n \in Nat
  BY PoolAssumption, FS_Subset, FS_CardinalityType
<1>10. IsFiniteSet(w \cup armed) /\ Cardinality(w \cup armed) = n + k
  <2>1. w \cap armed = {}
    BY <1>6
  <2>2. Cardinality(w \cap armed) = 0
    BY <2>1, FS_EmptySet
  <2>3. /\ IsFiniteSet(w \cup armed)
        /\ Cardinality(w \cup armed) = Cardinality(w) + Cardinality(armed) - Cardinality(w \cap armed)
    BY <1>6, <1>9, FS_Union
  <2>4. QED
    BY <1>2, <1>6, <1>9, <2>2, <2>3
<1>11. ToSet(q) \subseteq ToSet(rest) \cup armed
  <2>1. SUFFICES ASSUME NEW i \in 1..Len(q) PROVE q[i] \in ToSet(rest) \cup armed
    BY <1>2 DEF ToSet
  <2>2. CASE i <= k
    BY <1>2, <2>2 DEF armed
  <2>3. CASE i > k
    <3>1. i - k \in 1..Len(rest) /\ k + (i - k) = i
      BY <1>2, <1>8, <2>3
    <3>2. rest[i - k] = q[i]
      BY <1>8, <3>1
    <3>3. QED
      BY <1>8, <3>1, <3>2 DEF ToSet
  <2>4. QED
    BY <1>2, <2>2, <2>3
<1>12. fresh = {}
  BY <1>11
<1> HIDE DEF fresh
<1>13. SetToSeq({}) = <<>>
  <2>1. SetToSeq({}) \in Seq({})
    BY FS_EmptySet, SetToSeqFacts
  <2>2. QED
    BY <2>1
<1>14. acceptQueue' = rest
  BY <1>5, <1>8, <1>12, <1>13
<1>15. Clients \subseteq ToSet(acceptQueue') \cup acceptWait' \cup acceptInUse'
  BY <1>5, <1>11, <1>14
<1>16. Len(rest) <= n + k + 1
  <2>1. CASE listens
    <3>1. n = 0 /\ Len(q) = Cardinality(Clients)
      BY <2>1, FS_EmptySet
    <3>2. ~(Len(q) - k > 0 /\ Len(q) - k >= Len(q) \div 2)
      BY <1>7, <2>1, <3>1 DEF Goes
    <3>3. Len(q) \div 2 \in Nat /\ 2 * (Len(q) \div 2) <= Len(q)
      BY <1>2
    <3>4. QED
      BY <1>2, <1>8, <3>1, <3>2, <3>3
  <2>2. CASE ~listens
    <3> DEFINE sum == n + k + (Len(q) - k)
               half == sum \div 2
    <3>1. ~(Len(q) - k > 0 /\ n + k < half)
      BY <1>7, <2>2 DEF Goes, HalfWait
    <3>2. sum = n + Len(q) /\ sum \in Nat
      BY <1>2, <1>9
    <3> HIDE DEF sum
    <3>3. half \in Nat /\ sum <= 2 * half + 1
      BY <3>2
    <3> HIDE DEF half
    <3>4. CASE Len(q) - k > 0
      <4>1. half <= n + k
        BY <1>2, <1>9, <3>1, <3>3, <3>4
      <4>2. QED
        BY <1>2, <1>8, <1>9, <3>2, <3>3, <4>1
    <3>5. CASE ~(Len(q) - k > 0)
      BY <1>2, <1>8, <1>9, <3>5
    <3>6. QED
      BY <3>4, <3>5
  <2>3. QED
    BY <2>1, <2>2
<1>17. QED
  BY <1>5, <1>10, <1>14, <1>15, <1>16 DEF AcceptBacklog

(* Every accepted object is in some list once the library listens. *)
Backlog ==
  /\ AcceptBacklog
  /\ listening => Clients \subseteq ToSet(acceptQueue) \cup acceptWait \cup acceptInUse

(* CIOCP::OnIOCPDisConnect. *)
LEMMA ReturnBacklog ==
  ASSUME "acceptPost" \notin Allow, PoolInv, Backlog, NEW cf, NEW c, c \in acceptInUse \/ ~Accepted(c),
         OnIOCPDisConnect(cf, c), listening' = listening
  PROVE  Backlog'
<1>1. CASE Accepted(c)
  <2> DEFINE q == Append(acceptQueue, c)
             u == acceptInUse \ {c}
  <2>1. PICK d : Armed(d, q, acceptWait, u, FALSE)
    BY <1>1 DEF OnIOCPDisConnect
  <2>2. /\ acceptQueue \in Seq(Clients) /\ IsInjective(acceptQueue)
        /\ acceptWait \subseteq Clients /\ acceptInUse \subseteq Clients /\ acceptWait \cap acceptInUse = {}
        /\ ToSet(acceptQueue) \cap (acceptWait \cup acceptInUse) = {}
        /\ c \in acceptInUse /\ c \in Clients
        /\ ~listening => acceptInUse = {}
    BY <1>1 DEF PoolInv, ListsOK, Apart, Accepted
  <2>3. c \notin ToSet(acceptQueue)
    BY <2>2
  <2>4. q \in Seq(Clients) /\ IsInjective(q) /\ ToSet(q) = ToSet(acceptQueue) \cup {c}
    BY <2>2, <2>3, AppendNew
  <2> HIDE DEF q
  <2>5. Clients \subseteq ToSet(q) \cup acceptWait \cup u
    BY <2>2, <2>4 DEF Backlog
  <2>6. ToSet(q) \cap (acceptWait \cup u) = {} /\ u \in SUBSET Clients /\ acceptWait \in SUBSET Clients
    BY <2>2, <2>4
  <2>7. FALSE \in BOOLEAN /\ (FALSE => acceptWait = {} /\ Len(q) = Cardinality(Clients))
    OBVIOUS
  <2> HIDE DEF u
  <2>8. AcceptBacklog' /\ Clients \subseteq ToSet(acceptQueue') \cup acceptWait' \cup acceptInUse'
    BY <2>1, <2>4, <2>5, <2>6, <2>7, LoopBacklog
  <2>9. QED
    BY <2>8 DEF Backlog
<1>2. CASE ~Accepted(c)
  BY <1>2 DEF OnIOCPDisConnect, Backlog, AcceptBacklog
<1>3. QED
  BY <1>1, <1>2

(* CIOCP::OnIOCPAccept. *)
LEMMA AcceptedBacklog ==
  ASSUME "acceptPost" \notin Allow, IInv, PoolInv, Backlog, OnIOCPAccept
  PROVE  Backlog'
<1> DEFINE c == disp.conn
           w == acceptWait \ {c}
           u == acceptInUse \cup {c}
<1>1. /\ Running /\ disp.at = "OnIOCPAccept" /\ listening' = listening
      /\ \E d : Armed(d, acceptQueue, w, u, FALSE)
  BY DEF OnIOCPAccept
<1>2. PICK d : Armed(d, acceptQueue, w, u, FALSE)
  BY <1>1
<1>3. c \in Conns /\ ObjectIs(c, conn[c], packets, disp, told[c], acceptWait, acceptInUse, connectInUse)
  BY <1>1, ReturnFacts
<1>4. c \in acceptWait
  BY <1>1, <1>3, AcceptingStage
<1>5. /\ acceptQueue \in Seq(Clients) /\ IsInjective(acceptQueue)
      /\ acceptWait \subseteq Clients /\ acceptInUse \subseteq Clients
      /\ ToSet(acceptQueue) \cap (acceptWait \cup acceptInUse) = {}
      /\ ~listening => acceptWait = {}
  BY DEF PoolInv, ListsOK, Apart
<1> HIDE DEF c
<1>6. /\ Clients \subseteq ToSet(acceptQueue) \cup w \cup u /\ ToSet(acceptQueue) \cap (w \cup u) = {}
      /\ w \in SUBSET Clients /\ u \in SUBSET Clients
  BY <1>4, <1>5 DEF Backlog
<1>7. FALSE \in BOOLEAN /\ (FALSE => w = {} /\ Len(acceptQueue) = Cardinality(Clients))
  OBVIOUS
<1> HIDE DEF w, u
<1>8. AcceptBacklog' /\ Clients \subseteq ToSet(acceptQueue') \cup acceptWait' \cup acceptInUse'
  BY <1>2, <1>5, <1>6, <1>7, LoopBacklog
<1>9. QED
  BY <1>8 DEF Backlog

(* CIOCP::Listen. *)
LEMMA ListenBacklog ==
  ASSUME "acceptPost" \notin Allow, Listen
  PROVE  Backlog'
<1> DEFINE q == SetToSeq(Clients)
<1>1. Armed(conn, q, {}, {}, TRUE)
  BY DEF Listen
<1>2. q \in Seq(Clients) /\ IsInjective(q) /\ ToSet(q) = Clients /\ Len(q) = Cardinality(Clients)
  BY PoolAssumption, SetToSeqFacts
<1> HIDE DEF q
<1>3. /\ {} \in SUBSET Clients /\ TRUE \in BOOLEAN
      /\ ToSet(q) \cap ({} \cup {}) = {} /\ Clients \subseteq ToSet(q) \cup {} \cup {}
      /\ TRUE => {} = {} /\ Len(q) = Cardinality(Clients)
  BY <1>2
<1>4. AcceptBacklog' /\ Clients \subseteq ToSet(acceptQueue') \cup acceptWait' \cup acceptInUse'
  BY <1>1, <1>2, <1>3, LoopBacklog
<1>5. QED
  BY <1>4 DEF Backlog

(* Every step keeps the backlog. *)
LEMMA BacklogStep ==
  ASSUME "acceptPost" \notin Allow, IInv, PoolInv, Backlog, [Next]_vars
  PROVE  Backlog'
<1>1. ASSUME UNCHANGED <<lists, listening>> PROVE Backlog'
  BY <1>1 DEF lists, Backlog, AcceptBacklog
<1>2. CASE Listen
  BY <1>2, ListenBacklog
<1>3. CASE User
  <2>1. CASE ConnectTo
    BY <2>1 DEF ConnectTo, Backlog, AcceptBacklog
  <2>2. CASE \E c \in Conns : UserSetCallback(c) \/ UserSend(c) \/ UserClose(c)
    BY <1>1, <2>2 DEF UserSetCallback, UserSend, UserClose
  <2>3. QED
    BY <1>3, <2>1, <2>2 DEF User
<1>4. CASE \E c \in Conns : PeerClose(c)
  BY <1>1, <1>4 DEF PeerClose
<1>5. CASE Completion
  BY <1>1, <1>5 DEF Completion, IocpRecv, IocpSend, IocpConnect, IocpAccept, IocpDisconnect, IocpClose,
                    Completes
<1>6. CASE DispatchData \/ DispatchAccept \/ DispatchConnect \/ DispatchClose
  BY <1>1, <1>6 DEF DispatchData, DispatchAccept, DispatchConnect, DispatchClose
<1>7. CASE OnIOCPAccept
  BY <1>7, AcceptedBacklog
<1>8. CASE DispatchReuse
  <2> DEFINE c == Head(packets).conn
  <2>1. OnIOCPDisConnect(conn, c) /\ listening' = listening /\ NextPacket({"SOCKET_REUSE"})
    BY <1>8 DEF DispatchReuse
  <2>2. Head(packets).type = "SOCKET_REUSE"
    BY <2>1 DEF NextPacket
  <2>3. /\ c \in Conns /\ disp = Idle
        /\ ObjectIs(c, conn[c], packets, disp, told[c], acceptWait, acceptInUse, connectInUse)
        /\ Has(packets, c, {"SOCKET_REUSE"}) /\ Has(packets, c, PacketTypes)
    BY <2>1, <2>2, PoppedIs
  <2> HIDE DEF c
  <2>4. c \in acceptInUse
    BY <2>3, HeadStage DEF Talks
  <2>5. QED
    BY <2>1, <2>4, ReturnBacklog
<1>9. CASE IOCPClose
  <2> DEFINE c == disp.conn
  <2>1. Running /\ disp.at = "IOCPClose" /\ listening' = listening
    BY <1>9 DEF IOCPClose
  <2>2. c \in Conns /\ ObjectIs(c, conn[c], packets, disp, told[c], acceptWait, acceptInUse, connectInUse)
    BY <2>1, ReturnFacts
  <2>3. c \in acceptInUse \cup connectInUse
    BY <2>1, <2>2, ClosingStage
  <2>4. connectInUse \subseteq Outs
    BY DEF PoolInv, ListsOK, Apart
  <2>5. c \in acceptInUse \/ ~Accepted(c)
    BY <2>3, <2>4, PoolAssumption DEF Accepted
  <2>6. UNCHANGED lists \/ \E d : OnIOCPDisConnect(d, c)
    BY <1>9 DEF IOCPClose
  <2> HIDE DEF c
  <2>7. QED
    BY <1>1, <2>1, <2>5, <2>6, ReturnBacklog
<1>10. CASE UNCHANGED vars
  BY <1>1, <1>10 DEF vars
<1>11. QED
  BY <1>2, <1>3, <1>4, <1>5, <1>6, <1>7, <1>8, <1>9, <1>10 DEF Next, Dispatcher

(* At most one object more lies in the queue than waits, while AcceptEx is not refused. *)
THEOREM AcceptBacklogHolds ==
  ASSUME Usual, "acceptPost" \notin Allow
  PROVE  Spec => []AcceptBacklog
<1>1. Init => Backlog
  <2> SUFFICES ASSUME Init PROVE Backlog
    OBVIOUS
  <2>1. acceptQueue = <<>> /\ acceptWait = {} /\ listening = FALSE
    BY DEF Init
  <2>2. Len(<<>>) = 0 /\ Cardinality({}) = 0
    BY FS_EmptySet
  <2>3. QED
    BY <2>1, <2>2 DEF Backlog, AcceptBacklog
<1>2. IInv /\ PoolInv /\ Backlog /\ [Next]_vars => Backlog'
  BY BacklogStep
<1>3. Backlog => AcceptBacklog
  BY DEF Backlog
<1>4. QED
  BY <1>1, <1>2, <1>3, PoolInvariance, Invariance, PTL DEF Spec
=============================================================================
