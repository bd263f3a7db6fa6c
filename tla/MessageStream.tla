---------------------------- MODULE MessageStream ---------------------------
(***************************************************************************)
(* One direction of a connection, from SendMsg of a game socket            *)
(* (MoGuiServerSocket.h) through the send queue and buffer of CConnect,    *)
(* the kernel, the receive buffer, the dispatcher's queue and the logic    *)
(* buffer of the receiving CConnect (Connect.cpp) to TransMsg              *)
(* (GameServerSocket.cpp): messages are cut into packets, merged into      *)
(* buffers, taken by the kernel and given back in pieces of any size, and  *)
(* put together again.  Opening and closing are modelled in SocketPool;    *)
(* here both ends are connected, the receiver perhaps without a callback.  *)
(***************************************************************************)
EXTENDS Wire, PacketQueue, FiniteSets

CONSTANTS
  Layouts,      \* the layout of every message id
  Scripts,      \* what the sender may be asked to send, whether encrypted, and
                \* how often the kernel cuts: [messages, crypt, cuts]
  PacketLen,    \* _MAX_BUFFER_LENGTH
  SendBuffer,   \* _MAX_SEND_BUFFER_LENGTH and MAX_SEND_BUF_SIZE
  RecvBuffer,   \* _MAX_RECV_BUFFER_LENGTH
  LogicBuffer   \* _MAX_LOGIC_BUFFER_LENGTH + _MAX_BUFFER_LENGTH

ASSUME StreamSizes ==
  /\ {PacketLen, SendBuffer, RecvBuffer, LogicBuffer} \subseteq Nat \ {0}
  /\ PacketLen <= SendBuffer /\ SendBuffer + PacketLen <= LogicBuffer
  /\ SendBuffer - (1 + Short + Short) < Base * Base

(* A message of the program: every member has a value of its type.         *)
IsMessage(m) ==
  /\ m = [id |-> m.id, vals |-> m.vals]
  /\ m.id \in DOMAIN Layouts
  /\ m.vals = [i \in DOMAIN Layouts[m.id] |-> m.vals[i]]
  /\ \A i \in DOMAIN Layouts[m.id] : HasType(m.vals[i], Layouts[m.id][i])

ASSUME ScriptsAssumption ==
  /\ Layouts \in Seq(Seq(Fields)) /\ Len(Layouts) < Base * Base
  /\ \A s \in Scripts :
       /\ Len(s.messages) \in Nat /\ s.messages = [i \in 1..Len(s.messages) |-> s.messages[i]]
       /\ \A i \in DOMAIN s.messages : IsMessage(s.messages[i])
       /\ s.crypt \in BOOLEAN /\ s.cuts \in Nat

VARIABLES
  script,       \* what the sender's program still wants to send
  crypt,        \* m_bCrypt of both ends
  sent,         \* messages sent and not yet delivered
  sendpackets,  \* m_sendpackets, with the memory of the sender's packets
  m_buffer,     \* of each of these packets, up to m_used; empty if it is free
  sendbuffer,   \* m_sendbuffer up to m_sendused
  wire,         \* bytes in the kernels and on the network
  cuts,         \* how often the kernel may still move a part only (a bound)
  queue,        \* the receiver's packets in the dispatcher's queue
  status,       \* m_status of the receiver
  saved,        \* m_logicpackets_buff
  logic,        \* m_logicbuffer up to m_logicused
  parsing,      \* the loop of CConnect::OnMsg is running
  got           \* messages delivered to TransMsg

sender == <<script, crypt, sendpackets, m_buffer, sendbuffer>>
receiver == <<queue, status, saved, logic, parsing, got>>
network == <<wire, cuts>>
vars == <<sender, network, receiver, sent>>

Init ==
  /\ \E s \in Scripts : script = s.messages /\ crypt = s.crypt /\ cuts = s.cuts
  /\ status \in {"CONNECTING", "COMMON"}
  /\ sendpackets = [queue |-> EmptyQueue, next |-> [p \in Addresses |-> Null]]
  /\ m_buffer = [p \in Addresses |-> <<>>]
  /\ sendbuffer = <<>> /\ wire = <<>>
  /\ queue = <<>> /\ saved = <<>> /\ logic = <<>>
  /\ sent = <<>> /\ got = <<>>
  /\ parsing = FALSE

-----------------------------------------------------------------------------
(* The sender.                                                             *)

(* The packets into which Send and OnSocketIOCPRecv cut their bytes.       *)
Packets(bytes) ==
  [i \in 1..((Len(bytes) + PacketLen - 1) \div PacketLen) |->
     SubSeq(bytes, PacketLen * (i - 1) + 1, Least(PacketLen * i, Len(bytes)))]

(* Mutation of HasRoom: any free byte is enough for a packet. *)
AnyRoom(used) == SendBuffer - used > 0

HasRoom(used) == SendBuffer - used >= PacketLen

(* The loop of ModifySend, from now = [list, data, buffer]: a packet is    *)
(* taken, appended to the buffer and deleted.                              *)
TakeOne(now) ==
  LET p == now.list.queue.m_head
  IN  IF HasRoom(Len(now.buffer)) /\ ~IsEmpty(now.list.queue)
      THEN [list |-> PopPacket(now.list), data |-> [now.data EXCEPT ![p] = <<>>],
            buffer |-> now.buffer \o now.data[p]]
      ELSE now

(* Where the loop ends, after as many turns as there can be packets.  The  *)
(* sets bind what TLC would otherwise compute anew for every use.          *)
Turns(start) ==
  LET after[i \in 0..MaxPackets] ==
        IF i = 0 THEN {start} ELSE {TakeOne(now) : now \in after[i - 1]}
  IN  after[MaxPackets]

(* ModifySend fills the buffer when no send is running, that is when the   *)
(* buffer is as its completion left it.                                    *)
ModifySend(list, data, buffer) ==
  \E now \in Turns([list |-> list, data |-> data, buffer |-> buffer]) :
    sendpackets' = now.list /\ m_buffer' = now.data /\ sendbuffer' = now.buffer

(* m_sending: a send is posted whenever the buffer is not empty.           *)
Sending == sendbuffer # <<>>

(* Addresses that are free, and where new puts the n packets of a Send.    *)
Free == {p \in Addresses : m_buffer[p] = <<>>}

NewPackets(n) ==
  CHOOSE new \in [1..n -> Free] : \A i, j \in 1..n : new[i] = new[j] => i = j

(* The packets become a queue of their own, in the same memory. *)
Queued(new, next) ==
  LET list[i \in 0..Len(new)] ==
        IF i = 0 THEN {[queue |-> EmptyQueue, next |-> next]}
        ELSE {PushPacket(before, new[i]) : before \in list[i - 1]}
  IN  list[Len(new)]

(* CConnect::Send of the connected sender.  MaxPackets bounds the packets  *)
(* there are; which of the free addresses new takes makes no difference.   *)
Send(bytes) ==
  LET cut == Packets(bytes)
      new == NewPackets(Len(cut))
      data == [p \in Addresses |->
                 IF p \in ToSet(new) THEN cut[CHOOSE i \in DOMAIN new : new[i] = p] ELSE m_buffer[p]]
  IN  /\ Cardinality(Free) >= Len(cut)
      /\ \E packets \in Queued(new, sendpackets.next) :
           LET list == PushQueue([sendpackets EXCEPT !.next = packets.next], packets.queue)
           IN  IF Sending
               THEN sendpackets' = list /\ m_buffer' = data /\ UNCHANGED sendbuffer
               ELSE ModifySend(list, data, sendbuffer)

(* The buffer of SendMsg holds the data after a header of full length.     *)
Overflows(data) == 1 + Short + Short + Len(data) > SendBuffer

(* CMoGuiServerSocket::SendMsg.                                            *)
SendMsg(m) ==
  LET data == Encode(Layouts[m.id], m.vals)
      frame == Frame(m.id, IF crypt THEN encrypt(data) ELSE data)
  IN  /\ Encodable(Layouts[m.id], m.vals) /\ ~Overflows(data)
      /\ Send(frame)
      /\ sent' = Append(sent, m)

(* SendMsg throws: nothing is sent.                                        *)
SendThrows(m) ==
  /\ \/ ~Encodable(Layouts[m.id], m.vals)
     \/ Overflows(Encode(Layouts[m.id], m.vals))
  /\ UNCHANGED <<sendpackets, m_buffer, sendbuffer, sent>>

ProgramSends ==
  /\ script # <<>>
  /\ SendMsg(Head(script)) \/ SendThrows(Head(script))
  /\ script' = Tail(script)
  /\ UNCHANGED <<crypt, network, receiver>>

(* How many of n bytes the kernel moves at once: all, or any part.         *)
Moves(n, k) ==
  \/ k = n /\ UNCHANGED cuts
  \/ k < n /\ cuts > 0 /\ cuts' = cuts - 1

(* The kernel has taken some of the posted bytes: OnSocketIOCPSend.        *)
OnSocketIOCPSend ==
  /\ Sending
  /\ \E k \in 1..Len(sendbuffer) :
       /\ Moves(Len(sendbuffer), k)
       /\ wire' = wire \o SubSeq(sendbuffer, 1, k)
       /\ ModifySend(sendpackets, m_buffer, SubSeq(sendbuffer, k + 1, Len(sendbuffer)))
  /\ UNCHANGED <<script, crypt, receiver, sent>>

-----------------------------------------------------------------------------
(* The receiver.                                                           *)

(* A receive completes: OnSocketIOCPRecv.                                  *)
OnSocketIOCPRecv ==
  /\ wire # <<>>
  /\ LET most == Least(RecvBuffer, Len(wire))
     IN  \E k \in 1..most :
           /\ Moves(most, k)
           /\ queue' = queue \o Packets(SubSeq(wire, 1, k))
           /\ wire' = SubSeq(wire, k + 1, Len(wire))
  /\ UNCHANGED <<sender, status, saved, logic, parsing, got, sent>>

(* CConnect::OnMsg on the dispatcher's thread, before there is a callback. *)
SavePacket ==
  /\ status = "CONNECTING" /\ queue # <<>>
  /\ saved' = Append(saved, Head(queue))
  /\ queue' = Tail(queue)
  /\ UNCHANGED <<sender, network, status, logic, parsing, got, sent>>

(* SetCallback and OnConnect on that thread: what was saved is dealt with  *)
(* before the dispatcher takes another packet.                             *)
SetCallback ==
  /\ status = "CONNECTING"
  /\ status' = "COMMON"
  /\ queue' = saved \o queue
  /\ saved' = <<>>
  /\ UNCHANGED <<sender, network, logic, parsing, got, sent>>

(* CConnect::OnMsg: the packet joins the logic buffer, which is emptied    *)
(* first when it has no room.                                              *)
Fits(packet) == Len(logic) + Len(packet) <= LogicBuffer

OnMsg ==
  /\ status = "COMMON" /\ ~parsing /\ queue # <<>>
  /\ logic' = (IF Fits(Head(queue)) THEN logic ELSE <<>>) \o Head(queue)
  /\ queue' = Tail(queue)
  /\ parsing' = TRUE
  /\ UNCHANGED <<sender, network, status, saved, got, sent>>

Explained(id, data) ==
  [id |-> id, vals |-> IF id \in DOMAIN Layouts THEN ExplainMsg(Layouts[id], data) ELSE "error"]

(* One turn of the loops of GameServerSocket::OnMsg and CConnect::OnMsg: a *)
(* whole frame is taken from the buffer, decrypted and delivered.          *)
TransMsg ==
  /\ parsing
  /\ \E recv_packet \in {GetDataFromBuf(logic)} :
     \E data \in {IF crypt THEN decrypt(recv_packet.data) ELSE recv_packet.data} :
       /\ recv_packet.used > 0
       /\ logic' = SubSeq(logic, recv_packet.used + 1, Len(logic))
       /\ got' = Append(got, Explained(recv_packet.id, data))
       /\ sent' = IF sent = <<>> THEN sent ELSE Tail(sent)
  /\ UNCHANGED <<sender, network, queue, status, saved, parsing>>

(* The rest of the buffer waits for the next packet.                       *)
Incomplete ==
  /\ parsing /\ GetDataFromBuf(logic).used = 0
  /\ parsing' = FALSE
  /\ UNCHANGED <<sender, network, queue, status, saved, logic, got, sent>>

Library == OnSocketIOCPSend \/ OnSocketIOCPRecv \/ SavePacket \/ OnMsg \/ TransMsg \/ Incomplete

Next == ProgramSends \/ SetCallback \/ Library

(* The kernel completes what was posted and the dispatcher's loop goes on; *)
(* the receiver's program sets its callback.                               *)
Spec == Init /\ [][Next]_vars /\ WF_vars(Library) /\ WF_vars(SetCallback)

-----------------------------------------------------------------------------
(* Every buffer of bytes stays within the array that holds it              *)
(* (Connect.h:136-148), every packet within its own (Packet.h:33).         *)
TypeOK ==
  /\ status \in {"CONNECTING", "COMMON"}
  /\ parsing \in BOOLEAN
  /\ Len(sendbuffer) <= SendBuffer
  /\ Len(logic) <= LogicBuffer
  /\ \A b \in ToSet(sendbuffer \o wire \o logic) : b \in Bytes
  /\ \A p \in ToSet(queue \o saved) : Len(p) \in 1..PacketLen
  /\ \A p \in Addresses : Len(m_buffer[p]) \in 0..PacketLen

(* Refinement: whatever the pieces in which the bytes travel, the messages *)
(* that SendMsg accepted reach TransMsg in order, each once, with the      *)
(* values that were written into them.                                     *)
Stream == INSTANCE Channel WITH
  Values <- UNION {ToSet(s.messages) : s \in Scripts},
  inFlight <- sent,
  delivered <- got

StreamInOrder == Stream!Spec

(* Everything that was sent is delivered, with nothing left in a buffer.   *)
AllDelivered == []<>(sent = <<>> /\ logic = <<>>)
=============================================================================
