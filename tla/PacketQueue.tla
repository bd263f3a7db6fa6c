----------------------------- MODULE PacketQueue ----------------------------
(***************************************************************************)
(* CPacketQueue (Packet.h): a singly linked list with a pointer to its     *)
(* last packet and two counters.  The send queue, the queue of saved       *)
(* packets and the dispatcher's queue are such lists.                      *)
(*                                                                         *)
(* A packet is known by its address, a positive number; 0 is the null      *)
(* pointer.  The packets of all queues live in one memory, a function next *)
(* from addresses to the m_next of the packets there.  An operation takes  *)
(* and yields a list: [queue |-> the CPacketQueue, next |-> the memory].   *)
(***************************************************************************)
EXTENDS Integers, Sequences

CONSTANT MaxPackets   \* bound: packets that exist at once

ASSUME PacketsAssumption == MaxPackets \in Nat

Addresses == 1..MaxPackets
Null == 0

(* CPacketQueue::Init *)
EmptyQueue == [m_head |-> Null, m_tail |-> Null, m_InPacket |-> 0, m_OutPacket |-> 0]

IsEmpty(queue) == queue.m_head = Null
Size(queue) == queue.m_InPacket - queue.m_OutPacket

PushPacket(list, packet) ==
  LET q == list.queue
      next == [list.next EXCEPT ![packet] = Null]
  IN  IF q.m_tail # Null
      THEN [queue |-> [q EXCEPT !.m_tail = packet, !.m_InPacket = @ + 1],
            next  |-> [next EXCEPT ![q.m_tail] = packet]]
      ELSE [queue |-> [q EXCEPT !.m_head = packet, !.m_tail = packet, !.m_InPacket = @ + 1],
            next  |-> next]

(* The packets of queue, which lives in the same memory, go to the end;    *)
(* queue itself is empty afterwards.                                       *)
PushQueue(list, queue) ==
  LET q == list.queue
      joined == [q EXCEPT !.m_tail = queue.m_tail, !.m_InPacket = @ + Size(queue)]
  IN  IF IsEmpty(queue) THEN list
      ELSE IF q.m_tail # Null
      THEN [queue |-> joined, next |-> [list.next EXCEPT ![q.m_tail] = queue.m_head]]
      ELSE [queue |-> [joined EXCEPT !.m_head = queue.m_head], next |-> list.next]

(* Mutation of PopPacket: m_tail goes on pointing to a packet that is gone. *)
PopKeepsTail(list) ==
  LET packet == list.queue.m_head
  IN  IF IsEmpty(list.queue) THEN list
      ELSE [queue |-> [list.queue EXCEPT !.m_head = list.next[packet], !.m_OutPacket = @ + 1],
            next  |-> [list.next EXCEPT ![packet] = Null]]

(* What is left after the packet m_head points to was taken. *)
PopPacket(list) ==
  LET packet == list.queue.m_head
  IN  IF IsEmpty(list.queue) THEN list
      ELSE [queue |-> [list.queue EXCEPT !.m_head = list.next[packet], !.m_OutPacket = @ + 1,
                                         !.m_tail = IF @ = packet THEN Null ELSE @],
            next  |-> [list.next EXCEPT ![packet] = Null]]
=============================================================================
