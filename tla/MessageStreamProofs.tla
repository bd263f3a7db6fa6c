-------------------------- MODULE MessageStreamProofs -------------------------
(***************************************************************************)
(* CPacketQueue is a first-in first-out queue, and the stream of messages  *)
(* keeps their order and loses none, however they are cut: StreamInv says  *)
(* that the bytes in the logic buffer, the packets, the network, the send  *)
(* buffer and the send queue are, in this order, the frames of the         *)
(* messages that are sent and not yet delivered.                           *)
(***************************************************************************)
EXTENDS MessageStream, WireProofs

-----------------------------------------------------------------------------
(* The queue: what its operations do to the list is what Append, \o and    *)
(* Tail do to the sequence of its packets.  The modules that model a       *)
(* CPacketQueue as a sequence rest on it.                                  *)

(* The null pointer points to no packet. *)
LEMMA NullIsNoAddress == Null \notin Addresses
BY DEF Null, Addresses

(* What a pointer to a packet, a queue, and a queue with the memory of its *)
(* packets can be.                                                         *)
Links == Addresses \cup {Null}

Queues == [m_head : Links, m_tail : Links, m_InPacket : Int, m_OutPacket : Int]

Lists == [queue : Queues, next : [Addresses -> Links]]

(* A list holds the packets s, in this order: they are linked from m_head  *)
(* to m_tail and their number is what the counters say, so that the        *)
(* assertion at the end of DeleteClearAll will hold.                       *)
Holds(list, s) ==
  /\ s \in Seq(Addresses)
  /\ \A i, j \in DOMAIN s : s[i] = s[j] => i = j
  /\ list.queue.m_head = IF s = <<>> THEN Null ELSE s[1]
  /\ list.queue.m_tail = IF s = <<>> THEN Null ELSE s[Len(s)]
  /\ \A i \in DOMAIN s : list.next[s[i]] = IF i = Len(s) THEN Null ELSE s[i + 1]
  /\ Size(list.queue) = Len(s)

-----------------------------------------------------------------------------

(* A counter that is increased stays a number. *)
LEMMA QueueFields ==
  ASSUME NEW q \in Queues
  PROVE  /\ q.m_head \in Links /\ q.m_tail \in Links
         /\ q.m_InPacket \in Int /\ q.m_OutPacket \in Int
         /\ \A k \in Int : q.m_InPacket + k \in Int /\ q.m_OutPacket + k \in Int
BY DEF Queues

(* PushPacket (Packet.h:55) appends a packet that is not in the list.      *)
THEOREM PushPacketAppends ==
  ASSUME NEW list \in Lists, NEW s, Holds(list, s),
         NEW p \in Addresses, \A i \in DOMAIN s : s[i] # p
  PROVE  /\ PushPacket(list, p) \in Lists
         /\ Holds(PushPacket(list, p), Append(s, p))
PROOF
  <1> DEFINE new == PushPacket(list, p)
             t == Append(s, p)
             n == Len(s)
  <1>1. /\ s \in Seq(Addresses) /\ n \in Nat /\ DOMAIN s = 1..n
        /\ s = <<>> <=> n = 0
    BY DEF Holds
  <1>2. /\ t \in Seq(Addresses) /\ Len(t) = n + 1 /\ DOMAIN t = 1..(n + 1)
        /\ t # <<>> /\ t[n + 1] = p /\ \A i \in 1..n : t[i] = s[i]
    BY <1>1
  <1>3. /\ list.queue \in Queues /\ list.next \in [Addresses -> Links]
        /\ p # Null /\ Null \in Links /\ p \in Links
    BY NullIsNoAddress DEF Lists, Links
  <1>4. /\ new \in Lists
        /\ new.queue.m_tail = p
        /\ new.queue.m_head = IF n = 0 THEN p ELSE s[1]
        /\ new.queue.m_InPacket = list.queue.m_InPacket + 1
        /\ new.queue.m_OutPacket = list.queue.m_OutPacket
        /\ \A a \in Addresses : new.next[a] = IF n > 0 /\ a = s[n] THEN p
                                              ELSE IF a = p THEN Null ELSE list.next[a]
    <2>1. CASE n = 0
      <3>1. list.queue.m_tail = Null
        BY <2>1, <1>1 DEF Holds
      <3>2. new = [queue |-> [list.queue EXCEPT !.m_head = p, !.m_tail = p, !.m_InPacket = @ + 1],
                   next  |-> [list.next EXCEPT ![p] = Null]]
        BY <3>1 DEF PushPacket
      <3>3. /\ new.next \in [Addresses -> Links]
            /\ \A a \in Addresses : new.next[a] = IF a = p THEN Null ELSE list.next[a]
        BY <3>2, <1>3
      <3>4. /\ new.queue \in Queues
            /\ new.queue.m_head = p /\ new.queue.m_tail = p
            /\ new.queue.m_InPacket = list.queue.m_InPacket + 1
            /\ new.queue.m_OutPacket = list.queue.m_OutPacket
        <4>1. PICK c \in Int : c = list.queue.m_InPacket + 1
          BY <1>3, QueueFields
        <4>2. new.queue = [list.queue EXCEPT !.m_head = p, !.m_tail = p, !.m_InPacket = c]
          BY <4>1, <3>2
        <4> QED
          BY <4>1, <4>2, <1>3 DEF Queues
      <3>5. new \in Lists
        BY <3>2, <3>3, <3>4 DEF Lists
      <3> QED
        BY <3>3, <3>4, <3>5, <2>1, <1>1
    <2>2. CASE n > 0
      <3>1. /\ list.queue.m_tail = s[n] /\ list.queue.m_head = s[1]
            /\ s[n] \in Addresses /\ s[n] # Null /\ s[n] # p
        BY <2>2, <1>1, NullIsNoAddress DEF Holds
      <3>2. new = [queue |-> [list.queue EXCEPT !.m_tail = p, !.m_InPacket = @ + 1],
                   next  |-> [[list.next EXCEPT ![p] = Null] EXCEPT ![s[n]] = p]]
        BY <3>1 DEF PushPacket
      <3>3. /\ new.next \in [Addresses -> Links]
            /\ \A a \in Addresses : new.next[a] = IF a = s[n] THEN p
                                                   ELSE IF a = p THEN Null ELSE list.next[a]
        BY <3>2, <3>1, <1>3
      <3>4. /\ new.queue \in Queues
            /\ new.queue.m_head = s[1] /\ new.queue.m_tail = p
            /\ new.queue.m_InPacket = list.queue.m_InPacket + 1
            /\ new.queue.m_OutPacket = list.queue.m_OutPacket
        <4>1. PICK c \in Int : c = list.queue.m_InPacket + 1
          BY <1>3, QueueFields
        <4>2. new.queue = [list.queue EXCEPT !.m_tail = p, !.m_InPacket = c]
          BY <4>1, <3>2
        <4> QED
          BY <4>1, <4>2, <3>1, <1>3 DEF Queues
      <3>5. new \in Lists
        BY <3>2, <3>3, <3>4 DEF Lists
      <3> QED
        BY <3>3, <3>4, <3>5, <2>2, <1>1
    <2> QED
      BY <2>1, <2>2, <1>1
  <1>5. \A i, j \in DOMAIN t : t[i] = t[j] => i = j
    BY <1>1, <1>2 DEF Holds
  <1>6. \A i \in DOMAIN t : new.next[t[i]] = IF i = Len(t) THEN Null ELSE t[i + 1]
    <2> SUFFICES ASSUME NEW i \in 1..(n + 1)
                 PROVE  new.next[t[i]] = IF i = n + 1 THEN Null ELSE t[i + 1]
      BY <1>2
    <2>1. CASE i = n + 1
      <3>1. t[i] = p /\ p \in Addresses /\ (n > 0 => p # s[n])
        BY <2>1, <1>1, <1>2
      <3> QED
        BY <3>1, <2>1, <1>4
    <2>2. CASE i = n
      <3>1. /\ t[i] = s[n] /\ s[n] \in Addresses /\ n > 0 /\ t[i + 1] = p /\ i # n + 1
        BY <2>2, <1>1, <1>2
      <3> QED
        BY <3>1, <1>4
    <2>3. CASE i < n
      <3>1. /\ i \in 1..n /\ i + 1 \in 1..n /\ n \in 1..n /\ s[i] # s[n] /\ s[i] # p
            /\ s[i] \in Addresses /\ list.next[s[i]] = s[i + 1]
        BY <2>3, <1>1 DEF Holds
      <3> QED
        BY <3>1, <2>3, <1>2, <1>4
    <2>4. i = n + 1 \/ i = n \/ i < n
      <3>1. n \in Nat
        BY <1>1
      <3> QED
        BY <3>1
    <2> QED
      BY <2>1, <2>2, <2>3, <2>4
  <1>7. Size(new.queue) = Len(t)
    BY <1>1, <1>2, <1>3, <1>4 DEF Holds, Size, Queues
  <1>8. new.queue.m_head = t[1]
    BY <1>1, <1>2, <1>4
  <1> QED
    BY <1>2, <1>4, <1>5, <1>6, <1>7, <1>8 DEF Holds

(* PopPacket (Packet.h:89) takes the first packet, the one m_head points   *)
(* to, and leaves the rest.                                                *)
THEOREM PopPacketTakesFirst ==
  ASSUME NEW list \in Lists, NEW s, Holds(list, s), s # <<>>
  PROVE  /\ list.queue.m_head = Head(s)
         /\ PopPacket(list) \in Lists
         /\ Holds(PopPacket(list), Tail(s))
PROOF
  <1> DEFINE new == PopPacket(list)
             t == Tail(s)
             n == Len(s)
  <1>1. s \in Seq(Addresses) /\ n \in Nat \ {0} /\ DOMAIN s = 1..n
    BY DEF Holds
  <1>2. /\ t \in Seq(Addresses) /\ Len(t) = n - 1 /\ DOMAIN t = 1..(n - 1)
        /\ t = <<>> <=> n = 1
        /\ \A i \in 1..(n - 1) : t[i] = s[i + 1]
    <2>1. s # <<>> /\ t \in Seq(Addresses) /\ Len(t) = n - 1
      BY <1>1
    <2>2. DOMAIN t = 1..(n - 1) /\ (t = <<>> <=> n = 1)
      BY <2>1, <1>1
    <2>3. \A i \in 1..(n - 1) : t[i] = s[i + 1]
      BY <2>1, <1>1
    <2> QED
      BY <2>1, <2>2, <2>3
  <1>3. /\ list.queue \in Queues /\ list.next \in [Addresses -> Links]
        /\ list.queue.m_head = s[1] /\ list.queue.m_tail = s[n]
        /\ s[1] \in Addresses /\ s[1] # Null /\ Null \in Links
        /\ list.next[s[1]] = IF n = 1 THEN Null ELSE s[2]
    BY <1>1, NullIsNoAddress DEF Lists, Links, Holds
  <1>4. s[n] = s[1] <=> n = 1
    BY <1>1 DEF Holds
  <1>5. /\ new \in Lists
        /\ new.queue.m_head = (IF n = 1 THEN Null ELSE s[2])
        /\ new.queue.m_tail = (IF n = 1 THEN Null ELSE s[n])
        /\ new.queue.m_InPacket = list.queue.m_InPacket
        /\ new.queue.m_OutPacket = list.queue.m_OutPacket + 1
        /\ \A a \in Addresses : new.next[a] = IF a = s[1] THEN Null ELSE list.next[a]
    <2>1. list.next[s[1]] \in Links
      BY <1>3
    <2>2. new = [queue |-> [list.queue EXCEPT !.m_head = list.next[s[1]], !.m_OutPacket = @ + 1,
                                              !.m_tail = IF @ = s[1] THEN Null ELSE @],
                 next  |-> [list.next EXCEPT ![s[1]] = Null]]
      BY <1>3 DEF PopPacket, IsEmpty
    <2>3. /\ new.next \in [Addresses -> Links]
          /\ \A a \in Addresses : new.next[a] = IF a = s[1] THEN Null ELSE list.next[a]
      BY <2>2, <1>3
    <2>4. /\ new.queue \in Queues
          /\ new.queue.m_head = list.next[s[1]]
          /\ new.queue.m_tail = (IF s[n] = s[1] THEN Null ELSE s[n])
          /\ new.queue.m_InPacket = list.queue.m_InPacket
          /\ new.queue.m_OutPacket = list.queue.m_OutPacket + 1
      <3>1. PICK c \in Int : c = list.queue.m_OutPacket + 1
        <4>1. list.queue.m_OutPacket \in Int
          BY <1>3, QueueFields
        <4> QED
          BY <4>1
      <3>2. new.queue = [list.queue EXCEPT !.m_head = list.next[s[1]], !.m_OutPacket = c,
                                           !.m_tail = IF @ = s[1] THEN Null ELSE @]
        BY <3>1, <2>2
      <3> QED
        BY <3>1, <3>2, <2>1, <1>3 DEF Queues
    <2>5. new \in Lists
      BY <2>2, <2>3, <2>4 DEF Lists
    <2> QED
      BY <2>3, <2>4, <2>5, <1>3, <1>4
  <1>6. \A i, j \in DOMAIN t : t[i] = t[j] => i = j
    BY <1>1, <1>2 DEF Holds
  <1>7. \A i \in DOMAIN t : new.next[t[i]] = IF i = Len(t) THEN Null ELSE t[i + 1]
    <2> SUFFICES ASSUME NEW i \in 1..(n - 1)
                 PROVE  new.next[s[i + 1]] = IF i = n - 1 THEN Null ELSE t[i + 1]
      BY <1>2
    <2>1. /\ i + 1 \in 1..n /\ 1 \in 1..n /\ s[i + 1] # s[1] /\ s[i + 1] \in Addresses
          /\ list.next[s[i + 1]] = IF i + 1 = n THEN Null ELSE s[(i + 1) + 1]
      BY <1>1 DEF Holds
    <2>2. new.next[s[i + 1]] = IF i + 1 = n THEN Null ELSE s[(i + 1) + 1]
      BY <2>1, <1>5
    <2>3. ASSUME i # n - 1 PROVE t[i + 1] = s[(i + 1) + 1]
      <3>1. n \in Nat \ {0}
        BY <1>1
      <3>2. i + 1 \in 1..(n - 1)
        BY <3>1, <2>3
      <3> QED
        BY <3>2, <1>2
    <2>4. i = n - 1 <=> i + 1 = n
      BY <1>1
    <2> QED
      BY <2>2, <2>3, <2>4
  <1>8. Size(new.queue) = Len(t)
    BY <1>1, <1>2, <1>3, <1>5 DEF Holds, Size, Queues
  <1>9. n # 1 => t[1] = s[2] /\ t[Len(t)] = s[n]
    <2> SUFFICES ASSUME n # 1 PROVE t[1] = s[2] /\ t[n - 1] = s[n]
      BY <1>2
    <2>1. 1 \in 1..(n - 1) /\ n - 1 \in 1..(n - 1) /\ 1 + 1 = 2 /\ (n - 1) + 1 = n
      BY <1>1
    <2> QED
      BY <2>1, <1>2
  <1>10. /\ new.queue.m_head = IF t = <<>> THEN Null ELSE t[1]
         /\ new.queue.m_tail = IF t = <<>> THEN Null ELSE t[Len(t)]
    BY <1>2, <1>5, <1>9
  <1>11. list.queue.m_head = Head(s)
    BY <1>1, <1>3
  <1>12. Holds(new, t)
    BY <1>2, <1>6, <1>7, <1>8, <1>10 DEF Holds
  <1> QED
    BY <1>5, <1>11, <1>12

(* PushQueue (Packet.h:71) appends all packets of another queue.           *)
THEOREM PushQueueConcatenates ==
  ASSUME NEW list \in Lists, NEW s, Holds(list, s),
         NEW q \in Queues, NEW t, Holds([queue |-> q, next |-> list.next], t),
         \A i \in DOMAIN s, j \in DOMAIN t : s[i] # t[j]
  PROVE  /\ PushQueue(list, q) \in Lists
         /\ Holds(PushQueue(list, q), s \o t)
PROOF
  <1> DEFINE new == PushQueue(list, q)
             u == s \o t
             n == Len(s)
             m == Len(t)
  <1>1. /\ s \in Seq(Addresses) /\ n \in Nat /\ DOMAIN s = 1..n /\ (s = <<>> <=> n = 0)
        /\ t \in Seq(Addresses) /\ m \in Nat /\ DOMAIN t = 1..m /\ (t = <<>> <=> m = 0)
    BY DEF Holds
  <1>2. /\ u \in Seq(Addresses) /\ Len(u) = n + m /\ DOMAIN u = 1..(n + m)
        /\ u = <<>> <=> n + m = 0
        /\ \A i \in 1..n : u[i] = s[i]
        /\ \A j \in 1..m : u[n + j] = t[j]
    BY <1>1
  <1>3. /\ list.queue \in Queues /\ list.next \in [Addresses -> Links] /\ Null \in Links
        /\ \A i \in 1..n : s[i] \in Addresses /\ s[i] # Null
        /\ \A j \in 1..m : t[j] \in Addresses /\ t[j] # Null
    BY <1>1, NullIsNoAddress DEF Lists, Links
  <1>4. /\ q.m_head = (IF m = 0 THEN Null ELSE t[1])
        /\ q.m_tail = (IF m = 0 THEN Null ELSE t[m])
        /\ \A j \in 1..m : list.next[t[j]] = IF j = m THEN Null ELSE t[j + 1]
        /\ Size(q) = m
        /\ \A i, j \in 1..m : t[i] = t[j] => i = j
    BY <1>1 DEF Holds
  <1>5. /\ list.queue.m_head = (IF n = 0 THEN Null ELSE s[1])
        /\ list.queue.m_tail = (IF n = 0 THEN Null ELSE s[n])
        /\ \A i \in 1..n : list.next[s[i]] = IF i = n THEN Null ELSE s[i + 1]
        /\ Size(list.queue) = n
        /\ \A i, j \in 1..n : s[i] = s[j] => i = j
    BY <1>1 DEF Holds
  <1>6. CASE m = 0
    <2>1. new = list /\ u = s
      BY <1>6, <1>1, <1>4 DEF PushQueue, IsEmpty
    <2> QED
      BY <2>1
  <1>7. CASE m > 0
    <2>1. q.m_head = t[1] /\ q.m_tail = t[m] /\ q.m_head # Null /\ q.m_head \in Links
      <3>1. m # 0 /\ 1 \in 1..m
        BY <1>7, <1>1
      <3> QED
        BY <3>1, <1>3, <1>4 DEF Links
    <2>2. /\ new \in Lists
          /\ new.queue.m_head = (IF n = 0 THEN t[1] ELSE s[1])
          /\ new.queue.m_tail = t[m]
          /\ new.queue.m_InPacket = list.queue.m_InPacket + m
          /\ new.queue.m_OutPacket = list.queue.m_OutPacket
          /\ \A a \in Addresses : new.next[a] = IF n > 0 /\ a = s[n] THEN t[1] ELSE list.next[a]
      <3>1. m \in Int /\ q.m_tail \in Links
        BY <1>1 DEF Queues
      <3> DEFINE joined == [list.queue EXCEPT !.m_tail = t[m], !.m_InPacket = @ + m]
      <3>2. CASE n = 0
        <4>1. list.queue.m_tail = Null
          BY <3>2, <1>5
        <4>2. new = [queue |-> [joined EXCEPT !.m_head = t[1]], next |-> list.next]
          BY <4>1, <2>1, <1>4 DEF PushQueue, IsEmpty
        <4>3. /\ new.queue \in Queues
              /\ new.queue.m_head = t[1] /\ new.queue.m_tail = t[m]
              /\ new.queue.m_InPacket = list.queue.m_InPacket + m
              /\ new.queue.m_OutPacket = list.queue.m_OutPacket
          <5>1. PICK c \in Int : c = list.queue.m_InPacket + m
            BY <3>1, <1>3, QueueFields
          <5>2. new.queue = [list.queue EXCEPT !.m_tail = t[m], !.m_InPacket = c, !.m_head = t[1]]
            BY <5>1, <4>2
          <5> QED
            BY <5>1, <5>2, <3>1, <2>1, <1>3 DEF Queues
        <4>4. new \in Lists
          BY <4>2, <4>3, <1>3 DEF Lists
        <4>5. new.next = list.next
          BY <4>2
        <4> QED
          BY <4>3, <4>4, <4>5, <3>2
      <3>3. CASE n > 0
        <4>1. n # 0 /\ n \in 1..n
          BY <3>3, <1>1
        <4>2. /\ list.queue.m_tail = s[n] /\ list.queue.m_head = s[1]
              /\ s[n] # Null /\ s[n] \in Addresses
          BY <4>1, <1>3, <1>5
        <4>3. new = [queue |-> joined, next |-> [list.next EXCEPT ![s[n]] = t[1]]]
          BY <4>2, <2>1, <1>4 DEF PushQueue, IsEmpty
        <4>4. /\ new.queue \in Queues
              /\ new.queue.m_head = s[1] /\ new.queue.m_tail = t[m]
              /\ new.queue.m_InPacket = list.queue.m_InPacket + m
              /\ new.queue.m_OutPacket = list.queue.m_OutPacket
          <5>1. PICK c \in Int : c = list.queue.m_InPacket + m
            BY <3>1, <1>3, QueueFields
          <5>2. new.queue = [list.queue EXCEPT !.m_tail = t[m], !.m_InPacket = c]
            BY <5>1, <4>3
          <5> QED
            BY <5>1, <5>2, <4>2, <3>1, <2>1, <1>3 DEF Queues
        <4>5. /\ new.next \in [Addresses -> Links]
              /\ \A a \in Addresses : new.next[a] = IF a = s[n] THEN t[1] ELSE list.next[a]
          BY <4>2, <4>3, <2>1, <1>3
        <4>6. new \in Lists
          BY <4>3, <4>4, <4>5 DEF Lists
        <4> QED
          BY <4>4, <4>5, <4>6, <3>3, <4>1
      <3> QED
        BY <3>2, <3>3, <1>1
    <2>3. \A i \in 1..(n + m) :
            (i \in 1..n /\ u[i] = s[i]) \/ (i - n \in 1..m /\ u[i] = t[i - n])
      <3> SUFFICES ASSUME NEW i \in 1..(n + m), i \notin 1..n
                   PROVE  i - n \in 1..m /\ u[i] = t[i - n]
        BY <1>2
      <3>1. i - n \in 1..m /\ i = n + (i - n)
        BY <1>1
      <3> QED
        BY <3>1, <1>2
    <2>4. \A i, j \in DOMAIN u : u[i] = u[j] => i = j
      <3> SUFFICES ASSUME NEW i \in 1..(n + m), NEW j \in 1..(n + m), u[i] = u[j]
                   PROVE  i = j
        BY <1>2
      <3>1. CASE i \in 1..n /\ j \in 1..n
        BY <3>1, <1>2, <1>5
      <3>2. CASE i \in 1..n /\ j \notin 1..n
        <4>1. u[i] = s[i] /\ j - n \in 1..m /\ u[j] = t[j - n]
          BY <3>2, <2>3, <1>2
        <4> QED
          BY <4>1, <3>2, <1>1
      <3>3. CASE i \notin 1..n /\ j \in 1..n
        <4>1. u[j] = s[j] /\ i - n \in 1..m /\ u[i] = t[i - n]
          BY <3>3, <2>3, <1>2
        <4> QED
          BY <4>1, <3>3, <1>1
      <3>4. CASE i \notin 1..n /\ j \notin 1..n
        <4>1. /\ i - n \in 1..m /\ j - n \in 1..m /\ t[i - n] = t[j - n]
          BY <3>4, <2>3
        <4>2. i - n = j - n
          BY <4>1, <1>4
        <4> QED
          BY <4>2, <1>1
      <3> QED
        BY <3>1, <3>2, <3>3, <3>4
    <2>5. \A i \in DOMAIN u : new.next[u[i]] = IF i = Len(u) THEN Null ELSE u[i + 1]
      <3> SUFFICES ASSUME NEW i \in 1..(n + m)
                   PROVE  new.next[u[i]] = IF i = n + m THEN Null ELSE u[i + 1]
        BY <1>2
      <3>1. CASE i \in 1..n /\ i # n
        <4>1. i + 1 \in 1..n /\ n \in 1..n /\ i # n + m
          <5>1. n \in Nat /\ m \in Nat
            BY <1>1
          <5> QED
            BY <5>1, <3>1
        <4>2. u[i] = s[i] /\ u[i + 1] = s[i + 1]
          BY <4>1, <3>1, <1>2
        <4>3. s[i] # s[n] /\ list.next[s[i]] = s[i + 1]
          BY <4>1, <3>1, <1>5
        <4>4. s[i] \in Addresses
          BY <3>1, <1>3
        <4>5. new.next[s[i]] = list.next[s[i]]
          BY <4>3, <4>4, <2>2
        <4> QED
          BY <4>1, <4>2, <4>3, <4>5
      <3>2. CASE i = n
        <4>1. n > 0 /\ n \in 1..n /\ n # n + m /\ u[i] = s[n] /\ u[n + 1] = t[1]
          BY <3>2, <1>1, <1>2, <1>7
        <4> QED
          BY <4>1, <3>2, <1>3, <2>2
      <3>3. CASE i \notin 1..n
        <4>1. i - n \in 1..m /\ u[i] = t[i - n]
          BY <3>3, <2>3
        <4>2. \A k \in 1..n : s[k] # t[i - n]
          BY <4>1, <1>1
        <4>3. new.next[t[i - n]] = list.next[t[i - n]]
          BY <4>1, <4>2, <1>1, <1>3, <2>2
        <4>4. i # n + m => (i - n) + 1 \in 1..m /\ u[i + 1] = t[(i - n) + 1]
          <5> SUFFICES ASSUME i # n + m
                       PROVE  (i - n) + 1 \in 1..m /\ u[i + 1] = t[(i - n) + 1]
            OBVIOUS
          <5>1. (i - n) + 1 \in 1..m /\ i + 1 = n + ((i - n) + 1)
            BY <4>1, <1>1
          <5> QED
            BY <5>1, <1>2
        <4>5. i = n + m <=> i - n = m
          BY <1>1
        <4> QED
          BY <4>1, <4>3, <4>4, <4>5, <1>4
      <3> QED
        BY <3>1, <3>2, <3>3
    <2>6. Size(new.queue) = Len(u)
      <3>1. /\ list.queue.m_InPacket \in Int /\ list.queue.m_OutPacket \in Int
            /\ list.queue.m_InPacket - list.queue.m_OutPacket = n
        BY <1>3, <1>5 DEF Size, Queues
      <3>2. Size(new.queue) = (list.queue.m_InPacket + m) - list.queue.m_OutPacket
        BY <2>2 DEF Size
      <3>3. n \in Nat /\ m \in Nat /\ Len(u) = n + m
        BY <1>1, <1>2
      <3> QED
        BY <3>1, <3>2, <3>3
    <2>7. u # <<>> /\ u[1] = (IF n = 0 THEN t[1] ELSE s[1]) /\ u[Len(u)] = t[m]
      BY <1>1, <1>2, <1>7
    <2> QED
      BY <2>2, <2>4, <2>5, <2>6, <2>7, <1>2 DEF Holds
  <1> QED
    BY <1>6, <1>7, <1>1

-----------------------------------------------------------------------------
(* Bytes and packets.                                                      *)

(* A sequence that is cut at the places at, put together again. *)
LEMMA PiecesTogether ==
  ASSUME NEW T, NEW s \in Seq(T), NEW n \in Nat, NEW at \in [0..n -> 0..Len(s)],
         at[0] = 0, at[n] = Len(s), \A i \in 1..n : at[i - 1] <= at[i]
  PROVE  FlattenSeq([i \in 1..n |-> SubSeq(s, at[i - 1] + 1, at[i])]) = s
<1> DEFINE q(j) == [i \in 1..j |-> SubSeq(s, at[i - 1] + 1, at[i])]
           A == {j \in Nat : j <= n => FlattenSeq(q(j)) = SubSeq(s, 1, at[j])}
<1>1. PICK l \in Nat : l = Len(s)
  BY LenProperties
<1>2. \A i \in 1..n : /\ at[i - 1] \in Nat /\ at[i] \in Nat /\ at[i - 1] <= at[i] /\ at[i] <= l
                      /\ SubSeq(s, at[i - 1] + 1, at[i]) \in Seq(T)
  <2> SUFFICES ASSUME NEW i \in 1..n
               PROVE  /\ at[i - 1] \in Nat /\ at[i] \in Nat /\ at[i - 1] <= at[i] /\ at[i] <= l
                      /\ SubSeq(s, at[i - 1] + 1, at[i]) \in Seq(T)
    OBVIOUS
  <2>1. PICK a \in 0..l, b \in 0..l : a = at[i - 1] /\ b = at[i] /\ a <= b
    <3>1. i - 1 \in 0..n /\ i \in 0..n
      OBVIOUS
    <3> QED
      BY <1>1, <3>1
  <2>2. a \in Nat /\ b \in Nat /\ b <= Len(s)
    BY <1>1
  <2>3. SubSeq(s, a + 1, b) \in Seq(T)
    BY <2>1, <2>2, Slice
  <2> QED
    BY <2>1, <2>2, <2>3, <1>1
<1>3. \A j \in 0..n : q(j) \in Seq(Seq(T)) /\ Len(q(j)) = j
  <2> SUFFICES ASSUME NEW j \in 0..n PROVE q(j) \in Seq(Seq(T)) /\ Len(q(j)) = j
    OBVIOUS
  <2>1. j \in Nat /\ \A i \in 1..j : SubSeq(s, at[i - 1] + 1, at[i]) \in Seq(T)
    BY <1>2
  <2> QED
    BY <2>1
<1> HIDE DEF q
<1>4. 0 \in A
  <2>1. q(0) = <<>>
    <3>1. 0 \in 0..n
      OBVIOUS
    <3>2. q(0) \in Seq(Seq(T)) /\ Len(q(0)) = 0
      BY <1>3, <3>1
    <3> QED
      BY <3>2, EmptySeq
  <2>2. SubSeq(s, 1, at[0]) = <<>>
    BY SubSeqEmpty
  <2> QED
    BY <2>1, <2>2, FlattenEmpty
<1>5. ASSUME NEW j \in Nat, j \in A PROVE j + 1 \in A
  <2> SUFFICES ASSUME j + 1 <= n PROVE FlattenSeq(q(j + 1)) = SubSeq(s, 1, at[j + 1])
    OBVIOUS
  <2>1. PICK k \in 1..n : k = j + 1 /\ k - 1 = j
    OBVIOUS
  <2>2. PICK a \in Nat, b \in Nat : /\ a = at[j] /\ b = at[k] /\ a <= b /\ b <= l
                                    /\ SubSeq(s, a + 1, b) \in Seq(T)
    BY <1>2, <2>1
  <2>3. PICK x \in Seq(T) : x = SubSeq(s, a + 1, b)
    BY <2>2
  <2>4. PICK u \in Seq(Seq(T)) : u = q(j) /\ Len(u) = j
    <3>1. j \in 0..n
      OBVIOUS
    <3> QED
      BY <1>3, <3>1
  <2>5. PICK w \in Seq(Seq(T)) : w = q(k) /\ Len(w) = k
    <3>1. k \in 0..n
      OBVIOUS
    <3> QED
      BY <1>3, <3>1
  <2>6. /\ Append(u, x) \in Seq(Seq(T)) /\ Len(Append(u, x)) = j + 1
        /\ Append(u, x)[j + 1] = x /\ \A i \in 1..j : Append(u, x)[i] = u[i]
    BY <2>4, AppendProperties
  <2>7. \A i \in 1..k : w[i] = Append(u, x)[i]
    <3>1. \A i \in 1..k : w[i] = SubSeq(s, at[i - 1] + 1, at[i])
      BY <2>5 DEF q
    <3>2. \A i \in 1..j : u[i] = SubSeq(s, at[i - 1] + 1, at[i])
      BY <2>4 DEF q
    <3>3. w[k] = x
      BY <2>1, <2>2, <2>3, <3>1
    <3> SUFFICES ASSUME NEW i \in 1..k PROVE w[i] = Append(u, x)[i]
      OBVIOUS
    <3>4. CASE i = k
      BY <2>1, <2>6, <3>3, <3>4
    <3>5. CASE i # k
      <4>1. i \in 1..j
        BY <2>1, <3>5
      <4> QED
        BY <2>6, <3>1, <3>2, <4>1
    <3> QED
      BY <3>4, <3>5
  <2>8. w = Append(u, x)
    <3>1. Len(Append(u, x)) = Len(w)
      BY <2>1, <2>5, <2>6
    <3> QED
      BY <2>5, <2>6, <2>7, <3>1, SeqEqual
  <2>9. FlattenSeq(w) = FlattenSeq(u) \o x
    BY <2>8, FlattenAppend
  <2>10. FlattenSeq(u) = SubSeq(s, 1, a)
    BY <1>5, <2>1, <2>2, <2>4
  <2>11. SubSeq(s, 1, a) \o SubSeq(s, a + 1, b) = SubSeq(s, 1, b)
    <3>1. 1 \in 1..(Len(s) + 1) /\ a \in (1 - 1)..Len(s) /\ b \in a..Len(s)
      BY <1>1, <2>2
    <3> QED
      BY <3>1, ConcatAdjacentSubSeq
  <2> QED
    BY <2>1, <2>2, <2>3, <2>5, <2>9, <2>10, <2>11
<1> HIDE DEF A
<1>6. n \in A
  BY <1>4, <1>5, Induction
<1>7. FlattenSeq(q(n)) = SubSeq(s, 1, at[n])
  BY <1>6 DEF A
<1>8. SubSeq(s, 1, Len(s)) = s
  BY SubSeqFull
<1> QED
  BY <1>7, <1>8 DEF q

(* How many pieces of at most k there are, and where they begin. *)
PieceNumber(l, k) == (l + k - 1) \div k

(* As many packets as it takes. *)
LEMMA PieceCount ==
  ASSUME NEW l \in Nat, NEW k \in Nat \ {0}, NEW n, n = PieceNumber(l, k)
  PROVE  /\ n \in Nat /\ (l = 0 => n = 0) /\ k * n >= l
         /\ \A i \in 1..n : k * (i - 1) \in Nat /\ k * (i - 1) < l /\ k * i \in Nat /\ k * (i - 1) + k = k * i
<1>1. PICK a \in Int : a = l + k - 1 /\ a >= 0
  OBVIOUS
<1>2. /\ a = k * (a \div k) + (a % k) /\ a \div k \in Int /\ a % k \in Int /\ 0 <= a % k /\ a % k < k
  BY <1>1, DivMod
<1>3. PICK r \in Int : r = a % k /\ a = k * n + r /\ 0 <= r /\ r < k /\ n \in Int
  BY <1>1, <1>2 DEF PieceNumber
<1>4. n \in Nat
  <2> SUFFICES ASSUME n < 0 PROVE FALSE
    BY <1>3
  <2>1. PICK m \in Nat : n = -(m + 1)
    <3>1. -n - 1 \in Nat /\ n = -((-n - 1) + 1)
      BY <1>3
    <3> QED
      BY <3>1
  <2>2. k * n = -(k * m) - k /\ k * m \in Nat
    BY <2>1
  <2> QED
    BY <1>1, <1>3, <2>2
<1>5. PICK kn \in Nat : kn = k * n /\ a = kn + r
  BY <1>3, <1>4
<1>6. kn >= l
  BY <1>1, <1>3, <1>5
<1>7. kn - k < l
  BY <1>1, <1>3, <1>5
<1>8. l = 0 => n = 0
  <2> SUFFICES ASSUME l = 0, n # 0 PROVE FALSE
    OBVIOUS
  <2>1. PICK m \in Nat : n = m + 1
    <3>1. n - 1 \in Nat /\ n = (n - 1) + 1
      BY <1>4
    <3> QED
      BY <3>1
  <2>2. k * n = k * m + k /\ k * m \in Nat
    BY <2>1
  <2> QED
    BY <1>5, <1>7, <2>2
<1>9. ASSUME NEW i \in 1..n
      PROVE  k * (i - 1) \in Nat /\ k * (i - 1) < l /\ k * i \in Nat /\ k * (i - 1) + k = k * i
  <2>1. PICK c \in Nat, d \in Nat : c = k * (i - 1) /\ d = k * i /\ d <= k * n /\ c + k = d
    BY <1>4, Multiples
  <2>2. c < l
    BY <1>5, <1>7, <2>1
  <2> QED
    BY <2>1, <2>2
<1> QED
  BY <1>4, <1>5, <1>6, <1>8, <1>9

(* What the provers are told of the sizes of the buffers. *)
LEMMA StreamNumbers ==
  /\ PacketLen \in Nat \ {0} /\ SendBuffer \in Nat \ {0} /\ RecvBuffer \in Nat \ {0} /\ LogicBuffer \in Nat \ {0}
  /\ PacketLen <= SendBuffer /\ SendBuffer + PacketLen <= LogicBuffer
BY StreamSizes

(* What a packet can hold. *)
Pieces == {x \in Seq(Bytes) : Len(x) \in 1..PacketLen}

(* The packets hold the bytes, in order, and none is empty or too long.    *)
THEOREM PacketsHoldBytes ==
  ASSUME NEW bytes \in Seq(Bytes)
  PROVE  /\ Packets(bytes) \in Seq(Pieces)
         /\ FlattenSeq(Packets(bytes)) = bytes
<1>1. PICK l \in Nat, k \in Nat \ {0} : l = Len(bytes) /\ k = PacketLen
  BY LenProperties, StreamNumbers
<1>2. PICK n : n = PieceNumber(l, k)
  OBVIOUS
<1>3. /\ n \in Nat /\ (l = 0 => n = 0)
      /\ \A i \in 1..n : k * (i - 1) \in Nat /\ k * (i - 1) < l /\ k * i \in Nat /\ k * (i - 1) + k = k * i
  BY <1>2, PieceCount
<1>4. PICK kn \in Nat : kn = k * n /\ kn >= l
  BY <1>2, PieceCount
<1> DEFINE at == [i \in 0..n |-> Least(k * i, l)]
<1>5. \A i \in 1..n : /\ at[i - 1] = k * (i - 1) /\ at[i] = Least(k * i, l) /\ at[i - 1] < at[i]
                      /\ at[i] \in 0..l /\ at[i - 1] \in 0..l /\ at[i] - at[i - 1] <= k
  <2> SUFFICES ASSUME NEW i \in 1..n
               PROVE  /\ at[i - 1] = k * (i - 1) /\ at[i] = Least(k * i, l) /\ at[i - 1] < at[i]
                      /\ at[i] \in 0..l /\ at[i - 1] \in 0..l /\ at[i] - at[i - 1] <= k
    OBVIOUS
  <2>1. PICK a \in Nat, b \in Nat : a = k * (i - 1) /\ b = k * i /\ a < l /\ a + k = b
    BY <1>3
  <2>2. i \in 0..n /\ i - 1 \in 0..n
    BY <1>3
  <2>3. at[i - 1] = Least(a, l) /\ at[i] = Least(b, l)
    BY <2>1, <2>2
  <2>4. Least(a, l) = a /\ Least(b, l) > a /\ Least(b, l) \in 0..l /\ Least(b, l) - a <= k
    BY <1>1, <2>1 DEF Least
  <2> QED
    BY <2>1, <2>3, <2>4
<1>6. at[0] = 0 /\ at[n] = l
  <2>1. at[0] = Least(k * 0, l) /\ at[n] = Least(k * n, l)
    BY <1>3
  <2>2. k * 0 = 0
    BY <1>1
  <2>3. Least(0, l) = 0 /\ Least(kn, l) = l
    BY <1>4 DEF Least
  <2> QED
    BY <1>4, <2>1, <2>2, <2>3
<1>7. at \in [0..n -> 0..l]
  <2> SUFFICES ASSUME NEW i \in 0..n PROVE Least(k * i, l) \in 0..l
    OBVIOUS
  <2>1. CASE i = 0
    BY <1>1, <1>6, <2>1
  <2>2. CASE i # 0
    <3>1. i \in 1..n
      BY <1>3, <2>2
    <3> QED
      BY <1>5, <3>1
  <2> QED
    BY <2>1, <2>2
<1>8. Packets(bytes) = [i \in 1..n |-> SubSeq(bytes, at[i - 1] + 1, at[i])]
  <2>1. Packets(bytes) = [i \in 1..n |-> SubSeq(bytes, k * (i - 1) + 1, Least(k * i, l))]
    BY <1>1, <1>2, Zenon DEF Packets, PieceNumber
  <2>2. \A i \in 1..n : SubSeq(bytes, k * (i - 1) + 1, Least(k * i, l)) = SubSeq(bytes, at[i - 1] + 1, at[i])
    <3> HIDE DEF at
    <3> QED
      BY <1>5
  <2> HIDE DEF at
  <2> QED
    BY <2>1, <2>2, Zenon
<1> HIDE DEF at
<1>9. FlattenSeq(Packets(bytes)) = bytes
  <2>1. at \in [0..n -> 0..Len(bytes)] /\ at[n] = Len(bytes) /\ \A i \in 1..n : at[i - 1] <= at[i]
    <3>1. \A i \in 1..n : at[i - 1] <= at[i]
      BY <1>5
    <3> QED
      BY <1>1, <1>6, <1>7, <3>1
  <2>2. FlattenSeq([i \in 1..n |-> SubSeq(bytes, at[i - 1] + 1, at[i])]) = bytes
    BY <1>3, <1>6, <2>1, PiecesTogether
  <2> QED
    BY <1>8, <2>2, Zenon
<1>10. \A i \in 1..n : SubSeq(bytes, at[i - 1] + 1, at[i]) \in Pieces
  <2> SUFFICES ASSUME NEW i \in 1..n PROVE SubSeq(bytes, at[i - 1] + 1, at[i]) \in Pieces
    OBVIOUS
  <2>1. PICK a \in Nat, b \in Nat : a = at[i - 1] /\ b = at[i] /\ a < b /\ b <= l /\ b - a <= k
    BY <1>5
  <2>2. a <= b /\ b <= Len(bytes)
    BY <1>1, <2>1
  <2>3. SubSeq(bytes, a + 1, b) \in Seq(Bytes) /\ Len(SubSeq(bytes, a + 1, b)) = b - a
    BY <2>2, Slice
  <2>4. b - a \in 1..PacketLen
    BY <1>1, <2>1
  <2> QED
    BY <2>1, <2>3, <2>4 DEF Pieces
<1>11. Packets(bytes) \in Seq(Pieces)
  BY <1>3, <1>8, <1>10
<1> QED
  BY <1>9, <1>11

(* A packet that is pushed leaves a queue. *)
LEMMA PushPacketType ==
  ASSUME NEW list \in Lists, NEW p \in Addresses
  PROVE  PushPacket(list, p) \in Lists
<1>1. list.queue \in Queues /\ list.next \in [Addresses -> Links] /\ p \in Links /\ Null \in Links
  BY DEF Lists, Links
<1>2. PICK q \in Queues, next \in [Addresses -> Links] : q = list.queue /\ next = list.next
  BY <1>1
<1>3. q.m_tail \in Links /\ \A k \in Int : q.m_InPacket + k \in Int
  BY QueueFields
<1> DEFINE cleared == [next EXCEPT ![p] = Null]
           q1 == [q EXCEPT !.m_tail = p, !.m_InPacket = @ + 1]
           q2 == [q EXCEPT !.m_head = p, !.m_tail = p, !.m_InPacket = @ + 1]
<1>4. cleared \in [Addresses -> Links]
  BY <1>1
<1>5. q1 \in Queues /\ q2 \in Queues
  <2>1. PICK c \in Int : c = q.m_InPacket + 1
    BY <1>3
  <2>2. q1 = [q EXCEPT !.m_tail = p, !.m_InPacket = c] /\ q2 = [q EXCEPT !.m_head = p, !.m_tail = p, !.m_InPacket = c]
    BY <2>1
  <2> QED
    BY <1>1, <2>1, <2>2 DEF Queues
<1>6. PushPacket(list, p) = IF q.m_tail # Null
                            THEN [queue |-> q1, next |-> [cleared EXCEPT ![q.m_tail] = p]]
                            ELSE [queue |-> q2, next |-> cleared]
  BY <1>2, Zenon DEF PushPacket
<1> HIDE DEF cleared, q1, q2
<1>7. [cleared EXCEPT ![q.m_tail] = p] \in [Addresses -> Links]
  BY <1>1, <1>4
<1> QED
  BY <1>4, <1>5, <1>6, <1>7 DEF Lists

(* A packet that is pushed changes the m_next of no packet but itself and  *)
(* the last one.                                                           *)
LEMMA PushPacketElsewhere ==
  ASSUME NEW list \in Lists, NEW s, Holds(list, s), NEW p \in Addresses,
         NEW a \in Addresses, a # p, \A i \in DOMAIN s : s[i] # a
  PROVE  PushPacket(list, p).next[a] = list.next[a]
<1>1. list.queue \in Queues /\ list.next \in [Addresses -> Links]
  BY DEF Lists
<1>2. PICK q \in Queues, next \in [Addresses -> Links] : q = list.queue /\ next = list.next
  BY <1>1
<1>3. q.m_tail # a
  <2>1. CASE s = <<>>
    BY <1>2, <2>1, NullIsNoAddress DEF Holds
  <2>2. CASE s # <<>>
    <3>1. s \in Seq(Addresses) /\ Len(s) \in DOMAIN s
      BY <2>2, EmptySeq, LenProperties DEF Holds
    <3> QED
      BY <1>2, <2>2, <3>1 DEF Holds
  <2> QED
    BY <2>1, <2>2
<1> DEFINE cleared == [next EXCEPT ![p] = Null]
           q1 == [q EXCEPT !.m_tail = p, !.m_InPacket = @ + 1]
           q2 == [q EXCEPT !.m_head = p, !.m_tail = p, !.m_InPacket = @ + 1]
<1>4. cleared[a] = next[a] /\ cleared = [x \in Addresses |-> cleared[x]]
  OBVIOUS
<1>5. PushPacket(list, p) = IF q.m_tail # Null
                            THEN [queue |-> q1, next |-> [cleared EXCEPT ![q.m_tail] = p]]
                            ELSE [queue |-> q2, next |-> cleared]
  BY <1>2, Zenon DEF PushPacket
<1> HIDE DEF cleared, q1, q2
<1>6. [cleared EXCEPT ![q.m_tail] = p][a] = cleared[a]
  BY <1>3, <1>4
<1> QED
  BY <1>2, <1>4, <1>5, <1>6

-----------------------------------------------------------------------------
(* The queue of one Send.                                                  *)

(* list[i] is the set of the one list that holds the first i packets of new. *)
QueuedLists(new, next, n, list) ==
  /\ list[0] = {[queue |-> EmptyQueue, next |-> next]}
  /\ \A i \in 1..n : list[i] = {PushPacket(before, new[i]) : before \in list[i - 1]}

(* The queue of Send is made by pushing one packet after the other. *)
LEMMA QueuedDef ==
  ASSUME NEW new \in Seq(Addresses), NEW next \in [Addresses -> Links], NEW n, n = Len(new)
  PROVE  \E list : QueuedLists(new, next, n, list) /\ Queued(new, next) = list[n]
<1> DEFINE first == [queue |-> EmptyQueue, next |-> next]
           push(x, i) == {PushPacket(before, new[i]) : before \in x}
           g == [i \in 1..n |-> [x \in SUBSET Lists |-> push(x, i)]]
           list == CHOOSE f : f = [i \in 0..Len(new) |->
                     IF i = 0 THEN {[queue |-> EmptyQueue, next |-> next]}
                     ELSE {PushPacket(before, new[i]) : before \in f[i - 1]}]
<1>1. n \in Nat
  BY LenProperties
<1>2. first \in Lists
  BY DEF Lists, Queues, EmptyQueue, Links
<1>3. \A i \in 1..n : \A x \in SUBSET Lists : push(x, i) \in SUBSET Lists
  <2> SUFFICES ASSUME NEW i \in 1..n, NEW x \in SUBSET Lists, NEW before \in x
               PROVE  PushPacket(before, new[i]) \in Lists
    OBVIOUS
  <2>1. new[i] \in Addresses /\ before \in Lists
    BY <1>1
  <2> QED
    BY <2>1, PushPacketType
<1> HIDE DEF first, push, list
<1>4. g \in [1..n -> [SUBSET Lists -> SUBSET Lists]]
  BY <1>3
<1>5. \A i \in 1..n : \A x \in SUBSET Lists : g[i][x] = push(x, i)
  OBVIOUS
<1> HIDE DEF g
<1>6. {first} \in SUBSET Lists
  BY <1>2
<1>7. PICK f \in [0..n -> SUBSET Lists] : Recursion(f, n, {first}, g)
  BY <1>1, <1>4, <1>6, RecursionExists
<1>8. \A i \in 0..n : f[i] = IF i = 0 THEN {first} ELSE g[i][f[i - 1]]
  BY <1>7 DEF Recursion
<1>9. \A i \in 0..n : f[i] = IF i = 0 THEN {first} ELSE push(f[i - 1], i)
  <2> SUFFICES ASSUME NEW i \in 0..n, i # 0 PROVE g[i][f[i - 1]] = push(f[i - 1], i)
    BY <1>8
  <2>1. i \in 1..n /\ i - 1 \in 0..n
    BY <1>1
  <2>2. f[i - 1] \in SUBSET Lists
    BY <2>1
  <2> QED
    BY <1>5, <2>1, <2>2
<1>10. f = [i \in 0..n |-> IF i = 0 THEN {first} ELSE push(f[i - 1], i)]
  BY <1>9
<1>11. list = [i \in 0..Len(new) |-> IF i = 0 THEN {[queue |-> EmptyQueue, next |-> next]}
                                ELSE {PushPacket(before, new[i]) : before \in list[i - 1]}]
  <2>1. f = [i \in 0..Len(new) |-> IF i = 0 THEN {[queue |-> EmptyQueue, next |-> next]}
                                ELSE {PushPacket(before, new[i]) : before \in f[i - 1]}]
    BY <1>10, Zenon DEF first, push
  <2> QED
    BY <2>1, Zenon DEF list
<1>12. Queued(new, next) = list[n]
  BY Zenon DEF Queued, list
<1>13. QueuedLists(new, next, n, list)
  <2>1. 0 \in 0..Len(new) /\ \A i \in 1..n : i \in 0..Len(new) /\ i # 0
    BY <1>1
  <2> QED
    BY <1>11, <2>1, Zenon DEF QueuedLists
<1> QED
  BY <1>12, <1>13

(* The list that a Send makes holds the packets of the Send, and the       *)
(* memory of the others is as it was.                                      *)
LEMMA QueuedHolds ==
  ASSUME NEW new \in Seq(Addresses), \A i, j \in DOMAIN new : new[i] = new[j] => i = j,
         NEW next \in [Addresses -> Links], NEW packets \in Queued(new, next)
  PROVE  /\ packets \in Lists /\ Holds(packets, new)
         /\ \A a \in Addresses : (\A i \in DOMAIN new : new[i] # a) => packets.next[a] = next[a]
<1>1. PICK n \in Nat : n = Len(new) /\ DOMAIN new = 1..n
  BY LenProperties
<1>2. PICK list : QueuedLists(new, next, n, list) /\ Queued(new, next) = list[n]
  BY <1>1, QueuedDef
<1> DEFINE q(i) == [k \in 1..i |-> new[k]]
           Good(i, x) == /\ x \in Lists /\ Holds(x, q(i))
                         /\ \A a \in Addresses : (\A k \in 1..n : new[k] # a) => x.next[a] = next[a]
           A == {i \in Nat : i <= n => \A x \in list[i] : Good(i, x)}
<1>3. \A i \in 0..n : q(i) \in Seq(Addresses) /\ Len(q(i)) = i /\ DOMAIN q(i) = 1..i /\ \A k \in 1..i : q(i)[k] = new[k]
  <2> SUFFICES ASSUME NEW i \in 0..n
               PROVE  q(i) \in Seq(Addresses) /\ Len(q(i)) = i /\ DOMAIN q(i) = 1..i /\ \A k \in 1..i : q(i)[k] = new[k]
    OBVIOUS
  <2>1. i \in Nat /\ \A k \in 1..i : new[k] \in Addresses
    BY <1>1
  <2> QED
    BY <2>1
<1> HIDE DEF q
<1>4. Good(0, [queue |-> EmptyQueue, next |-> next])
  <2>1. q(0) = <<>>
    <3>1. 0 \in 0..n
      BY <1>1
    <3>2. q(0) \in Seq(Addresses) /\ Len(q(0)) = 0
      BY <1>3, <3>1
    <3> QED
      BY <3>2, EmptySeq
  <2>2. [queue |-> EmptyQueue, next |-> next] \in Lists
    BY DEF Lists, Queues, EmptyQueue, Links
  <2>3. Holds([queue |-> EmptyQueue, next |-> next], <<>>)
    BY DEF Holds, EmptyQueue, Size
  <2> QED
    BY <2>1, <2>2, <2>3
<1>5. ASSUME NEW i \in 1..n, NEW x, Good(i - 1, x) PROVE Good(i, PushPacket(x, new[i]))
  <2> DEFINE s == q(i - 1)
             p == new[i]
  <2>1. i - 1 \in 0..n /\ i \in 0..n /\ p \in Addresses
    BY <1>1
  <2>2. /\ s \in Seq(Addresses) /\ Len(s) = i - 1 /\ DOMAIN s = 1..(i - 1)
        /\ \A k \in 1..(i - 1) : s[k] = new[k]
    BY <1>3, <2>1
  <2>3. \A k \in DOMAIN s : s[k] # p
    <3> SUFFICES ASSUME NEW k \in 1..(i - 1) PROVE s[k] # p
      BY <2>2
    <3>1. k \in DOMAIN new /\ i \in DOMAIN new /\ k # i
      BY <1>1
    <3> QED
      BY <2>2, <3>1
  <2>4. Append(s, p) = q(i)
    <3>1. /\ Append(s, p) \in Seq(Addresses) /\ Len(Append(s, p)) = (i - 1) + 1
          /\ Append(s, p)[(i - 1) + 1] = p /\ \A k \in 1..(i - 1) : Append(s, p)[k] = s[k]
      BY <2>1, <2>2, AppendProperties
    <3>2. q(i) \in Seq(Addresses) /\ Len(q(i)) = i /\ \A k \in 1..i : q(i)[k] = new[k]
      BY <1>3, <2>1
    <3>3. (i - 1) + 1 = i
      OBVIOUS
    <3>4. \A k \in 1..i : Append(s, p)[k] = q(i)[k]
      <4> SUFFICES ASSUME NEW k \in 1..i PROVE Append(s, p)[k] = q(i)[k]
        OBVIOUS
      <4>1. CASE k = i
        BY <3>1, <3>2, <3>3, <4>1
      <4>2. CASE k # i
        <5>1. k \in 1..(i - 1)
          BY <4>2
        <5> QED
          BY <2>2, <3>1, <3>2, <5>1
      <4> QED
        BY <4>1, <4>2
    <3> QED
      BY <3>1, <3>2, <3>3, <3>4, SeqEqual
  <2> HIDE DEF s
  <2>5. x \in Lists /\ Holds(x, s)
    BY <1>5 DEF s
  <2>6. PushPacket(x, p) \in Lists /\ Holds(PushPacket(x, p), q(i))
    BY <2>1, <2>3, <2>4, <2>5, PushPacketAppends
  <2>7. ASSUME NEW a \in Addresses, \A k \in 1..n : new[k] # a PROVE PushPacket(x, p).next[a] = next[a]
    <3>1. a # p /\ \A k \in DOMAIN s : s[k] # a
      <4>1. a # p
        BY <2>7
      <4>2. \A k \in 1..(i - 1) : k \in 1..n
        OBVIOUS
      <4> QED
        BY <2>2, <2>7, <4>1, <4>2
    <3>2. PushPacket(x, p).next[a] = x.next[a]
      BY <2>1, <2>5, <3>1, PushPacketElsewhere
    <3> QED
      BY <1>5, <2>7, <3>2
  <2> QED
    BY <2>6, <2>7
<1> HIDE DEF Good
<1>6. 0 \in A
  BY <1>2, <1>4 DEF QueuedLists
<1>7. ASSUME NEW i \in Nat, i \in A PROVE i + 1 \in A
  <2> SUFFICES ASSUME i + 1 <= n, NEW x \in list[i + 1] PROVE Good(i + 1, x)
    OBVIOUS
  <2>1. PICK k \in 1..n : k = i + 1 /\ k - 1 = i
    OBVIOUS
  <2>2. list[k] = {PushPacket(before, new[k]) : before \in list[k - 1]}
    BY <1>2 DEF QueuedLists
  <2>3. PICK before \in list[k - 1] : x = PushPacket(before, new[k])
    BY <2>1, <2>2
  <2>4. Good(k - 1, before)
    BY <1>7, <2>1, <2>3
  <2> QED
    BY <1>5, <2>1, <2>3, <2>4
<1> HIDE DEF A
<1>8. n \in A
  BY <1>6, <1>7, Induction
<1>9. Good(n, packets)
  BY <1>1, <1>2, <1>8 DEF A
<1>10. q(n) = new
  <2>1. n \in 0..n
    OBVIOUS
  <2>2. q(n) \in Seq(Addresses) /\ Len(q(n)) = n /\ \A k \in 1..n : q(n)[k] = new[k]
    BY <1>3, <2>1
  <2> QED
    BY <1>1, <2>2, SeqEqual
<1> QED
  BY <1>1, <1>9, <1>10 DEF Good

(* The addresses of new packets are free, and different from each other. *)
LEMMA NewPacketsAre ==
  ASSUME NEW n \in Nat, NEW free \in SUBSET Addresses, free = Free, Cardinality(free) >= n
  PROVE  /\ NewPackets(n) \in Seq(Addresses) /\ Len(NewPackets(n)) = n /\ DOMAIN NewPackets(n) = 1..n
         /\ \A i \in 1..n : NewPackets(n)[i] \in free
         /\ \A i, j \in 1..n : NewPackets(n)[i] = NewPackets(n)[j] => i = j
<1>1. IsFiniteSet(free)
  <2>1. IsFiniteSet(Addresses)
    BY FS_Interval, PacketsAssumption DEF Addresses
  <2> QED
    BY <2>1, FS_Subset
<1>2. PICK c \in Nat : c = Cardinality(free) /\ c >= n /\ ExistsBijection(1..c, free)
  BY <1>1, FS_CardinalityType
<1>3. PICK f \in Injection(1..c, free) : TRUE
  BY <1>2 DEF ExistsBijection, Bijection
<1>4. f \in [1..c -> free] /\ \A i, j \in 1..c : f[i] = f[j] => i = j
  BY DEF Injection, IsInjective
<1> DEFINE g == [i \in 1..n |-> f[i]]
<1>5. g \in [1..n -> free] /\ \A i, j \in 1..n : g[i] = g[j] => i = j
  <2>1. \A i \in 1..n : i \in 1..c
    BY <1>2
  <2> QED
    BY <1>4, <2>1
<1>6. NewPackets(n) = CHOOSE new \in [1..n -> free] : \A i, j \in 1..n : new[i] = new[j] => i = j
  BY Zenon DEF NewPackets
<1> HIDE DEF g
<1>7. NewPackets(n) \in [1..n -> free] /\ \A i, j \in 1..n : NewPackets(n)[i] = NewPackets(n)[j] => i = j
  BY <1>5, <1>6, Zenon
<1>8. NewPackets(n) \in Seq(Addresses)
  BY <1>7
<1> QED
  BY <1>7, <1>8

-----------------------------------------------------------------------------
(* What waits in the send queue.                                           *)

(* The bytes of the packets pks. *)
Held(pks, data) == [i \in DOMAIN pks |-> data[pks[i]]]

(* The packets of a list hold these bytes; those that are not in the list  *)
(* may be free, those that are in it are not.                              *)
Waits(list, data, bytes) ==
  /\ list \in Lists /\ data \in [Addresses -> Seq(Bytes)]
  /\ \A p \in Addresses : Len(data[p]) <= PacketLen
  /\ \E pks : /\ Holds(list, pks) /\ \A i \in DOMAIN pks : data[pks[i]] # <<>>
              /\ bytes = FlattenSeq(Held(pks, data))

(* The bytes of the packets of a queue, packet by packet, *)
LEMMA HeldType ==
  ASSUME NEW pks \in Seq(Addresses), NEW data \in [Addresses -> Seq(Bytes)]
  PROVE  Held(pks, data) \in Seq(Seq(Bytes)) /\ Len(Held(pks, data)) = Len(pks)
<1>1. Len(pks) \in Nat /\ DOMAIN pks = 1..Len(pks) /\ \A i \in 1..Len(pks) : data[pks[i]] \in Seq(Bytes)
  BY LenProperties
<1> QED
  BY <1>1 DEF Held

(* and of two queues. *)
LEMMA HeldConcat ==
  ASSUME NEW s \in Seq(Addresses), NEW t \in Seq(Addresses), NEW data \in [Addresses -> Seq(Bytes)]
  PROVE  Held(s \o t, data) = Held(s, data) \o Held(t, data)
<1>1. PICK n \in Nat, m \in Nat : n = Len(s) /\ m = Len(t) /\ DOMAIN s = 1..n /\ DOMAIN t = 1..m
  BY LenProperties
<1>2. /\ s \o t \in Seq(Addresses) /\ Len(s \o t) = n + m
      /\ \A i \in 1..(n + m) : (s \o t)[i] = IF i <= n THEN s[i] ELSE t[i - n]
  BY <1>1, ConcatProperties
<1>3. PICK u \in Seq(Addresses) : u = s \o t /\ Len(u) = n + m /\ DOMAIN u = 1..(n + m)
  BY <1>2, LenProperties
<1>4. PICK hs \in Seq(Seq(Bytes)) : hs = Held(s, data) /\ Len(hs) = n
  BY <1>1, HeldType
<1>5. PICK ht \in Seq(Seq(Bytes)) : ht = Held(t, data) /\ Len(ht) = m
  BY <1>1, HeldType
<1>6. PICK hu \in Seq(Seq(Bytes)) : hu = Held(u, data) /\ Len(hu) = n + m
  BY <1>3, HeldType
<1>7. /\ hs \o ht \in Seq(Seq(Bytes)) /\ Len(hs \o ht) = n + m
      /\ \A i \in 1..(n + m) : (hs \o ht)[i] = IF i <= n THEN hs[i] ELSE ht[i - n]
  <2>1. Len(hs) = n /\ Len(ht) = m
    BY <1>4, <1>5
  <2> QED
    BY <2>1, ConcatProperties
<1>8. ASSUME NEW i \in 1..(n + m) PROVE hu[i] = (hs \o ht)[i]
  <2>1. hu[i] = data[u[i]]
    BY <1>3, <1>6 DEF Held
  <2>2. CASE i <= n
    <3>1. i \in 1..n
      BY <2>2
    <3>2. hs[i] = data[s[i]]
      BY <1>1, <1>4, <3>1 DEF Held
    <3> QED
      BY <1>2, <1>3, <1>7, <2>1, <2>2, <3>2
  <2>3. CASE ~(i <= n)
    <3>1. i - n \in 1..m
      BY <2>3
    <3>2. ht[i - n] = data[t[i - n]]
      BY <1>1, <1>5, <3>1 DEF Held
    <3> QED
      BY <1>2, <1>3, <1>7, <2>1, <2>3, <3>2
  <2> QED
    BY <2>2, <2>3
<1>9. hu = hs \o ht
  BY <1>6, <1>7, <1>8, SeqEqual
<1> QED
  BY <1>3, <1>4, <1>5, <1>6, <1>9

(* What waits in a queue is a sequence of bytes. *)
LEMMA WaitsType ==
  ASSUME NEW list, NEW data, NEW bytes, Waits(list, data, bytes)
  PROVE  bytes \in Seq(Bytes)
<1>1. PICK pks : Holds(list, pks) /\ bytes = FlattenSeq(Held(pks, data)) /\ data \in [Addresses -> Seq(Bytes)]
  BY DEF Waits
<1>2. pks \in Seq(Addresses)
  BY <1>1 DEF Holds
<1> QED
  BY <1>1, <1>2, HeldType, FlattenType

(* What Send puts into the packets whose addresses are new. *)
Filled(new, cut, data) ==
  [p \in Addresses |-> IF p \in ToSet(new) THEN cut[CHOOSE i \in DOMAIN new : new[i] = p] ELSE data[p]]

(* CConnect::Send appends its bytes to those that wait. *)
LEMMA SendAppends ==
  ASSUME NEW list, NEW data, NEW waiting, Waits(list, data, waiting), NEW bytes \in Seq(Bytes),
         NEW cut, cut = Packets(bytes), NEW new \in Seq(Addresses), DOMAIN new = 1..Len(cut),
         \A i \in DOMAIN new : data[new[i]] = <<>>,
         \A i, j \in DOMAIN new : new[i] = new[j] => i = j,
         NEW packets \in Queued(new, list.next)
  PROVE  Waits(PushQueue([list EXCEPT !.next = packets.next], packets.queue), Filled(new, cut, data), waiting \o bytes)
<1> DEFINE joined == [list EXCEPT !.next = packets.next]
           filled == Filled(new, cut, data)
           after == PushQueue(joined, packets.queue)
<1>1. list \in Lists /\ list.queue \in Queues /\ list.next \in [Addresses -> Links] /\ data \in [Addresses -> Seq(Bytes)]
      /\ \A p \in Addresses : Len(data[p]) <= PacketLen
  BY DEF Waits, Lists
<1>2. PICK pks : /\ Holds(list, pks) /\ \A i \in DOMAIN pks : data[pks[i]] # <<>>
                 /\ waiting = FlattenSeq(Held(pks, data))
  BY DEF Waits
<1>3. pks \in Seq(Addresses)
  BY <1>2 DEF Holds
<1>4. /\ packets \in Lists /\ Holds(packets, new)
      /\ \A a \in Addresses : (\A i \in DOMAIN new : new[i] # a) => packets.next[a] = list.next[a]
  <2>1. PICK next \in [Addresses -> Links] : next = list.next /\ packets \in Queued(new, next)
    BY <1>1
  <2> QED
    BY <2>1, QueuedHolds
<1>5. packets.queue \in Queues /\ packets.next \in [Addresses -> Links] /\ packets = [queue |-> packets.queue, next |-> packets.next]
  BY <1>4 DEF Lists
<1>6. joined = [queue |-> list.queue, next |-> packets.next]
  BY <1>1 DEF Lists
<1>7. joined \in Lists /\ joined.queue = list.queue /\ joined.next = packets.next
  BY <1>1, <1>5, <1>6 DEF Lists
<1> HIDE DEF joined
<1>8. \A i \in DOMAIN pks, j \in DOMAIN new : pks[i] # new[j]
  BY <1>2
<1>9. \A i \in DOMAIN pks : pks[i] \in Addresses
  BY <1>3
<1>10. Holds(joined, pks)
  <2>1. \A i \in DOMAIN pks : packets.next[pks[i]] = list.next[pks[i]]
    BY <1>4, <1>8, <1>9
  <2> QED
    BY <1>2, <1>7, <2>1 DEF Holds
<1>11. Holds([queue |-> packets.queue, next |-> joined.next], new)
  BY <1>4, <1>5, <1>7
<1>12. after \in Lists /\ Holds(after, pks \o new)
  BY <1>5, <1>7, <1>8, <1>10, <1>11, PushQueueConcatenates
<1> HIDE DEF after
<1>13. /\ cut \in Seq(Pieces) /\ FlattenSeq(cut) = bytes
  BY PacketsHoldBytes
<1>14. \A i \in DOMAIN new : cut[i] \in Seq(Bytes) /\ Len(cut[i]) \in 1..PacketLen /\ cut[i] # <<>>
  <2>1. \A i \in 1..Len(cut) : cut[i] \in Pieces
    BY <1>13
  <2> QED
    BY <2>1, EmptySeq DEF Pieces
<1>15. \A i \in DOMAIN new : filled[new[i]] = cut[i]
  <2> SUFFICES ASSUME NEW i \in DOMAIN new PROVE filled[new[i]] = cut[i]
    OBVIOUS
  <2>1. new[i] \in Addresses /\ new[i] \in ToSet(new)
    BY DEF ToSet
  <2>2. (CHOOSE k \in DOMAIN new : new[k] = new[i]) = i
    OBVIOUS
  <2> QED
    BY <2>1, <2>2 DEF Filled
<1>16. \A p \in Addresses : (\A i \in DOMAIN new : new[i] # p) => filled[p] = data[p]
  BY DEF Filled, ToSet
<1>17. filled \in [Addresses -> Seq(Bytes)] /\ \A p \in Addresses : Len(filled[p]) <= PacketLen
  <2>1. \A p \in Addresses : filled[p] \in Seq(Bytes) /\ Len(filled[p]) <= PacketLen
    <3> SUFFICES ASSUME NEW p \in Addresses PROVE filled[p] \in Seq(Bytes) /\ Len(filled[p]) <= PacketLen
      OBVIOUS
    <3>1. CASE \E i \in DOMAIN new : new[i] = p
      <4>1. PICK i \in DOMAIN new : new[i] = p
        BY <3>1
      <4>2. filled[p] = cut[i]
        BY <1>15, <4>1
      <4> HIDE DEF filled
      <4>3. cut[i] \in Seq(Bytes) /\ Len(cut[i]) \in 1..PacketLen
        BY <1>14
      <4> QED
        BY <4>2, <4>3, StreamNumbers
    <3>2. CASE ~ \E i \in DOMAIN new : new[i] = p
      <4>1. filled[p] = data[p]
        BY <1>16, <3>2
      <4> HIDE DEF filled
      <4> QED
        BY <1>1, <4>1
    <3> QED
      BY <3>1, <3>2
  <2>2. filled = [p \in Addresses |-> filled[p]]
    BY DEF Filled
  <2> HIDE DEF filled
  <2> QED
    BY <2>1, <2>2
<1> HIDE DEF filled
<1>18. Held(new, filled) = cut
  <2>1. \A i \in 1..Len(cut) : filled[new[i]] = cut[i]
    BY <1>15
  <2>2. cut = [i \in 1..Len(cut) |-> cut[i]]
    BY <1>13
  <2> QED
    BY <2>1, <2>2 DEF Held
<1>19. Held(pks, filled) = Held(pks, data)
  <2>1. \A i \in DOMAIN pks : filled[pks[i]] = data[pks[i]]
    BY <1>8, <1>9, <1>16
  <2> QED
    BY <2>1 DEF Held
<1>20. FlattenSeq(Held(pks \o new, filled)) = waiting \o bytes
  <2>1. Held(pks \o new, filled) = Held(pks, filled) \o Held(new, filled)
    BY <1>3, <1>17, HeldConcat
  <2>2. Held(pks, filled) \in Seq(Seq(Bytes)) /\ Held(new, filled) \in Seq(Seq(Bytes))
    BY <1>3, <1>17, HeldType
  <2>3. FlattenSeq(Held(pks, filled) \o Held(new, filled)) = FlattenSeq(Held(pks, filled)) \o FlattenSeq(Held(new, filled))
    BY <2>2, FlattenConcat
  <2> QED
    BY <1>2, <1>13, <1>18, <1>19, <2>1, <2>3
<1>21. \A i \in DOMAIN (pks \o new) : filled[(pks \o new)[i]] # <<>>
  <2>1. PICK n \in Nat, m \in Nat : n = Len(pks) /\ m = Len(new) /\ DOMAIN pks = 1..n /\ DOMAIN new = 1..m
    BY <1>3, LenProperties
  <2>2. /\ DOMAIN (pks \o new) = 1..(n + m)
        /\ \A i \in 1..(n + m) : (pks \o new)[i] = IF i <= n THEN pks[i] ELSE new[i - n]
    <3>1. /\ pks \o new \in Seq(Addresses) /\ Len(pks \o new) = n + m
          /\ \A i \in 1..(n + m) : (pks \o new)[i] = IF i <= n THEN pks[i] ELSE new[i - n]
      BY <1>3, <2>1, ConcatProperties
    <3> QED
      BY <3>1, LenProperties
  <2> SUFFICES ASSUME NEW i \in 1..(n + m) PROVE filled[(pks \o new)[i]] # <<>>
    BY <2>2
  <2>3. CASE i <= n
    <3>1. i \in DOMAIN pks /\ (pks \o new)[i] = pks[i]
      BY <2>1, <2>2, <2>3
    <3>2. filled[pks[i]] = data[pks[i]]
      BY <1>8, <1>9, <1>16, <3>1
    <3> QED
      BY <1>2, <3>1, <3>2
  <2>4. CASE ~(i <= n)
    <3>1. i - n \in DOMAIN new /\ (pks \o new)[i] = new[i - n]
      BY <2>1, <2>2, <2>4
    <3> QED
      BY <1>14, <1>15, <3>1
  <2> QED
    BY <2>3, <2>4
<1>22. Waits(after, filled, waiting \o bytes)
  BY <1>12, <1>17, <1>20, <1>21 DEF Waits
<1> QED
  BY <1>22 DEF after, joined, filled

(* That it does not matter which two of three are joined first. *)
Associates(a, b, c) == (a \o b) \o c = a \o (b \o c)

(* It does not matter which two of three sequences of bytes are joined     *)
(* first,                                                                  *)
LEMMA BytesAssociate == \A a, b, c \in Seq(Bytes) : Associates(a, b, c)
<1> SUFFICES ASSUME NEW a \in Seq(Bytes), NEW b \in Seq(Bytes), NEW c \in Seq(Bytes)
             PROVE  (a \o b) \o c = a \o (b \o c)
  BY DEF Associates
<1> QED
  BY ConcatAssociative

(* A sequence is its first element and the rest. *)
LEMMA FirstAndRest ==
  ASSUME NEW T, NEW s \in Seq(T), s # <<>>
  PROVE  /\ Head(s) \in T /\ Tail(s) \in Seq(T) /\ <<Head(s)>> \in Seq(T) /\ s = <<Head(s)>> \o Tail(s)
         /\ s[1] = Head(s) /\ Len(Tail(s)) = Len(s) - 1 /\ Len(s) \in Nat \ {0}
         /\ \A i \in 1..(Len(s) - 1) : Tail(s)[i] = s[i + 1]
<1>1. PICK n \in Nat : n + 1 = Len(s)
  <2>1. Len(s) \in Nat /\ Len(s) # 0
    BY EmptySeq, LenProperties
  <2>2. Len(s) - 1 \in Nat /\ (Len(s) - 1) + 1 = Len(s)
    BY <2>1
  <2> QED
    BY <2>2
<1>2. /\ Head(s) \in T /\ Head(s) = s[1] /\ Tail(s) \in Seq(T) /\ Len(Tail(s)) = n
      /\ \A i \in 1..n : Tail(s)[i] = s[i + 1]
  BY <1>1, HeadTailProperties
<1>3. PICK h \in T, t \in Seq(T) : h = Head(s) /\ t = Tail(s)
  BY <1>2
<1>4. <<h>> \in Seq(T) /\ Len(<<h>>) = 1 /\ <<h>>[1] = h
  OBVIOUS
<1>5. PICK one \in Seq(T) : one = <<h>> /\ Len(one) = 1 /\ one[1] = h
  BY <1>4
<1>6. /\ one \o t \in Seq(T) /\ Len(one \o t) = 1 + n
      /\ \A i \in 1..(1 + n) : (one \o t)[i] = IF i <= 1 THEN one[i] ELSE t[i - 1]
  <2>1. Len(one) = 1 /\ Len(t) = n
    BY <1>2, <1>3, <1>5
  <2>2. /\ one \o t \in Seq(T) /\ Len(one \o t) = Len(one) + Len(t)
        /\ \A i \in 1..(Len(one) + Len(t)) : (one \o t)[i] = IF i <= Len(one) THEN one[i] ELSE t[i - Len(one)]
    BY ConcatProperties
  <2> QED
    BY <2>1, <2>2
<1>7. ASSUME NEW i \in 1..(1 + n) PROVE (one \o t)[i] = s[i]
  <2>1. CASE i = 1
    BY <1>2, <1>3, <1>5, <1>6, <2>1
  <2>2. CASE i # 1
    <3>1. PICK k \in 1..n : k + 1 = i /\ k = i - 1
      <4>1. i - 1 \in 1..n /\ (i - 1) + 1 = i
        BY <2>2
      <4> QED
        BY <4>1
    <3>2. t[k] = s[i]
      BY <1>2, <1>3, <3>1
    <3>3. (one \o t)[i] = t[i - 1]
      <4>1. ~(i <= 1)
        BY <2>2
      <4> QED
        BY <1>6, <4>1
    <3> QED
      BY <3>1, <3>2, <3>3
  <2> QED
    BY <2>1, <2>2
<1>8. one \o t = s
  <2>1. Len(s) = 1 + n
    BY <1>1
  <2> QED
    BY <1>6, <1>7, <2>1, SeqEqual
<1> QED
  BY <1>1, <1>2, <1>3, <1>4, <1>5, <1>8

(* The list, the packets and the buffer in the loop of ModifySend, while   *)
(* the bytes all are in the buffer or behind it.                           *)
Nows == [list : Lists, data : [Addresses -> Seq(Bytes)], buffer : Seq(Bytes)]

(* The loop of ModifySend has got here, and all bytes are in their order. *)
Behind(now, all) ==
  /\ now \in Nows /\ Len(now.buffer) <= SendBuffer
  /\ \E w \in Seq(Bytes) : Waits(now.list, now.data, w) /\ now.buffer \o w = all

(* A turn of the loop moves the bytes of one packet from the list to the   *)
(* buffer.                                                                 *)
LEMMA TakeOneMoves ==
  ASSUME NEW now, NEW all, Behind(now, all)
  PROVE  Behind(TakeOne(now), all)
<1>1. PICK list \in Lists, data \in [Addresses -> Seq(Bytes)], buffer \in Seq(Bytes) :
        now.list = list /\ now.data = data /\ now.buffer = buffer /\ Len(buffer) <= SendBuffer
  BY DEF Behind, Nows
<1>2. PICK w \in Seq(Bytes) : Waits(list, data, w) /\ buffer \o w = all
  BY <1>1 DEF Behind
<1>3. PICK pks : /\ Holds(list, pks) /\ \A i \in DOMAIN pks : data[pks[i]] # <<>>
                 /\ w = FlattenSeq(Held(pks, data))
  BY <1>2 DEF Waits
<1>4. pks \in Seq(Addresses) /\ \A p \in Addresses : Len(data[p]) <= PacketLen
  BY <1>2, <1>3 DEF Holds, Waits
<1>5. SUFFICES ASSUME HasRoom(Len(buffer)), ~IsEmpty(list.queue) PROVE Behind(TakeOne(now), all)
  <2>1. CASE ~(HasRoom(Len(buffer)) /\ ~IsEmpty(list.queue))
    <3>1. TakeOne(now) = now
      BY <1>1, <2>1, Zenon DEF TakeOne
    <3> QED
      BY <3>1
  <2> QED
    BY <1>5, <2>1
<1>6. pks # <<>>
  BY <1>3, <1>5 DEF Holds, IsEmpty
<1>7. PICK p \in Addresses, t \in Seq(Addresses) :
        p = Head(pks) /\ t = Tail(pks) /\ pks = <<p>> \o t /\ <<p>> \in Seq(Addresses)
  BY <1>4, <1>6, FirstAndRest
<1>8. list.queue.m_head = p /\ PopPacket(list) \in Lists /\ Holds(PopPacket(list), t)
  BY <1>3, <1>6, <1>7, PopPacketTakesFirst
<1>9. PICK x \in Seq(Bytes) : x = data[p] /\ Len(x) <= PacketLen
  BY <1>4, <1>7
<1>10. TakeOne(now) = [list |-> PopPacket(list), data |-> [data EXCEPT ![p] = <<>>], buffer |-> buffer \o x]
  BY <1>1, <1>5, <1>8, <1>9, Zenon DEF TakeOne
<1>11. PICK popped \in Lists : popped = PopPacket(list) /\ Holds(popped, t)
  BY <1>8
<1>12. PICK freed \in [Addresses -> Seq(Bytes)] :
         /\ freed = [data EXCEPT ![p] = <<>>]
         /\ \A a \in Addresses : freed[a] = IF a = p THEN <<>> ELSE data[a]
  <2>1. <<>> \in Seq(Bytes)
    OBVIOUS
  <2>2. [data EXCEPT ![p] = <<>>] \in [Addresses -> Seq(Bytes)]
    BY <2>1
  <2>3. \A a \in Addresses : [data EXCEPT ![p] = <<>>][a] = IF a = p THEN <<>> ELSE data[a]
    OBVIOUS
  <2> QED
    BY <2>2, <2>3, Zenon
<1>13. \A a \in Addresses : Len(freed[a]) <= PacketLen
  <2> SUFFICES ASSUME NEW a \in Addresses PROVE Len(freed[a]) <= PacketLen
    OBVIOUS
  <2>1. CASE a = p
    <3>1. freed[a] = <<>> /\ Len(<<>>) = 0
      BY <1>12, <2>1
    <3> QED
      BY <3>1, StreamNumbers
  <2>2. CASE a # p
    BY <1>4, <1>12, <2>2
  <2> QED
    BY <2>1, <2>2
<1>14. PICK n \in Nat : n = Len(t) /\ DOMAIN t = 1..n /\ DOMAIN pks = 1..(n + 1)
                        /\ pks[1] = p /\ \A i \in 1..n : t[i] = pks[i + 1]
  <2>1. PICK n \in Nat : n = Len(t) /\ DOMAIN t = 1..n
    BY <1>7, LenProperties
  <2>2. Len(pks) = n + 1 /\ DOMAIN pks = 1..(n + 1) /\ pks[1] = p /\ \A i \in 1..n : t[i] = pks[i + 1]
    BY <1>4, <1>6, <1>7, <2>1, HeadTailProperties, LenProperties
  <2> QED
    BY <2>1, <2>2
<1>15. \A i \in 1..n : t[i] # p /\ t[i] \in Addresses /\ freed[t[i]] = data[t[i]] /\ data[t[i]] # <<>>
  <2> SUFFICES ASSUME NEW i \in 1..n
               PROVE  t[i] # p /\ t[i] \in Addresses /\ freed[t[i]] = data[t[i]] /\ data[t[i]] # <<>>
    OBVIOUS
  <2>1. i + 1 \in DOMAIN pks /\ 1 \in DOMAIN pks /\ i + 1 # 1
    BY <1>14
  <2>2. t[i] # p
    BY <1>3, <1>14, <2>1 DEF Holds
  <2>3. t[i] \in Addresses
    BY <1>14
  <2> QED
    BY <1>3, <1>12, <1>14, <2>1, <2>2, <2>3
<1>16. Held(t, freed) = Held(t, data)
  BY <1>14, <1>15 DEF Held
<1>17. PICK w1 \in Seq(Bytes) : w1 = FlattenSeq(Held(t, data))
  BY <1>7, HeldType, FlattenType
<1>18. w = x \o w1
  <2>1. <<p>> \in Seq(Addresses) /\ Len(<<p>>) = 1 /\ <<p>>[1] = p /\ DOMAIN <<p>> = 1..1
    OBVIOUS
  <2>2. PICK one \in Seq(Addresses) : one = <<p>> /\ Len(one) = 1 /\ one[1] = p /\ DOMAIN one = 1..1
    BY <2>1, Zenon
  <2>3. Held(one \o t, data) = Held(one, data) \o Held(t, data)
    BY HeldConcat
  <2>4. PICK h \in Seq(Seq(Bytes)) : h = Held(one, data) /\ Len(h) = 1
    BY <2>2, HeldType
  <2>5. h[1] = x
    BY <1>9, <2>2, <2>4 DEF Held
  <2>6. h = <<x>>
    <3>1. <<x>> \in Seq(Seq(Bytes)) /\ Len(<<x>>) = 1 /\ <<x>>[1] = x
      OBVIOUS
    <3>2. \A i \in 1..1 : h[i] = <<x>>[i]
      BY <2>5, <3>1
    <3> QED
      BY <2>4, <3>1, <3>2, SeqEqual
  <2>7. PICK ht \in Seq(Seq(Bytes)) : ht = Held(t, data)
    BY HeldType
  <2>8. FlattenSeq(h \o ht) = FlattenSeq(h) \o FlattenSeq(ht)
    BY FlattenConcat
  <2>9. FlattenSeq(h) = x
    BY <2>6, FlattenOne
  <2>10. Held(pks, data) = h \o ht
    BY <1>7, <2>2, <2>3, <2>4, <2>7, Zenon
  <2> QED
    BY <1>3, <1>17, <2>7, <2>8, <2>9, <2>10, Zenon
<1>19. Waits(popped, freed, w1)
  <2>1. \A i \in DOMAIN t : freed[t[i]] # <<>>
    BY <1>14, <1>15
  <2> QED
    BY <1>11, <1>13, <1>16, <1>17, <2>1 DEF Waits
<1>20. PICK buffer1 \in Seq(Bytes) : buffer1 = buffer \o x /\ Len(buffer1) <= SendBuffer
  <2>1. buffer \o x \in Seq(Bytes) /\ Len(buffer \o x) = Len(buffer) + Len(x)
    BY ConcatProperties
  <2>2. SendBuffer - Len(buffer) >= PacketLen
    BY <1>5 DEF HasRoom
  <2>3. PICK lb \in Nat, lx \in Nat : lb = Len(buffer) /\ lx = Len(x)
    BY LenProperties
  <2>4. lb + lx <= SendBuffer
    BY <1>9, <2>2, <2>3, StreamNumbers
  <2>5. Len(buffer \o x) <= SendBuffer
    BY <2>1, <2>3, <2>4
  <2> QED
    BY <2>1, <2>5
<1>21. (buffer \o x) \o w1 = buffer \o (x \o w1)
  <2>1. Associates(buffer, x, w1)
    BY BytesAssociate, Zenon
  <2> QED
    BY <2>1, Zenon DEF Associates
<1>22. buffer1 \o w1 = all
  BY <1>2, <1>18, <1>20, <1>21, Zenon
<1>23. TakeOne(now) = [list |-> popped, data |-> freed, buffer |-> buffer1]
  BY <1>10, <1>11, <1>12, <1>20
<1>24. PICK after : after = TakeOne(now) /\ after.list = popped /\ after.data = freed /\ after.buffer = buffer1
                   /\ after \in Nows
  <2>1. PICK after : after = [list |-> popped, data |-> freed, buffer |-> buffer1]
    OBVIOUS
  <2>2. after.list = popped /\ after.data = freed /\ after.buffer = buffer1
    BY <2>1
  <2>3. after \in Nows
    BY <2>1 DEF Nows
  <2> QED
    BY <1>23, <2>1, <2>2, <2>3, Zenon
<1>25. Behind(after, all)
  BY <1>19, <1>20, <1>22, <1>24 DEF Behind
<1> QED
  BY <1>24, <1>25

(* The loop of ModifySend fills the buffer with the first bytes that wait. *)
LEMMA TurnsMove ==
  ASSUME NEW start, NEW all, Behind(start, all), NEW now \in Turns(start)
  PROVE  Behind(now, all)
<1> DEFINE Ok == {x \in Nows : Behind(x, all)}
           take(x) == {TakeOne(y) : y \in x}
           g == [i \in 1..MaxPackets |-> [x \in SUBSET Ok |-> take(x)]]
           after == CHOOSE f : f = [i \in 0..MaxPackets |->
                      IF i = 0 THEN {start} ELSE {TakeOne(y) : y \in f[i - 1]}]
<1>1. MaxPackets \in Nat /\ MaxPackets \in 0..MaxPackets
  BY PacketsAssumption
<1>2. start \in Ok
  BY DEF Behind
<1>3. \A x \in SUBSET Ok : take(x) \in SUBSET Ok
  <2> SUFFICES ASSUME NEW x \in SUBSET Ok, NEW y \in x PROVE TakeOne(y) \in Ok
    OBVIOUS
  <2>1. Behind(y, all)
    OBVIOUS
  <2>2. Behind(TakeOne(y), all)
    BY <2>1, TakeOneMoves
  <2> QED
    BY <2>2 DEF Behind
<1> HIDE DEF Ok, take, after
<1>4. g \in [1..MaxPackets -> [SUBSET Ok -> SUBSET Ok]]
  BY <1>3
<1>5. \A i \in 1..MaxPackets : \A x \in SUBSET Ok : g[i][x] = take(x)
  OBVIOUS
<1> HIDE DEF g
<1>6. {start} \in SUBSET Ok
  BY <1>2
<1>7. PICK f \in [0..MaxPackets -> SUBSET Ok] : Recursion(f, MaxPackets, {start}, g)
  BY <1>1, <1>4, <1>6, RecursionExists
<1>8. \A i \in 0..MaxPackets : f[i] = IF i = 0 THEN {start} ELSE g[i][f[i - 1]]
  BY <1>7 DEF Recursion
<1>9. \A i \in 0..MaxPackets : f[i] = IF i = 0 THEN {start} ELSE take(f[i - 1])
  <2> SUFFICES ASSUME NEW i \in 0..MaxPackets, i # 0 PROVE g[i][f[i - 1]] = take(f[i - 1])
    BY <1>8
  <2>1. i \in 1..MaxPackets /\ i - 1 \in 0..MaxPackets
    BY <1>1
  <2>2. f[i - 1] \in SUBSET Ok
    BY <2>1
  <2> QED
    BY <1>5, <2>1, <2>2
<1>10. f = [i \in 0..MaxPackets |-> IF i = 0 THEN {start} ELSE take(f[i - 1])]
  BY <1>9
<1>11. after = [i \in 0..MaxPackets |-> IF i = 0 THEN {start} ELSE take(after[i - 1])]
  <2>1. f = [i \in 0..MaxPackets |-> IF i = 0 THEN {start} ELSE {TakeOne(y) : y \in f[i - 1]}]
    BY <1>10, Zenon DEF take
  <2> QED
    BY <2>1, Zenon DEF take, after
<1>12. Turns(start) = after[MaxPackets]
  BY Zenon DEF Turns, after
<1>13. after[0] = {start} /\ \A i \in 1..MaxPackets : after[i] = take(after[i - 1])
  <2>1. 0 \in 0..MaxPackets /\ \A i \in 1..MaxPackets : i \in 0..MaxPackets /\ i # 0
    BY <1>1
  <2> QED
    BY <2>1, <1>11
<1>14. after = [i \in 0..MaxPackets |-> after[i]]
  BY <1>11
<1>15. after[0] \in SUBSET Ok
  BY <1>6, <1>13
<1>16. \A i \in 1..MaxPackets : after[i - 1] \in SUBSET Ok => after[i] \in SUBSET Ok
  BY <1>3, <1>13
<1>17. after \in [0..MaxPackets -> SUBSET Ok]
  BY <1>1, <1>14, <1>15, <1>16, RecursionTypes
<1>18. now \in Ok
  BY <1>1, <1>12, <1>17
<1> QED
  BY <1>18 DEF Ok

(* A sequence of T is its first element h and the n that follow, t. *)
Divided(s, n, h, t, T) ==
  /\ n + 1 = Len(s) /\ h \in T /\ t \in Seq(T) /\ Len(t) = n /\ s[1] = h
  /\ s = <<h>> \o t /\ <<h>> \in Seq(T)
  /\ \A i \in 1..n : t[i] = s[i + 1]

(* Every sequence but the empty one is so divided. *)
LEMMA HeadAndTail ==
  ASSUME NEW T, NEW s \in Seq(T), s # <<>>
  PROVE  \E n \in Nat : Divided(s, n, Head(s), Tail(s), T)
<1>1. PICK l \in Nat \ {0} : l = Len(s)
  BY FirstAndRest
<1>2. PICK n \in Nat : n + 1 = l /\ n = l - 1
  <2>1. l - 1 \in Nat /\ (l - 1) + 1 = l
    OBVIOUS
  <2> QED
    BY <2>1
<1>3. /\ Head(s) \in T /\ Tail(s) \in Seq(T) /\ <<Head(s)>> \in Seq(T) /\ s = <<Head(s)>> \o Tail(s)
      /\ s[1] = Head(s) /\ Len(Tail(s)) = Len(s) - 1 /\ \A i \in 1..(Len(s) - 1) : Tail(s)[i] = s[i + 1]
  BY FirstAndRest, Zenon
<1>4. Len(s) - 1 = n /\ n + 1 = Len(s)
  BY <1>1, <1>2
<1>5. Len(Tail(s)) = n /\ \A i \in 1..n : Tail(s)[i] = s[i + 1]
  BY <1>3, <1>4, Zenon
<1> QED
  BY <1>3, <1>4, <1>5, Zenon DEF Divided

(* The elements of a sequence with one more. *)
LEMMA AppendIs ==
  ASSUME NEW T, NEW s \in Seq(T), NEW x \in T, NEW n, n = Len(s)
  PROVE  /\ Append(s, x) \in Seq(T) /\ Len(Append(s, x)) = n + 1 /\ Append(s, x)[n + 1] = x
         /\ \A i \in 1..n : Append(s, x)[i] = s[i]
<1>1. PICK m \in Nat : m = n
  BY LenProperties
<1> QED
  BY <1>1, AppendProperties

(* The messages that SendMsg accepts, and what it makes of them. *)
Goes(m) ==
  /\ IsMessage(m)
  /\ Encodable(Layouts[m.id], m.vals) /\ ~Overflows(Encode(Layouts[m.id], m.vals))

(* The bytes of a message, encrypted or plain. *)
FrameOf(m, c) ==
  Frame(m.id, IF c THEN encrypt(Encode(Layouts[m.id], m.vals)) ELSE Encode(Layouts[m.id], m.vals))

(* The frame fits into a buffer, and the receiver reads the message in it. *)
LEMMA FrameCarriesMessage ==
  ASSUME NEW m, Goes(m), NEW c \in BOOLEAN
  PROVE  /\ m.id \in Nat /\ m.id < Base * Base
         /\ \E data \in Seq(Bytes) :
              /\ Len(data) < Base * Base /\ FrameOf(m, c) = Frame(m.id, data)
              /\ Len(Frame(m.id, data)) <= SendBuffer /\ Len(Frame(m.id, data)) \in Nat \ {0}
              /\ Explained(m.id, IF c THEN decrypt(data) ELSE data) = m
<1>1. /\ m = [id |-> m.id, vals |-> m.vals] /\ m.id \in DOMAIN Layouts
      /\ m.vals = [i \in DOMAIN Layouts[m.id] |-> m.vals[i]]
      /\ \A i \in DOMAIN Layouts[m.id] : HasType(m.vals[i], Layouts[m.id][i])
      /\ Encodable(Layouts[m.id], m.vals) /\ ~Overflows(Encode(Layouts[m.id], m.vals))
  BY DEF Goes, IsMessage
<1>2. Layouts \in Seq(Seq(Fields)) /\ Len(Layouts) < Base * Base
  BY ScriptsAssumption
<1>3. PICK n \in Nat : n = Len(Layouts) /\ DOMAIN Layouts = 1..n
  BY <1>2, LenProperties
<1>4. PICK vals : vals = m.vals
  BY Zenon
<1>5. PICK id \in Nat, layout \in Seq(Fields) :
        id = m.id /\ id \in 1..n /\ layout = Layouts[id] /\ vals = m.vals
  <2>1. \A i \in 1..n : i \in Nat /\ Layouts[i] \in Seq(Fields)
    BY <1>2, <1>3
  <2> QED
    BY <1>4, <1>1, <1>3, <2>1, Zenon
<1>6. id < Base * Base
  <2>1. id \in Nat /\ n \in Nat /\ id <= n /\ n < Base * Base
    BY <1>2, <1>3, <1>5
  <2> QED
    BY <2>1, SmallerFits
<1>7. Typed(layout, vals)
  BY <1>1, <1>5 DEF Typed
<1>8. Encode(layout, vals) \in Seq(Bytes) /\ ExplainMsg(layout, Encode(layout, vals)) = vals
  BY <1>1, <1>5, <1>7, EncodeIsExplained
<1>9. PICK plain \in Seq(Bytes) : plain = Encode(layout, vals)
  BY <1>8
<1>10. PICK data \in Seq(Bytes) :
        /\ data = IF c THEN encrypt(plain) ELSE plain
        /\ Len(data) = Len(plain)
        /\ plain = IF c THEN decrypt(data) ELSE data
  <2>1. encrypt(plain) \in Seq(Bytes) /\ Len(encrypt(plain)) = Len(plain) /\ decrypt(encrypt(plain)) = plain
    BY DecryptUndoesEncrypt
  <2> QED
    BY <2>1
<1>11. FrameOf(m, c) = Frame(id, data)
  BY <1>5, <1>9, <1>10 DEF FrameOf
<1>12. PICK l \in Nat : l = Len(data) /\ l + 5 <= SendBuffer
  <2>1. ~(1 + Short + Short + Len(plain) > SendBuffer)
    BY <1>1, <1>5, <1>9 DEF Overflows
  <2>2. Len(plain) \in Nat /\ Short = 2
    BY LenProperties DEF Short
  <2>3. Len(plain) + 5 <= SendBuffer
    BY <2>1, <2>2, StreamNumbers
  <2> QED
    BY <1>10, <2>2, <2>3
<1>13. Len(data) < Base * Base
  <2>1. SendBuffer - (1 + Short + Short) < Base * Base
    BY StreamSizes
  <2>2. PICK s \in Nat : s = SendBuffer - 5 /\ s < Base * Base
    <3>1. SendBuffer - 5 \in Nat /\ 1 + Short + Short = 5
      BY <1>12, StreamNumbers DEF Short
    <3> QED
      BY <2>1, <3>1
  <2>3. l <= s
    BY <1>12, <2>2, StreamNumbers
  <2> QED
    BY <1>12, <2>2, <2>3, SmallerFits
<1>14. Len(Frame(id, data)) <= SendBuffer /\ Len(Frame(id, data)) \in Nat \ {0}
  <2>1. Len(Frame(id, data)) = (IF Len(data) < LongForm THEN 1 ELSE 3) + 2 + Len(data)
    BY <1>6, <1>13, FrameIs
  <2>2. PICK k \in 1..3 : k = IF Len(data) < LongForm THEN 1 ELSE 3
    OBVIOUS
  <2>3. Len(Frame(id, data)) = k + 2 + l
    BY <1>12, <2>1, <2>2
  <2> QED
    BY <1>12, <2>3, StreamNumbers
<1>15. Explained(id, plain) = m
  <2>1. Explained(id, plain) = [id |-> id, vals |-> vals]
    <3>1. id \in DOMAIN Layouts
      BY <1>1, <1>5
    <3>2. ExplainMsg(Layouts[id], plain) = vals
      BY <1>5, <1>8, <1>9
    <3> QED
      BY <3>1, <3>2, Zenon DEF Explained
  <2> QED
    BY <1>1, <1>5, <2>1
<1>16. Explained(id, IF c THEN decrypt(data) ELSE data) = m
  BY <1>10, <1>15, Zenon
<1> QED
  BY <1>5, <1>6, <1>11, <1>13, <1>14, <1>16, Zenon

(* The bytes of messages, one after the other. *)
Frames(msgs, c) == FlattenSeq([i \in DOMAIN msgs |-> FrameOf(msgs[i], c)])

(* What the sender may be asked to send, and what of it SendMsg accepts. *)
ScriptMessages == UNION {ToSet(s.messages) : s \in Scripts}

Messages == {m \in ScriptMessages : Goes(m)}

(* The frame of a message is a sequence of bytes. *)
LEMMA FrameOfType ==
  ASSUME NEW c \in BOOLEAN, NEW m \in Messages
  PROVE  FrameOf(m, c) \in Seq(Bytes)
<1>1. Goes(m)
  BY DEF Messages
<1>2. PICK data \in Seq(Bytes) : Len(data) < Base * Base /\ FrameOf(m, c) = Frame(m.id, data)
  BY <1>1, FrameCarriesMessage
<1>3. m.id \in Nat /\ m.id < Base * Base
  BY <1>1, FrameCarriesMessage
<1> QED
  BY <1>2, <1>3, FrameIs

(* No messages, no bytes. *)
LEMMA FramesEmpty == \A c : Frames(<<>>, c) = <<>>
<1> SUFFICES ASSUME NEW c PROVE Frames(<<>>, c) = <<>>
  OBVIOUS
<1>1. PICK s \in Seq(Seq(Bytes)) : s = [i \in DOMAIN <<>> |-> FrameOf(<<>>[i], c)] /\ Len(s) = 0
  <2>1. DOMAIN <<>> = 1..0
    OBVIOUS
  <2>2. [i \in 1..0 |-> FrameOf(<<>>[i], c)] \in Seq(Seq(Bytes)) /\ Len([i \in 1..0 |-> FrameOf(<<>>[i], c)]) = 0
    OBVIOUS
  <2> QED
    BY <2>1, <2>2
<1>2. s = <<>>
  BY <1>1, EmptySeq
<1> QED
  BY <1>1, <1>2, FlattenEmpty DEF Frames

(* The frames, before they are put together. *)
FrameSeq(msgs, c) == [i \in DOMAIN msgs |-> FrameOf(msgs[i], c)]

(* One frame for every message. *)
LEMMA FrameSeqIs ==
  ASSUME NEW c \in BOOLEAN, NEW msgs \in Seq(Messages)
  PROVE  /\ FrameSeq(msgs, c) \in Seq(Seq(Bytes)) /\ Len(FrameSeq(msgs, c)) = Len(msgs)
         /\ \A i \in 1..Len(msgs) : FrameSeq(msgs, c)[i] = FrameOf(msgs[i], c)
<1>1. Len(msgs) \in Nat /\ DOMAIN msgs = 1..Len(msgs) /\ \A i \in 1..Len(msgs) : FrameOf(msgs[i], c) \in Seq(Bytes)
  BY LenProperties, FrameOfType
<1> QED
  BY <1>1 DEF FrameSeq

(* The frames of messages are a sequence of bytes. *)
LEMMA FramesType ==
  ASSUME NEW c \in BOOLEAN, NEW msgs \in Seq(Messages)
  PROVE  Frames(msgs, c) \in Seq(Bytes)
BY FrameSeqIs, FlattenType DEF Frames, FrameSeq

(* A message that is sent is the last one. *)
LEMMA FramesAppend ==
  ASSUME NEW c \in BOOLEAN, NEW msgs \in Seq(Messages), NEW m \in Messages
  PROVE  Frames(Append(msgs, m), c) = Frames(msgs, c) \o FrameOf(m, c)
<1>1. PICK n \in Nat : n = Len(msgs)
  BY LenProperties
<1>2. PICK more \in Seq(Messages) : more = Append(msgs, m) /\ Len(more) = n + 1 /\ more[n + 1] = m
                                    /\ \A i \in 1..n : more[i] = msgs[i]
  <2>1. /\ Append(msgs, m) \in Seq(Messages) /\ Len(Append(msgs, m)) = n + 1 /\ Append(msgs, m)[n + 1] = m
        /\ \A i \in 1..n : Append(msgs, m)[i] = msgs[i]
    BY <1>1, AppendIs
  <2> QED
    BY <2>1, Zenon
<1>3. PICK f \in Seq(Seq(Bytes)) : f = FrameSeq(msgs, c) /\ Len(f) = n /\ \A i \in 1..n : f[i] = FrameOf(msgs[i], c)
  BY <1>1, FrameSeqIs, Zenon
<1>4. PICK g \in Seq(Seq(Bytes)) : g = FrameSeq(more, c) /\ Len(g) = n + 1
                                   /\ \A i \in 1..(n + 1) : g[i] = FrameOf(more[i], c)
  <2>1. /\ FrameSeq(more, c) \in Seq(Seq(Bytes)) /\ Len(FrameSeq(more, c)) = n + 1
        /\ \A i \in 1..(n + 1) : FrameSeq(more, c)[i] = FrameOf(more[i], c)
    BY <1>2, FrameSeqIs
  <2> QED
    BY <2>1, Zenon
<1>5. PICK x \in Seq(Bytes) : x = FrameOf(m, c)
  BY FrameOfType
<1>6. /\ Append(f, x) \in Seq(Seq(Bytes)) /\ Len(Append(f, x)) = n + 1
      /\ Append(f, x)[n + 1] = x /\ \A i \in 1..n : Append(f, x)[i] = f[i]
  BY <1>3, AppendIs
<1>7. ASSUME NEW i \in 1..(n + 1) PROVE g[i] = Append(f, x)[i]
  <2>1. CASE i = n + 1
    BY <1>2, <1>4, <1>5, <1>6, <2>1
  <2>2. CASE i # n + 1
    <3>1. i \in 1..n
      BY <2>2
    <3> QED
      BY <1>2, <1>3, <1>4, <1>6, <3>1
  <2> QED
    BY <2>1, <2>2
<1>8. g = Append(f, x)
  BY <1>4, <1>6, <1>7, SeqEqual
<1>9. FlattenSeq(Append(f, x)) = FlattenSeq(f) \o x
  BY FlattenAppend
<1> QED
  BY <1>2, <1>3, <1>4, <1>5, <1>8, <1>9, Zenon DEF Frames, FrameSeq

(* The first message is the first to arrive. *)
LEMMA FramesHead ==
  ASSUME NEW c \in BOOLEAN, NEW msgs \in Seq(Messages), msgs # <<>>
  PROVE  Frames(msgs, c) = FrameOf(Head(msgs), c) \o Frames(Tail(msgs), c)
<1>1. PICK n \in Nat, m \in Messages, t \in Seq(Messages) :
        /\ n + 1 = Len(msgs) /\ m = Head(msgs) /\ t = Tail(msgs) /\ Len(t) = n /\ msgs[1] = m
        /\ \A i \in 1..n : t[i] = msgs[i + 1]
  <2>1. PICK n \in Nat : Divided(msgs, n, Head(msgs), Tail(msgs), Messages)
    BY HeadAndTail
  <2> QED
    BY <2>1, Zenon DEF Divided
<1>2. PICK f \in Seq(Seq(Bytes)) : f = FrameSeq(msgs, c) /\ Len(f) = n + 1
                                   /\ \A i \in 1..(n + 1) : f[i] = FrameOf(msgs[i], c)
  BY <1>1, FrameSeqIs
<1>3. PICK g \in Seq(Seq(Bytes)) : g = FrameSeq(t, c) /\ Len(g) = n /\ \A i \in 1..n : g[i] = FrameOf(t[i], c)
  BY <1>1, FrameSeqIs
<1>4. PICK x \in Seq(Bytes) : x = FrameOf(m, c)
  BY FrameOfType
<1>5. f # <<>>
  BY <1>2
<1>6. PICK h \in Seq(Bytes), r \in Seq(Seq(Bytes)) :
        /\ h = f[1] /\ f = <<h>> \o r /\ <<h>> \in Seq(Seq(Bytes)) /\ Len(r) = n
        /\ \A i \in 1..n : r[i] = f[i + 1]
  <2>1. PICK k \in Nat, h \in Seq(Bytes), r \in Seq(Seq(Bytes)) :
          /\ k + 1 = Len(f) /\ h = f[1] /\ f = <<h>> \o r /\ <<h>> \in Seq(Seq(Bytes)) /\ Len(r) = k
          /\ \A i \in 1..k : r[i] = f[i + 1]
    <3>1. PICK k \in Nat : Divided(f, k, Head(f), Tail(f), Seq(Bytes))
      BY <1>5, HeadAndTail
    <3> QED
      BY <3>1, Zenon DEF Divided
  <2>2. k = n
    BY <1>2, <2>1
  <2> QED
    BY <2>1, <2>2, Zenon
<1>7. h = x
  <2>1. 1 \in 1..(n + 1)
    OBVIOUS
  <2> QED
    BY <1>1, <1>2, <1>4, <1>6, <2>1
<1>8. r = g
  <2> SUFFICES ASSUME NEW i \in 1..n PROVE r[i] = g[i]
    BY <1>3, <1>6, SeqEqual
  <2>1. i + 1 \in 1..(n + 1)
    OBVIOUS
  <2> QED
    BY <1>1, <1>2, <1>3, <1>6, <2>1
<1>9. FlattenSeq(<<h>> \o r) = FlattenSeq(<<h>>) \o FlattenSeq(r)
  BY <1>6, FlattenConcat
<1>10. FlattenSeq(<<h>>) = h
  BY FlattenOne
<1> QED
  BY <1>1, <1>2, <1>3, <1>4, <1>6, <1>7, <1>8, <1>9, <1>10, Zenon DEF Frames, FrameSeq

(* Bytes and bytes are bytes. *)
LEMMA BytesJoin == \A a, b \in Seq(Bytes) : a \o b \in Seq(Bytes)
BY ConcatProperties

(* What is at the end of one sequence may as well be at the head of the next. *)
Shifts(a, x, b, r) == (a \o x) \o (b \o r) = a \o ((x \o b) \o r)

(* This holds of all sequences of bytes. *)
LEMMA Shift == \A a, x, b, r \in Seq(Bytes) : Shifts(a, x, b, r)
<1> SUFFICES ASSUME NEW a \in Seq(Bytes), NEW x \in Seq(Bytes), NEW b \in Seq(Bytes), NEW r \in Seq(Bytes)
             PROVE  (a \o x) \o (b \o r) = a \o ((x \o b) \o r)
  BY Zenon DEF Shifts
<1>1. PICK br \in Seq(Bytes) : br = b \o r
  BY BytesJoin, Zenon
<1>2. Associates(a, x, br) /\ Associates(x, b, r)
  BY BytesAssociate, Zenon
<1> QED
  BY <1>1, <1>2, Zenon DEF Associates

(* The bytes on their way: in the logic buffer, in packets, on the wire,   *)
(* in the send buffer, and waiting in the send queue.                      *)
Transit(lg, pk, wr, sb, w) == lg \o (pk \o (wr \o (sb \o w)))

(* The bytes x go from one place to the next, or join the queue. *)
MovesToLogic(lg, x, pk, wr, sb, w) == Transit(lg \o x, pk, wr, sb, w) = Transit(lg, x \o pk, wr, sb, w)
MovesToPackets(lg, x, pk, wr, sb, w) == Transit(lg, pk \o x, wr, sb, w) = Transit(lg, pk, x \o wr, sb, w)
MovesToWire(lg, x, pk, wr, sb, w) == Transit(lg, pk, wr \o x, sb, w) = Transit(lg, pk, wr, x \o sb, w)
ComesBehind(lg, x, pk, wr, sb, w) == Transit(lg, pk, wr, sb, w \o x) = Transit(lg, pk, wr, sb, w) \o x

(* A packet that goes to the logic buffer, *)
LEMMA IntoLogic ==
  ASSUME NEW lg \in Seq(Bytes), NEW x \in Seq(Bytes), NEW pk \in Seq(Bytes), NEW wr \in Seq(Bytes), NEW sb \in Seq(Bytes),
         NEW w \in Seq(Bytes)
  PROVE  MovesToLogic(lg, x, pk, wr, sb, w)
<1>1. PICK a \in Seq(Bytes) : a = sb \o w
  BY BytesJoin, Zenon
<1>2. PICK b \in Seq(Bytes) : b = wr \o a
  BY BytesJoin, Zenon
<1>3. Shifts(lg, x, pk, b)
  BY Shift, Zenon
<1> QED
  BY <1>1, <1>2, <1>3, Zenon DEF Transit, Shifts, MovesToLogic

(* bytes that go from the wire into a packet, *)
LEMMA IntoPackets ==
  ASSUME NEW lg \in Seq(Bytes), NEW x \in Seq(Bytes), NEW pk \in Seq(Bytes), NEW wr \in Seq(Bytes), NEW sb \in Seq(Bytes),
         NEW w \in Seq(Bytes)
  PROVE  MovesToPackets(lg, x, pk, wr, sb, w)
<1>1. PICK a \in Seq(Bytes) : a = sb \o w
  BY BytesJoin, Zenon
<1>2. Shifts(pk, x, wr, a)
  BY Shift, Zenon
<1> QED
  BY <1>1, <1>2, Zenon DEF Transit, Shifts, MovesToPackets

(* and bytes that go from the send buffer to the wire keep their place. *)
LEMMA IntoWire ==
  ASSUME NEW lg \in Seq(Bytes), NEW x \in Seq(Bytes), NEW pk \in Seq(Bytes), NEW wr \in Seq(Bytes), NEW sb \in Seq(Bytes),
         NEW w \in Seq(Bytes)
  PROVE  MovesToWire(lg, x, pk, wr, sb, w)
<1>1. Shifts(wr, x, sb, w)
  BY Shift, Zenon
<1> QED
  BY <1>1, Zenon DEF Transit, Shifts, MovesToWire

(* What joins the queue comes behind all other bytes. *)
LEMMA BehindOthers ==
  ASSUME NEW lg \in Seq(Bytes), NEW x \in Seq(Bytes), NEW pk \in Seq(Bytes), NEW wr \in Seq(Bytes), NEW sb \in Seq(Bytes),
         NEW w \in Seq(Bytes)
  PROVE  ComesBehind(lg, x, pk, wr, sb, w)
<1>1. PICK a \in Seq(Bytes) : a = sb \o w
  BY BytesJoin, Zenon
<1>2. PICK b \in Seq(Bytes) : b = wr \o a
  BY BytesJoin, Zenon
<1>3. PICK d \in Seq(Bytes) : d = pk \o b
  BY BytesJoin, Zenon
<1>4. Associates(sb, w, x) /\ Associates(wr, a, x) /\ Associates(pk, b, x) /\ Associates(lg, d, x)
  BY BytesAssociate, Zenon
<1>5. sb \o (w \o x) = a \o x
  BY <1>1, <1>4, Zenon DEF Associates
<1>6. wr \o (a \o x) = b \o x
  BY <1>2, <1>4, Zenon DEF Associates
<1>7. pk \o (b \o x) = d \o x
  BY <1>3, <1>4, Zenon DEF Associates
<1>8. lg \o (d \o x) = (lg \o d) \o x
  BY <1>4, Zenon DEF Associates
<1> QED
  BY <1>1, <1>2, <1>3, <1>5, <1>6, <1>7, <1>8, Zenon DEF Transit, ComesBehind

(* A part of a sequence and the rest. *)
LEMMA Part ==
  ASSUME NEW T, NEW s \in Seq(T), NEW k \in 1..Len(s)
  PROVE  /\ SubSeq(s, 1, k) \in Seq(T) /\ SubSeq(s, k + 1, Len(s)) \in Seq(T)
         /\ SubSeq(s, 1, k) \o SubSeq(s, k + 1, Len(s)) = s
         /\ Len(SubSeq(s, k + 1, Len(s))) <= Len(s)
<1>1. PICK n \in Nat : n = Len(s)
  BY LenProperties
<1>2. 1 \in 1..(Len(s) + 1) /\ k \in (1 - 1)..Len(s) /\ Len(s) \in k..Len(s)
  BY <1>1
<1>3. SubSeq(s, 1, k) \o SubSeq(s, k + 1, Len(s)) = SubSeq(s, 1, Len(s))
  BY <1>2, ConcatAdjacentSubSeq
<1>4. SubSeq(s, 1, Len(s)) = s
  BY SubSeqFull
<1>5. k \in Nat /\ k <= n /\ n <= Len(s)
  BY <1>1
<1>6. SubSeq(s, k + 1, n) \in Seq(T) /\ Len(SubSeq(s, k + 1, n)) = n - k
  BY <1>5, Slice
<1>7. PICK zero \in Nat : zero = 0 /\ zero <= k /\ zero + 1 = 1 /\ k <= Len(s)
  BY <1>1
<1>8. SubSeq(s, zero + 1, k) \in Seq(T)
  BY <1>5, <1>7, Slice
<1> QED
  BY <1>1, <1>3, <1>4, <1>5, <1>6, <1>7, <1>8

-----------------------------------------------------------------------------
(* The inductive invariant.                                                *)

(* All bytes are on their way in the order in which they were sent. *)
InTransit(list, data, sb, wr, packets, lg, msgs, c) ==
  \E w \in Seq(Bytes) :
    /\ Waits(list, data, w)
    /\ Transit(lg, FlattenSeq(packets), wr, sb, w) = Frames(msgs, c)

(* Before a callback packets are saved, and then no more; the loop of      *)
(* OnMsg leaves no whole frame behind.                                     *)
StreamInv ==
  /\ crypt \in BOOLEAN /\ script \in Seq(ScriptMessages) /\ \A m \in ScriptMessages : IsMessage(m)
  /\ sent \in Seq(Messages)
  /\ sendbuffer \in Seq(Bytes) /\ Len(sendbuffer) <= SendBuffer
  /\ wire \in Seq(Bytes)
  /\ queue \in Seq(Pieces) /\ saved \in Seq(Pieces)
  /\ status \in {"CONNECTING", "COMMON"} /\ (status = "COMMON" => saved = <<>>)
  /\ logic \in Seq(Bytes) /\ Len(logic) <= LogicBuffer
  /\ parsing \in BOOLEAN /\ (~parsing => GetDataFromBuf(logic).used = 0)
  /\ InTransit(sendpackets, m_buffer, sendbuffer, wire, saved \o queue, logic, sent, crypt)

(* What the sender is asked to send are messages of the program. *)
LEMMA ScriptsAreMessages == \A m \in ScriptMessages : IsMessage(m)
<1> SUFFICES ASSUME NEW s \in Scripts, NEW m \in ToSet(s.messages) PROVE IsMessage(m)
  BY DEF ScriptMessages
<1>1. PICK i \in DOMAIN s.messages : m = s.messages[i]
  BY DEF ToSet
<1> QED
  BY <1>1, ScriptsAssumption

(* Packets, put together, are bytes. *)
LEMMA PiecesAreBytes ==
  ASSUME NEW s \in Seq(Pieces)
  PROVE  s \in Seq(Seq(Bytes)) /\ FlattenSeq(s) \in Seq(Bytes)
<1>1. s \in Seq(Seq(Bytes))
  <2>1. Pieces \subseteq Seq(Bytes)
    BY DEF Pieces
  <2> QED
    BY <2>1
<1> QED
  BY <1>1, FlattenType

(* An empty buffer holds no frame. *)
LEMMA NothingToRead == GetDataFromBuf(<<>>).used = 0
<1>1. Len(<<>>) = 0 /\ Short = 2 /\ 0 < 1 + Short
  BY DEF Short
<1> DEFINE xylen == UnsignedOf(SubSeq(<<>>, 1, 1))
<1> HIDE DEF xylen
<1>2. GetDataFromBuf(<<>>) = IF Len(<<>>) < 1 + Short \/ Len(<<>>) < 1 + Short + xylen
                             THEN [used |-> 0, id |-> 0, data |-> <<>>]
                             ELSE [used |-> 1 + Short + xylen,
                                   id   |-> UnsignedOf(SubSeq(<<>>, 1 + 1, 1 + Short)),
                                   data |-> SubSeq(<<>>, 1 + Short + 1, 1 + Short + xylen)]
  BY Zenon DEF GetDataFromBuf, xylen
<1>3. Len(<<>>) < 1 + Short
  BY <1>1
<1>4. GetDataFromBuf(<<>>) = [used |-> 0, id |-> 0, data |-> <<>>]
  BY <1>2, <1>3, Zenon
<1> QED
  BY <1>4

(* In the beginning nothing is on its way. *)
LEMMA StreamInit == ASSUME Init PROVE StreamInv
<1>1. PICK s \in Scripts : script = s.messages /\ crypt = s.crypt /\ cuts = s.cuts
  BY DEF Init
<1>2. crypt \in BOOLEAN
  BY <1>1, ScriptsAssumption
<1>3. script \in Seq(ScriptMessages)
  <2>1. Len(s.messages) \in Nat /\ s.messages = [i \in 1..Len(s.messages) |-> s.messages[i]]
    BY ScriptsAssumption
  <2>2. PICK f : f = s.messages
    OBVIOUS
  <2>3. PICK n \in Nat : n = Len(s.messages) /\ f = s.messages /\ f = [i \in 1..n |-> f[i]]
    BY <2>2, <2>1
  <2>4. \A i \in 1..n : f[i] \in ScriptMessages
    <3> SUFFICES ASSUME NEW i \in 1..n PROVE f[i] \in ScriptMessages
      OBVIOUS
    <3>1. i \in DOMAIN f
      BY <2>3
    <3>2. f[i] \in ToSet(s.messages)
      BY <2>3, <3>1 DEF ToSet
    <3> QED
      BY <3>2 DEF ScriptMessages
  <2>5. f \in Seq(ScriptMessages)
    BY <2>3, <2>4
  <2> QED
    BY <1>1, <2>3, <2>5
<1>4. /\ status \in {"CONNECTING", "COMMON"} /\ parsing = FALSE
      /\ sendpackets = [queue |-> EmptyQueue, next |-> [p \in Addresses |-> Null]]
      /\ m_buffer = [p \in Addresses |-> <<>>]
      /\ sendbuffer = <<>> /\ wire = <<>> /\ queue = <<>> /\ saved = <<>> /\ logic = <<>> /\ sent = <<>>
  BY DEF Init
<1>5. sent \in Seq(Messages) /\ queue \in Seq(Pieces) /\ saved \in Seq(Pieces)
  BY <1>4
<1>6. sendbuffer \in Seq(Bytes) /\ wire \in Seq(Bytes) /\ logic \in Seq(Bytes)
  BY <1>4
<1>7. Len(sendbuffer) <= SendBuffer /\ Len(logic) <= LogicBuffer
  <2>1. Len(<<>>) = 0
    OBVIOUS
  <2> QED
    BY <1>4, <2>1, StreamNumbers
<1>8. GetDataFromBuf(logic).used = 0
  BY <1>4, NothingToRead, Zenon
<1>9. Waits(sendpackets, m_buffer, <<>>)
  <2>1. sendpackets \in Lists
    BY <1>4 DEF Lists, Queues, EmptyQueue, Links
  <2>2. Holds(sendpackets, <<>>)
    BY <1>4 DEF Holds, EmptyQueue, Size
  <2>3. m_buffer \in [Addresses -> Seq(Bytes)] /\ \A p \in Addresses : m_buffer[p] = <<>>
    <3>1. <<>> \in Seq(Bytes)
      OBVIOUS
    <3> QED
      BY <1>4, <3>1
  <2>4. \A p \in Addresses : Len(m_buffer[p]) <= PacketLen
    <3>1. Len(<<>>) = 0
      OBVIOUS
    <3> QED
      BY <2>3, <3>1, StreamNumbers
  <2>5. FlattenSeq(Held(<<>>, m_buffer)) = <<>>
    <3>1. <<>> \in Seq(Addresses) /\ Len(<<>>) = 0
      OBVIOUS
    <3>2. PICK none \in Seq(Addresses) : none = <<>> /\ Len(none) = 0
      BY <3>1, Zenon
    <3>3. Held(none, m_buffer) \in Seq(Seq(Bytes)) /\ Len(Held(none, m_buffer)) = 0
      BY <2>3, <3>2, HeldType
    <3>4. Held(none, m_buffer) = <<>>
      BY <3>3, EmptySeq
    <3> QED
      BY <3>2, <3>4, FlattenEmpty, Zenon
  <2> QED
    BY <2>1, <2>2, <2>3, <2>4, <2>5 DEF Waits
<1>10. InTransit(sendpackets, m_buffer, sendbuffer, wire, saved \o queue, logic, sent, crypt)
  <2>1. <<>> \in Seq(Bytes) /\ <<>> \o <<>> = <<>>
    OBVIOUS
  <2>2. Transit(<<>>, <<>>, <<>>, <<>>, <<>>) = <<>>
    BY <2>1, Zenon DEF Transit
  <2>3. FlattenSeq(saved \o queue) = <<>> /\ Frames(sent, crypt) = <<>>
    BY <1>4, <2>1, FlattenEmpty, FramesEmpty, Zenon
  <2> QED
    BY <1>4, <1>9, <2>1, <2>2, <2>3, Zenon DEF InTransit
<1> QED
  BY <1>2, <1>3, <1>4, <1>5, <1>6, <1>7, <1>8, <1>10, ScriptsAreMessages DEF StreamInv

(* The buffer after a ModifySend that began with buffer, and w in the queue. *)
Refilled(buffer, w) ==
  /\ sendbuffer' \in Seq(Bytes) /\ Len(sendbuffer') <= SendBuffer
  /\ \E w1 \in Seq(Bytes) : Waits(sendpackets', m_buffer', w1) /\ sendbuffer' \o w1 = buffer \o w

(* ModifySend leaves the bytes in their order. *)
LEMMA ModifySendMoves ==
  ASSUME NEW list, NEW data, NEW w, Waits(list, data, w), NEW buffer \in Seq(Bytes), Len(buffer) <= SendBuffer,
         ModifySend(list, data, buffer)
  PROVE  Refilled(buffer, w)
<1> DEFINE start == [list |-> list, data |-> data, buffer |-> buffer]
<1>1. PICK now \in Turns(start) : sendpackets' = now.list /\ m_buffer' = now.data /\ sendbuffer' = now.buffer
  BY Zenon DEF ModifySend
<1>2. w \in Seq(Bytes)
  BY WaitsType
<1>3. start \in Nows /\ start.list = list /\ start.data = data /\ start.buffer = buffer
  <2>1. list \in Lists /\ data \in [Addresses -> Seq(Bytes)]
    BY DEF Waits
  <2> QED
    BY <2>1 DEF Nows
<1> HIDE DEF start
<1>4. Behind(start, buffer \o w)
  BY <1>2, <1>3, Zenon DEF Behind
<1>5. Behind(now, buffer \o w)
  BY <1>4, TurnsMove
<1>6. now \in Nows /\ Len(now.buffer) <= SendBuffer
      /\ \E w1 \in Seq(Bytes) : Waits(now.list, now.data, w1) /\ now.buffer \o w1 = buffer \o w
  BY <1>5, Zenon DEF Behind
<1>7. now.buffer \in Seq(Bytes)
  BY <1>6 DEF Nows
<1> QED
  BY <1>1, <1>6, <1>7, Zenon DEF Refilled

(* Send puts its bytes behind all others. *)
LEMMA SendSends ==
  ASSUME NEW w, Waits(sendpackets, m_buffer, w), sendbuffer \in Seq(Bytes), Len(sendbuffer) <= SendBuffer,
         NEW bytes \in Seq(Bytes), Send(bytes)
  PROVE  /\ sendbuffer' \in Seq(Bytes) /\ Len(sendbuffer') <= SendBuffer
         /\ \E w1 \in Seq(Bytes) : Waits(sendpackets', m_buffer', w1) /\ sendbuffer' \o w1 = sendbuffer \o (w \o bytes)
<1> DEFINE cut == Packets(bytes)
           new == NewPackets(Len(cut))
           data == Filled(new, cut, m_buffer)
<1>1. Cardinality(Free) >= Len(cut)
  BY Zenon DEF Send
<1>2. PICK packets \in Queued(new, sendpackets.next) :
        LET list == PushQueue([sendpackets EXCEPT !.next = packets.next], packets.queue)
        IN  IF Sending
            THEN sendpackets' = list /\ m_buffer' = data /\ UNCHANGED sendbuffer
            ELSE ModifySend(list, data, sendbuffer)
  BY Zenon DEF Send, Filled
<1>3. PICK list : list = PushQueue([sendpackets EXCEPT !.next = packets.next], packets.queue)
  OBVIOUS
<1>4. IF Sending THEN sendpackets' = list /\ m_buffer' = data /\ UNCHANGED sendbuffer
                 ELSE ModifySend(list, data, sendbuffer)
  BY <1>2, <1>3, Zenon
<1>5. cut \in Seq(Pieces)
  BY PacketsHoldBytes
<1> HIDE DEF cut
<1>6. PICK n \in Nat : n = Len(cut)
  BY <1>5, LenProperties
<1>7. Free \in SUBSET Addresses /\ \A p \in Free : m_buffer[p] = <<>>
  BY DEF Free
<1>8. /\ new \in Seq(Addresses) /\ DOMAIN new = 1..n
      /\ \A i \in 1..n : new[i] \in Free
      /\ \A i, j \in 1..n : new[i] = new[j] => i = j
  <2>1. PICK free \in SUBSET Addresses : free = Free /\ Cardinality(free) >= n
    BY <1>1, <1>6, <1>7
  <2> QED
    BY <1>6, <2>1, NewPacketsAre
<1>9. PICK u \in Seq(Addresses) : /\ u = new /\ DOMAIN u = 1..Len(cut)
                                  /\ \A i \in DOMAIN u : m_buffer[u[i]] = <<>>
                                  /\ \A i, j \in DOMAIN u : u[i] = u[j] => i = j
  BY <1>6, <1>7, <1>8
<1>10. PICK c : c = cut /\ c = Packets(bytes)
  BY DEF cut
<1>11. packets \in Queued(u, sendpackets.next) /\ DOMAIN u = 1..Len(c)
  BY <1>2, <1>9, <1>10, Zenon
<1>12. Waits(PushQueue([sendpackets EXCEPT !.next = packets.next], packets.queue), Filled(u, c, m_buffer), w \o bytes)
  BY <1>9, <1>10, <1>11, SendAppends
<1>13. Waits(list, data, w \o bytes)
  BY <1>3, <1>9, <1>10, <1>12, Zenon
<1>14. PICK more \in Seq(Bytes) : more = w \o bytes /\ Waits(list, data, more)
  <2>1. w \o bytes \in Seq(Bytes)
    BY <1>13, WaitsType
  <2> QED
    BY <1>13, <2>1, Zenon
<1> HIDE DEF data, new
<1>15. CASE Sending
  BY <1>4, <1>13, <1>14, <1>15, Zenon
<1>16. CASE ~Sending
  <2>1. PICK d : d = data
    BY Zenon
  <2>2. PICK sb \in Seq(Bytes) : sb = sendbuffer /\ Len(sb) <= SendBuffer /\ d = data
    BY <2>1, Zenon
  <2>3. ModifySend(list, d, sb) /\ Waits(list, d, more)
    BY <1>4, <1>14, <1>16, <2>2, Zenon
  <2>4. Refilled(sb, more)
    BY <2>2, <2>3, ModifySendMoves
  <2> QED
    BY <1>14, <2>2, <2>4, Zenon DEF Refilled
<1> QED
  BY <1>15, <1>16

(* SendMsg. *)
LEMMA MessageSent ==
  ASSUME StreamInv, NEW m \in ScriptMessages, SendMsg(m), UNCHANGED <<crypt, wire, queue, saved, logic>>
  PROVE  /\ sent' = Append(sent, m) /\ sent' \in Seq(Messages)
         /\ sendbuffer' \in Seq(Bytes) /\ Len(sendbuffer') <= SendBuffer
         /\ InTransit(sendpackets', m_buffer', sendbuffer', wire', saved' \o queue', logic', sent', crypt')
<1>1. /\ Encodable(Layouts[m.id], m.vals) /\ ~Overflows(Encode(Layouts[m.id], m.vals))
      /\ Send(FrameOf(m, crypt)) /\ sent' = Append(sent, m)
  BY Zenon DEF SendMsg, FrameOf
<1>2. m \in Messages
  BY <1>1 DEF Messages, Goes, StreamInv
<1>3. PICK msgs \in Seq(Messages), c \in BOOLEAN, sb \in Seq(Bytes), wr \in Seq(Bytes), lg \in Seq(Bytes), pk \in Seq(Pieces) :
        /\ msgs = sent /\ c = crypt /\ sb = sendbuffer /\ wr = wire /\ lg = logic /\ pk = saved \o queue
        /\ Len(sb) <= SendBuffer /\ InTransit(sendpackets, m_buffer, sb, wr, pk, lg, msgs, c)
  <2>1. saved \o queue \in Seq(Pieces)
    BY ConcatProperties DEF StreamInv
  <2> QED
    BY <2>1, Zenon DEF StreamInv
<1>4. PICK p \in Seq(Bytes) : p = FlattenSeq(pk)
  BY PiecesAreBytes
<1>5. PICK w : Waits(sendpackets, m_buffer, w) /\ Transit(lg, p, wr, sb, w) = Frames(msgs, c)
  BY <1>3, <1>4, Zenon DEF InTransit
<1>6. w \in Seq(Bytes)
  BY <1>5, WaitsType
<1>7. PICK f \in Seq(Bytes) : f = FrameOf(m, c)
  BY <1>2, FrameOfType
<1>8. /\ sendbuffer' \in Seq(Bytes) /\ Len(sendbuffer') <= SendBuffer
      /\ \E w1 \in Seq(Bytes) : Waits(sendpackets', m_buffer', w1) /\ sendbuffer' \o w1 = sendbuffer \o (w \o f)
  <2>1. sendbuffer \in Seq(Bytes) /\ Len(sendbuffer) <= SendBuffer /\ Send(f)
    BY <1>1, <1>3, <1>7
  <2> QED
    BY <1>5, <2>1, SendSends
<1>9. PICK w1 \in Seq(Bytes) : Waits(sendpackets', m_buffer', w1) /\ sendbuffer' \o w1 = sb \o (w \o f)
  BY <1>3, <1>8, Zenon
<1>10. Transit(lg, p, wr, sendbuffer', w1) = Transit(lg, p, wr, sb, w \o f)
  BY <1>9, Zenon DEF Transit
<1>11. ComesBehind(lg, f, p, wr, sb, w)
  BY <1>6, BehindOthers
<1>12. Frames(Append(msgs, m), c) = Frames(msgs, c) \o FrameOf(m, c)
  BY <1>2, FramesAppend
<1>13. Transit(lg, p, wr, sendbuffer', w1) = Frames(Append(msgs, m), c)
  BY <1>5, <1>7, <1>10, <1>11, <1>12, Zenon DEF ComesBehind
<1>14. wire' = wr /\ saved' \o queue' = pk /\ logic' = lg /\ crypt' = c /\ sent' = Append(msgs, m)
  BY <1>1, <1>3
<1>15. InTransit(sendpackets', m_buffer', sendbuffer', wire', saved' \o queue', logic', sent', crypt')
  BY <1>4, <1>9, <1>13, <1>14, Zenon DEF InTransit
<1>16. sent' \in Seq(Messages)
  BY <1>2, <1>3, <1>14, AppendProperties
<1> QED
  BY <1>1, <1>8, <1>15, <1>16

(* A message that goes is the last on its way; one that SendMsg refuses    *)
(* changes nothing.                                                        *)
LEMMA StepProgramSends ==
  ASSUME StreamInv, ProgramSends
  PROVE  /\ StreamInv'
         /\ UNCHANGED got /\ (UNCHANGED sent \/ \E m \in ScriptMessages : sent' = Append(sent, m))
<1>1. /\ script # <<>>
      /\ SendMsg(Head(script)) \/ SendThrows(Head(script))
      /\ script' = Tail(script) /\ UNCHANGED <<crypt, wire, queue, status, saved, logic, parsing, got>>
  BY DEF ProgramSends, network, receiver
<1>2. PICK m \in ScriptMessages : m = Head(script) /\ script' \in Seq(ScriptMessages)
  <2>1. script \in Seq(ScriptMessages)
    BY DEF StreamInv
  <2>2. PICK s \in Seq(ScriptMessages) : s = script /\ s # <<>>
    BY <1>1, <2>1, Zenon
  <2>3. Head(s) \in ScriptMessages /\ Tail(s) \in Seq(ScriptMessages)
    BY <2>2, FirstAndRest
  <2> QED
    BY <1>1, <2>2, <2>3, Zenon
<1>3. CASE SendMsg(m)
  <2>1. /\ sent' = Append(sent, m) /\ sent' \in Seq(Messages)
        /\ sendbuffer' \in Seq(Bytes) /\ Len(sendbuffer') <= SendBuffer
        /\ InTransit(sendpackets', m_buffer', sendbuffer', wire', saved' \o queue', logic', sent', crypt')
    BY <1>1, <1>3, MessageSent
  <2>2. StreamInv'
    BY <1>1, <1>2, <2>1 DEF StreamInv
  <2> QED
    BY <1>1, <2>1, <2>2
<1>4. CASE SendThrows(m)
  <2>1. UNCHANGED <<sendpackets, m_buffer, sendbuffer, sent>>
    BY <1>4 DEF SendThrows
  <2>2. StreamInv'
    BY <1>1, <1>2, <2>1 DEF StreamInv
  <2> QED
    BY <1>1, <2>1, <2>2
<1> QED
  BY <1>1, <1>2, <1>3, <1>4

(* nor which two of three lists of packets. *)
LEMMA PiecesAssociate == \A a, b, c \in Seq(Pieces) : Associates(a, b, c)
<1> SUFFICES ASSUME NEW a \in Seq(Pieces), NEW b \in Seq(Pieces), NEW c \in Seq(Pieces) PROVE (a \o b) \o c = a \o (b \o c)
  BY DEF Associates
<1> QED
  BY ConcatAssociative

(* Where all the bytes are, as constants that the lemmas can be applied to. *)
OnTheWay(msgs, c, sb, wr, lg, pk, p, w) ==
  /\ msgs \in Seq(Messages) /\ c \in BOOLEAN /\ sb \in Seq(Bytes) /\ wr \in Seq(Bytes) /\ lg \in Seq(Bytes)
  /\ pk \in Seq(Pieces) /\ p \in Seq(Bytes) /\ w \in Seq(Bytes)
  /\ msgs = sent /\ c = crypt /\ sb = sendbuffer /\ wr = wire /\ lg = logic /\ pk = saved \o queue
  /\ p = FlattenSeq(pk) /\ Len(sb) <= SendBuffer
  /\ Waits(sendpackets, m_buffer, w) /\ Transit(lg, p, wr, sb, w) = Frames(msgs, c)

(* The invariant says where they are. *)
LEMMA AllOnTheWay ==
  ASSUME StreamInv
  PROVE  \E msgs, c, sb, wr, lg, pk, p, w : OnTheWay(msgs, c, sb, wr, lg, pk, p, w)
<1>1. PICK msgs \in Seq(Messages), c \in BOOLEAN, sb \in Seq(Bytes), wr \in Seq(Bytes), lg \in Seq(Bytes), pk \in Seq(Pieces) :
        /\ msgs = sent /\ c = crypt /\ sb = sendbuffer /\ wr = wire /\ lg = logic /\ pk = saved \o queue
        /\ Len(sb) <= SendBuffer /\ InTransit(sendpackets, m_buffer, sb, wr, pk, lg, msgs, c)
  <2>1. saved \o queue \in Seq(Pieces)
    BY ConcatProperties DEF StreamInv
  <2> QED
    BY <2>1, Zenon DEF StreamInv
<1>2. PICK p \in Seq(Bytes) : p = FlattenSeq(pk)
  BY PiecesAreBytes
<1>3. PICK w \in Seq(Bytes) : Waits(sendpackets, m_buffer, w) /\ Transit(lg, p, wr, sb, w) = Frames(msgs, c)
  BY <1>1, <1>2, Zenon DEF InTransit
<1> QED
  BY <1>1, <1>2, <1>3, Zenon DEF OnTheWay

(* The kernel takes the first bytes of the buffer, and ModifySend fills it *)
(* up: the bytes taken are the last on the wire.                           *)
LEMMA StepOnSocketIOCPSend ==
  ASSUME StreamInv, OnSocketIOCPSend
  PROVE  StreamInv' /\ UNCHANGED <<sent, got>>
<1>1. PICK k \in 1..Len(sendbuffer) :
        /\ wire' = wire \o SubSeq(sendbuffer, 1, k)
        /\ ModifySend(sendpackets, m_buffer, SubSeq(sendbuffer, k + 1, Len(sendbuffer)))
  BY Zenon DEF OnSocketIOCPSend
<1>2. UNCHANGED <<script, crypt, queue, status, saved, logic, parsing, got, sent>>
  BY DEF OnSocketIOCPSend, receiver
<1>3. PICK msgs, c, sb, wr, lg, pk, p, w : OnTheWay(msgs, c, sb, wr, lg, pk, p, w)
  BY AllOnTheWay
<1>4. PICK x \in Seq(Bytes), y \in Seq(Bytes) :
        /\ x = SubSeq(sb, 1, k) /\ y = SubSeq(sb, k + 1, Len(sb)) /\ x \o y = sb /\ Len(y) <= SendBuffer
  <2>1. sb \in Seq(Bytes) /\ k \in 1..Len(sb) /\ Len(sb) <= SendBuffer
    BY <1>3 DEF OnTheWay
  <2>2. /\ SubSeq(sb, 1, k) \in Seq(Bytes) /\ SubSeq(sb, k + 1, Len(sb)) \in Seq(Bytes)
        /\ SubSeq(sb, 1, k) \o SubSeq(sb, k + 1, Len(sb)) = sb
        /\ Len(SubSeq(sb, k + 1, Len(sb))) <= Len(sb)
    BY <2>1, Part
  <2>3. PICK y \in Seq(Bytes) : y = SubSeq(sb, k + 1, Len(sb)) /\ Len(y) <= Len(sb)
    BY <2>2, Zenon
  <2>4. Len(y) <= SendBuffer
    BY <2>1, <2>3, LenProperties, StreamNumbers
  <2> QED
    BY <2>2, <2>3, <2>4, Zenon
<1>5. Refilled(y, w)
  <2>1. Waits(sendpackets, m_buffer, w) /\ ModifySend(sendpackets, m_buffer, y)
    BY <1>1, <1>3, <1>4, Zenon DEF OnTheWay
  <2> QED
    BY <1>4, <2>1, ModifySendMoves
<1>6. PICK w1 \in Seq(Bytes) : Waits(sendpackets', m_buffer', w1) /\ sendbuffer' \o w1 = y \o w
  BY <1>5, Zenon DEF Refilled
<1>7. MovesToWire(lg, x, p, wr, y, w)
  BY <1>3, <1>4, IntoWire DEF OnTheWay
<1>8. Transit(lg, p, wr \o x, sendbuffer', w1) = Transit(lg, p, wr \o x, y, w)
  BY <1>6, Zenon DEF Transit
<1>9. Transit(lg, p, wr \o x, sendbuffer', w1) = Frames(msgs, c)
  BY <1>3, <1>4, <1>7, <1>8, Zenon DEF MovesToWire, OnTheWay
<1>10. wire' = wr \o x /\ saved' \o queue' = pk /\ logic' = lg /\ crypt' = c /\ sent' = msgs /\ p = FlattenSeq(pk)
  BY <1>1, <1>2, <1>3, <1>4, Zenon DEF OnTheWay
<1>11. InTransit(sendpackets', m_buffer', sendbuffer', wire', saved' \o queue', logic', sent', crypt')
  BY <1>6, <1>9, <1>10, Zenon DEF InTransit
<1>12. wire' \in Seq(Bytes)
  BY <1>3, <1>4, <1>10, BytesJoin, Zenon DEF OnTheWay
<1>13. sendbuffer' \in Seq(Bytes) /\ Len(sendbuffer') <= SendBuffer
  BY <1>5 DEF Refilled
<1> QED
  BY <1>2, <1>11, <1>12, <1>13 DEF StreamInv

(* The first bytes of the wire become the last packets of the queue. *)
LEMMA StepOnSocketIOCPRecv ==
  ASSUME StreamInv, OnSocketIOCPRecv
  PROVE  StreamInv' /\ UNCHANGED <<sent, got>>
<1>1. PICK k \in 1..Least(RecvBuffer, Len(wire)) :
        queue' = queue \o Packets(SubSeq(wire, 1, k)) /\ wire' = SubSeq(wire, k + 1, Len(wire))
  BY Zenon DEF OnSocketIOCPRecv
<1>2. UNCHANGED <<script, crypt, sendpackets, m_buffer, sendbuffer, status, saved, logic, parsing, got, sent>>
  BY DEF OnSocketIOCPRecv, sender
<1>3. PICK msgs, c, sb, wr, lg, pk, p, w : OnTheWay(msgs, c, sb, wr, lg, pk, p, w)
  BY AllOnTheWay
<1>4. PICK x \in Seq(Bytes), y \in Seq(Bytes) :
        x = SubSeq(wr, 1, k) /\ y = SubSeq(wr, k + 1, Len(wr)) /\ x \o y = wr
  <2>1. wr \in Seq(Bytes) /\ k \in 1..Least(RecvBuffer, Len(wr))
    BY <1>3 DEF OnTheWay
  <2>2. k \in 1..Len(wr)
    BY <2>1, LenProperties, StreamNumbers DEF Least
  <2>3. /\ SubSeq(wr, 1, k) \in Seq(Bytes) /\ SubSeq(wr, k + 1, Len(wr)) \in Seq(Bytes)
        /\ SubSeq(wr, 1, k) \o SubSeq(wr, k + 1, Len(wr)) = wr
    BY <2>1, <2>2, Part
  <2> QED
    BY <2>3, Zenon
<1>5. PICK new \in Seq(Pieces) : new = Packets(x) /\ FlattenSeq(new) = x
  BY <1>4, PacketsHoldBytes
<1>6. PICK q \in Seq(Pieces), s \in Seq(Pieces) : q = queue /\ s = saved
  BY DEF StreamInv
<1>7. wire' = y /\ queue' = q \o new /\ saved' = s /\ pk = s \o q
  BY <1>1, <1>2, <1>3, <1>4, <1>5, <1>6, Zenon DEF OnTheWay
<1>8. PICK p1 \in Seq(Pieces) : p1 = pk \o new /\ p1 = s \o (q \o new) /\ FlattenSeq(p1) = p \o x
  <2>1. pk \in Seq(Pieces) /\ p = FlattenSeq(pk)
    BY <1>3 DEF OnTheWay
  <2>2. pk \o new \in Seq(Pieces)
    BY <2>1, ConcatProperties
  <2>3. Associates(s, q, new)
    BY PiecesAssociate, Zenon
  <2>4. pk \o new = s \o (q \o new)
    BY <1>7, <2>3, Zenon DEF Associates
  <2>5. FlattenSeq(pk \o new) = FlattenSeq(pk) \o FlattenSeq(new)
    BY <2>1, PiecesAreBytes, FlattenConcat
  <2> QED
    BY <1>5, <2>1, <2>2, <2>4, <2>5, Zenon
<1>9. MovesToPackets(lg, x, p, y, sb, w)
  BY <1>3, <1>4, IntoPackets DEF OnTheWay
<1>10. Transit(lg, p \o x, y, sb, w) = Frames(msgs, c)
  BY <1>3, <1>4, <1>9, Zenon DEF MovesToPackets, OnTheWay
<1>11. /\ wire' = y /\ saved' \o queue' = p1 /\ logic' = lg /\ crypt' = c /\ sent' = msgs /\ sendbuffer' = sb
       /\ Waits(sendpackets', m_buffer', w)
  BY <1>2, <1>3, <1>7, <1>8, Zenon DEF OnTheWay
<1>12. InTransit(sendpackets', m_buffer', sendbuffer', wire', saved' \o queue', logic', sent', crypt')
  <2>1. w \in Seq(Bytes)
    BY <1>3 DEF OnTheWay
  <2> QED
    BY <1>8, <1>10, <1>11, <2>1, Zenon DEF InTransit
<1>13. queue' \in Seq(Pieces)
  BY <1>5, <1>6, <1>7, ConcatProperties
<1>14. wire' \in Seq(Bytes)
  BY <1>4, <1>7
<1> QED
  BY <1>2, <1>12, <1>13, <1>14 DEF StreamInv

(* A packet that goes from the head of one list to the end of the one before it. *)
LEMMA PacketSaved ==
  ASSUME NEW s \in Seq(Pieces), NEW q \in Seq(Pieces), q # <<>>
  PROVE  /\ Append(s, Head(q)) \in Seq(Pieces) /\ Tail(q) \in Seq(Pieces)
         /\ Append(s, Head(q)) \o Tail(q) = s \o q
<1>1. PICK h \in Pieces, t \in Seq(Pieces), one \in Seq(Pieces) :
        h = Head(q) /\ t = Tail(q) /\ one = <<h>> /\ q = one \o t
  <2>1. Head(q) \in Pieces /\ Tail(q) \in Seq(Pieces) /\ <<Head(q)>> \in Seq(Pieces) /\ q = <<Head(q)>> \o Tail(q)
    BY FirstAndRest
  <2> QED
    BY <2>1, Zenon
<1>2. Append(s, h) \in Seq(Pieces) /\ Append(s, h) = s \o one
  <2>1. Append(s, h) = s \o <<h>>
    BY AppendIsConcat
  <2>2. Append(s, h) \in Seq(Pieces)
    BY AppendProperties
  <2> QED
    BY <1>1, <2>1, <2>2, Zenon
<1>3. Associates(s, one, t)
  BY PiecesAssociate, Zenon
<1> QED
  BY <1>1, <1>2, <1>3, Zenon DEF Associates

(* Before there is a callback a packet only moves to those that are saved. *)
LEMMA StepSavePacket ==
  ASSUME StreamInv, SavePacket
  PROVE  StreamInv' /\ UNCHANGED <<sent, got>>
<1>1. /\ status = "CONNECTING" /\ queue # <<>>
      /\ saved' = Append(saved, Head(queue)) /\ queue' = Tail(queue)
      /\ UNCHANGED <<script, crypt, sendpackets, m_buffer, sendbuffer, wire, status, logic, parsing, got, sent>>
  BY DEF SavePacket, sender, network
<1>2. PICK q \in Seq(Pieces), s \in Seq(Pieces) : q = queue /\ s = saved /\ q # <<>>
  BY <1>1 DEF StreamInv
<1>3. Append(s, Head(q)) \in Seq(Pieces) /\ Tail(q) \in Seq(Pieces) /\ Append(s, Head(q)) \o Tail(q) = s \o q
  BY <1>2, PacketSaved
<1>4. saved' \in Seq(Pieces) /\ queue' \in Seq(Pieces) /\ saved' \o queue' = saved \o queue
  BY <1>1, <1>2, <1>3, Zenon
<1>5. InTransit(sendpackets', m_buffer', sendbuffer', wire', saved' \o queue', logic', sent', crypt')
  <2>1. InTransit(sendpackets, m_buffer, sendbuffer, wire, saved \o queue, logic, sent, crypt)
    BY DEF StreamInv
  <2> QED
    BY <1>1, <1>4, <2>1, Zenon
<1> QED
  BY <1>1, <1>4, <1>5 DEF StreamInv

(* SetCallback puts what was saved before the rest of the queue. *)
LEMMA StepSetCallback ==
  ASSUME StreamInv, SetCallback
  PROVE  StreamInv' /\ UNCHANGED <<sent, got>>
<1>1. /\ status' = "COMMON" /\ queue' = saved \o queue /\ saved' = <<>>
      /\ UNCHANGED <<script, crypt, sendpackets, m_buffer, sendbuffer, wire, logic, parsing, got, sent>>
  BY DEF SetCallback, sender, network
<1>2. PICK q \in Seq(Pieces), s \in Seq(Pieces) : q = queue /\ s = saved
  BY DEF StreamInv
<1>3. s \o q \in Seq(Pieces) /\ <<>> \o (s \o q) = s \o q
  <2>1. PICK p \in Seq(Pieces) : p = s \o q
    BY ConcatProperties
  <2>2. <<>> \o p = p
    BY ConcatEmptySeq
  <2> QED
    BY <2>1, <2>2, Zenon
<1>4. saved' \in Seq(Pieces) /\ queue' \in Seq(Pieces) /\ saved' \o queue' = saved \o queue
  <2>1. <<>> \in Seq(Pieces)
    OBVIOUS
  <2> QED
    BY <1>1, <1>2, <1>3, <2>1, Zenon
<1>5. InTransit(sendpackets', m_buffer', sendbuffer', wire', saved' \o queue', logic', sent', crypt')
  <2>1. InTransit(sendpackets, m_buffer, sendbuffer, wire, saved \o queue, logic, sent, crypt)
    BY DEF StreamInv
  <2> QED
    BY <1>1, <1>4, <2>1, Zenon
<1> QED
  BY <1>1, <1>4, <1>5 DEF StreamInv

-----------------------------------------------------------------------------
(* The first message that is not yet delivered.                            *)

(* The bytes behind the logic buffer. *)
LEMMA RestType ==
  ASSUME NEW pk \in Seq(Bytes), NEW wr \in Seq(Bytes), NEW sb \in Seq(Bytes), NEW w \in Seq(Bytes)
  PROVE  pk \o (wr \o (sb \o w)) \in Seq(Bytes)
<1>1. PICK a \in Seq(Bytes) : a = sb \o w
  BY BytesJoin, Zenon
<1>2. PICK b \in Seq(Bytes) : b = wr \o a
  BY BytesJoin, Zenon
<1>3. pk \o b \in Seq(Bytes)
  BY BytesJoin, Zenon
<1> QED
  BY <1>1, <1>2, <1>3, Zenon

(* The frame of data and what follows it are what the receiver has and     *)
(* what it still gets, r; the message in it is the first of msgs.          *)
FirstIs(id, data, rest, r, msgs, c, lg, p, wr, sb, w) ==
  /\ id \in Nat /\ data \in Seq(Bytes) /\ rest \in Seq(Bytes) /\ r \in Seq(Bytes)
  /\ id < Base * Base /\ Len(data) < Base * Base
  /\ Frame(id, data) \in Seq(Bytes) /\ Len(Frame(id, data)) <= SendBuffer /\ Len(Frame(id, data)) \in Nat \ {0}
  /\ Explained(id, IF c THEN decrypt(data) ELSE data) = Head(msgs)
  /\ rest = Frames(Tail(msgs), c) /\ r = p \o (wr \o (sb \o w))
  /\ lg \o r = Frame(id, data) \o rest

(* Either nothing is on its way, or the frame of the first message comes   *)
(* first.                                                                  *)
LEMMA FirstOnTheWay ==
  ASSUME NEW msgs, NEW c, NEW sb, NEW wr, NEW lg, NEW pk, NEW p, NEW w, OnTheWay(msgs, c, sb, wr, lg, pk, p, w)
  PROVE  \/ msgs = <<>> /\ lg = <<>>
         \/ /\ msgs # <<>> /\ Tail(msgs) \in Seq(Messages)
            /\ \E id, data, rest, r : FirstIs(id, data, rest, r, msgs, c, lg, p, wr, sb, w)
<1>1. /\ msgs \in Seq(Messages) /\ c \in BOOLEAN /\ sb \in Seq(Bytes) /\ wr \in Seq(Bytes) /\ lg \in Seq(Bytes)
      /\ p \in Seq(Bytes) /\ w \in Seq(Bytes) /\ Transit(lg, p, wr, sb, w) = Frames(msgs, c)
  BY DEF OnTheWay
<1>2. PICK r \in Seq(Bytes) : Transit(lg, p, wr, sb, w) = lg \o r /\ r = p \o (wr \o (sb \o w))
  <2>1. p \o (wr \o (sb \o w)) \in Seq(Bytes)
    BY <1>1, RestType
  <2> QED
    BY <2>1, Zenon DEF Transit
<1>3. CASE msgs = <<>>
  <2>1. lg \o r = <<>>
    BY <1>1, <1>2, <1>3, FramesEmpty, Zenon
  <2>2. Len(lg) = 0
    <3>1. Len(lg \o r) = Len(lg) + Len(r)
      BY <1>1, ConcatProperties
    <3>2. Len(lg \o r) = 0
      BY <2>1
    <3> QED
      BY <1>1, <3>1, <3>2, LenProperties
  <2>3. lg = <<>>
    BY <1>1, <2>2, EmptySeq
  <2> QED
    BY <1>3, <2>3
<1>4. CASE msgs # <<>>
  <2>1. Head(msgs) \in Messages /\ Tail(msgs) \in Seq(Messages)
    BY <1>1, <1>4, FirstAndRest
  <2>2. PICK m \in Messages, t \in Seq(Messages) : m = Head(msgs) /\ t = Tail(msgs)
    BY <2>1
  <2>3. Frames(msgs, c) = FrameOf(Head(msgs), c) \o Frames(Tail(msgs), c)
    BY <1>1, <1>4, FramesHead
  <2>4. PICK id \in Nat : id = m.id /\ id < Base * Base
    BY FrameCarriesMessage DEF Messages
  <2>5. Goes(m)
    BY DEF Messages
  <2>6. PICK data \in Seq(Bytes) :
          /\ Len(data) < Base * Base /\ FrameOf(m, c) = Frame(m.id, data)
          /\ Len(Frame(m.id, data)) <= SendBuffer /\ Len(Frame(m.id, data)) \in Nat \ {0}
          /\ Explained(m.id, IF c THEN decrypt(data) ELSE data) = m
    BY <1>1, <2>5, FrameCarriesMessage
  <2>7. PICK rest \in Seq(Bytes) : rest = Frames(t, c)
    BY <1>1, FramesType
  <2>8. Frame(id, data) \in Seq(Bytes)
    BY <1>1, <2>4, <2>6, FrameOfType
  <2>9. lg \o r = Frame(id, data) \o rest
    BY <1>1, <1>2, <2>2, <2>3, <2>4, <2>6, <2>7, Zenon
  <2>10. FirstIs(id, data, rest, r, msgs, c, lg, p, wr, sb, w)
    BY <1>2, <2>2, <2>4, <2>6, <2>7, <2>8, <2>9, Zenon DEF FirstIs
  <2> QED
    BY <1>4, <2>1, <2>10, Zenon
<1> QED
  BY <1>3, <1>4

(* What is left when the first of two sequences is taken from the front. *)
LeavesRest(b, t, f, r) ==
  Len(b) >= Len(f) /\ b \o t = f \o r => /\ SubSeq(b, Len(f) + 1, Len(b)) \in Seq(Bytes)
                                         /\ SubSeq(b, Len(f) + 1, Len(b)) \o t = r

(* This holds of all sequences of bytes. *)
LEMMA RestIsLeft == \A b, t, f, r \in Seq(Bytes) : LeavesRest(b, t, f, r)
<1> SUFFICES ASSUME NEW b \in Seq(Bytes), NEW t \in Seq(Bytes), NEW f \in Seq(Bytes), NEW r \in Seq(Bytes),
                    Len(b) >= Len(f), b \o t = f \o r
             PROVE  /\ SubSeq(b, Len(f) + 1, Len(b)) \in Seq(Bytes)
                    /\ SubSeq(b, Len(f) + 1, Len(b)) \o t = r
  BY Zenon DEF LeavesRest
<1>1. b \o t = f \o r => /\ SubSeq(b, Len(f) + 1, Len(b)) \in Seq(Bytes)
                         /\ SubSeq(b, Len(f) + 1, Len(b)) \o t = r
  BY LongerPrefix
<1> QED
  BY <1>1, Zenon

(* Either the frame is there as a whole and is what is read, or nothing is. *)
LEMMA FirstIsRead ==
  ASSUME NEW id, NEW data, NEW rest, NEW r, NEW msgs, NEW c, NEW lg \in Seq(Bytes), NEW p, NEW wr, NEW sb, NEW w,
         FirstIs(id, data, rest, r, msgs, c, lg, p, wr, sb, w)
  PROVE  \/ /\ Len(lg) >= Len(Frame(id, data))
            /\ GetDataFromBuf(lg) = [used |-> Len(Frame(id, data)), id |-> id, data |-> data]
            /\ SubSeq(lg, Len(Frame(id, data)) + 1, Len(lg)) \in Seq(Bytes)
            /\ SubSeq(lg, Len(Frame(id, data)) + 1, Len(lg)) \o r = rest
         \/ GetDataFromBuf(lg).used = 0 /\ Len(lg) < Len(Frame(id, data))
<1>1. /\ id \in Nat /\ data \in Seq(Bytes) /\ rest \in Seq(Bytes) /\ r \in Seq(Bytes)
      /\ id < Base * Base /\ Len(data) < Base * Base
      /\ Frame(id, data) \in Seq(Bytes) /\ Len(Frame(id, data)) \in Nat \ {0}
      /\ lg \o r = Frame(id, data) \o rest
  BY Zenon DEF FirstIs
<1>2. IF Len(lg) >= Len(Frame(id, data))
      THEN GetDataFromBuf(lg) = [used |-> Len(Frame(id, data)), id |-> id, data |-> data]
      ELSE GetDataFromBuf(lg).used = 0
  BY <1>1, FirstFrame
<1>3. PICK f \in Seq(Bytes) : f = Frame(id, data)
  BY <1>1
<1>4. CASE Len(lg) >= Len(Frame(id, data))
  <2>1. SubSeq(lg, Len(f) + 1, Len(lg)) \in Seq(Bytes) /\ SubSeq(lg, Len(f) + 1, Len(lg)) \o r = rest
    <3>1. Len(lg) >= Len(f) /\ lg \o r = f \o rest
      BY <1>1, <1>3, <1>4, Zenon
    <3>2. PICK after \in Seq(Bytes) : after = rest
      BY <1>1
    <3>3. PICK r1 \in Seq(Bytes) : r1 = r
      BY <1>1
    <3>4. lg \o r1 = f \o after
      BY <3>1, <3>2, <3>3, Zenon
    <3>5. SubSeq(lg, Len(f) + 1, Len(lg)) \in Seq(Bytes) /\ SubSeq(lg, Len(f) + 1, Len(lg)) \o r1 = after
      <4>1. LeavesRest(lg, r1, f, after)
        BY RestIsLeft, Zenon
      <4> QED
        BY <3>1, <3>4, <4>1, Zenon DEF LeavesRest
    <3> QED
      BY <3>2, <3>3, <3>5, Zenon
  <2> QED
    BY <1>2, <1>3, <1>4, <2>1, Zenon
<1>5. CASE ~(Len(lg) >= Len(Frame(id, data)))
  <2>1. Len(lg) < Len(Frame(id, data))
    BY <1>1, <1>5, LenProperties
  <2> QED
    BY <1>2, <1>5, <2>1, Zenon
<1> QED
  BY <1>4, <1>5

(* While no frame is whole the logic buffer holds less than a frame, so    *)
(* that the next packet fits: OnMsg throws nothing away.                   *)
LEMMA PacketFits ==
  ASSUME StreamInv, ~parsing, NEW h \in Pieces
  PROVE  Fits(h) /\ Len(logic \o h) <= LogicBuffer
<1>1. PICK msgs, c, sb, wr, lg, pk, p, w : OnTheWay(msgs, c, sb, wr, lg, pk, p, w)
  BY AllOnTheWay
<1>2. lg = logic /\ lg \in Seq(Bytes)
  BY <1>1 DEF OnTheWay
<1>3. GetDataFromBuf(lg).used = 0
  BY <1>2 DEF StreamInv
<1>4. PICK n \in Nat : n = Len(lg)
  BY <1>2, LenProperties
<1>5. n <= SendBuffer
  <2>1. CASE lg = <<>>
    BY <1>4, <2>1, StreamNumbers
  <2>2. CASE lg # <<>>
    <3>1. PICK id, data, rest, r : FirstIs(id, data, rest, r, msgs, c, lg, p, wr, sb, w)
      BY <1>1, <2>2, FirstOnTheWay, Zenon
    <3>2. PICK l \in Nat \ {0} : l = Len(Frame(id, data)) /\ l <= SendBuffer
      BY <3>1 DEF FirstIs
    <3>3. \/ GetDataFromBuf(lg) = [used |-> l, id |-> id, data |-> data]
          \/ n < l
      BY <1>2, <1>4, <3>1, <3>2, FirstIsRead, Zenon
    <3>4. CASE GetDataFromBuf(lg) = [used |-> l, id |-> id, data |-> data]
      <4>1. GetDataFromBuf(lg).used = l
        BY <3>4
      <4> QED
        BY <1>3, <3>2, <4>1
    <3>5. CASE n < l
      BY <1>4, <3>2, <3>5, StreamNumbers
    <3> QED
      BY <3>3, <3>4, <3>5
  <2> QED
    BY <2>1, <2>2
<1>6. PICK k \in Nat : k = Len(h) /\ k <= PacketLen /\ h \in Seq(Bytes)
  BY DEF Pieces
<1>7. n + k <= LogicBuffer
  BY <1>4, <1>5, <1>6, StreamSizes
<1>8. Len(lg \o h) = n + k
  BY <1>2, <1>4, <1>6, ConcatProperties
<1> QED
  BY <1>2, <1>4, <1>6, <1>7, <1>8 DEF Fits

(* A packet goes from the queue to the end of the logic buffer. *)
LEMMA StepOnMsg ==
  ASSUME StreamInv, OnMsg
  PROVE  StreamInv' /\ UNCHANGED <<sent, got>> /\ logic' = logic \o Head(queue)
<1>1. /\ status = "COMMON" /\ ~parsing /\ queue # <<>>
      /\ logic' = (IF Fits(Head(queue)) THEN logic ELSE <<>>) \o Head(queue)
      /\ queue' = Tail(queue) /\ parsing' = TRUE
      /\ UNCHANGED <<script, crypt, sendpackets, m_buffer, sendbuffer, wire, status, saved, got, sent>>
  BY DEF OnMsg, sender, network
<1>2. PICK q \in Seq(Pieces) : q = queue /\ q # <<>> /\ saved = <<>>
  BY <1>1 DEF StreamInv
<1>3. PICK h \in Pieces, t \in Seq(Pieces), one \in Seq(Pieces) :
        h = Head(q) /\ t = Tail(q) /\ one = <<h>> /\ q = one \o t
  <2>1. Head(q) \in Pieces /\ Tail(q) \in Seq(Pieces) /\ <<Head(q)>> \in Seq(Pieces) /\ q = <<Head(q)>> \o Tail(q)
    BY <1>2, FirstAndRest
  <2> QED
    BY <2>1, Zenon
<1>4. PICK msgs, c, sb, wr, lg, pk, p, w : OnTheWay(msgs, c, sb, wr, lg, pk, p, w)
  BY AllOnTheWay
<1>5. h \in Seq(Bytes)
  BY DEF Pieces
<1>6. logic' = lg \o h /\ logic' \in Seq(Bytes) /\ Len(logic') <= LogicBuffer
  <2>1. Fits(h) /\ Len(logic \o h) <= LogicBuffer
    BY <1>1, PacketFits
  <2>2. lg = logic /\ lg \in Seq(Bytes)
    BY <1>4 DEF OnTheWay
  <2>3. logic' = lg \o h
    BY <1>1, <1>2, <1>3, <2>1, <2>2, Zenon
  <2>4. lg \o h \in Seq(Bytes)
    BY <1>5, <2>2, BytesJoin, Zenon
  <2> QED
    BY <2>1, <2>2, <2>3, <2>4, Zenon
<1>7. pk = q
  <2>1. <<>> \o q = q
    BY ConcatEmptySeq
  <2> QED
    BY <1>2, <1>4, <2>1, Zenon DEF OnTheWay
<1>8. PICK p1 \in Seq(Bytes) : p1 = FlattenSeq(t)
  BY PiecesAreBytes
<1>9. p = h \o p1
  <2>1. one \in Seq(Seq(Bytes)) /\ t \in Seq(Seq(Bytes))
    BY PiecesAreBytes
  <2>2. FlattenSeq(one \o t) = FlattenSeq(one) \o FlattenSeq(t)
    BY <2>1, FlattenConcat
  <2>3. FlattenSeq(<<h>>) = h
    BY <1>5, FlattenOne
  <2>4. p = FlattenSeq(q)
    BY <1>4, <1>7, Zenon DEF OnTheWay
  <2> QED
    BY <1>3, <1>8, <2>2, <2>3, <2>4, Zenon
<1>10. MovesToLogic(lg, h, p1, wr, sb, w)
  BY <1>4, <1>5, IntoLogic DEF OnTheWay
<1>11. Transit(lg \o h, p1, wr, sb, w) = Frames(msgs, c)
  BY <1>4, <1>9, <1>10, Zenon DEF MovesToLogic, OnTheWay
<1>12. saved' \o queue' = t
  <2>1. <<>> \o t = t
    BY ConcatEmptySeq
  <2> QED
    BY <1>1, <1>2, <1>3, <2>1, Zenon
<1>13. InTransit(sendpackets', m_buffer', sendbuffer', wire', saved' \o queue', logic', sent', crypt')
  <2>1. w \in Seq(Bytes) /\ Waits(sendpackets', m_buffer', w)
    BY <1>1, <1>4, Zenon DEF OnTheWay
  <2>2. crypt' = c /\ sent' = msgs /\ wire' = wr /\ sendbuffer' = sb
    BY <1>1, <1>4, Zenon DEF OnTheWay
  <2> QED
    BY <1>6, <1>8, <1>11, <1>12, <2>1, <2>2, Zenon DEF InTransit
<1>14. queue' \in Seq(Pieces)
  BY <1>1, <1>2, <1>3
<1>15. logic' = logic \o Head(queue)
  BY <1>2, <1>3, <1>4, <1>6, Zenon DEF OnTheWay
<1>16. StreamInv'
  BY <1>1, <1>2, <1>6, <1>13, <1>14 DEF StreamInv
<1> QED
  BY <1>1, <1>15, <1>16

(* The first frame is the first message, and the rest of the buffer stays. *)
LEMMA StepTransMsg ==
  ASSUME StreamInv, TransMsg
  PROVE  StreamInv' /\ Stream!Deliver
<1>1. PICK packet : packet = GetDataFromBuf(logic)
  OBVIOUS
<1>2. PICK data : data = IF crypt THEN decrypt(packet.data) ELSE packet.data
  OBVIOUS
<1>3. /\ parsing /\ packet.used > 0
      /\ logic' = SubSeq(logic, packet.used + 1, Len(logic))
      /\ got' = Append(got, Explained(packet.id, data))
      /\ sent' = IF sent = <<>> THEN sent ELSE Tail(sent)
      /\ UNCHANGED <<script, crypt, sendpackets, m_buffer, sendbuffer, wire, queue, status, saved, parsing>>
  BY <1>1, <1>2 DEF TransMsg, sender, network
<1>4. PICK msgs, c, sb, wr, lg, pk, p, w : OnTheWay(msgs, c, sb, wr, lg, pk, p, w)
  BY AllOnTheWay
<1>5. /\ msgs \in Seq(Messages) /\ msgs = sent /\ c = crypt /\ sb = sendbuffer /\ wr = wire
      /\ lg \in Seq(Bytes) /\ lg = logic /\ pk = saved \o queue /\ p = FlattenSeq(pk)
      /\ w \in Seq(Bytes) /\ Waits(sendpackets, m_buffer, w)
  BY <1>4, Zenon DEF OnTheWay
<1>6. packet.used # 0
  BY <1>3
<1>7. lg # <<>>
  BY <1>1, <1>5, <1>6, NothingToRead, Zenon
<1>8. PICK id, text, rest, r : FirstIs(id, text, rest, r, msgs, c, lg, p, wr, sb, w)
  BY <1>4, <1>7, FirstOnTheWay, Zenon
<1>9. msgs # <<>> /\ Tail(msgs) \in Seq(Messages)
  BY <1>4, <1>7, FirstOnTheWay, Zenon
<1>10. PICK l \in Nat \ {0} : l = Len(Frame(id, text))
  BY <1>8 DEF FirstIs
<1>11. /\ packet = [used |-> l, id |-> id, data |-> text] /\ l <= Len(lg)
       /\ SubSeq(lg, l + 1, Len(lg)) \in Seq(Bytes)
       /\ SubSeq(lg, l + 1, Len(lg)) \o r = rest
  <2>1. \/ /\ Len(lg) >= l
           /\ GetDataFromBuf(lg) = [used |-> l, id |-> id, data |-> text]
           /\ SubSeq(lg, l + 1, Len(lg)) \in Seq(Bytes)
           /\ SubSeq(lg, l + 1, Len(lg)) \o r = rest
        \/ GetDataFromBuf(lg).used = 0
    BY <1>5, <1>8, <1>10, FirstIsRead, Zenon
  <2>2. /\ Len(lg) >= l
        /\ GetDataFromBuf(lg) = [used |-> l, id |-> id, data |-> text]
        /\ SubSeq(lg, l + 1, Len(lg)) \in Seq(Bytes)
        /\ SubSeq(lg, l + 1, Len(lg)) \o r = rest
    BY <1>1, <1>5, <1>6, <2>1, Zenon
  <2>3. l <= Len(lg)
    BY <1>5, <2>2, LenProperties
  <2> QED
    BY <1>1, <1>5, <2>2, <2>3, Zenon
<1>12. packet.used = l /\ packet.id = id /\ packet.data = text
  BY <1>11
<1>13. Explained(packet.id, data) = Head(msgs)
  BY <1>2, <1>5, <1>8, <1>12, Zenon DEF FirstIs
<1>14. sent' = Tail(sent) /\ sent # <<>> /\ got' = Append(got, Head(sent)) /\ sent' \in Seq(Messages)
  BY <1>3, <1>5, <1>9, <1>13, Zenon
<1>15. PICK after \in Seq(Bytes) : after = logic' /\ after \o r = rest /\ Len(after) <= LogicBuffer
  <2>1. PICK after \in Seq(Bytes) : after = SubSeq(lg, l + 1, Len(lg)) /\ after \o r = rest
    BY <1>11, Zenon
  <2>2. after = logic'
    BY <1>3, <1>5, <1>12, <2>1, Zenon
  <2>3. PICK n \in Nat : n = Len(lg) /\ n <= LogicBuffer
    BY <1>5, LenProperties DEF StreamInv
  <2>4. l \in Nat /\ l <= n /\ n <= Len(lg)
    BY <1>10, <1>11, <2>3
  <2>5. Len(SubSeq(lg, l + 1, n)) = n - l
    BY <1>5, <2>4, Slice
  <2>6. Len(after) <= LogicBuffer
    BY <2>1, <2>3, <2>4, <2>5, StreamNumbers
  <2> QED
    BY <2>1, <2>2, <2>6, Zenon
<1>16. Transit(after, p, wr, sb, w) = Frames(Tail(msgs), c)
  BY <1>8, <1>15, Zenon DEF FirstIs, Transit
<1>17. InTransit(sendpackets', m_buffer', sendbuffer', wire', saved' \o queue', logic', sent', crypt')
  <2>1. Waits(sendpackets', m_buffer', w) /\ Transit(logic', FlattenSeq(saved' \o queue'), wire', sendbuffer', w) = Frames(sent', crypt')
    BY <1>3, <1>5, <1>14, <1>15, <1>16, Zenon
  <2> QED
    BY <1>5, <2>1, Zenon DEF InTransit
<1>18. StreamInv'
  BY <1>3, <1>14, <1>15, <1>17 DEF StreamInv
<1> QED
  BY <1>14, <1>18 DEF Stream!Deliver

(* The loop ends where no frame is whole. *)
LEMMA StepIncomplete ==
  ASSUME StreamInv, Incomplete
  PROVE  StreamInv' /\ UNCHANGED <<sent, got>>
<1>1. /\ GetDataFromBuf(logic).used = 0 /\ parsing' = FALSE
      /\ UNCHANGED <<script, crypt, sendpackets, m_buffer, sendbuffer, wire, queue, status, saved, logic, got, sent>>
  BY DEF Incomplete, sender, network
<1> QED
  BY <1>1 DEF StreamInv

-----------------------------------------------------------------------------
(* The invariant and the theorems.                                         *)

(* Every step is one of the channel, which loses nothing, or none.         *)
LEMMA StreamStep ==
  ASSUME StreamInv, [Next]_vars
  PROVE  StreamInv' /\ (Stream!Accept \/ Stream!Deliver \/ UNCHANGED <<sent, got>>)
<1>1. CASE ProgramSends
  <2>1. StreamInv' /\ UNCHANGED got /\ (UNCHANGED sent \/ \E m \in ScriptMessages : sent' = Append(sent, m))
    BY <1>1, StepProgramSends
  <2> QED
    BY <2>1 DEF Stream!Accept, ScriptMessages
<1>2. CASE SetCallback
  BY <1>2, StepSetCallback
<1>3. CASE OnSocketIOCPSend
  BY <1>3, StepOnSocketIOCPSend
<1>4. CASE OnSocketIOCPRecv
  BY <1>4, StepOnSocketIOCPRecv
<1>5. CASE SavePacket
  BY <1>5, StepSavePacket
<1>6. CASE OnMsg
  BY <1>6, StepOnMsg
<1>7. CASE TransMsg
  BY <1>7, StepTransMsg
<1>8. CASE Incomplete
  BY <1>8, StepIncomplete
<1>9. CASE UNCHANGED vars
  BY <1>9 DEF vars, sender, network, receiver, StreamInv
<1> QED
  BY <1>1, <1>2, <1>3, <1>4, <1>5, <1>6, <1>7, <1>8, <1>9 DEF Next, Library

(* The invariant implies the type invariant of the run. *)
LEMMA InvTyping == ASSUME StreamInv PROVE TypeOK
<1>1. /\ status \in {"CONNECTING", "COMMON"} /\ parsing \in BOOLEAN
      /\ Len(sendbuffer) <= SendBuffer /\ Len(logic) <= LogicBuffer
  BY DEF StreamInv
<1>2. \A b \in ToSet(sendbuffer \o wire \o logic) : b \in Bytes
  <2>1. PICK s \in Seq(Bytes) : s = sendbuffer \o wire \o logic
    <3>1. PICK a \in Seq(Bytes) : a = sendbuffer \o wire
      BY BytesJoin, Zenon DEF StreamInv
    <3> QED
      BY <3>1, BytesJoin, Zenon DEF StreamInv
  <2>2. \A i \in DOMAIN s : s[i] \in Bytes
    BY ElementOfSeq, LenProperties
  <2> QED
    BY <2>1, <2>2 DEF ToSet
<1>3. \A p \in ToSet(queue \o saved) : Len(p) \in 1..PacketLen
  <2>1. PICK s \in Seq(Pieces) : s = queue \o saved
    BY ConcatProperties DEF StreamInv
  <2>2. \A i \in DOMAIN s : s[i] \in Pieces
    BY ElementOfSeq, LenProperties
  <2> QED
    BY <2>1, <2>2 DEF ToSet, Pieces
<1>4. \A p \in Addresses : Len(m_buffer[p]) \in 0..PacketLen
  <2>1. PICK w : Waits(sendpackets, m_buffer, w)
    BY DEF StreamInv, InTransit
  <2>2. m_buffer \in [Addresses -> Seq(Bytes)] /\ \A p \in Addresses : Len(m_buffer[p]) <= PacketLen
    BY <2>1 DEF Waits
  <2> SUFFICES ASSUME NEW p \in Addresses PROVE Len(m_buffer[p]) \in 0..PacketLen
    OBVIOUS
  <2>3. Len(m_buffer[p]) \in Nat
    BY <2>2, LenProperties
  <2> QED
    BY <2>2, <2>3, StreamNumbers
<1> QED
  BY <1>1, <1>2, <1>3, <1>4 DEF TypeOK

(* The buffers of a connection never hold more than there is room for, and *)
(* nothing but bytes (Connect.h:136-152); no packet more than its array     *)
(* (Packet.h:33).                                                          *)
THEOREM StreamTyping == Spec => []TypeOK
<1>1. Init => StreamInv
  BY StreamInit
<1>2. StreamInv /\ [Next]_vars => StreamInv'
  BY StreamStep
<1>3. StreamInv => TypeOK
  BY InvTyping
<1> QED
  BY <1>1, <1>2, <1>3, PTL DEF Spec

(* Messages that SendMsg accepts reach TransMsg in their order, each once  *)
(* and with its values: the stream implements the channel.                 *)
THEOREM MessagesInOrder == Spec => StreamInOrder
<1>1. Init => StreamInv /\ Stream!Init
  BY StreamInit DEF Init, Stream!Init
<1>2. StreamInv /\ [Next]_vars => StreamInv' /\ [Stream!Next]_(Stream!vars)
  BY StreamStep DEF Stream!Next, Stream!vars
<1> QED
  BY <1>1, <1>2, PTL DEF Spec, StreamInOrder, Stream!Spec

(* Nor does the stream lose any, as the channel may: every step accepts a  *)
(* message, delivers the first that is on its way, or does neither.        *)
THEOREM NoMessageLost == Spec => [][Stream!Accept \/ Stream!Deliver]_<<sent, got>>
<1>1. Init => StreamInv
  BY StreamInit
<1>2. StreamInv /\ [Next]_vars => StreamInv' /\ [Stream!Accept \/ Stream!Deliver]_<<sent, got>>
  BY StreamStep
<1> QED
  BY <1>1, <1>2, PTL DEF Spec

(* No packet finds the logic buffer too full to take it, so that OnMsg     *)
(* never throws away the beginning of a message (Connect.cpp:492).         *)
NothingThrownAway == [][OnMsg => logic' = logic \o Head(queue)]_vars

(* CConnect::OnMsg never throws away what is in the logic buffer for want  *)
(* of room for the next packet (Connect.cpp:492).                          *)
THEOREM BufferIsKept == Spec => NothingThrownAway
<1>1. Init => StreamInv
  BY StreamInit
<1>2. StreamInv /\ [Next]_vars => StreamInv'
  BY StreamStep
<1>3. StreamInv /\ [Next]_vars => [OnMsg => logic' = logic \o Head(queue)]_vars
  BY StepOnMsg
<1> QED
  BY <1>1, <1>2, <1>3, PTL DEF Spec, NothingThrownAway
=============================================================================
