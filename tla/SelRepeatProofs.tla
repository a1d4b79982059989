--------------------------- MODULE SelRepeatProofs ---------------------------
(***************************************************************************)
(* The safety of sr.cpp for every number of messages, sizes of its rings   *)
(* and amount of packets in flight.                                        *)
(*                                                                         *)
(* As for Go-back-N the invariant says what every packet that can pass the *)
(* checksum is made of; that what A sends again is of this kind takes that *)
(* no packet of the window is overwritten in the ring.                     *)
(***************************************************************************)
EXTENDS SelRepeat, SimulatorProofs, ListProofs

\* The packet A makes of the message numbered i.
PktOf(i) == MakePkt(i, 0, MsgData(i))

NoPanic == status \in {"running", "terminated"}

Counters ==
  /\ buffer_next = nsim
  /\ seq_a <= expect_seq_b
  /\ expect_seq_b <= next_seq_a
  /\ next_seq_a = SendLimit(seq_a, buffer_next)

\* The first n messages are where send_packets looks for them.
Buffered(msgs, n) == \A i \in 0..n - 1 : msgs[i % BufferLen] = MsgData(i)

\* The packets from first up to limit are where A_timerinterrupt looks for them.
Kept(packets, first, limit) ==
  \A i \in first..limit - 1 : packets[i % Window] = PktOf(i)

\* What passes the checksum in the queue is one of the first n packets of A.
FromA(queue, n) ==
  \A j \in 1..Len(queue) : Checks(queue[j]) => \E i \in 0..n - 1 : queue[j] = PktOf(i)

\* What passes the checksum in the queue acknowledges a packet below n, or is
\* the answer of B before the first one.
FromB(queue, n) ==
  \A j \in 1..Len(queue) : Checks(queue[j]) => \E i \in -1..n - 1 : queue[j] = Ack(i)

Delivered ==
  /\ Len(received) = expect_seq_b
  /\ \A i \in 1..Len(received) : received[i] = MsgData(i - 1)

IInv ==
  /\ TypeOK
  /\ NoPanic
  /\ Counters
  /\ Buffered(buffer, nsim)
  /\ Kept(packetSent, seq_a, next_seq_a)
  /\ FromA(toB, next_seq_a)
  /\ FromB(toA, expect_seq_b)
  /\ Delivered
  /\ TimerIffOutstanding

----------------------------------------------------------------------------

LEMMA Constants ==
  /\ NsimMax \in Nat /\ NsimMax <= 1000
  /\ Window \in Nat \ {0} /\ BufferLen \in Nat \ {0} /\ NsimMax <= BufferLen
BY NsimMaxAssumption, SelRepeatAssumption

LEMMA PktOfType ==
  ASSUME NEW i \in 0..NsimMax
  PROVE  PktOf(i) \in Packet /\ PktOf(i).seqnum = i /\ PktOf(i).payload = MsgData(i)
<1>1. PktOf(i) \in Packet
  BY MsgDataType, MakePktType, Constants DEF PktOf
<1> QED
  BY <1>1 DEF PktOf, MakePkt

LEMMA AckType ==
  ASSUME NEW n \in Int
  PROVE  Ack(n) \in Packet /\ Ack(n).acknum = n
<1>1. Ack(n) \in Packet
  BY NoDataType, MakePktType DEF Ack
<1> QED
  BY <1>1 DEF Ack, MakePkt

\* Sending packets of A leaves only packets of A that pass the checksum.
LEMMA SendingFromA ==
  ASSUME NEW queue \in Seq(Packet), NEW n \in 0..NsimMax,
         FromA(queue, n),
         NEW pkts \in Seq(Packet),
         \A j \in 1..Len(pkts) : \E i \in 0..n - 1 : pkts[j] = PktOf(i),
         NEW q \in ToLayer3(queue, CapB, pkts)
  PROVE  q \in Seq(Packet) /\ FromA(q, n)
<1>1. \A j \in 1..Len(pkts) :
        \E seqnum, acknum \in {m \in Int : m < BadNumber}, data \in Payload :
          data.first # 90 /\ pkts[j] = MakePkt(seqnum, acknum, data)
  <2> SUFFICES ASSUME NEW j \in 1..Len(pkts)
               PROVE  \E seqnum, acknum \in {m \in Int : m < BadNumber}, data \in Payload :
                        data.first # 90 /\ pkts[j] = MakePkt(seqnum, acknum, data)
    OBVIOUS
  <2>1. PICK i \in 0..n - 1 : pkts[j] = PktOf(i)
    OBVIOUS
  <2>2. i \in Nat /\ i < BadNumber /\ 0 < BadNumber
    BY Constants, SMT DEF BadNumber
  <2>3. MsgData(i) \in Payload /\ MsgData(i).first # 90
    BY <2>2, MsgDataType
  <2> QED
    BY <2>1, <2>2, <2>3 DEF PktOf
<1>2. \A j \in 1..Len(q) : Checks(q[j]) =>
        \/ j \in 1..Len(queue) /\ q[j] = queue[j]
        \/ \E k \in 1..Len(pkts) : q[j] = pkts[k]
  BY <1>1, ToLayer3Intact
<1>3. FromA(q, n)
  BY <1>2 DEF FromA
<1> QED
  BY <1>3, ToLayer3Elements

\* Sending an acknowledgement below n keeps them below n.
LEMMA SendingFromB ==
  ASSUME NEW queue \in Seq(Packet), NEW n \in 0..NsimMax, FromB(queue, n),
         NEW i \in -1..n - 1,
         NEW q \in ToLayer3(queue, CapA, <<Ack(i)>>)
  PROVE  q \in Seq(Packet) /\ FromB(q, n)
<1> DEFINE pkts == <<Ack(i)>>
<1>1. /\ pkts \in Seq(Packet)
      /\ \A j \in 1..Len(pkts) : pkts[j] = Ack(i)
      /\ q \in ToLayer3(queue, CapA, pkts)
  BY AckType
<1>2. i \in Int /\ i < BadNumber /\ 0 < BadNumber
  BY Constants, SMT DEF BadNumber
<1>3. \A j \in 1..Len(pkts) :
        \E seqnum, acknum \in {m \in Int : m < BadNumber}, data \in Payload :
          data.first # 90 /\ pkts[j] = MakePkt(seqnum, acknum, data)
  BY <1>1, <1>2, NoDataType DEF Ack
<1> HIDE DEF pkts
<1>4. \A j \in 1..Len(q) : Checks(q[j]) =>
        \/ j \in 1..Len(queue) /\ q[j] = queue[j]
        \/ \E k \in 1..Len(pkts) : q[j] = pkts[k]
  BY <1>1, <1>3, ToLayer3Intact, SMTT(30)
<1>5. FromB(q, n)
  BY <1>1, <1>4 DEF FromB
<1> QED
  BY <1>1, <1>5, ToLayer3Elements

\* Taking the first packet off a queue keeps what is known of the rest.
LEMMA TakingFromA ==
  ASSUME NEW queue \in Seq(Packet), queue # << >>, NEW n, FromA(queue, n)
  PROVE  /\ Head(queue) \in Packet
         /\ Tail(queue) \in Seq(Packet)
         /\ FromA(Tail(queue), n)
         /\ Checks(Head(queue)) => \E i \in 0..n - 1 : Head(queue) = PktOf(i)
<1>1. /\ Tail(queue) \in Seq(Packet)
      /\ Head(queue) \in Packet
      /\ \A j \in 1..Len(Tail(queue)) : j + 1 \in 1..Len(queue) /\ Tail(queue)[j] = queue[j + 1]
  BY HeadTailProperties, LenProperties
<1>2. 1 \in 1..Len(queue) /\ Head(queue) = queue[1]
  BY LenProperties
<1> QED
  BY <1>1, <1>2 DEF FromA

LEMMA TakingFromB ==
  ASSUME NEW queue \in Seq(Packet), queue # << >>, NEW n, FromB(queue, n)
  PROVE  /\ Head(queue) \in Packet
         /\ Tail(queue) \in Seq(Packet)
         /\ FromB(Tail(queue), n)
         /\ Checks(Head(queue)) => \E i \in -1..n - 1 : Head(queue) = Ack(i)
<1>1. /\ Tail(queue) \in Seq(Packet)
      /\ Head(queue) \in Packet
      /\ \A j \in 1..Len(Tail(queue)) : j + 1 \in 1..Len(queue) /\ Tail(queue)[j] = queue[j + 1]
  BY HeadTailProperties, LenProperties
<1>2. 1 \in 1..Len(queue) /\ Head(queue) = queue[1]
  BY LenProperties
<1> QED
  BY <1>1, <1>2 DEF FromB

\* What send_packets makes of the state when the window begins at first and
\* count messages have been accepted.
LEMMA SendPackets ==
  ASSUME TypeOK, FromA(toB, next_seq_a),
         NEW first \in 0..NsimMax, NEW count \in 0..NsimMax,
         NEW msgs, Buffered(msgs, count), NEW running \in BOOLEAN,
         send_packets(first, count, msgs, running),
         first <= next_seq_a, next_seq_a <= SendLimit(first, count),
         Kept(packetSent, first, next_seq_a)
  PROVE  /\ next_seq_a' = SendLimit(first, count)
         /\ next_seq_a' \in 0..count
         /\ packetSent' \in [0..Window - 1 -> Packet]
         /\ Kept(packetSent', first, next_seq_a')
         /\ toB' \in Seq(Packet) /\ FromA(toB', next_seq_a')
         /\ timer' = (running \/ (next_seq_a < next_seq_a' /\ first = next_seq_a))
<1> DEFINE limit == SendLimit(first, count)
           at(k) == {i \in next_seq_a..limit - 1 : i % Window = k}
           pkt(i) == getPacketDetail(i, 0, msgs)
           pkts == [j \in 1..limit - next_seq_a |-> pkt(next_seq_a + j - 1)]
<1>1. /\ limit \in 0..count /\ limit <= first + Window
      /\ next_seq_a \in Nat /\ limit - next_seq_a \in Nat
  BY Constants DEF SendLimit, Smaller, TypeOK, SeqNums
<1>2. next_seq_a' = limit /\ timer' = (running \/ (next_seq_a < limit /\ first = next_seq_a))
  <2>1. next_seq_a' = IF next_seq_a..limit - 1 = {} THEN next_seq_a ELSE limit
    BY DEF send_packets
  <2>2. ASSUME next_seq_a # limit PROVE next_seq_a \in next_seq_a..limit - 1
    BY <1>1, <2>2
  <2>3. timer' = (running \/ StartsTimer(first, limit))
    BY DEF send_packets
  <2> QED
    BY <2>1, <2>2, <2>3 DEF StartsTimer
<1>3. ASSUME NEW i \in next_seq_a..limit - 1
      PROVE  i \in 0..NsimMax /\ pkt(i) = PktOf(i) /\ pkt(i) \in Packet
  <2>1. i \in 0..count - 1 /\ i \in 0..NsimMax
    BY <1>1, Constants
  <2>2. msgs[i % BufferLen] = MsgData(i)
    BY <2>1 DEF Buffered
  <2> QED
    BY <2>1, <2>2, PktOfType DEF getPacketDetail, PktOf
<1>4. \A k \in 0..Window - 1 :
        packetSent'[k] = IF at(k) = {} THEN packetSent[k] ELSE pkt(CHOOSE i \in at(k) : TRUE)
  BY DEF send_packets
<1>5. packetSent' = [k \in 0..Window - 1 |->
        IF at(k) = {} THEN packetSent[k] ELSE pkt(CHOOSE i \in at(k) : TRUE)]
  BY DEF send_packets
<1>6. toB' \in ToLayer3(toB, CapB, pkts)
  BY DEF send_packets
<1> HIDE DEF limit, pkt
<1>7. packetSent' \in [0..Window - 1 -> Packet]
  <2>1. ASSUME NEW k \in 0..Window - 1
        PROVE  (IF at(k) = {} THEN packetSent[k] ELSE pkt(CHOOSE i \in at(k) : TRUE)) \in Packet
    <3>1. CASE at(k) = {}
      BY <3>1 DEF TypeOK
    <3>2. CASE at(k) # {}
      <4>1. (CHOOSE i \in at(k) : TRUE) \in next_seq_a..limit - 1
        BY <3>2
      <4> QED
        BY <3>2, <4>1, <1>3
    <3> QED
      BY <3>1, <3>2
  <2> QED
    BY <1>5, <2>1
<1>8. Kept(packetSent', first, limit)
  <2> SUFFICES ASSUME NEW i \in first..limit - 1
               PROVE  packetSent'[i % Window] = PktOf(i)
    BY DEF Kept
  <2>1. i \in Nat /\ i % Window \in 0..Window - 1
    BY <1>1, Constants, Division
  <2>2. ASSUME NEW j \in first..limit - 1, j # i
        PROVE  j % Window # i % Window
    <3>1. j \in Nat /\ j - i < Window /\ i - j < Window /\ (i < j \/ j < i)
      BY <1>1, <2>1, <2>2, Constants
    <3> QED
      BY <2>1, <3>1, DifferentPlaces, Constants
  <2>3. CASE i < next_seq_a
    <3>1. at(i % Window) = {}
      BY <1>1, <2>1, <2>2, <2>3
    <3>2. packetSent[i % Window] = PktOf(i)
      BY <1>1, <2>3 DEF Kept
    <3> QED
      BY <1>4, <2>1, <3>1, <3>2
  <2>4. CASE i >= next_seq_a
    <3>1. i \in at(i % Window) /\ \A j \in at(i % Window) : j = i
      BY <1>1, <2>1, <2>2, <2>4
    <3>2. (CHOOSE j \in at(i % Window) : TRUE) = i
      BY <3>1
    <3> QED
      BY <1>1, <1>3, <1>4, <2>1, <2>4, <3>1, <3>2
  <2> QED
    BY <1>1, <2>1, <2>3, <2>4
<1>9. toB' \in Seq(Packet) /\ FromA(toB', limit)
  <2>1. \A j \in 1..limit - next_seq_a :
          /\ next_seq_a + j - 1 \in 0..limit - 1
          /\ pkt(next_seq_a + j - 1) = PktOf(next_seq_a + j - 1)
          /\ pkt(next_seq_a + j - 1) \in Packet
    BY <1>1, <1>3
  <2>2. pkts \in Seq(Packet) /\ Len(pkts) = limit - next_seq_a
    <3>1. PICK n \in Nat : n = limit - next_seq_a
      BY <1>1
    <3>2. pkts = [j \in 1..n |-> pkt(next_seq_a + j - 1)]
      BY <3>1
    <3> QED
      BY <2>1, <3>1, <3>2, IsASeq
  <2>3. \A j \in 1..Len(pkts) : \E i \in 0..limit - 1 : pkts[j] = PktOf(i)
    BY <2>1, <2>2
  <2>4. toB \in Seq(Packet) /\ FromA(toB, limit) /\ limit \in 0..NsimMax
    BY <1>1, Constants DEF TypeOK, SimulatorTypeOK, FromA
  <2> HIDE DEF pkts
  <2> QED
    BY <1>6, <2>2, <2>3, <2>4, SendingFromA
<1> QED
  BY <1>1, <1>2, <1>7, <1>8, <1>9 DEF limit

----------------------------------------------------------------------------
(* The invariant holds initially and is kept by every step.                *)

LEMMA InitInv == Init => IInv
<1> SUFFICES ASSUME Init PROVE IInv
  OBVIOUS
<1>1. << >> \in Seq(Packet) /\ << >> \in Seq(Payload)
  BY EmptySeq
<1>2. /\ packetSent \in [0..Window - 1 -> Packet]
      /\ buffer \in [0..BufferLen - 1 -> Payload]
  BY NoDataType, MakePktType DEF Init
<1>3. TypeOK
  BY <1>1, <1>2, Constants
  DEF Init, SimulatorInit, Layer5Init, TypeOK, SimulatorTypeOK, Layer5TypeOK, Statuses, SeqNums
<1>4. NoPanic /\ Counters /\ Delivered /\ TimerIffOutstanding
  BY Constants DEF Init, SimulatorInit, Layer5Init, NoPanic, Counters, Delivered,
                   TimerIffOutstanding, SendLimit, Smaller
<1>5. /\ Buffered(buffer, nsim) /\ Kept(packetSent, seq_a, next_seq_a)
      /\ FromA(toB, next_seq_a) /\ FromB(toA, expect_seq_b)
  BY DEF Init, SimulatorInit, Layer5Init, Buffered, Kept, FromA, FromB
<1> QED
  BY <1>3, <1>4, <1>5 DEF IInv

\* No message of main is dropped: the test for it is false.
LEMMA NeverRefused == IInv => ~Refused
BY Constants DEF IInv, Refused, TypeOK, SeqNums

LEMMA FromLayer5Inv == IInv /\ FromLayer5 => IInv'
<1> SUFFICES ASSUME IInv, FromLayer5 PROVE IInv'
  OBVIOUS
<1>1. /\ nsim \in Nat /\ nsim < NsimMax /\ nsim' = nsim + 1 /\ nsim' \in 0..NsimMax
      /\ seq_a \in 0..NsimMax /\ next_seq_a \in 0..NsimMax /\ expect_seq_b \in 0..NsimMax
      /\ UNCHANGED <<status, received, toA>>
  BY Constants DEF IInv, TypeOK, SimulatorTypeOK, Layer5TypeOK, SeqNums, FromLayer5, Running
<1>2. /\ buffer' = [buffer EXCEPT ![nsim % BufferLen] = MsgData(nsim)]
      /\ buffer_next' = nsim'
      /\ send_packets(seq_a, nsim', buffer', timer)
      /\ UNCHANGED <<seq_a, expect_seq_b>>
  BY <1>1, NeverRefused DEF FromLayer5, A_output, IInv, Counters
<1>3. buffer' \in [0..BufferLen - 1 -> Payload]
  BY <1>1, <1>2, MsgDataType DEF IInv, TypeOK
<1>4. Buffered(buffer', nsim')
  <2> SUFFICES ASSUME NEW i \in 0..nsim' - 1
               PROVE  buffer'[i % BufferLen] = MsgData(i)
    BY DEF Buffered
  <2>1. /\ i \in 0..BufferLen - 1 /\ i % BufferLen = i
        /\ nsim \in 0..BufferLen - 1 /\ nsim % BufferLen = nsim
    BY <1>1, Constants, OwnPlace
  <2>2. CASE i = nsim
    BY <1>2, <2>1, <2>2 DEF IInv, TypeOK
  <2>3. CASE i # nsim
    <3>1. i \in 0..nsim - 1
      BY <1>1, <2>3
    <3>2. buffer[i % BufferLen] = MsgData(i)
      BY <3>1 DEF IInv, Buffered
    <3> QED
      BY <1>2, <2>1, <2>3, <3>2 DEF IInv, TypeOK
  <2> QED
    BY <2>2, <2>3
<1>5. seq_a <= next_seq_a /\ next_seq_a <= SendLimit(seq_a, nsim')
  BY <1>1, Constants DEF IInv, Counters, SendLimit, Smaller
<1>6. timer \in BOOLEAN /\ (timer <=> seq_a < next_seq_a)
  BY DEF IInv, TypeOK, SimulatorTypeOK, TimerIffOutstanding
<1>7. /\ next_seq_a' = SendLimit(seq_a, nsim')
      /\ next_seq_a' \in 0..nsim'
      /\ packetSent' \in [0..Window - 1 -> Packet]
      /\ Kept(packetSent', seq_a, next_seq_a')
      /\ toB' \in Seq(Packet) /\ FromA(toB', next_seq_a')
      /\ timer' = (timer \/ (next_seq_a < next_seq_a' /\ seq_a = next_seq_a))
  BY <1>1, <1>2, <1>4, <1>5, <1>6, SendPackets DEF IInv
<1>8. TypeOK'
  BY <1>1, <1>2, <1>3, <1>6, <1>7, Constants
  DEF IInv, TypeOK, SimulatorTypeOK, Layer5TypeOK, SeqNums
<1>9. TimerIffOutstanding'
  <2>1. seq_a < next_seq_a' <=>
          (seq_a < next_seq_a \/ (next_seq_a < next_seq_a' /\ seq_a = next_seq_a))
    BY <1>1, <1>5, <1>7
  <2>2. timer' <=> seq_a < next_seq_a'
    BY <1>6, <1>7, <2>1, Zenon
  <2> QED
    BY <1>2, <2>2 DEF TimerIffOutstanding
<1>10. NoPanic' /\ Counters' /\ Delivered' /\ FromB(toA, expect_seq_b)'
  BY <1>1, <1>2, <1>5, <1>7 DEF IInv, NoPanic, Counters, Delivered, FromB
<1>11. Kept(packetSent, seq_a, next_seq_a)'
  BY <1>2, <1>7 DEF Kept
<1> QED
  BY <1>4, <1>7, <1>8, <1>9, <1>10, <1>11 DEF IInv

LEMMA FromLayer3ToAInv == IInv /\ FromLayer3ToA => IInv'
<1> SUFFICES ASSUME IInv, FromLayer3ToA PROVE IInv'
  OBVIOUS
<1> DEFINE packet == Head(toA)
<1>1. /\ UNCHANGED <<nsim, status, received, buffer, buffer_next, expect_seq_b>>
      /\ toA # << >> /\ toA' = Tail(toA)
      /\ A_input(packet)
  BY DEF FromLayer3ToA, A_input, protvars
<1>2. /\ nsim \in 0..NsimMax /\ buffer_next = nsim
      /\ seq_a \in 0..NsimMax /\ next_seq_a \in 0..NsimMax /\ expect_seq_b \in 0..NsimMax
      /\ toA \in Seq(Packet) /\ timer \in BOOLEAN
  BY DEF IInv, TypeOK, SimulatorTypeOK, Layer5TypeOK, SeqNums, Counters
<1>3. /\ toA' \in Seq(Packet) /\ FromB(toA', expect_seq_b)
      /\ Checks(packet) => \E i \in -1..expect_seq_b - 1 : packet = Ack(i)
  BY <1>1, <1>2, TakingFromB DEF IInv
<1>4. CASE ~WindowAck(packet)
  <2>1. UNCHANGED <<packetSent, seq_a, next_seq_a, toB, timer>>
    BY <1>1, <1>4 DEF A_input, protvars
  <2>2. TypeOK'
    BY <1>1, <1>3, <2>1 DEF IInv, TypeOK, SimulatorTypeOK, Layer5TypeOK
  <2>3. /\ NoPanic' /\ Counters' /\ Delivered' /\ TimerIffOutstanding'
        /\ Buffered(buffer, nsim)' /\ Kept(packetSent, seq_a, next_seq_a)'
        /\ FromA(toB, next_seq_a)'
    BY <1>1, <2>1 DEF IInv, NoPanic, Counters, Delivered, TimerIffOutstanding,
                      Buffered, Kept, FromA
  <2> QED
    BY <1>1, <1>3, <2>2, <2>3 DEF IInv
<1>5. CASE WindowAck(packet)
  <2>1. /\ seq_a' = packet.acknum + 1
        /\ send_packets(seq_a', nsim, buffer, seq_a' # next_seq_a)
    BY <1>1, <1>2, <1>5 DEF A_input
  <2>2. PICK i \in -1..expect_seq_b - 1 : packet = Ack(i)
    BY <1>3, <1>5 DEF WindowAck
  <2>3. packet.acknum = i /\ seq_a <= i
    BY <1>2, <1>5, <2>2, AckType DEF WindowAck
  <2>4. /\ seq_a' = i + 1 /\ seq_a' \in 0..NsimMax /\ seq_a < seq_a'
        /\ seq_a' <= expect_seq_b /\ seq_a' <= next_seq_a
        /\ next_seq_a <= SendLimit(seq_a', nsim)
    <3>1. seq_a' = i + 1 /\ seq_a' \in 0..NsimMax /\ seq_a < seq_a' /\ seq_a' <= expect_seq_b
      BY <1>2, <2>1, <2>2, <2>3, Constants
    <3>2. seq_a' <= next_seq_a /\ next_seq_a = SendLimit(seq_a, nsim)
      BY <1>2, <3>1 DEF IInv, Counters
    <3>3. SendLimit(seq_a, nsim) <= SendLimit(seq_a', nsim)
      BY <1>2, <3>1, Constants DEF SendLimit, Smaller
    <3> QED
      BY <3>1, <3>2, <3>3
  <2>5. Kept(packetSent, seq_a', next_seq_a)
    BY <1>2, <2>4 DEF IInv, Kept
  <2>6. /\ next_seq_a' = SendLimit(seq_a', nsim)
        /\ next_seq_a' \in 0..nsim
        /\ packetSent' \in [0..Window - 1 -> Packet]
        /\ Kept(packetSent', seq_a', next_seq_a')
        /\ toB' \in Seq(Packet) /\ FromA(toB', next_seq_a')
        /\ timer' = ((seq_a' # next_seq_a) \/ (next_seq_a < next_seq_a' /\ seq_a' = next_seq_a))
    BY <1>2, <2>1, <2>4, <2>5, SendPackets DEF IInv
  <2>7. TypeOK'
    BY <1>1, <1>2, <1>3, <2>4, <2>6, Constants
    DEF IInv, TypeOK, SimulatorTypeOK, Layer5TypeOK, SeqNums
  <2>8. TimerIffOutstanding'
    <3>1. seq_a' < next_seq_a' <=>
            (seq_a' # next_seq_a \/ (next_seq_a < next_seq_a' /\ seq_a' = next_seq_a))
      BY <1>2, <2>4, <2>6
    <3> QED
      BY <2>6, <3>1, Zenon DEF TimerIffOutstanding
  <2>9. NoPanic' /\ Counters' /\ Delivered' /\ Buffered(buffer, nsim)'
    <3>1. NoPanic' /\ Delivered' /\ Buffered(buffer, nsim)'
      BY <1>1 DEF IInv, NoPanic, Delivered, Buffered
    <3>2. next_seq_a' = SendLimit(seq_a', nsim)
      BY <2>6
    <3>3. expect_seq_b <= next_seq_a
      BY DEF IInv, Counters
    <3>4. expect_seq_b <= next_seq_a'
      BY <1>2, <2>4, <2>6, <3>2, <3>3
    <3>5. Counters'
      BY <1>1, <1>2, <2>4, <3>2, <3>4 DEF Counters
    <3> QED
      BY <3>1, <3>5
  <2>10. Kept(packetSent, seq_a, next_seq_a)' /\ FromA(toB, next_seq_a)'
    BY <2>6 DEF Kept, FromA
  <2>11. FromB(toA, expect_seq_b)'
    BY <1>1, <1>3 DEF FromB
  <2> QED
    BY <2>7, <2>8, <2>9, <2>10, <2>11 DEF IInv
<1> QED
  BY <1>4, <1>5

LEMMA FromLayer3ToBInv == IInv /\ FromLayer3ToB => IInv'
<1> SUFFICES ASSUME IInv, FromLayer3ToB PROVE IInv'
  OBVIOUS
<1> DEFINE packet == Head(toB)
<1>1. /\ UNCHANGED <<nsim, timer, packetSent, seq_a, next_seq_a, buffer, buffer_next>>
      /\ toB # << >> /\ toB' = Tail(toB)
      /\ B_input(packet)
  BY DEF FromLayer3ToB, B_input, protvars
<1>2. /\ nsim \in 0..NsimMax
      /\ seq_a \in 0..NsimMax /\ next_seq_a \in 0..nsim /\ expect_seq_b \in 0..NsimMax
      /\ toA \in Seq(Packet) /\ toB \in Seq(Packet) /\ received \in Seq(Payload)
  BY Constants DEF IInv, TypeOK, SimulatorTypeOK, Layer5TypeOK, SeqNums, Counters,
                   SendLimit, Smaller
<1>3. /\ toB' \in Seq(Packet) /\ FromA(toB', next_seq_a)
      /\ Checks(packet) => \E i \in 0..next_seq_a - 1 : packet = PktOf(i)
  BY <1>1, <1>2, TakingFromA DEF IInv
<1>4. CASE ~Checks(packet)
  <2>1. UNCHANGED <<status, received, toA, expect_seq_b>>
    BY <1>1, <1>4 DEF B_input, NoToLayer5, protvars
  <2>2. TypeOK'
    BY <1>1, <1>3, <2>1 DEF IInv, TypeOK, SimulatorTypeOK, Layer5TypeOK
  <2>3. /\ NoPanic' /\ Counters' /\ Delivered' /\ TimerIffOutstanding'
        /\ Buffered(buffer, nsim)' /\ Kept(packetSent, seq_a, next_seq_a)'
        /\ FromB(toA, expect_seq_b)'
    BY <1>1, <2>1 DEF IInv, NoPanic, Counters, Delivered, TimerIffOutstanding,
                      Buffered, Kept, FromB
  <2> QED
    BY <1>1, <1>3, <2>2, <2>3 DEF IInv
<1>5. CASE Checks(packet) /\ packet.seqnum # expect_seq_b
  <2>1. /\ UNCHANGED <<status, received, expect_seq_b>>
        /\ toA' \in ToLayer3(toA, CapA, <<Ack(expect_seq_b - 1)>>)
    BY <1>1, <1>5 DEF B_input, OtherAck, NoToLayer5, protvars
  <2>2. toA' \in Seq(Packet) /\ FromB(toA', expect_seq_b)
    <3>1. expect_seq_b - 1 \in -1..expect_seq_b - 1 /\ FromB(toA, expect_seq_b)
      BY <1>2 DEF IInv
    <3> QED
      BY <1>2, <2>1, <3>1, SendingFromB
  <2>3. TypeOK'
    BY <1>1, <1>3, <2>1, <2>2 DEF IInv, TypeOK, SimulatorTypeOK, Layer5TypeOK
  <2>4. /\ NoPanic' /\ Counters' /\ Delivered' /\ TimerIffOutstanding'
        /\ Buffered(buffer, nsim)' /\ Kept(packetSent, seq_a, next_seq_a)'
    BY <1>1, <2>1 DEF IInv, NoPanic, Counters, Delivered, TimerIffOutstanding,
                      Buffered, Kept
  <2> QED
    BY <1>1, <1>3, <2>1, <2>2, <2>3, <2>4 DEF IInv
<1>6. CASE Checks(packet) /\ packet.seqnum = expect_seq_b
  <2>1. /\ ToLayer5(packet.payload)
        /\ toA' \in ToLayer3(toA, CapA, <<Ack(expect_seq_b)>>)
        /\ expect_seq_b' = expect_seq_b + 1
    BY <1>1, <1>6 DEF B_input
  <2>2. PICK i \in 0..next_seq_a - 1 : packet = PktOf(i)
    BY <1>3, <1>6
  <2>3. /\ i = expect_seq_b /\ packet.payload = MsgData(expect_seq_b)
        /\ expect_seq_b < next_seq_a /\ expect_seq_b < nsim
    BY <1>2, <1>6, <2>2, PktOfType, Constants
  <2>4. Len(received) = expect_seq_b
    BY DEF IInv, Delivered
  <2>5. /\ received' = Append(received, MsgData(Len(received)))
        /\ status' = status
    BY <1>2, <2>1, <2>3, <2>4 DEF ToLayer5
  <2>6. received' \in Seq(Payload) /\ Delivered'
    <3>1. Len(received) \in Nat /\ MsgData(Len(received)) \in Payload
      BY <1>2, LenProperties, MsgDataType
    <3>2. /\ received' \in Seq(Payload)
          /\ Len(received') = Len(received) + 1
          /\ \A j \in 1..Len(received) : received'[j] = received[j]
          /\ received'[Len(received) + 1] = MsgData(Len(received))
      BY <1>2, <2>5, <3>1, AppendProperties
    <3>3. Len(received') = expect_seq_b'
      BY <2>1, <2>4, <3>2
    <3>4. ASSUME NEW j \in 1..Len(received')
          PROVE  received'[j] = MsgData(j - 1)
      <4>1. CASE j \in 1..Len(received)
        BY <3>2, <4>1 DEF IInv, Delivered
      <4>2. CASE j = Len(received) + 1
        BY <3>1, <3>2, <4>2
      <4> QED
        BY <3>1, <3>2, <4>1, <4>2
    <3> QED
      BY <3>2, <3>3, <3>4 DEF Delivered
  <2>7. toA' \in Seq(Packet) /\ FromB(toA', expect_seq_b')
    <3>1. /\ expect_seq_b' \in 0..NsimMax /\ FromB(toA, expect_seq_b')
          /\ expect_seq_b \in -1..expect_seq_b' - 1
      BY <1>2, <2>1, <2>3, Constants DEF IInv, FromB
    <3> QED
      BY <1>2, <2>1, <3>1, SendingFromB
  <2>8. TypeOK'
    BY <1>1, <1>2, <1>3, <2>1, <2>3, <2>5, <2>6, <2>7, Constants
    DEF IInv, TypeOK, SimulatorTypeOK, Layer5TypeOK, SeqNums
  <2>9. NoPanic' /\ Counters' /\ TimerIffOutstanding'
    BY <1>1, <1>2, <2>1, <2>3, <2>5, Constants
    DEF IInv, NoPanic, Counters, TimerIffOutstanding
  <2>10. Buffered(buffer, nsim)' /\ Kept(packetSent, seq_a, next_seq_a)'
    BY <1>1 DEF IInv, Buffered, Kept
  <2> QED
    BY <1>1, <1>3, <2>6, <2>7, <2>8, <2>9, <2>10 DEF IInv
<1> QED
  BY <1>4, <1>5, <1>6

LEMMA TimerInterruptInv == IInv /\ TimerInterrupt => IInv'
<1> SUFFICES ASSUME IInv, TimerInterrupt PROVE IInv'
  OBVIOUS
<1> DEFINE pkts == [j \in 1..next_seq_a - seq_a |-> packetSent[(seq_a + j - 1) % Window]]
<1>1. /\ UNCHANGED <<nsim, status, received, toA, packetSent, seq_a, next_seq_a, buffer,
                     buffer_next, expect_seq_b>>
      /\ toB' \in ToLayer3(toB, CapB, pkts)
      /\ timer /\ timer' = TRUE
  BY DEF TimerInterrupt, A_timerinterrupt, protvars
<1>2. /\ seq_a \in Nat /\ next_seq_a \in 0..NsimMax /\ next_seq_a - seq_a \in Nat
      /\ toB \in Seq(Packet) /\ FromA(toB, next_seq_a)
  BY Constants DEF IInv, TypeOK, SimulatorTypeOK, SeqNums, Counters
<1>3. /\ pkts \in Seq(Packet)
      /\ \A j \in 1..Len(pkts) : \E i \in 0..next_seq_a - 1 : pkts[j] = PktOf(i)
  <2>1. PICK n \in Nat : n = next_seq_a - seq_a
    BY <1>2
  <2>2. pkts = [j \in 1..n |-> packetSent[(seq_a + j - 1) % Window]]
    BY <2>1
  <2>3. ASSUME NEW j \in 1..n
        PROVE  /\ seq_a + j - 1 \in 0..next_seq_a - 1
               /\ packetSent[(seq_a + j - 1) % Window] = PktOf(seq_a + j - 1)
               /\ packetSent[(seq_a + j - 1) % Window] \in Packet
    <3>1. seq_a + j - 1 \in seq_a..next_seq_a - 1 /\ seq_a + j - 1 \in 0..NsimMax
      BY <1>2, <2>1, Constants
    <3>2. packetSent[(seq_a + j - 1) % Window] = PktOf(seq_a + j - 1)
      BY <3>1 DEF IInv, Kept
    <3> QED
      BY <1>2, <3>1, <3>2, PktOfType
  <2>4. pkts \in Seq(Packet) /\ Len(pkts) = n
    <3>1. \A j \in 1..n : packetSent[(seq_a + j - 1) % Window] \in Packet
      BY <2>3
    <3>2. [j \in 1..n |-> packetSent[(seq_a + j - 1) % Window]] \in Seq(Packet)
      BY <3>1, IsASeq
    <3>3. Len([j \in 1..n |-> packetSent[(seq_a + j - 1) % Window]]) = n
      OBVIOUS
    <3> QED
      BY <2>2, <3>2, <3>3, Zenon
  <2> QED
    BY <2>2, <2>3, <2>4
<1> HIDE DEF pkts
<1>4. toB' \in Seq(Packet) /\ FromA(toB', next_seq_a)
  BY <1>1, <1>2, <1>3, SendingFromA
<1>5. TypeOK'
  BY <1>1, <1>4 DEF IInv, TypeOK, SimulatorTypeOK, Layer5TypeOK
<1>6. TimerIffOutstanding'
  BY <1>1 DEF IInv, TimerIffOutstanding
<1>7. /\ NoPanic' /\ Counters' /\ Delivered'
      /\ Buffered(buffer, nsim)' /\ Kept(packetSent, seq_a, next_seq_a)'
      /\ FromB(toA, expect_seq_b)'
  BY <1>1 DEF IInv, NoPanic, Counters, Delivered, Buffered, Kept, FromB
<1> QED
  BY <1>1, <1>4, <1>5, <1>6, <1>7 DEF IInv

LEMMA FinishInv == IInv /\ Finish => IInv'
<1> SUFFICES ASSUME IInv, Finish PROVE IInv'
  OBVIOUS
<1>1. /\ status' = "terminated"
      /\ UNCHANGED <<nsim, received, toA, toB, timer, packetSent, seq_a, next_seq_a, buffer,
                     buffer_next, expect_seq_b>>
  BY DEF Finish, Terminate, protvars
<1>2. TypeOK'
  BY <1>1 DEF IInv, TypeOK, SimulatorTypeOK, Layer5TypeOK, Statuses
<1>3. /\ NoPanic' /\ Counters' /\ Delivered' /\ TimerIffOutstanding'
      /\ Buffered(buffer, nsim)' /\ Kept(packetSent, seq_a, next_seq_a)'
      /\ FromA(toB, next_seq_a)' /\ FromB(toA, expect_seq_b)'
  BY <1>1 DEF IInv, NoPanic, Counters, Delivered, TimerIffOutstanding,
              Buffered, Kept, FromA, FromB
<1> QED
  BY <1>2, <1>3 DEF IInv

LEMMA StutterInv == IInv /\ UNCHANGED vars => IInv'
<1> SUFFICES ASSUME IInv, UNCHANGED vars PROVE IInv'
  OBVIOUS
<1>1. UNCHANGED <<nsim, status, received, toA, toB, timer, packetSent, seq_a, next_seq_a,
                  buffer, buffer_next, expect_seq_b>>
  BY DEF vars, simvars, protvars
<1> QED
  BY <1>1 DEF IInv, TypeOK, SimulatorTypeOK, Layer5TypeOK, NoPanic, Counters, Delivered,
              TimerIffOutstanding, Buffered, Kept, FromA, FromB

LEMMA NextInv == IInv /\ [Next]_vars => IInv'
BY FromLayer5Inv, FromLayer3ToAInv, FromLayer3ToBInv, TimerInterruptInv, FinishInv,
   StutterInv DEF Next

THEOREM Invariance == Spec => []IInv
BY InitInv, NextInv, PTL DEF Spec

----------------------------------------------------------------------------
(* The properties of SelRepeat.                                            *)

\* Every run of the protocol keeps its types and its counters in range.
THEOREM TypeCorrect == Spec => []TypeOK
<1>1. IInv => TypeOK
  BY DEF IInv
<1> QED
  BY <1>1, Invariance, PTL

\* Whatever is lost or damaged, and whenever the timer goes off, layer 5 at B
\* is given the messages of layer 5 at A in their order, each once.
THEOREM DeliveryInOrder == Spec => []InOrderDelivery
<1>1. IInv => InOrderDelivery
  <2> SUFFICES ASSUME IInv PROVE InOrderDelivery
    OBVIOUS
  <2>1. expect_seq_b <= nsim
    BY Constants DEF IInv, TypeOK, SimulatorTypeOK, Layer5TypeOK, SeqNums, Counters,
                     SendLimit, Smaller
  <2> QED
    BY <2>1 DEF IInv, Delivered, InOrderDelivery
<1> QED
  BY <1>1, Invariance, PTL

\* The two rings of A hold what it will read of them: no packet of the window
\* and no message of the backlog has been put over another one of them.
THEOREM RingsKept == Spec => []RingsHoldBacklog
<1>1. IInv => RingsHoldBacklog
  <2> SUFFICES ASSUME IInv PROVE RingsHoldBacklog
    OBVIOUS
  <2>1. buffer_next = nsim /\ next_seq_a \in Nat /\ nsim \in Nat
    BY DEF IInv, TypeOK, SimulatorTypeOK, Layer5TypeOK, SeqNums, Counters
  <2>2. \A i \in next_seq_a..buffer_next - 1 : i \in 0..nsim - 1
    BY <2>1
  <2> QED
    BY <2>2 DEF IInv, Buffered, Kept, PktOf, RingsHoldBacklog
<1> QED
  BY <1>1, Invariance, PTL

\* The timer of A runs exactly while a packet is not acknowledged.
THEOREM TimerExact == Spec => []TimerIffOutstanding
<1>1. IInv => TimerIffOutstanding
  BY DEF IInv
<1> QED
  BY <1>1, Invariance, PTL

\* What A takes for acknowledged has been handed to layer 5 at B.
THEOREM AcknowledgedIsDelivered == Spec => []AckedIsDelivered
<1>1. IInv => AckedIsDelivered
  <2> SUFFICES ASSUME IInv PROVE AckedIsDelivered
    OBVIOUS
  <2>1. /\ seq_a <= expect_seq_b /\ expect_seq_b = Len(received)
        /\ expect_seq_b <= next_seq_a /\ expect_seq_b \in Nat
    BY DEF IInv, TypeOK, SeqNums, Counters, Delivered
  <2>2. ASSUME NEW j \in DOMAIN toA, Checks(toA[j])
        PROVE  toA[j].acknum < expect_seq_b
    <3>1. toA \in Seq(Packet) /\ j \in 1..Len(toA)
      BY LenProperties DEF IInv, TypeOK, SimulatorTypeOK
    <3>2. PICK i \in -1..expect_seq_b - 1 : toA[j] = Ack(i)
      BY <2>2, <3>1 DEF IInv, FromB
    <3>3. toA[j].acknum = i
      BY <3>2, AckType
    <3> QED
      BY <2>1, <3>2, <3>3
  <2> QED
    BY <2>1, <2>2 DEF AckedIsDelivered
<1> QED
  BY <1>1, Invariance, PTL

----------------------------------------------------------------------------
(* The protocol implements the service, but for its fairness.              *)

LEMMA StepImplementsService == IInv /\ [Next]_vars => [Service!Next]_Service!vars
<1> SUFFICES ASSUME IInv, [Next]_vars PROVE [Service!Next]_Service!vars
  OBVIOUS
<1> USE DEF Service!Next, Service!Accept, Service!Deliver, Service!vars
<1>1. nsim \in 0..NsimMax /\ next_seq_a \in 0..nsim
  BY Constants DEF IInv, TypeOK, SimulatorTypeOK, Layer5TypeOK, SeqNums, Counters,
                   SendLimit, Smaller
<1>2. CASE FromLayer5
  BY <1>1, <1>2, Constants DEF FromLayer5, Running
<1>3. CASE FromLayer3ToA
  BY <1>3 DEF FromLayer3ToA
<1>4. CASE FromLayer3ToB
  <2> DEFINE packet == Head(toB)
  <2>1. nsim # NsimMax /\ nsim' = nsim /\ toB # << >> /\ B_input(packet)
    BY <1>4 DEF FromLayer3ToB, Running
  <2>2. CASE ~(Checks(packet) /\ packet.seqnum = expect_seq_b)
    BY <2>1, <2>2 DEF B_input, NoToLayer5
  <2>3. CASE Checks(packet) /\ packet.seqnum = expect_seq_b
    <3>1. PICK i \in 0..next_seq_a - 1 : packet = PktOf(i)
      <4>1. toB \in Seq(Packet) /\ FromA(toB, next_seq_a)
        BY DEF IInv, TypeOK, SimulatorTypeOK
      <4> QED
        BY <2>1, <2>3, <4>1, TakingFromA
    <3>2. i = expect_seq_b /\ packet.payload = MsgData(expect_seq_b) /\ expect_seq_b < nsim
      BY <1>1, <2>3, <3>1, PktOfType, Constants
    <3>3. /\ Len(received) = expect_seq_b
          /\ Len(received) < nsim
          /\ received' = Append(received, MsgData(Len(received)))
      BY <1>1, <2>1, <2>3, <3>2 DEF IInv, Delivered, B_input, ToLayer5
    <3>4. Service!MsgData(Len(received)) = MsgData(Len(received))
      BY DEF Service!MsgData, Service!Filled, MsgData, Filled
    <3> QED
      BY <1>1, <2>1, <3>3, <3>4, Constants
  <2> QED
    BY <2>2, <2>3
<1>5. CASE TimerInterrupt
  BY <1>5 DEF TimerInterrupt
<1>6. CASE Finish
  BY <1>6 DEF Finish, Terminate
<1>7. CASE UNCHANGED vars
  BY <1>7 DEF vars, simvars
<1> QED
  BY <1>2, <1>3, <1>4, <1>5, <1>6, <1>7 DEF Next

\* Every run of the protocol is a run of the service, as far as its order goes:
\* that each message gets through is left to TLC.
THEOREM ServiceOrderKept == Spec => Service!Spec
<1>1. Init => Service!Init
  BY DEF Init, SimulatorInit, Layer5Init, Service!Init
<1> QED
  BY <1>1, StepImplementsService, Invariance, PTL DEF Spec, Service!Spec
==============================================================================
