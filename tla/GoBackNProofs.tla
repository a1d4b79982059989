---------------------------- MODULE GoBackNProofs ----------------------------
(***************************************************************************)
(* The safety of gbn.cpp for every number of messages, window size and     *)
(* amount of packets in flight.                                            *)
(*                                                                         *)
(* The invariant IInv says what every packet that can pass the checksum is *)
(* made of: one on its way to B is the packet A numbered s, one on its way *)
(* to A acknowledges a packet B has already handed to layer 5.             *)
(***************************************************************************)
EXTENDS GoBackN, SimulatorProofs

\* The packet A makes of the message numbered s.
PktOf(s) == MakePkt(s, -1, MsgData(s - 1))

\* The acknowledgement of the packet numbered n.
AckOf(n) == MakePkt(0, n, NoData)

Typing ==
  /\ SimulatorTypeOK
  /\ base \in Nat
  /\ next_seq_num \in Nat
  /\ send_window \in Seq(Packet)
  /\ b_ack \in Nat

NoPanic == status \in {"running", "terminated"}

Numbering ==
  /\ next_seq_num = nsim + 1
  /\ Len(send_window) = nsim
  /\ \A s \in 1..nsim : send_window[s] = PktOf(s)

Window ==
  /\ 1 <= base
  /\ base <= b_ack
  /\ b_ack <= next_seq_num
  /\ b_ack <= base + WinSize

\* What passes the checksum in the queue is one of the first n packets of
\* A, and is numbered below edge.
FromA(queue, n, edge) ==
  \A i \in 1..Len(queue) :
    Checks(queue[i]) => \E s \in 1..n : s < edge /\ queue[i] = PktOf(s)

\* What passes the checksum in the queue acknowledges a packet up to n.
FromB(queue, n) ==
  \A i \in 1..Len(queue) :
    Checks(queue[i]) => \E s \in 1..n : queue[i] = AckOf(s)

Delivered ==
  /\ Len(received) = b_ack - 1
  /\ \A i \in 1..Len(received) : received[i] = MsgData(i - 1)

IInv ==
  /\ Typing
  /\ NoPanic
  /\ Numbering
  /\ Window
  /\ FromA(toB, nsim, base + WinSize)
  /\ FromB(toA, b_ack - 1)
  /\ Delivered
  /\ TimerCoversOutstanding

----------------------------------------------------------------------------

LEMMA Constants == NsimMax \in Nat /\ NsimMax <= 1000 /\ WinSize \in Nat
BY NsimMaxAssumption, WinSizeAssumption

LEMMA PktOfType ==
  ASSUME NEW s \in 1..NsimMax + 1
  PROVE  PktOf(s) \in Packet /\ PktOf(s).seqnum = s /\ PktOf(s).payload = MsgData(s - 1)
<1>1. s \in Int /\ s - 1 \in Nat
  BY Constants
<1>2. MsgData(s - 1) \in Payload
  BY <1>1, MsgDataType
<1>3. PktOf(s) \in Packet
  BY <1>1, <1>2, MakePktType DEF PktOf
<1> QED
  BY <1>3 DEF PktOf, MakePkt

LEMMA AckOfType ==
  ASSUME NEW n \in Nat
  PROVE  AckOf(n) \in Packet /\ AckOf(n).acknum = n
<1>1. AckOf(n) \in Packet
  BY NoDataType, MakePktType DEF AckOf
<1> QED
  BY <1>1 DEF AckOf, MakePkt

\* Every packet of a part of the window is one A made, and in the window.
LEMMA SliceElements ==
  ASSUME Typing, Numbering,
         NEW from \in Nat, 1 <= from,
         NEW first \in Nat
  PROVE  /\ Slice(from, WindowEnd(first)) \in Seq(Packet)
         /\ \A j \in 1..Len(Slice(from, WindowEnd(first))) :
              \E s \in 1..nsim :
                s < first + WinSize /\ Slice(from, WindowEnd(first))[j] = PktOf(s)
<1> DEFINE upto == WindowEnd(first)
<1>1. upto \in Int /\ upto <= nsim + 1 /\ upto <= first + WinSize /\ nsim \in Nat
  BY Constants DEF WindowEnd, Smaller, Typing, Numbering, SimulatorTypeOK, Layer5TypeOK
<1>2. \A k \in from..upto - 1 : k \in 1..nsim /\ send_window[k] \in Packet
  BY <1>1, ElementOfSeq DEF Typing, Numbering
<1> HIDE DEF upto
<1>3. /\ SubSeq(send_window, from, upto - 1) \in Seq(Packet)
      /\ Len(SubSeq(send_window, from, upto - 1)) =
           IF from <= upto - 1 THEN (upto - 1) - from + 1 ELSE 0
      /\ \A j \in 1..(upto - 1) - from + 1 :
           SubSeq(send_window, from, upto - 1)[j] = send_window[from + j - 1]
  BY <1>1, <1>2, SubSeqProperties
<1>4. ASSUME NEW j \in 1..Len(Slice(from, upto))
      PROVE  \E s \in 1..nsim :
               s < first + WinSize /\ Slice(from, upto)[j] = PktOf(s)
  <2>1. /\ from + j - 1 \in from..upto - 1
        /\ Slice(from, upto)[j] = send_window[from + j - 1]
    BY <1>1, <1>3, <1>4 DEF Slice
  <2>2. from + j - 1 < first + WinSize /\ from + j - 1 \in 1..nsim
    BY <1>1, <1>2, <2>1, Constants
  <2> QED
    BY <2>1, <2>2 DEF Numbering
<1> QED
  BY <1>3, <1>4 DEF Slice, upto

\* Sending packets of A leaves only packets of A that pass the checksum.
LEMMA SendingFromA ==
  ASSUME NEW queue \in Seq(Packet), NEW n \in 0..NsimMax, NEW edge \in Int,
         FromA(queue, n, edge),
         NEW pkts \in Seq(Packet),
         \A j \in 1..Len(pkts) : \E s \in 1..n : s < edge /\ pkts[j] = PktOf(s),
         NEW q \in ToLayer3(queue, CapB, pkts)
  PROVE  q \in Seq(Packet) /\ FromA(q, n, edge)
<1>1. \A j \in 1..Len(pkts) :
        \E seqnum, acknum \in {m \in Int : m < BadNumber}, data \in Payload :
          data.first # 90 /\ pkts[j] = MakePkt(seqnum, acknum, data)
  <2> SUFFICES ASSUME NEW j \in 1..Len(pkts)
               PROVE  \E seqnum, acknum \in {m \in Int : m < BadNumber}, data \in Payload :
                        data.first # 90 /\ pkts[j] = MakePkt(seqnum, acknum, data)
    OBVIOUS
  <2>1. PICK s \in 1..n : pkts[j] = PktOf(s)
    OBVIOUS
  <2>2. s \in Int /\ s < BadNumber /\ s - 1 \in Nat /\ -1 \in Int /\ -1 < BadNumber
    BY Constants, SMT DEF BadNumber
  <2>3. MsgData(s - 1) \in Payload /\ MsgData(s - 1).first # 90
    BY <2>2, MsgDataType
  <2> QED
    BY <2>1, <2>2, <2>3 DEF PktOf
<1>2. \A i \in 1..Len(q) : Checks(q[i]) =>
        \/ i \in 1..Len(queue) /\ q[i] = queue[i]
        \/ \E j \in 1..Len(pkts) : q[i] = pkts[j]
  BY <1>1, ToLayer3Intact, SMTT(20)
<1>3. FromA(q, n, edge)
  BY <1>2 DEF FromA
<1> QED
  BY <1>3, ToLayer3Elements

\* Sending an acknowledgement up to n keeps them up to n.
LEMMA SendingFromB ==
  ASSUME NEW queue \in Seq(Packet), NEW n \in 1..NsimMax, FromB(queue, n),
         NEW q \in ToLayer3(queue, CapA, <<AckOf(n)>>)
  PROVE  q \in Seq(Packet) /\ FromB(q, n)
<1> DEFINE pkts == <<AckOf(n)>>
<1>1. /\ pkts \in Seq(Packet)
      /\ \A j \in 1..Len(pkts) : pkts[j] = AckOf(n)
      /\ q \in ToLayer3(queue, CapA, pkts)
  BY AckOfType
<1>2. n \in Int /\ n < BadNumber /\ 0 \in Int /\ 0 < BadNumber
  BY Constants, SMT DEF BadNumber
<1>3. \A j \in 1..Len(pkts) :
        \E seqnum, acknum \in {m \in Int : m < BadNumber}, data \in Payload :
          data.first # 90 /\ pkts[j] = MakePkt(seqnum, acknum, data)
  BY <1>1, <1>2, NoDataType DEF AckOf
<1> HIDE DEF pkts
<1>4. \A i \in 1..Len(q) : Checks(q[i]) =>
        \/ i \in 1..Len(queue) /\ q[i] = queue[i]
        \/ \E j \in 1..Len(pkts) : q[i] = pkts[j]
  BY <1>1, <1>3, ToLayer3Intact
<1>5. FromB(q, n)
  BY <1>1, <1>2, <1>4 DEF FromB
<1> QED
  BY <1>1, <1>5, ToLayer3Elements

\* Taking the first packet off a queue keeps what is known of the rest.
LEMMA TakingFromA ==
  ASSUME NEW queue \in Seq(Packet), queue # << >>, NEW n, NEW edge,
         FromA(queue, n, edge)
  PROVE  /\ Head(queue) \in Packet
         /\ Tail(queue) \in Seq(Packet)
         /\ FromA(Tail(queue), n, edge)
         /\ Checks(Head(queue)) =>
              \E s \in 1..n : s < edge /\ Head(queue) = PktOf(s)
<1>1. /\ Tail(queue) \in Seq(Packet)
      /\ Head(queue) \in Packet
      /\ \A i \in 1..Len(Tail(queue)) : i + 1 \in 1..Len(queue) /\ Tail(queue)[i] = queue[i + 1]
  BY HeadTailProperties, LenProperties
<1>2. 1 \in 1..Len(queue) /\ Head(queue) = queue[1]
  BY LenProperties
<1> QED
  BY <1>1, <1>2 DEF FromA

LEMMA TakingFromB ==
  ASSUME NEW queue \in Seq(Packet), queue # << >>, NEW n, FromB(queue, n)
  PROVE  /\ Head(queue) \in Packet
         /\ Tail(queue) \in Seq(Packet)
         /\ FromB(Tail(queue), n)
         /\ Checks(Head(queue)) => \E s \in 1..n : Head(queue) = AckOf(s)
<1>1. /\ Tail(queue) \in Seq(Packet)
      /\ Head(queue) \in Packet
      /\ \A i \in 1..Len(Tail(queue)) : i + 1 \in 1..Len(queue) /\ Tail(queue)[i] = queue[i + 1]
  BY HeadTailProperties, LenProperties
<1>2. 1 \in 1..Len(queue) /\ Head(queue) = queue[1]
  BY LenProperties
<1> QED
  BY <1>1, <1>2 DEF FromB

----------------------------------------------------------------------------
(* The invariant holds initially and is kept by every step.                *)

LEMMA InitInv == Init => IInv
<1> SUFFICES ASSUME Init PROVE IInv
  OBVIOUS
<1>1. Typing
  <2>1. << >> \in Seq(Packet) /\ << >> \in Seq(Payload)
    BY EmptySeq
  <2>2. timer \in BOOLEAN
    BY DEF Init, SimulatorInit, Layer5Init
  <2> QED
    BY <2>1, <2>2, Constants
    DEF Init, SimulatorInit, Layer5Init, Typing, SimulatorTypeOK, Layer5TypeOK, Statuses
<1>2. NoPanic /\ Numbering /\ Window /\ Delivered /\ TimerCoversOutstanding
  BY Constants DEF Init, SimulatorInit, Layer5Init, NoPanic, Numbering, Window, Delivered,
                   TimerCoversOutstanding
<1>3. FromA(toB, nsim, base + WinSize) /\ FromB(toA, b_ack - 1)
  BY DEF Init, SimulatorInit, Layer5Init, FromA, FromB
<1> QED
  BY <1>1, <1>2, <1>3 DEF IInv

LEMMA FromLayer5Inv == IInv /\ FromLayer5 => IInv'
<1> SUFFICES ASSUME IInv, FromLayer5 PROVE IInv'
  OBVIOUS
<1>1. /\ nsim \in Nat /\ nsim < NsimMax /\ nsim' = nsim + 1 /\ nsim' \in 0..NsimMax
      /\ base \in Nat /\ b_ack \in Nat /\ base + WinSize \in Int
      /\ next_seq_num = nsim' /\ next_seq_num' = nsim' + 1
      /\ UNCHANGED <<base, b_ack, status, received, toA>>
  BY Constants
  DEF IInv, Typing, SimulatorTypeOK, Layer5TypeOK, Numbering, FromLayer5, A_output, Running
<1>2. /\ PktOf(nsim') = MakePkt(next_seq_num, -1, MsgData(nsim))
      /\ PktOf(nsim') \in Packet
  BY <1>1, Constants, PktOfType DEF PktOf
<1>3. /\ send_window' \in Seq(Packet)
      /\ Len(send_window') = nsim'
      /\ \A s \in 1..nsim' : send_window'[s] = PktOf(s)
  <2>1. send_window' = Append(send_window, PktOf(nsim')) /\ send_window \in Seq(Packet)
    BY <1>2 DEF IInv, Typing, FromLayer5, A_output
  <2>2. /\ Len(send_window') = nsim'
        /\ \A s \in 1..nsim : send_window'[s] = send_window[s]
        /\ send_window'[nsim'] = PktOf(nsim')
        /\ send_window' \in Seq(Packet)
    BY <1>1, <1>2, <2>1, AppendProperties DEF IInv, Numbering
  <2> QED
    BY <1>1, <2>2 DEF IInv, Numbering
<1>4. toB' \in Seq(Packet) /\ FromA(toB', nsim', base + WinSize)
  <2>1. FromA(toB, nsim', base + WinSize) /\ toB \in Seq(Packet)
    BY <1>1 DEF IInv, FromA, Typing, SimulatorTypeOK, Layer5TypeOK
  <2> DEFINE pkts == IF next_seq_num < base + WinSize THEN <<PktOf(nsim')>> ELSE << >>
  <2>2. toB' \in ToLayer3(toB, CapB, pkts)
    BY <1>1, <1>3 DEF FromLayer5, A_output
  <2>3. /\ pkts \in Seq(Packet)
        /\ \A j \in 1..Len(pkts) :
             \E s \in 1..nsim' : s < base + WinSize /\ pkts[j] = PktOf(s)
    <3>1. CASE next_seq_num < base + WinSize
      BY <1>1, <1>2, <3>1
    <3>2. CASE ~(next_seq_num < base + WinSize)
      BY <3>2, EmptySeq
    <3> QED
      BY <3>1, <3>2
  <2> HIDE DEF pkts
  <2> QED
    BY <1>1, <2>1, <2>2, <2>3, SendingFromA
<1>5. timer' = (timer \/ base = next_seq_num)
  BY DEF FromLayer5, A_output
<1>6. TimerCoversOutstanding'
  <2>1. CASE base = next_seq_num
    BY <1>5, <2>1 DEF TimerCoversOutstanding
  <2>2. CASE base # next_seq_num
    <3>1. base < next_seq_num
      BY <1>1, <2>2 DEF IInv, Window
    <3> QED
      BY <1>5, <3>1 DEF IInv, TimerCoversOutstanding
  <2> QED
    BY <2>1, <2>2
<1>7. Typing'
  <2>1. timer' \in BOOLEAN
    BY <1>5 DEF IInv, Typing, SimulatorTypeOK, Layer5TypeOK
  <2> QED
    BY <1>1, <1>3, <1>4, <2>1 DEF IInv, Typing, SimulatorTypeOK, Layer5TypeOK
<1>8. NoPanic' /\ Numbering' /\ Window' /\ Delivered' /\ FromB(toA, b_ack - 1)'
  BY <1>1, <1>3, Constants DEF IInv, NoPanic, Numbering, Window, Delivered, FromB
<1> QED
  BY <1>1, <1>4, <1>6, <1>7, <1>8 DEF IInv

LEMMA FromLayer3ToAInv == IInv /\ FromLayer3ToA => IInv'
<1> SUFFICES ASSUME IInv, FromLayer3ToA PROVE IInv'
  OBVIOUS
<1> DEFINE packet == Head(toA)
<1>1. /\ UNCHANGED <<nsim, status, received, next_seq_num, send_window, b_ack>>
      /\ toA # << >> /\ toA' = Tail(toA)
      /\ A_input(packet)
  BY DEF FromLayer3ToA, A_input, protvars
<1>2. /\ nsim \in 0..NsimMax /\ base \in Nat /\ b_ack \in Nat /\ next_seq_num \in Nat
      /\ toA \in Seq(Packet) /\ toB \in Seq(Packet)
  BY DEF IInv, Typing, SimulatorTypeOK, Layer5TypeOK
<1>3. /\ toA' \in Seq(Packet) /\ FromB(toA', b_ack - 1)
      /\ Checks(packet) => \E n \in 1..b_ack - 1 : packet = AckOf(n)
  BY <1>1, <1>2, TakingFromB DEF IInv
<1>4. CASE ~NewAck(packet)
  <2>1. UNCHANGED <<base, toB, timer>>
    BY <1>1, <1>4 DEF A_input, protvars
  <2>2. Typing'
    BY <1>1, <1>3, <2>1 DEF IInv, Typing, SimulatorTypeOK, Layer5TypeOK
  <2>3. NoPanic' /\ Numbering' /\ Window' /\ Delivered' /\ TimerCoversOutstanding'
    BY <1>1, <2>1 DEF IInv, NoPanic, Numbering, Window, Delivered, TimerCoversOutstanding
  <2> QED
    BY <1>1, <1>3, <2>1, <2>2, <2>3 DEF IInv
<1>5. CASE NewAck(packet)
  <2>1. /\ base' = packet.acknum + 1
        /\ toB' \in ToLayer3(toB, CapB, Slice(base + WinSize, WindowEnd(base')))
        /\ timer' = TRUE
    BY <1>1, <1>5 DEF A_input
  <2>2. PICK n \in 1..b_ack - 1 : packet = AckOf(n)
    BY <1>3, <1>5 DEF NewAck
  <2>3. packet.acknum = n /\ n \in Nat /\ base <= n
    BY <1>2, <1>5, <2>2, AckOfType DEF NewAck
  <2>4. /\ base' = n + 1 /\ base' \in Nat /\ 1 <= base' /\ base < base'
        /\ base' <= b_ack /\ b_ack <= base' + WinSize
    BY <1>2, <2>1, <2>2, <2>3, Constants DEF IInv, Window
  <2>5. toB' \in Seq(Packet) /\ FromA(toB', nsim, base' + WinSize)
    <3> DEFINE pkts == Slice(base + WinSize, WindowEnd(base'))
    <3>1. /\ base + WinSize \in Nat /\ 1 <= base + WinSize
          /\ base' + WinSize \in Int
      BY <1>2, <2>4, Constants DEF IInv, Window
    <3>2. /\ pkts \in Seq(Packet)
          /\ \A j \in 1..Len(pkts) :
               \E s \in 1..nsim : s < base' + WinSize /\ pkts[j] = PktOf(s)
      BY <2>4, <3>1, SliceElements DEF IInv
    <3>3. FromA(toB, nsim, base' + WinSize)
      BY <1>2, <2>4, Constants DEF IInv, FromA
    <3>4. toB' \in ToLayer3(toB, CapB, pkts)
      BY <2>1
    <3> HIDE DEF pkts
    <3> QED
      BY <1>2, <3>1, <3>2, <3>3, <3>4, SendingFromA
  <2>6. Typing'
    BY <1>1, <1>3, <2>1, <2>4, <2>5 DEF IInv, Typing, SimulatorTypeOK, Layer5TypeOK
  <2>7. NoPanic' /\ Numbering' /\ Window' /\ Delivered' /\ TimerCoversOutstanding'
    BY <1>1, <2>1, <2>4 DEF IInv, NoPanic, Numbering, Window, Delivered,
                            TimerCoversOutstanding
  <2> QED
    BY <1>1, <1>3, <2>5, <2>6, <2>7 DEF IInv
<1> QED
  BY <1>4, <1>5

LEMMA TimerInterruptInv == IInv /\ TimerInterrupt => IInv'
<1> SUFFICES ASSUME IInv, TimerInterrupt PROVE IInv'
  OBVIOUS
<1> DEFINE pkts == Slice(base, WindowEnd(base))
<1>1. /\ UNCHANGED <<nsim, status, received, toA, base, next_seq_num, send_window, b_ack>>
      /\ toB' \in ToLayer3(toB, CapB, pkts)
      /\ timer' = TRUE
  BY DEF TimerInterrupt, A_timerinterrupt, protvars
<1>2. /\ nsim \in 0..NsimMax /\ base \in Nat /\ 1 <= base
      /\ toB \in Seq(Packet) /\ base + WinSize \in Int
      /\ FromA(toB, nsim, base + WinSize)
  BY Constants DEF IInv, Typing, SimulatorTypeOK, Layer5TypeOK, Window
<1>3. /\ pkts \in Seq(Packet)
      /\ \A j \in 1..Len(pkts) :
           \E s \in 1..nsim : s < base + WinSize /\ pkts[j] = PktOf(s)
  BY <1>2, SliceElements DEF IInv
<1> HIDE DEF pkts
<1>4. toB' \in Seq(Packet) /\ FromA(toB', nsim, base + WinSize)
  BY <1>1, <1>2, <1>3, SendingFromA
<1>5. Typing'
  BY <1>1, <1>4 DEF IInv, Typing, SimulatorTypeOK, Layer5TypeOK
<1>6. /\ NoPanic' /\ Numbering' /\ Window' /\ Delivered' /\ TimerCoversOutstanding'
      /\ FromB(toA, b_ack - 1)'
  BY <1>1 DEF IInv, NoPanic, Numbering, Window, Delivered, TimerCoversOutstanding, FromB
<1> QED
  BY <1>1, <1>4, <1>5, <1>6 DEF IInv

LEMMA FromLayer3ToBInv == IInv /\ FromLayer3ToB => IInv'
<1> SUFFICES ASSUME IInv, FromLayer3ToB PROVE IInv'
  OBVIOUS
<1> DEFINE packet == Head(toB)
<1>1. /\ UNCHANGED <<nsim, timer, base, next_seq_num, send_window>>
      /\ toB # << >> /\ toB' = Tail(toB)
      /\ B_input(packet)
  BY DEF FromLayer3ToB, B_input, protvars
<1>2. /\ nsim \in 0..NsimMax /\ base \in Nat /\ b_ack \in Nat /\ 1 <= b_ack
      /\ next_seq_num \in Nat
      /\ toA \in Seq(Packet) /\ toB \in Seq(Packet) /\ received \in Seq(Payload)
  BY DEF IInv, Typing, SimulatorTypeOK, Layer5TypeOK, Window
<1>3. /\ packet \in Packet
      /\ toB' \in Seq(Packet) /\ FromA(toB', nsim, base + WinSize)
      /\ Checks(packet) => \E s \in 1..nsim : s < base + WinSize /\ packet = PktOf(s)
  BY <1>1, <1>2, TakingFromA DEF IInv
<1>4. CASE ~Expected(packet)
  <2>1. UNCHANGED <<status, received, toA, b_ack>>
    BY <1>1, <1>4 DEF B_input, NoToLayer5, protvars
  <2>2. Typing'
    BY <1>1, <1>3, <2>1 DEF IInv, Typing, SimulatorTypeOK, Layer5TypeOK
  <2>3. /\ NoPanic' /\ Numbering' /\ Window' /\ Delivered' /\ TimerCoversOutstanding'
        /\ FromB(toA, b_ack - 1)'
    BY <1>1, <2>1 DEF IInv, NoPanic, Numbering, Window, Delivered,
                            TimerCoversOutstanding, FromB
  <2> QED
    BY <1>1, <1>3, <2>1, <2>2, <2>3 DEF IInv
<1>5. CASE Expected(packet)
  <2>1. /\ ToLayer5(packet.payload)
        /\ toA' \in ToLayer3(toA, CapA, <<AckOf(b_ack)>>)
        /\ b_ack' = b_ack + 1
    BY <1>1, <1>5 DEF B_input, AckPkt, AckOf
  <2>2. PICK s \in 1..nsim : s < base + WinSize /\ packet = PktOf(s)
    BY <1>3, <1>5 DEF Expected
  <2>3. /\ s = b_ack /\ packet.payload = MsgData(b_ack - 1)
        /\ b_ack \in 1..nsim /\ b_ack < base + WinSize
    BY <1>2, <1>5, <2>2, PktOfType, Constants DEF Expected
  <2>4. Len(received) = b_ack - 1 /\ Len(received) < nsim
    BY <1>2, <2>3 DEF IInv, Delivered
  <2>5. /\ received' = Append(received, MsgData(Len(received)))
        /\ status' = status
    BY <1>2, <2>1, <2>3, <2>4 DEF ToLayer5
  <2>6. /\ received' \in Seq(Payload)
        /\ Delivered'
    <3>1. Len(received) \in Nat /\ MsgData(Len(received)) \in Payload
      BY <1>2, LenProperties, MsgDataType
    <3>2. /\ received' \in Seq(Payload)
          /\ Len(received') = Len(received) + 1
          /\ \A i \in 1..Len(received) : received'[i] = received[i]
          /\ received'[Len(received) + 1] = MsgData(Len(received))
      BY <1>2, <2>5, <3>1, AppendProperties
    <3>3. Len(received') = b_ack' - 1
      BY <1>2, <2>1, <2>4, <3>2
    <3>4. ASSUME NEW i \in 1..Len(received')
          PROVE  received'[i] = MsgData(i - 1)
      <4>1. CASE i \in 1..Len(received)
        BY <3>2, <4>1 DEF IInv, Delivered
      <4>2. CASE i = Len(received) + 1
        BY <3>1, <3>2, <4>2
      <4> QED
        BY <3>1, <3>2, <4>1, <4>2
    <3> QED
      BY <3>2, <3>3, <3>4 DEF Delivered
  <2>7. toA' \in Seq(Packet) /\ FromB(toA', b_ack' - 1)
    <3>1. b_ack \in 1..NsimMax /\ FromB(toA, b_ack) /\ b_ack' - 1 = b_ack
      BY <1>2, <2>1, <2>3, Constants DEF IInv, FromB
    <3>2. toA' \in Seq(Packet) /\ FromB(toA', b_ack)
      BY <1>2, <2>1, <3>1, SendingFromB
    <3> QED
      BY <3>1, <3>2
  <2>8. Typing'
    BY <1>1, <1>2, <1>3, <2>1, <2>5, <2>6, <2>7 DEF IInv, Typing, SimulatorTypeOK, Layer5TypeOK
  <2>9. NoPanic' /\ Numbering' /\ Window' /\ TimerCoversOutstanding'
    BY <1>1, <1>2, <2>1, <2>3, <2>5, Constants
    DEF IInv, NoPanic, Numbering, Window, TimerCoversOutstanding
  <2> QED
    BY <1>1, <1>3, <2>6, <2>7, <2>8, <2>9 DEF IInv
<1> QED
  BY <1>4, <1>5

LEMMA FinishInv == IInv /\ Finish => IInv'
<1> SUFFICES ASSUME IInv, Finish PROVE IInv'
  OBVIOUS
<1>1. /\ status' = "terminated"
      /\ UNCHANGED <<nsim, received, toA, toB, timer, base, next_seq_num, send_window, b_ack>>
  BY DEF Finish, Terminate, protvars
<1>2. Typing'
  BY <1>1 DEF IInv, Typing, SimulatorTypeOK, Layer5TypeOK, Statuses
<1>3. /\ NoPanic' /\ Numbering' /\ Window' /\ Delivered' /\ TimerCoversOutstanding'
      /\ FromA(toB, nsim, base + WinSize)' /\ FromB(toA, b_ack - 1)'
  BY <1>1 DEF IInv, NoPanic, Numbering, Window, Delivered, TimerCoversOutstanding,
              FromA, FromB
<1> QED
  BY <1>2, <1>3 DEF IInv

LEMMA StutterInv == IInv /\ UNCHANGED vars => IInv'
<1> SUFFICES ASSUME IInv, UNCHANGED vars PROVE IInv'
  OBVIOUS
<1>1. UNCHANGED <<nsim, status, received, toA, toB, timer,
                  base, next_seq_num, send_window, b_ack>>
  BY DEF vars, simvars, protvars
<1> QED
  BY <1>1 DEF IInv, Typing, SimulatorTypeOK, Layer5TypeOK, NoPanic, Numbering, Window, Delivered,
              TimerCoversOutstanding, FromA, FromB

LEMMA NextInv == IInv /\ [Next]_vars => IInv'
BY FromLayer5Inv, FromLayer3ToAInv, FromLayer3ToBInv, TimerInterruptInv, FinishInv,
   StutterInv DEF Next

THEOREM Invariance == Spec => []IInv
BY InitInv, NextInv, PTL DEF Spec

----------------------------------------------------------------------------
(* The properties of GoBackN.                                              *)

\* Every run of the protocol keeps its types and its counters in range.
THEOREM TypeCorrect == Spec => []TypeOK
<1>1. IInv => TypeOK
  BY Constants DEF IInv, Typing, TypeOK, SimulatorTypeOK, Layer5TypeOK, SeqNums, Window, Numbering
<1> QED
  BY <1>1, Invariance, PTL

\* Whatever is lost or damaged, and whenever the timer goes off, layer 5 at B
\* is given the messages of layer 5 at A in their order, each once.
THEOREM DeliveryInOrder == Spec => []InOrderDelivery
<1>1. IInv => InOrderDelivery
  BY Constants DEF IInv, Delivered, InOrderDelivery, Window, Numbering, Typing,
                   SimulatorTypeOK, Layer5TypeOK
<1> QED
  BY <1>1, Invariance, PTL

\* What A takes for acknowledged has been handed to layer 5 at B.
THEOREM AcknowledgedIsDelivered == Spec => []AckedIsDelivered
<1>1. IInv => AckedIsDelivered
  <2> SUFFICES ASSUME IInv PROVE AckedIsDelivered
    OBVIOUS
  <2>1. base <= b_ack /\ b_ack = Len(received) + 1 /\ b_ack \in Nat
    BY LenProperties DEF IInv, Typing, Window, Delivered, SimulatorTypeOK, Layer5TypeOK
  <2>2. ASSUME NEW i \in DOMAIN toA, Checks(toA[i])
        PROVE  toA[i].acknum < b_ack
    <3>1. toA \in Seq(Packet) /\ i \in 1..Len(toA)
      BY LenProperties DEF IInv, Typing, SimulatorTypeOK, Layer5TypeOK
    <3>2. PICK n \in 1..b_ack - 1 : toA[i] = AckOf(n)
      BY <2>2, <3>1 DEF IInv, FromB
    <3>3. toA[i].acknum = n
      BY <2>1, <3>2, AckOfType
    <3> QED
      BY <2>1, <3>2, <3>3
  <2> QED
    BY <2>1, <2>2 DEF AckedIsDelivered
<1> QED
  BY <1>1, Invariance, PTL

\* The timer of A runs as long as a packet is not acknowledged.
THEOREM TimerRuns == Spec => []TimerCoversOutstanding
<1>1. IInv => TimerCoversOutstanding
  BY DEF IInv
<1> QED
  BY <1>1, Invariance, PTL

\* A never has a packet beyond its window on its way.
THEOREM WindowKept == Spec => []WindowRespected
<1>1. IInv => WindowRespected
  <2> SUFFICES ASSUME IInv PROVE WindowRespected
    OBVIOUS
  <2>1. b_ack <= base + WinSize /\ base \in Nat /\ next_seq_num = nsim + 1
        /\ nsim \in 0..NsimMax
    BY DEF IInv, Window, Typing, Numbering, SimulatorTypeOK, Layer5TypeOK
  <2>2. ASSUME NEW i \in DOMAIN toB, Checks(toB[i])
        PROVE  toB[i].seqnum < base + WinSize
    <3>1. toB \in Seq(Packet) /\ i \in 1..Len(toB)
      BY LenProperties DEF IInv, Typing, SimulatorTypeOK, Layer5TypeOK
    <3>2. PICK s \in 1..nsim : s < base + WinSize /\ toB[i] = PktOf(s)
      BY <2>2, <3>1 DEF IInv, FromA
    <3>3. toB[i].seqnum = s
      BY <2>1, <3>2, PktOfType, Constants
    <3> QED
      BY <3>2, <3>3
  <2> QED
    BY <2>1, <2>2 DEF WindowRespected
<1> QED
  BY <1>1, Invariance, PTL

----------------------------------------------------------------------------
(* The protocol implements the service.                                    *)

LEMMA StepImplementsService == IInv /\ [Next]_vars => [Service!Next]_Service!vars
<1> SUFFICES ASSUME IInv, [Next]_vars PROVE [Service!Next]_Service!vars
  OBVIOUS
<1> USE DEF Service!Next, Service!Accept, Service!Deliver, Service!vars
<1>1. nsim \in 0..NsimMax
  BY DEF IInv, Typing, SimulatorTypeOK, Layer5TypeOK
<1>2. CASE FromLayer5
  BY <1>1, <1>2, Constants DEF FromLayer5, Running
<1>3. CASE FromLayer3ToA
  BY <1>3 DEF FromLayer3ToA
<1>4. CASE FromLayer3ToB
  <2> DEFINE packet == Head(toB)
  <2>1. nsim # NsimMax /\ nsim' = nsim /\ toB # << >> /\ B_input(packet)
    BY <1>4 DEF FromLayer3ToB, Running
  <2>2. CASE ~Expected(packet)
    BY <2>1, <2>2 DEF B_input, NoToLayer5
  <2>3. CASE Expected(packet)
    <3>1. PICK s \in 1..nsim : packet = PktOf(s)
      <4>1. toB \in Seq(Packet) /\ FromA(toB, nsim, base + WinSize) /\ Checks(packet)
        BY <2>3 DEF IInv, Typing, SimulatorTypeOK, Layer5TypeOK, Expected
      <4> QED
        BY <2>1, <4>1, TakingFromA
    <3>2. s = b_ack /\ packet.payload = MsgData(b_ack - 1) /\ b_ack \in 1..nsim
      BY <1>1, <2>3, <3>1, PktOfType, Constants DEF Expected
    <3>3. /\ Len(received) = b_ack - 1
          /\ Len(received) < nsim
          /\ received' = Append(received, MsgData(Len(received)))
      BY <1>1, <2>1, <2>3, <3>2 DEF IInv, Delivered, B_input, ToLayer5
    <3>4. Service!MsgData(Len(received)) = MsgData(Len(received))
      BY DEF Service!MsgData, Service!Filled, MsgData, Filled
    <3> QED
      BY <1>1, <2>1, <3>3, <3>4, Constants
  <2> QED
    BY <2>2, <2>3
<1>5. CASE TimerInterrupt
  BY <1>5 DEF TimerInterrupt
<1>6. CASE Finish
  BY <1>6 DEF Finish, Terminate
<1>7. CASE UNCHANGED vars
  BY <1>7 DEF vars, simvars
<1> QED
  BY <1>2, <1>3, <1>4, <1>5, <1>6, <1>7 DEF Next

\* Every run of the protocol is a run of the service it keeps the order of.
THEOREM ServiceImplemented == Spec => ImplementsService
<1>1. Init => Service!Init
  BY DEF Init, SimulatorInit, Layer5Init, Service!Init
<1> QED
  BY <1>1, StepImplementsService, Invariance, PTL
  DEF Spec, ImplementsService, Service!Spec
==============================================================================
