------------------------------ MODULE SelRepeat ------------------------------
(***************************************************************************)
(* The protocol of pa2/src/sr.cpp between the layers of the simulator.     *)
(* In spite of its name it goes back: A keeps one timer and sends its      *)
(* whole window again, B takes packets in order and answers every other    *)
(* intact one with the acknowledgement it sent last.                       *)
(*                                                                         *)
(* The operators whose comment begins with "Variant" are not the program:  *)
(* each is a slip the code could have had, and breaks a property below.    *)
(***************************************************************************)
EXTENDS Simulator

CONSTANTS
  Window,      \* WINDOW, the size of the ring packetSent
  BufferLen    \* BUFFER_LEN, the size of the ring buffer

\* The program has WINDOW 10 and room for as many messages as main has.
ASSUME SelRepeatAssumption ==
  /\ Window \in Nat \ {0}
  /\ BufferLen \in Nat \ {0}
  /\ NsimMax <= BufferLen

VARIABLES
  packetSent,     \* A: the packets of the window, packet i at i % Window
  seq_a,          \* A: the oldest packet not acknowledged
  next_seq_a,     \* A: the next packet to send for the first time
  buffer,         \* A: the messages, message i at i % BufferLen
  buffer_next,    \* A: the number of the next message
  expect_seq_b    \* B: the packet B waits for

protvars == <<packetSent, seq_a, next_seq_a, buffer, buffer_next, expect_seq_b>>
vars == <<simvars, protvars>>

SeqNums == 0..NsimMax

TypeOK ==
  /\ SimulatorTypeOK
  /\ packetSent \in [0..Window - 1 -> Packet]
  /\ seq_a \in SeqNums
  /\ next_seq_a \in SeqNums
  /\ buffer \in [0..BufferLen - 1 -> Payload]
  /\ buffer_next \in SeqNums
  /\ expect_seq_b \in SeqNums

Init ==
  /\ SimulatorInit
  /\ packetSent = [k \in 0..Window - 1 |-> MakePkt(0, 0, NoData)]
  /\ seq_a = 0
  /\ next_seq_a = 0
  /\ buffer = [k \in 0..BufferLen - 1 |-> NoData]
  /\ buffer_next = 0
  /\ expect_seq_b = 0

Smaller(m, n) == IF m <= n THEN m ELSE n

getPacketDetail(seqnum, acknum, msgs) ==
  MakePkt(seqnum, acknum, msgs[seqnum % BufferLen])

----------------------------------------------------------------------------
(* Entity A.                                                               *)

\* Variant: the window has room for one packet more than the ring.
SendLimitInclusive(first, count) == Smaller(first + Window + 1, count)

\* Where the loop of send_packets stops.
SendLimit(first, count) == Smaller(first + Window, count)

\* Variant: the loop looks at next_seq_a after it has stepped it.
StartsTimerLate(first, limit) == next_seq_a < limit /\ first = next_seq_a + 1

\* The loop starts the timer when it sends the oldest packet.
StartsTimer(first, limit) == next_seq_a < limit /\ first = next_seq_a

\* send_packets with the window from first, count messages accepted, msgs in
\* the buffer, and the timer running or not.
send_packets(first, count, msgs, running) ==
  LET limit == SendLimit(first, count)
      fresh == next_seq_a..limit - 1
      pkt(i) == getPacketDetail(i, 0, msgs)
      at(k) == {i \in fresh : i % Window = k}
  IN  /\ packetSent' = [k \in 0..Window - 1 |->
                          IF at(k) = {} THEN packetSent[k]
                          ELSE pkt(CHOOSE i \in at(k) : TRUE)]
      /\ toB' \in ToLayer3(toB, CapB,
                    [j \in 1..limit - next_seq_a |-> pkt(next_seq_a + j - 1)])
      /\ timer' = (running \/ StartsTimer(first, limit))
      /\ next_seq_a' = IF fresh = {} THEN next_seq_a ELSE limit

\* Variant: the message is dropped when the window is full.
RefusedWhenFull == buffer_next - seq_a >= Window

\* The test of A_output for a message it drops (sr.cpp:68).
Refused == buffer_next - seq_a >= Window /\ seq_a + Window > buffer_next

\* A_output
A_output(message) ==
  IF Refused THEN UNCHANGED <<protvars, toB, timer>>
  ELSE /\ buffer' = [buffer EXCEPT ![buffer_next % BufferLen] = message]
       /\ buffer_next' = buffer_next + 1
       /\ send_packets(seq_a, buffer_next', buffer', timer)
       /\ UNCHANGED <<seq_a, expect_seq_b>>

\* Variant: any number that is not too old is taken for an acknowledgement.
WindowAckTrusting(packet) == packet.acknum >= seq_a

\* Variant: only the oldest packet can be acknowledged.
WindowAckOldest(packet) == Checks(packet) /\ packet.acknum = seq_a

\* What A_input reacts to: an undamaged acknowledgement of the window.
WindowAck(packet) ==
  Checks(packet) /\ packet.acknum >= seq_a /\ packet.acknum < next_seq_a

\* A_input: the acknowledgement moves the window; the timer is stopped when
\* nothing is outstanding and otherwise runs on, and new packets go out.
A_input(packet) ==
  \/ /\ WindowAck(packet)
     /\ seq_a' = packet.acknum + 1
     /\ send_packets(seq_a', buffer_next, buffer, seq_a' # next_seq_a)
     /\ UNCHANGED <<buffer, buffer_next, expect_seq_b>>
  \/ /\ ~WindowAck(packet)
     /\ UNCHANGED <<protvars, toB, timer>>

\* A_timerinterrupt: start the timer and send the whole window again.
A_timerinterrupt ==
  /\ timer' = TRUE
  /\ toB' \in ToLayer3(toB, CapB,
                [j \in 1..next_seq_a - seq_a |-> packetSent[(seq_a + j - 1) % Window]])
  /\ UNCHANGED protvars

----------------------------------------------------------------------------
(* Entity B.                                                               *)

Ack(acknum) == MakePkt(0, acknum, NoData)

\* Variant: a packet that is not expected is acknowledged by its own number.
OtherAckOwn(packet) == Ack(packet.seqnum)

\* What B answers to an intact packet it does not expect.
OtherAck(packet) == Ack(expect_seq_b - 1)

\* B_input: a damaged packet is ignored; the expected one is delivered and
\* acknowledged; any other repeats the last acknowledgement.
B_input(packet) ==
  \/ /\ Checks(packet) /\ packet.seqnum = expect_seq_b
     /\ ToLayer5(packet.payload)
     /\ toA' \in ToLayer3(toA, CapA, <<Ack(expect_seq_b)>>)
     /\ expect_seq_b' = expect_seq_b + 1
     /\ UNCHANGED <<packetSent, seq_a, next_seq_a, buffer, buffer_next>>
  \/ /\ Checks(packet) /\ packet.seqnum # expect_seq_b
     /\ toA' \in ToLayer3(toA, CapA, <<OtherAck(packet)>>)
     /\ NoToLayer5
     /\ UNCHANGED protvars
  \/ /\ ~Checks(packet)
     /\ NoToLayer5
     /\ UNCHANGED <<protvars, toA>>

----------------------------------------------------------------------------
(* The events main dispatches.                                             *)

FromLayer5 ==
  /\ Running
  /\ nsim' = nsim + 1
  /\ A_output(MsgData(nsim))
  /\ UNCHANGED <<status, received, toA>>

FromLayer3ToA ==
  /\ Running
  /\ toA # << >>
  /\ toA' = Tail(toA)
  /\ A_input(Head(toA))
  /\ UNCHANGED <<nsim, status, received>>

FromLayer3ToB ==
  /\ Running
  /\ toB # << >>
  /\ toB' = Tail(toB)
  /\ B_input(Head(toB))
  /\ UNCHANGED <<nsim, timer>>

TimerInterrupt ==
  /\ Running
  /\ timer
  /\ A_timerinterrupt
  /\ UNCHANGED <<nsim, status, received, toA>>

Finish == Terminate /\ UNCHANGED protvars

Next ==
  \/ FromLayer5
  \/ FromLayer3ToA
  \/ FromLayer3ToB
  \/ TimerInterrupt
  \/ Finish

Spec == Init /\ [][Next]_vars

\* An expiry of the timer after which packet i is on its way, undamaged.
Resent(i) ==
  /\ TimerInterrupt
  /\ \E j \in Len(toB) + 1..Len(toB') : Checks(toB'[j]) /\ toB'[j].seqnum = i

\* A packet B answers with an acknowledgement that is on its way, undamaged.
AckArrives ==
  /\ FromLayer3ToB
  /\ Len(toA') > Len(toA)
  /\ Checks(toA'[Len(toA')])

\* Events happen at their time, so each pending one is handled in the end;
\* of a packet, and of the acknowledgements, sent again and again, one gets
\* through undamaged (-l and -c are probabilities below 1).  Nothing is
\* assumed about new messages.
Fairness ==
  /\ WF_vars(FromLayer3ToA)
  /\ WF_vars(FromLayer3ToB)
  /\ WF_vars(TimerInterrupt)
  /\ \A i \in SeqNums : SF_vars(Resent(i))
  /\ SF_vars(AckArrives)

FairSpec == Spec /\ Fairness

----------------------------------------------------------------------------
(* What must hold of every run (with InOrderDelivery of Simulator).        *)

\* The rings hold what A_timerinterrupt (sr.cpp:99-102) and send_packets
\* (sr.cpp:55) will read: packet i of the window, although later packets are
\* put over earlier ones, and message i of the backlog.
RingsHoldBacklog ==
  /\ \A i \in seq_a..next_seq_a - 1 :
       packetSent[i % Window] = MakePkt(i, 0, MsgData(i))
  /\ \A i \in next_seq_a..buffer_next - 1 :
       buffer[i % BufferLen] = MsgData(i)

\* The timer of A runs exactly while a packet is not acknowledged: neither
\* does A wait for an answer without it, nor does it go off for nothing,
\* although send_packets starts it (sr.cpp:59-61) and A_input stops or
\* restarts it (sr.cpp:86-90) before it calls send_packets.
TimerIffOutstanding == timer <=> seq_a < next_seq_a

\* A moves its window only over packets B has handed to layer 5, and no
\* undamaged acknowledgement in flight is for another; B waits for a packet
\* of the window of A or for the next one.
AckedIsDelivered ==
  /\ seq_a <= expect_seq_b
  /\ expect_seq_b = Len(received)
  /\ expect_seq_b <= next_seq_a
  /\ \A i \in DOMAIN toA : Checks(toA[i]) => toA[i].acknum < expect_seq_b

\* The protocol gives the whole service: nothing but the next message is
\* delivered at any step, and while the run goes on each one is in the end.
ImplementsService == Service!LiveSpec
==============================================================================
