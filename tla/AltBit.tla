-------------------------------- MODULE AltBit --------------------------------
(***************************************************************************)
(* The protocol of pa2/src/abt.cpp in the simulator with its clock.  A     *)
(* sends one message at a time, numbered 0 or 1, and keeps those that come *)
(* meanwhile in a ring; B answers every intact packet with the number of   *)
(* the last one it took.                                                   *)
(*                                                                         *)
(* A_input does not ask whether A is waiting.  That no second copy of an   *)
(* acknowledgement comes in is due to time: A sends again only after what  *)
(* it sent before, and the answer to it, must have come or are lost.       *)
(*                                                                         *)
(* The operators whose comment begins with "Variant" are not the program:  *)
(* each is a slip the code could have had, and breaks a property below.    *)
(***************************************************************************)
EXTENDS TimedSimulator

CONSTANTS
  Timeout,     \* 20, the increment of every starttimer
  BUFFER_LEN   \* the size of the ring buffer

\* The ring has room for as many messages as main has.
ASSUME AltBitAssumption ==
  /\ Timeout \in Nat
  /\ 2 * MaxDelay <= Timeout
  /\ BUFFER_LEN \in Nat \ {0}
  /\ NsimMax <= BUFFER_LEN

VARIABLES
  next_seq_A,     \* A: the number of the packet it sends next or waits for
  ack,            \* A: 1 while it waits for an acknowledgement
  packet_sent,    \* A: the last packet it made
  buffer,         \* A: the messages that wait, from head_pointer on
  head_pointer, tail_pointer, count,
  next_seq_B      \* B: the number of the packet it waits for

senderwaits == <<next_seq_A, ack, packet_sent>>
ring == <<buffer, head_pointer, tail_pointer, count>>
protvars == <<senderwaits, ring, next_seq_B>>
vars == <<timedvars, protvars>>

Bit == {0, 1}

TypeOK ==
  /\ TimedTypeOK
  /\ next_seq_A \in Bit
  /\ ack \in Bit
  /\ packet_sent \in Packet
  /\ buffer \in [0..BUFFER_LEN - 1 -> Payload]
  /\ head_pointer \in 0..BUFFER_LEN - 1
  /\ tail_pointer \in 0..BUFFER_LEN - 1
  /\ count \in 0..BUFFER_LEN
  /\ next_seq_B \in Bit

Init ==
  /\ TimedInit
  /\ next_seq_A = 0
  /\ ack = 0
  /\ packet_sent = MakePkt(0, 0, NoData)
  /\ buffer = [k \in 0..BUFFER_LEN - 1 |-> NoData]
  /\ head_pointer = 0
  /\ tail_pointer = 0
  /\ count = 0
  /\ next_seq_B = 0

\* The place after this one in the ring.
After(pointer) == (pointer + 1) % BUFFER_LEN

----------------------------------------------------------------------------
(* Entity A.  list is the event list the handler starts from.              *)

\* Variant: the timeout is as long as a packet takes one way.
OneWay(list) == starttimer(list, MaxDelay)

StartTimer(list) == starttimer(list, Timeout)

\* What A_output does with a message when A does not wait: send it, with
\* number seq, and start the timer.
SendNow(message, seq, list) ==
  /\ packet_sent' = MakePkt(seq, 0, message)
  /\ evlist' \in {StartTimer(sent) : sent \in tolayer3(list, "B", packet_sent')}
  /\ ack' = 1

\* A_output: send the message, or keep it while there is room.
A_output(message, list) ==
  \/ /\ ack = 0
     /\ SendNow(message, next_seq_A, list)
     /\ UNCHANGED <<next_seq_A, ring, next_seq_B>>
  \/ /\ ack = 1 /\ count < BUFFER_LEN
     /\ buffer' = [buffer EXCEPT ![tail_pointer] = message]
     /\ tail_pointer' = After(tail_pointer)
     /\ count' = count + 1
     /\ evlist' = list
     /\ UNCHANGED <<senderwaits, head_pointer, next_seq_B>>
  \/ /\ ack = 1 /\ count >= BUFFER_LEN
     /\ evlist' = list
     /\ UNCHANGED protvars

\* What A_input reacts to: an undamaged acknowledgement of the last packet.
IsAck(packet) == Checks(packet) /\ packet.acknum = packet_sent.seqnum

\* Variant: whether a message waits is not looked at.
AlwaysWaiting == count >= 0

SomeWaiting == count > 0

\* Variant: the message stays at the head of the ring.
HeadStays == head_pointer

NextHead == After(head_pointer)

\* A_input: the acknowledgement ends the wait, and the next message that waits
\* is sent.
A_input(packet, list) ==
  \/ /\ IsAck(packet) /\ SomeWaiting
     /\ next_seq_A' = 1 - next_seq_A
     /\ SendNow(buffer[head_pointer], 1 - next_seq_A, stoptimer(list))
     /\ head_pointer' = NextHead
     /\ count' = count - 1
     /\ UNCHANGED <<buffer, tail_pointer, next_seq_B>>
  \/ /\ IsAck(packet) /\ ~SomeWaiting
     /\ next_seq_A' = 1 - next_seq_A
     /\ ack' = 0
     /\ evlist' = stoptimer(list)
     /\ UNCHANGED <<packet_sent, ring, next_seq_B>>
  \/ /\ ~IsAck(packet)
     /\ evlist' = list
     /\ UNCHANGED protvars

\* A_timerinterrupt: send the packet again if A waits.
A_timerinterrupt(list) ==
  /\ evlist' \in IF ack = 1
                 THEN {StartTimer(sent) : sent \in tolayer3(list, "B", packet_sent)}
                 ELSE {list}
  /\ UNCHANGED protvars

----------------------------------------------------------------------------
(* Entity B.                                                               *)

\* Variant: the checksum of the packet is not looked at.
ExpectedUnchecked(packet) == packet.seqnum = next_seq_B

\* The packet B takes.
Expected(packet) == Checks(packet) /\ packet.seqnum = next_seq_B

\* B_input: take the expected packet, and acknowledge the last one taken.
B_input(packet, list) ==
  \/ /\ Expected(packet)
     /\ ToLayer5(packet.payload)
     /\ evlist' \in tolayer3(list, "A", MakePkt(0, next_seq_B, NoData))
     /\ next_seq_B' = 1 - next_seq_B
     /\ UNCHANGED <<senderwaits, ring>>
  \/ /\ Checks(packet) /\ ~Expected(packet)
     /\ evlist' \in tolayer3(list, "A", MakePkt(0, 1 - next_seq_B, NoData))
     /\ NoToLayer5
     /\ UNCHANGED protvars
  \/ /\ ~Checks(packet) /\ ~Expected(packet)
     /\ evlist' = list
     /\ NoToLayer5
     /\ UNCHANGED protvars

----------------------------------------------------------------------------
(* The events main dispatches.                                             *)

FromLayer5 ==
  /\ Due("FROM_LAYER5")
  /\ nsim' = nsim + 1
  /\ \E list \in generate_next_arrival(Others) : A_output(MsgData(nsim), list)
  /\ UNCHANGED <<status, received>>

FromLayer3ToA ==
  /\ Due("FROM_LAYER3")
  /\ Head(evlist).eventity = "A"
  /\ A_input(Head(evlist).pkt, Others)
  /\ UNCHANGED layer5vars

FromLayer3ToB ==
  /\ Due("FROM_LAYER3")
  /\ Head(evlist).eventity = "B"
  /\ B_input(Head(evlist).pkt, Others)
  /\ UNCHANGED nsim

TimerInterrupt ==
  /\ Due("TIMER_INTERRUPT")
  /\ A_timerinterrupt(Others)
  /\ UNCHANGED layer5vars

Finish == Terminate /\ UNCHANGED protvars

Next ==
  \/ FromLayer5
  \/ FromLayer3ToA
  \/ FromLayer3ToB
  \/ TimerInterrupt
  \/ Finish

Spec == Init /\ [][Next]_vars

----------------------------------------------------------------------------
(* What must hold of every run (with InOrderDelivery of Layer5).           *)

\* Of a packet and its answer at most one is on its way, only while A waits,
\* and whatever comes of it comes before the timer goes off: an event at the
\* same time as the timer is in front of it in the list, as insertevent
\* (simulator.cpp:104) puts the later one first.  So no timeout is premature.
NoPrematureTimeout ==
  status = "running" =>
    /\ \A i, j \in DOMAIN evlist : InFlight(evlist[i]) /\ InFlight(evlist[j]) => i = j
    /\ ack = 1 <=> \E i \in DOMAIN evlist : IsTimer(evlist[i])
    /\ \A i \in DOMAIN evlist : InFlight(evlist[i]) =>
         \E j \in DOMAIN evlist :
           /\ IsTimer(evlist[j])
           /\ i < j
           /\ InFlightTo(evlist[i], "B") => evlist[i].evtime + MaxDelay <= evlist[j].evtime

\* The ring holds the messages that have been handed over and not sent, in
\* order, and no message is dropped for want of room.
RingHoldsBacklog ==
  \A n \in 1..count :
    buffer[(head_pointer + n - 1) % BUFFER_LEN] = MsgData(nsim - count + n - 1)

\* A and B agree on where they are: A waits for the message B waits for or
\* took last, and an undamaged acknowledgement of the packet A waits for is
\* in flight only if B has delivered that message.
BitsAgree ==
  LET sent == nsim - count       \* messages A has sent
      done == IF ack = 1 THEN sent - 1 ELSE sent   \* and had acknowledged
  IN  /\ Len(received) \in {done, sent}
      /\ next_seq_A = done % 2
      /\ next_seq_B = Len(received) % 2
      /\ \A i \in DOMAIN evlist :
           InFlightTo(evlist[i], "A") /\ IsAck(evlist[i].pkt) => Len(received) = sent

\* The protocol keeps the order of the service: a step hands over the next
\* message, delivers the next one, or changes nothing the layers see.
ImplementsService == Service!Spec
==============================================================================
