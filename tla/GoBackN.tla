------------------------------- MODULE GoBackN -------------------------------
(***************************************************************************)
(* The protocol of pa2/src/gbn.cpp between the layers of the simulator:    *)
(* the sender A keeps every packet it ever made in send_window and has at  *)
(* most WinSize of them outstanding; the receiver B takes packets in order *)
(* and acknowledges each one it takes, once.                               *)
(*                                                                         *)
(* The operators whose comment begins with "Variant" are not the program:  *)
(* each is a slip the code could have had, and breaks a property below.    *)
(***************************************************************************)
EXTENDS Simulator

CONSTANT
  WinSize   \* -w, what getwinsize returns

ASSUME WinSizeAssumption == WinSize \in Nat

VARIABLES
  base,           \* A: the oldest sequence number not acknowledged
  next_seq_num,   \* A: the sequence number of the next message
  send_window,    \* A: the packets made so far
  b_ack           \* B: the sequence number B waits for

protvars == <<base, next_seq_num, send_window, b_ack>>
vars == <<simvars, protvars>>

\* The numbers a message or the one after it can have.
SeqNums == 1..NsimMax + 1

TypeOK ==
  /\ SimulatorTypeOK
  /\ base \in SeqNums
  /\ next_seq_num \in SeqNums
  /\ send_window \in Seq(Packet)
  /\ b_ack \in SeqNums

Init ==
  /\ SimulatorInit
  /\ base = 1
  /\ next_seq_num = 1
  /\ send_window = << >>
  /\ b_ack = 1

Smaller(m, n) == IF m <= n THEN m ELSE n

\* Variant: the loops run one packet too far.
WindowEndInclusive(first) == Smaller(next_seq_num, first + WinSize + 1)

\* Where the loops over a window that starts at first stop.
WindowEnd(first) == Smaller(next_seq_num, first + WinSize)

\* The packets numbered from..upto-1, in order.
Slice(from, upto) == SubSeq(send_window, from, upto - 1)

----------------------------------------------------------------------------
(* Entity A.                                                               *)

\* A_output: number the message and send it if the window has room for it.
A_output(data) ==
  /\ send_window' = Append(send_window, MakePkt(next_seq_num, -1, data))
  /\ timer' = (timer \/ base = next_seq_num)
  /\ toB' \in ToLayer3(toB, CapB,
                IF next_seq_num < base + WinSize
                THEN <<send_window'[next_seq_num]>> ELSE << >>)
  /\ next_seq_num' = next_seq_num + 1
  /\ UNCHANGED <<base, b_ack>>

\* Variant: the checksum of an acknowledgement is not looked at.
NewAckUnchecked(packet) == packet.acknum >= base

\* What A_input reacts to: an undamaged acknowledgement of base or later.
NewAck(packet) == Checks(packet) /\ packet.acknum >= base

\* A_input: the acknowledgement moves the window, what it uncovers goes out.
A_input(packet) ==
  \/ /\ NewAck(packet)
     /\ base' = packet.acknum + 1
     /\ toB' \in ToLayer3(toB, CapB, Slice(base + WinSize, WindowEnd(base')))
     /\ timer' = TRUE
     /\ UNCHANGED <<next_seq_num, send_window, b_ack>>
  \/ /\ ~NewAck(packet)
     /\ UNCHANGED <<protvars, toB, timer>>

\* Variant: the timer is not started again.
A_timerinterruptOnce ==
  /\ toB' \in ToLayer3(toB, CapB, Slice(base, WindowEnd(base)))
  /\ timer' = FALSE
  /\ UNCHANGED protvars

\* Variant: only the oldest packet is sent again.
A_timerinterruptOldest ==
  /\ toB' \in ToLayer3(toB, CapB, Slice(base, Smaller(next_seq_num, base + 1)))
  /\ timer' = TRUE
  /\ UNCHANGED protvars

\* A_timerinterrupt: send the whole window again.
A_timerinterrupt ==
  /\ toB' \in ToLayer3(toB, CapB, Slice(base, WindowEnd(base)))
  /\ timer' = TRUE
  /\ UNCHANGED protvars

----------------------------------------------------------------------------
(* Entity B.                                                               *)

\* Variant: any packet not taken yet is taken.
ExpectedOrLater(packet) == Checks(packet) /\ packet.seqnum >= b_ack

\* Variant: the checksum of the packet is not looked at.
ExpectedUnchecked(packet) == packet.seqnum = b_ack

\* What B_input takes: the undamaged packet it waits for.
Expected(packet) == Checks(packet) /\ packet.seqnum = b_ack

\* Variant: b_ack is stepped before the acknowledgement is made.
AckPktStepped == MakePkt(0, b_ack + 1, NoData)

AckPkt == MakePkt(0, b_ack, NoData)

\* B_input: everything else is dropped without an answer.
B_input(packet) ==
  \/ /\ Expected(packet)
     /\ ToLayer5(packet.payload)
     /\ toA' \in ToLayer3(toA, CapA, <<AckPkt>>)
     /\ b_ack' = b_ack + 1
     /\ UNCHANGED <<base, next_seq_num, send_window>>
  \/ /\ ~Expected(packet)
     /\ NoToLayer5
     /\ UNCHANGED <<protvars, toA>>

----------------------------------------------------------------------------
(* The events main dispatches.                                             *)

FromLayer5 ==
  /\ Running
  /\ nsim' = nsim + 1
  /\ A_output(MsgData(nsim))
  /\ UNCHANGED <<status, received, toA>>

FromLayer3ToA ==
  /\ Running
  /\ toA # << >>
  /\ toA' = Tail(toA)
  /\ A_input(Head(toA))
  /\ UNCHANGED <<nsim, status, received>>

FromLayer3ToB ==
  /\ Running
  /\ toB # << >>
  /\ toB' = Tail(toB)
  /\ B_input(Head(toB))
  /\ UNCHANGED <<nsim, timer>>

TimerInterrupt ==
  /\ Running
  /\ timer
  /\ A_timerinterrupt
  /\ UNCHANGED <<nsim, status, received, toA>>

Finish == Terminate /\ UNCHANGED protvars

Next ==
  \/ FromLayer5
  \/ FromLayer3ToA
  \/ FromLayer3ToB
  \/ TimerInterrupt
  \/ Finish

Spec == Init /\ [][Next]_vars

\* An expiry of the timer after which packet s is on its way, undamaged.
Resent(s) ==
  /\ TimerInterrupt
  /\ \E i \in Len(toB) + 1..Len(toB') :
       Checks(toB'[i]) /\ toB'[i].seqnum = s

\* A packet taken by B whose acknowledgement is on its way, undamaged.
AckArrives ==
  /\ FromLayer3ToB
  /\ Len(toA') > Len(toA)
  /\ Checks(toA'[Len(toA')])

\* Events happen at their time, so each pending one is handled in the end;
\* of a packet, and of the acknowledgements, sent again and again, one gets
\* through undamaged (-l and -c are probabilities below 1).  Nothing is
\* assumed about new messages.
Fairness ==
  /\ WF_vars(FromLayer3ToA)
  /\ WF_vars(FromLayer3ToB)
  /\ WF_vars(TimerInterrupt)
  /\ \A s \in 1..NsimMax : SF_vars(Resent(s))
  /\ SF_vars(AckArrives)

FairSpec == Spec /\ Fairness

----------------------------------------------------------------------------
(* What must hold of every run (with InOrderDelivery of Simulator).        *)

\* A considers acknowledged only what B has handed to layer 5, and every
\* undamaged acknowledgement still in flight (B_input, gbn.cpp:94-98, makes
\* it before stepping b_ack) is for such a packet.  B in turn waits for a
\* packet A still keeps in its window or has not made yet.
AckedIsDelivered ==
  /\ base <= b_ack
  /\ b_ack = Len(received) + 1
  /\ \A i \in DOMAIN toA : Checks(toA[i]) => toA[i].acknum < b_ack

\* While a packet is not acknowledged the timer of A runs, although A_output
\* starts it only when the window was empty (gbn.cpp:40-43) and A_input
\* stops it on every acknowledgement (gbn.cpp:60).
TimerCoversOutstanding == base < next_seq_num => timer

\* However A_output, A_input and A_timerinterrupt share the sending, no
\* undamaged packet beyond the window of A is ever on its way to B, and so B
\* is never more than a window ahead of A.
WindowRespected ==
  /\ \A i \in DOMAIN toB :
       Checks(toB[i]) => toB[i].seqnum < base + WinSize
  /\ b_ack <= base + WinSize

\* The protocol keeps the order of the service: a step hands over the next
\* message, delivers the next one, or changes nothing the layers see.
ImplementsService == Service!Spec

\* Every packet the window of A reaches gets to B: a packet A may send
\* (gbn.cpp:44, 62, 74) does not stay undelivered while the run goes on.
WindowDelivered ==
  \A s \in 1..NsimMax :
    s < WindowEnd(base) ~> (b_ack > s \/ nsim = NsimMax)

\* Every message A is handed gets to B while the run goes on, as
\* simulator.h:6-8 says of the data in a message.
AllDelivered ==
  \A n \in 1..NsimMax :
    nsim >= n ~> (Len(received) >= n \/ nsim = NsimMax)
==============================================================================
