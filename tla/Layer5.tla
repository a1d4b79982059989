-------------------------------- MODULE Layer5 --------------------------------
(***************************************************************************)
(* The application layers at the two ends of the link simulator            *)
(* (pa2/src/simulator.cpp): main hands over messages at A, tolayer5 checks *)
(* what comes out at B and ends the program when it is wrong.              *)
(***************************************************************************)
EXTENDS Messages, Sequences

CONSTANT
  NsimMax   \* -m: the number of messages to simulate

\* application_msgs holds 1000 messages.
ASSUME NsimMaxAssumption == NsimMax \in 0..1000

VARIABLES
  nsim,       \* messages handed to A so far (also cur_msg_sent)
  status,     \* what main is doing, or the code tolayer5 exited with
  received    \* what tolayer5 was given at B, with the one it exits over

layer5vars == <<nsim, status, received>>

Statuses == {"running", "terminated", "exit52", "exit63"}

Layer5TypeOK ==
  /\ nsim \in 0..NsimMax
  /\ status \in Statuses
  /\ received \in Seq(Payload)

Layer5Init ==
  /\ nsim = 0
  /\ status = "running"
  /\ received = << >>

\* main handles the next event unless it has handed over its last message.
Running == status = "running" /\ nsim # NsimMax

\* tolayer5 at B ends the program when the message is not the next one.
ToLayer5(data) ==
  /\ received' = Append(received, data)
  /\ status' = IF Len(received) >= nsim THEN "exit52"
               ELSE IF data # MsgData(Len(received)) THEN "exit63"
               ELSE status

NoToLayer5 == UNCHANGED <<received, status>>

----------------------------------------------------------------------------
(* What the application layers may rely on.                                *)

Service == INSTANCE ReliableTransfer WITH handed <- nsim, delivered <- received

\* Every message that came out at B is the one that went in at A at the
\* same position: nothing is lost, repeated, swapped or damaged in between.
InOrderDelivery ==
  /\ Len(received) <= nsim
  /\ \A i \in 1..Len(received) : received[i] = MsgData(i - 1)
==============================================================================
