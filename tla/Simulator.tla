------------------------------ MODULE Simulator ------------------------------
(***************************************************************************)
(* The network simulator the link protocols run in (pa2/src/simulator.cpp) *)
(* without its clock: the two directions of layer 3 and the timer of       *)
(* entity A, between the application layers of Layer5.                     *)
(*                                                                         *)
(* The events of layer 3 on their way to one entity pop out in the order   *)
(* they were put in, so each direction is a queue.  When a packet arrives, *)
(* when the timer goes off and when layer 5 hands over the next message    *)
(* depends on random draws and on a rate the user picks; here any of the   *)
(* pending events may be the next one.                                     *)
(***************************************************************************)
EXTENDS Packets, Layer5

CONSTANTS
  CapA,      \* bound on the packets in flight towards A
  CapB       \* bound on the packets in flight towards B

ASSUME SimulatorAssumption ==
  /\ CapA \in Nat
  /\ CapB \in Nat

VARIABLES
  toA, toB,   \* packets of layer 3 on their way to A and to B
  timer       \* whether a timer interrupt of A is in the event list

simvars == <<nsim, status, received, toA, toB, timer>>

SimulatorTypeOK ==
  /\ Layer5TypeOK
  /\ toA \in Seq(Packet)
  /\ toB \in Seq(Packet)
  /\ timer \in BOOLEAN

SimulatorInit ==
  /\ Layer5Init
  /\ toA = << >>
  /\ toB = << >>
  /\ timer = FALSE

\* The loop ends at the first event after the last message was handed over.
Terminate ==
  /\ status = "running"
  /\ nsim = NsimMax
  /\ status' = "terminated"
  /\ UNCHANGED <<nsim, received, toA, toB, timer>>

----------------------------------------------------------------------------
(* What layer 3 makes of the packets one event handler sends in a row.     *)

Increasing(n, m) ==
  {f \in [1..n -> 1..m] : \A i, j \in 1..n : i < j => f[i] < f[j]}

\* Every packet is lost, or queued as it is, or queued damaged.
Arrivals(pkts) ==
  UNION {{[i \in 1..n |-> Fate(pkts[f[i]], kind[i])] :
            f \in Increasing(n, Len(pkts)), kind \in [1..n -> Kinds]} :
         n \in 0..Len(pkts)}

\* The contents the queue may have afterwards, within its bound.
ToLayer3(queue, cap, pkts) ==
  {q \in {queue \o s : s \in Arrivals(pkts)} : Len(q) <= cap \/ q = queue}
==============================================================================
