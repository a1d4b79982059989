--------------------------- MODULE SimulatorProofs ---------------------------
(***************************************************************************)
(* What the protocols may rely on of the simulator: a queue of layer 3     *)
(* never holds more than what was in it and what became of the packets     *)
(* sent, and what of it passes the checksum is as it was sent.             *)
(***************************************************************************)
EXTENDS Simulator, PacketProofs, SequenceTheorems, TLAPS

\* What arrives of a row of packets is made of these packets.
LEMMA ArrivalsElements ==
  ASSUME NEW pkts \in Seq(Packet), NEW s \in Arrivals(pkts)
  PROVE  /\ s \in Seq(Packet)
         /\ \A i \in 1..Len(s) : \E j \in 1..Len(pkts), kind \in Kinds :
              s[i] = Fate(pkts[j], kind)
<1>1. PICK n \in 0..Len(pkts) :
        \E f \in Increasing(n, Len(pkts)), kind \in [1..n -> Kinds] :
          s = [i \in 1..n |-> Fate(pkts[f[i]], kind[i])]
  BY SMTT(20) DEF Arrivals
<1>2. PICK f \in Increasing(n, Len(pkts)), kind \in [1..n -> Kinds] :
          s = [i \in 1..n |-> Fate(pkts[f[i]], kind[i])]
  BY <1>1
<1>3. /\ n \in Nat
      /\ \A i \in 1..n : f[i] \in 1..Len(pkts) /\ kind[i] \in Kinds
  BY <1>2 DEF Increasing
<1>4. \A i \in 1..n : Fate(pkts[f[i]], kind[i]) \in Packet
  BY <1>3, ElementOfSeq, FateType
<1>5. s \in Seq(Packet) /\ Len(s) = n
  BY <1>2, <1>3, <1>4, IsASeq
<1> QED
  BY <1>2, <1>3, <1>5

\* What a queue holds after a row of packets was given to layer 3.
LEMMA ToLayer3Elements ==
  ASSUME NEW queue \in Seq(Packet), NEW cap, NEW pkts \in Seq(Packet),
         NEW q \in ToLayer3(queue, cap, pkts)
  PROVE  /\ q \in Seq(Packet)
         /\ \A i \in 1..Len(q) :
              \/ i \in 1..Len(queue) /\ q[i] = queue[i]
              \/ \E j \in 1..Len(pkts), kind \in Kinds : q[i] = Fate(pkts[j], kind)
<1>1. PICK s \in Arrivals(pkts) : q = queue \o s
  BY DEF ToLayer3
<1>2. /\ s \in Seq(Packet)
      /\ \A i \in 1..Len(s) : \E j \in 1..Len(pkts), kind \in Kinds :
           s[i] = Fate(pkts[j], kind)
  BY ArrivalsElements
<1>3. /\ q \in Seq(Packet)
      /\ Len(q) = Len(queue) + Len(s)
      /\ \A i \in 1..Len(q) :
           q[i] = IF i <= Len(queue) THEN queue[i] ELSE s[i - Len(queue)]
  BY <1>1, <1>2, ConcatProperties
<1>4. ASSUME NEW i \in 1..Len(q), i > Len(queue)
      PROVE  \E j \in 1..Len(pkts), kind \in Kinds : q[i] = Fate(pkts[j], kind)
  <2>1. i - Len(queue) \in 1..Len(s) /\ q[i] = s[i - Len(queue)]
    BY <1>2, <1>3, <1>4, LenProperties
  <2> QED
    BY <1>2, <2>1
<1> QED
  BY <1>3, <1>4, LenProperties

\* A packet of the queue that passes the checksum after a row of packets was
\* sent was in the queue before or is one of the row, as it was sent.
LEMMA ToLayer3Intact ==
  ASSUME NEW queue \in Seq(Packet), NEW cap, NEW pkts \in Seq(Packet),
         NEW q \in ToLayer3(queue, cap, pkts),
         \A j \in 1..Len(pkts) :
           \E seqnum, acknum \in {n \in Int : n < BadNumber}, data \in Payload :
             data.first # 90 /\ pkts[j] = MakePkt(seqnum, acknum, data),
         NEW i \in 1..Len(q), Checks(q[i])
  PROVE  \/ i \in 1..Len(queue) /\ q[i] = queue[i]
         \/ \E j \in 1..Len(pkts) : q[i] = pkts[j]
<1>1. CASE i \in 1..Len(queue) /\ q[i] = queue[i]
  BY <1>1
<1>2. CASE \E j \in 1..Len(pkts), kind \in Kinds : q[i] = Fate(pkts[j], kind)
  <2>1. PICK j \in 1..Len(pkts), kind \in Kinds : q[i] = Fate(pkts[j], kind)
    BY <1>2
  <2>2. PICK seqnum \in Int, acknum \in Int, data \in Payload :
          /\ seqnum < BadNumber
          /\ acknum < BadNumber
          /\ data.first # 90
          /\ pkts[j] = MakePkt(seqnum, acknum, data)
    BY <2>1
  <2>3. kind = "intact"
    BY <2>1, <2>2, ChecksumDetectsDamage
  <2>4. q[i] = pkts[j]
    BY <2>1, <2>3 DEF Fate
  <2> QED
    BY <2>1, <2>4
<1> QED
  BY <1>1, <1>2, ToLayer3Elements
==============================================================================
