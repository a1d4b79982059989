----------------------------- MODULE AltBitProofs -----------------------------
(***************************************************************************)
(* The safety of abt.cpp for every number of messages, size of the ring    *)
(* and range of delays, as long as the timeout is twice the longest delay. *)
(*                                                                         *)
(* The invariant has to say when things happen: the event list is in order *)
(* of time, and while A waits the packet or its answer comes before the    *)
(* timer goes off, the packet by as much as the answer may take.           *)
(***************************************************************************)
EXTENDS AltBit, PacketProofs, ListProofs

----------------------------------------------------------------------------
(* The event list.                                                         *)

Sorted(list) == \A i, j \in 1..Len(list) : i < j => list[i].evtime <= list[j].evtime

\* While A does not wait there is neither a timer nor a packet.
Idle(list) == \A i \in 1..Len(list) : ~IsTimer(list[i]) /\ ~InFlight(list[i])

OneTimer(list) ==
  /\ \E i \in 1..Len(list) : IsTimer(list[i])
  /\ \A i, j \in 1..Len(list) : IsTimer(list[i]) /\ IsTimer(list[j]) => i = j

\* Nothing comes but the timer, and it not before this time.
TimerOnly(list, time) ==
  /\ OneTimer(list)
  /\ \A i \in 1..Len(list) : ~InFlight(list[i])
  /\ \A i \in 1..Len(list) : IsTimer(list[i]) => time <= list[i].evtime

\* The timer, and before it what is in flight, if anything is.
Pending(list) ==
  /\ OneTimer(list)
  /\ \A i, j \in 1..Len(list) : InFlight(list[i]) /\ InFlight(list[j]) => i = j
  /\ \A i, j \in 1..Len(list) : InFlight(list[i]) /\ IsTimer(list[j]) =>
       /\ i < j
       /\ InFlightTo(list[i], "B") => list[i].evtime + MaxDelay <= list[j].evtime

\* Of the packets in flight those that pass the checksum are packet on its way
\* to B and answer on its way to A.
Carries(list, packet, answer) ==
  \A i \in 1..Len(list) :
    /\ InFlightTo(list[i], "B") /\ Checks(list[i].pkt) => list[i].pkt = packet
    /\ InFlightTo(list[i], "A") /\ Checks(list[i].pkt) => list[i].pkt = answer

----------------------------------------------------------------------------
(* The inductive invariant.                                                *)

NoPanic == status \in {"running", "terminated"}

\* How many messages A has sent, and how many of them are acknowledged.
SentOff == nsim - count
Done == SentOff - ack

\* The packet of the message numbered i, and the answer of B with this number.
PktOf(i) == MakePkt(i % 2, 0, MsgData(i))
AnswerOf(bit) == MakePkt(0, bit, NoData)

Timed ==
  status = "running" =>
    /\ ack = 0 => Idle(evlist)
    /\ ack = 1 => Pending(evlist)

Counters ==
  /\ count + ack <= nsim
  /\ ack = 0 => count = 0
  /\ tail_pointer = (head_pointer + count) % BUFFER_LEN

Bits ==
  /\ Len(received) \in {Done, SentOff}
  /\ next_seq_A = Done % 2
  /\ next_seq_B = Len(received) % 2
  /\ ack = 1 => packet_sent = PktOf(Done)

Delivered == \A i \in 1..Len(received) : received[i] = MsgData(i - 1)

IInv ==
  /\ TypeOK
  /\ NoPanic
  /\ Sorted(evlist)
  /\ Timed
  /\ Carries(evlist, packet_sent, AnswerOf(1 - next_seq_B))
  /\ Counters
  /\ RingHoldsBacklog
  /\ Bits
  /\ Delivered

----------------------------------------------------------------------------
(* What the simulator does to the event list.                              *)

LEMMA Constants ==
  /\ NsimMax \in Nat /\ NsimMax <= BUFFER_LEN /\ BUFFER_LEN \in Nat \ {0}
  /\ MaxInterval \in Nat /\ MinDelay \in Nat /\ MaxDelay \in Nat /\ Timeout \in Nat
  /\ 1 <= MinDelay /\ MinDelay <= MaxDelay /\ 2 * MaxDelay <= Timeout
  /\ MaxDelay < Timeout
BY NsimMaxAssumption, TimedSimulatorAssumption, AltBitAssumption

LEMMA EventsProperties ==
  ASSUME NEW e \in Events
  PROVE  /\ e.evtime \in Nat
         /\ e.evtype \in {"TIMER_INTERRUPT", "FROM_LAYER5", "FROM_LAYER3"}
         /\ e.eventity \in {"A", "B"}
         /\ InFlight(e) => e.pkt \in Packet
BY DEF Events, InFlight

\* What insertevent makes of a list: the event is at place, old says where the
\* others were, and the event is in front of those that are not earlier.
Inserted(list, e, new, place, old) ==
  /\ place \in 1..Len(new)
  /\ new[place] = e
  /\ \A j \in 1..Len(new) : j # place =>
       /\ old[j] \in 1..Len(list)
       /\ new[j] = list[old[j]]
       /\ place < j <=> e.evtime <= list[old[j]].evtime
  /\ \A j, k \in 1..Len(new) : j # place /\ k # place => (j < k <=> old[j] < old[k])
  /\ \A i \in 1..Len(list) : \E j \in 1..Len(new) : j # place /\ old[j] = i

LEMMA InsertEvent ==
  ASSUME NEW list \in Seq(Events), Sorted(list), NEW e \in Events
  PROVE  /\ insertevent(list, e) \in Seq(Events)
         /\ Sorted(insertevent(list, e))
         /\ \E place, old : Inserted(list, e, insertevent(list, e), place, old)
<1> DEFINE I == {i \in 1..Len(list) : e.evtime <= list[i].evtime}
           new == insertevent(list, e)
           place == IF I = {} THEN Len(list) + 1 ELSE Min(I)
           old == [j \in 1..Len(list) + 1 |-> IF j < place THEN j ELSE j - 1]
<1>1. /\ Len(list) \in Nat /\ I \in SUBSET Nat /\ e.evtime \in Nat
      /\ \A i \in 1..Len(list) : list[i] \in Events /\ list[i].evtime \in Nat
  BY LenProperties, ElementOfSeq, EventsProperties
<1>2. I # {} => Min(I) \in I /\ \A i \in I : Min(I) <= i
  <2> HIDE DEF I
  <2> QED
    BY <1>1, MinProperties
<1>3. NotEarlier(list, e) = IF I # {} THEN Min(I) ELSE 0
  BY DEF NotEarlier, SelectInSeq
<1>4. place \in 1..Len(list) + 1
  BY <1>1, <1>2
<1>5. \A i \in 1..Len(list) : i < place <=> list[i].evtime < e.evtime
  <2>1. CASE I = {}
    BY <1>1, <2>1
  <2>2. CASE I # {}
    <3>1. /\ place \in 1..Len(list) /\ e.evtime <= list[place].evtime
          /\ \A i \in I : place <= i
      BY <1>2, <2>2
    <3>2. \A i \in 1..Len(list) : i < place => i \notin I
      BY <3>1
    <3>3. \A i \in 1..Len(list) : i < place => ~(e.evtime <= list[i].evtime)
      BY <3>2
    <3> HIDE DEF place, I
    <3>4. ASSUME NEW i \in 1..Len(list), ~(i < place) PROVE e.evtime <= list[i].evtime
      <4>1. i = place \/ place < i
        BY <1>1, <3>1, <3>4
      <4>2. list[place].evtime <= list[i].evtime
        BY <1>1, <3>1, <4>1 DEF Sorted
      <4> QED
        BY <1>1, <3>1, <4>2
    <3> QED
      BY <1>1, <3>3, <3>4
  <2> QED
    BY <2>1, <2>2
<1>6. /\ new \in Seq(Events) /\ Len(new) = Len(list) + 1
      /\ \A j \in 1..Len(list) + 1 :
           new[j] = IF j < place THEN list[j] ELSE IF j = place THEN e ELSE list[j - 1]
  <2>1. CASE I = {}
    <3>1. new = Append(list, e) /\ place = Len(list) + 1
      BY <1>3, <2>1 DEF insertevent
    <3>2. /\ Append(list, e) \in Seq(Events)
          /\ Len(Append(list, e)) = Len(list) + 1
          /\ \A j \in 1..Len(list) : Append(list, e)[j] = list[j]
          /\ Append(list, e)[Len(list) + 1] = e
      BY AppendProperties
    <3> HIDE DEF new, place
    <3> QED
      BY <1>1, <3>1, <3>2
  <2>2. CASE I # {}
    <3>1. place \in 1..Len(list) /\ place # 0 /\ NotEarlier(list, e) = place
      BY <1>1, <1>2, <1>3, <2>2
    <3>2. new = InsertAt(list, place, e)
      BY <3>1 DEF insertevent
    <3> HIDE DEF new, place, I
    <3>3. /\ InsertAt(list, place, e) \in Seq(Events)
          /\ Len(InsertAt(list, place, e)) = Len(list) + 1
          /\ \A j \in 1..Len(list) + 1 :
               InsertAt(list, place, e)[j] =
                 IF j < place THEN list[j] ELSE IF j = place THEN e ELSE list[j - 1]
      BY <1>4, InsertAtProperties
    <3> QED
      BY <3>2, <3>3
  <2> QED
    BY <2>1, <2>2
<1> HIDE DEF new, place, I
<1>7. ASSUME NEW j \in 1..Len(new), j # place
      PROVE  /\ old[j] \in 1..Len(list)
             /\ new[j] = list[old[j]]
             /\ place < j <=> e.evtime <= list[old[j]].evtime
  <2>1. old[j] = (IF j < place THEN j ELSE j - 1) /\ old[j] \in 1..Len(list)
    BY <1>1, <1>4, <1>6, <1>7
  <2>2. new[j] = list[old[j]]
    BY <1>1, <1>4, <1>6, <1>7, <2>1
  <2>3. place < j <=> ~(old[j] < place)
    BY <1>1, <1>4, <1>6, <1>7, <2>1
  <2> HIDE DEF old
  <2>4. old[j] < place <=> list[old[j]].evtime < e.evtime
    BY <1>5, <2>1
  <2>5. ~(list[old[j]].evtime < e.evtime) <=> e.evtime <= list[old[j]].evtime
    BY <1>1, <2>1
  <2> QED
    BY <2>1, <2>2, <2>3, <2>4, <2>5, Zenon
<1>8. \A j, k \in 1..Len(new) : j # place /\ k # place => (j < k <=> old[j] < old[k])
  BY <1>1, <1>4, <1>6
<1>9. ASSUME NEW i \in 1..Len(list) PROVE \E j \in 1..Len(new) : j # place /\ old[j] = i
  <2>1. CASE i < place
    <3>1. i \in 1..Len(new) /\ i # place /\ old[i] = i
      BY <1>1, <1>4, <1>6, <2>1
    <3> QED
      BY <3>1
  <2>2. CASE ~(i < place)
    <3>1. i + 1 \in 1..Len(new) /\ i + 1 # place /\ old[i + 1] = i
      BY <1>1, <1>4, <1>6, <2>2
    <3> QED
      BY <3>1
  <2> QED
    BY <2>1, <2>2
<1>10. place \in 1..Len(new) /\ new[place] = e
  BY <1>1, <1>4, <1>6
<1> HIDE DEF old
<1>11. Inserted(list, e, new, place, old)
  BY <1>7, <1>8, <1>9, <1>10 DEF Inserted
<1>12. Sorted(new)
  <2> SUFFICES ASSUME NEW j \in 1..Len(new), NEW k \in 1..Len(new), j < k
               PROVE  new[j].evtime <= new[k].evtime
    BY DEF Sorted
  <2>1. CASE j # place /\ k # place
    <3>1. old[j] \in 1..Len(list) /\ old[k] \in 1..Len(list) /\ old[j] < old[k]
      BY <1>7, <1>8, <2>1
    <3> QED
      BY <1>7, <2>1, <3>1 DEF Sorted
  <2>2. CASE j = place /\ k # place
    BY <1>7, <1>10, <2>2
  <2>3. CASE j # place /\ k = place
    <3>1. old[j] \in 1..Len(list) /\ ~(e.evtime <= list[old[j]].evtime)
      BY <1>4, <1>6, <1>7, <2>3
    <3> QED
      BY <1>1, <1>7, <1>10, <2>3, <3>1
  <2> QED
    BY <2>1, <2>2, <2>3
<1> QED
  BY <1>6, <1>11, <1>12 DEF new

LEMMA InsertedTimer ==
  ASSUME NEW list, NEW e, ~IsTimer(e), NEW new, NEW place, NEW old,
         Inserted(list, e, new, place, old), Len(new) \in Nat, Len(list) \in Nat,
         OneTimer(list)
  PROVE  OneTimer(new)
<1>1. PICK i \in 1..Len(list) : IsTimer(list[i])
  BY DEF OneTimer
<1>2. PICK j \in 1..Len(new) : j # place /\ old[j] = i
  BY DEF Inserted
<1>3. IsTimer(new[j])
  BY <1>1, <1>2 DEF Inserted
<1>4. ASSUME NEW m \in 1..Len(new), NEW n \in 1..Len(new), IsTimer(new[m]), IsTimer(new[n])
      PROVE  m = n
  <2>1. m # place /\ n # place
    BY <1>4 DEF Inserted
  <2>2. /\ old[m] \in 1..Len(list) /\ new[m] = list[old[m]]
        /\ old[n] \in 1..Len(list) /\ new[n] = list[old[n]]
        /\ m < n <=> old[m] < old[n]
        /\ n < m <=> old[n] < old[m]
    BY <2>1 DEF Inserted
  <2>3. old[m] = old[n]
    BY <1>4, <2>2 DEF OneTimer
  <2>4. ~(m < n) /\ ~(n < m)
    BY <2>2, <2>3
  <2> QED
    BY <2>4
<1> QED
  BY <1>3, <1>4 DEF OneTimer

\* generate_next_arrival keeps what matters here.
LEMMA AddLayer5 ==
  ASSUME NEW list \in Seq(Events), Sorted(list), NEW new \in generate_next_arrival(list)
  PROVE  /\ new \in Seq(Events)
         /\ Sorted(new)
         /\ Idle(list) => Idle(new)
         /\ Pending(list) => Pending(new)
         /\ \A packet, answer : Carries(list, packet, answer) => Carries(new, packet, answer)
<1>1. PICK e \in Events : e.evtype = "FROM_LAYER5" /\ new = insertevent(list, e)
  <2>1. PICK time \in 0..MaxInterval : new = insertevent(list, Layer5Event(time))
    BY DEF generate_next_arrival
  <2>2. Layer5Event(time) \in Events /\ Layer5Event(time).evtype = "FROM_LAYER5"
    BY Constants DEF Layer5Event, Events
  <2> QED
    BY <2>1, <2>2
<1>2. new \in Seq(Events) /\ Sorted(new)
  BY <1>1, InsertEvent
<1>3. PICK place, old : Inserted(list, e, new, place, old)
  BY <1>1, InsertEvent
<1>4. /\ \A j \in 1..Len(new) : j # place => old[j] \in 1..Len(list) /\ new[j] = list[old[j]]
      /\ \A j, k \in 1..Len(new) : j # place /\ k # place => (j < k <=> old[j] < old[k])
      /\ \A i \in 1..Len(list) : \E j \in 1..Len(new) : j # place /\ old[j] = i
  BY <1>3 DEF Inserted
<1>5. \A j \in 1..Len(new) : IsTimer(new[j]) \/ InFlight(new[j]) => j # place
  BY <1>1, <1>3 DEF Inserted, IsTimer, InFlight
<1>6. ASSUME NEW j \in 1..Len(new), NEW k \in 1..Len(new), j # place, k # place,
             old[j] = old[k]
      PROVE  j = k
  BY <1>4, <1>6
<1>7. ASSUME Idle(list) PROVE Idle(new)
  BY <1>4, <1>5, <1>7 DEF Idle
<1>8. ASSUME Pending(list) PROVE Pending(new)
  <2>1. OneTimer(new)
    <3>1. ~IsTimer(e) /\ Len(new) \in Nat /\ Len(list) \in Nat
      BY <1>1, <1>2, LenProperties DEF IsTimer
    <3> QED
      BY <1>3, <1>8, <3>1, InsertedTimer DEF Pending
  <2>2. \A i, j \in 1..Len(new) : InFlight(new[i]) /\ InFlight(new[j]) => i = j
    <3> SUFFICES ASSUME NEW i \in 1..Len(new), NEW j \in 1..Len(new),
                        InFlight(new[i]), InFlight(new[j])
                 PROVE  i = j
      OBVIOUS
    <3>1. i # place /\ j # place
      BY <1>5
    <3>2. /\ old[i] \in 1..Len(list) /\ new[i] = list[old[i]]
          /\ old[j] \in 1..Len(list) /\ new[j] = list[old[j]]
      BY <1>4, <3>1
    <3>3. old[i] = old[j]
      BY <1>8, <3>2 DEF Pending
    <3> QED
      BY <1>6, <3>1, <3>3
  <2>3. ASSUME NEW i \in 1..Len(new), NEW j \in 1..Len(new), InFlight(new[i]), IsTimer(new[j])
        PROVE  /\ i < j
               /\ InFlightTo(new[i], "B") => new[i].evtime + MaxDelay <= new[j].evtime
    <3>1. i # place /\ j # place
      BY <1>5, <2>3
    <3>2. /\ old[i] \in 1..Len(list) /\ new[i] = list[old[i]]
          /\ old[j] \in 1..Len(list) /\ new[j] = list[old[j]]
          /\ i < j <=> old[i] < old[j]
      BY <1>4, <3>1
    <3> QED
      BY <1>8, <2>3, <3>2 DEF Pending
  <2> QED
    BY <2>1, <2>2, <2>3 DEF Pending
<1>9. ASSUME NEW packet, NEW answer, Carries(list, packet, answer)
      PROVE  Carries(new, packet, answer)
  <2> SUFFICES ASSUME NEW i \in 1..Len(new)
               PROVE  /\ InFlightTo(new[i], "B") /\ Checks(new[i].pkt) => new[i].pkt = packet
                      /\ InFlightTo(new[i], "A") /\ Checks(new[i].pkt) => new[i].pkt = answer
    BY DEF Carries
  <2>1. CASE InFlight(new[i])
    <3>1. old[i] \in 1..Len(list) /\ new[i] = list[old[i]]
      BY <1>4, <1>5, <2>1
    <3> QED
      BY <1>9, <3>1 DEF Carries
  <2>2. CASE ~InFlight(new[i])
    BY <2>2 DEF InFlightTo
  <2> QED
    BY <2>1, <2>2
<1> QED
  BY <1>2, <1>7, <1>8, <1>9

\* Nothing in flight: the next packet to an entity arrives from now on.
LEMMA LastTimeNone ==
  ASSUME NEW list, NEW entity, \A i \in 1..Len(list) : ~InFlight(list[i])
  PROVE  LastTime(list, entity) = 0
BY DEF LastTime, SelectLastInSeq, InFlightTo

\* A packet the protocol makes, and so one that does not pass the checksum when
\* it is damaged.
Proper(packet) ==
  \E seqnum, acknum \in Bit, data \in Payload :
    data.first # 90 /\ packet = MakePkt(seqnum, acknum, data)

LEMMA ProperFate ==
  ASSUME NEW packet, Proper(packet), NEW kind \in Kinds
  PROVE  /\ packet \in Packet
         /\ Fate(packet, kind) \in Packet
         /\ Checks(Fate(packet, kind)) => Fate(packet, kind) = packet
<1>1. PICK seqnum \in Bit, acknum \in Bit, data \in Payload :
        data.first # 90 /\ packet = MakePkt(seqnum, acknum, data)
  BY DEF Proper
<1>2. seqnum \in Int /\ seqnum < BadNumber /\ acknum \in Int /\ acknum < BadNumber
  BY DEF Bit, BadNumber
<1>3. packet \in Packet
  BY <1>1, <1>2, MakePktType
<1>4. Fate(packet, kind) \in Packet
  BY <1>3, FateType
<1>5. ASSUME Checks(Fate(packet, kind)) PROVE Fate(packet, kind) = packet
  <2>1. kind = "intact"
    BY <1>1, <1>2, <1>5, ChecksumDetectsDamage
  <2> QED
    BY <2>1 DEF Fate
<1> QED
  BY <1>3, <1>4, <1>5

\* What tolayer3 does when nothing is in flight.
LEMMA ToLayer3Alone ==
  ASSUME NEW list \in Seq(Events), \A i \in 1..Len(list) : ~InFlight(list[i]),
         NEW entity \in {"A", "B"}, NEW packet, Proper(packet),
         NEW new \in tolayer3(list, entity, packet)
  PROVE  \/ new = list
         \/ \E e \in Events : /\ new = insertevent(list, e)
                              /\ InFlightTo(e, entity)
                              /\ e.evtime \in 1..MaxDelay
                              /\ Checks(e.pkt) => e.pkt = packet
<1> SUFFICES ASSUME new # list
             PROVE  \E e \in Events : /\ new = insertevent(list, e)
                                      /\ InFlightTo(e, entity)
                                      /\ e.evtime \in 1..MaxDelay
                                      /\ Checks(e.pkt) => e.pkt = packet
  OBVIOUS
<1>1. PICK delay \in MinDelay..MaxDelay, kind \in Kinds :
        new = insertevent(list, PacketEvent(LastTime(list, entity) + delay, entity,
                                            Fate(packet, kind)))
  BY DEF tolayer3
<1>2. LastTime(list, entity) + delay = delay /\ delay \in 1..MaxDelay /\ delay \in Nat
  BY LastTimeNone, Constants
<1> DEFINE e == PacketEvent(delay, entity, Fate(packet, kind))
<1>3. Fate(packet, kind) \in Packet
  BY ProperFate
<1>4. e \in Events
  BY <1>2, <1>3 DEF PacketEvent, Events
<1>5. InFlightTo(e, entity) /\ e.evtime = delay /\ e.pkt = Fate(packet, kind)
  BY DEF PacketEvent, InFlightTo, InFlight
<1>6. Checks(e.pkt) => e.pkt = packet
  BY <1>5, ProperFate
<1> HIDE DEF e
<1>7. new = insertevent(list, e)
  BY <1>1, <1>2 DEF e
<1> QED
  BY <1>2, <1>4, <1>5, <1>6, <1>7

\* Insertion keeps the order of what has been in the list.
LEMMA InsertedSame ==
  ASSUME NEW list, NEW e, NEW new, NEW place, NEW old,
         Inserted(list, e, new, place, old), Len(new) \in Nat, Len(list) \in Nat,
         NEW m \in 1..Len(new), NEW n \in 1..Len(new), m # place, n # place,
         old[m] = old[n]
  PROVE  m = n
<1>1. /\ old[m] \in 1..Len(list)
      /\ m < n <=> old[m] < old[n]
      /\ n < m <=> old[n] < old[m]
  BY DEF Inserted
<1>2. ~(m < n) /\ ~(n < m)
  BY <1>1
<1> QED
  BY <1>2

\* What the list may hold when A has sent a packet and not yet started the timer.
Unguarded(list, packet) ==
  /\ list \in Seq(Events) /\ Sorted(list)
  /\ \A i \in 1..Len(list) : ~IsTimer(list[i])
  /\ \A i, j \in 1..Len(list) : InFlight(list[i]) /\ InFlight(list[j]) => i = j
  /\ \A i \in 1..Len(list) : InFlight(list[i]) =>
       /\ InFlightTo(list[i], "B")
       /\ list[i].evtime <= MaxDelay
       /\ Checks(list[i].pkt) => list[i].pkt = packet

\* A sends a packet and starts the timer: the packet comes first, and so early
\* that there is time for its answer.
LEMMA SendFromA ==
  ASSUME NEW list \in Seq(Events), Sorted(list), Idle(list), NEW packet, Proper(packet),
         NEW new \in {StartTimer(sent) : sent \in tolayer3(list, "B", packet)}
  PROVE  /\ new \in Seq(Events)
         /\ Sorted(new)
         /\ Pending(new)
         /\ \A answer : Carries(new, packet, answer)
<1>1. PICK sent \in tolayer3(list, "B", packet) : new = StartTimer(sent)
  OBVIOUS
<1>2. \/ sent = list
      \/ \E e \in Events : /\ sent = insertevent(list, e)
                           /\ InFlightTo(e, "B")
                           /\ e.evtime \in 1..MaxDelay
                           /\ Checks(e.pkt) => e.pkt = packet
  BY ToLayer3Alone DEF Idle
<1>3. Unguarded(sent, packet)
  <2>1. CASE sent = list
    BY <2>1 DEF Idle, Unguarded
  <2>2. ASSUME NEW e \in Events, sent = insertevent(list, e), InFlightTo(e, "B"),
               e.evtime \in 1..MaxDelay, Checks(e.pkt) => e.pkt = packet
        PROVE  Unguarded(sent, packet)
    <3>1. sent \in Seq(Events) /\ Sorted(sent)
      BY <2>2, InsertEvent
    <3>2. PICK place, old : Inserted(list, e, sent, place, old)
      BY <2>2, InsertEvent
    <3>3. sent[place] = e /\ ~IsTimer(e) /\ e.evtime <= MaxDelay
      BY <2>2, <3>2, Constants DEF Inserted, InFlightTo, InFlight, IsTimer
    <3>4. \A j \in 1..Len(sent) : j # place => ~IsTimer(sent[j]) /\ ~InFlight(sent[j])
      BY <3>2 DEF Inserted, Idle
    <3> QED
      BY <2>2, <3>1, <3>3, <3>4 DEF Unguarded
  <2> QED
    BY <1>2, <2>1, <2>2
<1> DEFINE t == TimerEvent(Timeout)
<1>4. t \in Events /\ IsTimer(t) /\ ~InFlight(t) /\ t.evtime = Timeout
  BY Constants DEF TimerEvent, Events, IsTimer, InFlight
<1>5. new = insertevent(sent, t)
  <2>1. SelectInSeq(sent, IsTimer) = 0
    BY <1>3 DEF SelectInSeq, Unguarded
  <2> QED
    BY <1>1, <2>1 DEF StartTimer, starttimer
<1> HIDE DEF t
<1>6. new \in Seq(Events) /\ Sorted(new)
  BY <1>3, <1>4, <1>5, InsertEvent DEF Unguarded
<1>7. PICK place, old : Inserted(sent, t, new, place, old)
  BY <1>3, <1>4, <1>5, InsertEvent DEF Unguarded
<1>8. Len(new) \in Nat /\ Len(sent) \in Nat
  BY <1>3, <1>6, LenProperties DEF Unguarded
<1>9. /\ place \in 1..Len(new) /\ new[place] = t
      /\ \A j \in 1..Len(new) : j # place => old[j] \in 1..Len(sent) /\ new[j] = sent[old[j]]
  BY <1>7 DEF Inserted
<1>10. OneTimer(new)
  BY <1>3, <1>4, <1>9 DEF OneTimer, Unguarded
<1>11. \A i, j \in 1..Len(new) : InFlight(new[i]) /\ InFlight(new[j]) => i = j
  <2> SUFFICES ASSUME NEW i \in 1..Len(new), NEW j \in 1..Len(new),
                      InFlight(new[i]), InFlight(new[j])
               PROVE  i = j
    OBVIOUS
  <2>1. i # place /\ j # place
    BY <1>4, <1>9
  <2>2. old[i] = old[j]
    BY <1>3, <1>9, <2>1 DEF Unguarded
  <2> QED
    BY <1>7, <1>8, <2>1, <2>2, InsertedSame
<1>12. ASSUME NEW i \in 1..Len(new), InFlight(new[i])
       PROVE  /\ i < place
              /\ new[i].evtime + MaxDelay <= Timeout
              /\ InFlightTo(new[i], "B") /\ (Checks(new[i].pkt) => new[i].pkt = packet)
  <2>1. i # place /\ old[i] \in 1..Len(sent) /\ new[i] = sent[old[i]]
    BY <1>4, <1>9, <1>12
  <2>2. /\ new[i].evtime <= MaxDelay /\ new[i].evtime \in Nat
        /\ InFlightTo(new[i], "B") /\ (Checks(new[i].pkt) => new[i].pkt = packet)
    BY <1>3, <1>12, <2>1, ElementOfSeq, EventsProperties DEF Unguarded
  <2>3. place < i <=> t.evtime <= sent[old[i]].evtime
    BY <1>7, <2>1 DEF Inserted
  <2>4. ~(place < i)
    BY <1>4, <2>1, <2>2, <2>3, Constants
  <2>5. i < place
    BY <1>8, <1>9, <2>1, <2>4
  <2> QED
    BY <2>2, <2>5, Constants
<1>13. Pending(new)
  <2>1. \A j \in 1..Len(new) : IsTimer(new[j]) => j = place
    BY <1>3, <1>9 DEF Unguarded
  <2>2. \A i, j \in 1..Len(new) : InFlight(new[i]) /\ IsTimer(new[j]) =>
          /\ i < j
          /\ InFlightTo(new[i], "B") => new[i].evtime + MaxDelay <= new[j].evtime
    BY <1>4, <1>9, <1>12, <2>1
  <2> QED
    BY <1>10, <1>11, <2>2 DEF Pending
<1>14. ASSUME NEW answer PROVE Carries(new, packet, answer)
  <2>1. "A" # "B"
    OBVIOUS
  <2> QED
    BY <1>12, <2>1 DEF Carries, InFlightTo
<1> QED
  BY <1>6, <1>13, <1>14

\* B answers: the answer comes before the timer.
LEMMA SendFromB ==
  ASSUME NEW list \in Seq(Events), Sorted(list), TimerOnly(list, MaxDelay),
         NEW answer, Proper(answer), NEW new \in tolayer3(list, "A", answer)
  PROVE  /\ new \in Seq(Events)
         /\ Sorted(new)
         /\ Pending(new)
         /\ \A packet : Carries(new, packet, answer)
<1>1. \/ new = list
      \/ \E e \in Events : /\ new = insertevent(list, e)
                           /\ InFlightTo(e, "A")
                           /\ e.evtime \in 1..MaxDelay
                           /\ Checks(e.pkt) => e.pkt = answer
  BY ToLayer3Alone DEF TimerOnly
<1>2. CASE new = list
  BY <1>2 DEF TimerOnly, Pending, Carries, InFlightTo
<1>3. ASSUME NEW e \in Events, new = insertevent(list, e), InFlightTo(e, "A"),
             e.evtime \in 1..MaxDelay, Checks(e.pkt) => e.pkt = answer
      PROVE  /\ new \in Seq(Events) /\ Sorted(new) /\ Pending(new)
             /\ \A packet : Carries(new, packet, answer)
  <2>1. new \in Seq(Events) /\ Sorted(new)
    BY <1>3, InsertEvent
  <2>2. PICK place, old : Inserted(list, e, new, place, old)
    BY <1>3, InsertEvent
  <2>3. Len(new) \in Nat /\ Len(list) \in Nat
    BY <2>1, LenProperties
  <2>4. /\ place \in 1..Len(new) /\ new[place] = e /\ ~IsTimer(e)
        /\ \A j \in 1..Len(new) : j # place => old[j] \in 1..Len(list) /\ new[j] = list[old[j]]
    BY <1>3, <2>2 DEF Inserted, InFlightTo, InFlight, IsTimer
  <2>5. OneTimer(new)
    BY <2>2, <2>3, <2>4, InsertedTimer DEF TimerOnly
  <2>6. \A i \in 1..Len(new) : InFlight(new[i]) => i = place
    BY <2>4 DEF TimerOnly
  <2>7. ASSUME NEW j \in 1..Len(new), IsTimer(new[j])
        PROVE  place < j
    <3>1. j # place /\ old[j] \in 1..Len(list) /\ new[j] = list[old[j]]
      BY <2>4, <2>7
    <3>2. MaxDelay <= list[old[j]].evtime /\ list[old[j]].evtime \in Nat
      BY <2>7, <3>1, ElementOfSeq, EventsProperties DEF TimerOnly
    <3>3. e.evtime <= list[old[j]].evtime
      BY <1>3, <3>2, Constants
    <3> QED
      BY <2>2, <3>1, <3>3 DEF Inserted
  <2>8. ~InFlightTo(e, "B")
    BY <1>3 DEF InFlightTo
  <2>9. Pending(new)
    BY <2>4, <2>5, <2>6, <2>7, <2>8 DEF Pending, InFlightTo
  <2>10. ASSUME NEW packet PROVE Carries(new, packet, answer)
    BY <1>3, <2>4, <2>6, <2>8 DEF Carries, InFlightTo
  <2> QED
    BY <2>1, <2>9, <2>10
<1> QED
  BY <1>1, <1>2, <1>3

\* stoptimer leaves nothing that the protocol waits for.
LEMMA StopTimer ==
  ASSUME NEW list \in Seq(Events), Sorted(list), TimerOnly(list, 0)
  PROVE  /\ stoptimer(list) \in Seq(Events)
         /\ Sorted(stoptimer(list))
         /\ Idle(stoptimer(list))
<1> DEFINE I == {i \in 1..Len(list) : IsTimer(list[i])}
<1>1. Len(list) \in Nat /\ I \in SUBSET Nat /\ I # {}
  BY LenProperties DEF TimerOnly, OneTimer
<1>2. Min(I) \in I
  <2> HIDE DEF I
  <2> QED
    BY <1>1, MinProperties
<1>3. PICK at \in 1..Len(list) : at = Min(I) /\ IsTimer(list[at])
  BY <1>2
<1>4. SelectInSeq(list, IsTimer) = at /\ at # 0
  BY <1>1, <1>3 DEF SelectInSeq
<1> DEFINE new == RemoveAt(list, at)
<1>5. stoptimer(list) = new
  BY <1>4 DEF stoptimer
<1>6. /\ new \in Seq(Events) /\ Len(new) = Len(list) - 1
      /\ \A j \in 1..Len(list) - 1 : new[j] = IF j < at THEN list[j] ELSE list[j + 1]
  BY <1>3, RemoveAtProperties
<1> HIDE DEF new, I
<1>7. Sorted(new)
  <2> SUFFICES ASSUME NEW i \in 1..Len(new), NEW j \in 1..Len(new), i < j
               PROVE  new[i].evtime <= new[j].evtime
    BY DEF Sorted
  <2>1. PICK m, n \in 1..Len(list) : m < n /\ new[i] = list[m] /\ new[j] = list[n]
    <3>1. CASE j < at
      <4>1. i < at /\ i \in 1..Len(list) /\ j \in 1..Len(list)
        BY <1>1, <1>6, <3>1
      <4>2. new[i] = list[i] /\ new[j] = list[j]
        BY <1>6, <3>1, <4>1
      <4> QED
        BY <4>1, <4>2
    <3>2. CASE i < at /\ ~(j < at)
      <4>1. i < j + 1 /\ j + 1 \in 1..Len(list) /\ i \in 1..Len(list)
        BY <1>1, <1>6
      <4> QED
        BY <1>6, <3>2, <4>1
    <3>3. CASE ~(i < at) /\ ~(j < at)
      <4>1. i + 1 < j + 1 /\ j + 1 \in 1..Len(list) /\ i + 1 \in 1..Len(list)
        BY <1>1, <1>6
      <4> QED
        BY <1>6, <3>3, <4>1
    <3> QED
      BY <1>1, <1>6, <3>1, <3>2, <3>3
  <2> QED
    BY <2>1 DEF Sorted
<1>8. Idle(new)
  <2> SUFFICES ASSUME NEW j \in 1..Len(new)
               PROVE  ~IsTimer(new[j]) /\ ~InFlight(new[j])
    BY DEF Idle
  <2>1. PICK m \in 1..Len(list) : m # at /\ new[j] = list[m]
    <3>1. CASE j < at
      BY <1>1, <1>6, <3>1
    <3>2. CASE ~(j < at)
      <4>1. j + 1 \in 1..Len(list) /\ j + 1 # at
        BY <1>1, <1>3, <1>6, <3>2
      <4> QED
        BY <1>6, <3>2, <4>1
    <3> QED
      BY <3>1, <3>2
  <2> QED
    BY <1>3, <2>1 DEF TimerOnly, OneTimer
<1> QED
  BY <1>5, <1>6, <1>7, <1>8

\* main takes the first event of the list and lets the time of it pass.
LEMMA ShiftEvent ==
  ASSUME NEW e \in Events, NEW time \in Nat, time <= e.evtime
  PROVE  /\ [e EXCEPT !.evtime = @ - time] \in Events
         /\ [e EXCEPT !.evtime = @ - time].evtime = e.evtime - time
         /\ [e EXCEPT !.evtime = @ - time].evtype = e.evtype
         /\ [e EXCEPT !.evtime = @ - time].eventity = e.eventity
         /\ InFlight(e) => [e EXCEPT !.evtime = @ - time].pkt = e.pkt
<1>1. CASE e \in [evtime : Nat, evtype : {"TIMER_INTERRUPT", "FROM_LAYER5"}, eventity : {"A"}]
  BY <1>1 DEF Events, InFlight
<1>2. CASE e \in [evtime : Nat, evtype : {"FROM_LAYER3"}, eventity : {"A", "B"}, pkt : Packet]
  BY <1>2 DEF Events, InFlight
<1> QED
  BY <1>1, <1>2 DEF Events

LEMMA OthersProperties ==
  ASSUME evlist \in Seq(Events), Sorted(evlist), evlist # << >>
  PROVE  /\ Others \in Seq(Events)
         /\ Len(Others) = Len(evlist) - 1 /\ Len(Others) \in Nat
         /\ Sorted(Others)
         /\ \A i \in 1..Len(Others) :
              /\ i + 1 \in 1..Len(evlist)
              /\ evlist[i + 1].evtime \in Nat /\ Head(evlist).evtime \in Nat
              /\ Others[i].evtime = evlist[i + 1].evtime - Head(evlist).evtime
              /\ Others[i].evtype = evlist[i + 1].evtype
              /\ Others[i].eventity = evlist[i + 1].eventity
              /\ InFlight(Others[i]) => Others[i].pkt = evlist[i + 1].pkt
<1>1. /\ Len(evlist) \in Nat \ {0} /\ Head(evlist) = evlist[1]
      /\ \A i \in 1..Len(evlist) : evlist[i] \in Events /\ evlist[i].evtime \in Nat
  BY LenProperties, ElementOfSeq, EventsProperties, EmptySeq
<1>2. PICK n \in Nat : n = Len(evlist) - 1
  BY <1>1
<1> DEFINE time == Head(evlist).evtime
           shifted(i) == [evlist[i + 1] EXCEPT !.evtime = @ - time]
<1>3. Others = [i \in 1..n |-> shifted(i)]
  BY <1>2 DEF Others
<1>4. \A i \in 1..n : i + 1 \in 1..Len(evlist) /\ time <= evlist[i + 1].evtime /\ time \in Nat
  BY <1>1, <1>2 DEF Sorted
<1>5. ASSUME NEW i \in 1..n
      PROVE  /\ shifted(i) \in Events
             /\ shifted(i).evtime = evlist[i + 1].evtime - time
             /\ shifted(i).evtype = evlist[i + 1].evtype
             /\ shifted(i).eventity = evlist[i + 1].eventity
             /\ InFlight(shifted(i)) => shifted(i).pkt = evlist[i + 1].pkt
  <2>1. evlist[i + 1] \in Events /\ time \in Nat /\ time <= evlist[i + 1].evtime
    BY <1>1, <1>4
  <2>2. InFlight(shifted(i)) <=> InFlight(evlist[i + 1])
    BY <2>1, ShiftEvent DEF InFlight
  <2> QED
    BY <2>1, <2>2, ShiftEvent
<1> HIDE DEF shifted
<1>6. Others \in Seq(Events) /\ Len(Others) = n
  <2>1. \A i \in 1..n : shifted(i) \in Events
    BY <1>5
  <2>2. [i \in 1..n |-> shifted(i)] \in Seq(Events)
    BY <2>1, IsASeq
  <2>3. Len([i \in 1..n |-> shifted(i)]) = n
    OBVIOUS
  <2> QED
    BY <1>3, <2>2, <2>3
<1>7. \A i \in 1..n : Others[i] = shifted(i)
  BY <1>3
<1>8. Sorted(Others)
  <2> SUFFICES ASSUME NEW i \in 1..n, NEW j \in 1..n, i < j
               PROVE  Others[i].evtime <= Others[j].evtime
    BY <1>6 DEF Sorted
  <2>1. evlist[i + 1].evtime <= evlist[j + 1].evtime
    BY <1>1, <1>4 DEF Sorted
  <2>2. /\ Others[i].evtime = evlist[i + 1].evtime - time
        /\ Others[j].evtime = evlist[j + 1].evtime - time
    BY <1>5, <1>7
  <2>3. /\ evlist[i + 1].evtime \in Nat /\ evlist[j + 1].evtime \in Nat /\ time \in Nat
    BY <1>1, <1>4
  <2> HIDE DEF time
  <2> QED
    BY <2>1, <2>2, <2>3
<1> QED
  BY <1>1, <1>2, <1>4, <1>5, <1>6, <1>7, <1>8

LEMMA TakingCarries ==
  ASSUME evlist \in Seq(Events), Sorted(evlist), evlist # << >>,
         NEW packet, NEW answer, Carries(evlist, packet, answer)
  PROVE  Carries(Others, packet, answer)
<1> SUFFICES ASSUME NEW i \in 1..Len(Others), InFlight(Others[i]), Checks(Others[i].pkt)
             PROVE  /\ Others[i].eventity = "B" => Others[i].pkt = packet
                    /\ Others[i].eventity = "A" => Others[i].pkt = answer
  BY DEF Carries, InFlightTo
<1>1. /\ i + 1 \in 1..Len(evlist) /\ InFlight(evlist[i + 1])
      /\ Others[i].eventity = evlist[i + 1].eventity
      /\ Others[i].pkt = evlist[i + 1].pkt
  BY OthersProperties DEF InFlight
<1> QED
  BY <1>1 DEF Carries, InFlightTo

\* What is left when main has taken the first event, by its type.
LEMMA Taking ==
  ASSUME evlist \in Seq(Events), Sorted(evlist), evlist # << >>
  PROVE  /\ Idle(evlist) => Idle(Others)
         /\ Pending(evlist) /\ Head(evlist).evtype = "FROM_LAYER5" => Pending(Others)
         /\ Pending(evlist) /\ InFlight(Head(evlist)) => TimerOnly(Others, 0)
         /\ Pending(evlist) /\ InFlightTo(Head(evlist), "B") => TimerOnly(Others, MaxDelay)
         /\ Pending(evlist) /\ IsTimer(Head(evlist)) => Idle(Others)
<1>1. /\ Head(evlist) = evlist[1] /\ 1 \in 1..Len(evlist)
      /\ Len(Others) \in Nat /\ Len(evlist) = Len(Others) + 1
  BY OthersProperties, LenProperties
<1>2. ASSUME NEW i \in 1..Len(Others)
      PROVE  /\ i + 1 \in 1..Len(evlist) /\ i + 1 # 1
             /\ evlist[i + 1].evtime \in Nat /\ Head(evlist).evtime \in Nat
             /\ Others[i].evtime = evlist[i + 1].evtime - Head(evlist).evtime
             /\ IsTimer(Others[i]) <=> IsTimer(evlist[i + 1])
             /\ InFlight(Others[i]) <=> InFlight(evlist[i + 1])
             /\ InFlightTo(Others[i], "B") <=> InFlightTo(evlist[i + 1], "B")
  BY OthersProperties DEF IsTimer, InFlight, InFlightTo
<1>3. ASSUME NEW k \in 1..Len(evlist), k # 1
      PROVE  k - 1 \in 1..Len(Others) /\ (k - 1) + 1 = k
  BY <1>1, <1>3
<1>4. ASSUME Idle(evlist) PROVE Idle(Others)
  BY <1>2, <1>4 DEF Idle
<1>5. ASSUME OneTimer(evlist), ~IsTimer(Head(evlist)) PROVE OneTimer(Others)
  <2>1. PICK k \in 1..Len(evlist) : IsTimer(evlist[k])
    BY <1>5 DEF OneTimer
  <2>2. k # 1
    BY <1>1, <1>5, <2>1
  <2>3. k - 1 \in 1..Len(Others) /\ IsTimer(Others[k - 1])
    BY <1>2, <1>3, <2>1, <2>2
  <2>4. ASSUME NEW i \in 1..Len(Others), NEW j \in 1..Len(Others),
               IsTimer(Others[i]), IsTimer(Others[j])
        PROVE  i = j
    <3>1. i + 1 = j + 1
      BY <1>2, <1>5, <2>4 DEF OneTimer
    <3> QED
      BY <3>1
  <2> QED
    BY <2>3, <2>4 DEF OneTimer
<1>6. ASSUME Pending(evlist), Head(evlist).evtype = "FROM_LAYER5" PROVE Pending(Others)
  <2>1. OneTimer(Others)
    BY <1>5, <1>6 DEF Pending, IsTimer
  <2>2. ASSUME NEW i \in 1..Len(Others), NEW j \in 1..Len(Others),
               InFlight(Others[i]), InFlight(Others[j])
        PROVE  i = j
    <3>1. i + 1 = j + 1
      BY <1>2, <1>6, <2>2 DEF Pending
    <3> QED
      BY <3>1
  <2>3. ASSUME NEW i \in 1..Len(Others), NEW j \in 1..Len(Others),
               InFlight(Others[i]), IsTimer(Others[j])
        PROVE  /\ i < j
               /\ InFlightTo(Others[i], "B") => Others[i].evtime + MaxDelay <= Others[j].evtime
    <3>1. /\ i + 1 < j + 1
          /\ InFlightTo(evlist[i + 1], "B") =>
               evlist[i + 1].evtime + MaxDelay <= evlist[j + 1].evtime
      BY <1>2, <1>6, <2>3 DEF Pending
    <3>2. i < j
      BY <3>1
    <3>3. evlist[i + 1].evtime + MaxDelay <= evlist[j + 1].evtime =>
            Others[i].evtime + MaxDelay <= Others[j].evtime
      <4> DEFINE a == evlist[i + 1].evtime
                 b == evlist[j + 1].evtime
                 t == Head(evlist).evtime
      <4>1. /\ a \in Nat /\ b \in Nat /\ t \in Nat
            /\ Others[i].evtime = a - t /\ Others[j].evtime = b - t
        BY <1>2
      <4>2. MaxDelay \in Nat
        BY Constants
      <4> HIDE DEF a, b, t
      <4>3. a + MaxDelay <= b => (a - t) + MaxDelay <= b - t
        BY <4>1, <4>2
      <4> QED
        BY <4>1, <4>3 DEF a, b
    <3> QED
      BY <1>2, <3>1, <3>2, <3>3
  <2> QED
    BY <2>1, <2>2, <2>3 DEF Pending
<1>7. ASSUME Pending(evlist), InFlight(Head(evlist)),
             NEW time \in {0, MaxDelay}, time = 0 \/ InFlightTo(Head(evlist), "B")
      PROVE  TimerOnly(Others, time)
  <2>1. OneTimer(Others)
    BY <1>5, <1>7 DEF Pending, IsTimer, InFlight
  <2>2. ASSUME NEW i \in 1..Len(Others) PROVE ~InFlight(Others[i])
    BY <1>1, <1>2, <1>7 DEF Pending
  <2>3. ASSUME NEW i \in 1..Len(Others), IsTimer(Others[i]) PROVE time <= Others[i].evtime
    <3>1. IsTimer(evlist[i + 1]) /\ i + 1 \in 1..Len(evlist)
      BY <1>2, <2>3
    <3>2. CASE time = 0
      <4>1. evlist[1].evtime <= evlist[i + 1].evtime
        BY <1>1, <3>1 DEF Sorted
      <4> QED
        BY <1>1, <1>2, <3>2, <4>1
    <3>3. CASE InFlightTo(Head(evlist), "B")
      <4>1. evlist[1].evtime + MaxDelay <= evlist[i + 1].evtime
        BY <1>1, <1>7, <3>1, <3>3 DEF Pending
      <4> QED
        BY <1>1, <1>2, <1>7, <3>3, <4>1, Constants
    <3> QED
      BY <1>7, <3>2, <3>3
  <2> QED
    BY <2>1, <2>2, <2>3 DEF TimerOnly
<1>8. ASSUME Pending(evlist), IsTimer(Head(evlist)) PROVE Idle(Others)
  <2> SUFFICES ASSUME NEW i \in 1..Len(Others)
               PROVE  ~IsTimer(Others[i]) /\ ~InFlight(Others[i])
    BY DEF Idle
  <2>1. ~IsTimer(evlist[i + 1])
    BY <1>1, <1>2, <1>8 DEF Pending, OneTimer
  <2>2. ~InFlight(evlist[i + 1])
    <3>1. ~(i + 1 < 1) /\ i + 1 \in 1..Len(evlist)
      BY <1>2
    <3> QED
      BY <1>1, <1>8, <3>1 DEF Pending
  <2> QED
    BY <1>2, <2>1, <2>2
<1> QED
  BY <1>4, <1>6, <1>7, <1>8 DEF InFlightTo

----------------------------------------------------------------------------
(* The ring of A.                                                          *)

LEMMA RingFacts ==
  ASSUME TypeOK
  PROVE  /\ BUFFER_LEN \in Nat \ {0}
         /\ head_pointer \in 0..BUFFER_LEN - 1 /\ head_pointer \in Nat
         /\ count \in 0..BUFFER_LEN /\ count \in Nat
         /\ nsim \in 0..NsimMax /\ nsim \in Nat
         /\ buffer \in [0..BUFFER_LEN - 1 -> Payload]
BY Constants DEF TypeOK, TimedTypeOK, Layer5TypeOK

\* A message put in at the tail.
LEMMA RingAdd ==
  ASSUME TypeOK, RingHoldsBacklog, tail_pointer = (head_pointer + count) % BUFFER_LEN,
         count < BUFFER_LEN,
         nsim' = nsim + 1,
         buffer' = [buffer EXCEPT ![tail_pointer] = MsgData(nsim)],
         tail_pointer' = After(tail_pointer),
         count' = count + 1,
         head_pointer' = head_pointer
  PROVE  /\ buffer' \in [0..BUFFER_LEN - 1 -> Payload]
         /\ tail_pointer' \in 0..BUFFER_LEN - 1
         /\ count' \in 0..BUFFER_LEN
         /\ tail_pointer' = (head_pointer' + count') % BUFFER_LEN
         /\ RingHoldsBacklog'
<1>1. /\ BUFFER_LEN \in Nat \ {0} /\ head_pointer \in Nat /\ count \in Nat /\ nsim \in Nat
      /\ buffer \in [0..BUFFER_LEN - 1 -> Payload]
  BY RingFacts
<1>2. MsgData(nsim) \in Payload
  BY <1>1, MsgDataType
<1>3. head_pointer + count \in Nat /\ tail_pointer \in 0..BUFFER_LEN - 1
  BY <1>1 DEF TypeOK
<1>4. tail_pointer' = (head_pointer + count + 1) % BUFFER_LEN
  <2>1. 1 \in Nat
    OBVIOUS
  <2> QED
    BY <1>1, <1>3, <2>1, PlaceAfter DEF After
<1>5. tail_pointer' \in 0..BUFFER_LEN - 1
  <2>1. head_pointer + count + 1 \in Nat
    BY <1>1
  <2> QED
    BY <1>1, <1>4, <2>1, Division
<1>6. tail_pointer' = (head_pointer' + count') % BUFFER_LEN
  <2>1. head_pointer' + count' = head_pointer + count + 1
    BY <1>1
  <2> QED
    BY <1>4, <2>1
<1>7. ASSUME NEW n \in 1..count + 1
      PROVE  buffer'[(head_pointer + n - 1) % BUFFER_LEN] = MsgData(nsim - count + n - 1)
  <2> DEFINE number == head_pointer + n - 1
             place == number % BUFFER_LEN
  <2>1. number \in Nat /\ place \in 0..BUFFER_LEN - 1
    <3>1. number \in Nat
      BY <1>1
    <3> HIDE DEF number
    <3> QED
      BY <1>1, <3>1, Division
  <2>2. CASE n = count + 1
    <3>1. number = head_pointer + count /\ nsim - count + n - 1 = nsim
      BY <1>1, <2>2
    <3>2. place = tail_pointer
      BY <3>1
    <3> HIDE DEF place, number
    <3> QED
      BY <1>1, <1>3, <3>1, <3>2 DEF place, number
  <2>3. CASE n # count + 1
    <3>1. n \in 1..count
      BY <1>1, <2>3
    <3>2. buffer[place] = MsgData(nsim - count + n - 1)
      BY <3>1 DEF RingHoldsBacklog
    <3>3. number < head_pointer + count /\ (head_pointer + count) - number < BUFFER_LEN
      BY <1>1, <3>1
    <3> HIDE DEF number
    <3>4. place # tail_pointer
      BY <1>1, <1>3, <2>1, <3>3, DifferentPlaces
    <3> HIDE DEF place
    <3> QED
      BY <1>1, <1>3, <2>1, <3>2, <3>4 DEF place, number
  <2> QED
    BY <2>2, <2>3
<1>8. RingHoldsBacklog'
  <2> SUFFICES ASSUME NEW n \in 1..count'
               PROVE  buffer'[(head_pointer' + n - 1) % BUFFER_LEN]
                        = MsgData(nsim' - count' + n - 1)
    BY DEF RingHoldsBacklog
  <2>1. n \in 1..count + 1 /\ nsim' - count' + n - 1 = nsim - count + n - 1
    BY <1>1
  <2> QED
    BY <1>7, <2>1
<1> QED
  BY <1>1, <1>2, <1>3, <1>5, <1>6, <1>8

\* A message taken out at the head.
LEMMA RingTake ==
  ASSUME TypeOK, RingHoldsBacklog, tail_pointer = (head_pointer + count) % BUFFER_LEN,
         count > 0,
         head_pointer' = After(head_pointer),
         count' = count - 1,
         UNCHANGED <<nsim, buffer, tail_pointer>>
  PROVE  /\ buffer[head_pointer] = MsgData(SentOff)
         /\ head_pointer' \in 0..BUFFER_LEN - 1
         /\ count' \in 0..BUFFER_LEN
         /\ tail_pointer' = (head_pointer' + count') % BUFFER_LEN
         /\ RingHoldsBacklog'
<1>1. /\ BUFFER_LEN \in Nat \ {0} /\ head_pointer \in 0..BUFFER_LEN - 1 /\ head_pointer \in Nat
      /\ count \in 0..BUFFER_LEN /\ count \in Nat /\ nsim \in Nat
  BY RingFacts
<1>2. buffer[head_pointer] = MsgData(SentOff)
  <2>1. 1 \in 1..count /\ head_pointer + 1 - 1 = head_pointer /\ nsim - count + 1 - 1 = SentOff
    BY <1>1 DEF SentOff
  <2>2. head_pointer % BUFFER_LEN = head_pointer
    BY <1>1, OwnPlace
  <2>3. buffer[(head_pointer + 1 - 1) % BUFFER_LEN] = MsgData(nsim - count + 1 - 1)
    BY <2>1 DEF RingHoldsBacklog
  <2> QED
    BY <2>1, <2>2, <2>3
<1>3. head_pointer' = (head_pointer + 1) % BUFFER_LEN /\ head_pointer + 1 \in Nat
  BY <1>1 DEF After
<1>4. head_pointer' \in 0..BUFFER_LEN - 1
  BY <1>1, <1>3, Division
<1>5. ASSUME NEW k \in Nat
      PROVE  (head_pointer' + k) % BUFFER_LEN = (head_pointer + 1 + k) % BUFFER_LEN
  <2> DEFINE next == head_pointer + 1
  <2>1. next \in Nat
    BY <1>3
  <2> HIDE DEF next
  <2>2. ((next % BUFFER_LEN) + k) % BUFFER_LEN = (next + k) % BUFFER_LEN
    BY <1>1, <2>1, PlaceAfter
  <2> QED
    BY <1>3, <2>2 DEF next
<1>6. tail_pointer' = (head_pointer' + count') % BUFFER_LEN
  <2>1. count' \in Nat /\ head_pointer + 1 + count' = head_pointer + count
    BY <1>1
  <2> QED
    BY <1>5, <2>1
<1>7. RingHoldsBacklog'
  <2> SUFFICES ASSUME NEW n \in 1..count'
               PROVE  buffer'[(head_pointer' + n - 1) % BUFFER_LEN]
                        = MsgData(nsim' - count' + n - 1)
    BY DEF RingHoldsBacklog
  <2>1. /\ n - 1 \in Nat /\ n + 1 \in 1..count
        /\ head_pointer' + n - 1 = head_pointer' + (n - 1)
        /\ head_pointer + 1 + (n - 1) = head_pointer + (n + 1) - 1
        /\ nsim' - count' + n - 1 = nsim - count + (n + 1) - 1
    BY <1>1, <1>4
  <2>2. (head_pointer' + n - 1) % BUFFER_LEN = (head_pointer + (n + 1) - 1) % BUFFER_LEN
    BY <1>5, <2>1
  <2>3. buffer[(head_pointer + (n + 1) - 1) % BUFFER_LEN] = MsgData(nsim - count + (n + 1) - 1)
    BY <2>1 DEF RingHoldsBacklog
  <2> QED
    BY <2>1, <2>2, <2>3
<1>8. count' \in 0..BUFFER_LEN
  BY <1>1
<1> QED
  BY <1>2, <1>4, <1>6, <1>7, <1>8

----------------------------------------------------------------------------
(* The invariant holds initially and is kept by every step.                *)

LEMMA Parity ==
  ASSUME NEW n \in Nat
  PROVE  n % 2 \in Bit /\ (n + 1) % 2 = 1 - (n % 2) /\ (n + 1) % 2 # n % 2
BY DEF Bit

LEMMA PktOfProper ==
  ASSUME NEW n \in Nat
  PROVE  Proper(PktOf(n)) /\ PktOf(n) \in Packet /\ PktOf(n).seqnum = n % 2
         /\ PktOf(n).payload = MsgData(n)
<1>1. n % 2 \in Bit /\ n % 2 \in Int /\ 0 \in Bit /\ 0 \in Int
  BY DEF Bit
<1>2. MsgData(n) \in Payload /\ MsgData(n).first # 90
  BY MsgDataType
<1>3. PktOf(n) \in Packet
  BY <1>1, <1>2, MakePktType DEF PktOf
<1>4. Proper(PktOf(n))
  BY <1>1, <1>2 DEF Proper, PktOf
<1> QED
  BY <1>3, <1>4 DEF PktOf, MakePkt

LEMMA AnswerOfProper ==
  ASSUME NEW bit \in Bit
  PROVE  Proper(AnswerOf(bit)) /\ AnswerOf(bit).acknum = bit
<1>1. 0 \in Bit
  BY DEF Bit
<1>2. Proper(AnswerOf(bit))
  BY <1>1, NoDataType DEF Proper, AnswerOf
<1> QED
  BY <1>2 DEF AnswerOf, MakePkt

\* Where A and B are.
LEMMA StateFacts ==
  ASSUME IInv
  PROVE  /\ ack \in {0, 1} /\ nsim \in Nat /\ nsim <= NsimMax /\ count \in Nat
         /\ SentOff \in Nat /\ SentOff + count = nsim
         /\ Done \in Nat /\ Done + ack = SentOff
         /\ next_seq_A \in Bit /\ next_seq_B \in Bit /\ 1 - next_seq_B \in Bit
         /\ received \in Seq(Payload) /\ Len(received) \in Nat
         /\ evlist \in Seq(Events) /\ Sorted(evlist)
<1>1. /\ ack \in {0, 1} /\ nsim \in Nat /\ nsim <= NsimMax /\ count \in Nat
      /\ next_seq_A \in Bit /\ next_seq_B \in Bit /\ received \in Seq(Payload)
      /\ evlist \in Seq(Events) /\ Sorted(evlist) /\ count + ack <= nsim
  BY Constants DEF IInv, TypeOK, TimedTypeOK, Layer5TypeOK, Bit, Counters
<1>2. Len(received) \in Nat
  BY <1>1, LenProperties
<1>3. 1 - next_seq_B \in Bit
  BY <1>1 DEF Bit
<1> QED
  BY <1>1, <1>2, <1>3 DEF SentOff, Done

\* An intact answer is an acknowledgement of the last packet exactly when B has
\* delivered it.
LEMMA Answered ==
  ASSUME IInv, ack = 1
  PROVE  /\ packet_sent = PktOf(Done) /\ Proper(packet_sent)
         /\ packet_sent.seqnum = next_seq_A
         /\ 1 - next_seq_B = next_seq_A <=> Len(received) = SentOff
         /\ next_seq_A = next_seq_B <=> Len(received) = Done
<1>1. Done \in Nat /\ SentOff = Done + 1 /\ Len(received) \in {Done, SentOff}
  BY StateFacts DEF IInv, Bits
<1>2. packet_sent = PktOf(Done) /\ Proper(packet_sent) /\ packet_sent.seqnum = next_seq_A
  BY <1>1, PktOfProper DEF IInv, Bits
<1>3. next_seq_A = Done % 2 /\ next_seq_B = Len(received) % 2
  BY DEF IInv, Bits
<1>4. Done % 2 \in {0, 1} /\ (Done + 1) % 2 = 1 - (Done % 2)
  BY <1>1, Parity DEF Bit
<1>5. CASE Len(received) = Done
  BY <1>1, <1>2, <1>3, <1>4, <1>5
<1>6. CASE Len(received) = SentOff
  BY <1>1, <1>2, <1>3, <1>4, <1>6
<1> QED
  BY <1>1, <1>5, <1>6

\* Nobody is answered before asking.
LEMMA Caught ==
  ASSUME IInv, ack = 0
  PROVE  count = 0 /\ SentOff = nsim /\ Done = nsim /\ Len(received) = nsim
BY StateFacts DEF IInv, Counters, Bits

LEMMA InitInv == Init => IInv
<1> SUFFICES ASSUME Init PROVE IInv
  OBVIOUS
<1>1. << >> \in Seq(Events) /\ << >> \in Seq(Payload) /\ Len(<< >>) = 0
  BY EmptySeq
<1>2. evlist \in Seq(Events) /\ Sorted(evlist) /\ Idle(evlist)
      /\ \A packet, answer : Carries(evlist, packet, answer)
  <2>1. Sorted(<< >>) /\ Idle(<< >>) /\ \A packet, answer : Carries(<< >>, packet, answer)
    BY <1>1 DEF Sorted, Idle, Carries
  <2> QED
    BY <1>1, <2>1, AddLayer5 DEF Init, TimedInit
<1>3. packet_sent \in Packet /\ buffer \in [0..BUFFER_LEN - 1 -> Payload]
  BY NoDataType, MakePktType DEF Init
<1>4. TypeOK
  BY <1>1, <1>2, <1>3, Constants
  DEF Init, TimedInit, Layer5Init, TypeOK, TimedTypeOK, Layer5TypeOK, Statuses, Bit
<1>5. Counters
  <2>1. 0 % BUFFER_LEN = 0
    BY OwnPlace, Constants
  <2> QED
    BY <2>1 DEF Init, TimedInit, Layer5Init, Counters
<1>6. RingHoldsBacklog
  BY DEF Init, RingHoldsBacklog
<1>7. NoPanic /\ Timed /\ Bits /\ Delivered
  BY <1>1, <1>2 DEF Init, TimedInit, Layer5Init, NoPanic, Timed, Bits, Delivered, SentOff, Done
<1> QED
  BY <1>2, <1>4, <1>5, <1>6, <1>7 DEF IInv

\* The message is sent or, while A waits, put in the ring.
LEMMA FromLayer5Inv == IInv /\ FromLayer5 => IInv'
<1> SUFFICES ASSUME IInv, FromLayer5 PROVE IInv'
  OBVIOUS
<1>1. PICK list \in generate_next_arrival(Others) : A_output(MsgData(nsim), list)
  BY DEF FromLayer5
<1>2. /\ status = "running" /\ nsim # NsimMax /\ nsim' = nsim + 1
      /\ evlist # << >> /\ Head(evlist).evtype = "FROM_LAYER5"
      /\ UNCHANGED <<status, received>>
  BY DEF FromLayer5, Due, Running
<1>3. /\ nsim \in 0..NsimMax /\ nsim \in Nat /\ nsim' \in 0..NsimMax /\ nsim' \in Nat
      /\ nsim < NsimMax
  BY <1>2, Constants DEF IInv, TypeOK, TimedTypeOK, Layer5TypeOK
<1>4. /\ list \in Seq(Events) /\ Sorted(list)
      /\ Idle(evlist) => Idle(list)
      /\ Pending(evlist) => Pending(list)
      /\ \A packet, answer :
           Carries(evlist, packet, answer) => Carries(list, packet, answer)
  <2>1. evlist \in Seq(Events) /\ Sorted(evlist)
    BY StateFacts
  <2>2. Others \in Seq(Events) /\ Sorted(Others)
    BY <1>2, <2>1, OthersProperties
  <2> QED
    BY <1>2, <2>1, <2>2, AddLayer5, Taking, TakingCarries
<1>5. CASE ack = 0
  <2>1. /\ SendNow(MsgData(nsim), next_seq_A, list)
        /\ UNCHANGED <<next_seq_A, buffer, head_pointer, tail_pointer, count, next_seq_B>>
    BY <1>1, <1>5 DEF A_output, ring
  <2>2. count = 0 /\ SentOff = nsim /\ Done = nsim /\ Len(received) = nsim
    BY <1>5, Caught
  <2>3. packet_sent' = PktOf(nsim) /\ ack' = 1
    <3>1. next_seq_A = nsim % 2
      BY <2>2 DEF IInv, Bits
    <3> QED
      BY <2>1, <3>1 DEF SendNow, PktOf
  <2>4. Proper(packet_sent') /\ packet_sent' \in Packet
    BY <1>3, <2>3, PktOfProper
  <2>5. Idle(list)
    BY <1>2, <1>4, <1>5 DEF IInv, Timed
  <2>6. /\ evlist' \in Seq(Events) /\ Sorted(evlist') /\ Pending(evlist')
        /\ \A answer : Carries(evlist', packet_sent', answer)
    <3>1. evlist' \in {StartTimer(sent) : sent \in tolayer3(list, "B", packet_sent')}
      BY <2>1 DEF SendNow
    <3> QED
      BY <1>4, <2>4, <2>5, <3>1, SendFromA
  <2>7. TypeOK'
    BY <1>2, <1>3, <2>1, <2>3, <2>4, <2>6
    DEF IInv, TypeOK, TimedTypeOK, Layer5TypeOK, Bit
  <2>8. RingHoldsBacklog'
    BY <2>1, <2>2 DEF RingHoldsBacklog
  <2>9. Counters' /\ Bits'
    BY <1>2, <1>3, <2>1, <2>2, <2>3 DEF IInv, Counters, Bits, SentOff, Done
  <2>10. NoPanic' /\ Timed' /\ Delivered'
    BY <1>2, <2>3, <2>6 DEF IInv, NoPanic, Timed, Delivered
  <2>11. Carries(evlist, packet_sent, AnswerOf(1 - next_seq_B))'
    BY <2>6
  <2> QED
    BY <2>6, <2>7, <2>8, <2>9, <2>10, <2>11 DEF IInv
<1>6. CASE ack = 1
  <2>1. count < BUFFER_LEN
    BY <1>3, <1>6, StateFacts, Constants DEF IInv, Counters
  <2>2. /\ buffer' = [buffer EXCEPT ![tail_pointer] = MsgData(nsim)]
        /\ tail_pointer' = After(tail_pointer)
        /\ count' = count + 1
        /\ evlist' = list
        /\ UNCHANGED <<next_seq_A, ack, packet_sent, head_pointer, next_seq_B>>
    BY <1>1, <1>3, <1>6, <2>1, StateFacts, Constants DEF A_output, senderwaits
  <2>3. /\ buffer' \in [0..BUFFER_LEN - 1 -> Payload]
        /\ tail_pointer' \in 0..BUFFER_LEN - 1
        /\ count' \in 0..BUFFER_LEN
        /\ tail_pointer' = (head_pointer' + count') % BUFFER_LEN
        /\ RingHoldsBacklog'
    BY <1>2, <2>1, <2>2, RingAdd DEF IInv, Counters
  <2>4. TypeOK'
    BY <1>2, <1>3, <1>4, <2>2, <2>3 DEF IInv, TypeOK, TimedTypeOK, Layer5TypeOK
  <2>5. SentOff' = SentOff /\ Done' = Done
    BY <1>2, <2>2, StateFacts DEF SentOff, Done
  <2>6. Counters' /\ Bits'
    <3>1. count' + ack' <= nsim'
      BY <1>2, <2>2, StateFacts DEF IInv, Counters
    <3>2. Counters'
      BY <1>6, <2>2, <2>3, <3>1 DEF Counters
    <3>3. Bits'
      BY <1>2, <2>2, <2>5 DEF IInv, Bits
    <3> QED
      BY <3>2, <3>3
  <2>7. NoPanic' /\ Timed' /\ Delivered'
    BY <1>2, <1>4, <1>6, <2>2 DEF IInv, NoPanic, Timed, Delivered
  <2>8. Carries(evlist, packet_sent, AnswerOf(1 - next_seq_B))'
    BY <1>4, <2>2 DEF IInv
  <2>9. Sorted(evlist)'
    BY <1>4, <2>2
  <2> QED
    BY <2>3, <2>4, <2>6, <2>7, <2>8, <2>9 DEF IInv
<1> QED
  BY <1>5, <1>6, StateFacts

\* What main has when a packet is the next event.
LEMMA PacketNext ==
  ASSUME IInv, status = "running", evlist # << >>,
         NEW entity \in {"A", "B"}, InFlightTo(Head(evlist), entity)
  PROVE  /\ ack = 1 /\ Pending(evlist)
         /\ Others \in Seq(Events) /\ Sorted(Others)
         /\ TimerOnly(Others, 0)
         /\ Carries(Others, packet_sent, AnswerOf(1 - next_seq_B))
         /\ Checks(Head(evlist).pkt) =>
              Head(evlist).pkt = IF entity = "B" THEN packet_sent ELSE AnswerOf(1 - next_seq_B)
<1>1. evlist \in Seq(Events) /\ Sorted(evlist) /\ ack \in {0, 1}
  BY StateFacts
<1>2. 1 \in 1..Len(evlist) /\ Head(evlist) = evlist[1]
  BY <1>1, LenProperties
<1>3. ~Idle(evlist)
  BY <1>2 DEF Idle, InFlightTo
<1>4. ack = 1 /\ Pending(evlist)
  BY <1>1, <1>3 DEF IInv, Timed
<1>5. Others \in Seq(Events) /\ Sorted(Others) /\ TimerOnly(Others, 0)
  BY <1>1, <1>4, OthersProperties, Taking DEF InFlightTo
<1>6. Carries(evlist, packet_sent, AnswerOf(1 - next_seq_B))
  BY DEF IInv
<1>7. Carries(Others, packet_sent, AnswerOf(1 - next_seq_B))
  BY <1>1, <1>6, TakingCarries
<1>8. Checks(Head(evlist).pkt) =>
        Head(evlist).pkt = IF entity = "B" THEN packet_sent ELSE AnswerOf(1 - next_seq_B)
  <2>1. CASE entity = "B"
    BY <1>2, <1>6, <2>1 DEF Carries
  <2>2. CASE entity = "A"
    <3>1. entity # "B"
      BY <2>2
    <3> QED
      BY <1>2, <1>6, <2>2, <3>1 DEF Carries
  <2> QED
    BY <2>1, <2>2
<1> QED
  BY <1>4, <1>5, <1>7, <1>8

\* A list with nothing but the timer is one to wait with.
LEMMA TimerOnlyPending ==
  ASSUME NEW list, NEW time, TimerOnly(list, time)
  PROVE  Pending(list)
BY DEF TimerOnly, Pending

LEMMA FromLayer3ToAInv == IInv /\ FromLayer3ToA => IInv'
<1> SUFFICES ASSUME IInv, FromLayer3ToA PROVE IInv'
  OBVIOUS
<1> DEFINE packet == Head(evlist).pkt
<1>1. /\ status = "running" /\ evlist # << >> /\ InFlightTo(Head(evlist), "A")
      /\ A_input(packet, Others)
      /\ UNCHANGED <<nsim, status, received>>
  BY DEF FromLayer3ToA, Due, Running, layer5vars, InFlightTo, InFlight
<1>2. /\ ack = 1
      /\ Others \in Seq(Events) /\ Sorted(Others) /\ TimerOnly(Others, 0)
      /\ Carries(Others, packet_sent, AnswerOf(1 - next_seq_B))
      /\ Checks(packet) => packet = AnswerOf(1 - next_seq_B)
  BY <1>1, PacketNext
<1> HIDE DEF packet
<1>3. CASE ~IsAck(packet)
  <2>1. /\ evlist' = Others
        /\ UNCHANGED <<next_seq_A, ack, packet_sent, buffer, head_pointer, tail_pointer, count,
                       next_seq_B>>
    BY <1>1, <1>3 DEF A_input, protvars, senderwaits, ring
  <2>2. TypeOK'
    BY <1>1, <1>2, <2>1 DEF IInv, TypeOK, TimedTypeOK, Layer5TypeOK
  <2>3. NoPanic' /\ Counters' /\ RingHoldsBacklog' /\ Bits' /\ Delivered'
    BY <1>1, <2>1
    DEF IInv, NoPanic, Counters, RingHoldsBacklog, Bits, SentOff, Done, Delivered
  <2>4. Timed'
    BY <1>2, <2>1, TimerOnlyPending DEF Timed
  <2>5. Sorted(evlist)' /\ Carries(evlist, packet_sent, AnswerOf(1 - next_seq_B))'
    BY <1>2, <2>1
  <2> QED
    BY <2>2, <2>3, <2>4, <2>5 DEF IInv
<1>4. CASE IsAck(packet)
  <2> DEFINE stopped == stoptimer(Others)
  <2>1. stopped \in Seq(Events) /\ Sorted(stopped) /\ Idle(stopped)
    BY <1>2, StopTimer
  <2>2. Len(received) = SentOff
    <3>1. packet.acknum = 1 - next_seq_B
      <4>1. packet = AnswerOf(1 - next_seq_B)
        BY <1>2, <1>4 DEF IsAck
      <4> QED
        BY <4>1, StateFacts, AnswerOfProper
    <3>2. packet_sent.seqnum = next_seq_A
      BY <1>2, Answered
    <3>3. 1 - next_seq_B = next_seq_A
      BY <1>4, <3>1, <3>2 DEF IsAck
    <3> QED
      BY <1>2, <3>3, Answered
  <2>3. SentOff \in Nat /\ SentOff = Done + 1 /\ Done \in Nat
    BY <1>2, StateFacts
  <2>4. 1 - next_seq_A = SentOff % 2 /\ SentOff % 2 \in Bit
    BY <2>3, Parity DEF IInv, Bits
  <2> HIDE DEF stopped
  <2>5. CASE SomeWaiting
    <3>1. /\ next_seq_A' = 1 - next_seq_A
          /\ SendNow(buffer[head_pointer], 1 - next_seq_A, stopped)
          /\ head_pointer' = After(head_pointer)
          /\ count' = count - 1
          /\ UNCHANGED <<buffer, tail_pointer, next_seq_B>>
      BY <1>1, <1>4, <2>5 DEF A_input, NextHead, stopped
    <3>2. /\ buffer[head_pointer] = MsgData(SentOff)
          /\ head_pointer' \in 0..BUFFER_LEN - 1
          /\ count' \in 0..BUFFER_LEN
          /\ tail_pointer' = (head_pointer' + count') % BUFFER_LEN
          /\ RingHoldsBacklog'
      BY <1>1, <2>5, <3>1, RingTake DEF IInv, Counters, SomeWaiting
    <3>3. packet_sent' = PktOf(SentOff) /\ ack' = 1
      BY <2>4, <3>1, <3>2 DEF SendNow, PktOf
    <3>4. Proper(packet_sent') /\ packet_sent' \in Packet
      BY <2>3, <3>3, PktOfProper
    <3>5. /\ evlist' \in Seq(Events) /\ Sorted(evlist') /\ Pending(evlist')
          /\ \A answer : Carries(evlist', packet_sent', answer)
      <4>1. evlist' \in {StartTimer(sent) : sent \in tolayer3(stopped, "B", packet_sent')}
        BY <3>1 DEF SendNow
      <4> QED
        BY <2>1, <3>4, <4>1, SendFromA
    <3>6. SentOff' = SentOff + 1 /\ Done' = SentOff
      <4>1. SentOff' = nsim - (count - 1) /\ Done' = SentOff' - 1
        BY <1>1, <3>1, <3>3 DEF SentOff, Done
      <4>2. nsim \in Nat /\ count \in Nat /\ SentOff = nsim - count
        BY StateFacts DEF SentOff
      <4> QED
        BY <4>1, <4>2
    <3>7. TypeOK'
      BY <1>1, <2>4, <3>1, <3>2, <3>3, <3>4, <3>5
      DEF IInv, TypeOK, TimedTypeOK, Layer5TypeOK, Bit
    <3>8. Counters'
      <4>1. count' + ack' <= nsim'
        BY <1>1, <1>2, <3>1, <3>3, StateFacts DEF IInv, Counters
      <4> QED
        BY <3>2, <3>3, <4>1 DEF Counters
    <3>9. Bits'
      BY <1>1, <2>2, <2>4, <3>1, <3>3, <3>6 DEF IInv, Bits
    <3>10. NoPanic' /\ Timed' /\ Delivered'
      BY <1>1, <3>3, <3>5 DEF IInv, NoPanic, Timed, Delivered
    <3>11. Carries(evlist, packet_sent, AnswerOf(1 - next_seq_B))'
      BY <3>5
    <3> QED
      BY <3>2, <3>5, <3>7, <3>8, <3>9, <3>10, <3>11 DEF IInv
  <2>6. CASE ~SomeWaiting
    <3>1. /\ next_seq_A' = 1 - next_seq_A
          /\ ack' = 0
          /\ evlist' = stopped
          /\ UNCHANGED <<packet_sent, buffer, head_pointer, tail_pointer, count, next_seq_B>>
      BY <1>1, <1>4, <2>6 DEF A_input, stopped, ring
    <3>2. count = 0
      BY <2>6, StateFacts DEF SomeWaiting
    <3>3. SentOff' = SentOff /\ Done' = SentOff
      BY <1>1, <2>3, <3>1, StateFacts DEF SentOff, Done
    <3>4. TypeOK'
      BY <1>1, <2>1, <2>4, <3>1 DEF IInv, TypeOK, TimedTypeOK, Layer5TypeOK, Bit
    <3>5. Counters' /\ RingHoldsBacklog'
      BY <1>1, <1>2, <3>1, <3>2, StateFacts DEF IInv, Counters, RingHoldsBacklog
    <3>6. Bits'
      BY <1>1, <2>2, <2>4, <3>1, <3>3 DEF IInv, Bits
    <3>7. NoPanic' /\ Timed' /\ Delivered' /\ Sorted(evlist)'
      BY <1>1, <2>1, <3>1 DEF IInv, NoPanic, Timed, Delivered
    <3>8. Carries(evlist, packet_sent, AnswerOf(1 - next_seq_B))'
      BY <2>1, <3>1 DEF Carries, Idle, InFlightTo
    <3> QED
      BY <3>4, <3>5, <3>6, <3>7, <3>8 DEF IInv
  <2> QED
    BY <2>5, <2>6
<1> QED
  BY <1>3, <1>4

LEMMA FromLayer3ToBInv == IInv /\ FromLayer3ToB => IInv'
<1> SUFFICES ASSUME IInv, FromLayer3ToB PROVE IInv'
  OBVIOUS
<1> DEFINE packet == Head(evlist).pkt
<1>1. /\ status = "running" /\ evlist # << >> /\ InFlightTo(Head(evlist), "B")
      /\ B_input(packet, Others)
      /\ UNCHANGED <<nsim, next_seq_A, ack, packet_sent, buffer, head_pointer, tail_pointer,
                     count>>
  BY DEF FromLayer3ToB, Due, Running, B_input, InFlightTo, InFlight, protvars, senderwaits, ring
<1>2. /\ ack = 1
      /\ Others \in Seq(Events) /\ Sorted(Others) /\ TimerOnly(Others, 0)
      /\ Carries(Others, packet_sent, AnswerOf(1 - next_seq_B))
      /\ Checks(packet) => packet = packet_sent
  BY <1>1, PacketNext
<1>3. TimerOnly(Others, MaxDelay)
  BY <1>1, StateFacts, PacketNext, Taking
<1>4. SentOff' = SentOff /\ Done' = Done /\ Counters' /\ RingHoldsBacklog'
  BY <1>1 DEF IInv, SentOff, Done, Counters, RingHoldsBacklog
<1> HIDE DEF packet
<1>5. CASE ~Checks(packet)
  <2>1. /\ evlist' = Others
        /\ UNCHANGED <<status, received, next_seq_B>>
    BY <1>1, <1>5 DEF B_input, Expected, NoToLayer5, protvars
  <2>2. TypeOK'
    BY <1>1, <1>2, <2>1 DEF IInv, TypeOK, TimedTypeOK, Layer5TypeOK
  <2>3. NoPanic' /\ Bits' /\ Delivered'
    BY <1>1, <1>4, <2>1 DEF IInv, NoPanic, Bits, Delivered
  <2>4. Timed'
    BY <1>1, <1>2, <2>1, TimerOnlyPending DEF Timed
  <2>5. Sorted(evlist)' /\ Carries(evlist, packet_sent, AnswerOf(1 - next_seq_B))'
    BY <1>1, <1>2, <2>1
  <2> QED
    BY <1>4, <2>2, <2>3, <2>4, <2>5 DEF IInv
<1>6. CASE Checks(packet) /\ ~Expected(packet)
  <2>1. /\ evlist' \in tolayer3(Others, "A", AnswerOf(1 - next_seq_B))
        /\ UNCHANGED <<status, received, next_seq_B>>
    BY <1>1, <1>6 DEF B_input, NoToLayer5, protvars, AnswerOf
  <2>2. /\ evlist' \in Seq(Events) /\ Sorted(evlist') /\ Pending(evlist')
        /\ \A pkt : Carries(evlist', pkt, AnswerOf(1 - next_seq_B))
    <3>1. Proper(AnswerOf(1 - next_seq_B))
      BY StateFacts, AnswerOfProper
    <3> QED
      BY <1>2, <1>3, <2>1, <3>1, SendFromB
  <2>3. TypeOK'
    BY <1>1, <2>1, <2>2 DEF IInv, TypeOK, TimedTypeOK, Layer5TypeOK
  <2>4. NoPanic' /\ Bits' /\ Delivered'
    BY <1>1, <1>4, <2>1 DEF IInv, NoPanic, Bits, Delivered
  <2>5. Timed'
    BY <1>1, <1>2, <2>2 DEF Timed
  <2>6. Carries(evlist, packet_sent, AnswerOf(1 - next_seq_B))'
    BY <2>1, <2>2
  <2> QED
    BY <1>4, <2>2, <2>3, <2>4, <2>5, <2>6 DEF IInv
<1>7. CASE Expected(packet)
  <2>1. /\ ToLayer5(packet.payload)
        /\ evlist' \in tolayer3(Others, "A", AnswerOf(next_seq_B))
        /\ next_seq_B' = 1 - next_seq_B
    BY <1>1, <1>7 DEF B_input, AnswerOf
  <2>2. /\ Done \in Nat /\ SentOff = Done + 1 /\ SentOff <= nsim /\ next_seq_B \in Bit
        /\ received \in Seq(Payload) /\ Len(received) \in Nat
    BY <1>2, StateFacts
  <2>3. packet = PktOf(Done) /\ Len(received) = Done
    BY <1>2, <1>7, Answered DEF Expected
  <2>4. packet.payload = MsgData(Len(received)) /\ MsgData(Len(received)) \in Payload
    BY <2>2, <2>3, PktOfProper, MsgDataType
  <2>5. received' = Append(received, MsgData(Len(received))) /\ status' = status
    <3>1. ~(Len(received) >= nsim)
      BY <2>2, <2>3, StateFacts
    <3> QED
      BY <2>1, <2>4, <3>1 DEF ToLayer5
  <2>6. /\ received' \in Seq(Payload)
        /\ Len(received') = Len(received) + 1
        /\ \A j \in 1..Len(received) : received'[j] = received[j]
        /\ received'[Len(received) + 1] = MsgData(Len(received))
    BY <2>2, <2>4, <2>5, AppendProperties
  <2>7. Delivered'
    <3> SUFFICES ASSUME NEW j \in 1..Len(received') PROVE received'[j] = MsgData(j - 1)
      BY DEF Delivered
    <3>1. CASE j \in 1..Len(received)
      BY <2>6, <3>1 DEF IInv, Delivered
    <3>2. CASE j = Len(received) + 1
      BY <2>2, <2>6, <3>2
    <3> QED
      BY <2>2, <2>6, <3>1, <3>2
  <2>8. 1 - next_seq_B' = next_seq_B /\ next_seq_B' \in Bit
    BY <2>1, <2>2 DEF Bit
  <2>9. Bits'
    <3>1. next_seq_B = Done % 2 /\ Len(received') = SentOff
      BY <2>2, <2>3, <2>6 DEF IInv, Bits
    <3>2. next_seq_B' = SentOff % 2
      BY <2>1, <2>2, <3>1, Parity
    <3> QED
      BY <1>1, <1>4, <3>1, <3>2 DEF IInv, Bits
  <2>10. /\ evlist' \in Seq(Events) /\ Sorted(evlist') /\ Pending(evlist')
         /\ \A pkt : Carries(evlist', pkt, AnswerOf(next_seq_B))
    <3>1. Proper(AnswerOf(next_seq_B))
      BY <2>2, AnswerOfProper
    <3> QED
      BY <1>2, <1>3, <2>1, <3>1, SendFromB
  <2>11. TypeOK'
    BY <1>1, <2>5, <2>6, <2>8, <2>10 DEF IInv, TypeOK, TimedTypeOK, Layer5TypeOK
  <2>12. NoPanic' /\ Timed'
    BY <1>1, <1>2, <2>5, <2>10 DEF IInv, NoPanic, Timed
  <2>13. Carries(evlist, packet_sent, AnswerOf(1 - next_seq_B))'
    BY <2>8, <2>10
  <2> QED
    BY <1>4, <2>7, <2>9, <2>10, <2>11, <2>12, <2>13 DEF IInv
<1> QED
  BY <1>5, <1>6, <1>7

LEMMA TimerInterruptInv == IInv /\ TimerInterrupt => IInv'
<1> SUFFICES ASSUME IInv, TimerInterrupt PROVE IInv'
  OBVIOUS
<1>1. /\ status = "running" /\ evlist # << >> /\ IsTimer(Head(evlist))
      /\ UNCHANGED <<nsim, status, received, next_seq_A, ack, packet_sent, buffer, head_pointer,
                     tail_pointer, count, next_seq_B>>
  BY DEF TimerInterrupt, Due, Running, layer5vars, IsTimer, A_timerinterrupt, protvars,
         senderwaits, ring
<1>2. evlist \in Seq(Events) /\ Sorted(evlist) /\ ack \in {0, 1}
  BY StateFacts
<1>3. ack = 1 /\ Pending(evlist)
  <2>1. 1 \in 1..Len(evlist) /\ Head(evlist) = evlist[1]
    BY <1>1, <1>2, LenProperties
  <2>2. ~Idle(evlist)
    BY <1>1, <2>1 DEF Idle
  <2> QED
    BY <1>1, <1>2, <2>2 DEF IInv, Timed
<1>4. Others \in Seq(Events) /\ Sorted(Others) /\ Idle(Others)
  BY <1>1, <1>2, <1>3, OthersProperties, Taking
<1>5. evlist' \in {StartTimer(sent) : sent \in tolayer3(Others, "B", packet_sent)}
  BY <1>3 DEF TimerInterrupt, A_timerinterrupt
<1>6. /\ evlist' \in Seq(Events) /\ Sorted(evlist') /\ Pending(evlist')
      /\ \A answer : Carries(evlist', packet_sent, answer)
  BY <1>3, <1>4, <1>5, Answered, SendFromA
<1>7. TypeOK'
  BY <1>1, <1>6 DEF IInv, TypeOK, TimedTypeOK, Layer5TypeOK
<1>8. NoPanic' /\ Counters' /\ RingHoldsBacklog' /\ Bits' /\ Delivered'
  BY <1>1 DEF IInv, NoPanic, Counters, RingHoldsBacklog, Bits, SentOff, Done, Delivered
<1>9. Timed' /\ Carries(evlist, packet_sent, AnswerOf(1 - next_seq_B))'
  BY <1>1, <1>3, <1>6 DEF Timed
<1> QED
  BY <1>6, <1>7, <1>8, <1>9 DEF IInv

LEMMA FinishInv == IInv /\ Finish => IInv'
<1> SUFFICES ASSUME IInv, Finish PROVE IInv'
  OBVIOUS
<1>1. /\ status' = "terminated" /\ evlist # << >> /\ evlist' = Others
      /\ UNCHANGED <<nsim, received, next_seq_A, ack, packet_sent, buffer, head_pointer,
                     tail_pointer, count, next_seq_B>>
  BY DEF Finish, Terminate, protvars, senderwaits, ring
<1>2. /\ Others \in Seq(Events) /\ Sorted(Others)
      /\ Carries(Others, packet_sent, AnswerOf(1 - next_seq_B))
  BY <1>1, StateFacts, OthersProperties, TakingCarries DEF IInv
<1>3. TypeOK'
  BY <1>1, <1>2 DEF IInv, TypeOK, TimedTypeOK, Layer5TypeOK, Statuses
<1>4. NoPanic' /\ Timed' /\ Counters' /\ RingHoldsBacklog' /\ Bits' /\ Delivered'
  BY <1>1 DEF IInv, NoPanic, Timed, Counters, RingHoldsBacklog, Bits, SentOff, Done, Delivered
<1>5. Sorted(evlist)' /\ Carries(evlist, packet_sent, AnswerOf(1 - next_seq_B))'
  BY <1>1, <1>2
<1> QED
  BY <1>3, <1>4, <1>5 DEF IInv

LEMMA StutterInv == IInv /\ UNCHANGED vars => IInv'
<1> SUFFICES ASSUME IInv, UNCHANGED vars PROVE IInv'
  OBVIOUS
<1>1. UNCHANGED <<nsim, status, received, evlist, next_seq_A, ack, packet_sent, buffer,
                  head_pointer, tail_pointer, count, next_seq_B>>
  BY DEF vars, timedvars, protvars, senderwaits, ring
<1>2. TypeOK'
  BY <1>1 DEF IInv, TypeOK, TimedTypeOK, Layer5TypeOK
<1>3. NoPanic' /\ Timed' /\ Counters' /\ RingHoldsBacklog' /\ Bits' /\ Delivered'
  BY <1>1 DEF IInv, NoPanic, Timed, Counters, RingHoldsBacklog, Bits, SentOff, Done, Delivered
<1>4. Sorted(evlist)' /\ Carries(evlist, packet_sent, AnswerOf(1 - next_seq_B))'
  BY <1>1 DEF IInv
<1> QED
  BY <1>2, <1>3, <1>4 DEF IInv

LEMMA NextInv == IInv /\ [Next]_vars => IInv'
BY FromLayer5Inv, FromLayer3ToAInv, FromLayer3ToBInv, TimerInterruptInv, FinishInv,
   StutterInv DEF Next

THEOREM Invariance == Spec => []IInv
BY InitInv, NextInv, PTL DEF Spec

----------------------------------------------------------------------------
(* The properties of AltBit.                                               *)

\* Every run of the protocol keeps its types and its counters in range; above
\* all, no event of the list is ever in the past.
THEOREM TypeCorrect == Spec => []TypeOK
<1>1. IInv => TypeOK
  BY DEF IInv
<1> QED
  BY <1>1, Invariance, PTL

\* The timer goes off only when the packet or its answer has been lost or
\* damaged: whatever is in flight is the only thing there, and comes before it.
THEOREM TimeoutsNeverPremature == Spec => []NoPrematureTimeout
<1>1. IInv => NoPrematureTimeout
  <2> SUFFICES ASSUME IInv, status = "running"
               PROVE  /\ \A i, j \in DOMAIN evlist :
                           InFlight(evlist[i]) /\ InFlight(evlist[j]) => i = j
                      /\ ack = 1 <=> \E i \in DOMAIN evlist : IsTimer(evlist[i])
                      /\ \A i \in DOMAIN evlist : InFlight(evlist[i]) =>
                           \E j \in DOMAIN evlist :
                             /\ IsTimer(evlist[j])
                             /\ i < j
                             /\ InFlightTo(evlist[i], "B") =>
                                  evlist[i].evtime + MaxDelay <= evlist[j].evtime
    BY DEF NoPrematureTimeout
  <2>1. ack \in {0, 1} /\ DOMAIN evlist = 1..Len(evlist)
    BY StateFacts, LenProperties
  <2>2. CASE ack = 0
    BY <2>1, <2>2 DEF IInv, Timed, Idle
  <2>3. CASE ack = 1
    <3>1. Pending(evlist)
      BY <2>3 DEF IInv, Timed
    <3>2. PICK j \in 1..Len(evlist) : IsTimer(evlist[j])
      BY <3>1 DEF Pending, OneTimer
    <3> QED
      BY <2>1, <2>3, <3>1, <3>2 DEF Pending
  <2> QED
    BY <2>1, <2>2, <2>3
<1> QED
  BY <1>1, Invariance, PTL

\* The ring holds the backlog, in order, and never has to refuse a message.
THEOREM RingKept == Spec => []RingHoldsBacklog
<1>1. IInv => RingHoldsBacklog
  BY DEF IInv
<1> QED
  BY <1>1, Invariance, PTL

\* One bit on each side is enough for A and B to know where the other one is.
THEOREM BitsAgreed == Spec => []BitsAgree
<1>1. IInv => BitsAgree
  <2> SUFFICES ASSUME IInv PROVE BitsAgree
    OBVIOUS
  <2> DEFINE sent == nsim - count
             done == IF ack = 1 THEN sent - 1 ELSE sent
  <2>1. sent = SentOff /\ done = Done
    BY StateFacts DEF SentOff, Done
  <2>2. ASSUME NEW i \in DOMAIN evlist, InFlightTo(evlist[i], "A"), IsAck(evlist[i].pkt)
        PROVE  Len(received) = SentOff
    <3>1. i \in 1..Len(evlist) /\ Checks(evlist[i].pkt)
      BY <2>2, StateFacts, LenProperties DEF IsAck
    <3>2. evlist[i].pkt = AnswerOf(1 - next_seq_B)
      BY <2>2, <3>1 DEF IInv, Carries
    <3>3. evlist[i].pkt.acknum = 1 - next_seq_B
      BY <3>2, StateFacts, AnswerOfProper
    <3>4. CASE ack = 1
      BY <2>2, <3>3, <3>4, Answered DEF IsAck
    <3>5. CASE ack = 0
      BY <3>5, Caught
    <3> QED
      BY <3>4, <3>5, StateFacts
  <2> HIDE DEF sent, done
  <2>3. /\ Len(received) \in {done, sent}
        /\ next_seq_A = done % 2
        /\ next_seq_B = Len(received) % 2
        /\ \A i \in DOMAIN evlist :
             InFlightTo(evlist[i], "A") /\ IsAck(evlist[i].pkt) => Len(received) = sent
    BY <2>1, <2>2 DEF IInv, Bits
  <2> QED
    BY <2>3 DEF BitsAgree, sent, done
<1> QED
  BY <1>1, Invariance, PTL

\* Whatever is lost or damaged, layer 5 at B is given the messages of layer 5 at
\* A in their order, each once: with a timeout of twice the longest delay.
THEOREM DeliveryInOrder == Spec => []InOrderDelivery
<1>1. IInv => InOrderDelivery
  <2> SUFFICES ASSUME IInv PROVE InOrderDelivery
    OBVIOUS
  <2>1. Len(received) <= nsim
    BY StateFacts DEF IInv, Bits
  <2> QED
    BY <2>1 DEF IInv, Delivered, InOrderDelivery
<1> QED
  BY <1>1, Invariance, PTL

----------------------------------------------------------------------------
(* The protocol implements the service.                                    *)

LEMMA StepImplementsService == IInv /\ [Next]_vars => [Service!Next]_Service!vars
<1> SUFFICES ASSUME IInv, [Next]_vars PROVE [Service!Next]_Service!vars
  OBVIOUS
<1> USE DEF Service!Next, Service!Accept, Service!Deliver, Service!vars
<1>1. nsim \in Nat /\ nsim <= NsimMax /\ NsimMax \in Nat
  BY StateFacts, Constants
<1>2. CASE FromLayer5
  <2>1. nsim # NsimMax /\ nsim' = nsim + 1 /\ UNCHANGED received
    BY <1>2 DEF FromLayer5, Due, Running
  <2>2. nsim < NsimMax
    BY <1>1, <2>1
  <2> QED
    BY <2>1, <2>2
<1>3. CASE FromLayer3ToA \/ TimerInterrupt
  BY <1>3 DEF FromLayer3ToA, TimerInterrupt, layer5vars
<1>4. CASE FromLayer3ToB
  <2> DEFINE packet == Head(evlist).pkt
  <2>1. /\ status = "running" /\ nsim # NsimMax /\ nsim' = nsim /\ evlist # << >>
        /\ InFlightTo(Head(evlist), "B") /\ B_input(packet, Others)
    BY <1>4 DEF FromLayer3ToB, Due, Running, InFlightTo, InFlight
  <2>2. ack = 1 /\ (Checks(packet) => packet = packet_sent)
    BY <2>1, PacketNext
  <2> HIDE DEF packet
  <2>3. CASE ~Expected(packet)
    BY <2>1, <2>3 DEF B_input, NoToLayer5
  <2>4. CASE Expected(packet)
    <3>1. packet = PktOf(Done) /\ Len(received) = Done
      BY <2>2, <2>4, Answered DEF Expected
    <3>2. Done \in Nat /\ Done < nsim
      BY <2>2, StateFacts
    <3>3. received' = Append(received, MsgData(Len(received)))
      BY <2>1, <2>4, <3>1, <3>2, PktOfProper DEF B_input, ToLayer5
    <3>4. Service!MsgData(Len(received)) = MsgData(Len(received))
      BY DEF Service!MsgData, Service!Filled, MsgData, Filled
    <3>5. nsim < NsimMax
      BY <1>1, <2>1
    <3> QED
      BY <2>1, <3>1, <3>2, <3>3, <3>4, <3>5
  <2> QED
    BY <2>3, <2>4
<1>5. CASE Finish
  BY <1>5 DEF Finish, Terminate
<1>6. CASE UNCHANGED vars
  BY <1>6 DEF vars, timedvars
<1> QED
  BY <1>2, <1>3, <1>4, <1>5, <1>6 DEF Next

\* Every run of the protocol is a run of the service: a step hands over a
\* message, delivers the next one, or is not seen by the layers.
THEOREM ServiceImplemented == Spec => ImplementsService
<1>1. Init => Service!Init
  BY DEF Init, TimedInit, Layer5Init, Service!Init
<1> QED
  BY <1>1, StepImplementsService, Invariance, PTL DEF Spec, ImplementsService, Service!Spec
==============================================================================
