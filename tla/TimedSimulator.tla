---------------------------- MODULE TimedSimulator ----------------------------
(***************************************************************************)
(* The network simulator of pa2/src/simulator.cpp with its clock: the      *)
(* event list, in the order of time, that main takes its next event from.  *)
(*                                                                         *)
(* The time of an event is kept as what is left until it happens, so       *)
(* time_local is 0 and main subtracts the time of the event it takes from  *)
(* those of all others.  Times are whole numbers.                          *)
(*                                                                         *)
(* The operators whose comment begins with "Variant" are not the program.  *)
(***************************************************************************)
EXTENDS Packets, Layer5, SequencesExt

CONSTANTS
  MaxInterval,   \* 2 * lambda, the longest time between two messages
  MinDelay,      \* 1, the shortest time a packet takes after the one before
  MaxDelay       \* 10, the longest

ASSUME TimedSimulatorAssumption ==
  /\ MaxInterval \in Nat
  /\ MinDelay \in Nat
  /\ MaxDelay \in Nat
  /\ 1 <= MinDelay
  /\ MinDelay <= MaxDelay

VARIABLE
  evlist   \* the event list

timedvars == <<nsim, status, received, evlist>>

TimerEvent(time) == [evtime |-> time, evtype |-> "TIMER_INTERRUPT", eventity |-> "A"]
Layer5Event(time) == [evtime |-> time, evtype |-> "FROM_LAYER5", eventity |-> "A"]
PacketEvent(time, entity, packet) ==
  [evtime |-> time, evtype |-> "FROM_LAYER3", eventity |-> entity, pkt |-> packet]

Events ==
  [evtime : Nat, evtype : {"TIMER_INTERRUPT", "FROM_LAYER5"}, eventity : {"A"}]
    \union [evtime : Nat, evtype : {"FROM_LAYER3"}, eventity : {"A", "B"}, pkt : Packet]

TimedTypeOK ==
  /\ Layer5TypeOK
  /\ evlist \in Seq(Events)

IsTimer(event) == event.evtype = "TIMER_INTERRUPT"
InFlight(event) == event.evtype = "FROM_LAYER3"
InFlightTo(event, entity) == InFlight(event) /\ event.eventity = entity

----------------------------------------------------------------------------
(* The event list.                                                         *)

\* Variant: the event goes behind those of its time.
LaterOnes(list, event) == SelectInSeq(list, LAMBDA e : event.evtime < e.evtime)

\* The first event of the list that is not earlier; 0 if there is none.
NotEarlier(list, event) == SelectInSeq(list, LAMBDA e : event.evtime <= e.evtime)

\* insertevent: in front of the others of its time.
insertevent(list, event) ==
  LET place == NotEarlier(list, event)
  IN  IF place = 0 THEN Append(list, event) ELSE InsertAt(list, place, event)

\* generate_next_arrival: the lists it may leave.
generate_next_arrival(list) ==
  {insertevent(list, Layer5Event(time)) : time \in 0..MaxInterval}

\* stoptimer removes the first timer event, starttimer adds one if there is none.
stoptimer(list) ==
  LET place == SelectInSeq(list, IsTimer)
  IN  IF place = 0 THEN list ELSE RemoveAt(list, place)

starttimer(list, increment) ==
  IF SelectInSeq(list, IsTimer) # 0 THEN list ELSE insertevent(list, TimerEvent(increment))

\* The arrival time of the last packet in flight to an entity, or now.
LastTime(list, entity) ==
  LET place == SelectLastInSeq(list, LAMBDA e : InFlightTo(e, entity))
  IN  IF place = 0 THEN 0 ELSE list[place].evtime

\* tolayer3, to the other entity: the packet is lost, or arrives as it is or
\* damaged, after the ones in flight.
tolayer3(list, entity, packet) ==
  {list} \union
  {insertevent(list, PacketEvent(LastTime(list, entity) + delay, entity, Fate(packet, kind))) :
     delay \in MinDelay..MaxDelay, kind \in Kinds}

----------------------------------------------------------------------------
(* main.                                                                   *)

TimedInit ==
  /\ Layer5Init
  /\ evlist \in generate_next_arrival(<< >>)

\* An event of this type is next.
Due(evtype) == Running /\ evlist # << >> /\ Head(evlist).evtype = evtype

\* The other events, at the time of the next one.
Others ==
  [i \in 1..Len(evlist) - 1 |->
     [evlist[i + 1] EXCEPT !.evtime = @ - Head(evlist).evtime]]

\* The loop ends at the first event after the last message was handed over.
Terminate ==
  /\ status = "running"
  /\ nsim = NsimMax
  /\ evlist # << >>
  /\ status' = "terminated"
  /\ evlist' = Others
  /\ UNCHANGED <<nsim, received>>
==============================================================================
