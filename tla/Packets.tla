------------------------------- MODULE Packets -------------------------------
(***************************************************************************)
(* The packets of the link simulator, their checksum and the damage layer  *)
(* 3 may do to one of them (pa2/include/simulator.h, tolayer3 in           *)
(* pa2/src/simulator.cpp, the checksum routines of abt, gbn and sr).       *)
(*                                                                         *)
(* A payload is kept as in Messages: layer 3 overwrites nothing of it but  *)
(* the first character.                                                    *)
(***************************************************************************)
EXTENDS Messages

CONSTANT
  DamageKinds   \* the kinds of damage layer 3 does in this instance

ASSUME DamageKindsAssumption == DamageKinds \subseteq {"payload", "seqnum", "acknum"}

Packet == [seqnum : Int, acknum : Int, checksum : Int, payload : Payload]

\* The payload of an acknowledgement: strncpy of "" or memset to 0.
NoData == Filled(0)

ChecksumOf(seqnum, acknum, data) == seqnum + acknum + (data.first + 19 * data.rest)

Checksum(p) == ChecksumOf(p.seqnum, p.acknum, p.payload)

\* The receiver's test that a packet arrived undamaged.
Checks(p) == p.checksum = Checksum(p)

MakePkt(seqnum, acknum, data) ==
  [seqnum |-> seqnum, acknum |-> acknum,
   checksum |-> ChecksumOf(seqnum, acknum, data), payload |-> data]

\* The number layer 3 puts in place of a sequence or acknowledgement number.
BadNumber == 999999

\* What arrives of packet p when layer 3 damages it in the given way, or
\* leaves it "intact".
Fate(p, kind) ==
  CASE kind = "intact"  -> p
    [] kind = "payload" -> [p EXCEPT !.payload = [@ EXCEPT !.first = 90]]
    [] kind = "seqnum"  -> [p EXCEPT !.seqnum = BadNumber]
    [] kind = "acknum"  -> [p EXCEPT !.acknum = BadNumber]

Kinds == {"intact"} \union DamageKinds
==============================================================================
