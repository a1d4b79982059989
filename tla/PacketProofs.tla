---------------------------- MODULE PacketProofs ----------------------------
(***************************************************************************)
(* The checksum of the link protocols tells every damaged packet from an   *)
(* intact one, and the packets and what layer 3 makes of them keep their   *)
(* types.                                                                  *)
(***************************************************************************)
EXTENDS Packets, TLAPS

\* A message and the empty payload are payloads; neither begins with 'Z'.
LEMMA MsgDataType == \A n \in Nat : MsgData(n) \in Payload /\ MsgData(n).first # 90
BY DEF MsgData, Filled, Payload

LEMMA NoDataType == NoData \in Payload /\ NoData.first # 90
BY DEF NoData, Filled, Payload

LEMMA MakePktType ==
  ASSUME NEW seqnum \in Int, NEW acknum \in Int, NEW data \in Payload
  PROVE  MakePkt(seqnum, acknum, data) \in Packet
BY DEF MakePkt, ChecksumOf, Packet, Payload

\* A packet keeps its type whatever layer 3 does to it.
LEMMA FateType ==
  ASSUME NEW p \in Packet, NEW kind \in Kinds
  PROVE  Fate(p, kind) \in Packet
<1>1. kind \in {"intact", "payload", "seqnum", "acknum"}
  BY DamageKindsAssumption DEF Kinds
<1>2. Fate(p, "intact") \in Packet
  BY DEF Fate
<1>3. Fate(p, "payload") \in Packet
  BY DEF Fate, Packet, Payload
<1>4. Fate(p, "seqnum") \in Packet
  BY DEF Fate, Packet, BadNumber
<1>5. Fate(p, "acknum") \in Packet
  BY DEF Fate, Packet, BadNumber
<1> QED
  BY <1>1, <1>2, <1>3, <1>4, <1>5

\* The checksum of abt, gbn and sr catches each kind of damage tolayer3 can
\* do (simulator.cpp:566-577) to a packet the protocols make, whose numbers
\* are below 999999 and whose payload does not begin with 'Z', and lets
\* every intact packet pass.
THEOREM ChecksumDetectsDamage ==
  ASSUME NEW seqnum \in Int, seqnum < BadNumber,
         NEW acknum \in Int, acknum < BadNumber,
         NEW data \in Payload, data.first # 90,
         NEW kind \in Kinds
  PROVE  Checks(Fate(MakePkt(seqnum, acknum, data), kind)) <=> kind = "intact"
<1> DEFINE p == MakePkt(seqnum, acknum, data)
<1>1. kind \in {"intact", "payload", "seqnum", "acknum"}
  BY DamageKindsAssumption DEF Kinds
<1>2. Checks(Fate(p, "intact"))
  BY DEF Fate, Checks, Checksum, MakePkt
<1>3. ~Checks(Fate(p, "payload"))
  BY DEF Fate, Checks, Checksum, ChecksumOf, MakePkt, Payload
<1>4. ~Checks(Fate(p, "seqnum"))
  BY DEF Fate, Checks, Checksum, ChecksumOf, MakePkt, Payload, BadNumber
<1>5. ~Checks(Fate(p, "acknum"))
  BY DEF Fate, Checks, Checksum, ChecksumOf, MakePkt, Payload, BadNumber
<1> QED
  BY <1>1, <1>2, <1>3, <1>4, <1>5
==============================================================================
