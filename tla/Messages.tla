------------------------------- MODULE Messages -------------------------------
(***************************************************************************)
(* The messages main hands over at A and layer 5 expects at B, in          *)
(* pa2/src/simulator.cpp.  The 20 characters of a message are kept as the  *)
(* first one and the value the 19 others share: main fills a message with  *)
(* copies of one letter, and an acknowledgement is all zeroes.             *)
(***************************************************************************)
EXTENDS Integers

Payload == [first : Nat, rest : Nat]

\* 20 copies of one character.
Filled(char) == [first |-> char, rest |-> char]

\* The data main gives layer 4 with its n-th message (n counts from 0).
MsgData(n) == Filled(97 + (n % 26))
==============================================================================
