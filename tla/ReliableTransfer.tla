--------------------------- MODULE ReliableTransfer ---------------------------
(***************************************************************************)
(* What a link protocol of pa2 promises the application layers: what is    *)
(* handed over at A comes out at B, in the order it went in, each message  *)
(* once.  A run of the simulator counts until its last message is handed   *)
(* over: nothing is promised after that.                                   *)
(***************************************************************************)
EXTENDS Messages, Sequences

CONSTANT NsimMax   \* the number of messages of the run

VARIABLES
  handed,      \* messages handed over at A
  delivered    \* messages that came out at B

vars == <<handed, delivered>>

Init ==
  /\ handed = 0
  /\ delivered = << >>

Accept ==
  /\ handed < NsimMax
  /\ handed' = handed + 1
  /\ UNCHANGED delivered

Deliver ==
  /\ handed < NsimMax
  /\ Len(delivered) < handed
  /\ delivered' = Append(delivered, MsgData(Len(delivered)))
  /\ UNCHANGED handed

Next == Accept \/ Deliver

\* The order of the service alone.
Spec == Init /\ [][Next]_vars

\* The service that also gets every message through, if the run goes on.
LiveSpec == Spec /\ WF_vars(Deliver)
==============================================================================
