--------------------------------- MODULE Chat ---------------------------------
(***************************************************************************)
(* The chat application: the server and its clients, joined by their       *)
(* connections.  Every step of a client is one that ChatServer allows, so  *)
(* the guarantees of ChatServer hold here as well, for each run of the     *)
(* server: it may be started again when it has ended.                      *)
(***************************************************************************)
EXTENDS ChatServer

VARIABLES
  client,   \* the variables of each client process
  output    \* what the server put on its connection and it has not read

C == INSTANCE ChatClient

chatVars == <<vars, client, output>>

ChatInit == Init /\ C!Init

\* What the step puts on a client's connection: an empty list is no bytes at
\* all, and nothing arrives at a process that has ended.
Arriving(p) ==
  SetToSeq({item \in out' : /\ peer[item.socket] = p
                            /\ link'[p] # "ended"
                            /\ item.kind = "list" => item.ips # << >>})

\* What a step of the server does beside: clients find it on their connections.
Delivers ==
  /\ output' = [p \in Clients |-> output[p] \o Arriving(p)]
  /\ UNCHANGED client

\* What a step of a client leaves alone.
Asides == out' = {} /\ UNCHANGED serverVars

\* The server is started once more.
Restart == Start /\ Asides /\ UNCHANGED <<client, output>>

ChatNext ==
  \/ ServerStep /\ Delivers
  \/ Restart
  \/ \E p \in Clients : C!ClientStep(p) /\ Asides

ChatSpec == ChatInit /\ [][ChatNext]_chatVars

\* The select loop looks at every descriptor that is ready, each time around; a
\* process goes on by itself, and its user leaves it time to read.
FairChatSpec ==
  /\ ChatSpec
  /\ WF_chatVars(Accept /\ Delivers)
  /\ WF_chatVars(ReceivePort /\ Delivers)
  /\ \A fd \in Fds : WF_chatVars(Serve(fd) /\ Delivers)
  /\ \A p \in Clients : WF_chatVars(C!Proceed(p) /\ Asides)

----------------------------------------------------------------------------
(* What the two guarantee together.                                        *)

\* Type correctness of the clients' variables.
ClientsTypeOK == C!ClientsOK

\* The server takes a client for logged out only while that client does so too
\* or its LOGIN is on the way: LOGOUT, LOGIN, the answer and messages in between
\* cross each other, and a client that thought itself logged in would get nothing.
SilencedOnlyByChoice ==
  \A c \in Records :
    ~c.isLoggedIn => LET p == peer[c.socket]
                     IN  client[p].isLoggedIn => Bare("LOGIN") \in Range(input[p])

\* LOGIN connects when client_lists is empty: a client that is in its loop and
\* still has its connection does not, or it would have two, of which the server
\* lists one and the client reads the other.
NoSecondConnection ==
  \A p \in Clients :
    client[p].pc = "loop" /\ client[p].client_lists = {} => link[p] \notin {"made", "up"}

\* Process p has asked for the list, with nothing before or after the request
\* in one recv, and the server has a record of its connection.
Asked(p) ==
  /\ client[p].pc = "waiting"
  /\ input[p] \in {<<Bare("LOGIN")>>, <<Bare("refresh")>>}
  /\ \E fd \in master_list : peer[fd] = p /\ IndexAt(fd) # 0

\* Such a request is answered: the client does not wait in recv for ever.
LoneRequestAnswered ==
  \A p \in Clients : Asked(p) ~> (client[p].pc # "waiting" \/ link[p] = "ended")

\* The recv of the port, in which the server serves nobody, always returns.
PortComes == accepting # 0 ~> accepting = 0

\* What the server sends to a client that is logged in is read in the end.
NothingLeftUnread ==
  \A p \in Clients :
    output[p] # << >> ~> \/ output[p] = << >>
                         \/ link[p] = "ended" \/ ~client[p].isLoggedIn

\* A connection whose process ended is closed and forgotten in the end, however
\* many commands the process had still sent.
ClosedAreForgotten ==
  \A p \in Clients : link[p] = "ended" ~> p \notin Range(peer)

----------------------------------------------------------------------------
(* What the repository's README says, and the program does not do.         *)

\* "Buffer Message delivery --> stores messages for offline clients": what SEND
\* brings for a client that is logged out is in its buffer afterwards.
OfflineMessageStored ==
  [][\A fd \in master_list : Send(fd) /\ up' =>
       LET to == IndexOf(Target(fd))
       IN  to # 0 /\ ~connectedClients[to].isLoggedIn =>
             Len(connectedClients'[to].buffer) = Len(connectedClients[to].buffer) + 1]_chatVars

\* "Server tracks message counts and login status for every client": the one
\* client of an address has a record, once it is there and has sent its port.
EveryClientTracked ==
  \A fd \in master_list \ {accepting} :
    link[peer[fd]] = "up"
      /\ (\A other \in master_list \ {fd} : HostOf[peer[other]] # HostOf[peer[fd]])
        => IndexAt(fd) # 0

\* "Server enforces message filtering based on client block lists": a client
\* whose commands have all been read gets nothing from whom it blocks.
BlocksEnforced ==
  [][\A item \in AddressedChats :
       LET p == peer[item.socket]
       IN  input[p] = << >> => item.src \notin client[p].client_block]_chatVars

\* What a step of process p takes off its connection.
Taken(p) == SubSeq(output[p], 1, Len(output[p]) - Len(output'[p]))

\* "Unicast --> send direct message to specific client": a message that has come
\* to a client is displayed, which its loop does, and not parsed as a list.
MessagesShown ==
  [][\A p \in Clients :
       client[p].pc = "waiting" /\ link'[p] # "ended" =>
         \A item \in Range(Taken(p)) : item.kind = "list"]_chatVars
==============================================================================
