------------------------------ MODULE ChatClient ------------------------------
(***************************************************************************)
(* The client processes of the chat application (pa1/src/client.cpp,       *)
(* cmdinput.cpp, clientconnect.cpp): each a loop that waits for its user   *)
(* or its connection, the user first, and waits for its connection alone   *)
(* after LOGIN and REFRESH.                                                *)
(*                                                                         *)
(* The commands that only print (AUTHOR, IP, PORT, LIST), the display of   *)
(* messages, and reading the end of the stream in the loop, which nothing  *)
(* is done about, change no state and are left out.                        *)
(***************************************************************************)
EXTENDS Connections, SequencesExt

VARIABLES
  client,   \* the variables of each process
  output    \* what the server put on its connection and it has not read

\* pc: in the loop, in connect_to_host or about to send the first LOGIN, or in
\* the recv of receiveClientDetails; server: the descriptor (-1, that of the
\* console, or the connection's); isLoggedIn of clientDetails, false before
\* anything is received; the addresses in client_lists and client_block.
Client ==
  [pc : {"loop", "login", "waiting"}, server : {"unset", "stdin", "socket"},
   isLoggedIn : BOOLEAN, client_lists : SUBSET Addresses, client_block : SUBSET Addresses]

\* The types, and what the handlers take from each other: whoever is logged in
\* has its connection in server and someone in its list; the rest of a LOGIN
\* comes only after a connect.
ClientsOK ==
  /\ client \in [Clients -> Client]
  /\ \A p \in Clients :
       /\ client[p].isLoggedIn => client[p].server = "socket"
       /\ client[p].server = "unset" => client[p].pc = "loop" /\ client[p].client_lists = {}
       /\ link[p] = "made" => client[p].pc = "login"

Init ==
  /\ client = [p \in Clients |-> [pc |-> "loop", server |-> "unset", isLoggedIn |-> FALSE,
                                  client_lists |-> {}, client_block |-> {}]]
  /\ output = [p \in Clients |-> << >>]

\* The process runs and is in its loop.
InLoop(p) == client[p].pc = "loop" /\ link[p] # "ended"

\* isLoggedInServer(clientDetails).
MayAsk(p) == InLoop(p) /\ client[p].isLoggedIn

----------------------------------------------------------------------------
(* cmdinputclient: the commands of the user.                               *)

\* Variant: LOGIN keeps the descriptor to itself, and the loop goes on with the
\* one it had.
OwnDescriptor(p) == client[p].server

\* LOGIN sets server to the connection, the new one or the one it has.
OnSocket(p) == "socket"

\* LOGIN of a client that has no list, which it takes for having no connection.
\* If no server runs, the send in connect_to_host ends it.
FirstLogin(p) ==
  /\ InLoop(p)
  /\ client[p].client_lists = {}
  /\ \/ /\ Connect(p)
        /\ client' = [client EXCEPT ![p].pc = "login", ![p].server = OnSocket(p)]
        /\ output' = [output EXCEPT ![p] = << >>]
     \/ /\ ~up
        /\ link' = [link EXCEPT ![p] = "ended"]
        /\ UNCHANGED <<up, backlog, input, commands, starts, client, output>>

\* connect_to_host goes on: the port is sent.
Introduce(p) ==
  /\ SendPort(p)
  /\ UNCHANGED <<client, output>>

\* The first LOGIN is sent after it.
SendFirstLogin(p) ==
  /\ client[p].pc = "login"
  /\ Transmit(p, Bare("LOGIN"))
  /\ client' = [client EXCEPT ![p].pc = "waiting"]
  /\ UNCHANGED <<commands, output>>

\* LOGIN of a client that has a list, whoever it finds there.
LoginAgain(p) ==
  /\ InLoop(p)
  /\ client[p].client_lists # {}
  /\ Typed
  /\ Transmit(p, Bare("LOGIN"))
  /\ client' = [client EXCEPT ![p].pc = "waiting", ![p].server = OnSocket(p)]
  /\ UNCHANGED output

\* Variant: the answer to REFRESH is left to the loop.
AnswerLater == "loop"

AnswerNow == "waiting"

Refresh(p) ==
  /\ MayAsk(p)
  /\ Typed
  /\ Transmit(p, Bare("refresh"))
  /\ client' = [client EXCEPT ![p].client_lists = {}, ![p].pc = AnswerNow]
  /\ UNCHANGED output

\* Variant: clientDetails stays as it is.
StillLoggedIn(p) == client[p].isLoggedIn

LoggedOut(p) == FALSE

Logout(p) ==
  /\ MayAsk(p)
  /\ Typed
  /\ Transmit(p, Bare("LOGOUT"))
  /\ client' = [client EXCEPT ![p].isLoggedIn = LoggedOut(p), ![p].server = "stdin"]
  /\ UNCHANGED output

\* SEND and BROADCAST do not ask whether the client is logged in; when it is
\* not, server is no connection and nothing goes out.
Send(p, ip) ==
  /\ InLoop(p)
  /\ client[p].server = "socket"
  /\ ip \in client[p].client_lists \ {HostOf[p]}
  /\ Typed
  /\ Transmit(p, [op |-> "SEND", ip |-> ip])
  /\ UNCHANGED <<client, output>>

Broadcast(p) ==
  /\ InLoop(p)
  /\ client[p].server = "socket"
  /\ Typed
  /\ Transmit(p, Bare("BROADCAST"))
  /\ UNCHANGED <<client, output>>

Block(p, ip) ==
  /\ MayAsk(p)
  /\ ip \in client[p].client_lists \ client[p].client_block
  /\ Typed
  /\ Transmit(p, [op |-> "BLOCK", ip |-> ip])
  /\ client' = [client EXCEPT ![p].client_block = @ \union {ip}]
  /\ UNCHANGED output

Unblock(p, ip) ==
  /\ MayAsk(p)
  /\ ip \in client[p].client_lists \intersect client[p].client_block
  /\ Typed
  /\ Transmit(p, [op |-> "UNBLOCK", ip |-> ip])
  /\ client' = [client EXCEPT ![p].client_block = @ \ {ip}]
  /\ UNCHANGED output

UserCommand(p) ==
  \/ FirstLogin(p) \/ LoginAgain(p) \/ Refresh(p) \/ Logout(p) \/ Broadcast(p)
  \/ \E ip \in Addresses : Send(p, ip) \/ Block(p, ip) \/ Unblock(p, ip)

----------------------------------------------------------------------------
(* What comes in.                                                          *)

\* recv returns the first items of the stream, one or several.
Receive(p, k) ==
  /\ k \in 1..Len(output[p])
  /\ output' = [output EXCEPT ![p] = SubSeq(@, k + 1, Len(@))]
  /\ UNCHANGED connVars

\* The loop reads its connection, and takes what it reads for a message.
ReadMessage(p) ==
  /\ InLoop(p)
  /\ client[p].server = "socket"
  /\ \E k \in 1..Len(output[p]) : Receive(p, k)
  /\ UNCHANGED client

\* The addresses receiveClientDetails finds: one in each line.  A message has
\* no newline at its end and runs into the line after it; the second word of
\* it is taken for an address.
Entries(items) ==
  UNION {IF items[i].kind = "chat" THEN {NoHost}
         ELSE IF i > 1 /\ items[i - 1].kind = "chat" THEN Range(Tail(items[i].ips))
         ELSE Range(items[i].ips) : i \in DOMAIN items}

\* receiveClientDetails returns with what it reads, whatever that is; if it is
\* the end of the stream, with nothing.
TakeList(p) ==
  /\ client[p].pc = "waiting" /\ link[p] # "ended"
  /\ \/ \E k \in 1..Len(output[p]) :
          /\ Receive(p, k)
          /\ client' = [client EXCEPT
               ![p].pc = "loop", ![p].isLoggedIn = TRUE,
               ![p].client_lists = @ \union Entries(SubSeq(output[p], 1, k))]
     \/ /\ output[p] = << >> /\ link[p] = "hung"
        /\ client' = [client EXCEPT ![p].pc = "loop"]
        /\ UNCHANGED <<connVars, output>>

\* EXIT, or a signal at any point.
Quit(p) ==
  /\ End(p)
  /\ output' = [output EXCEPT ![p] = << >>]
  /\ UNCHANGED client

\* The steps a process takes by itself, and all of them.
Proceed(p) == Introduce(p) \/ SendFirstLogin(p) \/ ReadMessage(p) \/ TakeList(p)
ClientStep(p) == Proceed(p) \/ UserCommand(p) \/ Quit(p)
==============================================================================
