------------------------------ MODULE ChatServer ------------------------------
(***************************************************************************)
(* The server of the chat application (pa1/src/server.cpp, utilities.cpp): *)
(* one thread that waits in select and handles what is ready, the vector   *)
(* connectedClients with a record of every client it knows, and the        *)
(* connections to the client processes.                                    *)
(*                                                                         *)
(* The clients are open here: one that is connected and has sent its port  *)
(* may send any command at any time.  ChatClient says which it does send,  *)
(* and Chat composes the two.  This is one run of the server, to its end.   *)
(*                                                                         *)
(* The operators whose comment begins with "Variant" are not the program:  *)
(* each is a slip the code could have had, and breaks a property below.    *)
(***************************************************************************)
EXTENDS Connections, SequencesExt

CONSTANTS
  Port,      \* the port each client process was started with
  MaxFds     \* bound on the connections open at a time

ASSUME ChatServerAssumption ==
  /\ Port \in [Clients -> Nat]
  /\ MaxFds \in Nat \ {0}

VARIABLES
  connectedClients,   \* the records of clients, a sequence of ListData
  peer,               \* the client at the other end of each descriptor
  accepting,          \* the descriptor accept returned, while its port is awaited
  reset,              \* clients something was sent to after they ended
  out                 \* what the last step put on connections

serverVars == <<connectedClients, peer, accepting, reset>>
vars == <<connVars, serverVars, out>>

Fds == 1..MaxFds

\* The connections the server watches, but for the console and its own socket.
master_list == {fd \in Fds : peer[fd] # NoClient}

ListData ==
  [ip : Hosts, socket : Fds, port : Nat, BlockList : Seq(Addresses), isLoggedIn : BOOLEAN,
   num_msg_sent : Nat, num_msg_rcv : Nat,
   buffer : Seq([src_IP : Hosts \union {""}, isSend : BOOLEAN])]

\* What the server puts on a connection: the addresses of clientList, one to a
\* line, or a message of src that is for dest.
ListOf(fd, ips) == [socket |-> fd, kind |-> "list", ips |-> ips]
Chat(fd, src, dest) == [socket |-> fd, kind |-> "chat", src |-> src, dest |-> dest]

\* Type correctness of the server's state; what is put out goes to connections
\* that are open.
TypeOK ==
  /\ ConnectionsOK
  /\ connectedClients \in Seq(ListData)
  /\ peer \in [Fds -> Clients \union {NoClient}]
  /\ accepting \in master_list \union {0}
  /\ reset \subseteq {p \in Range(peer) : p # NoClient /\ link[p] = "ended"}
  /\ up => \A item \in out : item.socket \in master_list

Init ==
  /\ ConnectionsInit
  /\ connectedClients = << >>
  /\ peer = [fd \in Fds |-> NoClient]
  /\ accepting = 0
  /\ reset = {}
  /\ out = {}

----------------------------------------------------------------------------
(* The helpers of the server.                                              *)

\* The index of the first record of an address (findListData, isExist,
\* send_msg) and of a connection; 0 if there is none.
IndexOf(ip) == SelectInSeq(connectedClients, LAMBDA c : c.ip = ip)
IndexAt(fd) == SelectInSeq(connectedClients, LAMBDA c : c.socket = fd)

\* The record of a connection and, as the loops of SEND and BROADCAST find it,
\* src_ip: empty for a connection without a record.
RecordAt(fd) == connectedClients[IndexAt(fd)]
SourceIP(fd) == IF IndexAt(fd) = 0 THEN "" ELSE RecordAt(fd).ip

clientList(clients) == [i \in DOMAIN clients |-> clients[i].ip]

isBlock(ip, blockList) == ip \in Range(blockList)

\* The thread is where it can take up something new: in select, not in the recv
\* that follows accept.
AtSelect == up /\ accepting = 0

\* What the client on fd sent that the server has not read.
Unread(fd) == input[peer[fd]]

\* One recv on fd returns the first k commands the client sent.  Another
\* command glued to a bare word makes it an unknown one; glued to one with
\* arguments or a newline it is not looked at.
Reads(fd, k, op) ==
  /\ AtSelect
  /\ k \in 1..Len(Unread(fd))
  /\ Head(Unread(fd)).op = op
  /\ op \in {"refresh", "LOGOUT"} => k = 1

\* The end of the server, at EXIT, by a signal or when it is killed: nothing is
\* stored anywhere.
Ends ==
  /\ HangUp
  /\ connectedClients' = << >>
  /\ peer' = [fd \in Fds |-> NoClient]
  /\ accepting' = 0
  /\ reset' = {}

\* A handler that has read k commands on fd, puts out these items and leaves
\* these records.  The first item after the other end closed makes it reset the
\* connection; another one raises SIGPIPE, if the reset has come in.
Handle(fd, k, items, clients) ==
  \/ /\ out' = items
     /\ connectedClients' = clients
     /\ input' = [input EXCEPT ![peer[fd]] = SubSeq(@, k + 1, Len(@))]
     /\ reset' = reset \union {p \in Clients : /\ link[p] = "ended"
                                             /\ \E item \in items : peer[item.socket] = p}
     /\ accepting' = 0
     /\ UNCHANGED <<peer, up, link, backlog, commands, starts>>
  \/ LET deadly == {item \in items : peer[item.socket] \in reset}
     IN  /\ deadly # {}
         /\ \E sent \in SUBSET (items \ deadly) : out' = sent
         /\ Ends

\* What send does with a socket read from a ListData nobody filled in: one of
\* these items goes out, or none.
Anywhere(items) == {{}} \union {{item} : item \in items}

----------------------------------------------------------------------------
(* The handlers of server().                                               *)

\* The lowest descriptor that is free.
FreeFd == CHOOSE fd \in Fds \ master_list : \A n \in Fds \ master_list : fd <= n

\* accept returns; the server waits for the port.
Accept ==
  /\ AtSelect
  /\ backlog # << >>
  /\ Fds \ master_list # {}
  /\ backlog' = Tail(backlog)
  /\ peer' = [peer EXCEPT ![FreeFd] = Head(backlog)]
  /\ accepting' = FreeFd
  /\ out' = {}
  /\ UNCHANGED <<connectedClients, reset, up, link, input, commands, starts>>

\* Variant: recv of the port is tried again when the client has closed.
PortOnly(p) == input[p] # << >>

\* recv of the port returns: with the port, or with 0 as the client has closed.
PortOrEnd(p) == input[p] # << >> \/ link[p] = "ended"

\* Variant: a client is always added, known or not.
AcceptKnown(ip) == FALSE

\* isExist: whether a client of this address is in connectedClients.
isExist(ip) == IndexOf(ip) # 0

\* recv of the port.  A new address gets a record; for a known one the old
\* record is marked and the list goes to its old connection.
ReceivePort ==
  /\ accepting # 0
  /\ LET p == peer[accepting]
         ip == HostOf[p]
         fresh == [ip |-> ip, socket |-> accepting, port |-> Port[p],
                   BlockList |-> << >>, isLoggedIn |-> TRUE,
                   num_msg_sent |-> 0, num_msg_rcv |-> 0, buffer |-> << >>]
         added == Append(connectedClients, fresh)
         marked == [connectedClients EXCEPT ![IndexOf(ip)].isLoggedIn = TRUE]
     IN  /\ PortOrEnd(p)
         /\ \/ /\ input[p] = << >>
               /\ Handle(accepting, 0, {}, connectedClients)
            \/ /\ input[p] # << >> /\ ~isExist(ip)
               /\ Handle(accepting, 1, {ListOf(accepting, clientList(added))}, added)
            \/ /\ input[p] # << >> /\ isExist(ip)
               /\ Handle(accepting, 1, {ListOf(connectedClients[IndexOf(ip)].socket,
                                               clientList(marked))}, marked)

\* Variant: the record stays when its connection ends.
EraseNothing(fd) == connectedClients

\* Variant: the loop goes on with the iterator erase returned, and so past the
\* next record, which it erases as well.
EraseTwo(fd) ==
  IF IndexAt(fd) = 0 THEN connectedClients
  ELSE SubSeq(connectedClients, 1, IndexAt(fd) - 1)
         \o SubSeq(connectedClients, IndexAt(fd) + 2, Len(connectedClients))

\* The records without the first one of this connection.
Erase(fd) ==
  IF IndexAt(fd) = 0 THEN connectedClients ELSE RemoveAt(connectedClients, IndexAt(fd))

\* Variant: FD_CLR is forgotten.
KeepWatched(fd) == peer

Unwatched(fd) == [peer EXCEPT ![fd] = NoClient]

\* recv returns 0: the connection is closed and forgotten.
Disconnect(fd) ==
  /\ AtSelect
  /\ link[peer[fd]] = "ended" /\ Unread(fd) = << >>
  /\ connectedClients' = Erase(fd)
  /\ peer' = Unwatched(fd)
  /\ reset' = reset \ {peer[fd]}
  /\ out' = {}
  /\ UNCHANGED <<accepting, connVars>>

\* The first word is none the server knows.
Unknown(fd) ==
  /\ AtSelect
  /\ \E k \in 2..Len(Unread(fd)) :
       /\ Head(Unread(fd)).op \in {"refresh", "LOGOUT"}
       /\ Handle(fd, k, {}, connectedClients)

Refresh(fd) ==
  /\ Reads(fd, 1, "refresh")
  /\ Handle(fd, 1, {ListOf(fd, clientList(connectedClients))}, connectedClients)

\* The records with this one in place of the one of this connection, if there is
\* one.
ChangedAt(fd, changed) ==
  IF IndexAt(fd) = 0 THEN connectedClients
  ELSE ReplaceAt(connectedClients, IndexAt(fd), changed)

\* The address a command names.
Target(fd) == Head(Unread(fd)).ip

Block(fd) ==
  \E k \in 1..Len(Unread(fd)) :
    /\ Reads(fd, k, "BLOCK")
    /\ Handle(fd, k, {},
         ChangedAt(fd, [RecordAt(fd) EXCEPT !.BlockList = Append(@, Target(fd))]))

\* The block list without this address, but for the entries the loop skips:
\* the one after each that it erases, so every other one of a row of them.
Unblocked(blockList, ip) ==
  LET row(i) == {j \in 1..i : \A k \in j..i : blockList[k] = ip}
      kept == {i \in DOMAIN blockList : Cardinality(row(i)) % 2 = 0}
  IN  [n \in 1..Cardinality(kept) |->
         blockList[CHOOSE i \in kept : Cardinality({j \in kept : j <= i}) = n]]

Unblock(fd) ==
  \E k \in 1..Len(Unread(fd)) :
    /\ Reads(fd, k, "UNBLOCK")
    /\ Handle(fd, k, {},
         ChangedAt(fd, [RecordAt(fd) EXCEPT !.BlockList = Unblocked(@, Target(fd))]))

Logout(fd) ==
  /\ Reads(fd, 1, "LOGOUT")
  /\ Handle(fd, 1, {}, ChangedAt(fd, [RecordAt(fd) EXCEPT !.isLoggedIn = FALSE]))

\* Variant: LOGIN marks its copy of the record and not the record.
LoggedInCopy(fd) == connectedClients

LoggedIn(fd) == ChangedAt(fd, [RecordAt(fd) EXCEPT !.isLoggedIn = TRUE])

\* A connection without a record gets the list nobody knows where.
Login(fd) ==
  \E k \in 1..Len(Unread(fd)) :
    /\ Reads(fd, k, "LOGIN")
    /\ \E items \in IF IndexAt(fd) # 0 THEN {{ListOf(fd, clientList(connectedClients))}}
                    ELSE Anywhere({ListOf(to, clientList(connectedClients)) : to \in master_list}) :
         Handle(fd, k, items, LoggedIn(fd))

\* Variant: send_msg counts in a copy of the record.
CountInCopy(clients, reached) == clients

\* send_msg to the records at these indices: each message goes to the first
\* record of its address, which counts it.
MessagesTo(src, reached) ==
  {Chat(connectedClients[IndexOf(connectedClients[i].ip)].socket, src,
        connectedClients[i].ip) : i \in reached}

CountReceived(clients, reached) ==
  [j \in DOMAIN clients |->
     [clients[j] EXCEPT !.num_msg_rcv =
        @ + Cardinality({i \in reached : IndexOf(clients[i].ip) = j})]]

\* Variant: SEND does not look at the block list.
RelayUnfiltered(src, to) == connectedClients[to].isLoggedIn

\* SEND relays to a record that is logged in and does not block the source.
Relayed(src, to) ==
  /\ connectedClients[to].isLoggedIn
  /\ ~isBlock(src, connectedClients[to].BlockList)

\* A message for a client that is logged out goes to the buffer of a copy of its
\* record, and so nowhere.  An address without a record gives a ListData
\* whose isLoggedIn and socket nobody filled in.
Send(fd) ==
  \E k \in 1..Len(Unread(fd)) :
    /\ Reads(fd, k, "SEND")
    /\ LET dest == Target(fd)
           src == SourceIP(fd)
           reached == {i \in {IndexOf(dest)} \ {0} : Relayed(src, i)}
       IN  \E items \in IF IndexOf(dest) # 0 THEN {MessagesTo(src, reached)}
                       ELSE Anywhere({Chat(to, src, dest) : to \in master_list}) :
             Handle(fd, k, items,
               [i \in DOMAIN connectedClients |->
                  [CountReceived(connectedClients, reached)[i] EXCEPT
                     !.num_msg_sent = IF i = IndexAt(fd) THEN @ + 1 ELSE @]])

\* The records a broadcast is for.
Others(src) == {i \in DOMAIN connectedClients : connectedClients[i].ip # src}

\* sendFlag is never set again: nobody from the first record on that blocks the
\* source gets the broadcast.
Reached(src) ==
  {i \in Others(src) : /\ connectedClients[i].isLoggedIn
                       /\ \A j \in Others(src) : j <= i =>
                            ~isBlock(src, connectedClients[j].BlockList)}

Broadcast(fd) ==
  \E k \in 1..Len(Unread(fd)) :
    /\ Reads(fd, k, "BROADCAST")
    /\ LET src == SourceIP(fd)
           stored(i) == i \in Others(src) /\ ~connectedClients[i].isLoggedIn
       IN  Handle(fd, k, MessagesTo(src, Reached(src)),
             [i \in DOMAIN connectedClients |->
                [CountReceived(connectedClients, Reached(src))[i] EXCEPT
                   !.buffer = IF stored(i)
                              THEN Append(@, [src_IP |-> src, isSend |-> FALSE])
                              ELSE @]])

\* LIST and STATISTICS at the server sort the records by port, in place and in
\* any order among equals.
Sort ==
  /\ AtSelect
  /\ connectedClients' \in
       {clients \in SetToSeqs(Range(connectedClients)) :
          \A i, j \in DOMAIN clients :
            i < j => clients[i].port <= clients[j].port}
  /\ out' = {}
  /\ UNCHANGED <<connVars, peer, accepting, reset>>

\* EXIT at the server's console; a process may as well be killed in a recv.
Exit ==
  /\ up
  /\ Ends
  /\ out' = {}

\* What the loop does for a connection that select reports as ready.
Serve(fd) ==
  /\ fd \in master_list
  /\ \/ Disconnect(fd) \/ Unknown(fd) \/ Refresh(fd) \/ Block(fd) \/ Unblock(fd)
     \/ Logout(fd) \/ Login(fd) \/ Send(fd) \/ Broadcast(fd)

ServerStep ==
  \/ Accept \/ ReceivePort \/ Sort \/ Exit
  \/ \E fd \in Fds : Serve(fd)

\* What a client does to its connection.
ClientStep(p) ==
  /\ \/ Connect(p)
     \/ SendPort(p)
     \/ Typed /\ \E command \in [op : Targeted, ip : Addresses]
                                   \union [op : Ops \ Targeted, ip : {NoHost}] :
                   Transmit(p, command)
     \/ End(p)
  /\ out' = {}
  /\ UNCHANGED serverVars

Next == ServerStep \/ \E p \in Clients : ClientStep(p)

Spec == Init /\ [][Next]_vars

----------------------------------------------------------------------------
(* What the server guarantees, whatever its clients send.                  *)

Records == Range(connectedClients)

\* The messages put out to an address the server had a record of: the ones to
\* other addresses go where an unset socket says.
AddressedChats ==
  {item \in out' : item.kind = "chat" /\ IndexOf(item.dest) # 0}

\* Each record stands for one address and one connection, and at the other end
\* of that connection is a process of that address; so IndexOf and IndexAt,
\* the two ways the code searches, name the same client.  Descriptors are used
\* again, so this takes the erasure in the EOF branch and isExist in accept.
RecordsMatchConnections ==
  /\ \A c \in Records : c.socket \in master_list /\ HostOf[peer[c.socket]] = c.ip
  /\ \A i, j \in DOMAIN connectedClients :
       i # j => /\ connectedClients[i].ip # connectedClients[j].ip
                /\ connectedClients[i].socket # connectedClients[j].socket

\* A message for an address arrives at a process on that address, and names as
\* its source the address of the process that sent it or none, through all
\* reuse of descriptors.
RightlyAddressed ==
  /\ \A item \in AddressedChats :
       peer[item.socket] \in {p \in Clients : HostOf[p] = item.dest}
  /\ \A fd \in master_list : Serve(fd) =>
       \A item \in AddressedChats : item.src \in {HostOf[peer[fd]], ""}
NoMisdelivery == [][RightlyAddressed]_vars

\* num_msg_rcv of a record counts what is put out to its client, one by one,
\* and nothing else; num_msg_sent counts its SENDs and not its BROADCASTs.
CountedRightly ==
  \A old \in Records, new \in Records' :
    old.ip = new.ip /\ old.socket = new.socket =>
      /\ new.num_msg_rcv = old.num_msg_rcv
           + Cardinality({item \in AddressedChats : item.dest = old.ip})
      /\ new.num_msg_sent = old.num_msg_sent
           + (IF Send(old.socket) THEN 1 ELSE 0)
StatisticsFollowRelays == [][CountedRightly]_vars

\* The records as ChatService has them: nothing of their order or descriptors.
Members ==
  [ip \in {c.ip : c \in Records} |->
     LET c == connectedClients[IndexOf(ip)]
     IN  [process |-> peer[c.socket], isLoggedIn |-> c.isLoggedIn,
          blocked |-> Range(c.BlockList)]]

\* Of the messages the last step put out, those to members.
Mail ==
  {[src |-> item.src, dest |-> item.dest] :
     item \in {chat \in out : chat.kind = "chat" /\ IndexOf(chat.dest) # 0}}

S == INSTANCE ChatService WITH
       Requests <- Command, members <- Members, asked <- input, mail <- Mail

\* The server implements the service: what it keeps of a client changes exactly as
\* the command says that it reads of that client; the order of the records means
\* nothing; a SEND goes to the client it names if, and only if, that one is logged
\* in at the server and does not block the source there, and a BROADCAST to none
\* but such, whatever was handled in between.
ImplementsService == S!Spec

----------------------------------------------------------------------------
(* What the repository's README says of the server, and it does not do.    *)

\* "Broadcast -->Send messages to all currently logged-in clients": all that do
\* not block the source, that is.
BroadcastReachesAll ==
  [][\A fd \in master_list : Broadcast(fd) /\ up' =>
       \A c \in Records :
         c.ip # SourceIP(fd) /\ c.isLoggedIn /\ ~isBlock(SourceIP(fd), c.BlockList)
           => Chat(c.socket, SourceIP(fd), c.ip) \in out']_vars
==============================================================================
