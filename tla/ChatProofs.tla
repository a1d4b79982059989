------------------------------ MODULE ChatProofs ------------------------------
(***************************************************************************)
(* What the server and the clients of pa1 guarantee together, for every    *)
(* set of addresses, processes and descriptors, and for every number of    *)
(* commands and of restarts of the server.                                 *)
(*                                                                         *)
(* The invariant of the server is kept by whatever leaves its variables    *)
(* and the backlog alone, so it holds here as well.  To it come the types  *)
(* of the clients, and what the commands of a client that the server has   *)
(* not read yet tell of its state.                                         *)
(***************************************************************************)
EXTENDS Chat, ChatServerProofs

----------------------------------------------------------------------------
(* The server among its own clients.                                       *)

ServerInv == IInv /\ OneConnection

\* A step that leaves the server alone and takes no connection away.
LEMMA Bystander ==
  ASSUME ServerInv, UNCHANGED <<serverVars, backlog>>, out' = {}, ConnectionsOK',
         \A q \in Clients :
           /\ link[q] = "ended" => link'[q] = "ended"
           /\ link'[q] \in {"none", "hung"} => link[q] \in {"none", "hung"}
  PROVE  ServerInv'
<1>1. UNCHANGED <<connectedClients, peer, accepting, reset, backlog>>
  BY DEF serverVars
<1>2. reset' \subseteq {q \in Range(peer) : q # NoClient /\ link'[q] = "ended"}
  <2> SUFFICES ASSUME NEW q \in reset
               PROVE  q \in Range(peer) /\ q # NoClient /\ link'[q] = "ended"
    BY <1>1
  <2>1. q \in Range(peer) /\ q # NoClient /\ link[q] = "ended"
    BY DEF ServerInv, IInv, TypeOK
  <2>2. q \in Clients
    BY <2>1 DEF ServerInv, IInv, TypeOK, Range
  <2> QED
    BY <2>1, <2>2
<1>3. TypeOK'
  BY <1>1, <1>2 DEF ServerInv, IInv, TypeOK, master_list
<1>4. RecordsMatchConnections' /\ Unrecorded'
  BY <1>1 DEF ServerInv, IInv, RecordsMatchConnections, Unrecorded, Records, master_list
<1>5. OneConnection'
  BY <1>1 DEF ServerInv, OneConnection
<1> QED
  BY <1>3, <1>4, <1>5 DEF ServerInv, IInv

\* The steps of a client in its own words and in those of ChatServer.
LEMMA SameTransmit ==
  ASSUME NEW p, NEW command
  PROVE  C!Transmit(p, command) <=> Transmit(p, command)
BY DEF C!Transmit, Transmit

LEMMA TransmitLinks ==
  ASSUME ServerInv, NEW p \in Clients, NEW command \in Command, Transmit(p, command)
  PROVE  /\ link' \in [Clients -> Links] /\ input' \in [Clients -> Seq(Command)]
         /\ \A q \in Clients :
              /\ link[q] = "ended" => link'[q] = "ended"
              /\ link'[q] \in {"none", "hung"} => link[q] \in {"none", "hung"}
<1>1. /\ link \in [Clients -> Links] /\ input \in [Clients -> Seq(Command)]
  BY DEF ServerInv, IInv, TypeOK, ConnectionsOK
<1>2. Append(input[p], command) \in Seq(Command)
  BY <1>1, AppendProperties
<1>3. input' \in [Clients -> Seq(Command)]
  BY <1>1, <1>2 DEF Transmit
<1> QED
  BY <1>1, <1>3 DEF Transmit, Links

\* Most steps of a client are steps of the open clients of ChatServer.
LEMMA OpenStep ==
  ASSUME ServerInv, NEW p \in Clients, ClientStep(p)
  PROVE  ServerInv'
BY ClientStepInv, OneConnectionClient DEF ServerInv

LEMMA ClientServerInv ==
  ASSUME ServerInv, NEW p \in Clients, C!ClientStep(p), Asides
  PROVE  ServerInv'
<1>1. /\ up \in BOOLEAN /\ link \in [Clients -> Links] /\ backlog \in Seq(Clients)
      /\ input \in [Clients -> Seq(Command)]
      /\ commands \in 0..MaxCommands /\ starts \in 0..MaxStarts
  BY DEF ServerInv, IInv, TypeOK, ConnectionsOK
<1>2. ASSUME UNCHANGED connVars
      PROVE  ServerInv'
  <2>1. ConnectionsOK'
    BY <1>1, <1>2 DEF connVars, ConnectionsOK
  <2> QED
    BY <1>2, <2>1, Bystander DEF connVars, Asides
<1>3. ASSUME NEW op \in Ops, NEW ip \in Addresses, op \notin Targeted => ip = NoHost,
             C!Typed, C!Transmit(p, [op |-> op, ip |-> ip])
      PROVE  ServerInv'
  <2>1. [op |-> op, ip |-> ip] \in [op : Targeted, ip : Addresses]
                                     \union [op : Ops \ Targeted, ip : {NoHost}]
    BY <1>3
  <2>2. Typed /\ Transmit(p, [op |-> op, ip |-> ip])
    BY <1>3, SameTransmit DEF C!Typed, Typed
  <2>3. ClientStep(p)
    BY <2>1, <2>2 DEF ClientStep, Asides
  <2> QED
    BY <2>3, OpenStep
<1>4. CASE C!FirstLogin(p)
  <2>1. CASE C!Connect(p)
    <3>1. ClientStep(p)
      BY <2>1 DEF C!Connect, Connect, ClientStep, Asides
    <3> QED
      BY <3>1, OpenStep
  <2>2. CASE /\ link' = [link EXCEPT ![p] = "ended"]
             /\ UNCHANGED <<up, backlog, input, commands, starts, client, output>>
    <3>1. ConnectionsOK'
      BY <1>1, <2>2 DEF ConnectionsOK, Links
    <3>2. \A q \in Clients :
            /\ link[q] = "ended" => link'[q] = "ended"
            /\ link'[q] \in {"none", "hung"} => link[q] \in {"none", "hung"}
      BY <1>1, <2>2
    <3> QED
      BY <2>2, <3>1, <3>2, Bystander DEF Asides
  <2> QED
    BY <1>4, <2>1, <2>2 DEF C!FirstLogin
<1>5. CASE C!Introduce(p)
  <2>1. ClientStep(p)
    BY <1>5 DEF C!Introduce, C!SendPort, SendPort, C!Bare, Bare, ClientStep, Asides
  <2> QED
    BY <2>1, OpenStep
<1>6. CASE C!SendFirstLogin(p)
  <2>1. Transmit(p, Bare("LOGIN")) /\ UNCHANGED commands
    BY <1>6, SameTransmit DEF C!SendFirstLogin, C!Bare, Bare
  <2>2. Bare("LOGIN") \in Command
    BY DEF Bare, Command, Ops, Targeted
  <2>3. /\ link' \in [Clients -> Links] /\ input' \in [Clients -> Seq(Command)]
        /\ \A q \in Clients :
             /\ link[q] = "ended" => link'[q] = "ended"
             /\ link'[q] \in {"none", "hung"} => link[q] \in {"none", "hung"}
    BY <2>1, <2>2, TransmitLinks
  <2>4. UNCHANGED <<up, backlog, starts>>
    BY <2>1 DEF Transmit
  <2>5. ConnectionsOK'
    BY <1>1, <2>1, <2>3, <2>4 DEF ConnectionsOK
  <2> QED
    BY <2>3, <2>4, <2>5, Bystander DEF Asides
<1>7. CASE C!ReadMessage(p) \/ C!TakeList(p)
  <2>1. UNCHANGED connVars
    BY <1>7 DEF C!ReadMessage, C!TakeList, C!Receive, C!connVars, connVars
  <2> QED
    BY <1>2, <2>1
<1>8. CASE C!LoginAgain(p)
  BY <1>3, <1>8 DEF C!LoginAgain, C!Bare, Ops, Targeted, Addresses
<1>9. CASE C!Refresh(p)
  BY <1>3, <1>9 DEF C!Refresh, C!Bare, Ops, Targeted, Addresses
<1>10. CASE C!Logout(p)
  BY <1>3, <1>10 DEF C!Logout, C!Bare, Ops, Targeted, Addresses
<1>11. CASE C!Broadcast(p)
  BY <1>3, <1>11 DEF C!Broadcast, C!Bare, Ops, Targeted, Addresses
<1>12. ASSUME NEW ip \in Addresses, C!Send(p, ip) \/ C!Block(p, ip) \/ C!Unblock(p, ip)
       PROVE  ServerInv'
  BY <1>3, <1>12 DEF C!Send, C!Block, C!Unblock, Ops, Targeted
<1>13. CASE C!Quit(p)
  <2>1. ClientStep(p)
    BY <1>13 DEF C!Quit, C!End, End, ClientStep, Asides
  <2> QED
    BY <2>1, OpenStep
<1>14. C!Addresses = Addresses
  BY DEF C!Addresses, Addresses
<1> QED
  BY <1>4, <1>5, <1>6, <1>7, <1>8, <1>9, <1>10, <1>11, <1>12, <1>13, <1>14
  DEF C!ClientStep, C!Proceed, C!UserCommand

----------------------------------------------------------------------------
(* What the handlers of the server read, put out and leave.                *)

Items ==
  [socket : Fds, kind : {"list"}, ips : Seq(Hosts)]
    \union [socket : Fds, kind : {"chat"}, src : Hosts \union {""}, dest : Addresses]

\* Whether the record at index i is logged in when k commands on fd are handled.
Presence(fd, k, i) ==
  IF connectedClients[i].socket # fd THEN connectedClients[i].isLoggedIn
  ELSE IF Head(Unread(fd)).op = "LOGIN" THEN TRUE
  ELSE IF Head(Unread(fd)).op = "LOGOUT" /\ k = 1 THEN FALSE
  ELSE connectedClients[i].isLoggedIn

\* The same records, logged in or not as the commands want them.
Present(fd, k, clients) ==
  /\ Len(clients) = Len(connectedClients)
  /\ \A i \in 1..Len(connectedClients) :
       /\ clients[i].socket = connectedClients[i].socket
       /\ clients[i].isLoggedIn = Presence(fd, k, i)

Handles(fd, k, items, clients) ==
  /\ k \in 1..Len(Unread(fd))
  /\ Handle(fd, k, items, clients)
  /\ items \subseteq Items /\ IsFiniteSet(items)
  /\ Present(fd, k, clients)

LEMMA ClientListType ==
  ASSUME NEW clients \in Seq(ListData)
  PROVE  clientList(clients) \in Seq(Hosts)
<1>1. PICK n \in Nat : n = Len(clients)
  BY LenProperties
<1>2. clientList(clients) = [i \in 1..n |-> clients[i].ip]
  BY <1>1, LenProperties DEF clientList
<1>3. \A i \in 1..n : clients[i].ip \in Hosts
  BY <1>1, RecordType
<1> QED
  BY <1>2, <1>3, IsASeq

LEMMA ListItem ==
  ASSUME NEW fd \in Fds, NEW clients \in Seq(ListData)
  PROVE  ListOf(fd, clientList(clients)) \in Items
BY ClientListType DEF ListOf, Items

LEMMA AnywhereItems ==
  ASSUME NEW all, all \subseteq Items, NEW items \in Anywhere(all)
  PROVE  items \subseteq Items /\ IsFiniteSet(items)
BY FS_EmptySet, FS_Singleton DEF Anywhere

LEMMA FiniteIndices ==
  ASSUME NEW n \in Nat, NEW I \in SUBSET (1..n)
  PROVE  IsFiniteSet(I)
<1>1. IsFiniteSet(1..n)
  BY FS_Interval
<1> QED
  BY <1>1, FS_Subset

LEMMA MessageItems ==
  ASSUME IInv, NEW src \in Hosts \union {""}, NEW reached \in SUBSET (1..Len(connectedClients))
  PROVE  MessagesTo(src, reached) \subseteq Items /\ IsFiniteSet(MessagesTo(src, reached))
<1> DEFINE message(i) == Chat(connectedClients[i].socket, src, connectedClients[i].ip)
           f == [i \in reached |-> message(i)]
<1>1. MessagesTo(src, reached) = {message(i) : i \in reached}
  BY MessagesToProperties
<1>2. connectedClients \in Seq(ListData) /\ Len(connectedClients) \in Nat
  BY LenProperties DEF IInv, TypeOK
<1>3. \A i \in reached : message(i) \in Items
  <2> SUFFICES ASSUME NEW i \in reached PROVE message(i) \in Items
    OBVIOUS
  <2>1. connectedClients[i].socket \in Fds /\ connectedClients[i].ip \in Hosts
    BY <1>2, RecordType
  <2> QED
    BY <2>1 DEF Items, Chat, Addresses
<1> HIDE DEF message
<1>4. f \in Surjection(reached, {message(i) : i \in reached})
  BY DEF Surjection
<1>5. IsFiniteSet(reached)
  BY <1>2, FiniteIndices
<1>6. IsFiniteSet({message(i) : i \in reached})
  BY <1>4, <1>5, FS_Surjection
<1> QED
  BY <1>1, <1>3, <1>6

\* A handler that changes nobody's presence.
LEMMA PresentUnchanged ==
  ASSUME IInv, NEW fd \in master_list, NEW k,
         Head(Unread(fd)).op # "LOGIN", Head(Unread(fd)).op = "LOGOUT" => k # 1,
         NEW clients, Len(clients) = Len(connectedClients),
         \A i \in 1..Len(connectedClients) :
           /\ clients[i].socket = connectedClients[i].socket
           /\ clients[i].isLoggedIn = connectedClients[i].isLoggedIn
  PROVE  Present(fd, k, clients)
BY DEF Present, Presence

\* One that changes at most the record of its connection.
LEMMA PresentChanged ==
  ASSUME IInv, NEW fd \in master_list, NEW k, NEW changed,
         IndexAt(fd) # 0 => /\ changed \in ListData
                            /\ changed.ip = RecordAt(fd).ip
                            /\ changed.socket = RecordAt(fd).socket
                            /\ changed.isLoggedIn = Presence(fd, k, IndexAt(fd))
  PROVE  Present(fd, k, ChangedAt(fd, changed))
<1>1. /\ connectedClients \in Seq(ListData) /\ Match(connectedClients)
      /\ Len(connectedClients) \in Nat
  BY Serving
<1>2. /\ SameClients(ChangedAt(fd, changed), connectedClients)
      /\ \A i \in 1..Len(connectedClients) :
           ChangedAt(fd, changed)[i] =
             IF IndexAt(fd) = i THEN changed ELSE connectedClients[i]
  BY <1>1, ChangedAtProperties
<1>3. ASSUME NEW i \in 1..Len(connectedClients)
      PROVE  ChangedAt(fd, changed)[i].isLoggedIn = Presence(fd, k, i)
  <2>1. CASE IndexAt(fd) = i
    BY <1>2, <1>3, <2>1
  <2>2. CASE IndexAt(fd) # i
    <3>1. connectedClients[i].socket # fd
      BY <1>1, <2>2, IndexUnique
    <3> QED
      BY <1>2, <2>2, <3>1 DEF Presence
  <2> QED
    BY <2>1, <2>2
<1> QED
  BY <1>2, <1>3 DEF SameClients, Present

LEMMA Handling ==
  ASSUME IInv, NEW fd \in master_list, Serve(fd), ~Disconnect(fd)
  PROVE  \E k, items, clients : Handles(fd, k, items, clients)
<1> DEFINE old == RecordAt(fd)
<1>1. /\ connectedClients \in Seq(ListData) /\ Len(connectedClients) \in Nat
      /\ fd \in Fds /\ Len(Unread(fd)) \in Nat
      /\ IndexAt(fd) # 0 => /\ IndexAt(fd) \in 1..Len(connectedClients) /\ old \in ListData
                            /\ old.isLoggedIn = connectedClients[IndexAt(fd)].isLoggedIn
                            /\ connectedClients[IndexAt(fd)].socket = fd
  BY Serving, IndexAtProperties DEF RecordAt
<1>2. {} \subseteq Items /\ IsFiniteSet({})
  BY FS_EmptySet
<1>3. SourceIP(fd) \in Hosts \union {""}
  BY <1>1, SourceIPProperties
<1>4. CASE Unknown(fd)
  <2>1. PICK k \in 2..Len(Unread(fd)) :
          Head(Unread(fd)).op \in {"refresh", "LOGOUT"} /\ Handle(fd, k, {}, connectedClients)
    BY <1>4 DEF Unknown
  <2>2. Present(fd, k, connectedClients)
    BY <2>1, PresentUnchanged
  <2> QED
    BY <1>1, <1>2, <2>1, <2>2 DEF Handles
<1>5. CASE Refresh(fd)
  <2> DEFINE items == {ListOf(fd, clientList(connectedClients))}
  <2>1. /\ Head(Unread(fd)).op = "refresh" /\ 1 \in 1..Len(Unread(fd))
        /\ Handle(fd, 1, items, connectedClients)
    BY <1>5 DEF Refresh, Reads
  <2>2. Present(fd, 1, connectedClients)
    BY <2>1, PresentUnchanged
  <2>3. items \subseteq Items /\ IsFiniteSet(items)
    BY <1>1, ListItem, FS_Singleton
  <2> HIDE DEF items
  <2> QED
    BY <2>1, <2>2, <2>3 DEF Handles
<1>6. ASSUME NEW k \in 1..Len(Unread(fd)), NEW changed,
             Head(Unread(fd)).op # "LOGIN", Head(Unread(fd)).op # "LOGOUT",
             IndexAt(fd) # 0 => /\ changed \in ListData
                                /\ changed.ip = old.ip /\ changed.socket = old.socket
                                /\ changed.isLoggedIn = old.isLoggedIn,
             Handle(fd, k, {}, ChangedAt(fd, changed))
      PROVE  Handles(fd, k, {}, ChangedAt(fd, changed))
  <2>1. IndexAt(fd) # 0 => changed.isLoggedIn = Presence(fd, k, IndexAt(fd))
    BY <1>1, <1>6 DEF Presence
  <2>2. Present(fd, k, ChangedAt(fd, changed))
    BY <1>6, <2>1, PresentChanged
  <2> QED
    BY <1>2, <1>6, <2>2 DEF Handles
<1>7. CASE Block(fd)
  <2> DEFINE changed == [old EXCEPT !.BlockList = Append(@, Target(fd))]
  <2>1. PICK k \in 1..Len(Unread(fd)) :
          Reads(fd, k, "BLOCK") /\ Handle(fd, k, {}, ChangedAt(fd, changed))
    BY <1>7 DEF Block
  <2>2. Target(fd) \in Addresses
    BY <2>1, TargetType DEF Targeted
  <2>3. IndexAt(fd) # 0 => /\ changed \in ListData
                           /\ changed.ip = old.ip /\ changed.socket = old.socket
                           /\ changed.isLoggedIn = old.isLoggedIn
    <3>1. IndexAt(fd) # 0 => /\ old \in ListData /\ old.BlockList \in Seq(Addresses)
                             /\ Append(old.BlockList, Target(fd)) \in Seq(Addresses)
      BY <1>1, <2>2, AppendProperties DEF ListData
    <3> HIDE DEF old
    <3> QED
      BY <3>1 DEF ListData
  <2> HIDE DEF changed
  <2> QED
    BY <1>6, <2>1, <2>3 DEF Reads
<1>8. CASE Unblock(fd)
  <2> DEFINE changed == [old EXCEPT !.BlockList = Unblocked(@, Target(fd))]
  <2>1. PICK k \in 1..Len(Unread(fd)) :
          Reads(fd, k, "UNBLOCK") /\ Handle(fd, k, {}, ChangedAt(fd, changed))
    BY <1>8 DEF Unblock
  <2>3. IndexAt(fd) # 0 => /\ changed \in ListData
                           /\ changed.ip = old.ip /\ changed.socket = old.socket
                           /\ changed.isLoggedIn = old.isLoggedIn
    <3>1. IndexAt(fd) # 0 => /\ old \in ListData /\ old.BlockList \in Seq(Addresses)
                             /\ Unblocked(old.BlockList, Target(fd)) \in Seq(Addresses)
      BY <1>1, UnblockedProperties DEF ListData
    <3> HIDE DEF old
    <3> QED
      BY <3>1 DEF ListData
  <2> HIDE DEF changed
  <2> QED
    BY <1>6, <2>1, <2>3 DEF Reads
<1>9. CASE Logout(fd)
  <2> DEFINE changed == [old EXCEPT !.isLoggedIn = FALSE]
  <2>1. /\ Head(Unread(fd)).op = "LOGOUT" /\ 1 \in 1..Len(Unread(fd))
        /\ Handle(fd, 1, {}, ChangedAt(fd, changed))
    BY <1>9 DEF Logout, Reads
  <2>2. IndexAt(fd) # 0 => /\ changed \in ListData
                           /\ changed.ip = old.ip /\ changed.socket = old.socket
                           /\ changed.isLoggedIn = FALSE
    BY <1>1 DEF ListData
  <2>3. IndexAt(fd) # 0 => FALSE = Presence(fd, 1, IndexAt(fd))
    BY <1>1, <2>1 DEF Presence
  <2> HIDE DEF changed
  <2>4. Present(fd, 1, ChangedAt(fd, changed))
    BY <2>2, <2>3, PresentChanged
  <2> QED
    BY <1>2, <2>1, <2>4 DEF Handles
<1>10. CASE Login(fd)
  <2> DEFINE list(to) == ListOf(to, clientList(connectedClients))
             changed == [old EXCEPT !.isLoggedIn = TRUE]
  <2>1. PICK k \in 1..Len(Unread(fd)),
             items \in IF IndexAt(fd) # 0 THEN {{list(fd)}}
                       ELSE Anywhere({list(to) : to \in master_list}) :
          Reads(fd, k, "LOGIN") /\ Handle(fd, k, items, ChangedAt(fd, changed))
    BY <1>10 DEF Login, LoggedIn
  <2>2. \A to \in Fds : list(to) \in Items
    BY <1>1, ListItem
  <2> HIDE DEF list
  <2>3. {list(to) : to \in master_list} \subseteq Items
    BY <2>2 DEF master_list
  <2>4. items \subseteq Items /\ IsFiniteSet(items)
    <3>1. CASE items = {list(fd)}
      BY <1>1, <2>2, <3>1, FS_Singleton
    <3>2. CASE items \in Anywhere({list(to) : to \in master_list})
      BY <2>3, <3>2, AnywhereItems
    <3> QED
      BY <2>1, <3>1, <3>2
  <2>5. IndexAt(fd) # 0 => /\ changed \in ListData
                           /\ changed.ip = old.ip /\ changed.socket = old.socket
                           /\ changed.isLoggedIn = TRUE
    BY <1>1 DEF ListData
  <2>6. IndexAt(fd) # 0 => TRUE = Presence(fd, k, IndexAt(fd))
    BY <1>1, <2>1 DEF Presence, Reads
  <2> HIDE DEF changed
  <2>7. Present(fd, k, ChangedAt(fd, changed))
    BY <2>5, <2>6, PresentChanged
  <2> QED
    BY <2>1, <2>4, <2>7 DEF Handles
<1>11. CASE Send(fd)
  <2>1. PICK k, items, clients, reached :
          /\ reached \in SUBSET (1..Len(connectedClients))
          /\ Sending(fd, k, items, clients, reached)
    BY <1>11, SendProperties
  <2>2. /\ Reads(fd, k, "SEND") /\ Handle(fd, k, items, clients)
        /\ Len(clients) = Len(connectedClients)
        /\ \A i \in 1..Len(connectedClients) : SameStanding(clients[i], connectedClients[i])
        /\ \/ items = MessagesTo(SourceIP(fd), reached)
           \/ items \in Anywhere({Chat(to, SourceIP(fd), Target(fd)) : to \in master_list})
    BY <2>1 DEF Sending
  <2>3. items \subseteq Items /\ IsFiniteSet(items)
    <3>1. CASE items = MessagesTo(SourceIP(fd), reached)
      BY <1>3, <2>1, <3>1, MessageItems
    <3>2. CASE items \in Anywhere({Chat(to, SourceIP(fd), Target(fd)) : to \in master_list})
      <4>1. Target(fd) \in Addresses
        BY <2>2, TargetType DEF Targeted
      <4>2. \A to \in Fds, src \in Hosts \union {""}, dest \in Addresses :
              Chat(to, src, dest) \in Items
        BY DEF Chat, Items
      <4>3. {Chat(to, SourceIP(fd), Target(fd)) : to \in master_list} \subseteq Items
        BY <1>3, <4>1, <4>2 DEF master_list
      <4> QED
        BY <3>2, <4>3, AnywhereItems
    <3> QED
      BY <2>2, <3>1, <3>2
  <2>4. Present(fd, k, clients)
    BY <2>2, PresentUnchanged DEF Reads, SameStanding
  <2> QED
    BY <2>2, <2>3, <2>4 DEF Handles, Reads
<1>12. CASE Broadcast(fd)
  <2>1. PICK k, clients, reached :
          /\ reached \in SUBSET (1..Len(connectedClients))
          /\ Broadcasting(fd, k, clients, reached)
    BY <1>12, BroadcastProperties
  <2>2. /\ Reads(fd, k, "BROADCAST")
        /\ Handle(fd, k, MessagesTo(SourceIP(fd), reached), clients)
        /\ Len(clients) = Len(connectedClients)
        /\ \A i \in 1..Len(connectedClients) : SameStanding(clients[i], connectedClients[i])
    BY <2>1 DEF Broadcasting
  <2>3. /\ MessagesTo(SourceIP(fd), reached) \subseteq Items
        /\ IsFiniteSet(MessagesTo(SourceIP(fd), reached))
    BY <1>3, <2>1, MessageItems
  <2>4. Present(fd, k, clients)
    BY <2>2, PresentUnchanged DEF Reads, SameStanding
  <2> QED
    BY <2>2, <2>3, <2>4 DEF Handles, Reads
<1> QED
  BY <1>4, <1>5, <1>7, <1>8, <1>9, <1>10, <1>11, <1>12 DEF Serve

\* The recv of the port: whoever is logged out afterwards was before.
Receives(k, items, clients) ==
  /\ k \in 0..Len(Unread(accepting))
  /\ Handle(accepting, k, items, clients)
  /\ items \subseteq Items /\ IsFiniteSet(items)
  /\ \A i \in 1..Len(clients) : ~clients[i].isLoggedIn =>
       /\ i \in 1..Len(connectedClients)
       /\ clients[i].socket = connectedClients[i].socket
       /\ ~connectedClients[i].isLoggedIn

LEMMA Receiving ==
  ASSUME IInv, ReceivePort
  PROVE  /\ accepting \in master_list
         /\ \E k, items, clients : Receives(k, items, clients)
<1> DEFINE p == peer[accepting]
           ip == HostOf[p]
           fresh == [ip |-> ip, socket |-> accepting, port |-> Port[p],
                     BlockList |-> << >>, isLoggedIn |-> TRUE,
                     num_msg_sent |-> 0, num_msg_rcv |-> 0, buffer |-> << >>]
           added == Append(connectedClients, fresh)
           marked == [connectedClients EXCEPT ![IndexOf(ip)].isLoggedIn = TRUE]
           first == {ListOf(accepting, clientList(added))}
           again == {ListOf(connectedClients[IndexOf(ip)].socket, clientList(marked))}
<1>1. accepting \in master_list
  BY DEF ReceivePort, IInv, TypeOK
<1>2. /\ connectedClients \in Seq(ListData) /\ Match(connectedClients)
      /\ Len(connectedClients) \in Nat
      /\ accepting \in Fds /\ p \in Clients /\ ip \in Hosts
      /\ Unread(accepting) = input[p] /\ Unread(accepting) \in Seq(Command)
      /\ Len(Unread(accepting)) \in Nat
  BY <1>1, Serving, Constants DEF Unread
<1>3. input[p] # << >> => 1 \in 0..Len(Unread(accepting))
  BY <1>2, EmptySeq
<1>4. CASE Handle(accepting, 0, {}, connectedClients)
  <2>1. Receives(0, {}, connectedClients)
    BY <1>2, <1>4, FS_EmptySet DEF Receives
  <2> QED
    BY <1>1, <2>1
<1>5. CASE input[p] # << >> /\ ~isExist(ip) /\ Handle(accepting, 1, first, added)
  <2>1. fresh \in ListData /\ fresh.isLoggedIn = TRUE
    BY <1>2, EmptySeq, ChatServerAssumption DEF ListData
  <2> HIDE DEF fresh
  <2>2. /\ added \in Seq(ListData) /\ Len(added) = Len(connectedClients) + 1
        /\ \A i \in 1..Len(connectedClients) : added[i] = connectedClients[i]
        /\ added[Len(connectedClients) + 1] = fresh
    BY <1>2, <2>1, AppendProperties
  <2>3. first \subseteq Items /\ IsFiniteSet(first)
    BY <1>2, <2>2, ListItem, FS_Singleton
  <2> HIDE DEF added, first
  <2>4. ASSUME NEW i \in 1..Len(added), ~added[i].isLoggedIn
        PROVE  /\ i \in 1..Len(connectedClients)
               /\ added[i].socket = connectedClients[i].socket
               /\ ~connectedClients[i].isLoggedIn
    <3>1. i \in 1..Len(connectedClients) \/ i = Len(connectedClients) + 1
      BY <1>2, <2>2
    <3>2. i # Len(connectedClients) + 1
      BY <2>1, <2>2, <2>4
    <3> QED
      BY <2>2, <2>4, <3>1, <3>2
  <2>5. Receives(1, first, added)
    BY <1>3, <1>5, <2>3, <2>4 DEF Receives
  <2> QED
    BY <1>1, <2>5
<1>6. CASE input[p] # << >> /\ isExist(ip) /\ Handle(accepting, 1, again, marked)
  <2>1. IndexOf(ip) \in 1..Len(connectedClients)
    BY <1>2, <1>6, IndexOfProperties DEF isExist
  <2> DEFINE at == IndexOf(ip)
  <2>2. PICK old \in ListData : old = connectedClients[at]
    BY <1>2, <2>1, ElementOfSeq
  <2> DEFINE new == [old EXCEPT !.isLoggedIn = TRUE]
  <2>3. new \in ListData /\ new.isLoggedIn = TRUE
    BY DEF ListData
  <2>4. marked = [connectedClients EXCEPT ![at] = new]
    BY <2>2
  <2>5. connectedClients[at].socket \in Fds
    BY <1>2, <2>1, RecordType
  <2> HIDE DEF new, at, marked
  <2>6. /\ marked \in Seq(ListData)
        /\ Len(marked) = Len(connectedClients)
        /\ \A i \in 1..Len(connectedClients) :
             marked[i] = IF i = at THEN new ELSE connectedClients[i]
    BY <1>2, <2>1, <2>3, <2>4, ExceptSeq DEF at
  <2>7. again \subseteq Items /\ IsFiniteSet(again)
    BY <2>5, <2>6, ListItem, FS_Singleton DEF at
  <2> HIDE DEF again
  <2>8. \A i \in 1..Len(marked) : ~marked[i].isLoggedIn =>
          /\ i \in 1..Len(connectedClients)
          /\ marked[i].socket = connectedClients[i].socket
          /\ ~connectedClients[i].isLoggedIn
    BY <2>3, <2>6
  <2>9. Receives(1, again, marked)
    BY <1>3, <1>6, <2>7, <2>8 DEF Receives
  <2> QED
    BY <1>1, <2>9
<1> QED
  BY <1>4, <1>5, <1>6 DEF ReceivePort

\* Whatever the step is, what it puts out is well formed and finite.
LEMMA OutItems ==
  ASSUME IInv, ServerStep
  PROVE  out' \subseteq Items /\ IsFiniteSet(out')
<1>1. CASE out' = {}
  BY <1>1, FS_EmptySet
<1>2. ASSUME NEW fd, NEW k, NEW items, NEW clients, Handle(fd, k, items, clients),
             items \subseteq Items, IsFiniteSet(items)
      PROVE  out' \subseteq Items /\ IsFiniteSet(out')
  <2>1. out' \subseteq items
    BY <1>2, HandleOut
  <2> QED
    BY <1>2, <2>1, FS_Subset
<1>3. CASE ReceivePort
  BY <1>2, <1>3, Receiving DEF Receives
<1>4. ASSUME NEW fd \in Fds, Serve(fd), ~Disconnect(fd)
      PROVE  out' \subseteq Items /\ IsFiniteSet(out')
  <2>1. fd \in master_list
    BY <1>4 DEF Serve
  <2>2. PICK k, items, clients : Handles(fd, k, items, clients)
    BY <1>4, <2>1, Handling
  <2> QED
    BY <1>2, <2>2 DEF Handles
<1>5. CASE Accept \/ Sort \/ Exit \/ \E fd \in Fds : Disconnect(fd)
  BY <1>1, <1>5 DEF Accept, Sort, Exit, Disconnect
<1> QED
  BY <1>3, <1>4, <1>5 DEF ServerStep

\* And it leaves the connections and takes some commands off their front, or ends.
Reading ==
  /\ UNCHANGED link
  /\ \A p \in Clients : \E k \in 0..Len(input[p]) :
       input'[p] = SubSeq(input[p], k + 1, Len(input[p]))

LEMMA ServerReads ==
  ASSUME IInv, ServerStep, ~Ends
  PROVE  Reading
<1>1. \A p \in Clients : input[p] \in Seq(Command) /\ Len(input[p]) \in Nat
  BY LenProperties DEF IInv, TypeOK, ConnectionsOK
<1>2. \A p \in Clients : SubSeq(input[p], 0 + 1, Len(input[p])) = input[p]
  BY <1>1, SubSeqFull
<1>3. \A p \in Clients : 0 \in 0..Len(input[p])
  BY <1>1
<1>4. ASSUME UNCHANGED <<link, input>>
      PROVE  Reading
  BY <1>2, <1>3, <1>4 DEF Reading
<1>5. ASSUME NEW fd \in master_list, NEW k \in 0..Len(Unread(fd)), NEW items, NEW clients,
             Handle(fd, k, items, clients)
      PROVE  Reading
  <2>1. peer[fd] \in Clients /\ input \in [Clients -> Seq(Command)]
    BY Serving DEF IInv, TypeOK, ConnectionsOK
  <2>2. /\ UNCHANGED link
        /\ input' = [input EXCEPT ![peer[fd]] = SubSeq(@, k + 1, Len(@))]
    BY <1>5 DEF Handle
  <2>3. ASSUME NEW p \in Clients
        PROVE  \E n \in 0..Len(input[p]) : input'[p] = SubSeq(input[p], n + 1, Len(input[p]))
    <3>1. CASE p = peer[fd]
      <4>1. input'[p] = SubSeq(input[p], k + 1, Len(input[p])) /\ k \in 0..Len(input[p])
        BY <2>1, <2>2, <3>1 DEF Unread
      <4> QED
        BY <4>1
    <3>2. CASE p # peer[fd]
      <4>1. input'[p] = input[p]
        BY <2>1, <2>2, <3>2
      <4> QED
        BY <1>2, <1>3, <4>1
    <3> QED
      BY <3>1, <3>2
  <2> QED
    BY <2>2, <2>3 DEF Reading
<1>6. CASE Accept \/ Sort \/ \E fd \in Fds : Disconnect(fd)
  BY <1>4, <1>6 DEF Accept, Sort, Disconnect, connVars
<1>7. CASE ReceivePort
  BY <1>5, <1>7, Receiving DEF Receives
<1>8. ASSUME NEW fd \in Fds, Serve(fd), ~Disconnect(fd)
      PROVE  Reading
  <2>1. fd \in master_list
    BY <1>8 DEF Serve
  <2>2. PICK k, items, clients : Handles(fd, k, items, clients)
    BY <1>8, <2>1, Handling
  <2>3. k \in 0..Len(Unread(fd))
    <3>1. Len(Unread(fd)) \in Nat
      BY <2>1, Serving
    <3> QED
      BY <2>2, <3>1 DEF Handles
  <2> QED
    BY <1>5, <2>1, <2>2, <2>3 DEF Handles
<1> QED
  BY <1>6, <1>7, <1>8 DEF ServerStep, Exit

----------------------------------------------------------------------------
(* What is on its way to the clients.                                      *)

\* A finite set as a sequence is one of its elements.
LEMMA SetToSeqProperties ==
  ASSUME NEW T, IsFiniteSet(T)
  PROVE  SetToSeq(T) \in Seq(T)
<1>1. PICK n \in Nat : n = Cardinality(T)
  BY FS_CardinalityType
<1>2. \E f \in [1..n -> T] : IsInjective(f)
  BY <1>1, FS_CardinalityType DEF ExistsBijection, Bijection, Injection, IsInjective
<1>3. SetToSeq(T) \in [1..n -> T]
  BY <1>1, <1>2 DEF SetToSeq
<1>4. SetToSeq(T) = [i \in 1..n |-> SetToSeq(T)[i]] /\ \A i \in 1..n : SetToSeq(T)[i] \in T
  BY <1>3
<1>5. [i \in 1..n |-> SetToSeq(T)[i]] \in Seq(T)
  BY <1>4, IsASeq
<1> QED
  BY <1>4, <1>5

\* No list on its way to a client is empty.
Filled(items) == \A i \in 1..Len(items) : items[i].kind = "list" => items[i].ips # << >>

LEMMA ArrivingProperties ==
  ASSUME IInv, ServerStep, NEW p \in Clients
  PROVE  Arriving(p) \in Seq(Items) /\ Filled(Arriving(p))
<1> DEFINE T == {item \in out' : /\ peer[item.socket] = p
                                 /\ link'[p] # "ended"
                                 /\ item.kind = "list" => item.ips # << >>}
<1>1. T \subseteq Items /\ IsFiniteSet(T)
  BY OutItems, FS_Subset
<1>2. \A item \in T : item.kind = "list" => item.ips # << >>
  OBVIOUS
<1>3. Arriving(p) = SetToSeq(T)
  BY DEF Arriving
<1> HIDE DEF T
<1>4. Arriving(p) \in Seq(T)
  BY <1>1, <1>3, SetToSeqProperties
<1>5. \A i \in 1..Len(Arriving(p)) : Arriving(p)[i] \in T
  BY <1>4, ElementOfSeq
<1> QED
  BY <1>1, <1>2, <1>4, <1>5 DEF Filled

----------------------------------------------------------------------------
(* What is proved of the server holds among its clients, and over all its  *)
(* runs.                                                                   *)

LEMMA RestartServerInv ==
  ASSUME ServerInv, Restart
  PROVE  ServerInv'
<1>1. UNCHANGED <<serverVars, backlog, link>> /\ out' = {}
  BY DEF Restart, Start, Asides
<1>2. ConnectionsOK'
  <2>1. ConnectionsOK
    BY DEF ServerInv, IInv, TypeOK
  <2>2. starts \in 0..MaxStarts /\ starts > 0 => starts - 1 \in 0..MaxStarts
    BY ConnectionsAssumption
  <2> QED
    BY <2>1, <2>2 DEF Restart, Start, ConnectionsOK
<1> QED
  BY <1>1, <1>2, Bystander

LEMMA ChatServerInv == ServerInv /\ [ChatNext]_chatVars => ServerInv'
<1> SUFFICES ASSUME ServerInv, [ChatNext]_chatVars PROVE ServerInv'
  OBVIOUS
<1>1. CASE ServerStep \/ UNCHANGED vars
  BY <1>1, NextInv, OneConnectionNext DEF ServerInv, Next
<1>2. CASE UNCHANGED chatVars
  BY <1>1, <1>2 DEF chatVars
<1> QED
  BY <1>1, <1>2, RestartServerInv, ClientServerInv DEF ChatNext

LEMMA ChatServerInvariance == ChatSpec => []ServerInv
<1>1. ChatInit => ServerInv
  BY InitInv, OneConnectionInit DEF ChatInit, ServerInv
<1> QED
  BY <1>1, ChatServerInv, PTL DEF ChatSpec

\* The server and its connections keep their types, and what is put out goes to
\* connections the server watches.
THEOREM ChatTypeCorrect == ChatSpec => []TypeOK
<1>1. ServerInv => TypeOK
  BY DEF ServerInv, IInv
<1> QED
  BY <1>1, ChatServerInvariance, PTL

\* Each record of the server stands for one address and one connection, with a
\* process of that address at its other end, in every run of the server.
THEOREM ChatRecordsMatched == ChatSpec => []RecordsMatchConnections
<1>1. ServerInv => RecordsMatchConnections
  BY DEF ServerInv, IInv
<1> QED
  BY <1>1, ChatServerInvariance, PTL

\* A client connects, sends its port or a command, ends, or leaves its connection
\* as it is.
LEMMA ClientDoes ==
  ASSUME NEW p \in Clients, C!ClientStep(p)
  PROVE  \/ Connect(p) \/ SendPort(p)
         \/ \E command \in Command : Transmit(p, command)
         \/ UNCHANGED <<backlog, input>> /\ link' \in {link, [link EXCEPT ![p] = "ended"]}
<1>1. ASSUME NEW op \in Ops, NEW ip \in Addresses, op \notin Targeted => ip = NoHost,
             C!Transmit(p, [op |-> op, ip |-> ip])
      PROVE  \E command \in Command : Transmit(p, command)
  <2>1. [op |-> op, ip |-> ip] \in Command
    BY <1>1 DEF Command
  <2> QED
    BY <1>1, <2>1, SameTransmit
<1>2. C!Addresses = Addresses /\ \A op : C!Bare(op) = [op |-> op, ip |-> NoHost]
  BY DEF C!Addresses, Addresses, C!Bare
<1>3. CASE C!FirstLogin(p)
  BY <1>3 DEF C!FirstLogin, C!Connect, Connect
<1>4. CASE C!Introduce(p)
  BY <1>4 DEF C!Introduce, C!SendPort, SendPort, C!Bare, Bare
<1>5. CASE C!ReadMessage(p) \/ C!TakeList(p) \/ C!Quit(p)
  BY <1>5 DEF C!ReadMessage, C!TakeList, C!Quit, C!Receive, C!End, C!connVars
<1>6. ASSUME NEW op \in {"LOGIN", "refresh", "LOGOUT", "BROADCAST"}, C!Transmit(p, C!Bare(op))
      PROVE  \E command \in Command : Transmit(p, command)
  BY <1>1, <1>2, <1>6 DEF Ops, Targeted, Addresses
<1>7. CASE C!SendFirstLogin(p) \/ C!LoginAgain(p) \/ C!Refresh(p) \/ C!Logout(p)
           \/ C!Broadcast(p)
  BY <1>6, <1>7 DEF C!SendFirstLogin, C!LoginAgain, C!Refresh, C!Logout, C!Broadcast
<1>8. ASSUME NEW ip \in Addresses, C!Send(p, ip) \/ C!Block(p, ip) \/ C!Unblock(p, ip)
      PROVE  \E command \in Command : Transmit(p, command)
  BY <1>1, <1>8 DEF C!Send, C!Block, C!Unblock, Ops, Targeted
<1> QED
  BY <1>2, <1>3, <1>4, <1>5, <1>7, <1>8 DEF C!ClientStep, C!Proceed, C!UserCommand

\* What it sends is added to what the server has to read.
LEMMA ClientSends ==
  ASSUME NEW p, \/ Connect(p) \/ SendPort(p)
                \/ \E command \in Command : Transmit(p, command)
                \/ UNCHANGED input
  PROVE  \/ UNCHANGED input
         \/ \E request \in Command : input' = [input EXCEPT ![p] = Append(@, request)]
<1>1. Bare("port") \in Command
  BY DEF Bare, Command
<1> QED
  BY <1>1 DEF Connect, SendPort, Transmit

LEMMA AppendLonger ==
  ASSUME NEW T, NEW s \in Seq(T), NEW e
  PROVE  Len(Append(s, e)) = Len(s) + 1
<1>1. s \in Seq(T \union {e}) /\ e \in T \union {e}
  BY SeqDef
<1> QED
  BY <1>1, AppendProperties

\* What is not a step of the server leaves its records, and adds to what it has
\* to read if it does anything to that.
LEMMA Beside ==
  ASSUME ServerInv, Restart \/ \E p \in Clients : C!ClientStep(p) /\ Asides
  PROVE  /\ out' = {} /\ connectedClients' = connectedClients
         /\ \A q \in Clients : Len(input'[q]) >= Len(input[q])
<1>1. out' = {} /\ connectedClients' = connectedClients
  BY DEF Restart, Asides, serverVars
<1>2. \A q \in Clients : input[q] \in Seq(Command) /\ Len(input[q]) \in Nat
  BY LenProperties DEF ServerInv, IInv, TypeOK, ConnectionsOK
<1>3. CASE UNCHANGED input
  BY <1>1, <1>2, <1>3
<1>4. ASSUME NEW p \in Clients, NEW e, input' = [input EXCEPT ![p] = Append(@, e)], IInv'
      PROVE  \A q \in Clients : Len(input'[q]) >= Len(input[q])
  <2>1. input' = [q \in Clients |-> IF q = p THEN Append(input[p], e) ELSE input[q]]
    BY <1>4 DEF ServerInv, IInv, TypeOK, ConnectionsOK
  <2>2. Len(Append(input[p], e)) = Len(input[p]) + 1
    BY <1>2, AppendLonger
  <2>3. ASSUME NEW q \in Clients
        PROVE  Len(input'[q]) = IF q = p THEN Len(input[q]) + 1 ELSE Len(input[q])
    BY <2>1, <2>2
  <2> QED
    BY <1>2, <2>3
<1>5. ASSUME NEW p \in Clients, C!ClientStep(p), Asides
      PROVE  UNCHANGED input \/ \E e : input' = [input EXCEPT ![p] = Append(@, e)]
  BY <1>5, ClientDoes, ClientSends
<1>6. CASE Restart
  BY <1>1, <1>3, <1>6 DEF Restart, Start
<1>7. ASSUME NEW p \in Clients, C!ClientStep(p), Asides
      PROVE  \A q \in Clients : Len(input'[q]) >= Len(input[q])
  <2>1. IInv'
    BY <1>7, ClientServerInv DEF ServerInv
  <2> QED
    BY <1>3, <1>4, <1>5, <1>7, <2>1
<1> QED
  BY <1>1, <1>6, <1>3, <1>7

\* A message goes to a process on the address it is for, and names as its source
\* the address it comes from or none.
THEOREM ChatDeliveredRightly == ChatSpec => NoMisdelivery
<1>1. ServerInv /\ [ChatNext]_chatVars => [RightlyAddressed]_vars
  <2> SUFFICES ASSUME ServerInv, [ChatNext]_chatVars
               PROVE  RightlyAddressed \/ UNCHANGED vars
    OBVIOUS
  <2>1. CASE ServerStep
    BY <2>1, RightlyAddressedStep DEF ServerInv, Next
  <2>2. CASE Restart \/ \E p \in Clients : C!ClientStep(p) /\ Asides
    BY <2>2, Beside DEF RightlyAddressed, AddressedChats
  <2>3. CASE UNCHANGED chatVars
    BY <2>3 DEF chatVars
  <2> QED
    BY <2>1, <2>2, <2>3 DEF ChatNext
<1> QED
  BY <1>1, ChatServerInvariance, PTL DEF ChatSpec, NoMisdelivery

\* num_msg_rcv of a record counts the messages put out to its client, and
\* num_msg_sent its SENDs.
THEOREM ChatStatisticsFollow == ChatSpec => StatisticsFollowRelays
<1>1. ServerInv /\ ServerInv' /\ [ChatNext]_chatVars => [CountedRightly]_vars
  <2> SUFFICES ASSUME ServerInv, ServerInv', [ChatNext]_chatVars
               PROVE  CountedRightly \/ UNCHANGED vars
    OBVIOUS
  <2>1. CASE ServerStep
    BY <2>1, CountedRightlyStep DEF ServerInv, Next
  <2>2. CASE Restart \/ \E p \in Clients : C!ClientStep(p) /\ Asides
    <3>1. /\ out' = {} /\ connectedClients' = connectedClients
          /\ \A q \in Clients : Len(input'[q]) >= Len(input[q])
      BY <2>2, Beside
    <3>2. AddressedChats = {} /\ Records' \subseteq Records
      BY <3>1 DEF AddressedChats, Records
    <3>3. CASE Ends
      <4>1. Records' = {}
        BY <3>3, EmptySeq DEF Ends, Records, Range
      <4> QED
        BY <4>1 DEF CountedRightly
    <3> QED
      BY <3>1, <3>2, <3>3, QuietCounts DEF ServerInv
  <2>3. CASE UNCHANGED chatVars
    BY <2>3 DEF chatVars
  <2> QED
    BY <2>1, <2>2, <2>3 DEF ChatNext
<1> QED
  BY <1>1, ChatServerInvariance, PTL DEF ChatSpec, StatisticsFollowRelays

\* A port is the first thing the server reads from each of its clients.
THEOREM ChatPortsFirst == ChatSpec => []PortFirst
<1>1. ChatInit => PortFirst
  BY PortFirstInit DEF ChatInit
<1>2. ServerInv /\ PortFirst /\ [ChatNext]_chatVars => PortFirst'
  <2> SUFFICES ASSUME ServerInv, PortFirst, [ChatNext]_chatVars PROVE PortFirst'
    OBVIOUS
  <2>1. CASE ServerStep
    BY <2>1, PortFirstServer DEF ServerInv
  <2>2. CASE Restart \/ UNCHANGED chatVars
    <3>1. UNCHANGED <<link, backlog, input, peer, accepting>>
      BY <2>2 DEF Restart, Start, Asides, serverVars, chatVars, vars, connVars
    <3> QED
      BY <3>1 DEF PortFirst, Awaited
  <2>3. ASSUME NEW p \in Clients, C!ClientStep(p), Asides
        PROVE  PortFirst'
    <3>1. UNCHANGED <<peer, accepting>>
      BY <2>3 DEF Asides, serverVars
    <3> QED
      BY <2>3, <3>1, ClientDoes, PortFirstClient DEF ServerInv
  <2> QED
    BY <2>1, <2>2, <2>3 DEF ChatNext
<1> QED
  BY <1>1, <1>2, ChatServerInvariance, PTL DEF ChatSpec

\* The server implements the service of ChatService among its clients: what they
\* send is what they ask for, and its restarts are none of the service.
THEOREM ChatImplementsService == ChatSpec => ImplementsService
<1>1. ServerInv /\ PortFirst /\ ServerInv' /\ [ChatNext]_chatVars
        => [S!Next]_<<Members, input, Mail>>
  <2> SUFFICES ASSUME ServerInv, PortFirst, ServerInv', [ChatNext]_chatVars
               PROVE  [S!Next]_<<Members, input, Mail>>
    OBVIOUS
  <2>1. CASE ServerStep \/ UNCHANGED vars
    BY <2>1, NextImplements DEF ServerInv, RefinementInv, Next
  <2>2. CASE Restart
    <3>1. /\ UNCHANGED <<connectedClients, peer, input>>
          /\ \A item \in out' : item.kind # "chat"
      BY <2>2 DEF Restart, Start, Asides, serverVars
    <3>2. Members' = Members
      BY <3>1, MembersUnchanged DEF ServerInv
    <3>3. S!Next
      BY <3>1, <3>2, Unnoticed
    <3> QED
      BY <3>3
  <2>3. ASSUME NEW p \in Clients, C!ClientStep(p), Asides
        PROVE  [S!Next]_<<Members, input, Mail>>
    <3>1. UNCHANGED <<connectedClients, peer>> /\ out' = {}
      BY <2>3 DEF Asides, serverVars
    <3>2. \/ UNCHANGED input
          \/ \E request \in Command : input' = [input EXCEPT ![p] = Append(@, request)]
      BY <2>3, ClientDoes, ClientSends
    <3>3. S!Next
      BY <3>1, <3>2, ClientImplements DEF ServerInv
    <3> QED
      BY <3>3
  <2>4. CASE UNCHANGED chatVars
    BY <2>1, <2>4 DEF chatVars
  <2> QED
    BY <2>1, <2>2, <2>3, <2>4 DEF ChatNext
<1>2. ChatInit => S!Init
  BY InitImplements DEF ChatInit
<1> QED
  BY <1>1, <1>2, ChatServerInvariance, ChatPortsFirst, PTL
  DEF ChatSpec, ImplementsService, S!Spec

----------------------------------------------------------------------------
(* What a client knows, with what it has written and has still to read.    *)

\* A client that has logged out and asked for nothing since.
Away(c) == c.pc = "loop" /\ ~c.isLoggedIn /\ c.server = "stdin"

\* What is left unread of the commands a client wrote, which is in state c: after
\* a LOGOUT it writes nothing but a LOGIN.
Written(c, commandsLeft) ==
  \A i \in 1..Len(commandsLeft) : commandsLeft[i].op = "LOGOUT" =>
    IF i = Len(commandsLeft) THEN Away(c) ELSE commandsLeft[i + 1].op = "LOGIN"

\* The state c of a client, with its connection, what it wrote and what it has
\* to read.
Own(c, connection, written, unread) ==
  /\ c \in C!Client /\ connection \in Links
  /\ written \in Seq(Command) /\ unread \in Seq(Items)
  /\ c.isLoggedIn => c.server = "socket"
  /\ c.server = "unset" => c.pc = "loop" /\ c.client_lists = {}
  /\ connection = "made" => c.pc = "login"
  /\ c.pc # "loop" => c.server = "socket"
  /\ c.pc = "loop" /\ c.client_lists = {} => connection \notin {"made", "up"}
  /\ Filled(unread)
  /\ connection \in {"none", "made", "hung"} => written = << >>
  /\ Written(c, written)

OwnOf(p) == Own(client[p], link[p], input[p], output[p])

ClientsInv ==
  /\ client \in [Clients -> C!Client] /\ output \in [Clients -> Seq(Items)]
  /\ \A p \in Clients : OwnOf(p)

LEMMA OwnInit == ChatInit => ClientsInv
<1> SUFFICES ASSUME ChatInit PROVE ClientsInv
  OBVIOUS
<1> DEFINE c == [pc |-> "loop", server |-> "unset", isLoggedIn |-> FALSE,
                 client_lists |-> {}, client_block |-> {}]
<1>1. c \in C!Client
  BY DEF C!Client
<1>2. /\ client = [p \in Clients |-> c] /\ output = [p \in Clients |-> << >>]
      /\ link = [p \in Clients |-> "none"] /\ input = [p \in Clients |-> << >>]
  BY DEF ChatInit, C!Init, Init, ConnectionsInit
<1>3. << >> \in Seq(Items) /\ << >> \in Seq(Command) /\ 1..Len(<< >>) = {}
  BY EmptySeq
<1>4. Own(c, "none", << >>, << >>)
  BY <1>1, <1>3 DEF Own, Filled, Written, Links
<1> HIDE DEF c
<1> QED
  BY <1>1, <1>2, <1>3, <1>4 DEF ClientsInv, OwnOf

----------------------------------------------------------------------------
(* What the server does to it.                                             *)

LEMMA FilledConcat ==
  ASSUME NEW s \in Seq(Items), NEW t \in Seq(Items), Filled(s), Filled(t)
  PROVE  s \o t \in Seq(Items) /\ Filled(s \o t)
<1>1. /\ s \o t \in Seq(Items) /\ Len(s \o t) = Len(s) + Len(t)
      /\ \A i \in 1..Len(s) + Len(t) : (s \o t)[i] = IF i <= Len(s) THEN s[i] ELSE t[i - Len(s)]
  BY ConcatProperties
<1>2. Len(s) \in Nat /\ Len(t) \in Nat
  BY LenProperties
<1>3. ASSUME NEW i \in 1..Len(s) + Len(t)
      PROVE  (s \o t)[i].kind = "list" => (s \o t)[i].ips # << >>
  <2>1. CASE i <= Len(s)
    <3>1. i \in 1..Len(s) /\ (s \o t)[i] = s[i]
      BY <1>1, <1>2, <1>3, <2>1
    <3> QED
      BY <3>1 DEF Filled
  <2>2. CASE ~(i <= Len(s))
    <3>1. i - Len(s) \in 1..Len(t) /\ (s \o t)[i] = t[i - Len(s)]
      BY <1>1, <1>2, <1>3, <2>2
    <3> QED
      BY <3>1 DEF Filled
  <2> QED
    BY <2>1, <2>2
<1> QED
  BY <1>1, <1>3 DEF Filled

\* What is left of a sequence when its first k elements are taken.
LEMMA SuffixProperties ==
  ASSUME NEW T, NEW s \in Seq(T), NEW k \in 0..Len(s)
  PROVE  /\ SubSeq(s, k + 1, Len(s)) \in Seq(T)
         /\ Len(SubSeq(s, k + 1, Len(s))) = Len(s) - k
         /\ \A i \in 1..Len(s) - k : /\ SubSeq(s, k + 1, Len(s))[i] = s[k + i]
                                     /\ k + i \in 1..Len(s)
<1>1. Len(s) \in Nat /\ k \in Nat /\ k <= Len(s)
  BY LenProperties
<1>2. /\ k + 1 \in Int /\ Len(s) \in Int
      /\ \A j \in k + 1..Len(s) : s[j] \in T
  BY <1>1, ElementOfSeq
<1>3. /\ SubSeq(s, k + 1, Len(s)) \in Seq(T)
      /\ Len(SubSeq(s, k + 1, Len(s))) =
           IF k + 1 <= Len(s) THEN Len(s) - (k + 1) + 1 ELSE 0
      /\ \A i \in 1..Len(s) - (k + 1) + 1 :
           SubSeq(s, k + 1, Len(s))[i] = s[(k + 1) + i - 1]
  BY <1>2, SubSeqProperties
<1>4. Len(SubSeq(s, k + 1, Len(s))) = Len(s) - k
  BY <1>1, <1>3
<1>5. ASSUME NEW i \in 1..Len(s) - k
      PROVE  SubSeq(s, k + 1, Len(s))[i] = s[k + i] /\ k + i \in 1..Len(s)
  <2>1. (k + 1) + i - 1 = k + i /\ i \in 1..Len(s) - (k + 1) + 1 /\ k + i \in 1..Len(s)
    BY <1>1, <1>5
  <2> QED
    BY <1>3, <2>1
<1> QED
  BY <1>3, <1>4, <1>5

LEMMA WrittenSuffix ==
  ASSUME NEW c, NEW s \in Seq(Command), NEW k \in 0..Len(s), Written(c, s)
  PROVE  Written(c, SubSeq(s, k + 1, Len(s)))
<1> DEFINE t == SubSeq(s, k + 1, Len(s))
<1>1. /\ Len(t) = Len(s) - k /\ Len(s) \in Nat /\ k \in Nat
      /\ \A i \in 1..Len(s) - k : t[i] = s[k + i] /\ k + i \in 1..Len(s)
  BY SuffixProperties, LenProperties
<1> HIDE DEF t
<1>2. ASSUME NEW i \in 1..Len(t), t[i].op = "LOGOUT"
      PROVE  IF i = Len(t) THEN Away(c) ELSE t[i + 1].op = "LOGIN"
  <2>1. i \in 1..Len(s) - k /\ k + i \in 1..Len(s) /\ s[k + i].op = "LOGOUT"
    BY <1>1, <1>2
  <2>2. IF k + i = Len(s) THEN Away(c) ELSE s[k + i + 1].op = "LOGIN"
    BY <2>1 DEF Written
  <2>3. CASE i = Len(t)
    BY <1>1, <2>2, <2>3
  <2>4. CASE i # Len(t)
    <3>1. i + 1 \in 1..Len(s) - k /\ k + i # Len(s) /\ k + (i + 1) = k + i + 1
      <4>1. PICK n \in Nat, m \in Nat : n = Len(s) /\ m = Len(s) - k
        BY <1>1, SuffixProperties, LenProperties
      <4>2. i \in Nat /\ i <= m /\ i # m /\ k \in Nat /\ m = n - k
        BY <1>1, <2>1, <2>4, <4>1
      <4>3. i + 1 \in 1..m /\ k + i # n /\ k + (i + 1) = k + i + 1
        BY <4>1, <4>2
      <4> QED
        BY <4>1, <4>3
    <3>2. t[i + 1] = s[k + i + 1]
      BY <1>1, <3>1
    <3> QED
      BY <2>2, <2>4, <3>1, <3>2
  <2> QED
    BY <2>3, <2>4
<1> QED
  BY <1>2 DEF Written, t

LEMMA ServerLeavesClients ==
  ASSUME ServerInv, ClientsInv, ServerStep, Delivers
  PROVE  ClientsInv'
<1>1. ASSUME NEW p \in Clients
      PROVE  Arriving(p) \in Seq(Items) /\ Filled(Arriving(p))
  BY <1>1, ArrivingProperties DEF ServerInv
<1>2. ASSUME NEW p \in Clients
      PROVE  output'[p] \in Seq(Items) /\ Filled(output'[p])
  <2>1. output[p] \in Seq(Items) /\ Filled(output[p])
    BY DEF ClientsInv, OwnOf, Own
  <2>2. output'[p] = output[p] \o Arriving(p)
    BY DEF Delivers
  <2> QED
    BY <1>1, <2>1, <2>2, FilledConcat
<1>3. client' = client /\ output' = [p \in Clients |-> output'[p]]
  BY DEF Delivers
<1>4. ASSUME NEW p \in Clients
      PROVE  OwnOf(p)'
  <2>1. /\ client[p] \in C!Client /\ link[p] \in Links /\ input[p] \in Seq(Command)
        /\ client[p].isLoggedIn => client[p].server = "socket"
        /\ client[p].server = "unset" => client[p].pc = "loop" /\ client[p].client_lists = {}
        /\ link[p] = "made" => client[p].pc = "login"
        /\ client[p].pc # "loop" => client[p].server = "socket"
        /\ client[p].pc = "loop" /\ client[p].client_lists = {} => link[p] \notin {"made", "up"}
        /\ link[p] \in {"none", "made", "hung"} => input[p] = << >>
        /\ Written(client[p], input[p])
    BY DEF ClientsInv, OwnOf, Own
  <2>2. CASE Ends
    <3>1. /\ input'[p] = << >>
          /\ link'[p] = IF link[p] \in {"made", "up"} THEN "hung" ELSE link[p]
      BY <2>2 DEF Ends, HangUp
    <3>2. << >> \in Seq(Command) /\ Written(client[p], << >>)
      <4>1. << >> \in Seq(Command) /\ 1..Len(<< >>) = {}
        BY EmptySeq
      <4> QED
        BY <4>1 DEF Written
    <3>3. link'[p] \in Links /\ link'[p] \notin {"made", "up"}
      BY <2>1, <3>1 DEF Links
    <3> QED
      BY <1>2, <1>3, <2>1, <3>1, <3>2, <3>3 DEF OwnOf, Own
  <2>3. CASE ~Ends
    <3>1. Reading
      BY <2>3, ServerReads DEF ServerInv
    <3>2. PICK k \in 0..Len(input[p]) : input'[p] = SubSeq(input[p], k + 1, Len(input[p]))
      BY <3>1 DEF Reading
    <3>3. link'[p] = link[p]
      BY <3>1 DEF Reading
    <3>4. input'[p] \in Seq(Command) /\ Len(input'[p]) = Len(input[p]) - k
      BY <2>1, <3>2, SuffixProperties
    <3>5. Written(client[p], input'[p])
      BY <2>1, <3>2, WrittenSuffix
    <3>6. input[p] = << >> => input'[p] = << >>
      BY <3>2, <3>4, EmptySeq
    <3> QED
      BY <1>2, <1>3, <2>1, <3>3, <3>4, <3>5, <3>6 DEF OwnOf, Own
  <2> QED
    BY <2>2, <2>3
<1>5. output' \in [Clients -> Seq(Items)]
  BY <1>2, <1>3
<1> QED
  BY <1>3, <1>4, <1>5 DEF ClientsInv

----------------------------------------------------------------------------
(* What the client does itself.                                            *)

LEMMA WrittenEmpty ==
  ASSUME NEW c
  PROVE  Written(c, << >>)
<1>1. 1..Len(<< >>) = {}
  BY EmptySeq
<1> QED
  BY <1>1 DEF Written

LEMMA WrittenStays ==
  ASSUME NEW c, NEW d, NEW s, Written(c, s), Away(c) => Away(d)
  PROVE  Written(d, s)
BY DEF Written

LEMMA WrittenAppend ==
  ASSUME NEW c, NEW d, NEW s \in Seq(Command), Written(c, s), NEW e \in Command,
         Away(c) => e.op = "LOGIN", e.op = "LOGOUT" => Away(d)
  PROVE  Written(d, Append(s, e))
<1> DEFINE t == Append(s, e)
<1>1. /\ Len(t) = Len(s) + 1 /\ t[Len(s) + 1] = e /\ Len(s) \in Nat
      /\ \A i \in 1..Len(s) : t[i] = s[i]
  BY AppendProperties, LenProperties
<1> HIDE DEF t
<1>2. ASSUME NEW i \in 1..Len(t), t[i].op = "LOGOUT"
      PROVE  IF i = Len(t) THEN Away(d) ELSE t[i + 1].op = "LOGIN"
  <2>1. CASE i = Len(s) + 1
    BY <1>1, <1>2, <2>1
  <2>2. CASE i = Len(s)
    <3>1. i \in 1..Len(s) /\ i # Len(t) /\ t[i + 1] = e
      BY <1>1, <1>2, <2>2
    <3>2. Away(c)
      BY <1>1, <1>2, <2>2, <3>1 DEF Written
    <3> QED
      BY <3>1, <3>2
  <2>3. CASE i # Len(s) /\ i # Len(s) + 1
    <3>1. i \in 1..Len(s) /\ i + 1 \in 1..Len(s) /\ i # Len(t)
      BY <1>1, <1>2, <2>3
    <3>2. s[i + 1].op = "LOGIN"
      BY <1>1, <1>2, <2>3, <3>1 DEF Written
    <3> QED
      BY <1>1, <3>1, <3>2
  <2> QED
    BY <2>1, <2>2, <2>3
<1> QED
  BY <1>2 DEF Written, t

\* What the server reads next from a client in state c, which it takes for
\* logged out: nothing, or the LOGIN that ends this.
Silenced(c, written) == IF written = << >> THEN Away(c) ELSE Head(written).op = "LOGIN"

\* A step of process p is one of its own, keeps what is known of it, and does not
\* end its silence but by a LOGIN.
StepOf(p) ==
  /\ client' \in [Clients -> C!Client] /\ output' \in [Clients -> Seq(Items)]
  /\ \A q \in Clients \ {p} : /\ client'[q] = client[q] /\ link'[q] = link[q]
                              /\ input'[q] = input[q] /\ output'[q] = output[q]
  /\ OwnOf(p)'
  /\ link[p] \notin {"none", "hung"} /\ Silenced(client[p], input[p])
       => Silenced(client'[p], input'[p])

LEMMA OwnTypes ==
  ASSUME ServerInv, ClientsInv
  PROVE  /\ client \in [Clients -> C!Client] /\ output \in [Clients -> Seq(Items)]
         /\ link \in [Clients -> Links] /\ input \in [Clients -> Seq(Command)]
         /\ \A p \in Clients : OwnOf(p)
BY DEF ServerInv, IInv, TypeOK, ConnectionsOK, ClientsInv

\* A step of p, by what it changes.
LEMMA StepProperties ==
  ASSUME ServerInv, ClientsInv, NEW p \in Clients,
         NEW c, NEW l, NEW w, NEW u, Own(c, l, w, u),
         client' = [client EXCEPT ![p] = c], link' = [link EXCEPT ![p] = l],
         input' = [input EXCEPT ![p] = w], output' = [output EXCEPT ![p] = u],
         link[p] \notin {"none", "hung"} /\ Silenced(client[p], input[p]) => Silenced(c, w)
  PROVE  StepOf(p)
<1>1. /\ client' \in [Clients -> C!Client] /\ output' \in [Clients -> Seq(Items)]
      /\ client'[p] = c /\ link'[p] = l /\ input'[p] = w /\ output'[p] = u
      /\ \A q \in Clients \ {p} : /\ client'[q] = client[q] /\ link'[q] = link[q]
                                  /\ input'[q] = input[q] /\ output'[q] = output[q]
  BY OwnTypes DEF Own
<1>2. OwnOf(p)'
  BY <1>1 DEF OwnOf
<1> QED
  BY <1>1, <1>2 DEF StepOf

\* Nothing changed is a change to what there was.
LEMMA Unchanged ==
  ASSUME NEW f, NEW p \in Clients, f = [q \in Clients |-> f[q]]
  PROVE  f = [f EXCEPT ![p] = f[p]]
OBVIOUS

LEMMA Same ==
  ASSUME ServerInv, ClientsInv, NEW p \in Clients
  PROVE  /\ client = [client EXCEPT ![p] = client[p]] /\ link = [link EXCEPT ![p] = link[p]]
         /\ input = [input EXCEPT ![p] = input[p]] /\ output = [output EXCEPT ![p] = output[p]]
<1>1. /\ client = [q \in Clients |-> client[q]] /\ link = [q \in Clients |-> link[q]]
      /\ input = [q \in Clients |-> input[q]] /\ output = [q \in Clients |-> output[q]]
  BY OwnTypes
<1> QED
  BY <1>1, Unchanged

\* A step that sends a command and leaves the client in state c.
LEMMA SendingStep ==
  ASSUME ServerInv, ClientsInv, NEW p \in Clients, NEW e \in Command, C!Transmit(p, e),
         NEW c \in C!Client, client' = [client EXCEPT ![p] = c], UNCHANGED output,
         c.isLoggedIn => c.server = "socket", c.server # "unset",
         c.pc # "loop" => c.server = "socket",
         c.pc = "loop" /\ c.client_lists = {} => link[p] \notin {"made", "up"},
         Away(client[p]) => e.op = "LOGIN", e.op = "LOGOUT" => Away(c)
  PROVE  StepOf(p)
<1>1. Own(client[p], link[p], input[p], output[p])
  BY OwnTypes DEF OwnOf
<1>2. output' = [output EXCEPT ![p] = output[p]]
  BY Same
<1>3. CASE link[p] = "up" /\ input' = [input EXCEPT ![p] = Append(@, e)] /\ UNCHANGED link
  <2>1. /\ Append(input[p], e) \in Seq(Command) /\ Append(input[p], e) # << >>
        /\ Head(Append(input[p], e)) = IF input[p] = << >> THEN e ELSE Head(input[p])
    BY <1>1, AppendProperties, HeadTailAppend DEF Own
  <2>2. Written(c, Append(input[p], e))
    BY <1>1, WrittenAppend DEF Own
  <2>3. Own(c, "up", Append(input[p], e), output[p])
    BY <1>1, <1>3, <2>1, <2>2 DEF Own
  <2>4. Silenced(client[p], input[p]) => Silenced(c, Append(input[p], e))
    BY <2>1 DEF Silenced
  <2>5. link' = [link EXCEPT ![p] = "up"]
    BY <1>3, Same
  <2>6. input' = [input EXCEPT ![p] = Append(input[p], e)]
    BY <1>3
  <2> QED
    BY <1>2, <2>3, <2>4, <2>5, <2>6, StepProperties
<1>4. CASE /\ link[p] = "hung" /\ UNCHANGED input
           /\ link' \in {link, [link EXCEPT ![p] = "ended"]}
  <2>1. input[p] = << >> /\ input' = [input EXCEPT ![p] = input[p]]
    BY <1>1, <1>4, Same DEF Own
  <2>2. PICK l \in {"hung", "ended"} : link' = [link EXCEPT ![p] = l]
    BY <1>4, Same
  <2>3. Written(c, input[p])
    BY <2>1, WrittenEmpty
  <2>4. Own(c, l, input[p], output[p])
    BY <1>1, <2>1, <2>2, <2>3 DEF Own, Links
  <2> QED
    BY <1>2, <1>4, <2>1, <2>2, <2>4, StepProperties
<1> QED
  BY <1>3, <1>4 DEF C!Transmit

\* What receiveClientDetails reads names somebody.
LEMMA EntriesProperties ==
  ASSUME NEW items \in Seq(Items), items # << >>, Filled(items)
  PROVE  C!Entries(items) # {} /\ C!Entries(items) \subseteq Addresses
<1> DEFINE part(i) == IF items[i].kind = "chat" THEN {NoHost}
                      ELSE IF i > 1 /\ items[i - 1].kind = "chat"
                           THEN C!Range(Tail(items[i].ips))
                      ELSE C!Range(items[i].ips)
<1>1. C!Entries(items) = UNION {part(i) : i \in DOMAIN items}
  BY DEF C!Entries
<1>2. DOMAIN items = 1..Len(items) /\ Len(items) \in Nat /\ 1 \in 1..Len(items)
  <2>1. DOMAIN items = 1..Len(items) /\ Len(items) \in Nat /\ Len(items) # 0
    BY LenProperties, EmptySeq
  <2> QED
    BY <2>1
<1>3. ASSUME NEW hosts \in Seq(Hosts)
      PROVE  C!Range(hosts) \subseteq Hosts
  <2>1. DOMAIN hosts = 1..Len(hosts)
    BY LenProperties
  <2>2. \A i \in 1..Len(hosts) : hosts[i] \in Hosts
    BY ElementOfSeq
  <2> QED
    BY <2>1, <2>2 DEF C!Range
<1>4. ASSUME NEW hosts \in Seq(Hosts), hosts # << >>
      PROVE  C!Range(hosts) # {}
  <2>1. DOMAIN hosts = 1..Len(hosts) /\ Len(hosts) \in Nat /\ Len(hosts) # 0
    BY <1>4, LenProperties, EmptySeq
  <2>2. 1 \in DOMAIN hosts
    BY <2>1
  <2> QED
    BY <2>2 DEF C!Range
<1>5. ASSUME NEW i \in 1..Len(items), items[i].kind # "chat"
      PROVE  /\ items[i].ips \in Seq(Hosts) /\ items[i].ips # << >>
             /\ Tail(items[i].ips) \in Seq(Hosts)
  <2>1. items[i] \in Items
    BY ElementOfSeq
  <2>2. items[i].kind = "list" /\ items[i].ips \in Seq(Hosts)
    BY <1>5, <2>1 DEF Items
  <2>3. items[i].ips # << >>
    BY <2>2 DEF Filled
  <2> QED
    BY <2>2, <2>3, HeadTailProperties
<1>6. \A i \in 1..Len(items) : part(i) \subseteq Addresses
  <2> SUFFICES ASSUME NEW i \in 1..Len(items) PROVE part(i) \subseteq Addresses
    OBVIOUS
  <2>1. CASE items[i].kind = "chat"
    BY <2>1 DEF Addresses
  <2>2. CASE items[i].kind # "chat"
    BY <1>3, <1>5, <2>2 DEF Addresses
  <2> QED
    BY <2>1, <2>2
<1>7. part(1) # {}
  <2>1. CASE items[1].kind = "chat"
    BY <2>1
  <2>2. CASE items[1].kind # "chat"
    <3>1. part(1) = C!Range(items[1].ips)
      BY <2>2
    <3> QED
      BY <1>2, <1>4, <1>5, <2>2, <3>1
  <2> QED
    BY <2>1, <2>2
<1> HIDE DEF part
<1> QED
  BY <1>1, <1>2, <1>6, <1>7

LEMMA FilledSuffix ==
  ASSUME NEW s \in Seq(Items), Filled(s), NEW k \in 0..Len(s)
  PROVE  SubSeq(s, k + 1, Len(s)) \in Seq(Items) /\ Filled(SubSeq(s, k + 1, Len(s)))
BY SuffixProperties DEF Filled

LEMMA PrefixProperties ==
  ASSUME NEW s \in Seq(Items), Filled(s), NEW k \in 1..Len(s)
  PROVE  /\ SubSeq(s, 1, k) \in Seq(Items) /\ SubSeq(s, 1, k) # << >>
         /\ Filled(SubSeq(s, 1, k))
<1>1. Len(s) \in Nat /\ k \in Int /\ 1 \in Int /\ \A j \in 1..k : s[j] \in Items
  BY LenProperties, ElementOfSeq
<1>2. /\ SubSeq(s, 1, k) \in Seq(Items)
      /\ Len(SubSeq(s, 1, k)) = IF 1 <= k THEN k - 1 + 1 ELSE 0
      /\ \A i \in 1..k - 1 + 1 : SubSeq(s, 1, k)[i] = s[1 + i - 1]
  BY <1>1, SubSeqProperties
<1>3. Len(SubSeq(s, 1, k)) = k /\ k # 0
  BY <1>1, <1>2
<1>4. \A i \in 1..k : SubSeq(s, 1, k)[i] = s[i] /\ i \in 1..Len(s)
  <2> SUFFICES ASSUME NEW i \in 1..k PROVE SubSeq(s, 1, k)[i] = s[i] /\ i \in 1..Len(s)
    OBVIOUS
  <2>1. 1 + i - 1 = i /\ i \in 1..k - 1 + 1 /\ i \in 1..Len(s)
    BY <1>1
  <2> QED
    BY <1>2, <2>1
<1>5. SubSeq(s, 1, k) # << >>
  BY <1>3, EmptySeq
<1>6. Filled(SubSeq(s, 1, k))
  BY <1>3, <1>4 DEF Filled
<1> QED
  BY <1>2, <1>5, <1>6

LEMMA ClientType ==
  ASSUME NEW c \in C!Client
  PROVE  /\ c.pc \in {"loop", "login", "waiting"} /\ c.server \in {"unset", "stdin", "socket"}
         /\ c.isLoggedIn \in BOOLEAN
         /\ c.client_lists \subseteq Addresses /\ c.client_block \subseteq Addresses
BY DEF C!Client, C!Addresses, Addresses

\* Those that send nothing.
LEMMA FirstLoginStep ==
  ASSUME ServerInv, ClientsInv, NEW p \in Clients, C!FirstLogin(p)
  PROVE  StepOf(p)
<1> DEFINE old == client[p]
<1>1. Own(old, link[p], input[p], output[p])
  BY OwnTypes DEF OwnOf
<1>2. input = [input EXCEPT ![p] = input[p]]
  BY Same
<1>3. CASE C!Connect(p) /\ client' = [client EXCEPT ![p].pc = "login", ![p].server = "socket"]
           /\ output' = [output EXCEPT ![p] = << >>]
  <2> DEFINE c == [old EXCEPT !.pc = "login", !.server = "socket"]
  <2>1. old \in C!Client
    BY <1>1 DEF Own
  <2>2. c \in C!Client /\ c.pc = "login" /\ c.server = "socket"
    BY <2>1 DEF C!Client
  <2>3. client' = [client EXCEPT ![p] = c]
    BY <1>3, OwnTypes
  <2> HIDE DEF c
  <2>4. link[p] \in {"none", "hung"} /\ link' = [link EXCEPT ![p] = "made"] /\ input' = input
    BY <1>3 DEF C!Connect
  <2>5. << >> \in Seq(Items) /\ Filled(<< >>)
    <3>1. << >> \in Seq(Items) /\ 1..Len(<< >>) = {}
      BY EmptySeq
    <3> QED
      BY <3>1 DEF Filled
  <2>6. input[p] = << >> /\ Written(c, input[p])
    BY <1>1, <2>4, WrittenEmpty DEF Own
  <2>7. Own(c, "made", input[p], << >>)
    BY <1>1, <2>2, <2>5, <2>6 DEF Own, Links
  <2>8. input' = [input EXCEPT ![p] = input[p]]
    BY <1>2, <2>4
  <2> QED
    BY <1>3, <2>3, <2>4, <2>7, <2>8, StepProperties
<1>4. CASE link' = [link EXCEPT ![p] = "ended"] /\ UNCHANGED <<input, client, output>>
  <2>1. Own(old, "ended", input[p], output[p])
    BY <1>1 DEF Own, Links
  <2> QED
    <3>1. /\ client' = [client EXCEPT ![p] = old] /\ input' = [input EXCEPT ![p] = input[p]]
          /\ output' = [output EXCEPT ![p] = output[p]]
      BY <1>4, Same
    <3> QED
      BY <1>4, <2>1, <3>1, StepProperties
<1> QED
  BY <1>3, <1>4 DEF C!FirstLogin, C!OnSocket

LEMMA IntroduceStep ==
  ASSUME ServerInv, ClientsInv, NEW p \in Clients, C!Introduce(p)
  PROVE  StepOf(p)
<1> DEFINE e == C!Bare("port")
<1>1. Own(client[p], link[p], input[p], output[p])
  BY OwnTypes DEF OwnOf
<1>2. /\ link[p] = "made" /\ link' = [link EXCEPT ![p] = "up"]
      /\ input' = [input EXCEPT ![p] = Append(input[p], e)]
      /\ UNCHANGED <<client, output>>
  BY DEF C!Introduce, C!SendPort
<1>3. e \in Command /\ e.op = "port"
  BY DEF C!Bare, Command
<1> HIDE DEF e
<1>4. input[p] = << >> /\ client[p].pc = "login" /\ input[p] \in Seq(Command)
  BY <1>1, <1>2 DEF Own
<1>5. /\ Append(input[p], e) \in Seq(Command) /\ Append(input[p], e) # << >>
  BY <1>3, <1>4, AppendProperties
<1>6. ~Away(client[p])
  BY <1>4 DEF Away
<1>7. Written(client[p], Append(input[p], e))
  BY <1>1, <1>3, <1>6, WrittenAppend DEF Own
<1>8. Own(client[p], "up", Append(input[p], e), output[p])
  BY <1>1, <1>4, <1>5, <1>7 DEF Own, Links
<1>9. ~Silenced(client[p], input[p])
  BY <1>4, <1>6 DEF Silenced
<1>10. /\ client' = [client EXCEPT ![p] = client[p]]
       /\ output' = [output EXCEPT ![p] = output[p]]
  BY <1>2, Same
<1> QED
  BY <1>2, <1>8, <1>9, <1>10, StepProperties

LEMMA ReadMessageStep ==
  ASSUME ServerInv, ClientsInv, NEW p \in Clients, C!ReadMessage(p)
  PROVE  StepOf(p)
<1>1. Own(client[p], link[p], input[p], output[p])
  BY OwnTypes DEF OwnOf
<1>2. PICK k \in 1..Len(output[p]) :
        /\ output' = [output EXCEPT ![p] = SubSeq(output[p], k + 1, Len(output[p]))]
        /\ UNCHANGED <<client, link, input>>
  BY DEF C!ReadMessage, C!Receive, C!connVars
<1>3. k \in 0..Len(output[p])
  BY <1>2
<1>4. /\ SubSeq(output[p], k + 1, Len(output[p])) \in Seq(Items)
      /\ Filled(SubSeq(output[p], k + 1, Len(output[p])))
  BY <1>1, <1>3, FilledSuffix DEF Own
<1>5. Own(client[p], link[p], input[p], SubSeq(output[p], k + 1, Len(output[p])))
  BY <1>1, <1>4 DEF Own
<1>6. /\ client' = [client EXCEPT ![p] = client[p]] /\ link' = [link EXCEPT ![p] = link[p]]
      /\ input' = [input EXCEPT ![p] = input[p]]
  BY <1>2, Same
<1> QED
  BY <1>2, <1>5, <1>6, StepProperties

LEMMA TakeListStep ==
  ASSUME ServerInv, ClientsInv, NEW p \in Clients, C!TakeList(p)
  PROVE  StepOf(p)
<1> DEFINE old == client[p]
<1>1. Own(old, link[p], input[p], output[p])
  BY OwnTypes DEF OwnOf
<1>2. /\ old \in C!Client /\ old.pc = "waiting" /\ old.server = "socket"
      /\ old.isLoggedIn \in BOOLEAN
      /\ old.client_lists \subseteq Addresses /\ old.client_block \subseteq Addresses
  BY <1>1, ClientType DEF Own, C!TakeList
<1>3. ~Away(old)
  BY <1>2 DEF Away
<1>4. ASSUME NEW k \in 1..Len(output[p]), C!Receive(p, k),
             client' = [client EXCEPT
               ![p].pc = "loop", ![p].isLoggedIn = TRUE,
               ![p].client_lists = @ \union C!Entries(SubSeq(output[p], 1, k))]
      PROVE  StepOf(p)
  <2> DEFINE entries == C!Entries(SubSeq(output[p], 1, k))
             rest == SubSeq(output[p], k + 1, Len(output[p]))
             c == [old EXCEPT !.pc = "loop", !.isLoggedIn = TRUE,
                              !.client_lists = @ \union entries]
  <2>1. output[p] \in Seq(Items) /\ Filled(output[p])
    BY <1>1 DEF Own
  <2>2. entries # {} /\ entries \subseteq Addresses
    <3>1. /\ SubSeq(output[p], 1, k) \in Seq(Items) /\ SubSeq(output[p], 1, k) # << >>
          /\ Filled(SubSeq(output[p], 1, k))
      BY <2>1, PrefixProperties
    <3> QED
      BY <3>1, EntriesProperties
  <2>3. rest \in Seq(Items) /\ Filled(rest)
    <3>1. k \in 0..Len(output[p])
      OBVIOUS
    <3> QED
      BY <2>1, <3>1, FilledSuffix
  <2>4. /\ output' = [output EXCEPT ![p] = rest]
        /\ UNCHANGED <<link, input>>
    BY <1>4 DEF C!Receive, C!connVars
  <2> HIDE DEF entries, rest
  <2>5. client' = [client EXCEPT ![p] = c]
    BY <1>4, OwnTypes DEF entries
  <2>6. old.client_lists \union entries \in SUBSET C!Addresses
    BY <1>2, <2>2 DEF C!Addresses, Addresses
  <2>7. /\ c \in C!Client /\ c.pc = "loop" /\ c.server = "socket"
        /\ c.client_lists # {}
    BY <1>2, <2>2, <2>6 DEF C!Client
  <2> HIDE DEF c
  <2>8. Written(c, input[p])
    BY <1>1, <1>3, WrittenStays DEF Own
  <2>9. Own(c, link[p], input[p], rest)
    BY <1>1, <1>2, <2>3, <2>7, <2>8 DEF Own
  <2>10. Silenced(old, input[p]) => Silenced(c, input[p])
    BY <1>3 DEF Silenced
  <2> QED
    <3>1. link' = [link EXCEPT ![p] = link[p]] /\ input' = [input EXCEPT ![p] = input[p]]
      BY <2>4, Same
    <3> QED
      BY <2>4, <2>5, <2>9, <2>10, <3>1, StepProperties
<1>5. CASE /\ link[p] = "hung" /\ client' = [client EXCEPT ![p].pc = "loop"]
           /\ UNCHANGED <<connVars, output>>
  <2> DEFINE c == [old EXCEPT !.pc = "loop"]
  <2>1. client' = [client EXCEPT ![p] = c]
    BY <1>5, OwnTypes
  <2>2. /\ c \in C!Client /\ c.pc = "loop" /\ c.server = "socket"
    BY <1>2 DEF C!Client
  <2> HIDE DEF c
  <2>3. Written(c, input[p])
    BY <1>1, <1>3, WrittenStays DEF Own
  <2>4. Own(c, link[p], input[p], output[p])
    BY <1>1, <1>5, <2>2, <2>3 DEF Own
  <2>5. UNCHANGED <<link, input, output>>
    BY <1>5 DEF connVars
  <2> QED
    <3>1. /\ link' = [link EXCEPT ![p] = link[p]] /\ input' = [input EXCEPT ![p] = input[p]]
          /\ output' = [output EXCEPT ![p] = output[p]]
      BY <2>5, Same
    <3> QED
      BY <1>5, <2>1, <2>4, <3>1, StepProperties
<1> QED
  BY <1>4, <1>5 DEF C!TakeList, C!connVars, connVars

LEMMA QuitStep ==
  ASSUME ServerInv, ClientsInv, NEW p \in Clients, C!Quit(p)
  PROVE  StepOf(p)
<1>1. Own(client[p], link[p], input[p], output[p])
  BY OwnTypes DEF OwnOf
<1>2. /\ link' = [link EXCEPT ![p] = "ended"] /\ output' = [output EXCEPT ![p] = << >>]
      /\ UNCHANGED <<input, client>>
  BY DEF C!Quit, C!End
<1>3. << >> \in Seq(Items) /\ Filled(<< >>)
  <2>1. << >> \in Seq(Items) /\ 1..Len(<< >>) = {}
    BY EmptySeq
  <2> QED
    BY <2>1 DEF Filled
<1>4. Own(client[p], "ended", input[p], << >>)
  BY <1>1, <1>3 DEF Own, Links
<1>5. /\ client' = [client EXCEPT ![p] = client[p]] /\ input' = [input EXCEPT ![p] = input[p]]
  BY <1>2, Same
<1> QED
  BY <1>2, <1>4, <1>5, StepProperties

\* Those that send a command.
LEMMA Commands ==
  /\ \A op \in {"LOGIN", "refresh", "LOGOUT", "BROADCAST"} :
       C!Bare(op) \in Command /\ C!Bare(op).op = op
  /\ \A op \in Targeted, ip \in C!Addresses : [op |-> op, ip |-> ip] \in Command
BY DEF C!Bare, Command, Ops, Targeted, C!Addresses, Addresses

LEMMA LoginStep ==
  ASSUME ServerInv, ClientsInv, NEW p \in Clients, C!SendFirstLogin(p) \/ C!LoginAgain(p)
  PROVE  StepOf(p)
<1> DEFINE old == client[p]
           e == C!Bare("LOGIN")
<1>1. Own(old, link[p], input[p], output[p])
  BY OwnTypes DEF OwnOf
<1>2. old \in C!Client /\ e \in Command /\ e.op = "LOGIN"
  BY <1>1, Commands DEF Own
<1> HIDE DEF e
<1>3. C!Transmit(p, e) /\ UNCHANGED output
  BY DEF C!SendFirstLogin, C!LoginAgain, e
<1>4. CASE C!SendFirstLogin(p)
  <2> DEFINE c == [old EXCEPT !.pc = "waiting"]
  <2>1. old.server = "socket"
    BY <1>1, <1>4 DEF Own, C!SendFirstLogin
  <2>2. c \in C!Client /\ c.pc = "waiting" /\ c.server = "socket"
    BY <1>2, <2>1 DEF C!Client
  <2>3. client' = [client EXCEPT ![p] = c]
    BY <1>4, OwnTypes DEF C!SendFirstLogin
  <2> HIDE DEF c, old
  <2> QED
    BY <1>2, <1>3, <2>2, <2>3, SendingStep
<1>5. CASE C!LoginAgain(p)
  <2> DEFINE c == [old EXCEPT !.pc = "waiting", !.server = "socket"]
  <2>1. c \in C!Client /\ c.pc = "waiting" /\ c.server = "socket"
    BY <1>2 DEF C!Client
  <2>2. client' = [client EXCEPT ![p] = c]
    BY <1>5, OwnTypes DEF C!LoginAgain, C!OnSocket
  <2> HIDE DEF c, old
  <2> QED
    BY <1>2, <1>3, <2>1, <2>2, SendingStep
<1> QED
  BY <1>4, <1>5

LEMMA RefreshStep ==
  ASSUME ServerInv, ClientsInv, NEW p \in Clients, C!Refresh(p)
  PROVE  StepOf(p)
<1> DEFINE old == client[p]
           e == C!Bare("refresh")
           c == [old EXCEPT !.client_lists = {}, !.pc = "waiting"]
<1>1. Own(old, link[p], input[p], output[p]) /\ old.isLoggedIn
  BY OwnTypes DEF OwnOf, C!Refresh, C!MayAsk
<1>2. /\ old \in C!Client /\ old.server = "socket"
      /\ e \in Command /\ e.op = "refresh"
  BY <1>1, Commands DEF Own
<1>3. c \in C!Client /\ c.pc = "waiting" /\ c.server = "socket"
  BY <1>2 DEF C!Client
<1>4. client' = [client EXCEPT ![p] = c]
  BY OwnTypes DEF C!Refresh, C!AnswerNow
<1>5. ~Away(old)
  BY <1>1 DEF Away
<1> HIDE DEF c, e
<1>6. C!Transmit(p, e) /\ UNCHANGED output
  BY DEF C!Refresh, e
<1> QED
  BY <1>2, <1>3, <1>4, <1>5, <1>6, SendingStep

LEMMA LogoutStep ==
  ASSUME ServerInv, ClientsInv, NEW p \in Clients, C!Logout(p)
  PROVE  StepOf(p)
<1> DEFINE old == client[p]
           e == C!Bare("LOGOUT")
           c == [old EXCEPT !.isLoggedIn = FALSE, !.server = "stdin"]
<1>1. Own(old, link[p], input[p], output[p]) /\ old.isLoggedIn /\ old.pc = "loop"
  BY OwnTypes DEF OwnOf, C!Logout, C!MayAsk, C!InLoop
<1>2. old \in C!Client /\ e \in Command /\ e.op = "LOGOUT"
  BY <1>1, Commands DEF Own
<1>3. /\ c \in C!Client /\ c.pc = "loop" /\ c.server = "stdin" /\ c.isLoggedIn = FALSE
      /\ c.client_lists = old.client_lists
  BY <1>1, <1>2 DEF C!Client
<1>4. client' = [client EXCEPT ![p] = c]
  BY OwnTypes DEF C!Logout, C!LoggedOut
<1>5. ~Away(old)
  BY <1>1 DEF Away
<1> HIDE DEF c, e
<1>6. C!Transmit(p, e) /\ UNCHANGED output
  BY DEF C!Logout, e
<1>7. Away(c)
  BY <1>3 DEF Away
<1>8. c.pc = "loop" /\ c.client_lists = {} => link[p] \notin {"made", "up"}
  BY <1>1, <1>3 DEF Own
<1> QED
  BY <1>2, <1>3, <1>4, <1>5, <1>6, <1>7, <1>8, SendingStep

LEMMA BlockStep ==
  ASSUME ServerInv, ClientsInv, NEW p \in Clients, NEW ip \in C!Addresses,
         C!Block(p, ip) \/ C!Unblock(p, ip)
  PROVE  StepOf(p)
<1> DEFINE old == client[p]
<1>1. Own(old, link[p], input[p], output[p]) /\ old.isLoggedIn
  BY OwnTypes DEF OwnOf, C!Block, C!Unblock, C!MayAsk
<1>2. /\ old \in C!Client /\ old.server = "socket"
      /\ old.pc = "loop" /\ old.client_lists = {} => link[p] \notin {"made", "up"}
  BY <1>1 DEF Own
<1>3. PICK blocked \in {old.client_block \union {ip}, old.client_block \ {ip}} :
        client' = [client EXCEPT ![p].client_block = blocked]
  BY OwnTypes DEF C!Block, C!Unblock
<1> DEFINE c == [old EXCEPT !.client_block = blocked]
<1>4. blocked \in SUBSET C!Addresses
  BY <1>2, <1>3 DEF C!Client
<1>5. /\ c \in C!Client /\ c.pc = old.pc /\ c.server = "socket" /\ c.isLoggedIn = old.isLoggedIn
      /\ c.client_lists = old.client_lists
  BY <1>2, <1>4 DEF C!Client
<1>6. client' = [client EXCEPT ![p] = c]
  BY <1>3, OwnTypes
<1>7. ~Away(old)
  BY <1>1 DEF Away
<1> HIDE DEF c
<1>8. PICK e \in Command : C!Transmit(p, e) /\ e.op # "LOGOUT"
  <2>1. PICK op \in {"BLOCK", "UNBLOCK"} : C!Transmit(p, [op |-> op, ip |-> ip])
    BY DEF C!Block, C!Unblock
  <2>2. [op |-> op, ip |-> ip] \in Command /\ [op |-> op, ip |-> ip].op # "LOGOUT"
    BY <2>1, Commands DEF Targeted
  <2> QED
    BY <2>1, <2>2
<1>9. UNCHANGED output
  BY DEF C!Block, C!Unblock
<1> QED
  BY <1>2, <1>5, <1>6, <1>7, <1>8, <1>9, SendingStep

LEMMA MessageStep ==
  ASSUME ServerInv, ClientsInv, NEW p \in Clients,
         C!Broadcast(p) \/ \E ip \in C!Addresses : C!Send(p, ip)
  PROVE  StepOf(p)
<1>1. Own(client[p], link[p], input[p], output[p]) /\ client[p].server = "socket"
  BY OwnTypes DEF OwnOf, C!Broadcast, C!Send
<1>2. ~Away(client[p])
  BY <1>1 DEF Away
<1>3. UNCHANGED <<client, output>> /\ client[p].pc = "loop"
  BY DEF C!Broadcast, C!Send, C!InLoop
<1>4. PICK e \in Command : C!Transmit(p, e) /\ e.op # "LOGOUT"
  <2>1. CASE C!Broadcast(p)
    BY <2>1, Commands DEF C!Broadcast
  <2>2. ASSUME NEW ip \in C!Addresses, C!Send(p, ip)
        PROVE  \E e \in Command : C!Transmit(p, e) /\ e.op # "LOGOUT"
    <3>1. [op |-> "SEND", ip |-> ip] \in Command /\ [op |-> "SEND", ip |-> ip].op # "LOGOUT"
      BY Commands DEF Targeted
    <3> QED
      BY <2>2, <3>1 DEF C!Send
  <2> QED
    BY <2>1, <2>2
<1>5. client' = [client EXCEPT ![p] = client[p]]
  BY <1>3, Same
<1>6. /\ client[p] \in C!Client
      /\ client[p].client_lists = {} => link[p] \notin {"made", "up"}
  BY <1>1, <1>3 DEF Own
<1> QED
  BY <1>1, <1>2, <1>3, <1>4, <1>5, <1>6, SendingStep

LEMMA ClientSteps ==
  ASSUME ServerInv, ClientsInv, NEW p \in Clients, C!ClientStep(p)
  PROVE  StepOf(p)
BY IntroduceStep, LoginStep, ReadMessageStep, TakeListStep, FirstLoginStep, RefreshStep,
   LogoutStep, MessageStep, BlockStep, QuitStep
DEF C!ClientStep, C!Proceed, C!UserCommand

LEMMA ClientsNext == ServerInv /\ ClientsInv /\ [ChatNext]_chatVars => ClientsInv'
<1> SUFFICES ASSUME ServerInv, ClientsInv, [ChatNext]_chatVars PROVE ClientsInv'
  OBVIOUS
<1>1. ASSUME NEW p \in Clients, C!ClientStep(p)
      PROVE  ClientsInv'
  <2>1. StepOf(p)
    BY <1>1, ClientSteps
  <2>2. ASSUME NEW q \in Clients
        PROVE  OwnOf(q)'
    <3>1. CASE q = p
      BY <2>1, <3>1 DEF StepOf
    <3>2. CASE q # p
      <4>1. /\ client'[q] = client[q] /\ link'[q] = link[q]
            /\ input'[q] = input[q] /\ output'[q] = output[q]
        BY <2>1, <3>2 DEF StepOf
      <4> QED
        BY <4>1 DEF ClientsInv, OwnOf
    <3> QED
      BY <3>1, <3>2
  <2> QED
    BY <2>1, <2>2 DEF StepOf, ClientsInv
<1>2. CASE UNCHANGED <<client, link, input, output>>
  BY <1>2 DEF ClientsInv, OwnOf
<1>3. CASE Restart \/ UNCHANGED chatVars
  BY <1>2, <1>3 DEF Restart, Start, chatVars, vars, connVars
<1> QED
  BY <1>1, <1>3, ServerLeavesClients DEF ChatNext

----------------------------------------------------------------------------
(* Whom the server takes for logged out.                                   *)

SilencedFor ==
  \A c \in Records :
    ~c.isLoggedIn => Silenced(client[peer[c.socket]], input[peer[c.socket]])

\* Taking commands off a connection, the server finds the client that is silent
\* where it was: what a LOGOUT leaves to read is a LOGIN or nothing.
LEMMA SilencedSuffix ==
  ASSUME NEW c, NEW w \in Seq(Command), Written(c, w), 1 \in 1..Len(w), w[1].op = "LOGOUT"
  PROVE  Silenced(c, SubSeq(w, 1 + 1, Len(w)))
<1> DEFINE t == SubSeq(w, 1 + 1, Len(w))
<1>1. Len(w) \in Nat /\ 1 \in 0..Len(w)
  BY LenProperties
<1>2. /\ t \in Seq(Command) /\ Len(t) = Len(w) - 1
      /\ \A i \in 1..Len(w) - 1 : t[i] = w[1 + i]
  BY <1>1, SuffixProperties
<1> HIDE DEF t
<1>3. IF 1 = Len(w) THEN Away(c) ELSE w[1 + 1].op = "LOGIN"
  BY DEF Written
<1>4. CASE Len(w) = 1
  <2>1. t = << >>
    BY <1>2, <1>4, EmptySeq
  <2> QED
    BY <1>3, <1>4, <2>1 DEF Silenced, t
<1>5. CASE Len(w) # 1
  <2>1. 1 \in 1..Len(w) - 1 /\ Len(w) - 1 # 0
    <3>1. PICK n \in Nat : n = Len(w)
      BY <1>1
    <3>2. n >= 1 /\ n # 1
      BY <1>5, <3>1
    <3> QED
      BY <3>1, <3>2
  <2>2. t # << >> /\ t[1] = w[1 + 1]
    BY <1>2, <2>1, EmptySeq
  <2>3. Head(t) = t[1]
    BY <1>2, <2>2
  <2> QED
    BY <1>3, <1>5, <2>2, <2>3 DEF Silenced, t
<1> QED
  BY <1>4, <1>5

LEMMA SilencedHandle ==
  ASSUME ServerInv, ServerInv', ClientsInv, SilencedFor, UNCHANGED client, ~Ends,
         NEW fd \in master_list, NEW k, NEW items, NEW clients, Handles(fd, k, items, clients)
  PROVE  SilencedFor'
<1> DEFINE p == peer[fd]
           w == input[p]
<1>1. /\ connectedClients' = clients /\ UNCHANGED peer
      /\ input' = [input EXCEPT ![p] = SubSeq(w, k + 1, Len(w))]
      /\ k \in 1..Len(w) /\ Present(fd, k, clients)
  BY DEF Handles, Handle, Unread
<1>2. /\ fd \in Fds /\ p \in Clients /\ w \in Seq(Command) /\ Len(w) \in Nat
      /\ Match(connectedClients) /\ connectedClients \in Seq(ListData)
      /\ DOMAIN connectedClients = 1..Len(connectedClients)
  BY Serving DEF ServerInv, Unread
<1>3. clients \in Seq(ListData) /\ DOMAIN clients = 1..Len(connectedClients)
  BY <1>1, LenProperties DEF ServerInv, IInv, TypeOK, Present
<1>4. input \in [Clients -> Seq(Command)] /\ Written(client[p], w)
  BY <1>2, OwnTypes DEF OwnOf, Own
<1> SUFFICES ASSUME NEW i \in 1..Len(connectedClients), ~clients[i].isLoggedIn
             PROVE  Silenced(client[peer[clients[i].socket]], input'[peer[clients[i].socket]])
  BY <1>1, <1>3 DEF SilencedFor, Records, Range
<1> DEFINE n == connectedClients[i].socket
<1>5. clients[i].socket = n /\ ~Presence(fd, k, i) /\ n \in master_list
  BY <1>1, <1>2 DEF Present, Match
<1>6. ~connectedClients[i].isLoggedIn => Silenced(client[peer[n]], input[peer[n]])
  BY <1>2 DEF SilencedFor, Records, Range
<1>7. CASE n # fd
  <2>1. peer[n] # p
    BY <1>2, <1>5, <1>7, Constants DEF ServerInv, OneConnection, master_list
  <2>2. input'[peer[n]] = input[peer[n]]
    <3>1. peer[n] \in Clients
      BY <1>5, Serving DEF ServerInv
    <3> QED
      BY <1>1, <1>4, <2>1, <3>1
  <2>3. ~connectedClients[i].isLoggedIn
    BY <1>5, <1>7 DEF Presence
  <2> QED
    BY <1>5, <1>6, <2>2, <2>3
<1>8. CASE n = fd
  <2>1. w # << >> /\ Head(w) = w[1] /\ 1 \in 1..Len(w)
    <3>1. Len(w) # 0 /\ 1 \in 1..Len(w)
      BY <1>1, <1>2
    <3>2. w # << >>
      BY <3>1, EmptySeq
    <3> QED
      BY <1>2, <3>1, <3>2
  <2>2. input'[p] = SubSeq(w, k + 1, Len(w))
    BY <1>1, <1>2, <1>4
  <2>3. Head(w).op # "LOGIN"
    BY <1>5, <1>8 DEF Presence, Unread
  <2>4. CASE Head(w).op = "LOGOUT" /\ k = 1
    <3>1. Silenced(client[p], SubSeq(w, 1 + 1, Len(w)))
      BY <1>2, <1>4, <2>1, <2>4, SilencedSuffix
    <3> QED
      BY <1>5, <1>8, <2>2, <2>4, <3>1
  <2>5. CASE ~(Head(w).op = "LOGOUT" /\ k = 1)
    <3>1. ~connectedClients[i].isLoggedIn
      BY <1>5, <1>8, <2>3, <2>5 DEF Presence, Unread
    <3> QED
      BY <1>6, <1>8, <2>1, <2>3, <3>1 DEF Silenced
  <2> QED
    BY <2>4, <2>5
<1> QED
  BY <1>7, <1>8

\* Records that were there and logged out, with the connections and commands
\* they had.
LEMMA SilencedKept ==
  ASSUME ServerInv, SilencedFor, UNCHANGED client,
         \A c \in Records' : ~c.isLoggedIn =>
           \E d \in Records : /\ d.socket = c.socket /\ ~d.isLoggedIn
                              /\ peer'[c.socket] = peer[c.socket]
                              /\ input'[peer[c.socket]] = input[peer[c.socket]]
  PROVE  SilencedFor'
BY DEF SilencedFor

LEMMA SilencedReceive ==
  ASSUME ServerInv, ServerInv', ClientsInv, SilencedFor, UNCHANGED client, ~Ends, ReceivePort
  PROVE  SilencedFor'
<1>1. PICK k, items, clients : Receives(k, items, clients)
  BY Receiving DEF ServerInv
<1>2. accepting \in master_list
  BY Receiving DEF ServerInv
<1> DEFINE p == peer[accepting]
<1>3. /\ connectedClients' = clients /\ UNCHANGED peer
      /\ input' = [input EXCEPT ![p] = SubSeq(@, k + 1, Len(@))]
  BY <1>1 DEF Receives, Handle
<1>4. /\ accepting \in Fds /\ p \in Clients /\ Match(connectedClients)
      /\ DOMAIN connectedClients = 1..Len(connectedClients)
  BY <1>2, Serving DEF ServerInv
<1>5. DOMAIN clients = 1..Len(clients) /\ input \in [Clients -> Seq(Command)]
  BY <1>3, LenProperties, OwnTypes DEF ServerInv, IInv, TypeOK
<1>6. ASSUME NEW c \in Records', ~c.isLoggedIn
      PROVE  \E d \in Records : /\ d.socket = c.socket /\ ~d.isLoggedIn
                                /\ peer'[c.socket] = peer[c.socket]
                                /\ input'[peer[c.socket]] = input[peer[c.socket]]
  <2>1. PICK i \in 1..Len(clients) : c = clients[i]
    BY <1>3, <1>5 DEF Records, Range
  <2>2. /\ i \in 1..Len(connectedClients) /\ c.socket = connectedClients[i].socket
        /\ ~connectedClients[i].isLoggedIn
    BY <1>1, <1>6, <2>1 DEF Receives
  <2>3. connectedClients[i] \in Records
    BY <1>4, <2>2 DEF Records, Range
  <2>4. c.socket # accepting /\ c.socket \in master_list
    BY <2>2, <2>3 DEF ServerInv, IInv, Unrecorded, RecordsMatchConnections
  <2>5. peer[c.socket] # p
    BY <1>4, <2>4, Constants DEF ServerInv, OneConnection, master_list
  <2>6. peer[c.socket] \in Clients
    BY <2>4, Serving DEF ServerInv
  <2>7. input'[peer[c.socket]] = input[peer[c.socket]]
    BY <1>3, <1>5, <2>5, <2>6
  <2> QED
    BY <1>3, <2>2, <2>3, <2>7
<1> QED
  BY <1>6, SilencedKept

LEMMA SilencedServer ==
  ASSUME ServerInv, ServerInv', ClientsInv, SilencedFor, ServerStep, Delivers
  PROVE  SilencedFor'
<1>1. UNCHANGED client
  BY DEF Delivers
<1>2. CASE Ends
  <2>1. Records' = {}
    BY <1>2, EmptySeq DEF Ends, Records, Range
  <2> QED
    BY <2>1 DEF SilencedFor
<1>3. CASE ReceivePort /\ ~Ends
  BY <1>1, <1>3, SilencedReceive
<1>4. ASSUME NEW fd \in Fds, Serve(fd), ~Disconnect(fd), ~Ends
      PROVE  SilencedFor'
  <2>1. fd \in master_list
    BY <1>4 DEF Serve
  <2>2. PICK k, items, clients : Handles(fd, k, items, clients)
    BY <1>4, <2>1, Handling DEF ServerInv
  <2> QED
    BY <1>1, <1>4, <2>1, <2>2, SilencedHandle
<1>5. CASE Accept
  <2>1. /\ UNCHANGED <<connectedClients, input>> /\ accepting' = FreeFd
        /\ peer' = [peer EXCEPT ![FreeFd] = Head(backlog)]
    BY <1>5 DEF Accept
  <2>2. \A c \in Records' : c \in Records /\ c.socket \in Fds /\ c.socket # FreeFd
    BY <2>1 DEF ServerInv, IInv, Unrecorded, RecordsMatchConnections, Records, master_list
  <2>3. \A c \in Records' : peer'[c.socket] = peer[c.socket]
    BY <2>1, <2>2 DEF ServerInv, IInv, TypeOK
  <2> QED
    BY <1>1, <2>1, <2>2, <2>3, SilencedKept
<1>6. CASE Sort
  <2>1. UNCHANGED <<peer, input>>
    BY <1>6 DEF Sort, connVars
  <2>2. Records' \subseteq Records
    BY <1>6 DEF Sort, SetToSeqs, Records, Range
  <2> QED
    BY <1>1, <2>1, <2>2, SilencedKept
<1>7. ASSUME NEW fd \in Fds, Serve(fd), Disconnect(fd)
      PROVE  SilencedFor'
  <2>1. /\ fd \in master_list /\ connectedClients' = Erase(fd)
        /\ peer' = [peer EXCEPT ![fd] = NoClient] /\ UNCHANGED input
    BY <1>7 DEF Serve, Disconnect, Unwatched, connVars
  <2>2. Records' \subseteq Records
    BY <2>1, EraseRecords DEF ServerInv
  <2>3. \A c \in Records' : c.socket \in Fds /\ peer'[c.socket] # NoClient
    BY DEF ServerInv, IInv, RecordsMatchConnections, master_list
  <2>4. \A c \in Records' : peer'[c.socket] = peer[c.socket]
    BY <2>1, <2>3 DEF ServerInv, IInv, TypeOK
  <2> QED
    BY <1>1, <2>1, <2>2, <2>4, SilencedKept
<1> QED
  BY <1>2, <1>3, <1>4, <1>5, <1>6, <1>7 DEF ServerStep, Exit

LEMMA SilencedNext ==
  ServerInv /\ ServerInv' /\ ClientsInv /\ SilencedFor /\ [ChatNext]_chatVars => SilencedFor'
<1> SUFFICES ASSUME ServerInv, ServerInv', ClientsInv, SilencedFor, [ChatNext]_chatVars
             PROVE  SilencedFor'
  OBVIOUS
<1>1. CASE UNCHANGED <<connectedClients, peer, client, input>>
  BY <1>1 DEF SilencedFor, Records
<1>2. ASSUME NEW p \in Clients, C!ClientStep(p), Asides
      PROVE  SilencedFor'
  <2>1. StepOf(p)
    BY <1>2, ClientSteps
  <2>2. UNCHANGED <<connectedClients, peer>>
    BY <1>2 DEF Asides, serverVars
  <2> SUFFICES ASSUME NEW c \in Records, ~c.isLoggedIn
               PROVE  Silenced(client'[peer[c.socket]], input'[peer[c.socket]])
    BY <2>2 DEF SilencedFor, Records
  <2>3. Silenced(client[peer[c.socket]], input[peer[c.socket]])
    BY DEF SilencedFor
  <2>4. c.socket \in master_list /\ c.socket \in Fds /\ peer[c.socket] \in Clients
    BY Serving DEF ServerInv, IInv, RecordsMatchConnections
  <2>5. CASE peer[c.socket] = p
    <3>1. link[p] \notin {"none", "hung"}
      BY <2>4, <2>5 DEF ServerInv, OneConnection
    <3> QED
      BY <2>1, <2>3, <2>5, <3>1 DEF StepOf
  <2>6. CASE peer[c.socket] # p
    BY <2>1, <2>3, <2>4, <2>6 DEF StepOf
  <2> QED
    BY <2>5, <2>6
<1>3. CASE Restart \/ UNCHANGED chatVars
  BY <1>1, <1>3 DEF Restart, Start, Asides, serverVars, chatVars, vars, connVars
<1> QED
  BY <1>2, <1>3, SilencedServer DEF ChatNext

LEMMA ChatInvariance == ChatSpec => [](ServerInv /\ ClientsInv /\ SilencedFor)
<1>1. ChatInit => SilencedFor
  <2> SUFFICES ASSUME ChatInit PROVE SilencedFor
    OBVIOUS
  <2>1. connectedClients = << >>
    BY DEF ChatInit, Init
  <2>2. Records = {}
    BY <2>1, EmptySeq DEF Records, Range
  <2> QED
    BY <2>2 DEF SilencedFor
<1>2. ChatInit => ClientsInv
  BY OwnInit
<1>3. ServerInv /\ ClientsInv /\ [ChatNext]_chatVars => ClientsInv'
  BY ClientsNext
<1>4. ServerInv /\ ServerInv' /\ ClientsInv /\ SilencedFor /\ [ChatNext]_chatVars => SilencedFor'
  BY SilencedNext
<1> QED
  BY <1>1, <1>2, <1>3, <1>4, ChatServerInvariance, PTL DEF ChatSpec

----------------------------------------------------------------------------
(* What the two guarantee together.                                        *)

\* The variables of the clients have their types.
THEOREM ClientsTyped == ChatSpec => []ClientsTypeOK
<1>1. ClientsInv => ClientsTypeOK
  <2> SUFFICES ASSUME ClientsInv PROVE ClientsTypeOK
    OBVIOUS
  <2>1. \A p \in Clients : Own(client[p], link[p], input[p], output[p])
    BY DEF ClientsInv, OwnOf
  <2> QED
    BY <2>1 DEF ClientsInv, Own, C!ClientsOK, ClientsTypeOK
<1> QED
  BY <1>1, ChatInvariance, PTL

\* LOGIN, which connects when it finds the list empty, never finds it empty at a
\* client that has a connection: client_lists is emptied only while the answer
\* that fills it is awaited, and no answer is empty.
THEOREM OneConnectionOnly == ChatSpec => []NoSecondConnection
<1>1. ClientsInv => NoSecondConnection
  BY DEF ClientsInv, OwnOf, Own, NoSecondConnection
<1> QED
  BY <1>1, ChatInvariance, PTL

\* Whom the server takes for logged out has logged out and not come back, or its
\* LOGIN is the next thing the server reads from it.
THEOREM SilencedByChoice == ChatSpec => []SilencedOnlyByChoice
<1>1. ServerInv /\ ClientsInv /\ SilencedFor => SilencedOnlyByChoice
  <2> SUFFICES ASSUME ServerInv, ClientsInv, SilencedFor, NEW c \in Records, ~c.isLoggedIn,
                      client[peer[c.socket]].isLoggedIn
               PROVE  Bare("LOGIN") \in Range(input[peer[c.socket]])
    BY DEF SilencedOnlyByChoice
  <2> DEFINE w == input[peer[c.socket]]
  <2>1. Silenced(client[peer[c.socket]], w)
    BY DEF SilencedFor
  <2>2. peer[c.socket] \in Clients /\ w \in Seq(Command)
    BY Serving DEF ServerInv, IInv, RecordsMatchConnections, Unread
  <2>3. w # << >> /\ Head(w).op = "LOGIN"
    BY <2>1 DEF Silenced, Away
  <2>4. Head(w) = w[1] /\ Head(w) \in Command /\ 1 \in DOMAIN w
    <3>1. Len(w) \in Nat /\ Len(w) # 0 /\ DOMAIN w = 1..Len(w)
      BY <2>2, <2>3, LenProperties, EmptySeq
    <3> QED
      BY <2>2, <2>3, <3>1, HeadTailProperties
  <2>5. Head(w) = Bare("LOGIN")
    BY <2>3, <2>4 DEF Command, Bare, Targeted
  <2> QED
    BY <2>4, <2>5 DEF Range
<1> QED
  BY <1>1, ChatInvariance, PTL
==============================================================================
