--------------------------- MODULE ChatServerProofs ---------------------------
(***************************************************************************)
(* The safety of server.cpp for every number of client processes, hosts    *)
(* and descriptors, whatever the clients send.                             *)
(*                                                                         *)
(* The invariant is that records, descriptors and processes match, and     *)
(* that no record has the descriptor accept has just returned: it is one   *)
(* that was free, perhaps after another client had it.                     *)
(*                                                                         *)
(* That the server implements ChatService takes two more: each process has *)
(* one connection, and a port is the first thing the server reads of it.   *)
(***************************************************************************)
EXTENDS ChatServer, ListProofs

Unrecorded == \A c \in Records : c.socket # accepting

IInv ==
  /\ TypeOK
  /\ RecordsMatchConnections
  /\ Unrecorded

\* What RecordsMatchConnections says of connectedClients, of any records.
Match(clients) ==
  /\ \A i \in 1..Len(clients) :
       /\ clients[i].socket \in master_list
       /\ HostOf[peer[clients[i].socket]] = clients[i].ip
  /\ \A i, j \in 1..Len(clients) :
       i # j => clients[i].ip # clients[j].ip /\ clients[i].socket # clients[j].socket

\* Two lists with the records of the same clients in the same places.
SameClients(clients, others) ==
  /\ Len(clients) = Len(others)
  /\ \A i \in 1..Len(others) :
       clients[i].ip = others[i].ip /\ clients[i].socket = others[i].socket

\* What is put out goes to connections the server watches.
ToWatched(items) == \A item \in items : item.socket \in master_list

----------------------------------------------------------------------------
(* The records and the two ways to search them.                            *)

LEMMA Constants ==
  /\ NoClient \notin Clients
  /\ HostOf \in [Clients -> Hosts]
  /\ MaxFds \in Nat \ {0}
BY ConnectionsAssumption, ChatServerAssumption

LEMMA RecordType ==
  ASSUME NEW clients \in Seq(ListData), NEW i \in 1..Len(clients)
  PROVE  /\ clients[i] \in ListData
         /\ clients[i].ip \in Hosts
         /\ clients[i].socket \in Fds
         /\ clients[i].BlockList \in Seq(Addresses)
         /\ clients[i].isLoggedIn \in BOOLEAN
         /\ clients[i].num_msg_sent \in Nat
         /\ clients[i].num_msg_rcv \in Nat
         /\ clients[i].buffer \in Seq([src_IP : Hosts \union {""}, isSend : BOOLEAN])
<1>1. clients[i] \in ListData
  BY ElementOfSeq
<1> QED
  BY <1>1 DEF ListData

\* IndexOf finds the first record of an address, if there is one.
LEMMA IndexOfProperties ==
  ASSUME connectedClients \in Seq(ListData), NEW ip
  PROVE  /\ IndexOf(ip) \in 0..Len(connectedClients)
         /\ IndexOf(ip) # 0 => connectedClients[IndexOf(ip)].ip = ip
         /\ IndexOf(ip) = 0 => \A i \in 1..Len(connectedClients) : connectedClients[i].ip # ip
<1> DEFINE I == {i \in 1..Len(connectedClients) : connectedClients[i].ip = ip}
<1>1. IndexOf(ip) = IF I # {} THEN Min(I) ELSE 0
  BY DEF IndexOf, SelectInSeq
<1>2. Len(connectedClients) \in Nat /\ I \in SUBSET Nat
  BY LenProperties
<1>3. I # {} => Min(I) \in I
  <2> HIDE DEF I
  <2> QED
    BY <1>2, MinProperties
<1> QED
  BY <1>1, <1>2, <1>3

\* IndexAt does so for a connection.
LEMMA IndexAtProperties ==
  ASSUME connectedClients \in Seq(ListData), NEW fd
  PROVE  /\ IndexAt(fd) \in 0..Len(connectedClients)
         /\ IndexAt(fd) # 0 => connectedClients[IndexAt(fd)].socket = fd
         /\ IndexAt(fd) = 0 => \A i \in 1..Len(connectedClients) : connectedClients[i].socket # fd
<1> DEFINE I == {i \in 1..Len(connectedClients) : connectedClients[i].socket = fd}
<1>1. IndexAt(fd) = IF I # {} THEN Min(I) ELSE 0
  BY DEF IndexAt, SelectInSeq
<1>2. Len(connectedClients) \in Nat /\ I \in SUBSET Nat
  BY LenProperties
<1>3. I # {} => Min(I) \in I
  <2> HIDE DEF I
  <2> QED
    BY <1>2, MinProperties
<1> QED
  BY <1>1, <1>2, <1>3

LEMMA RecordsMatch ==
  ASSUME connectedClients \in Seq(ListData)
  PROVE  RecordsMatchConnections <=> Match(connectedClients)
<1>1. DOMAIN connectedClients = 1..Len(connectedClients)
  BY LenProperties
<1> QED
  BY <1>1 DEF RecordsMatchConnections, Match, Records, Range

\* Each record is found by its address and by its connection.
LEMMA IndexUnique ==
  ASSUME connectedClients \in Seq(ListData), Match(connectedClients),
         NEW i \in 1..Len(connectedClients)
  PROVE  /\ IndexOf(connectedClients[i].ip) = i
         /\ IndexAt(connectedClients[i].socket) = i
<1>1. Len(connectedClients) \in Nat
  BY LenProperties
<1>2. IndexOf(connectedClients[i].ip) = i
  BY <1>1, IndexOfProperties DEF Match
<1>3. IndexAt(connectedClients[i].socket) = i
  BY <1>1, IndexAtProperties DEF Match
<1> QED
  BY <1>2, <1>3

LEMMA SameClientsMatch ==
  ASSUME NEW clients, NEW others, SameClients(clients, others), Match(others)
  PROVE  Match(clients)
BY DEF SameClients, Match

\* The address of the process at the other end of a connection is the one its
\* record, if there is one, has.
LEMMA SourceIPProperties ==
  ASSUME IInv, NEW fd \in Fds
  PROVE  /\ SourceIP(fd) \in Hosts \union {""}
         /\ IndexAt(fd) # 0 =>
              /\ SourceIP(fd) = RecordAt(fd).ip
              /\ SourceIP(fd) = HostOf[peer[fd]]
         /\ SourceIP(fd) \in {HostOf[peer[fd]], ""}
<1>1. connectedClients \in Seq(ListData) /\ Match(connectedClients)
  BY RecordsMatch DEF IInv, TypeOK
<1>2. CASE IndexAt(fd) = 0
  BY <1>2 DEF SourceIP
<1>3. CASE IndexAt(fd) # 0
  <2>1. IndexAt(fd) \in 1..Len(connectedClients) /\ connectedClients[IndexAt(fd)].socket = fd
    BY <1>1, <1>3, IndexAtProperties, LenProperties
  <2>2. /\ connectedClients[IndexAt(fd)].ip = HostOf[peer[fd]]
        /\ connectedClients[IndexAt(fd)].ip \in Hosts
    BY <1>1, <2>1, RecordType DEF Match
  <2> QED
    BY <1>3, <2>2 DEF SourceIP, RecordAt
<1> QED
  BY <1>2, <1>3

----------------------------------------------------------------------------
(* What the handlers make of the records.                                  *)

LEMMA ChangedAtProperties ==
  ASSUME connectedClients \in Seq(ListData), NEW fd, NEW changed,
         IndexAt(fd) # 0 => /\ changed \in ListData
                            /\ changed.ip = RecordAt(fd).ip
                            /\ changed.socket = RecordAt(fd).socket
  PROVE  /\ ChangedAt(fd, changed) \in Seq(ListData)
         /\ SameClients(ChangedAt(fd, changed), connectedClients)
         /\ \A i \in 1..Len(connectedClients) :
              ChangedAt(fd, changed)[i] =
                IF IndexAt(fd) = i THEN changed ELSE connectedClients[i]
<1>1. IndexAt(fd) \in 0..Len(connectedClients) /\ Len(connectedClients) \in Nat
  BY IndexAtProperties, LenProperties
<1>2. CASE IndexAt(fd) = 0
  BY <1>1, <1>2 DEF ChangedAt, SameClients
<1>3. CASE IndexAt(fd) # 0
  <2>1. ChangedAt(fd, changed) = [connectedClients EXCEPT ![IndexAt(fd)] = changed]
    BY <1>3 DEF ChangedAt, ReplaceAt
  <2>2. /\ ChangedAt(fd, changed) \in Seq(ListData)
        /\ Len(ChangedAt(fd, changed)) = Len(connectedClients)
        /\ \A i \in 1..Len(connectedClients) :
             ChangedAt(fd, changed)[i] =
               IF i = IndexAt(fd) THEN changed ELSE connectedClients[i]
    BY <1>1, <1>3, <2>1, ExceptSeq
  <2> QED
    BY <1>3, <2>2 DEF SameClients, RecordAt
<1> QED
  BY <1>2, <1>3

\* UNBLOCK leaves every other entry of the list, and no new one.
LEMMA UnblockedProperties ==
  ASSUME NEW blockList \in Seq(Addresses), NEW ip
  PROVE  /\ Unblocked(blockList, ip) \in Seq(Addresses)
         /\ Range(Unblocked(blockList, ip)) \in {Range(blockList), Range(blockList) \ {ip}}
<1> DEFINE n == Len(blockList)
           row(i) == {j \in 1..i : \A k \in j..i : blockList[k] = ip}
           kept == {i \in DOMAIN blockList : Cardinality(row(i)) % 2 = 0}
           nth(m) == CHOOSE i \in kept : Cardinality({j \in kept : j <= i}) = m
           left == [m \in 1..Cardinality(kept) |-> blockList[nth(m)]]
<1>1. /\ n \in Nat /\ DOMAIN blockList = 1..n
      /\ \A i \in 1..n : blockList[i] \in Addresses
  BY LenProperties, ElementOfSeq
<1>2. \A i \in 1..n : blockList[i] # ip => i \in kept
  <2> SUFFICES ASSUME NEW i \in 1..n, blockList[i] # ip PROVE i \in kept
    OBVIOUS
  <2>1. row(i) = {}
    <3> SUFFICES ASSUME NEW j \in row(i) PROVE FALSE
      OBVIOUS
    <3>1. i \in j..i
      OBVIOUS
    <3> QED
      BY <3>1
  <2>2. Cardinality(row(i)) = 0
    BY <2>1, FS_EmptySet
  <2> QED
    BY <1>1, <2>2
<1>3. kept \in SUBSET (1..n)
  BY <1>1
<1>4. Unblocked(blockList, ip) = left
  BY DEF Unblocked
<1> HIDE DEF kept, n
<1>5. /\ Cardinality(kept) \in Nat
      /\ \A i \in kept : Cardinality({j \in kept : j <= i}) \in 1..Cardinality(kept)
      /\ \A i, k \in kept :
           Cardinality({j \in kept : j <= i}) = Cardinality({j \in kept : j <= k}) => i = k
      /\ \A m \in 1..Cardinality(kept) :
           \E i \in kept : Cardinality({j \in kept : j <= i}) = m
  BY <1>1, <1>3, Ranking
<1>6. \A m \in 1..Cardinality(kept) :
        nth(m) \in kept /\ Cardinality({j \in kept : j <= nth(m)}) = m
  BY <1>5
<1>7. ASSUME NEW i \in kept
      PROVE  \E m \in 1..Cardinality(kept) : nth(m) = i
  <2> DEFINE m == Cardinality({j \in kept : j <= i})
  <2>1. m \in 1..Cardinality(kept) /\ nth(m) \in kept
        /\ Cardinality({j \in kept : j <= nth(m)}) = m
    BY <1>5, <1>6
  <2>2. nth(m) = i
    BY <1>5, <2>1
  <2> QED
    BY <2>1, <2>2
<1> HIDE DEF nth
<1>8. left \in Seq(Addresses)
  <2>1. \A m \in 1..Cardinality(kept) : blockList[nth(m)] \in Addresses
    BY <1>1, <1>3, <1>6
  <2> QED
    BY <1>5, <2>1, IsASeq
<1>9. Range(left) = {blockList[i] : i \in kept}
  <2>1. Range(left) = {blockList[nth(m)] : m \in 1..Cardinality(kept)}
    BY DEF Range
  <2> QED
    BY <1>6, <1>7, <2>1
<1>10. Range(blockList) = {blockList[i] : i \in 1..n}
  BY <1>1 DEF Range
<1>11. Range(left) \in {Range(blockList), Range(blockList) \ {ip}}
  BY <1>2, <1>3, <1>9, <1>10
<1> QED
  BY <1>4, <1>8, <1>11

LEMMA Watched ==
  ASSUME TypeOK, NEW fd \in master_list
  PROVE  fd \in Fds /\ peer[fd] \in Clients /\ peer[fd] \in Range(peer)
BY DEF TypeOK, master_list, Range

\* What a handler puts out is among the items it was to put out.
LEMMA HandleOut ==
  ASSUME NEW fd, NEW k, NEW items, NEW clients, Handle(fd, k, items, clients)
  PROVE  out' \subseteq items
BY DEF Handle

LEMMA EndsInv ==
  ASSUME IInv, Ends
  PROVE  IInv'
<1>1. /\ up' = FALSE /\ link' \in [Clients -> Links] /\ backlog' = << >>
      /\ input' = [p \in Clients |-> << >>] /\ UNCHANGED <<commands, starts>>
      /\ connectedClients' = << >> /\ accepting' = 0 /\ reset' = {}
      /\ peer' = [fd \in Fds |-> NoClient]
  BY DEF Ends, HangUp, IInv, TypeOK, ConnectionsOK, Links
<1>2. /\ << >> \in Seq(Clients) /\ << >> \in Seq(ListData) /\ << >> \in Seq(Command)
      /\ DOMAIN << >> = {}
  BY EmptySeq
<1>3. ConnectionsOK'
  BY <1>1, <1>2 DEF IInv, TypeOK, ConnectionsOK
<1>4. peer' \in [Fds -> Clients \union {NoClient}]
  BY <1>1
<1>5. TypeOK'
  BY <1>1, <1>2, <1>3, <1>4 DEF TypeOK
<1>6. Records' = {}
  BY <1>1, <1>2 DEF Records, Range
<1> QED
  BY <1>1, <1>2, <1>5, <1>6 DEF IInv, RecordsMatchConnections, Unrecorded

\* A handler keeps the invariant, if its records and items do.
LEMMA HandleInv ==
  ASSUME IInv, NEW fd \in master_list, NEW k \in Nat, NEW items, ToWatched(items),
         NEW clients \in Seq(ListData), Match(clients), Handle(fd, k, items, clients)
  PROVE  IInv'
<1>1. CASE Ends
  BY <1>1, EndsInv
<1>2. CASE ~Ends
  <2>1. /\ out' = items
        /\ connectedClients' = clients
        /\ input' = [input EXCEPT ![peer[fd]] = SubSeq(@, k + 1, Len(@))]
        /\ reset' = reset \union {p \in Clients : /\ link[p] = "ended"
                                                /\ \E item \in items : peer[item.socket] = p}
        /\ accepting' = 0
        /\ UNCHANGED <<peer, up, link, backlog, commands, starts>>
    BY <1>2 DEF Handle
  <2>2. peer[fd] \in Clients /\ input[peer[fd]] \in Seq(Command) /\ TypeOK
    BY Watched DEF IInv, TypeOK, ConnectionsOK
  <2>3. SubSeq(input[peer[fd]], k + 1, Len(input[peer[fd]])) \in Seq(Command)
    <3>1. /\ k + 1 \in Int /\ Len(input[peer[fd]]) \in Int
          /\ \A j \in k + 1..Len(input[peer[fd]]) : input[peer[fd]][j] \in Command
      BY <2>2, LenProperties, ElementOfSeq
    <3> QED
      BY <3>1, SubSeqProperties
  <2>4. ConnectionsOK'
    BY <2>1, <2>2, <2>3 DEF TypeOK, ConnectionsOK
  <2>5. master_list' = master_list
    BY <2>1 DEF master_list
  <2>6. reset' \subseteq {p \in Range(peer) : p # NoClient /\ link[p] = "ended"}
    BY <2>1, <2>2, Watched, Constants DEF TypeOK, ToWatched
  <2>7. TypeOK'
    BY <2>1, <2>2, <2>4, <2>5, <2>6 DEF TypeOK, ToWatched
  <2>8. RecordsMatchConnections'
    <3>1. DOMAIN clients = 1..Len(clients)
      BY LenProperties
    <3> QED
      BY <2>1, <2>5, <3>1 DEF RecordsMatchConnections, Match, Records, Range
  <2>9. Unrecorded'
    BY <2>1, <2>5, <2>8, <2>7 DEF Unrecorded, RecordsMatchConnections, master_list, Fds
  <2> QED
    BY <2>7, <2>8, <2>9 DEF IInv
<1> QED
  BY <1>1, <1>2

----------------------------------------------------------------------------
(* The invariant holds initially and is kept by every step.                *)

LEMMA InitInv == Init => IInv
<1> SUFFICES ASSUME Init PROVE IInv
  OBVIOUS
<1>1. /\ << >> \in Seq(Clients) /\ << >> \in Seq(ListData) /\ << >> \in Seq(Command)
      /\ DOMAIN << >> = {}
  BY EmptySeq
<1>2. ConnectionsOK
  BY <1>1, ConnectionsAssumption DEF Init, ConnectionsInit, ConnectionsOK, Links
<1>3. TypeOK
  BY <1>1, <1>2 DEF Init, TypeOK
<1>4. Records = {}
  BY <1>1 DEF Init, Records, Range
<1> QED
  BY <1>1, <1>3, <1>4 DEF IInv, Init, RecordsMatchConnections, Unrecorded

\* The facts every handler starts from.
LEMMA Serving ==
  ASSUME IInv, NEW fd \in master_list
  PROVE  /\ connectedClients \in Seq(ListData) /\ Match(connectedClients)
         /\ Len(connectedClients) \in Nat
         /\ DOMAIN connectedClients = 1..Len(connectedClients)
         /\ fd \in Fds /\ peer[fd] \in Clients
         /\ Unread(fd) \in Seq(Command) /\ Len(Unread(fd)) \in Nat
         /\ IndexAt(fd) # 0 =>
              IndexAt(fd) \in 1..Len(connectedClients) /\ RecordAt(fd) \in ListData
<1>1. connectedClients \in Seq(ListData) /\ Match(connectedClients)
  BY RecordsMatch DEF IInv, TypeOK
<1>2. fd \in Fds /\ peer[fd] \in Clients
  BY Watched DEF IInv
<1>3. Unread(fd) \in Seq(Command)
  BY <1>2 DEF Unread, IInv, TypeOK, ConnectionsOK
<1>4. IndexAt(fd) # 0 =>
        IndexAt(fd) \in 1..Len(connectedClients) /\ RecordAt(fd) \in ListData
  <2>1. IndexAt(fd) # 0 => IndexAt(fd) \in 1..Len(connectedClients)
    BY <1>1, IndexAtProperties, LenProperties
  <2> QED
    BY <1>1, <2>1, ElementOfSeq DEF RecordAt
<1> QED
  BY <1>1, <1>2, <1>3, <1>4, LenProperties

\* A command that names an address names one of Addresses.
LEMMA TargetType ==
  ASSUME IInv, NEW fd \in master_list, NEW k, NEW op \in Targeted, Reads(fd, k, op)
  PROVE  Target(fd) \in Addresses
<1>1. Unread(fd) \in Seq(Command) /\ Unread(fd) # << >>
  <2>1. Unread(fd) \in Seq(Command) /\ Len(Unread(fd)) \in Nat
    BY Serving
  <2>2. Len(Unread(fd)) # 0
    BY <2>1 DEF Reads
  <2> QED
    BY <2>1, <2>2, EmptySeq
<1>2. Head(Unread(fd)) \in Command
  BY <1>1, HeadTailProperties
<1> QED
  BY <1>2 DEF Target, Reads, Command, Addresses

\* A handler that changes at most the record of its connection, and not whose
\* it is, and puts out nothing or the list to this or to some connection.
LEMMA ChangeInv ==
  ASSUME IInv, NEW fd \in master_list, NEW k \in Nat, NEW items, ToWatched(items),
         NEW changed,
         IndexAt(fd) # 0 => /\ changed \in ListData
                            /\ changed.ip = RecordAt(fd).ip
                            /\ changed.socket = RecordAt(fd).socket,
         Handle(fd, k, items, ChangedAt(fd, changed))
  PROVE  IInv'
<1>1. connectedClients \in Seq(ListData) /\ Match(connectedClients)
  BY Serving
<1>2. /\ ChangedAt(fd, changed) \in Seq(ListData)
      /\ SameClients(ChangedAt(fd, changed), connectedClients)
  BY <1>1, ChangedAtProperties
<1>3. Match(ChangedAt(fd, changed))
  BY <1>1, <1>2, SameClientsMatch
<1> QED
  BY <1>2, <1>3, HandleInv

LEMMA UnknownInv ==
  ASSUME IInv, NEW fd \in master_list, Unknown(fd)
  PROVE  IInv'
<1>1. PICK k \in 2..Len(Unread(fd)) : Handle(fd, k, {}, connectedClients)
  BY DEF Unknown
<1>2. k \in Nat /\ ToWatched({})
  BY <1>1, Serving DEF ToWatched
<1> QED
  BY <1>1, <1>2, Serving, HandleInv

LEMMA RefreshInv ==
  ASSUME IInv, NEW fd \in master_list, Refresh(fd)
  PROVE  IInv'
<1> DEFINE items == {ListOf(fd, clientList(connectedClients))}
<1>1. Handle(fd, 1, items, connectedClients)
  BY DEF Refresh
<1>2. ToWatched(items)
  BY DEF ToWatched, ListOf
<1> QED
  BY <1>1, <1>2, Serving, HandleInv

LEMMA BlockInv ==
  ASSUME IInv, NEW fd \in master_list, Block(fd)
  PROVE  IInv'
<1> DEFINE changed == [RecordAt(fd) EXCEPT !.BlockList = Append(@, Target(fd))]
<1>1. PICK k \in 1..Len(Unread(fd)) :
        Reads(fd, k, "BLOCK") /\ Handle(fd, k, {}, ChangedAt(fd, changed))
  BY DEF Block
<1>2. k \in Nat /\ ToWatched({})
  BY <1>1, Serving DEF ToWatched
<1>3. Target(fd) \in Addresses
  BY <1>1, TargetType DEF Targeted
<1>4. IndexAt(fd) # 0 => /\ changed \in ListData
                         /\ changed.ip = RecordAt(fd).ip
                         /\ changed.socket = RecordAt(fd).socket
  BY <1>3, Serving, AppendProperties DEF ListData
<1> QED
  BY <1>1, <1>2, <1>4, ChangeInv

LEMMA UnblockInv ==
  ASSUME IInv, NEW fd \in master_list, Unblock(fd)
  PROVE  IInv'
<1> DEFINE changed == [RecordAt(fd) EXCEPT !.BlockList = Unblocked(@, Target(fd))]
<1>1. PICK k \in 1..Len(Unread(fd)) :
        Reads(fd, k, "UNBLOCK") /\ Handle(fd, k, {}, ChangedAt(fd, changed))
  BY DEF Unblock
<1>2. k \in Nat /\ ToWatched({})
  BY <1>1, Serving DEF ToWatched
<1>3. IndexAt(fd) # 0 => /\ changed \in ListData
                         /\ changed.ip = RecordAt(fd).ip
                         /\ changed.socket = RecordAt(fd).socket
  BY Serving, UnblockedProperties DEF ListData
<1> QED
  BY <1>1, <1>2, <1>3, ChangeInv

LEMMA LogoutInv ==
  ASSUME IInv, NEW fd \in master_list, Logout(fd)
  PROVE  IInv'
<1> DEFINE changed == [RecordAt(fd) EXCEPT !.isLoggedIn = FALSE]
<1>1. Handle(fd, 1, {}, ChangedAt(fd, changed)) /\ ToWatched({})
  BY DEF Logout, ToWatched
<1>2. IndexAt(fd) # 0 => /\ changed \in ListData
                         /\ changed.ip = RecordAt(fd).ip
                         /\ changed.socket = RecordAt(fd).socket
  BY Serving DEF ListData
<1> QED
  BY <1>1, <1>2, ChangeInv

LEMMA LoginInv ==
  ASSUME IInv, NEW fd \in master_list, Login(fd)
  PROVE  IInv'
<1> DEFINE list(to) == ListOf(to, clientList(connectedClients))
           changed == [RecordAt(fd) EXCEPT !.isLoggedIn = TRUE]
<1>1. PICK k \in 1..Len(Unread(fd)),
           items \in IF IndexAt(fd) # 0 THEN {{list(fd)}}
                     ELSE Anywhere({list(to) : to \in master_list}) :
        Handle(fd, k, items, LoggedIn(fd))
  BY DEF Login
<1>2. k \in Nat
  BY <1>1, Serving
<1>3. ToWatched(items)
  BY <1>1 DEF ToWatched, Anywhere, ListOf
<1>4. IndexAt(fd) # 0 => /\ changed \in ListData
                         /\ changed.ip = RecordAt(fd).ip
                         /\ changed.socket = RecordAt(fd).socket
  BY Serving DEF ListData
<1> QED
  BY <1>1, <1>2, <1>3, <1>4, ChangeInv DEF LoggedIn

\* Two records of one client that differ at most in their counters and buffers.
SameStanding(new, old) ==
  /\ new.ip = old.ip /\ new.socket = old.socket
  /\ new.BlockList = old.BlockList /\ new.isLoggedIn = old.isLoggedIn

LEMMA ReceivedRecord ==
  ASSUME NEW c \in ListData, NEW n \in Nat, NEW new, new = [c EXCEPT !.num_msg_rcv = @ + n]
  PROVE  /\ new \in ListData /\ SameStanding(new, c)
         /\ new.num_msg_rcv = c.num_msg_rcv + n
         /\ new.num_msg_sent = c.num_msg_sent
<1>1. c.num_msg_rcv \in Nat
  BY DEF ListData
<1>2. PICK v \in Nat : v = c.num_msg_rcv + n
  BY <1>1
<1>3. new = [c EXCEPT !.num_msg_rcv = v]
  BY <1>2
<1> QED
  BY <1>2, <1>3 DEF ListData, SameStanding

LEMMA SentRecord ==
  ASSUME NEW c \in ListData, NEW n \in Nat, NEW new, new = [c EXCEPT !.num_msg_sent = @ + n]
  PROVE  /\ new \in ListData /\ SameStanding(new, c)
         /\ new.num_msg_rcv = c.num_msg_rcv
         /\ new.num_msg_sent = c.num_msg_sent + n
<1>1. c.num_msg_sent \in Nat
  BY DEF ListData
<1>2. PICK v \in Nat : v = c.num_msg_sent + n
  BY <1>1
<1>3. new = [c EXCEPT !.num_msg_sent = v]
  BY <1>2
<1> QED
  BY <1>2, <1>3 DEF ListData, SameStanding

\* send_msg to a set of records counts one message at each of them.
LEMMA CountReceivedProperties ==
  ASSUME IInv, NEW reached \in SUBSET (1..Len(connectedClients)),
         NEW j \in 1..Len(connectedClients)
  PROVE  LET counted == CountReceived(connectedClients, reached)[j]
         IN  /\ counted \in ListData
             /\ SameStanding(counted, connectedClients[j])
             /\ counted.num_msg_sent = connectedClients[j].num_msg_sent
             /\ counted.num_msg_rcv =
                  connectedClients[j].num_msg_rcv + (IF j \in reached THEN 1 ELSE 0)
<1> DEFINE hits == {i \in reached : IndexOf(connectedClients[i].ip) = j}
<1>1. /\ connectedClients \in Seq(ListData) /\ Match(connectedClients)
      /\ DOMAIN connectedClients = 1..Len(connectedClients)
      /\ connectedClients[j] \in ListData
  BY RecordsMatch, LenProperties, ElementOfSeq DEF IInv, TypeOK
<1>2. \A i \in reached : IndexOf(connectedClients[i].ip) = i
  BY <1>1, IndexUnique
<1>3. hits = IF j \in reached THEN {j} ELSE {}
  BY <1>2
<1>4. Cardinality(hits) = IF j \in reached THEN 1 ELSE 0
  BY <1>3, FS_EmptySet, FS_Singleton
<1>5. CountReceived(connectedClients, reached)[j] =
        [connectedClients[j] EXCEPT !.num_msg_rcv = @ + Cardinality(hits)]
  BY <1>1 DEF CountReceived
<1> DEFINE n == Cardinality(hits)
<1>6. n \in Nat
  BY <1>4
<1> HIDE DEF hits, n
<1> DEFINE counted == CountReceived(connectedClients, reached)[j]
<1>7. counted = [connectedClients[j] EXCEPT !.num_msg_rcv = @ + n]
  BY <1>5 DEF n
<1> HIDE DEF counted
<1>8. /\ counted \in ListData
      /\ SameStanding(counted, connectedClients[j])
      /\ counted.num_msg_sent = connectedClients[j].num_msg_sent
      /\ counted.num_msg_rcv = connectedClients[j].num_msg_rcv + n
  BY <1>1, <1>6, <1>7, ReceivedRecord
<1> QED
  BY <1>4, <1>8 DEF n, counted

\* A message to a record goes out on the connection of that record.
LEMMA MessagesToProperties ==
  ASSUME IInv, NEW src, NEW reached \in SUBSET (1..Len(connectedClients))
  PROVE  /\ MessagesTo(src, reached) =
              {Chat(connectedClients[i].socket, src, connectedClients[i].ip) : i \in reached}
         /\ ToWatched(MessagesTo(src, reached))
<1>1. connectedClients \in Seq(ListData) /\ Match(connectedClients)
  BY RecordsMatch DEF IInv, TypeOK
<1>2. \A i \in reached : IndexOf(connectedClients[i].ip) = i
  BY <1>1, IndexUnique
<1>3. MessagesTo(src, reached) =
        {Chat(connectedClients[i].socket, src, connectedClients[i].ip) : i \in reached}
  BY <1>2 DEF MessagesTo
<1>4. \A i \in reached : connectedClients[i].socket \in master_list
  BY <1>1 DEF Match
<1> QED
  BY <1>3, <1>4 DEF ToWatched, Chat

\* A handling of SEND that reaches these records, and what it leaves of them all.
Sending(fd, k, items, clients, reached) ==
  /\ Reads(fd, k, "SEND")
  /\ Handle(fd, k, items, clients)
  /\ Len(clients) = Len(connectedClients)
  /\ \A i \in 1..Len(connectedClients) :
       /\ SameStanding(clients[i], connectedClients[i])
       /\ clients[i].num_msg_sent =
            connectedClients[i].num_msg_sent + (IF i = IndexAt(fd) THEN 1 ELSE 0)
       /\ clients[i].num_msg_rcv =
            connectedClients[i].num_msg_rcv + (IF i \in reached THEN 1 ELSE 0)
  /\ reached = {i \in {IndexOf(Target(fd))} \ {0} : Relayed(SourceIP(fd), i)}
  /\ \/ items = MessagesTo(SourceIP(fd), reached)
     \/ /\ IndexOf(Target(fd)) = 0 /\ reached = {}
        /\ items \in Anywhere({Chat(to, SourceIP(fd), Target(fd)) : to \in master_list})

\* The same of BROADCAST, which may add to the buffer of a record.
Broadcasting(fd, k, clients, reached) ==
  /\ Reads(fd, k, "BROADCAST")
  /\ Handle(fd, k, MessagesTo(SourceIP(fd), reached), clients)
  /\ Len(clients) = Len(connectedClients)
  /\ \A i \in 1..Len(connectedClients) :
       /\ SameStanding(clients[i], connectedClients[i])
       /\ clients[i].num_msg_sent = connectedClients[i].num_msg_sent
       /\ clients[i].num_msg_rcv =
            connectedClients[i].num_msg_rcv + (IF i \in reached THEN 1 ELSE 0)
  /\ \A i \in reached : Relayed(SourceIP(fd), i) /\ connectedClients[i].ip # SourceIP(fd)

LEMMA SendProperties ==
  ASSUME IInv, NEW fd \in master_list, Send(fd)
  PROVE  \E k, items, clients, reached :
           /\ k \in Nat \ {0} /\ clients \in Seq(ListData)
           /\ reached \in SUBSET (1..Len(connectedClients))
           /\ Sending(fd, k, items, clients, reached)
<1> DEFINE dest == Target(fd)
           src == SourceIP(fd)
           reached == {i \in {IndexOf(dest)} \ {0} : Relayed(src, i)}
           counted(i) == CountReceived(connectedClients, reached)[i]
           new(i) == [counted(i) EXCEPT !.num_msg_sent = IF i = IndexAt(fd) THEN @ + 1 ELSE @]
           clients == [i \in DOMAIN connectedClients |-> new(i)]
<1>1. PICK k \in 1..Len(Unread(fd)) :
        \E items \in IF IndexOf(dest) # 0 THEN {MessagesTo(src, reached)}
                     ELSE Anywhere({Chat(to, src, dest) : to \in master_list}) :
        Reads(fd, k, "SEND") /\ Handle(fd, k, items, clients)
  BY DEF Send
<1>2. /\ connectedClients \in Seq(ListData) /\ Len(connectedClients) \in Nat
      /\ DOMAIN connectedClients = 1..Len(connectedClients)
      /\ k \in Nat \ {0}
  BY <1>1, Serving
<1>3. reached \in SUBSET (1..Len(connectedClients))
  BY <1>2, IndexOfProperties
<1>4. reached = {i \in {IndexOf(dest)} \ {0} : Relayed(src, i)}
  OBVIOUS
<1>5. PICK items :
        /\ Reads(fd, k, "SEND") /\ Handle(fd, k, items, clients)
        /\ \/ items = MessagesTo(src, reached)
           \/ /\ IndexOf(dest) = 0 /\ reached = {}
              /\ items \in Anywhere({Chat(to, src, dest) : to \in master_list})
  BY <1>1
<1> HIDE DEF reached, dest, src
<1>6. ASSUME NEW i \in 1..Len(connectedClients)
      PROVE  /\ new(i) \in ListData
             /\ SameStanding(new(i), connectedClients[i])
             /\ new(i).num_msg_sent =
                  connectedClients[i].num_msg_sent + (IF i = IndexAt(fd) THEN 1 ELSE 0)
             /\ new(i).num_msg_rcv =
                  connectedClients[i].num_msg_rcv + (IF i \in reached THEN 1 ELSE 0)
  <2>1. /\ counted(i) \in ListData
        /\ SameStanding(counted(i), connectedClients[i])
        /\ counted(i).num_msg_sent = connectedClients[i].num_msg_sent
        /\ counted(i).num_msg_rcv =
             connectedClients[i].num_msg_rcv + (IF i \in reached THEN 1 ELSE 0)
    BY <1>3, CountReceivedProperties
  <2>2. \/ /\ i = IndexAt(fd)
           /\ new(i) = [counted(i) EXCEPT !.num_msg_sent = @ + 1]
        \/ /\ i # IndexAt(fd)
           /\ new(i) = [counted(i) EXCEPT !.num_msg_sent = @]
    BY Zenon
  <2> HIDE DEF counted, new
  <2>3. /\ new(i) \in ListData
        /\ SameStanding(new(i), counted(i))
        /\ new(i).num_msg_rcv = counted(i).num_msg_rcv
        /\ new(i).num_msg_sent =
             counted(i).num_msg_sent + (IF i = IndexAt(fd) THEN 1 ELSE 0)
    <3>1. CASE i = IndexAt(fd)
      <4>1. new(i) = [counted(i) EXCEPT !.num_msg_sent = @ + 1] /\ 1 \in Nat
        BY <2>2, <3>1
      <4>2. /\ new(i) \in ListData /\ SameStanding(new(i), counted(i))
            /\ new(i).num_msg_rcv = counted(i).num_msg_rcv
            /\ new(i).num_msg_sent = counted(i).num_msg_sent + 1
        BY <2>1, <4>1, SentRecord
      <4>3. (IF i = IndexAt(fd) THEN 1 ELSE 0) = 1
        BY <3>1
      <4> QED
        BY <4>2, <4>3, Zenon
    <3>2. CASE i # IndexAt(fd)
      <4>1. counted(i).num_msg_sent + 0 = counted(i).num_msg_sent
        <5>1. counted(i).num_msg_sent \in Nat
          BY <2>1 DEF ListData
        <5> QED
          BY <5>1
      <4>2. new(i) = [counted(i) EXCEPT !.num_msg_sent = @ + 0] /\ 0 \in Nat
        BY <2>2, <3>2, <4>1
      <4> QED
        BY <2>1, <3>2, <4>2, SentRecord
    <3> QED
      BY <3>1, <3>2
  <2> QED
    BY <2>1, <2>3 DEF SameStanding
<1>7. \A i \in 1..Len(connectedClients) : clients[i] = new(i)
  BY <1>2
<1> HIDE DEF new
<1>8. clients \in Seq(ListData) /\ Len(clients) = Len(connectedClients)
  <2>1. PICK n \in Nat : n = Len(connectedClients)
    BY <1>2
  <2>2. clients = [i \in 1..n |-> new(i)]
    BY <1>2, <2>1
  <2>3. \A i \in 1..n : new(i) \in ListData
    BY <1>6, <2>1
  <2>4. Len([i \in 1..n |-> new(i)]) = n
    OBVIOUS
  <2> QED
    BY <2>1, <2>2, <2>3, <2>4, IsASeq
<1> HIDE DEF clients
<1>9. Sending(fd, k, items, clients, reached)
  BY <1>4, <1>5, <1>6, <1>7, <1>8 DEF Sending, src, dest
<1> QED
  BY <1>2, <1>3, <1>8, <1>9

LEMMA BroadcastProperties ==
  ASSUME IInv, NEW fd \in master_list, Broadcast(fd)
  PROVE  \E k, clients, reached :
           /\ k \in Nat \ {0} /\ clients \in Seq(ListData)
           /\ reached \in SUBSET (1..Len(connectedClients))
           /\ Broadcasting(fd, k, clients, reached)
<1> DEFINE src == SourceIP(fd)
           reached == Reached(src)
           counted(i) == CountReceived(connectedClients, reached)[i]
           entry == [src_IP |-> src, isSend |-> FALSE]
           stored(i) == i \in Others(src) /\ ~connectedClients[i].isLoggedIn
           new(i) == [counted(i) EXCEPT !.buffer = IF stored(i) THEN Append(@, entry) ELSE @]
           clients == [i \in DOMAIN connectedClients |-> new(i)]
<1>1. PICK k \in 1..Len(Unread(fd)) :
        Reads(fd, k, "BROADCAST") /\ Handle(fd, k, MessagesTo(src, reached), clients)
  BY Zenon DEF Broadcast
<1>2. /\ connectedClients \in Seq(ListData) /\ Len(connectedClients) \in Nat
      /\ DOMAIN connectedClients = 1..Len(connectedClients)
      /\ k \in Nat \ {0} /\ src \in Hosts \union {""}
  <2>1. fd \in Fds /\ Len(Unread(fd)) \in Nat
    BY Serving
  <2>2. src \in Hosts \union {""}
    BY <2>1, SourceIPProperties
  <2>3. k \in Nat \ {0}
    BY <2>1
  <2> HIDE DEF src
  <2> QED
    BY <2>2, <2>3, Serving
<1>3. reached \in SUBSET (1..Len(connectedClients))
  BY <1>2 DEF Reached, Others
<1>4. \A i \in reached : Relayed(src, i) /\ connectedClients[i].ip # src
  <2> SUFFICES ASSUME NEW i \in reached
               PROVE  Relayed(src, i) /\ connectedClients[i].ip # src
    OBVIOUS
  <2>1. i \in Others(src) /\ i <= i
    <3>1. i \in Nat
      <4> HIDE DEF reached
      <4>1. i \in 1..Len(connectedClients)
        BY <1>3
      <4> QED
        BY <4>1
    <3>2. i <= i
      BY <3>1
    <3>3. i \in Others(src)
      BY Zenon DEF Reached
    <3> QED
      BY <3>2, <3>3
  <2> QED
    BY <2>1 DEF Reached, Relayed, Others
<1> HIDE DEF reached, src
<1>5. ASSUME NEW i \in 1..Len(connectedClients)
      PROVE  /\ new(i) \in ListData
             /\ SameStanding(new(i), connectedClients[i])
             /\ new(i).num_msg_sent = connectedClients[i].num_msg_sent
             /\ new(i).num_msg_rcv =
                  connectedClients[i].num_msg_rcv + (IF i \in reached THEN 1 ELSE 0)
  <2>1. /\ counted(i) \in ListData
        /\ SameStanding(counted(i), connectedClients[i])
        /\ counted(i).num_msg_sent = connectedClients[i].num_msg_sent
        /\ counted(i).num_msg_rcv =
             connectedClients[i].num_msg_rcv + (IF i \in reached THEN 1 ELSE 0)
    BY <1>3, CountReceivedProperties
  <2>2. /\ entry \in [src_IP : Hosts \union {""}, isSend : BOOLEAN]
        /\ counted(i).buffer \in Seq([src_IP : Hosts \union {""}, isSend : BOOLEAN])
    BY <1>2, <2>1 DEF ListData
  <2>3. \/ new(i) = [counted(i) EXCEPT !.buffer = Append(@, entry)]
        \/ new(i) = [counted(i) EXCEPT !.buffer = @]
    BY Zenon
  <2> HIDE DEF stored, new, counted, entry
  <2>4. Append(counted(i).buffer, entry) \in Seq([src_IP : Hosts \union {""}, isSend : BOOLEAN])
    BY <2>2, AppendProperties
  <2>5. /\ new(i) \in ListData
        /\ SameStanding(new(i), counted(i))
        /\ new(i).num_msg_sent = counted(i).num_msg_sent
        /\ new(i).num_msg_rcv = counted(i).num_msg_rcv
    BY <2>1, <2>2, <2>3, <2>4 DEF ListData, SameStanding
  <2> QED
    BY <2>1, <2>5 DEF SameStanding
<1>6. \A i \in 1..Len(connectedClients) : clients[i] = new(i)
  BY <1>2
<1> HIDE DEF new
<1>7. clients \in Seq(ListData) /\ Len(clients) = Len(connectedClients)
  <2>1. PICK n \in Nat : n = Len(connectedClients)
    BY <1>2
  <2>2. clients = [i \in 1..n |-> new(i)]
    BY <1>2, <2>1
  <2>3. \A i \in 1..n : new(i) \in ListData
    BY <1>5, <2>1
  <2>4. Len([i \in 1..n |-> new(i)]) = n
    OBVIOUS
  <2> QED
    BY <2>1, <2>2, <2>3, <2>4, IsASeq
<1> HIDE DEF clients
<1>8. Broadcasting(fd, k, clients, reached)
  BY <1>1, <1>4, <1>5, <1>6, <1>7 DEF Broadcasting, src
<1> QED
  BY <1>2, <1>3, <1>7, <1>8

LEMMA SendInv ==
  ASSUME IInv, NEW fd \in master_list, Send(fd)
  PROVE  IInv'
<1>1. PICK k, items, clients, reached :
        /\ k \in Nat \ {0} /\ clients \in Seq(ListData)
        /\ reached \in SUBSET (1..Len(connectedClients))
        /\ Sending(fd, k, items, clients, reached)
  BY SendProperties
<1>2. Match(clients)
  BY <1>1, Serving, SameClientsMatch DEF Sending, SameStanding, SameClients
<1>3. ToWatched(items)
  <2>1. CASE items = MessagesTo(SourceIP(fd), reached)
    BY <1>1, <2>1, MessagesToProperties
  <2>2. CASE items \in Anywhere({Chat(to, SourceIP(fd), Target(fd)) : to \in master_list})
    BY <2>2 DEF ToWatched, Anywhere, Chat
  <2> QED
    BY <1>1, <2>1, <2>2 DEF Sending
<1> QED
  BY <1>1, <1>2, <1>3, HandleInv DEF Sending

LEMMA BroadcastInv ==
  ASSUME IInv, NEW fd \in master_list, Broadcast(fd)
  PROVE  IInv'
<1>1. PICK k, clients, reached :
        /\ k \in Nat \ {0} /\ clients \in Seq(ListData)
        /\ reached \in SUBSET (1..Len(connectedClients))
        /\ Broadcasting(fd, k, clients, reached)
  BY BroadcastProperties
<1>2. Match(clients)
  BY <1>1, Serving, SameClientsMatch DEF Broadcasting, SameStanding, SameClients
<1> QED
  BY <1>1, <1>2, MessagesToProperties, HandleInv DEF Broadcasting

\* accept returns a descriptor that was free.
LEMMA FreeFdProperties ==
  ASSUME Fds \ master_list # {}
  PROVE  FreeFd \in Fds /\ FreeFd \notin master_list
<1> DEFINE free == Fds \ master_list
<1>1. free \in SUBSET Nat /\ free # {}
  BY DEF Fds
<1> HIDE DEF free
<1>2. Min(free) \in free /\ \A n \in free : Min(free) <= n
  BY <1>1, MinProperties
<1>3. FreeFd = CHOOSE fd \in free : \A n \in free : fd <= n
  BY DEF FreeFd, free
<1>4. FreeFd \in free
  BY <1>2, <1>3
<1> QED
  BY <1>4 DEF free

\* So no record has it.
LEMMA AcceptInv ==
  ASSUME IInv, Accept
  PROVE  IInv'
<1>1. /\ accepting = 0 /\ backlog # << >> /\ Fds \ master_list # {}
      /\ backlog' = Tail(backlog)
      /\ peer' = [peer EXCEPT ![FreeFd] = Head(backlog)]
      /\ accepting' = FreeFd /\ out' = {}
      /\ UNCHANGED <<connectedClients, reset, up, link, input, commands, starts>>
  BY DEF Accept, AtSelect
<1>2. FreeFd \in Fds /\ FreeFd \notin master_list
  BY <1>1, FreeFdProperties
<1>3. TypeOK /\ backlog \in Seq(Clients)
  BY DEF IInv, TypeOK, ConnectionsOK
<1>4. Head(backlog) \in Clients /\ Tail(backlog) \in Seq(Clients)
  BY <1>1, <1>3, HeadTailProperties
<1>5. /\ peer[FreeFd] = NoClient
      /\ master_list' = master_list \union {FreeFd}
      /\ \A fd \in master_list : peer'[fd] = peer[fd] /\ fd \in Fds
  BY <1>1, <1>2, <1>3, <1>4, Constants DEF TypeOK, master_list
<1>6. peer' \in [Fds -> Clients \union {NoClient}]
  BY <1>1, <1>2, <1>3, <1>4 DEF TypeOK
<1>7. reset \subseteq {p \in Range(peer') : p # NoClient /\ link[p] = "ended"}
  <2> SUFFICES ASSUME NEW p \in reset PROVE p \in Range(peer')
    BY <1>3 DEF TypeOK
  <2>1. PICK fd \in Fds : peer[fd] = p /\ p # NoClient
    BY <1>3 DEF TypeOK, Range
  <2>2. peer'[fd] = p
    BY <1>5, <2>1 DEF master_list
  <2> QED
    BY <1>6, <2>1, <2>2 DEF Range
<1>8. TypeOK'
  BY <1>1, <1>2, <1>3, <1>4, <1>5, <1>6, <1>7 DEF TypeOK, ConnectionsOK
<1>9. RecordsMatchConnections'
  BY <1>1, <1>5 DEF IInv, RecordsMatchConnections, Records
<1>10. Unrecorded'
  BY <1>1, <1>2 DEF IInv, Unrecorded, RecordsMatchConnections, Records
<1> QED
  BY <1>8, <1>9, <1>10 DEF IInv

\* A client that is added has an address and a connection no record has.
LEMMA ReceivePortInv ==
  ASSUME IInv, ReceivePort
  PROVE  IInv'
<1> DEFINE p == peer[accepting]
           ip == HostOf[p]
           fresh == [ip |-> ip, socket |-> accepting, port |-> Port[p],
                     BlockList |-> << >>, isLoggedIn |-> TRUE,
                     num_msg_sent |-> 0, num_msg_rcv |-> 0, buffer |-> << >>]
           added == Append(connectedClients, fresh)
           marked == [connectedClients EXCEPT ![IndexOf(ip)].isLoggedIn = TRUE]
           first == {ListOf(accepting, clientList(added))}
           again == {ListOf(connectedClients[IndexOf(ip)].socket, clientList(marked))}
<1>1. accepting \in master_list
  BY DEF ReceivePort, IInv, TypeOK
<1>2. /\ connectedClients \in Seq(ListData) /\ Match(connectedClients)
      /\ Len(connectedClients) \in Nat
      /\ accepting \in Fds /\ p \in Clients /\ ip \in Hosts
  BY <1>1, Serving, Constants
<1>3. CASE Handle(accepting, 0, {}, connectedClients)
  BY <1>1, <1>2, <1>3, HandleInv DEF ToWatched
<1>4. CASE ~isExist(ip) /\ Handle(accepting, 1, first, added)
  <2>1. fresh \in ListData
    BY <1>2, EmptySeq, ChatServerAssumption DEF ListData
  <2>2. fresh.ip = ip /\ fresh.socket = accepting
    OBVIOUS
  <2> HIDE DEF fresh
  <2>3. /\ added \in Seq(ListData) /\ Len(added) = Len(connectedClients) + 1
        /\ \A i \in 1..Len(connectedClients) : added[i] = connectedClients[i]
        /\ added[Len(connectedClients) + 1] = fresh
    BY <1>2, <2>1, AppendProperties
  <2>4. \A i \in 1..Len(connectedClients) :
          connectedClients[i].ip # ip /\ connectedClients[i].socket # accepting
    <3>1. \A i \in 1..Len(connectedClients) : connectedClients[i].ip # ip
      BY <1>2, <1>4, IndexOfProperties DEF isExist
    <3>2. \A i \in 1..Len(connectedClients) : connectedClients[i] \in Records
      BY <1>2, LenProperties DEF Records, Range
    <3> QED
      BY <3>1, <3>2 DEF IInv, Unrecorded
  <2>5. Match(added)
    <3>1. ASSUME NEW i \in 1..Len(added)
          PROVE  \/ i \in 1..Len(connectedClients) /\ added[i] = connectedClients[i]
                 \/ i = Len(connectedClients) + 1 /\ added[i] = fresh
      BY <1>2, <2>3
    <3> QED
      BY <1>1, <1>2, <2>2, <2>4, <3>1 DEF Match
  <2>6. ToWatched(first)
    BY <1>1 DEF ToWatched, ListOf
  <2> QED
    BY <1>1, <1>4, <2>3, <2>5, <2>6, HandleInv
<1>5. CASE isExist(ip) /\ Handle(accepting, 1, again, marked)
  <2>1. IndexOf(ip) \in 1..Len(connectedClients)
    BY <1>2, <1>5, IndexOfProperties DEF isExist
  <2> DEFINE at == IndexOf(ip)
  <2>2. PICK old \in ListData : old = connectedClients[at]
    BY <1>2, <2>1, ElementOfSeq
  <2> DEFINE new == [old EXCEPT !.isLoggedIn = TRUE]
  <2>3. new \in ListData /\ new.ip = old.ip /\ new.socket = old.socket
    BY DEF ListData
  <2>4. marked = [connectedClients EXCEPT ![at] = new]
    BY <2>2
  <2> HIDE DEF new, at, marked
  <2>5. /\ marked \in Seq(ListData)
        /\ Len(marked) = Len(connectedClients)
        /\ \A i \in 1..Len(connectedClients) :
             marked[i] = IF i = at THEN new ELSE connectedClients[i]
    BY <1>2, <2>1, <2>3, <2>4, ExceptSeq DEF at
  <2>6. Match(marked)
    BY <1>2, <2>2, <2>3, <2>5, SameClientsMatch DEF SameClients
  <2>7. ToWatched(again)
    BY <1>2, <2>1 DEF ToWatched, ListOf, Match
  <2> QED
    BY <1>1, <1>5, <2>5, <2>6, <2>7, HandleInv
<1> QED
  BY <1>3, <1>4, <1>5 DEF ReceivePort

LEMMA DisconnectInv ==
  ASSUME IInv, NEW fd \in master_list, Disconnect(fd)
  PROVE  IInv'
<1>1. /\ connectedClients' = Erase(fd)
      /\ peer' = [peer EXCEPT ![fd] = NoClient]
      /\ reset' = reset \ {peer[fd]}
      /\ accepting = 0 /\ out' = {}
      /\ UNCHANGED <<accepting, connVars>>
  BY DEF Disconnect, Unwatched, AtSelect
<1>2. /\ connectedClients \in Seq(ListData) /\ Match(connectedClients)
      /\ Len(connectedClients) \in Nat /\ fd \in Fds /\ TypeOK
  BY Serving DEF IInv
<1>3. master_list' = master_list \ {fd} /\ \A n \in master_list' : peer'[n] = peer[n]
  BY <1>1, <1>2 DEF TypeOK, master_list
<1>4. /\ connectedClients' \in Seq(ListData)
      /\ \A i \in 1..Len(connectedClients') : connectedClients'[i].socket # fd
      /\ Match(connectedClients')
  <2>1. CASE IndexAt(fd) = 0
    BY <1>1, <1>2, <2>1, IndexAtProperties DEF Erase
  <2>2. CASE IndexAt(fd) # 0
    <3> DEFINE at == IndexAt(fd)
    <3>1. at \in 1..Len(connectedClients) /\ connectedClients[at].socket = fd
      BY <1>2, <2>2, IndexAtProperties
    <3>2. connectedClients' = RemoveAt(connectedClients, at)
      BY <1>1, <2>2 DEF Erase
    <3> HIDE DEF at
    <3>3. /\ connectedClients' \in Seq(ListData)
          /\ Len(connectedClients') = Len(connectedClients) - 1
          /\ \A j \in 1..Len(connectedClients) - 1 :
               connectedClients'[j] =
                 IF j < at THEN connectedClients[j] ELSE connectedClients[j + 1]
      BY <1>2, <3>1, <3>2, RemoveAtProperties
    <3> DEFINE was(j) == IF j < at THEN j ELSE j + 1
    <3>4. \A j \in 1..Len(connectedClients') :
            /\ was(j) \in 1..Len(connectedClients) /\ was(j) # at
            /\ connectedClients'[j] = connectedClients[was(j)]
      BY <1>2, <3>1, <3>3
    <3>5. \A i, j \in 1..Len(connectedClients') : i # j => was(i) # was(j)
      BY <1>2, <3>1, <3>3
    <3> HIDE DEF was
    <3>6. \A i \in 1..Len(connectedClients') : connectedClients'[i].socket # fd
      BY <1>2, <3>1, <3>4 DEF Match
    <3>7. \A i \in 1..Len(connectedClients') :
            /\ connectedClients'[i].socket \in master_list
            /\ HostOf[peer[connectedClients'[i].socket]] = connectedClients'[i].ip
      BY <1>2, <3>4 DEF Match
    <3>8. \A i, j \in 1..Len(connectedClients') :
            i # j => /\ connectedClients'[i].ip # connectedClients'[j].ip
                     /\ connectedClients'[i].socket # connectedClients'[j].socket
      BY <1>2, <3>4, <3>5 DEF Match
    <3> QED
      BY <3>3, <3>6, <3>7, <3>8 DEF Match
  <2> QED
    BY <2>1, <2>2
<1>5. RecordsMatchConnections'
  <2>1. DOMAIN connectedClients' = 1..Len(connectedClients')
    BY <1>4, LenProperties
  <2> QED
    BY <1>3, <1>4, <2>1 DEF RecordsMatchConnections, Match, Records, Range
<1>6. peer' \in [Fds -> Clients \union {NoClient}]
  BY <1>1, <1>2 DEF TypeOK
<1>7. reset' \subseteq {p \in Range(peer') : p # NoClient /\ link[p] = "ended"}
  <2> SUFFICES ASSUME NEW p \in reset, p # peer[fd] PROVE p \in Range(peer')
    BY <1>1, <1>2 DEF TypeOK
  <2>1. PICK n \in Fds : peer[n] = p /\ n # fd
    BY <1>2 DEF TypeOK, Range
  <2>2. peer'[n] = p
    BY <1>1, <1>2, <2>1 DEF TypeOK
  <2> QED
    BY <1>6, <2>1, <2>2 DEF Range
<1>8. TypeOK'
  BY <1>1, <1>2, <1>4, <1>6, <1>7 DEF TypeOK, ConnectionsOK, connVars
<1>9. Unrecorded'
  BY <1>1, <1>5 DEF Unrecorded, RecordsMatchConnections, master_list, Fds
<1> QED
  BY <1>5, <1>8, <1>9 DEF IInv

\* Sorting the records makes another list of the same ones, each of them once.
LEMMA SortInv ==
  ASSUME IInv, Sort
  PROVE  IInv'
<1> DEFINE n == Cardinality(Records)
<1>1. /\ connectedClients' \in [1..n -> Records]
      /\ \A i, j \in 1..n : i # j => connectedClients'[i] # connectedClients'[j]
      /\ out' = {} /\ UNCHANGED <<connVars, peer, accepting, reset>>
  BY DEF Sort, SetToSeqs, Records
<1>2. connectedClients \in Seq(ListData) /\ Match(connectedClients) /\ TypeOK
  BY RecordsMatch DEF IInv, TypeOK
<1>3. n \in Nat
  BY <1>2, RangeFinite DEF Records
<1> HIDE DEF n
<1>4. \A c \in Records : c \in ListData
  BY <1>2, LenProperties, ElementOfSeq DEF Records, Range
<1>5. connectedClients' \in Seq(ListData) /\ Len(connectedClients') = n
  <2>1. connectedClients' = [i \in 1..n |-> connectedClients'[i]]
    BY <1>1
  <2>2. \A i \in 1..n : connectedClients'[i] \in ListData
    BY <1>1, <1>4
  <2>3. [i \in 1..n |-> connectedClients'[i]] \in Seq(ListData)
    BY <1>3, <2>2, IsASeq
  <2>4. Len([i \in 1..n |-> connectedClients'[i]]) = n
    BY <1>3
  <2> QED
    BY <2>1, <2>3, <2>4
<1>6. Records' \subseteq Records
  BY <1>1 DEF Records, Range
<1>7. \A c, d \in Records : c # d => c.ip # d.ip /\ c.socket # d.socket
  BY DEF IInv, RecordsMatchConnections, Records, Range
<1>8. RecordsMatchConnections'
  <2>1. \A c \in Records' : c.socket \in master_list /\ HostOf[peer[c.socket]] = c.ip
    BY <1>6 DEF IInv, RecordsMatchConnections
  <2>2. \A i, j \in 1..n : i # j =>
          /\ connectedClients'[i].ip # connectedClients'[j].ip
          /\ connectedClients'[i].socket # connectedClients'[j].socket
    BY <1>1, <1>7
  <2>3. DOMAIN connectedClients' = 1..n
    BY <1>1
  <2> QED
    BY <1>1, <2>1, <2>2, <2>3 DEF RecordsMatchConnections, master_list
<1>9. TypeOK'
  BY <1>1, <1>2, <1>5 DEF TypeOK, ConnectionsOK, connVars, master_list
<1>10. Unrecorded'
  BY <1>1, <1>6 DEF IInv, Unrecorded
<1> QED
  BY <1>8, <1>9, <1>10 DEF IInv

\* What a client does leaves the server's state, and no process comes back.
LEMMA ClientStepInv ==
  ASSUME IInv, NEW p \in Clients, ClientStep(p)
  PROVE  IInv'
<1>1. UNCHANGED serverVars /\ out' = {} /\ TypeOK
  BY DEF ClientStep, IInv
<1>2. /\ ConnectionsOK'
      /\ \A q \in Clients : link[q] = "ended" => link'[q] = "ended"
  <2>1. /\ up \in BOOLEAN /\ link \in [Clients -> Links] /\ backlog \in Seq(Clients)
        /\ input \in [Clients -> Seq(Command)]
        /\ commands \in 0..MaxCommands /\ starts \in 0..MaxStarts
    BY <1>1 DEF TypeOK, ConnectionsOK
  <2>2. CASE Connect(p)
    <3>1. Append(backlog, p) \in Seq(Clients)
      BY <2>1, AppendProperties
    <3> QED
      BY <2>1, <2>2, <3>1 DEF Connect, ConnectionsOK, Links
  <2>3. CASE SendPort(p)
    <3>1. Append(input[p], Bare("port")) \in Seq(Command)
      BY <2>1, AppendProperties DEF Bare, Command
    <3> QED
      BY <2>1, <2>3, <3>1 DEF SendPort, ConnectionsOK, Links
  <2>4. CASE Typed /\ \E command \in [op : Targeted, ip : Addresses]
                                       \union [op : Ops \ Targeted, ip : {NoHost}] :
                        Transmit(p, command)
    <3>1. PICK command \in Command : Transmit(p, command)
      BY <2>4 DEF Command
    <3>2. Append(input[p], command) \in Seq(Command)
      BY <2>1, AppendProperties
    <3>3. commands' \in 0..MaxCommands
      BY <2>1, <2>4, ConnectionsAssumption DEF Typed
    <3>4. input' \in [Clients -> Seq(Command)]
      BY <2>1, <3>1, <3>2 DEF Transmit
    <3>5. /\ link' \in [Clients -> Links]
          /\ \A q \in Clients : link[q] = "ended" => link'[q] = "ended"
      BY <2>1, <3>1 DEF Transmit, Links
    <3> QED
      BY <2>1, <3>1, <3>3, <3>4, <3>5 DEF Transmit, ConnectionsOK
  <2>5. CASE End(p)
    BY <2>1, <2>5 DEF End, ConnectionsOK, Links
  <2> QED
    BY <2>2, <2>3, <2>4, <2>5 DEF ClientStep
<1>3. reset' \subseteq {q \in Range(peer) : q # NoClient /\ link'[q] = "ended"}
  <2> SUFFICES ASSUME NEW q \in reset
               PROVE  q \in Range(peer) /\ q # NoClient /\ link'[q] = "ended"
    BY <1>1 DEF serverVars
  <2>1. q \in Range(peer) /\ q # NoClient /\ link[q] = "ended"
    BY <1>1 DEF TypeOK
  <2>2. q \in Clients
    BY <1>1, <2>1 DEF TypeOK, Range
  <2> QED
    BY <1>2, <2>1, <2>2
<1>4. TypeOK'
  BY <1>1, <1>2, <1>3 DEF TypeOK, serverVars, master_list
<1>5. RecordsMatchConnections' /\ Unrecorded'
  BY <1>1 DEF IInv, RecordsMatchConnections, Unrecorded, Records, master_list, serverVars
<1> QED
  BY <1>4, <1>5 DEF IInv

LEMMA ServeInv ==
  ASSUME IInv, NEW fd \in Fds, Serve(fd)
  PROVE  IInv'
<1>1. fd \in master_list
  BY DEF Serve
<1> QED
  BY <1>1, DisconnectInv, UnknownInv, RefreshInv, BlockInv, UnblockInv, LogoutInv, LoginInv,
     SendInv, BroadcastInv DEF Serve

LEMMA NextInv == IInv /\ [Next]_vars => IInv'
<1> SUFFICES ASSUME IInv, [Next]_vars PROVE IInv'
  OBVIOUS
<1>1. CASE Exit
  BY <1>1, EndsInv DEF Exit
<1>2. CASE UNCHANGED vars
  BY <1>2 DEF IInv, TypeOK, ConnectionsOK, RecordsMatchConnections, Unrecorded, Records,
              master_list, vars, serverVars, connVars
<1> QED
  BY <1>1, <1>2, AcceptInv, ReceivePortInv, SortInv, ServeInv, ClientStepInv
  DEF Next, ServerStep

THEOREM Invariance == Spec => []IInv
<1>1. Init => IInv
  BY InitInv
<1>2. IInv /\ [Next]_vars => IInv'
  BY NextInv
<1> QED
  BY <1>1, <1>2, PTL DEF Spec

\* Every variable keeps its type, and what is put out goes to open connections.
THEOREM TypeCorrect == Spec => []TypeOK
<1>1. IInv => TypeOK
  BY DEF IInv
<1> QED
  BY <1>1, Invariance, PTL

\* Each record is of one address and one connection, with a process of that
\* address at its other end, although descriptors are used again.
THEOREM RecordsMatched == Spec => []RecordsMatchConnections
<1>1. IInv => RecordsMatchConnections
  BY DEF IInv
<1> QED
  BY <1>1, Invariance, PTL

----------------------------------------------------------------------------
(* What a step puts out.                                                   *)

LEMMA QuietSteps ==
  ASSUME \/ Accept \/ Sort \/ Exit \/ \E p \in Clients : ClientStep(p)
  PROVE  out' = {}
BY DEF Accept, Sort, Exit, ClientStep

\* recv of the port is answered with lists only.
LEMMA ReceivePortOut ==
  ASSUME ReceivePort
  PROVE  \A item \in out' : item.kind # "chat"
<1> DEFINE p == peer[accepting]
           ip == HostOf[p]
           added == Append(connectedClients,
                      [ip |-> ip, socket |-> accepting, port |-> Port[p],
                       BlockList |-> << >>, isLoggedIn |-> TRUE,
                       num_msg_sent |-> 0, num_msg_rcv |-> 0, buffer |-> << >>])
           marked == [connectedClients EXCEPT ![IndexOf(ip)].isLoggedIn = TRUE]
           first == {ListOf(accepting, clientList(added))}
           again == {ListOf(connectedClients[IndexOf(ip)].socket, clientList(marked))}
<1>1. \/ Handle(accepting, 0, {}, connectedClients)
      \/ Handle(accepting, 1, first, added)
      \/ Handle(accepting, 1, again, marked)
  BY DEF ReceivePort
<1> HIDE DEF added, marked
<1>2. \/ out' \subseteq {} \/ out' \subseteq first \/ out' \subseteq again
  BY <1>1, HandleOut
<1> QED
  BY <1>2 DEF ListOf

\* The messages a handler puts out to clients with a record are the ones SEND
\* or BROADCAST makes for records that are logged in and do not block the
\* source.
LEMMA ServeOut ==
  ASSUME IInv, NEW fd \in master_list, Serve(fd)
  PROVE  \E reached \in SUBSET (1..Len(connectedClients)) :
           /\ AddressedChats \subseteq MessagesTo(SourceIP(fd), reached)
           /\ \A i \in reached : Relayed(SourceIP(fd), i)
<1>1. CASE \A item \in out' : item.kind # "chat"
  <2>1. AddressedChats = {}
    BY <1>1 DEF AddressedChats
  <2> QED
    BY <2>1
<1>2. CASE Send(fd)
  <2>1. PICK k, items, clients, reached :
          /\ reached \in SUBSET (1..Len(connectedClients))
          /\ Sending(fd, k, items, clients, reached)
    BY <1>2, SendProperties
  <2>2. out' \subseteq items
    BY <2>1, HandleOut DEF Sending
  <2>3. CASE items = MessagesTo(SourceIP(fd), reached)
    BY <2>1, <2>2, <2>3 DEF Sending, AddressedChats
  <2>4. CASE /\ IndexOf(Target(fd)) = 0 /\ reached = {}
             /\ items \in Anywhere({Chat(to, SourceIP(fd), Target(fd)) : to \in master_list})
    <3>1. \A item \in items : item.dest = Target(fd)
      BY <2>4 DEF Anywhere, Chat
    <3>2. AddressedChats = {}
      BY <2>2, <2>4, <3>1 DEF AddressedChats
    <3> QED
      BY <3>2
  <2> QED
    BY <2>1, <2>3, <2>4 DEF Sending
<1>3. CASE Broadcast(fd)
  <2>1. PICK k, clients, reached :
          /\ reached \in SUBSET (1..Len(connectedClients))
          /\ Broadcasting(fd, k, clients, reached)
    BY <1>3, BroadcastProperties
  <2>2. out' \subseteq MessagesTo(SourceIP(fd), reached)
    BY <2>1, HandleOut DEF Broadcasting
  <2> QED
    BY <2>1, <2>2 DEF Broadcasting, AddressedChats
<1>4. CASE Disconnect(fd) \/ Unknown(fd) \/ Block(fd) \/ Unblock(fd) \/ Logout(fd)
  <2>1. out' \subseteq {}
    BY <1>4, HandleOut DEF Disconnect, Unknown, Block, Unblock, Logout
  <2> QED
    BY <1>1, <2>1
<1>5. CASE Refresh(fd)
  <2>1. out' \subseteq {ListOf(fd, clientList(connectedClients))}
    BY <1>5, HandleOut DEF Refresh
  <2> QED
    BY <1>1, <2>1 DEF ListOf
<1>6. CASE Login(fd)
  <2> DEFINE list(to) == ListOf(to, clientList(connectedClients))
  <2>1. PICK items : /\ \/ items = {list(fd)}
                        \/ items \in Anywhere({list(to) : to \in master_list})
                     /\ out' \subseteq items
    BY <1>6, HandleOut DEF Login
  <2>2. \A item \in items : item.kind = "list"
    BY <2>1 DEF Anywhere, ListOf
  <2> QED
    BY <1>1, <2>1, <2>2
<1> QED
  BY <1>2, <1>3, <1>4, <1>5, <1>6 DEF Serve

LEMMA RightlyAddressedStep == IInv /\ Next => RightlyAddressed
<1> SUFFICES ASSUME IInv, Next PROVE RightlyAddressed
  OBVIOUS
<1>1. ASSUME NEW fd \in master_list, Serve(fd), NEW item \in AddressedChats
      PROVE  /\ peer[item.socket] \in {p \in Clients : HostOf[p] = item.dest}
             /\ item.src \in {HostOf[peer[fd]], ""}
  <2>1. PICK reached \in SUBSET (1..Len(connectedClients)) :
          AddressedChats \subseteq MessagesTo(SourceIP(fd), reached)
    BY <1>1, ServeOut
  <2>2. PICK i \in reached :
          item = Chat(connectedClients[i].socket, SourceIP(fd), connectedClients[i].ip)
    BY <1>1, <2>1, MessagesToProperties
  <2>3. i \in 1..Len(connectedClients) /\ Match(connectedClients) /\ fd \in Fds
    BY <1>1, <2>2, Serving
  <2>4. peer[connectedClients[i].socket] \in Clients
    BY <2>3 DEF IInv, TypeOK, Match, master_list
  <2>5. item.socket = connectedClients[i].socket /\ item.src = SourceIP(fd)
        /\ item.dest = connectedClients[i].ip
    BY <2>2 DEF Chat
  <2> QED
    BY <2>3, <2>4, <2>5, SourceIPProperties DEF Match
<1>2. CASE \E fd \in Fds : Serve(fd)
  BY <1>1, <1>2 DEF RightlyAddressed, Serve
<1>3. CASE \A item \in out' : item.kind # "chat"
  BY <1>3 DEF RightlyAddressed, AddressedChats
<1> QED
  BY <1>2, <1>3, QuietSteps, ReceivePortOut DEF Next, ServerStep

\* A message arrives at a process on the address it is for, and names as its
\* source the address it comes from or none.
THEOREM DeliveredRightly == Spec => NoMisdelivery
<1>1. IInv /\ [Next]_vars => [RightlyAddressed]_vars
  BY RightlyAddressedStep
<1> QED
  BY <1>1, Invariance, PTL DEF Spec, NoMisdelivery

----------------------------------------------------------------------------
(* Each process has one connection, waiting in the backlog or accepted; it *)
(* takes this to see that one step is not the SEND of two clients.         *)

OneConnection ==
  /\ \A fd, n \in Fds : peer[fd] = peer[n] /\ peer[fd] # NoClient => fd = n
  /\ \A i, j \in 1..Len(backlog) : backlog[i] = backlog[j] => i = j
  /\ \A i \in 1..Len(backlog), fd \in Fds : peer[fd] # backlog[i]
  /\ \A p \in Clients : link[p] \in {"none", "hung"} =>
       /\ \A fd \in Fds : peer[fd] # p
       /\ \A i \in 1..Len(backlog) : backlog[i] # p

LEMMA OneConnectionInit == Init => OneConnection
<1> SUFFICES ASSUME Init PROVE OneConnection
  OBVIOUS
<1>1. Len(<< >>) = 0
  BY EmptySeq
<1> QED
  BY <1>1, Constants DEF Init, ConnectionsInit, OneConnection

LEMMA OneConnectionEnds ==
  ASSUME Ends
  PROVE  OneConnection'
<1>1. Len(<< >>) = 0
  BY EmptySeq
<1> QED
  BY <1>1, Constants DEF Ends, HangUp, OneConnection

\* What a handler changes has no part in it.
LEMMA OneConnectionHandle ==
  ASSUME OneConnection, NEW fd, NEW k, NEW items, NEW clients, Handle(fd, k, items, clients)
  PROVE  OneConnection'
<1>1. CASE Ends
  BY <1>1, OneConnectionEnds
<1>2. CASE UNCHANGED <<peer, backlog, link>>
  BY <1>2 DEF OneConnection
<1> QED
  BY <1>1, <1>2 DEF Handle

LEMMA OneConnectionAccept ==
  ASSUME IInv, OneConnection, Accept
  PROVE  OneConnection'
<1>1. /\ backlog # << >> /\ backlog' = Tail(backlog)
      /\ peer' = [peer EXCEPT ![FreeFd] = Head(backlog)]
      /\ UNCHANGED link
      /\ backlog \in Seq(Clients) /\ peer \in [Fds -> Clients \union {NoClient}]
  BY DEF Accept, IInv, TypeOK, ConnectionsOK
<1>2. /\ Len(backlog) \in Nat /\ Len(backlog) >= 1 /\ Head(backlog) = backlog[1]
      /\ Head(backlog) \in Clients
      /\ Len(Tail(backlog)) = Len(backlog) - 1
      /\ \A i \in 1..Len(Tail(backlog)) : Tail(backlog)[i] = backlog[i + 1]
  BY <1>1, HeadTailProperties, LenProperties, EmptySeq
<1>3. \A i \in 1..Len(backlog') : /\ i + 1 \in 1..Len(backlog) /\ i + 1 # 1
                                  /\ backlog'[i] = backlog[i + 1]
  BY <1>1, <1>2
<1>4. 1 \in 1..Len(backlog)
  BY <1>2
<1>5. \A fd \in Fds : peer'[fd] = peer[fd] \/ (fd = FreeFd /\ peer'[fd] = backlog[1])
  BY <1>1, <1>2
<1>6. \A fd, n \in Fds : peer'[fd] = peer'[n] /\ peer'[fd] # NoClient => fd = n
  BY <1>4, <1>5 DEF OneConnection
<1>7. \A i, j \in 1..Len(backlog') : backlog'[i] = backlog'[j] => i = j
  <2> SUFFICES ASSUME NEW i \in 1..Len(backlog'), NEW j \in 1..Len(backlog'),
                      backlog'[i] = backlog'[j]
               PROVE  i = j
    OBVIOUS
  <2>1. i + 1 = j + 1
    BY <1>3 DEF OneConnection
  <2> QED
    BY <1>1, <1>2, <2>1
<1>8. \A i \in 1..Len(backlog'), fd \in Fds : peer'[fd] # backlog'[i]
  BY <1>3, <1>4, <1>5 DEF OneConnection
<1>9. \A p \in Clients : link[p] \in {"none", "hung"} =>
        /\ \A fd \in Fds : peer'[fd] # p
        /\ \A i \in 1..Len(backlog') : backlog'[i] # p
  BY <1>3, <1>4, <1>5 DEF OneConnection
<1> QED
  BY <1>1, <1>6, <1>7, <1>8, <1>9 DEF OneConnection

LEMMA OneConnectionClient ==
  ASSUME IInv, OneConnection, NEW p \in Clients, ClientStep(p)
  PROVE  OneConnection'
<1>1. /\ link \in [Clients -> Links] /\ backlog \in Seq(Clients) /\ UNCHANGED peer
      /\ peer \in [Fds -> Clients \union {NoClient}]
  BY DEF IInv, TypeOK, ConnectionsOK, ClientStep, serverVars
<1>2. CASE Connect(p)
  <2>1. /\ link[p] \in {"none", "hung"} /\ link' = [link EXCEPT ![p] = "made"]
        /\ backlog' = Append(backlog, p)
    BY <1>2 DEF Connect
  <2>2. /\ Len(backlog) \in Nat /\ Len(backlog') = Len(backlog) + 1
        /\ \A i \in 1..Len(backlog) : backlog'[i] = backlog[i]
        /\ backlog'[Len(backlog) + 1] = p
    BY <1>1, <2>1, AppendProperties, LenProperties
  <2>3. \A i \in 1..Len(backlog') :
          \/ i \in 1..Len(backlog) /\ backlog'[i] = backlog[i]
          \/ i = Len(backlog) + 1 /\ backlog'[i] = p
    BY <2>2
  <2>4. \A fd \in Fds : peer[fd] # p
    BY <2>1 DEF OneConnection
  <2>5. \A i \in 1..Len(backlog) : backlog[i] # p
    BY <2>1 DEF OneConnection
  <2>6. \A i, j \in 1..Len(backlog') : backlog'[i] = backlog'[j] => i = j
    BY <2>3, <2>5 DEF OneConnection
  <2>7. \A i \in 1..Len(backlog'), fd \in Fds : peer[fd] # backlog'[i]
    BY <2>3, <2>4 DEF OneConnection
  <2>8. \A q \in Clients : link'[q] \in {"none", "hung"} => q # p /\ link[q] = link'[q]
    BY <1>1, <2>1
  <2>9. \A q \in Clients : link'[q] \in {"none", "hung"} =>
          /\ \A fd \in Fds : peer[fd] # q
          /\ \A i \in 1..Len(backlog') : backlog'[i] # q
    BY <2>3, <2>8 DEF OneConnection
  <2> QED
    BY <1>1, <2>6, <2>7, <2>9 DEF OneConnection
<1>3. CASE /\ UNCHANGED backlog
           /\ \A q \in Clients : link'[q] \in {"none", "hung"} => link'[q] = link[q]
  BY <1>1, <1>3 DEF OneConnection
<1>4. CASE SendPort(p) \/ End(p)
  <2>1. \/ link' = [link EXCEPT ![p] = "up"]
        \/ link' = [link EXCEPT ![p] = "ended"]
    BY <1>4 DEF SendPort, End
  <2> QED
    BY <1>1, <1>3, <1>4, <2>1 DEF SendPort, End
<1>5. CASE \E command : Transmit(p, command)
  <2>1. link' = link \/ link' = [link EXCEPT ![p] = "ended"]
    BY <1>5 DEF Transmit
  <2> QED
    BY <1>1, <1>3, <1>5, <2>1 DEF Transmit
<1> QED
  BY <1>2, <1>4, <1>5 DEF ClientStep

LEMMA OneConnectionNext == IInv /\ OneConnection /\ [Next]_vars => OneConnection'
<1> SUFFICES ASSUME IInv, OneConnection, [Next]_vars PROVE OneConnection'
  OBVIOUS
<1>1. CASE Exit
  BY <1>1, OneConnectionEnds DEF Exit
<1>2. CASE UNCHANGED <<peer, backlog, link>>
  BY <1>2 DEF OneConnection
<1>3. CASE Sort \/ UNCHANGED vars
  BY <1>2, <1>3 DEF Sort, connVars, vars, serverVars
<1>4. CASE ReceivePort
  <2>1. \E k, items, clients : Handle(accepting, k, items, clients)
    BY <1>4 DEF ReceivePort
  <2> QED
    BY <2>1, OneConnectionHandle
<1>5. ASSUME NEW fd \in Fds, Serve(fd)
      PROVE  OneConnection'
  <2>1. CASE Disconnect(fd)
    <3>1. UNCHANGED <<backlog, link>> /\ peer' = [peer EXCEPT ![fd] = NoClient]
      BY <2>1 DEF Disconnect, connVars, Unwatched
    <3>2. \A n \in Fds : peer'[n] = peer[n] \/ peer'[n] = NoClient
      BY <3>1 DEF IInv, TypeOK
    <3>3. \A i \in 1..Len(backlog) : backlog[i] # NoClient
      BY Constants, ElementOfSeq DEF IInv, TypeOK, ConnectionsOK
    <3> QED
      BY <3>1, <3>2, <3>3, Constants DEF OneConnection
  <2>2. CASE Send(fd)
    BY <1>5, <2>2, SendProperties, OneConnectionHandle DEF Sending, Serve
  <2>3. CASE Broadcast(fd)
    BY <1>5, <2>3, BroadcastProperties, OneConnectionHandle DEF Broadcasting, Serve
  <2>4. CASE Unknown(fd) \/ Refresh(fd) \/ Block(fd) \/ Unblock(fd) \/ Logout(fd) \/ Login(fd)
    <3>1. \E k, items, clients : Handle(fd, k, items, clients)
      BY <2>4 DEF Unknown, Refresh, Block, Unblock, Logout, Login
    <3> QED
      BY <3>1, OneConnectionHandle
  <2> QED
    BY <1>5, <2>1, <2>2, <2>3, <2>4 DEF Serve
<1> QED
  BY <1>1, <1>3, <1>4, <1>5, OneConnectionAccept, OneConnectionClient DEF Next, ServerStep

THEOREM OneConnectionEach == Spec => []OneConnection
<1>1. Init => OneConnection
  BY OneConnectionInit
<1>2. IInv /\ OneConnection /\ [Next]_vars => OneConnection'
  BY OneConnectionNext
<1> QED
  BY <1>1, <1>2, Invariance, PTL DEF Spec

----------------------------------------------------------------------------
(* The counters of the records.                                            *)

\* The messages to a record among those to the records reached: one or none.
LEMMA Tally ==
  ASSUME IInv, NEW src, NEW reached \in SUBSET (1..Len(connectedClients)),
         NEW i \in 1..Len(connectedClients), NEW chats, chats = MessagesTo(src, reached)
  PROVE  Cardinality({item \in chats : item.dest = connectedClients[i].ip}) =
           IF i \in reached THEN 1 ELSE 0
<1> DEFINE one == Chat(connectedClients[i].socket, src, connectedClients[i].ip)
           mine == {item \in chats : item.dest = connectedClients[i].ip}
<1>1. chats = {Chat(connectedClients[j].socket, src, connectedClients[j].ip) : j \in reached}
  BY MessagesToProperties
<1>2. Match(connectedClients)
  BY RecordsMatch DEF IInv, TypeOK
<1>3. \A j \in reached : connectedClients[j].ip = connectedClients[i].ip => j = i
  BY <1>2 DEF Match
<1>4. mine = IF i \in reached THEN {one} ELSE {}
  BY <1>1, <1>3 DEF Chat
<1> HIDE DEF mine, one
<1>5. Cardinality(mine) = IF i \in reached THEN 1 ELSE 0
  BY <1>4, FS_EmptySet, FS_Singleton
<1> QED
  BY <1>5 DEF mine

LEMMA NotEnded ==
  ASSUME connectedClients' # << >>
  PROVE  ~Ends
BY DEF Ends

\* A handler that reads something leaves less of it, and nothing else is read.
LEMMA HandleTakes ==
  ASSUME IInv, ~Ends, NEW fd \in master_list, NEW k \in Nat, NEW items, NEW clients,
         Handle(fd, k, items, clients)
  PROVE  /\ k \in 1..Len(Unread(fd)) => Len(input'[peer[fd]]) < Len(input[peer[fd]])
         /\ \A p \in Clients \ {peer[fd]} : input'[p] = input[p]
<1> DEFINE s == Unread(fd)
<1>1. /\ input' = [input EXCEPT ![peer[fd]] = SubSeq(s, k + 1, Len(s))]
      /\ input \in [Clients -> Seq(Command)] /\ peer[fd] \in Clients
      /\ s \in Seq(Command) /\ Len(s) \in Nat
  BY Serving DEF Handle, Unread, IInv, TypeOK, ConnectionsOK
<1>2. Len(SubSeq(s, k + 1, Len(s))) = IF k + 1 <= Len(s) THEN Len(s) - (k + 1) + 1 ELSE 0
  <2>1. /\ k + 1 \in Int /\ Len(s) \in Int
        /\ \A j \in k + 1..Len(s) : s[j] \in Command
    BY <1>1, ElementOfSeq
  <2> HIDE DEF s
  <2> QED
    BY <1>1, <2>1, SubSeqProperties
<1>3. k \in 1..Len(s) => Len(SubSeq(s, k + 1, Len(s))) < Len(s)
  BY <1>1, <1>2
<1> QED
  BY <1>1, <1>3 DEF Unread

LEMMA SendTakes ==
  ASSUME IInv, ~Ends, NEW fd \in master_list, Send(fd)
  PROVE  /\ Len(input'[peer[fd]]) < Len(input[peer[fd]])
         /\ accepting = 0 /\ Head(Unread(fd)).op = "SEND" /\ peer[fd] \in Clients
<1>1. PICK k, items, clients :
        k \in Nat /\ Reads(fd, k, "SEND") /\ Handle(fd, k, items, clients)
  BY SendProperties DEF Sending
<1> QED
  BY <1>1, HandleTakes, Serving DEF Reads, AtSelect

\* So one step handles the command of one client.
LEMMA OneSender ==
  ASSUME IInv, OneConnection, ~Ends, NEW fd \in master_list, NEW n \in master_list,
         NEW k \in Nat, NEW items, NEW clients, Handle(fd, k, items, clients), Send(n)
  PROVE  n = fd /\ accepting = 0 /\ Head(Unread(fd)).op = "SEND"
<1>1. /\ Len(input'[peer[n]]) < Len(input[peer[n]])
      /\ accepting = 0 /\ Head(Unread(n)).op = "SEND" /\ peer[n] \in Clients
  BY SendTakes
<1>2. \A p \in Clients \ {peer[fd]} : input'[p] = input[p]
  BY HandleTakes
<1>3. Len(input[peer[n]]) \in Nat
  BY Serving DEF Unread
<1>4. peer[n] = peer[fd]
  BY <1>1, <1>2, <1>3
<1>5. n \in Fds /\ fd \in Fds /\ peer[n] # NoClient
  BY <1>1, Serving, Constants
<1> QED
  BY <1>1, <1>4, <1>5 DEF OneConnection

\* A step without messages or a SEND counts nothing.
LEMMA CountsNothing ==
  ASSUME IInv, AddressedChats = {}, \A fd \in master_list : ~Send(fd),
         \A new \in Records' :
           \/ \A old \in Records : old.ip # new.ip
           \/ \E old \in Records : /\ old.ip = new.ip
                                   /\ old.num_msg_rcv = new.num_msg_rcv
                                   /\ old.num_msg_sent = new.num_msg_sent
  PROVE  CountedRightly
<1> SUFFICES ASSUME NEW old \in Records, NEW new \in Records', old.ip = new.ip
             PROVE  /\ new.num_msg_rcv = old.num_msg_rcv
                         + Cardinality({item \in AddressedChats : item.dest = old.ip})
                    /\ new.num_msg_sent = old.num_msg_sent
                         + (IF Send(old.socket) THEN 1 ELSE 0)
  BY DEF CountedRightly
<1>1. new.num_msg_rcv = old.num_msg_rcv /\ new.num_msg_sent = old.num_msg_sent
  <2>1. \A c, d \in Records : c.ip = d.ip => c = d
    BY DEF IInv, RecordsMatchConnections, Records, Range
  <2> QED
    BY <2>1
<1>2. old.num_msg_rcv \in Nat /\ old.num_msg_sent \in Nat /\ old.socket \in master_list
  <2>1. PICK i \in 1..Len(connectedClients) : old = connectedClients[i]
    BY LenProperties DEF IInv, TypeOK, Records, Range
  <2> QED
    BY <2>1, RecordType DEF IInv, TypeOK, RecordsMatchConnections
<1>3. Cardinality({item \in AddressedChats : item.dest = old.ip}) = 0
  <2>1. {item \in AddressedChats : item.dest = old.ip} = {}
    OBVIOUS
  <2> QED
    BY <2>1, FS_EmptySet
<1>4. (IF Send(old.socket) THEN 1 ELSE 0) = 0
  BY <1>2, Zenon
<1> QED
  BY <1>1, <1>2, <1>3, <1>4

\* The records of a step that keeps what they count.
LEMMA SameCounts ==
  ASSUME IInv, NEW clients \in Seq(ListData), connectedClients' = clients,
         Len(clients) = Len(connectedClients),
         \A i \in 1..Len(clients) :
           /\ clients[i].ip = connectedClients[i].ip
           /\ clients[i].num_msg_rcv = connectedClients[i].num_msg_rcv
           /\ clients[i].num_msg_sent = connectedClients[i].num_msg_sent
  PROVE  \A new \in Records' : \E old \in Records :
           /\ old.ip = new.ip
           /\ old.num_msg_rcv = new.num_msg_rcv
           /\ old.num_msg_sent = new.num_msg_sent
<1> SUFFICES ASSUME NEW new \in Records'
             PROVE  \E old \in Records : /\ old.ip = new.ip
                                         /\ old.num_msg_rcv = new.num_msg_rcv
                                         /\ old.num_msg_sent = new.num_msg_sent
  OBVIOUS
<1>1. PICK i \in 1..Len(clients) : new = clients[i]
  BY LenProperties DEF Records, Range
<1>2. connectedClients[i] \in Records
  BY LenProperties DEF IInv, TypeOK, Records, Range
<1> QED
  BY <1>1, <1>2

LEMMA ChangeCounts ==
  ASSUME IInv, OneConnection, ~Ends, NEW fd \in master_list, NEW k \in Nat, NEW items,
         NEW changed,
         IndexAt(fd) # 0 => /\ changed \in ListData
                            /\ changed.ip = RecordAt(fd).ip
                            /\ changed.socket = RecordAt(fd).socket
                            /\ changed.num_msg_rcv = RecordAt(fd).num_msg_rcv
                            /\ changed.num_msg_sent = RecordAt(fd).num_msg_sent,
         Handle(fd, k, items, ChangedAt(fd, changed)),
         \A item \in items : item.kind # "chat",
         Head(Unread(fd)).op # "SEND"
  PROVE  CountedRightly
<1> DEFINE clients == ChangedAt(fd, changed)
<1>1. connectedClients \in Seq(ListData) /\ IndexAt(fd) \in 0..Len(connectedClients)
  BY Serving, IndexAtProperties
<1>2. /\ clients \in Seq(ListData)
      /\ SameClients(clients, connectedClients)
      /\ \A i \in 1..Len(connectedClients) :
           clients[i] = IF IndexAt(fd) = i THEN changed ELSE connectedClients[i]
  BY <1>1, ChangedAtProperties
<1>3. connectedClients' = clients /\ out' = items
  BY DEF Handle
<1> HIDE DEF clients
<1>4. Len(clients) = Len(connectedClients)
      /\ \A i \in 1..Len(clients) :
           /\ clients[i].ip = connectedClients[i].ip
           /\ clients[i].num_msg_rcv = connectedClients[i].num_msg_rcv
           /\ clients[i].num_msg_sent = connectedClients[i].num_msg_sent
  BY <1>2 DEF SameClients, RecordAt
<1>5. \A new \in Records' : \E old \in Records :
        /\ old.ip = new.ip
        /\ old.num_msg_rcv = new.num_msg_rcv
        /\ old.num_msg_sent = new.num_msg_sent
  BY <1>2, <1>3, <1>4, SameCounts
<1>6. AddressedChats = {}
  BY <1>3 DEF AddressedChats
<1>7. \A n \in master_list : ~Send(n)
  BY OneSender
<1> QED
  BY <1>5, <1>6, <1>7, CountsNothing

\* A handler of commands but SEND and BROADCAST.
LEMMA CommandCounts ==
  ASSUME IInv, OneConnection, ~Ends, NEW fd \in master_list,
         Unknown(fd) \/ Refresh(fd) \/ Block(fd) \/ Unblock(fd) \/ Logout(fd) \/ Login(fd)
  PROVE  CountedRightly
<1> DEFINE old == RecordAt(fd)
<1>1. IndexAt(fd) # 0 => old \in ListData
  BY Serving
<1>2. Len(Unread(fd)) \in Nat
  BY Serving
<1>3. ASSUME NEW k \in Nat, NEW items, Handle(fd, k, items, connectedClients),
             \A item \in items : item.kind # "chat", Head(Unread(fd)).op # "SEND"
      PROVE  CountedRightly
  <2>1. ChangedAt(fd, old) = connectedClients
    <3>1. CASE IndexAt(fd) = 0
      BY <3>1 DEF ChangedAt
    <3>2. CASE IndexAt(fd) # 0
      <4>1. ChangedAt(fd, old) =
              [connectedClients EXCEPT ![IndexAt(fd)] = connectedClients[IndexAt(fd)]]
        BY <3>2 DEF ChangedAt, ReplaceAt, RecordAt
      <4>2. connectedClients \in [1..Len(connectedClients) -> ListData]
        BY Serving, LenProperties, ElementOfSeq
      <4> QED
        BY <4>1, <4>2
    <3> QED
      BY <3>1, <3>2
  <2> QED
    BY <1>1, <1>3, <2>1, ChangeCounts
<1>4. CASE Unknown(fd)
  BY <1>2, <1>3, <1>4 DEF Unknown
<1>5. CASE Refresh(fd)
  BY <1>3, <1>5 DEF Refresh, Reads, ListOf
<1>6. CASE Block(fd)
  <2>1. PICK k \in 1..Len(Unread(fd)) :
          /\ Reads(fd, k, "BLOCK")
          /\ Handle(fd, k, {}, ChangedAt(fd, [old EXCEPT !.BlockList = Append(@, Target(fd))]))
    BY <1>6 DEF Block
  <2>2. Target(fd) \in Addresses
    BY <2>1, TargetType DEF Targeted
  <2> DEFINE changed == [old EXCEPT !.BlockList = Append(@, Target(fd))]
  <2>3. IndexAt(fd) # 0 => /\ changed \in ListData
                           /\ changed.ip = old.ip /\ changed.socket = old.socket
                           /\ changed.num_msg_rcv = old.num_msg_rcv
                           /\ changed.num_msg_sent = old.num_msg_sent
    <3>1. IndexAt(fd) # 0 => /\ old \in ListData /\ old.BlockList \in Seq(Addresses)
                             /\ Append(old.BlockList, Target(fd)) \in Seq(Addresses)
      BY <1>1, <2>2, AppendProperties DEF ListData
    <3> HIDE DEF old
    <3> QED
      BY <3>1 DEF ListData
  <2> HIDE DEF changed
  <2>4. Handle(fd, k, {}, ChangedAt(fd, changed)) /\ k \in Nat /\ Head(Unread(fd)).op # "SEND"
    BY <1>2, <2>1 DEF Reads, changed
  <2> QED
    BY <2>3, <2>4, ChangeCounts, SMTT(20)
<1>7. CASE Unblock(fd)
  <2> DEFINE changed == [old EXCEPT !.BlockList = Unblocked(@, Target(fd))]
  <2>1. PICK k \in 1..Len(Unread(fd)) :
          Reads(fd, k, "UNBLOCK") /\ Handle(fd, k, {}, ChangedAt(fd, changed))
    BY <1>7 DEF Unblock
  <2>2. IndexAt(fd) # 0 => /\ changed \in ListData
                           /\ changed.ip = old.ip /\ changed.socket = old.socket
                           /\ changed.num_msg_rcv = old.num_msg_rcv
                           /\ changed.num_msg_sent = old.num_msg_sent
    BY <1>1, UnblockedProperties DEF ListData
  <2> HIDE DEF changed
  <2>3. k \in Nat /\ Head(Unread(fd)).op # "SEND"
    BY <1>2, <2>1 DEF Reads
  <2> QED
    BY <2>1, <2>2, <2>3, ChangeCounts
<1>8. CASE Logout(fd)
  <2> DEFINE changed == [old EXCEPT !.isLoggedIn = FALSE]
  <2>1. Handle(fd, 1, {}, ChangedAt(fd, changed)) /\ Head(Unread(fd)).op # "SEND"
    BY <1>8 DEF Logout, Reads
  <2>2. IndexAt(fd) # 0 => /\ changed \in ListData
                           /\ changed.ip = old.ip /\ changed.socket = old.socket
                           /\ changed.num_msg_rcv = old.num_msg_rcv
                           /\ changed.num_msg_sent = old.num_msg_sent
    BY <1>1 DEF ListData
  <2> HIDE DEF changed
  <2> QED
    BY <2>1, <2>2, ChangeCounts
<1>9. CASE Login(fd)
  <2> DEFINE changed == [old EXCEPT !.isLoggedIn = TRUE]
             list(to) == ListOf(to, clientList(connectedClients))
  <2>1. PICK k \in 1..Len(Unread(fd)),
             items \in IF IndexAt(fd) # 0 THEN {{list(fd)}}
                       ELSE Anywhere({list(to) : to \in master_list}) :
          Reads(fd, k, "LOGIN") /\ Handle(fd, k, items, ChangedAt(fd, changed))
    BY <1>9 DEF Login, LoggedIn
  <2>2. IndexAt(fd) # 0 => /\ changed \in ListData
                           /\ changed.ip = old.ip /\ changed.socket = old.socket
                           /\ changed.num_msg_rcv = old.num_msg_rcv
                           /\ changed.num_msg_sent = old.num_msg_sent
    BY <1>1 DEF ListData
  <2> HIDE DEF changed
  <2>3. k \in Nat /\ Head(Unread(fd)).op # "SEND" /\ \A item \in items : item.kind # "chat"
    BY <1>2, <2>1 DEF Reads, Anywhere, ListOf
  <2> QED
    BY <2>1, <2>2, <2>3, ChangeCounts
<1> QED
  BY <1>4, <1>5, <1>6, <1>7, <1>8, <1>9

\* SEND and BROADCAST count what they put out, at the records they reach.
LEMMA RelayCounts ==
  ASSUME IInv, NEW fd \in master_list, NEW clients \in Seq(ListData),
         NEW reached \in SUBSET (1..Len(connectedClients)),
         connectedClients' = clients, Len(clients) = Len(connectedClients),
         AddressedChats = MessagesTo(SourceIP(fd), reached),
         \A i \in 1..Len(connectedClients) :
           /\ clients[i].ip = connectedClients[i].ip
           /\ clients[i].num_msg_rcv =
                connectedClients[i].num_msg_rcv + (IF i \in reached THEN 1 ELSE 0)
           /\ clients[i].num_msg_sent = connectedClients[i].num_msg_sent
                + (IF Send(connectedClients[i].socket) THEN 1 ELSE 0)
  PROVE  CountedRightly
<1> SUFFICES ASSUME NEW old \in Records, NEW new \in Records', old.ip = new.ip
             PROVE  /\ new.num_msg_rcv = old.num_msg_rcv
                         + Cardinality({item \in AddressedChats : item.dest = old.ip})
                    /\ new.num_msg_sent = old.num_msg_sent
                         + (IF Send(old.socket) THEN 1 ELSE 0)
  BY DEF CountedRightly
<1>1. PICK i \in 1..Len(connectedClients) : old = connectedClients[i]
  BY LenProperties DEF IInv, TypeOK, Records, Range
<1>2. PICK j \in 1..Len(connectedClients) : new = clients[j]
  BY LenProperties DEF Records, Range
<1>3. i = j
  <2>1. Match(connectedClients)
    BY Serving
  <2> QED
    BY <1>1, <1>2, <2>1 DEF Match
<1>4. Cardinality({item \in AddressedChats : item.dest = connectedClients[i].ip}) =
        IF i \in reached THEN 1 ELSE 0
  BY Tally
<1>5. new.num_msg_rcv = old.num_msg_rcv
        + Cardinality({item \in AddressedChats : item.dest = old.ip})
  BY <1>1, <1>2, <1>3, <1>4
<1>6. new.num_msg_sent = old.num_msg_sent + (IF Send(old.socket) THEN 1 ELSE 0)
  BY <1>1, <1>2, <1>3
<1> QED
  BY <1>5, <1>6

\* Each message MessagesTo makes is for an address with a record.
LEMMA AllAddressed ==
  ASSUME IInv, NEW src, NEW reached \in SUBSET (1..Len(connectedClients)),
         out' = MessagesTo(src, reached)
  PROVE  AddressedChats = MessagesTo(src, reached)
<1>1. connectedClients \in Seq(ListData) /\ Match(connectedClients)
  BY RecordsMatch DEF IInv, TypeOK
<1>2. \A i \in reached : IndexOf(connectedClients[i].ip) # 0
  BY <1>1, IndexUnique, LenProperties
<1>3. \A item \in MessagesTo(src, reached) : item.kind = "chat" /\ IndexOf(item.dest) # 0
  BY <1>2, MessagesToProperties DEF Chat
<1> QED
  BY <1>3 DEF AddressedChats

LEMMA SendCounts ==
  ASSUME IInv, OneConnection, ~Ends, NEW fd \in master_list, Send(fd)
  PROVE  CountedRightly
<1>1. PICK k, items, clients, reached :
        /\ k \in Nat \ {0} /\ clients \in Seq(ListData)
        /\ reached \in SUBSET (1..Len(connectedClients))
        /\ Sending(fd, k, items, clients, reached)
  BY SendProperties
<1>2. Handle(fd, k, items, clients) /\ connectedClients' = clients /\ out' = items
  BY <1>1 DEF Sending, Handle
<1>3. AddressedChats = MessagesTo(SourceIP(fd), reached)
  <2>1. CASE items = MessagesTo(SourceIP(fd), reached)
    BY <1>1, <1>2, <2>1, AllAddressed
  <2>2. CASE /\ IndexOf(Target(fd)) = 0 /\ reached = {}
             /\ items \in Anywhere({Chat(to, SourceIP(fd), Target(fd)) : to \in master_list})
    <3>1. \A item \in items : item.dest = Target(fd)
      BY <2>2 DEF Anywhere, Chat
    <3>2. AddressedChats = {}
      BY <1>2, <2>2, <3>1 DEF AddressedChats
    <3>3. MessagesTo(SourceIP(fd), reached) = {}
      BY <2>2 DEF MessagesTo
    <3> QED
      BY <3>2, <3>3
  <2> QED
    BY <1>1, <2>1, <2>2 DEF Sending
<1>4. ASSUME NEW i \in 1..Len(connectedClients)
      PROVE  Send(connectedClients[i].socket) <=> i = IndexAt(fd)
  <2>1. /\ connectedClients[i].socket \in master_list
        /\ IndexAt(connectedClients[i].socket) = i
    BY Serving, IndexUnique DEF Match
  <2>2. Send(connectedClients[i].socket) => connectedClients[i].socket = fd
    BY <1>1, <1>2, <2>1, OneSender
  <2>3. i = IndexAt(fd) => connectedClients[i].socket = fd
    BY <2>1, Serving, IndexAtProperties
  <2> QED
    BY <2>1, <2>2, <2>3
<1>5. \A i \in 1..Len(connectedClients) :
        (IF i = IndexAt(fd) THEN 1 ELSE 0) = IF Send(connectedClients[i].socket) THEN 1 ELSE 0
  BY <1>4, Zenon
<1>6. \A i \in 1..Len(connectedClients) :
        /\ clients[i].ip = connectedClients[i].ip
        /\ clients[i].num_msg_rcv =
             connectedClients[i].num_msg_rcv + (IF i \in reached THEN 1 ELSE 0)
        /\ clients[i].num_msg_sent = connectedClients[i].num_msg_sent
             + (IF Send(connectedClients[i].socket) THEN 1 ELSE 0)
  BY <1>1, <1>5, Zenon DEF Sending, SameStanding
<1>7. Len(clients) = Len(connectedClients)
  BY <1>1 DEF Sending
<1> QED
  BY <1>1, <1>2, <1>3, <1>6, <1>7, RelayCounts

LEMMA BroadcastCounts ==
  ASSUME IInv, OneConnection, ~Ends, NEW fd \in master_list, Broadcast(fd)
  PROVE  CountedRightly
<1>1. PICK k, clients, reached :
        /\ k \in Nat \ {0} /\ clients \in Seq(ListData)
        /\ reached \in SUBSET (1..Len(connectedClients))
        /\ Broadcasting(fd, k, clients, reached)
  BY BroadcastProperties
<1>2. /\ Handle(fd, k, MessagesTo(SourceIP(fd), reached), clients)
      /\ connectedClients' = clients /\ out' = MessagesTo(SourceIP(fd), reached)
      /\ Head(Unread(fd)).op = "BROADCAST"
  BY <1>1 DEF Broadcasting, Handle, Reads
<1>3. AddressedChats = MessagesTo(SourceIP(fd), reached)
  BY <1>1, <1>2, AllAddressed
<1>4. \A n \in master_list : ~Send(n)
  BY <1>1, <1>2, OneSender
<1>5. ASSUME NEW i \in 1..Len(connectedClients)
      PROVE  /\ clients[i].num_msg_sent = connectedClients[i].num_msg_sent + 0
             /\ ~Send(connectedClients[i].socket)
  <2>1. connectedClients[i].socket \in master_list /\ connectedClients[i].num_msg_sent \in Nat
    BY Serving, RecordType DEF Match
  <2> QED
    BY <1>1, <1>4, <2>1 DEF Broadcasting
<1>6. \A i \in 1..Len(connectedClients) :
        /\ clients[i].ip = connectedClients[i].ip
        /\ clients[i].num_msg_rcv =
             connectedClients[i].num_msg_rcv + (IF i \in reached THEN 1 ELSE 0)
        /\ clients[i].num_msg_sent = connectedClients[i].num_msg_sent
             + (IF Send(connectedClients[i].socket) THEN 1 ELSE 0)
  BY <1>1, <1>5, Zenon DEF Broadcasting, SameStanding
<1>7. Len(clients) = Len(connectedClients)
  BY <1>1 DEF Broadcasting
<1> QED
  BY <1>1, <1>2, <1>3, <1>6, <1>7, RelayCounts

\* The port of a client makes a record that has counted nothing, or marks one.
LEMMA ReceivePortCounts ==
  ASSUME IInv, OneConnection, ~Ends, ReceivePort
  PROVE  CountedRightly
<1> DEFINE p == peer[accepting]
           ip == HostOf[p]
           fresh == [ip |-> ip, socket |-> accepting, port |-> Port[p],
                     BlockList |-> << >>, isLoggedIn |-> TRUE,
                     num_msg_sent |-> 0, num_msg_rcv |-> 0, buffer |-> << >>]
           added == Append(connectedClients, fresh)
           marked == [connectedClients EXCEPT ![IndexOf(ip)].isLoggedIn = TRUE]
           first == {ListOf(accepting, clientList(added))}
           again == {ListOf(connectedClients[IndexOf(ip)].socket, clientList(marked))}
<1>1. accepting \in master_list /\ accepting # 0
  BY DEF ReceivePort, IInv, TypeOK
<1>2. connectedClients \in Seq(ListData) /\ Len(connectedClients) \in Nat
      /\ DOMAIN connectedClients = 1..Len(connectedClients)
  BY <1>1, Serving
<1>3. \/ connectedClients' = connectedClients
      \/ connectedClients' = added /\ ~isExist(ip)
      \/ connectedClients' = marked /\ isExist(ip)
  BY DEF ReceivePort, Handle
<1>4. AddressedChats = {}
  BY ReceivePortOut DEF AddressedChats
<1>5. \A n \in master_list : ~Send(n)
  BY <1>1, SendTakes
<1>6. ASSUME NEW new \in Records'
      PROVE  \/ \A old \in Records : old.ip # new.ip
             \/ \E old \in Records : /\ old.ip = new.ip
                                     /\ old.num_msg_rcv = new.num_msg_rcv
                                     /\ old.num_msg_sent = new.num_msg_sent
  <2>1. CASE connectedClients' = connectedClients
    BY <2>1 DEF Records
  <2>2. CASE connectedClients' = added /\ ~isExist(ip)
    <3>1. \A old \in Records : old.ip # ip
      BY <1>2, <2>2, IndexOfProperties DEF isExist, Records, Range
    <3>2. fresh.ip = ip
      OBVIOUS
    <3> HIDE DEF fresh, ip
    <3>3. new \in Records \/ new = fresh
      <4>1. /\ DOMAIN added = 1..Len(connectedClients) + 1
            /\ \A i \in 1..Len(connectedClients) : added[i] = connectedClients[i]
            /\ added[Len(connectedClients) + 1] = fresh
        BY <1>2
      <4>2. PICK i \in 1..Len(connectedClients) + 1 : new = added[i]
        BY <2>2, <4>1 DEF Records, Range
      <4> QED
        BY <1>2, <4>1, <4>2 DEF Records, Range
    <3> QED
      BY <3>1, <3>2, <3>3
  <2>3. CASE connectedClients' = marked /\ isExist(ip)
    <3>1. IndexOf(ip) \in 1..Len(connectedClients)
      BY <1>2, <2>3, IndexOfProperties DEF isExist
    <3> HIDE DEF ip
    <3>2. PICK i \in 1..Len(connectedClients) : new = marked[i]
      BY <1>2, <2>3 DEF Records, Range
    <3>3. connectedClients[i] \in ListData
      BY <1>2, ElementOfSeq
    <3>4. /\ new.ip = connectedClients[i].ip
          /\ new.num_msg_rcv = connectedClients[i].num_msg_rcv
          /\ new.num_msg_sent = connectedClients[i].num_msg_sent
      BY <1>2, <3>1, <3>2, <3>3 DEF ListData
    <3> QED
      BY <1>2, <3>4 DEF Records, Range
  <2> QED
    BY <1>3, <2>1, <2>2, <2>3
<1> QED
  BY <1>4, <1>5, <1>6, CountsNothing

LEMMA QuietCounts ==
  ASSUME IInv, ~Ends, AddressedChats = {}, Records' \subseteq Records,
         \A p \in Clients : Len(input'[p]) >= Len(input[p])
  PROVE  CountedRightly
<1>1. \A p \in Clients : Len(input[p]) \in Nat /\ Len(input'[p]) \in Nat
                         => ~(Len(input'[p]) < Len(input[p]))
  OBVIOUS
<1>2. ASSUME NEW fd \in master_list, Send(fd)
      PROVE  FALSE
  <2>1. PICK k, items, clients : k \in Nat /\ Handle(fd, k, items, clients)
    BY <1>2, SendProperties DEF Sending
  <2>2. peer[fd] \in Clients /\ input[peer[fd]] \in Seq(Command)
    BY Serving DEF IInv, TypeOK, ConnectionsOK
  <2>3. IInv'
    BY <1>2, SendInv
  <2>4. input'[peer[fd]] \in Seq(Command)
    BY <2>2, <2>3 DEF IInv, TypeOK, ConnectionsOK
  <2> QED
    BY <1>1, <1>2, <2>2, <2>4, SendTakes, LenProperties
<1> QED
  BY <1>2, CountsNothing

\* The records that are left when a connection ends were there before.
LEMMA EraseRecords ==
  ASSUME IInv, NEW fd \in master_list, connectedClients' = Erase(fd)
  PROVE  Records' \subseteq Records
<1>1. CASE IndexAt(fd) = 0
  BY <1>1 DEF Erase, Records
<1>2. CASE IndexAt(fd) # 0
  <2> DEFINE at == IndexAt(fd)
  <2>1. /\ connectedClients \in Seq(ListData) /\ Len(connectedClients) \in Nat
        /\ at \in 1..Len(connectedClients)
        /\ DOMAIN connectedClients = 1..Len(connectedClients)
    BY <1>2, Serving
  <2>2. connectedClients' = RemoveAt(connectedClients, at)
    BY <1>2 DEF Erase
  <2> HIDE DEF at
  <2>3. /\ connectedClients' \in Seq(ListData)
        /\ Len(connectedClients') = Len(connectedClients) - 1
        /\ \A j \in 1..Len(connectedClients) - 1 :
             connectedClients'[j] =
               IF j < at THEN connectedClients[j] ELSE connectedClients[j + 1]
    BY <2>1, <2>2, RemoveAtProperties
  <2>4. \A j \in 1..Len(connectedClients) - 1 : connectedClients'[j] \in Records
    <3>1. \A i \in 1..Len(connectedClients) : connectedClients[i] \in Records
      BY <2>1 DEF Records, Range
    <3> QED
      BY <2>1, <2>3, <3>1
  <2>5. DOMAIN connectedClients' = 1..Len(connectedClients) - 1
    BY <2>3, LenProperties
  <2> QED
    BY <2>4, <2>5 DEF Records, Range
<1> QED
  BY <1>1, <1>2

LEMMA CountedRightlyStep == IInv /\ IInv' /\ OneConnection /\ Next => CountedRightly
<1> SUFFICES ASSUME IInv, IInv', OneConnection, Next PROVE CountedRightly
  OBVIOUS
<1>1. CASE connectedClients' = << >>
  <2>1. Records' = {}
    BY <1>1, EmptySeq DEF Records, Range
  <2> QED
    BY <2>1 DEF CountedRightly
<1> SUFFICES ASSUME connectedClients' # << >> PROVE CountedRightly
  BY <1>1
<1>2. ~Ends
  BY NotEnded
<1>3. \A p \in Clients : input[p] \in Seq(Command) /\ Len(input[p]) \in Nat
  BY LenProperties DEF IInv, TypeOK, ConnectionsOK
<1>4. CASE Accept \/ Sort
  <2>1. UNCHANGED input /\ out' = {}
    BY <1>4 DEF Accept, Sort, connVars
  <2>2. Records' \subseteq Records
    <3>1. CASE Accept
      BY <3>1 DEF Accept, Records
    <3>2. CASE Sort
      BY <3>2 DEF Sort, SetToSeqs, Records, Range
    <3> QED
      BY <1>4, <3>1, <3>2
  <2>3. AddressedChats = {}
    BY <2>1 DEF AddressedChats
  <2> QED
    BY <1>2, <1>3, <2>1, <2>2, <2>3, QuietCounts
<1>5. ASSUME NEW p \in Clients, ClientStep(p)
      PROVE  CountedRightly
  <2>1. UNCHANGED serverVars /\ out' = {}
    BY <1>5 DEF ClientStep
  <2>2. AddressedChats = {} /\ Records' \subseteq Records
    BY <2>1 DEF AddressedChats, Records, serverVars
  <2>3. \/ UNCHANGED input
        \/ \E e \in Command : input' = [input EXCEPT ![p] = Append(@, e)]
    <3>1. Bare("port") \in Command
      BY DEF Bare, Command
    <3>2. \A e \in [op : Targeted, ip : Addresses] \union [op : Ops \ Targeted, ip : {NoHost}] :
            e \in Command
      BY DEF Command
    <3> QED
      BY <1>5, <3>1, <3>2 DEF ClientStep, Connect, SendPort, Transmit, End
  <2>4. \A q \in Clients : Len(input'[q]) >= Len(input[q])
    <3>1. CASE UNCHANGED input
      BY <1>3, <3>1
    <3>2. ASSUME NEW e \in Command, input' = [input EXCEPT ![p] = Append(@, e)]
          PROVE  \A q \in Clients : Len(input'[q]) >= Len(input[q])
      <4>1. Len(Append(input[p], e)) = Len(input[p]) + 1
        BY <1>3, AppendProperties
      <4>2. input'[p] = Append(input[p], e) /\ \A q \in Clients \ {p} : input'[q] = input[q]
        BY <3>2 DEF IInv, TypeOK, ConnectionsOK
      <4> QED
        BY <1>3, <4>1, <4>2
    <3> QED
      BY <2>3, <3>1, <3>2
  <2> QED
    BY <1>2, <2>2, <2>4, QuietCounts
<1>6. ASSUME NEW fd \in master_list, Disconnect(fd)
      PROVE  CountedRightly
  <2>1. UNCHANGED input /\ out' = {} /\ connectedClients' = Erase(fd)
    BY <1>6 DEF Disconnect, connVars
  <2>2. Records' \subseteq Records
    BY <2>1, EraseRecords
  <2>3. AddressedChats = {}
    BY <2>1 DEF AddressedChats
  <2> QED
    BY <1>2, <1>3, <2>1, <2>2, <2>3, QuietCounts
<1>7. ASSUME NEW fd \in Fds, Serve(fd)
      PROVE  CountedRightly
  <2>1. fd \in master_list
    BY <1>7 DEF Serve
  <2> QED
    BY <1>2, <1>6, <1>7, <2>1, CommandCounts, SendCounts, BroadcastCounts DEF Serve
<1> QED
  BY <1>2, <1>4, <1>5, <1>7, ReceivePortCounts DEF Next, ServerStep, Exit

\* num_msg_rcv of a record counts the messages put out to its client, and
\* num_msg_sent its SENDs.
THEOREM StatisticsFollow == Spec => StatisticsFollowRelays
<1>1. IInv /\ IInv' /\ OneConnection /\ [Next]_vars => [CountedRightly]_vars
  BY CountedRightlyStep
<1> QED
  BY <1>1, Invariance, OneConnectionEach, PTL DEF Spec, StatisticsFollowRelays

----------------------------------------------------------------------------
(* What the server takes up behind accept is a port: it is the first thing *)
(* a process sends on a connection, and nothing of an earlier connection   *)
(* is left before it.                                                      *)

Awaited(p) ==
  \/ \E i \in 1..Len(backlog) : backlog[i] = p
  \/ accepting # 0 /\ peer[accepting] = p

PortFirst ==
  \A p \in Clients :
    /\ link[p] \in {"none", "made", "hung"} => input[p] = << >>
    /\ Awaited(p) => IF input[p] = << >> THEN link[p] # "up" ELSE input[p][1].op = "port"

LEMMA PortFirstInit == Init => PortFirst
<1> SUFFICES ASSUME Init PROVE PortFirst
  OBVIOUS
<1>1. Len(<< >>) = 0
  BY EmptySeq
<1> QED
  BY <1>1 DEF Init, ConnectionsInit, PortFirst, Awaited

LEMMA PortFirstEnds ==
  ASSUME Ends
  PROVE  PortFirst'
<1>1. Len(<< >>) = 0
  BY EmptySeq
<1> QED
  BY <1>1 DEF Ends, HangUp, PortFirst, Awaited

\* What is left of nothing is nothing.
LEMMA NothingLeft ==
  ASSUME NEW k \in Nat
  PROVE  SubSeq(<< >>, k + 1, Len(<< >>)) = << >>
<1>1. Len(<< >>) = 0 /\ << >> \in Seq({})
  BY EmptySeq
<1>2. SubSeq(<< >>, k + 1, 0) \in Seq({}) /\ Len(SubSeq(<< >>, k + 1, 0)) = 0
  BY <1>1, SubSeqProperties
<1> QED
  BY <1>1, <1>2, EmptySeq

\* A handler reads of a connection that is not waited for any more.
LEMMA PortFirstHandle ==
  ASSUME IInv, OneConnection, PortFirst, NEW fd \in master_list, accepting \in {0, fd},
         NEW k \in Nat, NEW items, NEW clients, Handle(fd, k, items, clients)
  PROVE  PortFirst'
<1>1. CASE Ends
  BY <1>1, PortFirstEnds
<1>2. CASE ~Ends
  <2>1. /\ input' = [input EXCEPT ![peer[fd]] = SubSeq(@, k + 1, Len(@))]
        /\ accepting' = 0 /\ UNCHANGED <<peer, link, backlog>>
        /\ input \in [Clients -> Seq(Command)] /\ peer[fd] \in Clients /\ fd \in Fds
    BY <1>2, Serving DEF Handle, IInv, TypeOK, ConnectionsOK
  <2>2. ASSUME NEW p \in Clients, Awaited(p)'
        PROVE  Awaited(p) /\ p # peer[fd]
    BY <2>1, <2>2 DEF Awaited, OneConnection
  <2>3. ASSUME NEW p \in Clients, p # peer[fd]
        PROVE  input'[p] = input[p]
    BY <2>1, <2>3
  <2>4. ASSUME NEW p \in Clients, input[p] = << >>
        PROVE  input'[p] = << >>
    BY <2>1, <2>4, NothingLeft
  <2> QED
    BY <2>1, <2>2, <2>3, <2>4 DEF PortFirst
<1> QED
  BY <1>1, <1>2

\* accept takes the connection that has waited longest.
LEMMA PortFirstAccept ==
  ASSUME IInv, PortFirst, Accept
  PROVE  PortFirst'
<1>1. /\ backlog # << >> /\ backlog' = Tail(backlog) /\ Fds \ master_list # {}
      /\ peer' = [peer EXCEPT ![FreeFd] = Head(backlog)] /\ accepting' = FreeFd
      /\ UNCHANGED <<link, input>>
      /\ backlog \in Seq(Clients) /\ peer \in [Fds -> Clients \union {NoClient}]
  BY DEF Accept, IInv, TypeOK, ConnectionsOK
<1>2. /\ Len(backlog) \in Nat /\ Len(backlog) >= 1 /\ Head(backlog) = backlog[1]
      /\ Len(Tail(backlog)) = Len(backlog) - 1
      /\ \A i \in 1..Len(Tail(backlog)) : Tail(backlog)[i] = backlog[i + 1]
  BY <1>1, HeadTailProperties, LenProperties, EmptySeq
<1>3. \A i \in 1..Len(backlog') : i + 1 \in 1..Len(backlog) /\ backlog'[i] = backlog[i + 1]
  BY <1>1, <1>2
<1>4. 1 \in 1..Len(backlog) /\ peer'[accepting'] = backlog[1]
  BY <1>1, <1>2, FreeFdProperties
<1>5. ASSUME NEW p \in Clients, Awaited(p)'
      PROVE  Awaited(p)
  BY <1>3, <1>4, <1>5 DEF Awaited
<1> QED
  BY <1>1, <1>5 DEF PortFirst

\* A client sends its port when it has connected, and nothing else before.
LEMMA PortFirstClient ==
  ASSUME IInv, PortFirst, NEW p \in Clients, UNCHANGED <<peer, accepting>>,
         \/ Connect(p)
         \/ SendPort(p)
         \/ \E command \in Command : Transmit(p, command)
         \/ UNCHANGED <<backlog, input>> /\ link' \in {link, [link EXCEPT ![p] = "ended"]}
  PROVE  PortFirst'
<1>1. /\ link \in [Clients -> Links] /\ input \in [Clients -> Seq(Command)]
      /\ backlog \in Seq(Clients)
  BY DEF IInv, TypeOK, ConnectionsOK
<1>2. CASE UNCHANGED <<backlog, input>>
           /\ (link' = link \/ link' = [link EXCEPT ![p] = "ended"])
  <2>1. \A q \in Clients : link'[q] = link[q] \/ link'[q] = "ended"
    BY <1>1, <1>2
  <2>2. \A q \in Clients : Awaited(q)' => Awaited(q)
    BY <1>2 DEF Awaited
  <2> QED
    BY <1>2, <2>1, <2>2 DEF PortFirst
<1>3. CASE Connect(p)
  <2>1. /\ link[p] \in {"none", "hung"} /\ link' = [link EXCEPT ![p] = "made"]
        /\ backlog' = Append(backlog, p) /\ input' = input
    BY <1>3 DEF Connect
  <2>2. /\ Len(backlog) \in Nat /\ Len(backlog') = Len(backlog) + 1
        /\ \A i \in 1..Len(backlog) : backlog'[i] = backlog[i]
        /\ backlog'[Len(backlog) + 1] = p
    BY <1>1, <2>1, AppendProperties, LenProperties
  <2>3. \A i \in 1..Len(backlog') :
          \/ i \in 1..Len(backlog) /\ backlog'[i] = backlog[i]
          \/ i = Len(backlog) + 1 /\ backlog'[i] = p
    BY <2>2
  <2>4. \A q \in Clients : Awaited(q)' => q = p \/ Awaited(q)
    BY <2>3 DEF Awaited
  <2>5. input[p] = << >>
    BY <2>1 DEF PortFirst
  <2>6. link'[p] = "made" /\ \A q \in Clients : q # p => link'[q] = link[q]
    BY <1>1, <2>1
  <2> QED
    BY <2>1, <2>4, <2>5, <2>6 DEF PortFirst
<1>4. ASSUME NEW command \in Command, UNCHANGED backlog,
             input' = [input EXCEPT ![p] = Append(@, command)],
             \A q \in Clients : q # p => link'[q] = link[q],
             link'[p] = "up",
             input[p] = << >> => ~Awaited(p) \/ command.op = "port"
      PROVE  PortFirst'
  <2>1. \A q \in Clients : Awaited(q)' => Awaited(q)
    BY <1>4 DEF Awaited
  <2>2. /\ input'[p] = Append(input[p], command)
        /\ \A q \in Clients : q # p => input'[q] = input[q]
    BY <1>1, <1>4
  <2>3. /\ input[p] \in Seq(Command) /\ Len(input[p]) \in Nat
        /\ input'[p] \in Seq(Command) /\ Len(input'[p]) = Len(input[p]) + 1
        /\ \A i \in 1..Len(input[p]) : input'[p][i] = input[p][i]
        /\ input'[p][Len(input[p]) + 1] = command
    BY <1>1, <1>4, <2>2, AppendProperties, LenProperties
  <2>4. input'[p] # << >>
    BY <2>3, EmptySeq
  <2>5. CASE input[p] = << >>
    <3>1. input'[p][1] = command
      BY <2>3, <2>5, EmptySeq
    <3> QED
      BY <1>4, <2>1, <2>2, <2>4, <2>5, <3>1 DEF PortFirst
  <2>6. CASE input[p] # << >>
    <3>1. input'[p][1] = input[p][1]
      BY <2>3, <2>6, EmptySeq
    <3> QED
      BY <1>4, <2>1, <2>2, <2>4, <2>6, <3>1 DEF PortFirst
  <2> QED
    BY <2>5, <2>6
<1>5. CASE SendPort(p)
  <2>1. /\ UNCHANGED backlog /\ link' = [link EXCEPT ![p] = "up"]
        /\ input' = [input EXCEPT ![p] = Append(@, Bare("port"))]
    BY <1>5 DEF SendPort
  <2>2. Bare("port") \in Command /\ Bare("port").op = "port"
    BY DEF Bare, Command
  <2>3. link'[p] = "up" /\ \A q \in Clients : q # p => link'[q] = link[q]
    BY <1>1, <2>1
  <2> QED
    BY <1>4, <2>1, <2>2, <2>3
<1>6. ASSUME NEW command \in Command, Transmit(p, command)
      PROVE  PortFirst'
  <2>1. CASE /\ link[p] = "up" /\ UNCHANGED <<link, backlog>>
             /\ input' = [input EXCEPT ![p] = Append(@, command)]
    <3>1. input[p] = << >> => ~Awaited(p)
      BY <2>1 DEF PortFirst
    <3> QED
      BY <1>4, <2>1, <3>1
  <2>2. CASE /\ link' \in {link, [link EXCEPT ![p] = "ended"]} /\ UNCHANGED <<input, backlog>>
    BY <1>2, <2>2
  <2> QED
    BY <1>6, <2>1, <2>2 DEF Transmit
<1> QED
  BY <1>2, <1>3, <1>5, <1>6

\* The steps of the server, in which nothing is sent.
LEMMA PortFirstServer ==
  ASSUME IInv, OneConnection, PortFirst, ServerStep
  PROVE  PortFirst'
<1>1. CASE Exit
  BY <1>1, PortFirstEnds DEF Exit
<1>2. CASE Sort
  BY <1>2 DEF Sort, connVars, PortFirst, Awaited
<1>3. CASE ReceivePort
  <2>1. PICK k, items, clients : k \in {0, 1} /\ Handle(accepting, k, items, clients)
    BY <1>3 DEF ReceivePort
  <2>2. accepting \in master_list
    BY <1>3 DEF ReceivePort, IInv, TypeOK
  <2> QED
    BY <2>1, <2>2, PortFirstHandle
<1>4. ASSUME NEW fd \in Fds, Serve(fd)
      PROVE  PortFirst'
  <2> fd \in master_list
    BY <1>4 DEF Serve
  <2>1. CASE Disconnect(fd)
    BY <2>1 DEF Disconnect, AtSelect, connVars, PortFirst, Awaited
  <2>2. CASE \E k \in Nat : \E items, clients :
               AtSelect /\ Handle(fd, k, items, clients)
    BY <2>2, PortFirstHandle DEF AtSelect
  <2>3. CASE Send(fd)
    BY <2>2, <2>3, SendProperties DEF Sending, Reads
  <2>4. CASE Broadcast(fd)
    BY <2>2, <2>4, BroadcastProperties DEF Broadcasting, Reads
  <2>5. CASE Refresh(fd) \/ Logout(fd)
    BY <2>2, <2>5 DEF Refresh, Logout, Reads
  <2>6. Len(Unread(fd)) \in Nat
    BY Serving
  <2>7. CASE Unknown(fd)
    <3>1. PICK k \in 2..Len(Unread(fd)) : AtSelect /\ Handle(fd, k, {}, connectedClients)
      BY <2>7 DEF Unknown
    <3> QED
      BY <2>2, <2>6, <3>1
  <2>8. CASE Block(fd) \/ Unblock(fd) \/ Login(fd)
    <3>1. PICK k \in 1..Len(Unread(fd)) :
            AtSelect /\ \E items, clients : Handle(fd, k, items, clients)
      BY <2>8 DEF Block, Unblock, Login, Reads
    <3> QED
      BY <2>2, <2>6, <3>1
  <2> QED
    BY <1>4, <2>1, <2>3, <2>4, <2>5, <2>7, <2>8 DEF Serve
<1> QED
  BY <1>1, <1>2, <1>3, <1>4, PortFirstAccept DEF ServerStep

LEMMA PortFirstNext == IInv /\ OneConnection /\ PortFirst /\ [Next]_vars => PortFirst'
<1> SUFFICES ASSUME IInv, OneConnection, PortFirst, [Next]_vars PROVE PortFirst'
  OBVIOUS
<1>1. CASE UNCHANGED vars
  BY <1>1 DEF vars, serverVars, connVars, PortFirst, Awaited
<1>2. ASSUME NEW p \in Clients, ClientStep(p)
      PROVE  PortFirst'
  <2>1. UNCHANGED <<peer, accepting>>
    BY <1>2 DEF ClientStep, serverVars
  <2>2. [op : Targeted, ip : Addresses] \union [op : Ops \ Targeted, ip : {NoHost}]
          \subseteq Command
    BY DEF Command
  <2> QED
    BY <1>2, <2>1, <2>2, PortFirstClient DEF ClientStep, End
<1> QED
  BY <1>1, <1>2, PortFirstServer DEF Next

\* The server reads the port of a process before anything else it sent, so no
\* command is taken for a port (recv of client_port after accept).
THEOREM PortsFirst == Spec => []PortFirst
<1>1. Init => PortFirst
  BY PortFirstInit
<1>2. IInv /\ OneConnection /\ PortFirst /\ [Next]_vars => PortFirst'
  BY PortFirstNext
<1> QED
  BY <1>1, <1>2, Invariance, OneConnectionEach, PTL DEF Spec

----------------------------------------------------------------------------
(* The server implements ChatService: each step maps to a step of it or to *)
(* a stutter.  This takes OneConnection, for the process of a member is    *)
(* found at one connection only, and PortFirst, for what makes a member is *)
(* what its process sent first.                                            *)

RefinementInv == IInv /\ OneConnection /\ PortFirst

\* What ChatService has of a record with process p at the other end.
MemberOf(c, p) ==
  [process |-> p, isLoggedIn |-> c.isLoggedIn, blocked |-> Range(c.BlockList)]

LEMMA MemberBlocks ==
  ASSUME NEW old, NEW new, NEW p, NEW X,
         new.isLoggedIn = old.isLoggedIn, Range(new.BlockList) = X
  PROVE  MemberOf(new, p) = [MemberOf(old, p) EXCEPT !.blocked = X]
<1>1. \A b, Y : [process |-> p, isLoggedIn |-> b, blocked |-> X]
                  = [[process |-> p, isLoggedIn |-> b, blocked |-> Y] EXCEPT !.blocked = X]
  OBVIOUS
<1>2. MemberOf(new, p) = [process |-> p, isLoggedIn |-> old.isLoggedIn, blocked |-> X]
  BY DEF MemberOf
<1> QED
  BY <1>1, <1>2 DEF MemberOf

LEMMA MemberPresent ==
  ASSUME NEW old, NEW new, NEW p, NEW present,
         new.isLoggedIn = present, new.BlockList = old.BlockList
  PROVE  MemberOf(new, p) = [MemberOf(old, p) EXCEPT !.isLoggedIn = present]
<1>1. \A b, Y : [process |-> p, isLoggedIn |-> present, blocked |-> Y]
                  = [[process |-> p, isLoggedIn |-> b, blocked |-> Y]
                       EXCEPT !.isLoggedIn = present]
  OBVIOUS
<1>2. MemberOf(new, p) =
        [process |-> p, isLoggedIn |-> present, blocked |-> Range(old.BlockList)]
  BY DEF MemberOf
<1> QED
  BY <1>1, <1>2 DEF MemberOf

LEMMA MembersProperties ==
  IInv => /\ Members = [ip \in DOMAIN Members |-> Members[ip]]
          /\ DOMAIN Members = {connectedClients[i].ip : i \in 1..Len(connectedClients)}
          /\ \A i \in 1..Len(connectedClients) :
               Members[connectedClients[i].ip] =
                 MemberOf(connectedClients[i], peer[connectedClients[i].socket])
<1> SUFFICES ASSUME IInv
             PROVE  /\ Members = [ip \in DOMAIN Members |-> Members[ip]]
                    /\ DOMAIN Members = {connectedClients[i].ip : i \in 1..Len(connectedClients)}
                    /\ \A i \in 1..Len(connectedClients) :
                         Members[connectedClients[i].ip] =
                           MemberOf(connectedClients[i], peer[connectedClients[i].socket])
  OBVIOUS
<1> DEFINE ips == {c.ip : c \in Records}
           member(ip) == LET c == connectedClients[IndexOf(ip)]
                         IN  [process |-> peer[c.socket], isLoggedIn |-> c.isLoggedIn,
                              blocked |-> Range(c.BlockList)]
<1>1. connectedClients \in Seq(ListData) /\ Match(connectedClients)
      /\ DOMAIN connectedClients = 1..Len(connectedClients)
  BY RecordsMatch, LenProperties DEF IInv, TypeOK
<1>2. Members = [ip \in ips |-> member(ip)]
  BY DEF Members
<1>3. ips = {connectedClients[i].ip : i \in 1..Len(connectedClients)}
  BY <1>1 DEF Records, Range
<1>4. \A i \in 1..Len(connectedClients) :
        member(connectedClients[i].ip) =
          MemberOf(connectedClients[i], peer[connectedClients[i].socket])
  BY <1>1, IndexUnique DEF MemberOf
<1> HIDE DEF ips, member
<1>5. DOMAIN Members = ips /\ Members = [ip \in DOMAIN Members |-> Members[ip]]
  BY <1>2
<1>6. \A i \in 1..Len(connectedClients) : connectedClients[i].ip \in ips
  BY <1>3
<1> QED
  BY <1>2, <1>3, <1>4, <1>5, <1>6

\* The same after a step.
LEMMA MembersAfter ==
  ASSUME IInv'
  PROVE  /\ Members' = [ip \in DOMAIN Members' |-> Members'[ip]]
         /\ DOMAIN Members' = {connectedClients'[i].ip : i \in 1..Len(connectedClients')}
         /\ \A i \in 1..Len(connectedClients') :
              Members'[connectedClients'[i].ip] =
                MemberOf(connectedClients'[i], peer'[connectedClients'[i].socket])
<1>1. (IInv => /\ Members = [ip \in DOMAIN Members |-> Members[ip]]
               /\ DOMAIN Members = {connectedClients[i].ip : i \in 1..Len(connectedClients)}
               /\ \A i \in 1..Len(connectedClients) :
                    Members[connectedClients[i].ip] =
                      MemberOf(connectedClients[i], peer[connectedClients[i].socket]))'
  BY MembersProperties, PTL
<1> QED
  BY <1>1

\* Two lists of the same standing, in whatever order, are one to the service.
LEMMA SameMembers ==
  ASSUME IInv, IInv',
         \A i \in 1..Len(connectedClients') : \E j \in 1..Len(connectedClients) :
           /\ connectedClients'[i].ip = connectedClients[j].ip
           /\ MemberOf(connectedClients'[i], peer'[connectedClients'[i].socket])
                = MemberOf(connectedClients[j], peer[connectedClients[j].socket]),
         \A j \in 1..Len(connectedClients) : \E i \in 1..Len(connectedClients') :
           connectedClients'[i].ip = connectedClients[j].ip
  PROVE  Members' = Members
<1>1. DOMAIN Members' = DOMAIN Members
  <2> DEFINE old == {connectedClients[j].ip : j \in 1..Len(connectedClients)}
             new == {connectedClients'[i].ip : i \in 1..Len(connectedClients')}
  <2>1. DOMAIN Members = old /\ DOMAIN Members' = new
    BY MembersProperties, MembersAfter
  <2>2. \A ip \in new : ip \in old
    OBVIOUS
  <2>3. \A ip \in old : ip \in new
    OBVIOUS
  <2> HIDE DEF old, new
  <2> QED
    BY <2>1, <2>2, <2>3
<1>2. ASSUME NEW ip \in DOMAIN Members
      PROVE  Members'[ip] = Members[ip]
  <2>1. PICK i \in 1..Len(connectedClients') : ip = connectedClients'[i].ip
    BY <1>1, MembersAfter
  <2>2. PICK j \in 1..Len(connectedClients) :
          /\ connectedClients'[i].ip = connectedClients[j].ip
          /\ MemberOf(connectedClients'[i], peer'[connectedClients'[i].socket])
               = MemberOf(connectedClients[j], peer[connectedClients[j].socket])
    OBVIOUS
  <2>3. Members'[ip] = MemberOf(connectedClients'[i], peer'[connectedClients'[i].socket])
    BY <2>1, MembersAfter
  <2>4. Members[ip] = MemberOf(connectedClients[j], peer[connectedClients[j].socket])
    BY <2>1, <2>2, MembersProperties
  <2> QED
    BY <2>2, <2>3, <2>4
<1>3. /\ Members = [ip \in DOMAIN Members |-> Members[ip]]
      /\ Members' = [ip \in DOMAIN Members' |-> Members'[ip]]
  BY MembersProperties, MembersAfter
<1> QED
  BY <1>1, <1>2, <1>3

\* The same records, with the same processes, are the same members.
LEMMA MembersUnchanged ==
  ASSUME IInv, IInv', connectedClients' = connectedClients,
         \A fd \in master_list : peer'[fd] = peer[fd] \/ \A c \in Records : c.socket # fd
  PROVE  Members' = Members
<1>1. connectedClients \in Seq(ListData) /\ Match(connectedClients)
  BY RecordsMatch DEF IInv, TypeOK
<1>2. \A i \in 1..Len(connectedClients) : connectedClients[i] \in Records
  BY <1>1, LenProperties DEF Records, Range
<1>3. \A i \in 1..Len(connectedClients) :
        peer'[connectedClients[i].socket] = peer[connectedClients[i].socket]
  BY <1>1, <1>2 DEF Match
<1> QED
  BY <1>3, SameMembers

\* A process speaks for its address on a connection that has a record.
LEMMA RecordOfMember ==
  ASSUME IInv, OneConnection, NEW fd \in master_list
  PROVE  /\ S!IsMember(peer[fd]) <=> IndexAt(fd) # 0
         /\ S!Source(peer[fd]) = SourceIP(fd)
         /\ IndexAt(fd) # 0 => RecordAt(fd).ip = HostOf[peer[fd]]
<1> DEFINE p == peer[fd]
<1>1. /\ connectedClients \in Seq(ListData) /\ Match(connectedClients)
      /\ fd \in Fds /\ p \in Clients /\ p # NoClient
  BY Serving, Constants
<1>2. ASSUME IndexAt(fd) # 0
      PROVE  S!IsMember(p)
  <2>1. IndexAt(fd) \in 1..Len(connectedClients) /\ connectedClients[IndexAt(fd)].socket = fd
    BY <1>1, <1>2, IndexAtProperties, LenProperties
  <2>2. connectedClients[IndexAt(fd)].ip = HostOf[p]
    BY <1>1, <2>1 DEF Match
  <2>3. /\ HostOf[p] \in DOMAIN Members
        /\ Members[HostOf[p]] = MemberOf(connectedClients[IndexAt(fd)], p)
    BY <2>1, <2>2, MembersProperties
  <2> QED
    BY <2>3 DEF S!IsMember, MemberOf
<1>3. ASSUME S!IsMember(p)
      PROVE  IndexAt(fd) # 0
  <2>1. PICK i \in 1..Len(connectedClients) : connectedClients[i].ip = HostOf[p]
    BY <1>3, MembersProperties DEF S!IsMember
  <2>2. Members[HostOf[p]] = MemberOf(connectedClients[i], peer[connectedClients[i].socket])
    BY <2>1, MembersProperties
  <2>3. peer[connectedClients[i].socket] = p
    BY <1>3, <2>2 DEF S!IsMember, MemberOf
  <2>4. connectedClients[i].socket \in Fds
    BY <1>1, RecordType
  <2>5. connectedClients[i].socket = fd
    BY <1>1, <2>3, <2>4 DEF OneConnection
  <2> QED
    BY <1>1, <2>5, IndexAtProperties
<1>4. IndexAt(fd) # 0 => SourceIP(fd) = HostOf[p] /\ RecordAt(fd).ip = HostOf[p]
  BY <1>1, SourceIPProperties
<1>5. IndexAt(fd) = 0 => SourceIP(fd) = ""
  BY DEF SourceIP
<1> QED
  BY <1>2, <1>3, <1>4, <1>5 DEF S!Source

LEMMA NoMail ==
  ASSUME \A item \in out' : item.kind # "chat"
  PROVE  Mail' = {}
BY DEF Mail

\* What a handler reads is taken up; it remains to see that it is answered.
LEMMA Answered ==
  ASSUME IInv, ~Ends, NEW fd \in master_list, NEW k \in 1..Len(Unread(fd)),
         NEW items, NEW clients, Handle(fd, k, items, clients),
         S!Answers(peer[fd], Head(Unread(fd)))
  PROVE  S!Next
<1>1. peer[fd] \in Clients
  BY Serving
<1>2. S!Takes(peer[fd])
  BY DEF Handle, Unread, S!Takes
<1> QED
  BY <1>1, <1>2 DEF S!Next, Unread

LEMMA EndsImplements ==
  ASSUME Ends
  PROVE  S!Next
<1>1. connectedClients' = << >> /\ input' = [p \in Clients |-> << >>]
  BY DEF Ends, HangUp
<1>2. Records' = {}
  BY <1>1, EmptySeq DEF Records, Range
<1>3. Members' = << >>
  BY <1>2 DEF Members
<1>4. \A item \in out' : IndexOf(item.dest)' = 0
  <2> SUFFICES ASSUME NEW item \in out' PROVE IndexOf(item.dest)' = 0
    OBVIOUS
  <2>1. 1..Len(<< >>) = {}
    BY EmptySeq
  <2> QED
    BY <1>1, <2>1 DEF IndexOf, SelectInSeq
<1>5. Mail' = {}
  BY <1>4 DEF Mail
<1> QED
  BY <1>1, <1>3, <1>5 DEF S!Next, S!Ends, S!Nothing

\* A step that puts out no message, takes up no request and leaves the standing of
\* the members.
LEMMA Unnoticed ==
  ASSUME Members' = Members, input' = input, \A item \in out' : item.kind # "chat"
  PROVE  S!Next
BY NoMail DEF S!Next

\* A handler that changes one record changes one member.
LEMMA ChangeMember ==
  ASSUME IInv, IInv', NEW fd \in master_list, NEW changed,
         IndexAt(fd) # 0,
         changed \in ListData,
         changed.ip = RecordAt(fd).ip,
         changed.socket = RecordAt(fd).socket,
         connectedClients' = ChangedAt(fd, changed), UNCHANGED peer
  PROVE  /\ RecordAt(fd).ip \in DOMAIN Members
         /\ Members[RecordAt(fd).ip] = MemberOf(RecordAt(fd), peer[fd])
         /\ Members' = [Members EXCEPT ![RecordAt(fd).ip] = MemberOf(changed, peer[fd])]
<1> DEFINE at == IndexAt(fd)
           ip == RecordAt(fd).ip
<1>1. /\ connectedClients \in Seq(ListData) /\ Match(connectedClients)
      /\ at \in 1..Len(connectedClients) /\ RecordAt(fd) = connectedClients[at]
      /\ connectedClients[at].socket = fd
  BY Serving, IndexAtProperties DEF RecordAt
<1>2. /\ Len(connectedClients') = Len(connectedClients)
      /\ \A i \in 1..Len(connectedClients) :
           /\ connectedClients'[i] = IF at = i THEN changed ELSE connectedClients[i]
           /\ connectedClients'[i].ip = connectedClients[i].ip
           /\ connectedClients'[i].socket = connectedClients[i].socket
  BY <1>1, ChangedAtProperties DEF SameClients
<1>3. ip \in DOMAIN Members /\ Members[ip] = MemberOf(RecordAt(fd), peer[fd])
  BY <1>1, MembersProperties
<1> HIDE DEF at, ip
<1>4. DOMAIN Members' = DOMAIN Members
  <2> DEFINE old == {connectedClients[j].ip : j \in 1..Len(connectedClients)}
             new == {connectedClients'[i].ip : i \in 1..Len(connectedClients')}
  <2>1. DOMAIN Members = old /\ DOMAIN Members' = new
    BY MembersProperties, MembersAfter
  <2>2. new = old
    BY <1>2
  <2> HIDE DEF old, new
  <2> QED
    BY <2>1, <2>2
<1>5. ASSUME NEW host \in DOMAIN Members
      PROVE  Members'[host] = IF host = ip THEN MemberOf(changed, peer[fd]) ELSE Members[host]
  <2>1. PICK i \in 1..Len(connectedClients) : host = connectedClients[i].ip
    BY MembersProperties
  <2>2. Members'[host] = MemberOf(connectedClients'[i], peer[connectedClients[i].socket])
    BY <1>2, <2>1, MembersAfter
  <2>3. Members[host] = MemberOf(connectedClients[i], peer[connectedClients[i].socket])
    BY <2>1, MembersProperties
  <2>4. host = ip <=> at = i
    BY <1>1, <2>1 DEF ip, Match
  <2> QED
    BY <1>1, <1>2, <2>2, <2>3, <2>4
<1>6. /\ Members = [host \in DOMAIN Members |-> Members[host]]
      /\ Members' = [host \in DOMAIN Members' |-> Members'[host]]
  BY MembersProperties, MembersAfter
<1>7. Members' = [Members EXCEPT ![ip] = MemberOf(changed, peer[fd])]
  BY <1>4, <1>5, <1>6
<1> QED
  BY <1>3, <1>7 DEF ip

\* BLOCK, UNBLOCK, LOGOUT and LOGIN change what their client has said, and change
\* nothing if the server has no record of it.
LEMMA DeclaresImplements ==
  ASSUME IInv, IInv', OneConnection, ~Ends, NEW fd \in master_list,
         Block(fd) \/ Unblock(fd) \/ Logout(fd) \/ Login(fd)
  PROVE  S!Next
<1> DEFINE old == RecordAt(fd)
           p == peer[fd]
           ip == HostOf[p]
           request == Head(Unread(fd))
           Declared(k, changed) ==
             /\ k \in 1..Len(Unread(fd))
             /\ IndexAt(fd) # 0 => /\ changed \in ListData
                                   /\ changed.ip = old.ip /\ changed.socket = old.socket
             /\ \E items : /\ Handle(fd, k, items, ChangedAt(fd, changed))
                           /\ \A item \in items : item.kind # "chat"
<1>1. ASSUME NEW k, NEW changed, Declared(k, changed)
      PROVE  /\ connectedClients' = ChangedAt(fd, changed) /\ UNCHANGED peer
             /\ Mail' = {}
             /\ S!Answers(p, request) => S!Next
  <2>1. PICK items : /\ Handle(fd, k, items, ChangedAt(fd, changed))
                     /\ \A item \in items : item.kind # "chat"
    BY <1>1
  <2>2. S!Answers(p, request) => S!Next
    BY <1>1, <2>1, Answered
  <2> QED
    BY <2>1, <2>2, NoMail DEF Handle
<1>2. ASSUME IndexAt(fd) = 0, NEW k, NEW changed, Declared(k, changed),
             request.op \in {"BLOCK", "UNBLOCK", "LOGOUT", "LOGIN"}
      PROVE  S!Next
  <2>1. Members' = Members /\ Mail' = {}
    BY <1>1, <1>2, MembersUnchanged DEF ChangedAt
  <2>2. ~S!IsMember(p)
    BY <1>2, RecordOfMember
  <2>3. S!Ignored(p, request)
    BY <1>2, <2>1, <2>2 DEF S!Ignored
  <2>4. S!Answers(p, request)
    BY <2>1, <2>3 DEF S!Answers
  <2> QED
    BY <1>1, <1>2, <2>4
<1>3. IndexAt(fd) # 0 =>
        /\ old \in ListData /\ old.isLoggedIn \in BOOLEAN /\ old.BlockList \in Seq(Addresses)
        /\ old.ip = ip /\ S!IsMember(p)
  BY Serving, RecordOfMember DEF ListData
<1>4. ASSUME IndexAt(fd) # 0, NEW k, NEW changed, Declared(k, changed)
      PROVE  /\ ip \in DOMAIN Members /\ Members[ip] = MemberOf(old, p)
             /\ Members' = [Members EXCEPT ![ip] = MemberOf(changed, p)]
             /\ S!Declares(ip, request) => S!Next
  <2>1. /\ ip \in DOMAIN Members /\ Members[ip] = MemberOf(old, p)
        /\ Members' = [Members EXCEPT ![ip] = MemberOf(changed, p)]
    <3>1. connectedClients' = ChangedAt(fd, changed) /\ UNCHANGED peer
      BY <1>1, <1>4
    <3>2. /\ changed \in ListData
          /\ changed.ip = RecordAt(fd).ip /\ changed.socket = RecordAt(fd).socket
      BY <1>4
    <3>3. /\ RecordAt(fd).ip \in DOMAIN Members
          /\ Members[RecordAt(fd).ip] = MemberOf(RecordAt(fd), peer[fd])
          /\ Members' = [Members EXCEPT ![RecordAt(fd).ip] = MemberOf(changed, peer[fd])]
      BY <1>4, <3>1, <3>2, ChangeMember
    <3> QED
      BY <1>3, <1>4, <3>3
  <2>2. S!Declares(ip, request) => S!Answers(p, request)
    BY <1>1, <1>3, <1>4 DEF S!Answers
  <2> QED
    BY <1>1, <1>4, <2>1, <2>2
<1>5. CASE Block(fd)
  <2> DEFINE changed == [old EXCEPT !.BlockList = Append(@, Target(fd))]
  <2>1. PICK k \in 1..Len(Unread(fd)) :
          Reads(fd, k, "BLOCK") /\ Handle(fd, k, {}, ChangedAt(fd, changed))
    BY <1>5 DEF Block
  <2>2. Target(fd) \in Addresses /\ request.op = "BLOCK" /\ request.ip = Target(fd)
    BY <2>1, TargetType DEF Targeted, Reads, Target
  <2>3. IndexAt(fd) # 0 =>
          /\ changed \in ListData /\ changed.ip = old.ip /\ changed.socket = old.socket
          /\ changed.isLoggedIn = old.isLoggedIn
          /\ changed.BlockList = Append(old.BlockList, Target(fd))
    BY <1>3, <2>2, AppendProperties DEF ListData
  <2> HIDE DEF changed
  <2>4. Declared(k, changed)
    BY <2>1, <2>3
  <2>5. CASE IndexAt(fd) # 0
    <3> DEFINE s == old.BlockList
               new == Append(s, Target(fd))
    <3>1. s \in Seq(Addresses) /\ Len(s) \in Nat /\ DOMAIN s = 1..Len(s)
      BY <1>3, <2>5, LenProperties
    <3> HIDE DEF s
    <3>2. /\ DOMAIN new = 1..Len(s) + 1
          /\ \A i \in 1..Len(s) : new[i] = s[i]
          /\ new[Len(s) + 1] = Target(fd)
      BY <2>2, <3>1
    <3>3. Range(new) = Range(s) \union {Target(fd)}
      BY <3>1, <3>2 DEF Range
    <3> HIDE DEF new
    <3>4. MemberOf(changed, p) = [MemberOf(old, p) EXCEPT !.blocked = @ \union {Target(fd)}]
      <4>1. Range(changed.BlockList) = MemberOf(old, p).blocked \union {Target(fd)}
        BY <2>3, <2>5, <3>3 DEF MemberOf, new, s
      <4> HIDE DEF old, p
      <4> QED
        BY <2>3, <2>5, <4>1, MemberBlocks
    <3>5. Members' = [Members EXCEPT ![ip].blocked = @ \union {Target(fd)}]
      BY <1>4, <2>4, <2>5, <3>4
    <3>6. S!Declares(ip, request)
      BY <2>2, <3>5 DEF S!Declares
    <3> QED
      BY <1>4, <2>4, <2>5, <3>6
  <2> QED
    BY <1>2, <2>2, <2>4, <2>5
<1>6. CASE Unblock(fd)
  <2> DEFINE changed == [old EXCEPT !.BlockList = Unblocked(@, Target(fd))]
  <2>1. PICK k \in 1..Len(Unread(fd)) :
          Reads(fd, k, "UNBLOCK") /\ Handle(fd, k, {}, ChangedAt(fd, changed))
    BY <1>6 DEF Unblock
  <2>2. Target(fd) \in Addresses /\ request.op = "UNBLOCK" /\ request.ip = Target(fd)
    BY <2>1, TargetType DEF Targeted, Reads, Target
  <2>3. IndexAt(fd) # 0 =>
          /\ changed \in ListData /\ changed.ip = old.ip /\ changed.socket = old.socket
          /\ changed.isLoggedIn = old.isLoggedIn
          /\ Range(changed.BlockList) \in
               {Range(old.BlockList), Range(old.BlockList) \ {Target(fd)}}
    BY <1>3, <2>2, UnblockedProperties DEF ListData
  <2> HIDE DEF changed
  <2>4. Declared(k, changed)
    BY <2>1, <2>3
  <2>5. CASE IndexAt(fd) # 0 /\ Range(changed.BlockList) = Range(old.BlockList)
    <3>1. MemberOf(changed, p) = MemberOf(old, p)
      BY <2>3, <2>5 DEF MemberOf
    <3>2. Members' = [Members EXCEPT ![ip] = Members[ip]]
      BY <1>4, <2>4, <2>5, <3>1
    <3>3. Members' = Members
      BY <3>2, MembersProperties
    <3>4. S!Declares(ip, request)
      BY <2>2, <3>3 DEF S!Declares
    <3> QED
      BY <1>4, <2>4, <2>5, <3>4
  <2>6. CASE IndexAt(fd) # 0 /\ Range(changed.BlockList) = Range(old.BlockList) \ {Target(fd)}
    <3>1. MemberOf(changed, p) = [MemberOf(old, p) EXCEPT !.blocked = @ \ {Target(fd)}]
      <4>1. Range(changed.BlockList) = MemberOf(old, p).blocked \ {Target(fd)}
        BY <2>6 DEF MemberOf
      <4> HIDE DEF old, p
      <4> QED
        BY <2>3, <2>6, <4>1, MemberBlocks
    <3>2. Members' = [Members EXCEPT ![ip].blocked = @ \ {Target(fd)}]
      BY <1>4, <2>4, <2>6, <3>1
    <3>3. S!Declares(ip, request)
      BY <2>2, <3>2 DEF S!Declares
    <3> QED
      BY <1>4, <2>4, <2>6, <3>3
  <2> QED
    BY <1>2, <2>2, <2>3, <2>4, <2>5, <2>6
<1>7. ASSUME NEW present \in BOOLEAN, NEW k, NEW changed, Declared(k, changed),
             changed = [old EXCEPT !.isLoggedIn = present],
             request.op = IF present THEN "LOGIN" ELSE "LOGOUT"
      PROVE  S!Next
  <2>1. CASE IndexAt(fd) # 0
    <3>1. MemberOf(changed, p) = [MemberOf(old, p) EXCEPT !.isLoggedIn = present]
      <4>1. changed.isLoggedIn = present /\ changed.BlockList = old.BlockList
        BY <1>3, <1>7, <2>1 DEF ListData
      <4> HIDE DEF old, p
      <4> QED
        BY <4>1, MemberPresent
    <3>2. Members' = [Members EXCEPT ![ip].isLoggedIn = present]
      <4>1. /\ Members[ip] = MemberOf(old, p)
            /\ Members' = [Members EXCEPT ![ip] = MemberOf(changed, p)]
        BY <1>4, <1>7, <2>1
      <4> HIDE DEF old, p, ip
      <4> QED
        BY <3>1, <4>1
    <3>3. S!Declares(ip, request)
      BY <1>7, <3>2 DEF S!Declares
    <3> QED
      BY <1>4, <1>7, <2>1, <3>3
  <2>2. request.op \in {"LOGIN", "LOGOUT"}
    BY <1>7
  <2> QED
    BY <1>2, <1>7, <2>1, <2>2
<1>8. CASE Logout(fd)
  <2> DEFINE changed == [old EXCEPT !.isLoggedIn = FALSE]
  <2>1. Reads(fd, 1, "LOGOUT") /\ Handle(fd, 1, {}, ChangedAt(fd, changed))
    BY <1>8 DEF Logout
  <2>2. IndexAt(fd) # 0 =>
          changed \in ListData /\ changed.ip = old.ip /\ changed.socket = old.socket
    BY <1>3 DEF ListData
  <2> HIDE DEF changed
  <2>3. Declared(1, changed) /\ request.op = "LOGOUT"
    BY <2>1, <2>2 DEF Reads
  <2> QED
    BY <1>7, <2>3 DEF changed
<1>9. CASE Login(fd)
  <2> DEFINE changed == [old EXCEPT !.isLoggedIn = TRUE]
             list(to) == ListOf(to, clientList(connectedClients))
  <2>1. PICK k \in 1..Len(Unread(fd)),
             items \in IF IndexAt(fd) # 0 THEN {{list(fd)}}
                       ELSE Anywhere({list(to) : to \in master_list}) :
          Reads(fd, k, "LOGIN") /\ Handle(fd, k, items, ChangedAt(fd, changed))
    BY <1>9 DEF Login, LoggedIn
  <2>2. IndexAt(fd) # 0 =>
          changed \in ListData /\ changed.ip = old.ip /\ changed.socket = old.socket
    BY <1>3 DEF ListData
  <2>3. \A item \in items : item.kind # "chat"
    BY <2>1 DEF Anywhere, ListOf
  <2> HIDE DEF changed
  <2>4. Declared(k, changed) /\ request.op = "LOGIN"
    BY <2>1, <2>2, <2>3 DEF Reads
  <2> QED
    BY <1>7, <2>4 DEF changed
<1> QED
  BY <1>5, <1>6, <1>8, <1>9

\* An address the server finds is the one of a record.
LEMMA Found ==
  TypeOK => \A ip : IndexOf(ip) # 0 <=>
              \E i \in 1..Len(connectedClients) : connectedClients[i].ip = ip
<1>1. SUFFICES ASSUME TypeOK, NEW ip
               PROVE  IndexOf(ip) # 0 <=>
                        \E i \in 1..Len(connectedClients) : connectedClients[i].ip = ip
  OBVIOUS
<1> QED
  BY <1>1, IndexOfProperties, LenProperties DEF TypeOK

\* A message may go to the members that SEND relays to.
LEMMA OpenMembers ==
  ASSUME IInv, NEW src
  PROVE  /\ \A i \in 1..Len(connectedClients) :
              connectedClients[i].ip \in S!Open(src) <=> Relayed(src, i)
         /\ \A ip \in S!Open(src) : \E i \in 1..Len(connectedClients) :
              connectedClients[i].ip = ip
<1>1. /\ DOMAIN Members = {connectedClients[i].ip : i \in 1..Len(connectedClients)}
      /\ \A i \in 1..Len(connectedClients) :
           Members[connectedClients[i].ip] =
             MemberOf(connectedClients[i], peer[connectedClients[i].socket])
  BY MembersProperties
<1>2. ASSUME NEW i \in 1..Len(connectedClients)
      PROVE  connectedClients[i].ip \in S!Open(src) <=> Relayed(src, i)
  <2> DEFINE ip == connectedClients[i].ip
  <2>1. /\ ip \in DOMAIN Members
        /\ Members[ip] = MemberOf(connectedClients[i], peer[connectedClients[i].socket])
    BY <1>1
  <2>2. /\ Members[ip].isLoggedIn = connectedClients[i].isLoggedIn
        /\ Members[ip].blocked = Range(connectedClients[i].BlockList)
    BY <2>1 DEF MemberOf
  <2> HIDE DEF ip
  <2>3. ip \in S!Open(src) <=> Relayed(src, i)
    BY <2>1, <2>2 DEF S!Open, Relayed, isBlock
  <2> QED
    BY <2>3 DEF ip
<1> QED
  BY <1>1, <1>2 DEF S!Open

\* The messages SEND and BROADCAST put out are letters to the members reached.
LEMMA LettersOut ==
  ASSUME IInv, IInv', UNCHANGED peer, NEW src,
         NEW reached \in SUBSET (1..Len(connectedClients)),
         Len(connectedClients') = Len(connectedClients),
         \A i \in 1..Len(connectedClients) :
           SameStanding(connectedClients'[i], connectedClients[i]),
         AddressedChats = MessagesTo(src, reached)
  PROVE  /\ Members' = Members
         /\ Mail' = S!Letters(src, {connectedClients[i].ip : i \in reached})
<1>1. Members' = Members
  <2>1. \A i \in 1..Len(connectedClients) :
          /\ connectedClients'[i].ip = connectedClients[i].ip
          /\ MemberOf(connectedClients'[i], peer'[connectedClients'[i].socket])
               = MemberOf(connectedClients[i], peer[connectedClients[i].socket])
    BY DEF SameStanding, MemberOf
  <2> QED
    BY <2>1, SameMembers
<1>2. \A ip : IndexOf(ip)' # 0 <=> IndexOf(ip) # 0
  <2>1. (TypeOK => \A ip : IndexOf(ip) # 0 <=>
           \E i \in 1..Len(connectedClients) : connectedClients[i].ip = ip)'
    BY Found, PTL
  <2>2. \A ip : IndexOf(ip)' # 0 <=>
          \E i \in 1..Len(connectedClients) : connectedClients'[i].ip = ip
    BY <2>1 DEF IInv
  <2>3. \A ip : IndexOf(ip) # 0 <=>
          \E i \in 1..Len(connectedClients) : connectedClients[i].ip = ip
    BY Found DEF IInv
  <2> QED
    BY <2>2, <2>3 DEF SameStanding
<1>3. Mail' = {[src |-> item.src, dest |-> item.dest] : item \in AddressedChats}
  BY <1>2 DEF Mail, AddressedChats
<1>4. AddressedChats =
        {Chat(connectedClients[i].socket, src, connectedClients[i].ip) : i \in reached}
  BY MessagesToProperties
<1>5. Mail' = {[src |-> src, dest |-> connectedClients[i].ip] : i \in reached}
  <2>1. ASSUME NEW i \in reached
        PROVE  \E item \in AddressedChats :
                 item.src = src /\ item.dest = connectedClients[i].ip
    <3> DEFINE item == Chat(connectedClients[i].socket, src, connectedClients[i].ip)
    <3>1. item \in AddressedChats
      BY <1>4
    <3>2. item.src = src /\ item.dest = connectedClients[i].ip
      BY DEF Chat
    <3> QED
      BY <3>1, <3>2
  <2>2. ASSUME NEW item \in AddressedChats
        PROVE  \E i \in reached : item.src = src /\ item.dest = connectedClients[i].ip
    BY <1>4 DEF Chat
  <2> DEFINE letter(from, to) == [src |-> from, dest |-> to]
  <2>3. Mail' = {letter(item.src, item.dest) : item \in AddressedChats}
    BY <1>3
  <2> HIDE DEF letter
  <2>4. Mail' = {letter(src, connectedClients[i].ip) : i \in reached}
    BY <2>1, <2>2, <2>3
  <2> QED
    BY <2>4 DEF letter
<1> QED
  BY <1>1, <1>5 DEF S!Letters

LEMMA SendImplements ==
  ASSUME IInv, IInv', OneConnection, ~Ends, NEW fd \in master_list, Send(fd)
  PROVE  S!Next
<1>1. PICK k, items, clients, reached :
        /\ reached \in SUBSET (1..Len(connectedClients))
        /\ Sending(fd, k, items, clients, reached)
  BY SendProperties
<1> DEFINE src == SourceIP(fd)
           dest == Target(fd)
<1>2. /\ connectedClients' = clients /\ out' = items /\ UNCHANGED peer
      /\ k \in 1..Len(Unread(fd)) /\ Head(Unread(fd)).op = "SEND"
      /\ reached = {i \in {IndexOf(dest)} \ {0} : Relayed(src, i)}
  BY <1>1 DEF Sending, Handle, Reads
<1>3. AddressedChats = MessagesTo(src, reached)
  <2>1. CASE items = MessagesTo(src, reached)
    <3>1. \A i \in reached : IndexOf(connectedClients[i].ip) # 0
      BY <1>1, Found DEF IInv
    <3>2. \A item \in out' : item.kind = "chat" /\ IndexOf(item.dest) # 0
      BY <1>1, <1>2, <2>1, <3>1, MessagesToProperties DEF Chat
    <3> QED
      BY <1>2, <2>1, <3>2 DEF AddressedChats
  <2>2. CASE /\ IndexOf(dest) = 0 /\ reached = {}
             /\ items \in Anywhere({Chat(to, src, dest) : to \in master_list})
    <3>1. \A item \in out' : item.dest = dest
      BY <1>2, <2>2 DEF Anywhere, Chat
    <3> QED
      BY <2>2, <3>1 DEF AddressedChats, MessagesTo
  <2> QED
    BY <1>1, <2>1, <2>2 DEF Sending
<1>4. {connectedClients[i].ip : i \in reached} = S!Open(src) \intersect {dest}
  <2>1. \A ip : IndexOf(ip) # 0 => connectedClients[IndexOf(ip)].ip = ip
    BY IndexOfProperties DEF IInv, TypeOK
  <2>2. ASSUME NEW i \in reached
        PROVE  connectedClients[i].ip \in S!Open(src) \intersect {dest}
    BY <1>1, <1>2, <2>1, OpenMembers
  <2>3. ASSUME dest \in S!Open(src)
        PROVE  IndexOf(dest) \in reached /\ connectedClients[IndexOf(dest)].ip = dest
    <3>1. PICK i \in 1..Len(connectedClients) : connectedClients[i].ip = dest
      BY <2>3, OpenMembers
    <3>2. IndexOf(dest) = i /\ i # 0
      BY <3>1, Serving, IndexUnique
    <3> QED
      BY <1>2, <2>3, <3>1, <3>2, OpenMembers
  <2> HIDE DEF src, dest
  <2> QED
    BY <2>2, <2>3
<1>5. /\ Members' = Members
      /\ Mail' = S!Letters(src, {connectedClients[i].ip : i \in reached})
  BY <1>1, <1>2, <1>3, LettersOut DEF Sending
<1>6. S!Writes(S!Source(peer[fd]), Head(Unread(fd)))
  BY <1>2, <1>4, <1>5, RecordOfMember DEF S!Writes, Target
<1> QED
  BY <1>1, <1>2, <1>6, Answered DEF S!Answers, Sending

LEMMA BroadcastImplements ==
  ASSUME IInv, IInv', OneConnection, ~Ends, NEW fd \in master_list, Broadcast(fd)
  PROVE  S!Next
<1>1. PICK k, clients, reached :
        /\ reached \in SUBSET (1..Len(connectedClients))
        /\ Broadcasting(fd, k, clients, reached)
  BY BroadcastProperties
<1> DEFINE src == SourceIP(fd)
           ips == {connectedClients[i].ip : i \in reached}
<1>2. /\ connectedClients' = clients /\ out' = MessagesTo(src, reached) /\ UNCHANGED peer
      /\ k \in 1..Len(Unread(fd)) /\ Head(Unread(fd)).op = "BROADCAST"
      /\ \A i \in reached : Relayed(src, i) /\ connectedClients[i].ip # src
  BY <1>1 DEF Broadcasting, Handle, Reads
<1>3. AddressedChats = MessagesTo(src, reached)
  <2>1. \A i \in reached : IndexOf(connectedClients[i].ip) # 0
    BY <1>1, Found DEF IInv
  <2>2. \A item \in out' : item.kind = "chat" /\ IndexOf(item.dest) # 0
    BY <1>1, <1>2, <2>1, MessagesToProperties DEF Chat
  <2> QED
    BY <1>2, <2>2 DEF AddressedChats
<1>4. ips \subseteq S!Open(src) \ {src}
  BY <1>1, <1>2, OpenMembers
<1>5. Members' = Members /\ Mail' = S!Letters(src, ips)
  BY <1>1, <1>2, <1>3, LettersOut DEF Broadcasting
<1>6. Mail' \subseteq S!Letters(src, S!Open(src) \ {src})
  BY <1>4, <1>5 DEF S!Letters
<1>7. S!Writes(S!Source(peer[fd]), Head(Unread(fd)))
  BY <1>2, <1>5, <1>6, RecordOfMember DEF S!Writes
<1> QED
  BY <1>1, <1>2, <1>7, Answered DEF S!Answers, Broadcasting

LEMMA SortImplements ==
  ASSUME IInv, IInv', Sort
  PROVE  S!Next
<1> DEFINE n == Cardinality(Records)
<1>1. /\ connectedClients' \in [1..n -> Records]
      /\ \A i, j \in 1..n : i # j => connectedClients'[i] # connectedClients'[j]
      /\ out' = {} /\ UNCHANGED <<input, peer>>
  BY DEF Sort, SetToSeqs, Records, connVars
<1>2. /\ connectedClients \in Seq(ListData) /\ connectedClients' \in Seq(ListData)
      /\ IsFiniteSet(Records) /\ n \in Nat
  BY RangeFinite DEF IInv, TypeOK, Records
<1>3. IsFiniteSet(1..n) /\ Cardinality(1..n) = n
  BY <1>2, FS_Interval
<1>4. connectedClients' \in Injection(1..n, Records)
  BY <1>1 DEF Injection, IsInjective
<1>5. connectedClients' \in Surjection(1..n, Records)
  BY <1>2, <1>3, <1>4, FS_Injection
<1> HIDE DEF n
<1>6. DOMAIN connectedClients' = 1..n /\ Len(connectedClients') = n
  BY <1>1, <1>2, LenProperties
<1>7. Records = {connectedClients[j] : j \in 1..Len(connectedClients)}
  BY <1>2, LenProperties DEF Records, Range
<1>8. \A i \in 1..n : \E j \in 1..Len(connectedClients) :
        connectedClients'[i] = connectedClients[j]
  BY <1>1, <1>7
<1>9. \A j \in 1..Len(connectedClients) : \E i \in 1..n :
        connectedClients'[i] = connectedClients[j]
  BY <1>5, <1>7 DEF Surjection
<1>10. Members' = Members
  BY <1>1, <1>6, <1>8, <1>9, SameMembers
<1> QED
  BY <1>1, <1>10, Unnoticed

\* A first port makes its client a member; another says it is there again.
LEMMA ReceivePortImplements ==
  ASSUME RefinementInv, IInv', ~Ends, ReceivePort
  PROVE  S!Next
<1> USE DEF RefinementInv
<1> DEFINE p == peer[accepting]
           ip == HostOf[p]
           fresh == [ip |-> ip, socket |-> accepting, port |-> Port[p],
                     BlockList |-> << >>, isLoggedIn |-> TRUE,
                     num_msg_sent |-> 0, num_msg_rcv |-> 0, buffer |-> << >>]
           added == Append(connectedClients, fresh)
           marked == [connectedClients EXCEPT ![IndexOf(ip)].isLoggedIn = TRUE]
<1>1. accepting \in master_list /\ accepting # 0 /\ \A item \in out' : item.kind # "chat"
  BY ReceivePortOut DEF ReceivePort, IInv, TypeOK
<1>2. connectedClients \in Seq(ListData) /\ Len(connectedClients) \in Nat
      /\ Match(connectedClients) /\ ip \in Hosts /\ p \in Clients
      /\ input[p] \in Seq(Command) /\ input \in [Clients -> Seq(Command)]
  BY <1>1, Serving, Constants DEF Unread, IInv, TypeOK, ConnectionsOK
<1>3. \/ input[p] = << >> /\ Handle(accepting, 0, {}, connectedClients)
      \/ /\ input[p] # << >> /\ connectedClients' = added /\ ~isExist(ip)
         /\ \E items : Handle(accepting, 1, items, added)
      \/ /\ input[p] # << >> /\ connectedClients' = marked /\ isExist(ip)
         /\ \E items : Handle(accepting, 1, items, marked)
  BY DEF ReceivePort, Handle
<1>4. /\ Members = [host \in DOMAIN Members |-> Members[host]]
      /\ Members' = [host \in DOMAIN Members' |-> Members'[host]]
      /\ Mail' = {} /\ UNCHANGED peer
  BY <1>1, <1>3, MembersProperties, MembersAfter, NoMail DEF Handle
<1>5. CASE input[p] = << >> /\ Handle(accepting, 0, {}, connectedClients)
  <2>1. connectedClients' = connectedClients
    BY <1>5 DEF Handle
  <2>2. input' = [input EXCEPT ![p] = SubSeq(<< >>, 0 + 1, Len(<< >>))]
    BY <1>5 DEF Handle
  <2>3. input' = [input EXCEPT ![p] = input[p]]
    BY <1>5, <2>2, NothingLeft
  <2>4. Members' = Members
    BY <1>4, <2>1, MembersUnchanged
  <2> QED
    BY <1>1, <1>2, <2>3, <2>4, Unnoticed
<1>6. ASSUME NEW items, NEW clients, Handle(accepting, 1, items, clients),
             input[p] # << >>, S!Arrives(p)
      PROVE  S!Next
  <2>1. 1 \in 1..Len(Unread(accepting)) /\ Head(Unread(accepting)) = input[p][1]
    BY <1>2, <1>6, EmptySeq, LenProperties, HeadTailProperties DEF Unread
  <2>2. input[p][1].op = "port"
    BY <1>1, <1>2, <1>6 DEF PortFirst, Awaited
  <2>3. S!Answers(p, Head(Unread(accepting)))
    BY <1>4, <1>6, <2>1, <2>2 DEF S!Answers
  <2> QED
    BY <1>1, <1>6, <2>1, <2>3, Answered
<1>7. CASE connectedClients' = added /\ ~isExist(ip)
  <2> DEFINE new == [process |-> p, isLoggedIn |-> TRUE, blocked |-> {}]
  <2>1. fresh.ip = ip /\ fresh.socket = accepting /\ MemberOf(fresh, p) = new
    <3>1. Range(<< >>) = {}
      BY EmptySeq DEF Range
    <3> QED
      BY <3>1 DEF MemberOf
  <2>2. \A i \in 1..Len(connectedClients) : connectedClients[i].ip # ip
    BY <1>2, <1>7, IndexOfProperties DEF isExist
  <2> HIDE DEF fresh
  <2>3. /\ Len(connectedClients') = Len(connectedClients) + 1
        /\ \A i \in 1..Len(connectedClients) : connectedClients'[i] = connectedClients[i]
        /\ connectedClients'[Len(connectedClients) + 1] = fresh
    BY <1>2, <1>7
  <2>4. Len(connectedClients) + 1 \in 1..Len(connectedClients')
        /\ \A i \in 1..Len(connectedClients) : i \in 1..Len(connectedClients')
    BY <1>2, <2>3
  <2>5. \A i \in 1..Len(connectedClients') :
          i \in 1..Len(connectedClients) \/ i = Len(connectedClients) + 1
    BY <1>2, <2>3
  <2>6. Members'[ip] = new
    BY <1>4, <2>1, <2>3, <2>4, MembersAfter
  <2> HIDE DEF ip, new
  <2>7. \A host \in DOMAIN Members : host # ip /\ Members'[host] = Members[host]
    <3> SUFFICES ASSUME NEW host \in DOMAIN Members
                 PROVE  host # ip /\ Members'[host] = Members[host]
      OBVIOUS
    <3>1. PICK i \in 1..Len(connectedClients) : host = connectedClients[i].ip
      BY MembersProperties
    <3>2. Members[host] = MemberOf(connectedClients[i], peer[connectedClients[i].socket])
      BY <3>1, MembersProperties
    <3>3. Members'[connectedClients'[i].ip] =
            MemberOf(connectedClients'[i], peer'[connectedClients'[i].socket])
      BY <2>4, MembersAfter
    <3> QED
      BY <1>4, <2>2, <2>3, <3>1, <3>2, <3>3
  <2>8. DOMAIN Members' = DOMAIN Members \union {ip}
    <3> DEFINE olds == {connectedClients[j].ip : j \in 1..Len(connectedClients)}
               news == {connectedClients'[i].ip : i \in 1..Len(connectedClients')}
    <3>1. DOMAIN Members = olds /\ DOMAIN Members' = news
      BY MembersProperties, MembersAfter
    <3>2. \A host \in news : host \in olds \union {ip}
      BY <2>1, <2>3, <2>5
    <3>3. \A host \in olds : host \in news
      BY <2>3, <2>4
    <3>4. ip \in news
      BY <2>1, <2>3, <2>4
    <3> HIDE DEF olds, news
    <3> QED
      BY <3>1, <3>2, <3>3, <3>4
  <2>9. S!Arrives(p)
    <3>1. ip \notin DOMAIN Members
      BY <2>7
    <3>2. Members' = [host \in DOMAIN Members \union {ip} |->
                        IF host = ip THEN new ELSE Members[host]]
      BY <1>4, <2>6, <2>7, <2>8
    <3> QED
      BY <3>1, <3>2 DEF S!Arrives, ip, new
  <2> QED
    BY <1>3, <1>5, <1>6, <1>7, <2>9
<1>8. CASE connectedClients' = marked /\ isExist(ip)
  <2> DEFINE at == IndexOf(ip)
             member(c) == MemberOf(c, peer[c.socket])
  <2>1. at \in 1..Len(connectedClients) /\ connectedClients[at].ip = ip
    BY <1>2, <1>8, IndexOfProperties DEF isExist
  <2>2. PICK old \in ListData : old = connectedClients[at]
    BY <1>2, <2>1, ElementOfSeq
  <2> DEFINE new == [old EXCEPT !.isLoggedIn = TRUE]
  <2>3. /\ new.ip = old.ip /\ new.socket = old.socket
        /\ new.isLoggedIn = TRUE /\ new.BlockList = old.BlockList
    BY DEF ListData
  <2>4. connectedClients' = [connectedClients EXCEPT ![at] = new]
    BY <1>8, <2>2
  <2> HIDE DEF new, at, ip
  <2>5. /\ Len(connectedClients') = Len(connectedClients)
        /\ \A i \in 1..Len(connectedClients) :
             connectedClients'[i] = IF i = at THEN new ELSE connectedClients[i]
    BY <1>2, <2>1, <2>4
  <2>6. member(new) = [member(old) EXCEPT !.isLoggedIn = TRUE]
    <3> DEFINE q == peer[old.socket]
    <3>1. peer[new.socket] = q
      BY <2>3
    <3> HIDE DEF q
    <3>2. MemberOf(new, q) = [MemberOf(old, q) EXCEPT !.isLoggedIn = TRUE]
      BY <2>3, MemberPresent
    <3> QED
      BY <3>1, <3>2 DEF q
  <2>7. DOMAIN Members' = DOMAIN Members
    <3> DEFINE olds == {connectedClients[j].ip : j \in 1..Len(connectedClients)}
               news == {connectedClients'[i].ip : i \in 1..Len(connectedClients')}
    <3>1. DOMAIN Members = olds /\ DOMAIN Members' = news
      BY MembersProperties, MembersAfter
    <3>2. news = olds
      BY <2>2, <2>3, <2>5
    <3> HIDE DEF olds, news
    <3> QED
      BY <3>1, <3>2
  <2>8. ASSUME NEW host \in DOMAIN Members
        PROVE  Members'[host] =
                 IF host = ip THEN [Members[ip] EXCEPT !.isLoggedIn = TRUE] ELSE Members[host]
    <3>1. PICK i \in 1..Len(connectedClients) : host = connectedClients[i].ip
      BY MembersProperties
    <3>2. Members[host] = member(connectedClients[i])
      BY <3>1, MembersProperties
    <3>3. connectedClients'[i].ip = host
      BY <2>2, <2>3, <2>5, <3>1
    <3>4. Members'[host] = member(connectedClients'[i])
      BY <1>4, <2>5, <3>3, MembersAfter
    <3>5. host = ip <=> i = at
      BY <1>2, <2>1, <3>1 DEF Match
    <3> HIDE DEF member
    <3> QED
      BY <2>2, <2>5, <2>6, <3>2, <3>4, <3>5
  <2>9. Members' = [Members EXCEPT ![ip].isLoggedIn = TRUE]
    BY <1>4, <2>7, <2>8
  <2>10. ip \in DOMAIN Members
    BY <2>1, MembersProperties
  <2>11. S!Arrives(p)
    BY <2>9, <2>10 DEF S!Arrives, ip
  <2> QED
    BY <1>3, <1>5, <1>6, <1>8, <2>11 DEF ip
<1> QED
  BY <1>3, <1>5, <1>7, <1>8

\* A member whose process has ended is forgotten.
LEMMA DisconnectImplements ==
  ASSUME RefinementInv, IInv', NEW fd \in master_list, Disconnect(fd)
  PROVE  S!Next
<1> USE DEF RefinementInv
<1>1. /\ connectedClients' = Erase(fd) /\ peer' = [peer EXCEPT ![fd] = NoClient]
      /\ out' = {} /\ input' = input /\ Unread(fd) = << >>
  BY DEF Disconnect, connVars, Unwatched
<1>2. /\ connectedClients \in Seq(ListData) /\ Len(connectedClients) \in Nat
      /\ Match(connectedClients) /\ peer[fd] \in Clients
      /\ peer \in [Fds -> Clients \union {NoClient}]
  BY Serving DEF IInv, TypeOK
<1>3. \A n \in master_list : n # fd => peer'[n] = peer[n]
  BY <1>1, <1>2 DEF master_list
<1>4. CASE IndexAt(fd) = 0
  <2>1. connectedClients' = connectedClients
    BY <1>1, <1>4 DEF Erase
  <2>2. \A c \in Records : c.socket # fd
    BY <1>2, <1>4, IndexAtProperties, LenProperties DEF Records, Range
  <2>3. Members' = Members
    BY <1>3, <2>1, <2>2, MembersUnchanged
  <2> QED
    BY <1>1, <2>3, Unnoticed
<1>5. CASE IndexAt(fd) # 0
  <2> DEFINE at == IndexAt(fd)
             ip == connectedClients[at].ip
  <2>1. at \in 1..Len(connectedClients) /\ connectedClients[at].socket = fd
    BY <1>2, <1>5, IndexAtProperties
  <2>2. connectedClients' = RemoveAt(connectedClients, at)
    BY <1>1, <1>5 DEF Erase
  <2>3. ip = HostOf[peer[fd]] /\ S!IsMember(peer[fd])
    BY <1>5, RecordOfMember DEF RecordAt
  <2> HIDE DEF at
  <2>4. /\ Len(connectedClients') = Len(connectedClients) - 1
        /\ \A j \in 1..Len(connectedClients) - 1 :
             connectedClients'[j] =
               IF j < at THEN connectedClients[j] ELSE connectedClients[j + 1]
    BY <1>2, <2>1, <2>2, RemoveAtProperties
  <2> DEFINE was(j) == IF j < at THEN j ELSE j + 1
             now(i) == IF i < at THEN i ELSE i - 1
  <2>5. \A j \in 1..Len(connectedClients') :
          /\ was(j) \in 1..Len(connectedClients) /\ was(j) # at
          /\ connectedClients'[j] = connectedClients[was(j)]
    BY <1>2, <2>1, <2>4
  <2>6. \A i \in 1..Len(connectedClients) : i # at =>
          /\ now(i) \in 1..Len(connectedClients')
          /\ connectedClients'[now(i)] = connectedClients[i]
    BY <1>2, <2>1, <2>4
  <2> HIDE DEF was, now
  <2>7. \A i \in 1..Len(connectedClients) : i # at =>
          connectedClients[i].ip # ip /\ connectedClients[i].socket # fd
    BY <1>2, <2>1 DEF Match
  <2>8. DOMAIN Members' = DOMAIN Members \ {ip}
    <3> DEFINE old == {connectedClients[j].ip : j \in 1..Len(connectedClients)}
               new == {connectedClients'[i].ip : i \in 1..Len(connectedClients')}
    <3>1. DOMAIN Members = old /\ DOMAIN Members' = new
      BY MembersProperties, MembersAfter
    <3>2. \A host \in new : host \in old \ {ip}
      BY <2>5, <2>7
    <3>3. \A host \in old \ {ip} : host \in new
      BY <2>6
    <3> HIDE DEF old, new
    <3> QED
      BY <3>1, <3>2, <3>3
  <2>9. \A host \in DOMAIN Members' : Members'[host] = Members[host]
    <3> SUFFICES ASSUME NEW host \in DOMAIN Members' PROVE Members'[host] = Members[host]
      OBVIOUS
    <3>1. PICK j \in 1..Len(connectedClients') : host = connectedClients'[j].ip
      BY MembersAfter
    <3> DEFINE c == connectedClients[was(j)]
    <3>2. Members'[host] = MemberOf(c, peer'[c.socket]) /\ host = c.ip
      BY <2>5, <3>1, MembersAfter
    <3>3. Members[c.ip] = MemberOf(c, peer[c.socket])
      BY <2>5, MembersProperties
    <3>4. peer'[c.socket] = peer[c.socket]
      BY <1>2, <1>3, <2>5, <2>7 DEF Match
    <3> QED
      BY <3>2, <3>3, <3>4
  <2>10. S!Leaves(peer[fd])
    <3>1. Members' = [host \in DOMAIN Members' |-> Members'[host]]
      BY MembersAfter
    <3>2. Members' = [host \in DOMAIN Members \ {ip} |-> Members[host]]
      BY <2>8, <2>9, <3>1
    <3> HIDE DEF ip
    <3> QED
      BY <1>1, <2>3, <3>2 DEF S!Leaves, S!Restrict, Unread
  <2>11. Mail' = {}
    BY <1>1, NoMail
  <2> QED
    BY <1>2, <2>10, <2>11 DEF S!Next
<1> QED
  BY <1>4, <1>5

\* An unknown command is lost, and REFRESH says nothing about its client.
LEMMA IgnoredImplements ==
  ASSUME IInv, IInv', ~Ends, NEW fd \in master_list, Unknown(fd) \/ Refresh(fd)
  PROVE  S!Next
<1>1. Len(Unread(fd)) \in Nat
  BY Serving
<1>2. PICK k, items :
        /\ k \in 1..Len(Unread(fd))
        /\ Head(Unread(fd)).op \in {"refresh", "LOGOUT"}
        /\ Handle(fd, k, items, connectedClients)
        /\ \A item \in items : item.kind # "chat"
  <2>1. CASE Unknown(fd)
    <3>1. PICK k \in 2..Len(Unread(fd)) :
            /\ Head(Unread(fd)).op \in {"refresh", "LOGOUT"}
            /\ Handle(fd, k, {}, connectedClients)
      BY <2>1 DEF Unknown
    <3> QED
      BY <1>1, <3>1
  <2>2. CASE Refresh(fd)
    <3> DEFINE list == ListOf(fd, clientList(connectedClients))
    <3>1. /\ 1 \in 1..Len(Unread(fd)) /\ Head(Unread(fd)).op = "refresh"
          /\ Handle(fd, 1, {list}, connectedClients)
      BY <2>2 DEF Refresh, Reads
    <3>2. list.kind # "chat"
      BY DEF ListOf
    <3> HIDE DEF list
    <3> QED
      BY <3>1, <3>2
  <2> QED
    BY <2>1, <2>2
<1>3. /\ connectedClients' = connectedClients /\ UNCHANGED peer
      /\ \A item \in out' : item.kind # "chat"
  BY <1>2 DEF Handle
<1>4. Members' = Members /\ Mail' = {}
  BY <1>3, MembersUnchanged, NoMail
<1>5. S!Answers(peer[fd], Head(Unread(fd)))
  BY <1>2, <1>4 DEF S!Answers, S!Ignored
<1> QED
  BY <1>2, <1>5, Answered

LEMMA ServeImplements ==
  ASSUME RefinementInv, IInv', ~Ends, NEW fd \in Fds, Serve(fd)
  PROVE  S!Next
<1> fd \in master_list
  BY DEF Serve
<1> QED
  BY DisconnectImplements, IgnoredImplements, DeclaresImplements, SendImplements,
     BroadcastImplements DEF Serve, RefinementInv

\* accept is no step of the service: no record has the descriptor it returns.
LEMMA AcceptImplements ==
  ASSUME IInv, IInv', Accept
  PROVE  S!Next
<1>1. /\ connectedClients' = connectedClients /\ input' = input /\ out' = {}
      /\ Fds \ master_list # {} /\ peer' = [peer EXCEPT ![FreeFd] = Head(backlog)]
      /\ peer \in [Fds -> Clients \union {NoClient}]
  BY DEF Accept, IInv, TypeOK
<1>2. FreeFd \notin master_list
  BY <1>1, FreeFdProperties
<1>3. \A fd \in master_list : peer'[fd] = peer[fd]
  BY <1>1, <1>2 DEF master_list
<1>4. Members' = Members
  BY <1>1, <1>3, MembersUnchanged
<1> QED
  BY <1>1, <1>4, Unnoticed

\* What a client sends is asked for; it does nothing else that the service sees.
LEMMA ClientImplements ==
  ASSUME IInv, IInv', UNCHANGED <<connectedClients, peer>>, out' = {}, NEW p \in Clients,
         \/ UNCHANGED input
         \/ \E request \in Command : input' = [input EXCEPT ![p] = Append(@, request)]
  PROVE  S!Next
<1>1. Members' = Members /\ Mail' = {}
  BY MembersUnchanged, NoMail
<1> QED
  BY <1>1 DEF S!Next, S!Asks

\* Every step of the server is one of the service, or changes nothing there.
LEMMA NextImplements ==
  RefinementInv /\ IInv' /\ [Next]_vars => [S!Next]_<<Members, input, Mail>>
<1> SUFFICES ASSUME RefinementInv, IInv', [Next]_vars
             PROVE  S!Next \/ UNCHANGED <<Members, input, Mail>>
  OBVIOUS
<1> USE DEF RefinementInv
<1>1. CASE Ends
  BY <1>1, EndsImplements
<1>2. CASE UNCHANGED vars
  <2>1. connectedClients' = connectedClients /\ out' = out /\ UNCHANGED <<peer, input>>
    BY <1>2 DEF vars, serverVars, connVars
  <2>2. ASSUME NEW ip PROVE IndexOf(ip)' = IndexOf(ip)
    BY <2>1 DEF IndexOf, SelectInSeq
  <2>3. Members' = Members
    BY <2>1, MembersUnchanged
  <2>4. Mail' = Mail
    <3>1. \A item : item \in out' /\ item.kind = "chat" /\ IndexOf(item.dest)' # 0
            <=> item \in out /\ item.kind = "chat" /\ IndexOf(item.dest) # 0
      BY <2>1, <2>2
    <3> QED
      BY <3>1 DEF Mail
  <2> QED
    BY <2>1, <2>3, <2>4
<1>3. CASE Next /\ ~Ends
  <2>1. ASSUME NEW p \in Clients, ClientStep(p)
        PROVE  S!Next
    <3>1. UNCHANGED <<connectedClients, peer>> /\ out' = {}
      BY <2>1 DEF ClientStep, serverVars
    <3>2. \/ UNCHANGED input
          \/ \E request \in Command : input' = [input EXCEPT ![p] = Append(@, request)]
      <4>1. CASE SendPort(p)
        BY <4>1 DEF SendPort, Bare, Command
      <4>2. CASE Connect(p) \/ End(p)
        BY <4>2 DEF Connect, End
      <4>3. ASSUME NEW command \in Command, Transmit(p, command)
            PROVE  \/ UNCHANGED input
                   \/ \E request \in Command : input' = [input EXCEPT ![p] = Append(@, request)]
        BY <4>3 DEF Transmit
      <4>4. [op : Targeted, ip : Addresses] \union [op : Ops \ Targeted, ip : {NoHost}]
              \subseteq Command
        BY DEF Command
      <4> QED
        BY <2>1, <4>1, <4>2, <4>3, <4>4 DEF ClientStep
    <3> QED
      BY <3>1, <3>2, ClientImplements
  <2>2. ~Exit
    BY <1>3 DEF Exit
  <2> QED
    BY <1>3, <2>1, <2>2, AcceptImplements, ReceivePortImplements, SortImplements,
       ServeImplements DEF Next, ServerStep
<1> QED
  BY <1>1, <1>2, <1>3

LEMMA InitImplements ==
  Init => S!Init
<1> SUFFICES ASSUME Init PROVE S!Init
  OBVIOUS
<1>1. connectedClients = << >> /\ out = {} /\ input = [p \in Clients |-> << >>]
  BY DEF Init, ConnectionsInit
<1>2. Records = {}
  BY <1>1, EmptySeq DEF Records, Range
<1>3. Members = << >>
  BY <1>2 DEF Members
<1>4. Mail = {}
  BY <1>1 DEF Mail
<1> QED
  BY <1>1, <1>3, <1>4 DEF S!Init, S!Nothing

\* The server implements the service of ChatService: an address is a member from
\* its first port to the end of that connection, whatever the order of the
\* records and the numbers of the connections; what is kept of it changes exactly
\* as its own process says; and a message goes to the member it names if, and only
\* if, that one is logged in and does not block the source.
THEOREM ServiceImplemented == Spec => ImplementsService
<1>1. Init => S!Init
  BY InitImplements
<1>2. RefinementInv /\ IInv' /\ [Next]_vars => [S!Next]_<<Members, input, Mail>>
  BY NextImplements
<1>3. IInv /\ OneConnection /\ PortFirst => RefinementInv
  BY DEF RefinementInv
<1> QED
  BY <1>1, <1>2, <1>3, Invariance, OneConnectionEach, PortsFirst, PTL
  DEF Spec, ImplementsService, S!Spec
==============================================================================
