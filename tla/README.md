# A verification project for the chat application and the link protocols

The repository holds two programs. `pa1` is a text chat application: a server
with one thread, and clients that talk to each other through it over TCP. `pa2`
is three reliable link protocols (`abt`, `gbn`, `sr`), each linked with a
simulator of the layers above and below it. The two share no code.

## Inventory

| Component | State | Operations | Talks to |
|---|---|---|---|
| link simulator, `pa2/src/simulator.cpp` | event list, clock, `nsim`, `application_msgs` with `cur_msg_sent`, `cur_msg_recv` | `main`'s event loop, `init`, `generate_next_arrival`, `starttimer`, `stoptimer`, `tolayer3`, `tolayer5` | calls `A_output`, `A_input`, `A_timerinterrupt`, `B_input`; is called back by them |
| Go-back-N, `gbn.cpp` | A: `base`, `next_seq_num`, `send_window`; B: `b_ack` | the five handlers | simulator |
| selective repeat, `sr.cpp` | A: the rings `packetSent` and `buffer`, `seq_a`, `next_seq_a`, `buffer_next`; B: `expect_seq_b` | the five handlers | simulator |
| alternating bit, `abt.cpp` | A: `next_seq_A`, `ack`, `packet_sent`, the ring `buffer`; B: `next_seq_B` | the five handlers | simulator |
| chat server, `pa1/src/server.cpp`, `utilities.cpp` | `connectedClients`, `master_list` | one branch of the select loop for each of: the console (LIST, STATISTICS, BLOCKED, EXIT), accept, end of a connection, refresh, BLOCK, UNBLOCK, LOGOUT, LOGIN, SEND, BROADCAST | clients, over TCP |
| chat client, `client.cpp`, `cmdinput.cpp` | `clientDetails`, `client_lists`, `client_block`, `server` | a select loop over console and connection, one case for each command | server, over TCP |
| connections, `clientconnect.cpp` and the system | streams, backlog | `connect_to_host`, `send`, `recv`, `accept`, `close`, the end of processes | client and server |
| start-up, `assignment1.cpp` | - | `main` starts a server or a client | - |
| logger, own address | a log file | print, `getIP` | - |

What is hard in it:

- *Links.* Packets and acknowledgements are lost and damaged in every
  combination while three handlers of A share the sending, the timer and the
  sequence numbers; rings wrap around; the last message ends the run whatever
  is in flight. `tolayer5` ends the program at the first message that is not
  the next one. Right means: what comes out at B is what went in at A, in
  order, once, undamaged; A forgets only what B has; the timer runs while
  something is outstanding; and everything gets through in the end.
- *Chat.* TCP has no message boundaries, descriptors are reused, clients end
  and come back while the server is busy with other things, and the server
  finds a client in two ways, by address and by connection. The client waits in
  `recv` for answers that may not come, and takes whatever comes for one; what it
  believes of itself and what the server records of it are changed at different
  times. Right means: the
  records match the connections; a message goes to its addressee, if that one
  is logged in and does not block the source; the counts count what was sent;
  nothing remains of a client that ended; client and server agree, but for what is
  on its way, about who is logged in; nobody waits for ever for what was asked for.

`PROJECT.json` lists every hazard at its line with the properties aimed at it.

## Modules

`Messages`, `Packets` - messages, packets, the checksum and the damage layer 3
can do. The 20 characters of a payload are kept as the first one and the value
the others share: `main` fills a message with one letter, an acknowledgement is
all zeroes, and layer 3 overwrites only the first. The checksum is the same sum
in all three protocols.

`Layer5` - what `main` hands over at A and what `tolayer5` checks at B: it has two
exits, 52 and 63; the third, 145, cannot be reached, because `delivered` is set
in the order in which `cur_msg_recv` counts. `nsim` and `cur_msg_sent` are one
variable, as they always agree.

`Simulator` - the simulator without its clock. `tolayer3` keeps a direction of
the medium in order (it schedules a packet 1 to 10 time units after the last
one in flight), so each direction is a queue, `toA` and `toB`; a handler that
sends several packets in a row adds a subsequence of them, each as it is or
damaged. Which pending event is next depends on random draws and on `-t`: any
may be.

`TimedSimulator` - the simulator with its event list, in the order of time: delays
of `MinDelay` to `MaxDelay` after the last packet in flight, ties in front
(`insertevent`), one timer event at most (`starttimer`, `stoptimer`). Times are kept
relative to `time_local`, so that the states are finite, and whole; the code's
draws are any time in between, and its delays of 1 to 10 and timeout of 20 are
here 1 to 3 and 6.

`GoBackN`, `SelRepeat` - the protocols; each extends `Simulator` and has an
operator for each handler, named as in the code, and an action for each event
`main` dispatches. State variables have the names of the code's globals.
`getwinsize` is `WinSize`; `WINDOW` and `BUFFER_LEN` are constants.

`AltBit` - the alternating-bit protocol on the timed event list. It takes an
acknowledgement without asking whether it waits for one, so a duplicate would make it
lose a message; that none ever comes is due to the timeout. On the untimed
simulator it would be wrong, as it would be with any shorter timeout.

`ReliableTransfer` - the abstract service: messages are handed over, and
delivered in that order. `Layer5` instantiates it (`Service`) with
`handed <- nsim` and `delivered <- received`. Go-back-N and the alternating bit implement its safety part,
`Service!Spec`; sr implements `Service!LiveSpec`, which also delivers every
message.

`Connections` - TCP between the client processes and the server: for each process
`link`, the state of its connection, and `input`, what it sent and the server has
not read; the `backlog` of `accept`; processes that end, and a server that ends
(`HangUp`) and is started again (`Start`). A process never has two connections.

`ChatServer` - the server, with clients that may send any command at any time
once they have sent their port, so that what it guarantees does not rest on the
program's own client. An action is a whole branch of the select loop.
`connectedClients` is the sequence of records, `master_list` the watched
connections without the console and the listening socket, `peer` the process at
the other end of each. LIST and STATISTICS sort the records by
their ports (`Sort`); `BLOCKED` only prints. `out` holds what
the last step put on connections: the action properties speak of it.

- `Accept` and `ReceivePort` are the two halves of the branch of the listening
  socket: between them the thread is in `recv` and serves nobody (`AtSelect`).
- `Reads` is the one `recv` of a branch: it returns the first `k >= 1` of the
  commands in the stream. The server looks at the first word only. `refresh`
  and `LOGOUT` are bare words without a newline, so with another command glued
  to them they are unknown (`Unknown`); the others swallow what follows.
- `Handle` has `send` in it: the first item to a process that has ended makes its
  system reset the connection, and a later one may raise SIGPIPE, which the
  program does not handle: the server ends, with what it knew.
- `ListData` objects nobody initialised (SEND to an address without a record,
  LOGIN on a connection without one) are read for a descriptor: the item goes
  to any connection or nowhere.

`ChatService` - the abstract service of the server, without connections, records or
loops. A process asks for something (`asked`), and the service takes requests up in
order, some perhaps together, of which it then answers the first. An address is a member
from the port of a process there to the end of that process, and what a member has
said of itself (logged in or out, whom it blocks) changes only by what that process
asks. A SEND goes to the member it names if that one is logged in and does not
block the source, and to nobody else; a BROADCAST goes to some of the other members that
are logged in and do not block the source, as the code promises no more (see below).
`ChatServer` implements it (`ImplementsService`): `members` are the records by
address, each with the process at the other end of its connection, `asked` is what is
unread, `mail` what the last step put out to members.

`ChatClient` - the client processes: an action for each command of
`cmdinputclient` that sends or changes something, for each `send` of LOGIN
(`FirstLogin`, `Introduce`, `SendFirstLogin`), for the loop's `recv`
(`ReadMessage`) and for the one in `receiveClientDetails` (`TakeList`), which takes
whatever comes for a list. `client[p]` has the variables of the process with the
code's names; `server` is no descriptor (-1), that of the console (0) or the
connection's; `clientDetails` is kept as `isLoggedIn`, as its address is in
`client_lists` whenever that is not empty.

`Chat` - the two composed: a step of the server appends `out` to what is on its way
to each client (`Delivers`), a step of a client is one that `ChatServer` allows.

`MC...` modules instantiate these for TLC; they and the `.cfg` files hold the
values of constants.

`PacketProofs`, `SimulatorProofs`, `ListProofs` - facts the proofs share: packets and
damage, the queues of the medium, sequences and rings. `GoBackNProofs`,
`SelRepeatProofs`, `AltBitProofs`, `ChatServerProofs`, `ChatProofs` - theorems, see
below.

Operators whose comment begins with "Variant" are not the program. Each is a
slip the code could have had, and each property of a passing run is violated
when one of them takes the place of the real definition (`mutants` in
`PROJECT.json`).

## Runs

| Run | Bounds | Shows |
|---|---|---|
| `gbn` | 4 messages, window 2, 2 packets each way, all damages | `TypeOK`, `InOrderDelivery`, `AckedIsDelivered`, `TimerCoversOutstanding`, `WindowRespected`, `ImplementsService`, `WindowDelivered`. Go-back-N over a medium that loses and damages packets in every way tolayer3 can: each state and step is right, the protocol refines the reliable, ordered service, and under fair events every packet the window of the sender reaches gets delivered. |
| `gbn_stuck` | 4 messages, window 2, 2 packets and 1 acknowledgement, payload damage | `AllDelivered`. Go-back-N does not deliver every message: once an acknowledgement is lost, B drops every resent packet without an answer and the window never moves again. **Violated**, as it should be here. |
| `sr` | 5 messages, window 2, ring of 5, 2 packets each way, acknowledgement damage | `TypeOK`, `InOrderDelivery`, `RingsHoldBacklog`, `TimerIffOutstanding`, `AckedIsDelivered`, `ImplementsService`. The sr protocol, with window and rings that wrap around: its state stays right, and it gives the whole service, order and delivery of every message. |
| `abt` | 6 messages, delays 1 to 3, timeout 6, 0 to 7 between messages, payload and acknowledgement damage | `TypeOK`, `InOrderDelivery`, `NoPrematureTimeout`, `RingHoldsBacklog`, `BitsAgree`, `ImplementsService`. The alternating-bit protocol on the timed event list: with a timeout of twice the longest delay, no second copy of an acknowledgement ever comes in, and so the protocol, which could not bear one, delivers in order. |
| `server` | 2 addresses, 3 processes over 2 descriptors, 2 commands | `TypeOK`, `RecordsMatchConnections`, `ImplementsService`, `NoMisdelivery`, `StatisticsFollowRelays`. The chat server against clients that may send any command at any time, come, go and come again, with commands coalesced by TCP, descriptors reused and sends to departed clients: its records stay true and it implements the abstract service. |
| `chat` | 2 addresses and processes, 2 commands beside the LOGINs that connect, 1 restart | `ClientsTypeOK`, `SilencedOnlyByChoice`, `NoSecondConnection`. The server composed with the program's own clients, with a server that may end and be started again: both sides agree about who is logged in and connected, as far as messages on the way allow. |
| `chat_live` | 2 addresses and processes, 1 command beside the LOGINs that connect, 1 restart | `LoneRequestAnswered`, `PortComes`, `NothingLeftUnread`, `ClosedAreForgotten`. Under the fairness of the select loop and of the client processes: requests for the list are answered, the blocking recv after accept returns, what comes in is read, and closed connections are forgotten. |
| `chat_shown` | as `chat`, no restart | `MessagesShown`. A message that comes while its client waits for a list is parsed as one, entered in client_lists and never displayed. **Violated**, as it should be here. |
| `server_broadcast` | 3 interchangeable addresses, 3 processes, 2 commands | `BroadcastReachesAll`. A broadcast does not reach the clients whose record comes after that of one that blocks the source. **Violated**, as it should be here. |
| `chat_offline` | as `chat`, no restart | `OfflineMessageStored`. A message sent to a client that is logged out is stored in a copy of its record, and so lost. **Violated**, as it should be here. |
| `chat_tracked` | 1 address, 2 processes, no command beside the LOGINs | `EveryClientTracked`. A client that connects before the end of the connection its address had before is handled is never recorded. **Violated**, as it should be here. |
| `chat_block` | as `chat`, 3 commands, no restart | `BlocksEnforced`. A BLOCK that TCP delivers together with the command before it is never looked at, and messages of the blocked client still come. **Violated**, as it should be here. |

Why the bounds are enough. A protocol needs a window that fills, moves and
fills again, so more messages than the window is wide, and room for a duplicate
beside a new packet in each direction. The alternating bit needs both numbers used
twice, and times long enough for events to fall before, at and after each other. What exceeds the bound of a queue is
treated as lost, which the medium may do anyway. For the server, three
processes over two descriptors are one client, one that speaks to it, and a
comer that reuses an address, a descriptor or both; two commands (a LOGIN counts
as one there) let any command meet any other. The two processes of one address
are interchangeable (symmetry). With its own clients two processes, two commands and
a restart are LOGOUT and LOGIN of one crossing messages of the other, and a
client that outlives its server; a LOGIN that connects is not counted. With three
commands and no restart (2.7 million states), with three commands and a restart (5.7 million) and with a third
process the invariants of `chat` hold as well; these take too long for a run that is repeated. The
liveness properties are checked with one command beside the LOGINs and one restart: the
requests, the waiting and the ends of processes are all there. Deadlock is
not checked: the simulator ends, the server may end, and bounds run out.

Fairness. The simulator handles every pending event at its time, so the events
of layer 3 and the timer are weakly fair. Loss (`-l`) and corruption (`-c`) are
probabilities, independent for each packet: of infinitely many tries one
succeeds if they are below 1, which is strong fairness of "this packet is sent
again and is on its way undamaged" (`Resent`) and "an acknowledgement is on its
way undamaged" (`AckArrives`). Nothing is assumed of layer 5: it need not hand
over another message. The select loop goes through every ready descriptor each
time around: `Accept`, `ReceivePort` and `Serve(fd)` are weakly fair. A client
process goes on by itself when it is inside a command, and reads its connection when
its console has nothing: `Proceed` is weakly fair, which takes a user who does not type
without end. Nothing is assumed of users: that they type, end their process, end the
server or start one.

## What the code does not do

- `gbn_stuck`: B_input (gbn.cpp:94) answers only the packet it waits for and drops every other one silently. When the acknowledgement of the last packet B took from a full window is lost or damaged, A resends that window for ever, B drops it for ever, and no later message is delivered. pa2/include/simulator.h:6-8 says of a msg: "It contains the data (characters) to be delivered to layer 5 via the students transport level protocol entities." The run, under fair events and a medium that lets infinitely many tries through, ends in a cycle in which a message handed to A stays undelivered.
- `server_broadcast`: BROADCAST clears sendFlag at the first record that blocks the source (server.cpp:419-421) and never sets it again in the loop, so no record after it gets the message. README.md:9 says "Broadcast -->Send messages to all currently logged-in clients." In the run h2 blocks h1, h1 broadcasts, and h3, logged in and blocking nobody, gets nothing.
- `chat_offline`: SEND looks the addressee up with findListData, which returns a copy (server.cpp:380), and pushes the message for a logged-out addressee onto the buffer of that copy (server.cpp:389-396). README.md:10 says "Buffer Message delivery --> stores messages for offline clients and delivers upon login." In the run a client logs out, another sends it a message, and its buffer stays empty.
- `chat_tracked`: accept gives a connection no record when the address already has one (server.cpp:205, 222-232), and the end of the old connection erases that record (server.cpp:258-266). README.md:12 says "Server tracks message counts and login status for every client." In the run a client of an address connects, the older connection of that address ends and is cleaned up, and the client that is there has no record: the list went to the old connection, its LOGIN finds nothing, its messages come from nobody.
- `chat_block`: One recv of up to BUFFER_SIZE bytes (server.cpp:253) is taken for one command (server.cpp:279-282), but TCP may deliver a LOGIN or SEND and the BLOCK after it in one piece; the BLOCK is then never looked at. README.md:13 says "Also Server enforces message filtering based on client block lists." In the run the server has read all a client sent, a BLOCK of h1 included, and relays a message of h1 to it.
- `chat_shown`: After LOGIN and REFRESH receiveClientDetails takes whatever one recv returns for a list (cmdinput.cpp:327, 351-360); a message the server relayed just before becomes an entry of client_lists and is not displayed, which only the loop does (client.cpp:86-98). README.md:8 says "Unicast --> send direct message to specific client". In the run a client asks for the list while a message to it is on the way, and its recv returns that message.

Nothing anywhere reads `ListData::buffer` (server.cpp:238 has only the comment
"Flush the respective buffer"), so what BROADCAST does store is not delivered
either. LIST prints every record, logged in or not.

## Proofs

Everything here holds for every value of the constants that the assumptions named
in the modules allow: at most 1000 messages (`application_msgs`), natural bounds,
known kinds of damage, rings with room for every message of the run (the code's
have it), and for the alternating bit a timeout of at least twice the longest delay, as the
code's has. No property below is inductive as it stands: each module has an
invariant `IInv`, checked by TLC before it was proved, one lemma for each action,
`Invariance`, and the theorems that follow from it.

`PacketProofs` has the types of packets and messages and `ChecksumDetectsDamage`: a
packet damaged in any way layer 3 can damage it does not check, unless the damage
replaced a value by itself. The one place where the proof has to look at numbers is
that no payload begins with 'Z' and no sequence or acknowledgement number of the
protocols is 999999; with at most 1000 messages neither can be. `SimulatorProofs` says
what `ToLayer3` can leave in a queue (`ToLayer3Elements`, `ToLayer3Intact`).
`ListProofs` says where the elements of a filtered, mapped, sorted or extended
sequence come from, and when two numbers have the same place in a ring
(`PlaceUnique`: never if they are less than its length apart).

`GoBackNProofs`: `TypeOK`, `InOrderDelivery`, `AckedIsDelivered`,
`TimerCoversOutstanding`, `WindowRespected` and `ImplementsService`. `IInv` adds:
`send_window` holds, at index `i`, the packet numbered `i` with the data of message
`i`; every packet in flight to B that checks is one of these and within the window;
every acknowledgement in flight that checks names a packet B has delivered;
`b_ack`, `received`, `base` and `next_seq_num` are related as `AckedIsDelivered`
says and B is not past what A has made. So a packet B expects and that checks
carries the very next message, which is why `tolayer5` never exits.

`SelRepeatProofs`: `TypeOK`, `InOrderDelivery`, `RingsHoldBacklog`,
`TimerIffOutstanding`, `AckedIsDelivered`, and that each step is one of the service
(`ServiceOrderKept`). The invariant is that of Go-back-N with rings in the place of
sequences: packet `i` of the window is at `i % Window`, message `i` at `i % BufferLen`,
and an acknowledgement in flight that checks may also be the one of number -1, which
B repeats before its first packet. `send_packets` writes several places at once; as no two
numbers of a window share a place, it overwrites only packets that are acknowledged.

`AltBitProofs`: `TypeOK`, `NoPrematureTimeout`, `RingHoldsBacklog`, `BitsAgree`,
`InOrderDelivery` and `ImplementsService`. Its safety rests on time: `A_input` takes an
answer with the number of its last packet whether it waits or not, so a second answer to one
packet would flip its bit once too often. The invariant says that the event list is
sorted by time; that while A does not wait there is no timer and no packet in it; and that
while A waits there is one timer and before it at most one packet, which if it is going
to B comes early enough for its answer to come before the timer too. That putting an event
in the list and taking one out keep this are lemmas on the list alone. What is in flight and
checks is then A's current packet or B's latest answer.

`ChatServerProofs`: `TypeOK`, `RecordsMatchConnections`, `NoMisdelivery`,
`StatisticsFollowRelays` and `ImplementsService`. The invariant adds to
`RecordsMatchConnections` only that no record has the descriptor `accept` has
just returned, whose port is awaited (`Unrecorded`): without it a record made
from that port could be a second one of a descriptor that was used before. Most of
the proof is that sorting, copying and removing records keep the clients of the
list, whatever their places. The statistics need besides that a process has one connection
(`OneConnectionEach`): or the SEND of one would count for another. The service
`ChatService` has a member for each record, under the address and not the place in the list. A
handler of the server changes the entry of one member, adds or removes one, or only
writes, and is shown to be that action of the service or one it does not see. That a
member changes by its own process only takes `OneConnectionEach` again, and `PortsFirst`:
what the server reads after `accept` is the port of that process and nothing else.

`ChatProofs`: the same of `ChatSpec`, for all runs of the server among its own clients, and
besides `ClientsTypeOK`, `NoSecondConnection` and `SilencedOnlyByChoice`. The
invariant of the server is kept by every step of a client and by a restart
(`ClientServerInv`, `Bystander`). To it come two parts:

- `ClientsInv`: of each client, its state with its connection, what it wrote that the
  server has not read, and what it has still to read. Nothing is unread on a connection that is
  not yet used or gone; after an unread LOGOUT comes a LOGIN, and if nothing comes, the
  client is still away (`Written`); no list on its way is empty (`Arriving` keeps none,
  as an empty `send` puts nothing on a connection), so what ends the wait in
  `receiveClientDetails` fills `client_lists`. A step of a client concerns its own part of
  this only (`StepOf`), and the server only takes commands off the front and adds
  items at the end (`Reading`, `ArrivingProperties`).
- `SilencedFor`: of each record that is logged out, that its client is away with nothing
  unread, or that the next thing the server reads from it is a LOGIN. Handling a LOGOUT
  keeps this because of `Written`. It is stronger than `SilencedOnlyByChoice`, which would
  be satisfied by a LOGIN behind other commands, and not inductive.

Only model-checked: the liveness properties (`WindowDelivered`, that of the service in `sr`,
those of `chat_live`), which are out of the prover's reach, and what the runs that
expect a violation look for. Every invariant and every step property of a run that passes
is proved.

## Not modelled

- The width of the clock: event times are floats in the code, and at large times
  (`-t` in the hundred thousands) their rounding breaks the order of the medium. Also
  throughput and the other figures printed at the end.
- More messages than `application_msgs` holds (1000), and `-m` beyond it.
- Liveness of the alternating bit: in the timed simulator the messages keep coming
  and the run ends after the last one, whatever has been delivered.
- Text: formats, lengths, host names, parsing of payloads; overlong words are
  taken to damage nothing the program still uses.
- Failures of `socket`, `bind`, `select` and allocation; full buffers of
  connections, where `send` would block.
- A `recv` that returns part of a command or list: they are far shorter than what
  TCP splits. Words without end that two glued commands make are taken for an unknown
  word, whatever `command[10]` (server.cpp:277) does with them.
- `FD_SET` of descriptor -1 before the first LOGIN (client.cpp:63), which is undefined.
- What a client prints: AUTHOR, IP, PORT, LIST, the received messages; the logger,
  `getIP`, grader and packaging.

## Plan

1. Done: the simulator with and without its clock, the three protocols and their
   service; the chat server and the service it implements, its clients, their
   connections and the whole application; the safety of the protocols, of the server
   and of the application proved, as invariants, step properties and refinements.
2. The proofs are to be kept with the modules: what a change of the code breaks first is
   the invariant of its module. Left for later: the order in which a client reads what
   two others sent, and the hazards in `PROJECT.json` that no property covers.
