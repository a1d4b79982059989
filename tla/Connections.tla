------------------------------ MODULE Connections ------------------------------
(***************************************************************************)
(* The TCP connections between the client processes of the chat            *)
(* application and its server, as clientconnect.cpp, cmdinput.cpp and      *)
(* server.cpp of pa1/src use them.                                         *)
(*                                                                         *)
(* A client process has one connection at a time.  What it sends is a      *)
(* stream: a recv of the server returns one or several of its commands.    *)
(***************************************************************************)
EXTENDS Integers, Sequences, FiniteSets

CONSTANTS
  Clients,        \* the client processes
  NoClient,       \* in place of one of them
  Hosts,          \* the addresses they run on
  NoHost,         \* any text that is the address of no client
  HostOf,         \* the address of each process
  MaxCommands,    \* bound on the commands typed at the clients in a run
  MaxStarts       \* bound on the restarts of the server in a run

ASSUME ConnectionsAssumption ==
  /\ NoClient \notin Clients
  /\ NoHost \notin Hosts
  /\ HostOf \in [Clients -> Hosts]
  /\ MaxCommands \in Nat
  /\ MaxStarts \in Nat

VARIABLES
  up,        \* whether the server process runs
  link,      \* the state of each client's connection
  backlog,   \* the connections the server has not accepted yet
  input,     \* what each client sent and the server has not read
  commands, starts  \* what is left of MaxCommands and MaxStarts

connVars == <<up, link, backlog, input, commands, starts>>

Addresses == Hosts \union {NoHost}
Targeted == {"SEND", "BLOCK", "UNBLOCK"}
Ops == Targeted \union {"refresh", "LOGOUT", "LOGIN", "BROADCAST"}

\* What a client sends: its port, or a command and the address in it.
Command ==
  [op : Targeted, ip : Addresses] \union [op : (Ops \ Targeted) \union {"port"}, ip : {NoHost}]
Bare(op) == [op |-> op, ip |-> NoHost]

\* none: not yet connected; made: connect has returned, the port is not sent;
\* up: the port is sent; hung: the server has ended and the process has not;
\* ended: the process has ended.
Links == {"none", "made", "up", "hung", "ended"}

ConnectionsOK ==
  /\ up \in BOOLEAN
  /\ link \in [Clients -> Links]
  /\ backlog \in Seq(Clients)
  /\ input \in [Clients -> Seq(Command)]
  /\ commands \in 0..MaxCommands
  /\ starts \in 0..MaxStarts

ConnectionsInit ==
  /\ up = TRUE
  /\ link = [p \in Clients |-> "none"]
  /\ backlog = << >>
  /\ input = [p \in Clients |-> << >>]
  /\ commands = MaxCommands
  /\ starts = MaxStarts

----------------------------------------------------------------------------

\* connect returns when the system of the server has taken the connection.
Connect(p) ==
  /\ up
  /\ link[p] \in {"none", "hung"}
  /\ link' = [link EXCEPT ![p] = "made"]
  /\ backlog' = Append(backlog, p)
  /\ UNCHANGED <<up, input, commands, starts>>

\* The first thing a client sends on a new connection is its port.
SendPort(p) ==
  /\ link[p] = "made"
  /\ link' = [link EXCEPT ![p] = "up"]
  /\ input' = [input EXCEPT ![p] = Append(@, Bare("port"))]
  /\ UNCHANGED <<up, backlog, commands, starts>>

\* send of a command: once the server has ended it is lost, and SIGPIPE, which
\* the client does not handle, may end the client.
Transmit(p, command) ==
  /\ \/ /\ link[p] = "up"
        /\ input' = [input EXCEPT ![p] = Append(@, command)]
        /\ UNCHANGED link
     \/ /\ link[p] = "hung"
        /\ link' \in {link, [link EXCEPT ![p] = "ended"]}
        /\ UNCHANGED input
  /\ UNCHANGED <<up, backlog, starts>>

\* The user types one more command.
Typed ==
  /\ commands > 0
  /\ commands' = commands - 1

\* A process ends, at any point; what it has sent can still be read.
End(p) ==
  /\ link[p] \in {"made", "up", "hung"}
  /\ link' = [link EXCEPT ![p] = "ended"]
  /\ UNCHANGED <<up, backlog, input, commands, starts>>

\* The server ends, and its system closes every connection it had.
HangUp ==
  /\ up' = FALSE
  /\ link' = [p \in Clients |-> IF link[p] \in {"made", "up"} THEN "hung" ELSE link[p]]
  /\ backlog' = << >>
  /\ input' = [p \in Clients |-> << >>]
  /\ UNCHANGED <<commands, starts>>

\* A server is started again.
Start ==
  /\ ~up
  /\ starts > 0
  /\ up' = TRUE
  /\ starts' = starts - 1
  /\ UNCHANGED <<link, backlog, input, commands>>
=============================================================================
