------------------------------ MODULE ChatService ------------------------------
(***************************************************************************)
(* What the chat server promises the hosts of its clients: an address is a *)
(* member from the port of a process there to the end of that process;     *)
(* what a member has said changes only, and always, as that process asks;  *)
(* and messages go to members that are logged in and do not block the      *)
(* source, each to the one it names and to no other.  There are no         *)
(* connections, descriptors, vectors or loops here; ChatServer implements  *)
(* it.                                                                     *)
(***************************************************************************)
EXTENDS Integers, Sequences, Functions

CONSTANTS
  Clients,    \* the processes that ask for something
  HostOf,     \* the address of each
  Requests    \* what they ask for, records with an op and an ip

VARIABLES
  members,  \* of each member its process, whether it isLoggedIn, whom it has blocked
  asked,    \* what each process has asked for and the service has not taken up
  mail      \* the messages the last step delivered

Nothing == [p \in Clients |-> << >>]

Init == members = << >> /\ asked = Nothing /\ mail = {}

\* The process that speaks for its address.
IsMember(p) == HostOf[p] \in DOMAIN members /\ members[HostOf[p]].process = p

Asks(p) ==
  \E request \in Requests : asked' = [asked EXCEPT ![p] = Append(@, request)]

\* The service takes up a request; others right behind it may be lost.
Takes(p) ==
  \E k \in 1..Len(asked[p]) : asked' = [asked EXCEPT ![p] = SubSeq(@, k + 1, Len(@))]

\* The first process of an address makes it a member; another one says only that
\* somebody is there.
Arrives(p) ==
  LET ip == HostOf[p]
      new == [process |-> p, isLoggedIn |-> TRUE, blocked |-> {}]
  IN  \/ /\ ip \notin DOMAIN members
         /\ members' = [host \in DOMAIN members \union {ip} |->
                          IF host = ip THEN new ELSE members[host]]
      \/ /\ ip \in DOMAIN members
         /\ members' = [members EXCEPT ![ip].isLoggedIn = TRUE]

\* A member says something about itself.  An address it has blocked twice stays
\* blocked when it takes that back once.
Declares(ip, request) ==
  \/ /\ request.op = "LOGIN"
     /\ members' = [members EXCEPT ![ip].isLoggedIn = TRUE]
  \/ /\ request.op = "LOGOUT"
     /\ members' = [members EXCEPT ![ip].isLoggedIn = FALSE]
  \/ /\ request.op = "BLOCK"
     /\ members' = [members EXCEPT ![ip].blocked = @ \union {request.ip}]
  \/ /\ request.op = "UNBLOCK"
     /\ members' \in {members, [members EXCEPT ![ip].blocked = @ \ {request.ip}]}

\* A process that does not speak for its address says it in vain, and a bare word
\* is lost together with what is glued to it.
Ignored(p, request) ==
  /\ \/ request.op \in {"refresh", "LOGOUT"}
     \/ request.op \in {"LOGIN", "BLOCK", "UNBLOCK"} /\ ~IsMember(p)
  /\ UNCHANGED members

\* The members a message of src may go to.
Open(src) ==
  {to \in DOMAIN members : members[to].isLoggedIn /\ src \notin members[to].blocked}

Letters(src, ips) == {[src |-> src, dest |-> ip] : ip \in ips}

\* A message to the member it names, or to some of the others.
Writes(src, request) ==
  /\ UNCHANGED members
  /\ \/ request.op = "SEND" /\ mail' = Letters(src, Open(src) \intersect {request.ip})
     \/ request.op = "BROADCAST" /\ mail' \subseteq Letters(src, Open(src) \ {src})

\* A message is from the address its process speaks for, or from nobody.
Source(p) == IF IsMember(p) THEN HostOf[p] ELSE ""

Answers(p, request) ==
  \/ /\ mail' = {}
     /\ \/ request.op = "port" /\ Arrives(p)
        \/ IsMember(p) /\ Declares(HostOf[p], request)
        \/ Ignored(p, request)
  \/ Writes(Source(p), request)

\* A member is forgotten when its process ends and has nothing more to say.
Leaves(p) ==
  /\ IsMember(p) /\ asked[p] = << >>
  /\ members' = Restrict(members, DOMAIN members \ {HostOf[p]})
  /\ UNCHANGED asked

\* The service ends and has forgotten everybody.
Ends == members' = << >> /\ asked' = Nothing

Next ==
  \/ \E p \in Clients : Takes(p) /\ Answers(p, Head(asked[p]))
  \/ /\ mail' = {}
     /\ \/ UNCHANGED <<members, asked>>
        \/ \E p \in Clients : UNCHANGED members /\ Asks(p)
        \/ \E p \in Clients : Leaves(p)
        \/ Ends

Spec == Init /\ [][Next]_<<members, asked, mail>>
==============================================================================
