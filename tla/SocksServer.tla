---------------------------- MODULE SocksServer ----------------------------
(***************************************************************************)
(* socks_server of project 4.  The parent accepts clients and forks a      *)
(* child for each.  A child reads the request, asks the firewall, connects *)
(* to the destination or waits for it (BIND), replies, and relays both     *)
(* directions until each has ended by itself.  Nothing is ever closed, and *)
(* a child runs until a signal or an exception ends it.                    *)
(*                                                                         *)
(* A request is what parse returned of it.                                 *)
(***************************************************************************)
EXTENDS Integers, Sequences, FiniteSets, SequencesExt

CONSTANTS
  Client,     \* clients; each is served by the child of its name
  Requests,   \* what each client may ask for
  MaxData,    \* bound: units sent in each direction of each client
  Chunk       \* units that one read returns at most (dst_buffer_, src_buffer_)

\* What is asked, whether socks.conf permits it, whether the host has an address,
\* whether the destination answers.
Request == [cd : {"connect", "bind", "unknown"}, permitted : BOOLEAN, resolves : BOOLEAN, answers : BOOLEAN]

Dir == {"up", "down"}        \* client to destination, destination to client

ASSUME RequestAssumption == Requests \in [Client -> SUBSET Request]
ASSUME BoundAssumption == MaxData \in [Client -> [Dir -> Nat]] /\ Chunk \in Nat \ {0}

Accepted == 90   \* 0x5A
Rejected == 91   \* 0x5B

Source(d) == IF d = "up" THEN "src" ELSE "dst"
Sink(d)   == IF d = "up" THEN "dst" ELSE "src"

VARIABLES
  \* the parent: where it is, for whom, and whether SIGCHLD was caught
  ppc, cur, sigchld,
  child,     \* where each child is
  request,   \* what its client sent, and then what it read
  reply,     \* the codes that its client got
  peer,      \* the state of the two connections of a child, as their peers left it
  sent,      \* units that each peer has sent
  inq,       \* those that the child has not read
  relay,     \* what each direction waits for
  hold,      \* its buffer
  got        \* what the other peer has got

parent == <<ppc, cur, sigchld>>
data   == <<sent, inq, relay, hold, got>>
vars   == <<parent, child, request, reply, peer, data>>

Started == {"request", "resolve", "connect", "bind", "relay", "rejected", "silent"}
NoRequest == [cd |-> "unknown", permitted |-> FALSE, resolves |-> FALSE, answers |-> FALSE]

TypeOK ==
  /\ ppc \in {"accept", "fork", "wait"} /\ cur \in Client \cup {"none"} /\ sigchld \in BOOLEAN
  /\ child \in [Client -> Started \cup {"none", "zombie", "reaped"}]
  /\ request \in [Client -> Request]
  /\ reply \in [Client -> Seq(90 .. 91)]
  /\ peer \in [Client -> [{"src", "dst"} -> {"away", "open", "half", "reset"}]]
  /\ sent \in [Client -> [Dir -> Nat]]
  /\ inq \in [Client -> [Dir -> Seq(Nat)]]
  /\ relay \in [Client -> [Dir -> {"off", "read", "write", "end"}]]
  /\ hold \in [Client -> [Dir -> Seq(Nat)]]
  /\ got \in [Client -> [Dir -> Seq(Nat)]]

-----------------------------------------------------------------------------
(* The clients and the destinations.                                       *)

Connect(c) ==
  /\ peer[c]["src"] = "away"
  /\ \E r \in Requests[c] : request' = [request EXCEPT ![c] = r]
  /\ peer' = [peer EXCEPT ![c]["src"] = "open"]
  /\ UNCHANGED <<parent, child, reply, data>>

\* A client sends data when it has the last reply, a destination when it is there.
Ready(c, d) == peer[c][Source(d)] = "open" /\ (d = "up" => relay[c]["down"] # "off")

PeerSend(c, d) ==
  /\ Ready(c, d) /\ sent[c][d] < MaxData[c][d]
  /\ sent' = [sent EXCEPT ![c][d] = @ + 1]
  /\ inq' = [inq EXCEPT ![c][d] = Append(@, sent[c][d] + 1)]
  /\ UNCHANGED <<parent, child, request, reply, peer, relay, hold, got>>

\* It ends its own direction, or is gone with what it has not read and what has
\* not been read of it.
HalfClose(c, p) ==
  /\ peer[c][p] = "open"
  /\ peer' = [peer EXCEPT ![c][p] = "half"]
  /\ UNCHANGED <<parent, child, request, reply, data>>

PeerReset(c, p) ==
  /\ peer[c][p] \in {"open", "half"}
  /\ peer' = [peer EXCEPT ![c][p] = "reset"]
  /\ inq' = [inq EXCEPT ![c] = [d \in Dir |-> IF Source(d) = p THEN <<>> ELSE @[d]]]
  /\ UNCHANGED <<parent, child, request, reply, sent, relay, hold, got>>

PeerStep(c) == \/ Connect(c)
               \/ \E d \in Dir : PeerSend(c, d)
               \/ \E p \in {"src", "dst"} : HalfClose(c, p) \/ PeerReset(c, p)

-----------------------------------------------------------------------------
(* The parent: do_accept, do_socks4, do_signal.                            *)

Alive  == {c \in Client : child[c] \in Started}
Zombie == {c \in Client : child[c] = "zombie"}

Accept(c) ==
  /\ ppc = "accept"
  /\ peer[c]["src"] # "away" /\ child[c] = "none"
  /\ ppc' = "fork"
  /\ cur' = c
  /\ UNCHANGED <<sigchld, child, request, reply, peer, data>>

ForkChild ==
  /\ ppc = "fork"
  /\ child' = [child EXCEPT ![cur] = "request"]
  /\ ppc' = "accept"
  /\ cur' = "none"
  /\ UNCHANGED <<sigchld, request, reply, peer, data>>

\* When fork() fails the parent waits for a child to end, if it has any, and tries
\* again.
ForkFails ==
  /\ ppc = "fork" /\ Alive \cup Zombie # {}
  /\ ppc' = "wait"
  /\ UNCHANGED <<cur, sigchld, child, request, reply, peer, data>>

WaitChild ==
  /\ ppc = "wait"
  /\ \E c \in Zombie : child' = [child EXCEPT ![c] = "reaped"]
  /\ ppc' = "fork"
  /\ UNCHANGED <<cur, sigchld, request, reply, peer, data>>

\* Signals that come together are caught once.
\* (Fault: one child is reaped for each signal.)
ReapOne(ch) == IF Zombie = {} THEN ch ELSE [ch EXCEPT ![CHOOSE c \in Zombie : TRUE] = "reaped"]
ReapAll(ch) == [c \in Client |-> IF ch[c] = "zombie" THEN "reaped" ELSE ch[c]]

Reap ==
  /\ ppc = "accept" /\ sigchld
  /\ sigchld' = FALSE
  /\ child' = ReapAll(child)
  /\ UNCHANGED <<ppc, cur, request, reply, peer, data>>

ParentStep == (\E c \in Client : Accept(c)) \/ ForkChild \/ ForkFails \/ WaitChild \/ Reap

-----------------------------------------------------------------------------
(* A child: the request.                                                   *)

Goto(c, s) == child' = [child EXCEPT ![c] = s] /\ UNCHANGED parent
Die(c)     == child' = [child EXCEPT ![c] = "zombie"] /\ sigchld' = TRUE /\ UNCHANGED <<ppc, cur>>

\* The request is what the client sent; when the client ends without one, whatever
\* is in the buffer is parsed.
Read(c) == IF peer[c]["src"] = "open" THEN {request[c]} ELSE Requests[c]

\* firewall.check knows two commands and permits no other.
Checked(r) == r.cd # "unknown" /\ r.permitted

\* What is sent to a client that is gone is lost.
Says(c, code) == reply' = [reply EXCEPT ![c] = IF peer[c]["src"] = "reset" THEN @ ELSE Append(@, code)]

ReadRequest(c) ==
  /\ child[c] = "request" /\ peer[c]["src"] # "reset"
  /\ \E r \in Read(c) :
       /\ request' = [request EXCEPT ![c] = r]
       /\ \/ Checked(r) /\ r.cd = "connect" /\ Goto(c, "resolve") /\ UNCHANGED reply
          \/ Checked(r) /\ r.cd # "connect" /\ Goto(c, "bind") /\ Says(c, Accepted)
          \/ ~Checked(r) /\ Goto(c, "rejected") /\ Says(c, Rejected)
  /\ UNCHANGED <<peer, data>>

\* When the client is gone remote_endpoint() throws, and the send() of a reply may
\* raise SIGPIPE.
Fails(c) ==
  /\ peer[c]["src"] = "reset"
  /\ child[c] = "request" \/ (child[c] \in {"bind", "connect"} /\ request[c].answers)
  /\ Die(c)
  /\ UNCHANGED <<request, reply, peer, data>>

Resolve(c) ==
  /\ child[c] = "resolve"
  /\ Goto(c, IF request[c].resolves THEN "connect" ELSE "silent")
  /\ UNCHANGED <<request, reply, peer, data>>

\* The reply, then both directions are started.
\* (Fault: the client is not told.)
Silently(c) == UNCHANGED reply
Announced(c) == Says(c, Accepted)

Begin(c) ==
  /\ Goto(c, "relay")
  /\ peer' = [peer EXCEPT ![c]["dst"] = "open"]
  /\ relay' = [relay EXCEPT ![c] = [d \in Dir |-> "read"]]
  /\ Announced(c)

DoConnect(c) ==
  /\ child[c] = "connect" /\ request[c].answers
  /\ Begin(c)
  /\ UNCHANGED <<request, sent, inq, hold, got>>

ConnectFails(c) ==
  /\ child[c] = "connect" /\ ~request[c].answers
  /\ Goto(c, "silent")
  /\ UNCHANGED <<request, reply, peer, data>>

BindAccept(c) ==
  /\ child[c] = "bind" /\ request[c].answers
  /\ Begin(c)
  /\ UNCHANGED <<request, sent, inq, hold, got>>

-----------------------------------------------------------------------------
(* A child: the relay.                                                     *)

Relaying(c, d, s) == child[c] = "relay" /\ relay[c][d] = s

\* async_read_some returns what there is, up to the size of the buffer.
RelayRead(c, d) ==
  /\ Relaying(c, d, "read") /\ inq[c][d] # <<>>
  /\ \E n \in 1 .. Len(inq[c][d]) :
       /\ n <= Chunk
       /\ hold' = [hold EXCEPT ![c][d] = SubSeq(inq[c][d], 1, n)]
       /\ inq' = [inq EXCEPT ![c][d] = SubSeq(@, n + 1, Len(@))]
  /\ relay' = [relay EXCEPT ![c][d] = "write"]
  /\ UNCHANGED <<parent, child, request, reply, peer, sent, got>>

\* The end of the input, or an error, ends this direction; nothing else is done.
\* (Fault: it ends the other too.)
EndsBoth(c, d) == [e \in Dir |-> "end"]
Ended(c, d)    == [relay[c] EXCEPT ![d] = "end"]

RelayEnd(c, d) ==
  /\ \/ Relaying(c, d, "read") /\ inq[c][d] = <<>> /\ peer[c][Source(d)] \in {"half", "reset"}
     \/ Relaying(c, d, "write") /\ peer[c][Sink(d)] = "reset"
  /\ relay' = [relay EXCEPT ![c] = Ended(c, d)]
  /\ UNCHANGED <<parent, child, request, reply, peer, sent, inq, hold, got>>

\* async_write writes all of it.
\* (Fault: after a short write it starts over.)
StartsOver(h) == SubSeq(h, 1, Len(h) - 1) \o h
WritesAll(h)  == h

RelayWrite(c, d) ==
  /\ Relaying(c, d, "write") /\ peer[c][Sink(d)] # "reset"
  /\ got' = [got EXCEPT ![c][d] = @ \o WritesAll(hold[c][d])]
  /\ hold' = [hold EXCEPT ![c][d] = <<>>]
  /\ relay' = [relay EXCEPT ![c][d] = "read"]
  /\ UNCHANGED <<parent, child, request, reply, peer, sent, inq>>

ChildStep(c) == \/ ReadRequest(c) \/ Fails(c) \/ Resolve(c)
                \/ DoConnect(c) \/ ConnectFails(c) \/ BindAccept(c)
                \/ \E d \in Dir : RelayRead(c, d) \/ RelayEnd(c, d) \/ RelayWrite(c, d)

-----------------------------------------------------------------------------
Init ==
  /\ ppc = "accept" /\ cur = "none" /\ sigchld = FALSE
  /\ child = [c \in Client |-> "none"]
  /\ request = [c \in Client |-> NoRequest]
  /\ reply = [c \in Client |-> <<>>]
  /\ peer = [c \in Client |-> [p \in {"src", "dst"} |-> "away"]]
  /\ sent = [c \in Client |-> [d \in Dir |-> 0]]
  /\ inq = [c \in Client |-> [d \in Dir |-> <<>>]]
  /\ relay = [c \in Client |-> [d \in Dir |-> "off"]]
  /\ hold = [c \in Client |-> [d \in Dir |-> <<>>]]
  /\ got = [c \in Client |-> [d \in Dir |-> <<>>]]

Next == ParentStep \/ \E c \in Client : PeerStep(c) \/ ChildStep(c)

Spec == Init /\ [][Next]_vars

\* The asynchronous operations of a child complete when they can; the parent's
\* handlers run.
FairSpec == Spec /\ WF_vars(ParentStep) /\ \A c \in Client : WF_vars(ChildStep(c))

-----------------------------------------------------------------------------
(* What must hold.                                                         *)

\* Each direction of each client is a stream: the relay neither loses, repeats
\* nor reorders what it passes on.
Channels == INSTANCE Streams WITH
  Channel <- Client \X Dir,
  sent <- [x \in Client \X Dir |-> sent[x[1]][x[2]]],
  got  <- [x \in Client \X Dir |-> got[x[1]][x[2]]]
KeepsStreams == Channels!Spec

\* A client hears what SOCKS lets it hear, in that order: one refusal, one
\* acceptance of CONNECT, two of BIND, and data only after the last of them; and
\* only what is permitted gets a connection, whatever the client sent or did.
RepliesRight ==
  TypeOK /\ \A c \in Client :
    /\ reply[c] \in {<<>>, <<Rejected>>, <<Accepted>>}
         \/ (reply[c] = <<Accepted, Accepted>> /\ request[c].cd = "bind")
    /\ got[c]["down"] # <<>> => Len(reply[c]) = (IF request[c].cd = "bind" THEN 2 ELSE 1)
    /\ peer[c]["dst"] # "away" => request[c].permitted /\ Rejected \notin ToSet(reply[c])

\* What a peer has sent reaches the other side, unless one of them is gone: that
\* the other direction has ended makes no difference.
Delivered ==
  \A c \in Client, d \in Dir :
    child[c] = "relay" /\ Len(got[c][d]) < sent[c][d]
      ~> Len(got[c][d]) = sent[c][d] \/ \E p \in {"src", "dst"} : peer[c][p] = "reset"

\* A child that ended is reaped, also when several end at once or while the
\* parent is busy.  One that refused its client, or whose relays are over, has not
\* ended: do_accept() tries its closed acceptor again and again.
Reaped == \A c \in Client : child[c] = "zombie" ~> child[c] = "reaped"
=============================================================================
