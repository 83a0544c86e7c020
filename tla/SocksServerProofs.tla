-------------------------- MODULE SocksServerProofs --------------------------
(***************************************************************************)
(* Proofs about socks_server, for any number of clients, any requests,     *)
(* any amount of data and any size of the buffers.                         *)
(***************************************************************************)
EXTENDS SocksServer, SequenceTheorems, TLAPS

-----------------------------------------------------------------------------
(* Pieces of a stream: the units that follow the k-th.                     *)

Numbered(s, k) == s \in Seq(Nat) /\ \A i \in 1 .. Len(s) : s[i] = k + i

\* No units are a piece of any stream.
LEMMA EmptyNumbered ==
  ASSUME NEW k \in Nat
  PROVE  Numbered(<<>>, k) /\ Len(<<>>) = 0
BY DEF Numbered

\* The next unit continues a piece.
LEMMA AppendNumbered ==
  ASSUME NEW k \in Nat, NEW s, Numbered(s, k)
  PROVE  /\ Numbered(Append(s, k + Len(s) + 1), k)
         /\ Len(Append(s, k + Len(s) + 1)) = Len(s) + 1
<1>1. s \in Seq(Nat) /\ Len(s) \in Nat /\ k + Len(s) + 1 \in Nat
  BY LenProperties DEF Numbered
<1>2. /\ Append(s, k + Len(s) + 1) \in Seq(Nat)
      /\ Len(Append(s, k + Len(s) + 1)) = Len(s) + 1
      /\ \A i \in 1 .. Len(s) : Append(s, k + Len(s) + 1)[i] = s[i]
      /\ Append(s, k + Len(s) + 1)[Len(s) + 1] = k + Len(s) + 1
  BY <1>1, AppendProperties
<1> QED
  BY <1>1, <1>2 DEF Numbered

\* A piece is cut in two.
LEMMA CutNumbered ==
  ASSUME NEW k \in Nat, NEW s, Numbered(s, k), NEW n \in 1 .. Len(s)
  PROVE  /\ Numbered(SubSeq(s, 1, n), k) /\ Len(SubSeq(s, 1, n)) = n
         /\ Numbered(SubSeq(s, n + 1, Len(s)), k + n)
         /\ Len(SubSeq(s, n + 1, Len(s))) = Len(s) - n
<1>1. s \in Seq(Nat) /\ Len(s) \in Nat
  BY LenProperties DEF Numbered
<1>2. /\ SubSeq(s, 1, n) \in Seq(Nat)
      /\ Len(SubSeq(s, 1, n)) = n
      /\ \A i \in 1 .. n : SubSeq(s, 1, n)[i] = s[i]
  BY <1>1, SubSeqProperties
<1>3. /\ SubSeq(s, n + 1, Len(s)) \in Seq(Nat)
      /\ Len(SubSeq(s, n + 1, Len(s))) = Len(s) - n
      /\ \A i \in 1 .. Len(s) - n : SubSeq(s, n + 1, Len(s))[i] = s[n + i]
  BY <1>1, SubSeqProperties
<1> QED
  BY <1>1, <1>2, <1>3 DEF Numbered

\* Two pieces that meet are one.
LEMMA JoinNumbered ==
  ASSUME NEW k \in Nat, NEW s, Numbered(s, k), NEW t, Numbered(t, k + Len(s))
  PROVE  Numbered(s \o t, k) /\ Len(s \o t) = Len(s) + Len(t)
<1>1. s \in Seq(Nat) /\ t \in Seq(Nat) /\ Len(s) \in Nat /\ Len(t) \in Nat
  BY LenProperties DEF Numbered
<1>2. /\ s \o t \in Seq(Nat) /\ Len(s \o t) = Len(s) + Len(t)
      /\ \A i \in 1 .. Len(s) + Len(t) : (s \o t)[i] = IF i <= Len(s) THEN s[i] ELSE t[i - Len(s)]
  BY <1>1, ConcatProperties
<1> QED
  BY <1>1, <1>2 DEF Numbered

\* The first units of a stream are what Streams calls Upto.
LEMMA NumberedIsUpto ==
  ASSUME NEW s, Numbered(s, 0)
  PROVE  s = Channels!Upto(Len(s))
<1>1. s \in Seq(Nat) /\ Len(s) \in Nat /\ \A i \in 1 .. Len(s) : s[i] = i
  BY LenProperties DEF Numbered
<1>2. s = [i \in 1 .. Len(s) |-> s[i]]
  BY <1>1
<1> QED
  BY <1>1, <1>2 DEF Channels!Upto

-----------------------------------------------------------------------------
(***************************************************************************)
(* The inductive invariant.  What was sent in a direction is what the      *)
(* other peer got, what the buffer holds and what was not read, in this    *)
(* order, up to what a reset has discarded; a buffer that is read into is  *)
(* empty.                                                                  *)
(***************************************************************************)
StreamOf(g, h, q, n, p, r) ==
  /\ Numbered(g, 0)
  /\ Numbered(h, Len(g))
  /\ Numbered(q, Len(g) + Len(h))
  /\ Len(g) + Len(h) + Len(q) <= n
  /\ p # "reset" => Len(g) + Len(h) + Len(q) = n
  /\ r \in {"off", "read"} => h = <<>>
  /\ r = "write" => Len(h) > 0

Stream(c, d) == StreamOf(got[c][d], hold[c][d], inq[c][d], sent[c][d], peer[c][Source(d)], relay[c][d])

StreamInv == \A c \in Client, d \in Dir : Stream(c, d)

\* A child serves one client from its fork on, has a destination only when it
\* relays, and comes so far only with a request that is permitted.
ChildOf(s, r, p, l, g) ==
  /\ s # "none" => p["src"] # "away"
  /\ s = "relay" <=> p["dst"] # "away"
  /\ s # "relay" => \A d \in Dir : l[d] = "off" /\ g[d] = <<>>
  /\ s \in {"resolve", "connect", "bind", "relay"} => r.permitted
  /\ s = "bind" => r.cd = "bind"
  /\ s \in {"resolve", "connect"} => r.cd = "connect"

\* The replies that a client has when it has lost none.
Due(s, cd) ==
  IF s = "rejected" THEN <<Rejected>>
  ELSE IF s = "bind" \/ (s = "relay" /\ cd # "bind") THEN <<Accepted>>
  ELSE IF s = "relay" THEN <<Accepted, Accepted>> ELSE <<>>

\* What a client has heard: all of it while it is there, and all of it when it
\* has got data.
ReplyOf(s, r, p, g, y) ==
  /\ y \in {<<>>, <<Rejected>>, <<Accepted>>, <<Accepted, Accepted>>}
  /\ p["src"] # "reset" \/ g["down"] # <<>> => s \in {"zombie", "reaped"} \/ y = Due(s, r.cd)
  /\ y = <<Rejected>> => s = "rejected"
  /\ y = <<Accepted, Accepted>> => s = "relay" /\ r.cd = "bind"

Kept(c) ==
  /\ ChildOf(child[c], request[c], peer[c], relay[c], got[c])
  /\ ReplyOf(child[c], request[c], peer[c], got[c], reply[c])

ChildInv  == \A c \in Client : Kept(c)
ParentInv == ppc # "accept" => cur \in Client /\ child[cur] = "none" /\ peer[cur]["src"] # "away"

SocksInv == TypeOK /\ StreamInv /\ ParentInv /\ ChildInv

-----------------------------------------------------------------------------
(* Every step keeps the types.                                             *)

\* What a reply adds to a client's sequence of replies.
LEMMA SaysTypes ==
  ASSUME reply \in [Client -> Seq(90 .. 91)], NEW c \in Client, NEW code \in {Accepted, Rejected}, Says(c, code)
  PROVE  reply' \in [Client -> Seq(90 .. 91)]
<1>1. code \in 90 .. 91
  BY DEF Accepted, Rejected
<1>2. Append(reply[c], code) \in Seq(90 .. 91)
  BY <1>1, AppendProperties
<1> QED
  BY <1>2 DEF Says

\* Clients and destinations.
LEMMA PeerTypes ==
  ASSUME SocksInv, NEW c \in Client, PeerStep(c)
  PROVE  TypeOK'
<1> USE DEF SocksInv, TypeOK, Dir, parent, data
<1>1. CASE Connect(c)
  BY <1>1, RequestAssumption DEF Connect
<1>2. ASSUME NEW d \in Dir, PeerSend(c, d)
      PROVE  TypeOK'
  <2>1. /\ sent[c][d] + 1 \in Nat
        /\ Append(inq[c][d], sent[c][d] + 1) \in Seq(Nat)
    BY AppendProperties
  <2> QED
    BY <1>2, <2>1 DEF PeerSend
<1>3. ASSUME NEW p \in {"src", "dst"}, HalfClose(c, p)
      PROVE  TypeOK'
  BY <1>3 DEF HalfClose
<1>4. ASSUME NEW p \in {"src", "dst"}, PeerReset(c, p)
      PROVE  TypeOK'
  <2>1. <<>> \in Seq(Nat)
    BY EmptySeq
  <2> QED
    BY <1>4, <2>1 DEF PeerReset
<1> QED
  BY <1>1, <1>2, <1>3, <1>4 DEF PeerStep

\* The parent.
LEMMA ParentTypes ==
  ASSUME SocksInv, ParentStep
  PROVE  TypeOK'
<1> USE DEF SocksInv, TypeOK, ParentInv, parent, data, Started
<1>1. ASSUME NEW c \in Client, Accept(c)
      PROVE  TypeOK'
  BY <1>1 DEF Accept
<1>2. CASE ForkChild
  BY <1>2 DEF ForkChild
<1>3. CASE ForkFails
  BY <1>3 DEF ForkFails
<1>4. CASE WaitChild
  BY <1>4 DEF WaitChild, Zombie
<1>5. CASE Reap
  BY <1>5 DEF Reap, ReapAll
<1> QED
  BY <1>1, <1>2, <1>3, <1>4, <1>5 DEF ParentStep

\* The children.
LEMMA ChildTypes ==
  ASSUME SocksInv, NEW c \in Client, ChildStep(c)
  PROVE  TypeOK'
<1> USE DEF SocksInv, TypeOK, parent, data, Started
<1>1. CASE ReadRequest(c)
  <2>1. PICK r \in Read(c) :
          /\ request' = [request EXCEPT ![c] = r]
          /\ \/ Checked(r) /\ r.cd = "connect" /\ Goto(c, "resolve") /\ UNCHANGED reply
             \/ Checked(r) /\ r.cd # "connect" /\ Goto(c, "bind") /\ Says(c, Accepted)
             \/ ~Checked(r) /\ Goto(c, "rejected") /\ Says(c, Rejected)
    BY <1>1 DEF ReadRequest
  <2>2. r \in Request
    BY RequestAssumption DEF Read
  <2>3. reply' \in [Client -> Seq(90 .. 91)]
    BY <2>1, SaysTypes
  <2>4. UNCHANGED <<peer, data>>
    BY <1>1 DEF ReadRequest
  <2> QED
    BY <2>1, <2>2, <2>3, <2>4 DEF Goto
<1>2. CASE Fails(c)
  BY <1>2 DEF Fails, Die
<1>3. CASE Resolve(c)
  BY <1>3 DEF Resolve, Goto
<1>4. CASE DoConnect(c) \/ BindAccept(c)
  <2>1. Begin(c) /\ UNCHANGED <<request, sent, inq, hold, got>>
    BY <1>4 DEF DoConnect, BindAccept
  <2>2. reply' \in [Client -> Seq(90 .. 91)]
    BY <2>1, SaysTypes DEF Begin, Announced
  <2> QED
    BY <2>1, <2>2 DEF Begin, Goto, Dir
<1>5. CASE ConnectFails(c)
  BY <1>5 DEF ConnectFails, Goto
<1>6. ASSUME NEW d \in Dir, RelayRead(c, d)
      PROVE  TypeOK'
  <2>1. PICK n \in 1 .. Len(inq[c][d]) :
          /\ hold' = [hold EXCEPT ![c][d] = SubSeq(inq[c][d], 1, n)]
          /\ inq' = [inq EXCEPT ![c][d] = SubSeq(@, n + 1, Len(@))]
    BY <1>6 DEF RelayRead
  <2>2. inq[c][d] \in Seq(Nat) /\ Len(inq[c][d]) \in Nat /\ \A i \in 1 .. Len(inq[c][d]) : inq[c][d][i] \in Nat
    BY LenProperties
  <2>3. SubSeq(inq[c][d], 1, n) \in Seq(Nat)
    BY <2>2, SubSeqProperties
  <2>4. SubSeq(inq[c][d], n + 1, Len(inq[c][d])) \in Seq(Nat)
    BY <2>2, SubSeqProperties
  <2>5. /\ relay' = [relay EXCEPT ![c][d] = "write"]
        /\ UNCHANGED <<parent, child, request, reply, peer, sent, got>>
    BY <1>6 DEF RelayRead
  <2> QED
    BY <2>1, <2>3, <2>4, <2>5
<1>7. ASSUME NEW d \in Dir, RelayEnd(c, d)
      PROVE  TypeOK'
  BY <1>7 DEF RelayEnd, Ended
<1>8. ASSUME NEW d \in Dir, RelayWrite(c, d)
      PROVE  TypeOK'
  <2>1. <<>> \in Seq(Nat) /\ got[c][d] \o hold[c][d] \in Seq(Nat)
    BY EmptySeq, ConcatProperties
  <2> QED
    BY <1>8, <2>1 DEF RelayWrite, WritesAll
<1> QED
  BY <1>1, <1>2, <1>3, <1>4, <1>5, <1>6, <1>7, <1>8 DEF ChildStep

-----------------------------------------------------------------------------
(* What happens to one stream: a unit goes in, what is not read is lost,   *)
(* some of it is read, what was read is written, or nothing moves.         *)

\* The three pieces have lengths.
LEMMA StreamLengths ==
  ASSUME NEW g, NEW h, NEW q, NEW n \in Nat, NEW p, NEW r, StreamOf(g, h, q, n, p, r)
  PROVE  Len(g) \in Nat /\ Len(h) \in Nat /\ Len(q) \in Nat
BY LenProperties DEF StreamOf, Numbered

\* A unit is sent.
LEMMA UnitSent ==
  ASSUME NEW g, NEW h, NEW q, NEW n \in Nat, NEW p, NEW r, StreamOf(g, h, q, n, p, r), p # "reset"
  PROVE  StreamOf(g, h, Append(q, n + 1), n + 1, p, r)
<1> DEFINE k == Len(g) + Len(h)
<1>1. k \in Nat /\ Len(q) \in Nat /\ n = k + Len(q)
  BY StreamLengths DEF StreamOf
<1>2. Numbered(q, k)
  BY DEF StreamOf
<1>3. Numbered(Append(q, n + 1), k) /\ Len(Append(q, n + 1)) = Len(q) + 1
  BY <1>1, <1>2, AppendNumbered
<1> QED
  BY <1>1, <1>3 DEF StreamOf

\* What was not read is lost.
LEMMA RestLost ==
  ASSUME NEW g, NEW h, NEW q, NEW n \in Nat, NEW p, NEW r, StreamOf(g, h, q, n, p, r)
  PROVE  StreamOf(g, h, <<>>, n, "reset", r)
<1>1. Len(g) \in Nat /\ Len(h) \in Nat /\ Len(q) \in Nat
  BY StreamLengths
<1>2. Numbered(<<>>, Len(g) + Len(h)) /\ Len(<<>>) = 0
  BY <1>1, EmptyNumbered
<1> QED
  BY <1>1, <1>2 DEF StreamOf

\* A part of what there is is read.
LEMMA PartRead ==
  ASSUME NEW g, NEW h, NEW q, NEW n \in Nat, NEW p, StreamOf(g, h, q, n, p, "read"), NEW m \in 1 .. Len(q)
  PROVE  StreamOf(g, SubSeq(q, 1, m), SubSeq(q, m + 1, Len(q)), n, p, "write")
<1>1. Len(g) \in Nat /\ Len(q) \in Nat
  BY StreamLengths
<1>2. h = <<>> /\ Len(h) = 0
  BY EmptyNumbered DEF StreamOf
<1>3. Numbered(q, Len(g))
  BY <1>1, <1>2 DEF StreamOf
<1> DEFINE a == SubSeq(q, 1, m)
           b == SubSeq(q, m + 1, Len(q))
<1>4. Numbered(a, Len(g)) /\ Len(a) = m /\ Numbered(b, Len(g) + m) /\ Len(b) = Len(q) - m
  BY <1>1, <1>3, CutNumbered
<1> HIDE DEF a, b
<1>5. /\ Len(a) \in Nat /\ Len(a) > 0 /\ Len(b) \in Nat
      /\ Len(g) + Len(a) + Len(b) = Len(g) + Len(h) + Len(q)
  BY <1>1, <1>2, <1>4
<1>6. Numbered(g, 0) /\ Numbered(a, Len(g)) /\ Numbered(b, Len(g) + Len(a))
  BY <1>4 DEF StreamOf
<1>7. /\ Len(g) + Len(h) + Len(q) <= n
      /\ p # "reset" => Len(g) + Len(h) + Len(q) = n
  BY DEF StreamOf
<1>8. StreamOf(g, a, b, n, p, "write")
  BY <1>1, <1>2, <1>5, <1>6, <1>7 DEF StreamOf
<1> QED
  BY <1>8 DEF a, b

\* What was read is written.
LEMMA AllWritten ==
  ASSUME NEW g, NEW h, NEW q, NEW n \in Nat, NEW p, NEW r, StreamOf(g, h, q, n, p, r)
  PROVE  StreamOf(g \o h, <<>>, q, n, p, "read")
<1>1. Len(g) \in Nat /\ Len(h) \in Nat /\ Len(q) \in Nat
  BY StreamLengths
<1>2. Numbered(g, 0) /\ Numbered(h, 0 + Len(g))
  BY <1>1 DEF StreamOf
<1>3. Numbered(g \o h, 0) /\ Len(g \o h) = Len(g) + Len(h)
  BY <1>2, JoinNumbered
<1>4. Numbered(<<>>, Len(g \o h)) /\ Len(<<>>) = 0
  BY <1>1, <1>3, EmptyNumbered
<1> QED
  BY <1>1, <1>3, <1>4 DEF StreamOf

\* Only the connections and the relay change.
LEMMA NothingMoves ==
  ASSUME NEW g, NEW h, NEW q, NEW n \in Nat, NEW p, NEW r, StreamOf(g, h, q, n, p, r),
         NEW s, s # "reset" => p # "reset",
         NEW t, t \in {r, "end"} \/ (r = "off" /\ t = "read")
  PROVE  StreamOf(g, h, q, n, s, t)
BY DEF StreamOf

-----------------------------------------------------------------------------
(* Every step keeps the streams.                                           *)

\* A step that moves no data.
LEMMA StreamsStand ==
  ASSUME SocksInv, UNCHANGED <<sent, inq, hold, got>>, NEW c \in Client, NEW d \in Dir,
         peer'[c][Source(d)] # "reset" => peer[c][Source(d)] # "reset",
         \/ relay'[c][d] \in {relay[c][d], "end"}
         \/ relay[c][d] = "off" /\ relay'[c][d] = "read"
  PROVE  Stream(c, d)'
<1>1. Stream(c, d) /\ sent[c][d] \in Nat
  BY DEF SocksInv, StreamInv, TypeOK
<1> QED
  BY <1>1, NothingMoves DEF Stream

\* A direction that a step leaves alone.
LEMMA OtherStream ==
  ASSUME SocksInv, NEW c \in Client, NEW d \in Dir,
         sent'[c][d] = sent[c][d], inq'[c][d] = inq[c][d], hold'[c][d] = hold[c][d], got'[c][d] = got[c][d],
         peer'[c][Source(d)] = peer[c][Source(d)], relay'[c][d] = relay[c][d]
  PROVE  Stream(c, d)'
<1>1. Stream(c, d)
  BY DEF SocksInv, StreamInv
<1> QED
  BY <1>1 DEF Stream

\* What every step may use of a direction.
LEMMA StreamTypes ==
  ASSUME SocksInv, NEW c \in Client, NEW d \in Dir
  PROVE  Stream(c, d) /\ sent[c][d] \in Nat /\ Source(d) \in {"src", "dst"}
BY DEF SocksInv, StreamInv, TypeOK, Source

\* Clients and destinations.
LEMMA PeerStreams ==
  ASSUME SocksInv, NEW c \in Client, PeerStep(c)
  PROVE  StreamInv'
<1> USE DEF data
<1>t. TypeOK
  BY DEF SocksInv
<1>1. CASE Connect(c)
  <2>1. \A b \in Client, d \in Dir : peer'[b][Source(d)] # "reset" => peer[b][Source(d)] # "reset"
    BY <1>1, <1>t DEF Connect, Source, TypeOK
  <2> QED
    BY <1>1, <2>1, StreamsStand DEF Connect, StreamInv
<1>2. ASSUME NEW d \in Dir, PeerSend(c, d)
      PROVE  StreamInv'
  <2>1. /\ peer[c][Source(d)] = "open"
        /\ sent' = [sent EXCEPT ![c][d] = @ + 1]
        /\ inq' = [inq EXCEPT ![c][d] = Append(@, sent[c][d] + 1)]
        /\ UNCHANGED <<peer, relay, hold, got>>
    BY <1>2 DEF PeerSend, Ready
  <2>2. sent'[c][d] = sent[c][d] + 1 /\ inq'[c][d] = Append(inq[c][d], sent[c][d] + 1)
    BY <2>1, <1>t DEF TypeOK
  <2>3. Stream(c, d)'
    BY <2>1, <2>2, StreamTypes, UnitSent DEF Stream
  <2>4. ASSUME NEW b \in Client, NEW e \in Dir, ~(b = c /\ e = d)
        PROVE  Stream(b, e)'
    <3>1. sent'[b][e] = sent[b][e] /\ inq'[b][e] = inq[b][e]
      BY <2>1, <2>4, <1>t DEF TypeOK
    <3> QED
      BY <2>1, <3>1, OtherStream
  <2> QED
    BY <2>3, <2>4 DEF StreamInv
<1>3. ASSUME NEW p \in {"src", "dst"}, HalfClose(c, p)
      PROVE  StreamInv'
  <2>1. \A b \in Client, d \in Dir : peer'[b][Source(d)] # "reset" => peer[b][Source(d)] # "reset"
    BY <1>3, <1>t DEF HalfClose, Source, TypeOK
  <2> QED
    BY <1>3, <2>1, StreamsStand DEF HalfClose, StreamInv
<1>4. ASSUME NEW p \in {"src", "dst"}, PeerReset(c, p)
      PROVE  StreamInv'
  <2>1. /\ peer' = [peer EXCEPT ![c][p] = "reset"]
        /\ inq' = [inq EXCEPT ![c] = [d \in Dir |-> IF Source(d) = p THEN <<>> ELSE @[d]]]
        /\ UNCHANGED <<sent, relay, hold, got>>
    BY <1>4 DEF PeerReset
  <2>2. ASSUME NEW b \in Client, NEW e \in Dir
        PROVE  Stream(b, e)'
    <3>1. CASE b = c /\ Source(e) = p
      <4>1. inq'[b][e] = <<>> /\ peer'[b][Source(e)] = "reset"
        BY <2>1, <3>1, <1>t DEF TypeOK
      <4> QED
        BY <2>1, <4>1, StreamTypes, RestLost DEF Stream
    <3>2. CASE ~(b = c /\ Source(e) = p)
      <4>1. Source(e) \in {"src", "dst"}
        BY DEF Source
      <4>2. inq'[b][e] = inq[b][e] /\ peer'[b][Source(e)] = peer[b][Source(e)]
        BY <2>1, <3>2, <4>1, <1>t DEF TypeOK
      <4> QED
        BY <2>1, <4>2, OtherStream
    <3> QED
      BY <3>1, <3>2
  <2> QED
    BY <2>2 DEF StreamInv
<1> QED
  BY <1>1, <1>2, <1>3, <1>4 DEF PeerStep

\* The parent.
LEMMA ParentStreams ==
  ASSUME SocksInv, ParentStep
  PROVE  StreamInv'
<1>1. UNCHANGED <<peer, data>>
  BY DEF ParentStep, Accept, ForkChild, ForkFails, WaitChild, Reap
<1> QED
  BY <1>1, StreamsStand DEF data, StreamInv

\* The children.
LEMMA ChildStreams ==
  ASSUME SocksInv, NEW c \in Client, ChildStep(c)
  PROVE  StreamInv'
<1> USE DEF data
<1>t. TypeOK
  BY DEF SocksInv
<1>1. CASE ReadRequest(c) \/ Fails(c) \/ Resolve(c) \/ ConnectFails(c)
  <2>1. UNCHANGED <<peer, data>>
    BY <1>1 DEF ReadRequest, Fails, Resolve, ConnectFails
  <2> QED
    BY <2>1, StreamsStand DEF StreamInv
<1>2. CASE DoConnect(c) \/ BindAccept(c)
  <2>1. /\ child[c] \in {"connect", "bind"}
        /\ peer' = [peer EXCEPT ![c]["dst"] = "open"]
        /\ relay' = [relay EXCEPT ![c] = [d \in Dir |-> "read"]]
        /\ UNCHANGED <<sent, inq, hold, got>>
    BY <1>2 DEF DoConnect, BindAccept, Begin
  <2>2. peer[c]["dst"] = "away" /\ \A d \in Dir : relay[c][d] = "off"
    <3>1. /\ child[c] = "relay" <=> peer[c]["dst"] # "away"
          /\ child[c] # "relay" => \A d \in Dir : relay[c][d] = "off" /\ got[c][d] = <<>>
      BY DEF SocksInv, ChildInv, Kept, ChildOf
    <3> QED
      BY <2>1, <3>1
  <2>3. \A b \in Client, d \in Dir : peer'[b][Source(d)] # "reset" => peer[b][Source(d)] # "reset"
    BY <2>1, <2>2, <1>t DEF Source, TypeOK
  <2>4. \A b \in Client, d \in Dir : relay'[b][d] = relay[b][d] \/ (relay[b][d] = "off" /\ relay'[b][d] = "read")
    BY <2>1, <2>2, <1>t DEF TypeOK
  <2> QED
    BY <2>1, <2>3, <2>4, StreamsStand DEF StreamInv
<1>3. ASSUME NEW d \in Dir, RelayRead(c, d)
      PROVE  StreamInv'
  <2>1. PICK n \in 1 .. Len(inq[c][d]) :
          /\ hold' = [hold EXCEPT ![c][d] = SubSeq(inq[c][d], 1, n)]
          /\ inq' = [inq EXCEPT ![c][d] = SubSeq(@, n + 1, Len(@))]
    BY <1>3 DEF RelayRead
  <2>2. /\ relay[c][d] = "read"
        /\ relay' = [relay EXCEPT ![c][d] = "write"]
        /\ UNCHANGED <<peer, sent, got>>
    BY <1>3 DEF RelayRead, Relaying
  <2>3. /\ hold'[c][d] = SubSeq(inq[c][d], 1, n) /\ relay'[c][d] = "write"
        /\ inq'[c][d] = SubSeq(inq[c][d], n + 1, Len(inq[c][d]))
    BY <2>1, <2>2, <1>t DEF TypeOK
  <2>4. Stream(c, d)'
    BY <2>2, <2>3, StreamTypes, PartRead DEF Stream
  <2>5. ASSUME NEW b \in Client, NEW e \in Dir, ~(b = c /\ e = d)
        PROVE  Stream(b, e)'
    <3>1. hold'[b][e] = hold[b][e] /\ inq'[b][e] = inq[b][e] /\ relay'[b][e] = relay[b][e]
      BY <2>1, <2>2, <2>5, <1>t DEF TypeOK
    <3> QED
      BY <2>2, <3>1, OtherStream
  <2> QED
    BY <2>4, <2>5 DEF StreamInv
<1>4. ASSUME NEW d \in Dir, RelayEnd(c, d)
      PROVE  StreamInv'
  <2>1. \A b \in Client, e \in Dir : relay'[b][e] \in {relay[b][e], "end"}
    BY <1>4, <1>t DEF RelayEnd, Ended, TypeOK
  <2>2. UNCHANGED <<peer, sent, inq, hold, got>>
    BY <1>4 DEF RelayEnd
  <2> QED
    BY <2>1, <2>2, StreamsStand DEF StreamInv
<1>5. ASSUME NEW d \in Dir, RelayWrite(c, d)
      PROVE  StreamInv'
  <2>1. /\ got' = [got EXCEPT ![c][d] = @ \o hold[c][d]]
        /\ hold' = [hold EXCEPT ![c][d] = <<>>]
        /\ relay' = [relay EXCEPT ![c][d] = "read"]
        /\ UNCHANGED <<peer, sent, inq>>
    BY <1>5 DEF RelayWrite, WritesAll
  <2>2. got'[c][d] = got[c][d] \o hold[c][d] /\ hold'[c][d] = <<>> /\ relay'[c][d] = "read"
    BY <2>1, <1>t DEF TypeOK
  <2>3. Stream(c, d)'
    <3>1. StreamOf(got[c][d] \o hold[c][d], <<>>, inq[c][d], sent[c][d], peer[c][Source(d)], "read")
      <4>1. StreamOf(got[c][d], hold[c][d], inq[c][d], sent[c][d], peer[c][Source(d)], relay[c][d])
        BY StreamTypes DEF Stream
      <4> QED
        BY <4>1, StreamTypes, AllWritten
    <3> QED
      BY <2>1, <2>2, <3>1 DEF Stream
  <2>4. ASSUME NEW b \in Client, NEW e \in Dir, ~(b = c /\ e = d)
        PROVE  Stream(b, e)'
    <3>1. hold'[b][e] = hold[b][e] /\ got'[b][e] = got[b][e] /\ relay'[b][e] = relay[b][e]
      BY <2>1, <2>4, <1>t DEF TypeOK
    <3> QED
      BY <2>1, <3>1, OtherStream
  <2> QED
    BY <2>3, <2>4 DEF StreamInv
<1> QED
  BY <1>1, <1>2, <1>3, <1>4, <1>5 DEF ChildStep

-----------------------------------------------------------------------------
(* Every step keeps what holds of the children and of their clients.       *)

\* The sequences of replies are those of their codes, and differ.
LEMMA Codes ==
  /\ Append(<<>>, Rejected) = <<Rejected>> /\ Append(<<>>, Accepted) = <<Accepted>>
  /\ Append(<<Accepted>>, Accepted) = <<Accepted, Accepted>>
  /\ <<>> # <<Rejected>> /\ <<>> # <<Accepted>> /\ <<>> # <<Accepted, Accepted>>
  /\ <<Accepted>> # <<Rejected>> /\ <<Accepted, Accepted>> # <<Rejected>> /\ <<Accepted, Accepted>> # <<Accepted>>
<1> USE DEF Accepted, Rejected
<1>1. Append(<<Accepted>>, Accepted) = <<Accepted, Accepted>>
  <2> DEFINE s == Append(<<Accepted>>, Accepted)
             t == <<Accepted, Accepted>>
  <2>1. <<Accepted>> \in Seq(Nat) /\ Len(<<Accepted>>) = 1 /\ <<Accepted>>[1] = Accepted /\ Accepted \in Nat
    OBVIOUS
  <2>2. s \in Seq(Nat) /\ Len(s) = 2 /\ s[1] = Accepted /\ s[2] = Accepted
    BY <2>1, AppendProperties
  <2>3. t \in Seq(Nat) /\ Len(t) = 2 /\ t[1] = Accepted /\ t[2] = Accepted
    OBVIOUS
  <2> HIDE DEF s, t
  <2>4. Len(s) = Len(t) /\ \A i \in 1 .. Len(s) : s[i] = t[i]
    BY <2>2, <2>3
  <2>5. s = t
    BY <2>2, <2>3, <2>4, SeqEqual
  <2> QED
    BY <2>5 DEF s, t
<1> QED
  BY <1>1

\* A step of one client or of its child is none of the others.
LEMMA OthersAlone ==
  ASSUME SocksInv, NEW c \in Client, PeerStep(c) \/ ChildStep(c), NEW b \in Client, b # c
  PROVE  Kept(b)'
<1>1. /\ child'[b] = child[b] /\ request'[b] = request[b] /\ reply'[b] = reply[b]
      /\ peer'[b] = peer[b] /\ relay'[b] = relay[b] /\ got'[b] = got[b]
  <2> USE DEF SocksInv, TypeOK, parent, data
  <2>1. CASE PeerStep(c)
    BY <2>1 DEF PeerStep, Connect, PeerSend, HalfClose, PeerReset
  <2>2. CASE ReadRequest(c)
    BY <2>2 DEF ReadRequest, Goto, Says
  <2>3. CASE Fails(c) \/ Resolve(c) \/ ConnectFails(c)
    BY <2>3 DEF Fails, Die, Resolve, ConnectFails, Goto
  <2>4. CASE DoConnect(c) \/ BindAccept(c)
    BY <2>4 DEF DoConnect, BindAccept, Begin, Goto, Announced, Says
  <2>5. CASE \E d \in Dir : RelayRead(c, d) \/ RelayEnd(c, d) \/ RelayWrite(c, d)
    BY <2>5 DEF RelayRead, RelayEnd, RelayWrite
  <2> QED
    BY <2>1, <2>2, <2>3, <2>4, <2>5 DEF ChildStep
<1>2. Kept(b)
  BY DEF SocksInv, ChildInv
<1> QED
  BY <1>1, <1>2 DEF Kept

\* Clients and destinations.
LEMMA PeerKept ==
  ASSUME SocksInv, NEW c \in Client, PeerStep(c)
  PROVE  ParentInv' /\ ChildInv'
<1>1. TypeOK /\ ParentInv /\ Kept(c)
  BY DEF SocksInv, ChildInv
<1> USE DEF TypeOK, parent, data
<1>2. UNCHANGED <<ppc, cur, child, reply, relay, got>>
  BY DEF PeerStep, Connect, PeerSend, HalfClose, PeerReset
<1>3. \/ peer[c]["src"] = "away" /\ peer' = [peer EXCEPT ![c]["src"] = "open"]
      \/ UNCHANGED <<peer, request>>
      \/ /\ UNCHANGED request
         /\ \E p \in {"src", "dst"}, s \in {"half", "reset"} :
              peer[c][p] \in {"open", "half"} /\ peer' = [peer EXCEPT ![c][p] = s]
  <2>1. CASE Connect(c) \/ \E d \in Dir : PeerSend(c, d)
    BY <2>1 DEF Connect, PeerSend
  <2>2. CASE \E p \in {"src", "dst"} : HalfClose(c, p) \/ PeerReset(c, p)
    BY <2>2 DEF HalfClose, PeerReset
  <2> QED
    BY <2>1, <2>2 DEF PeerStep
<1>4. /\ \A b \in Client : peer[b]["src"] # "away" => peer'[b]["src"] # "away"
      /\ peer'[c]["dst"] = "away" <=> peer[c]["dst"] = "away"
      /\ peer'[c]["src"] # "reset" => peer[c]["src"] # "reset"
  <2>1. CASE peer[c]["src"] = "away" /\ peer' = [peer EXCEPT ![c]["src"] = "open"]
    BY <1>1, <2>1
  <2>2. ASSUME NEW p \in {"src", "dst"}, NEW s \in {"half", "reset"},
               peer[c][p] \in {"open", "half"}, peer' = [peer EXCEPT ![c][p] = s]
        PROVE  <1>4!1 /\ <1>4!2 /\ <1>4!3
    <3>1. \A b \in Client, e \in {"src", "dst"} : peer'[b][e] = IF b = c /\ e = p THEN s ELSE peer[b][e]
      BY <1>1, <2>2
    <3> QED
      BY <1>1, <2>2, <3>1
  <2> QED
    BY <1>3, <2>1, <2>2
<1>5. ParentInv'
  BY <1>1, <1>2, <1>4 DEF ParentInv
<1>6. request'[c] = request[c] \/ child[c] = "none"
  BY <1>1, <1>3 DEF Kept, ChildOf
<1>7. Kept(c)'
  BY <1>1, <1>2, <1>4, <1>6 DEF Kept, ChildOf, ReplyOf, Due
<1> QED
  BY <1>5, <1>7, OthersAlone DEF ChildInv

\* The parent.
LEMMA ParentKept ==
  ASSUME SocksInv, ParentStep
  PROVE  ParentInv' /\ ChildInv'
<1>1. TypeOK /\ ParentInv /\ ChildInv
  BY DEF SocksInv
<1>2. UNCHANGED <<request, reply, peer, relay, got>>
  BY DEF ParentStep, Accept, ForkChild, ForkFails, WaitChild, Reap, data
<1>3. \A b \in Client : \/ child'[b] = child[b]
                        \/ child[b] = "none" /\ child'[b] = "request" /\ peer[b]["src"] # "away"
                        \/ child[b] = "zombie" /\ child'[b] = "reaped"
  BY <1>1 DEF ParentStep, Accept, ForkChild, ForkFails, WaitChild, Reap, ReapAll, Zombie, TypeOK, ParentInv
<1>4. ASSUME NEW b \in Client
      PROVE  Kept(b)'
  <2>1. Kept(b)
    BY <1>1 DEF ChildInv
  <2> QED
    BY <1>2, <1>3, <2>1, Codes DEF Kept, ChildOf, ReplyOf, Due
<1>5. ParentInv'
  <2> USE DEF ParentInv, TypeOK, Zombie
  <2>1. CASE \E c \in Client : Accept(c)
    BY <1>1, <2>1 DEF Accept
  <2>2. CASE ForkChild \/ Reap
    BY <1>1, <2>2 DEF ForkChild, Reap
  <2>3. CASE ForkFails \/ WaitChild
    BY <1>1, <2>3 DEF ForkFails, WaitChild
  <2> QED
    BY <2>1, <2>2, <2>3 DEF ParentStep
<1> QED
  BY <1>4, <1>5 DEF ChildInv

\* The children.
LEMMA ChildKept ==
  ASSUME SocksInv, NEW c \in Client, ChildStep(c)
  PROVE  ParentInv' /\ ChildInv'
<1>1. TypeOK /\ ParentInv /\ Kept(c)
  BY DEF SocksInv, ChildInv
<1> USE DEF parent, data
<1>2. /\ child[c] # "none"
      /\ UNCHANGED <<ppc, cur>>
      /\ \A b \in Client : b # c => child'[b] = child[b]
      /\ \A b \in Client : peer'[b]["src"] = peer[b]["src"]
  <2> USE <1>1 DEF TypeOK
  <2>1. CASE ReadRequest(c)
    BY <2>1 DEF ReadRequest, Goto
  <2>2. CASE Fails(c) \/ Resolve(c) \/ ConnectFails(c)
    BY <2>2 DEF Fails, Die, Resolve, ConnectFails, Goto
  <2>3. CASE DoConnect(c) \/ BindAccept(c)
    <3>1. /\ child[c] # "none" /\ child' = [child EXCEPT ![c] = "relay"]
          /\ UNCHANGED <<ppc, cur>> /\ peer' = [peer EXCEPT ![c]["dst"] = "open"]
      BY <2>3 DEF DoConnect, BindAccept, Begin, Goto
    <3> QED
      BY <3>1
  <2>4. CASE \E d \in Dir : RelayRead(c, d) \/ RelayEnd(c, d) \/ RelayWrite(c, d)
    BY <2>4 DEF RelayRead, RelayEnd, RelayWrite, Relaying
  <2> QED
    BY <2>1, <2>2, <2>3, <2>4 DEF ChildStep
<1>3. ParentInv'
  BY <1>1, <1>2 DEF ParentInv
<1>4. Kept(c)'
  <2>1. CASE ReadRequest(c)
    <3>1. PICK r \in Read(c) :
            /\ request' = [request EXCEPT ![c] = r]
            /\ \/ Checked(r) /\ r.cd = "connect" /\ Goto(c, "resolve") /\ UNCHANGED reply
               \/ Checked(r) /\ r.cd # "connect" /\ Goto(c, "bind") /\ Says(c, Accepted)
               \/ ~Checked(r) /\ Goto(c, "rejected") /\ Says(c, Rejected)
      BY <2>1 DEF ReadRequest
    <3>2. r \in Request
      BY <1>1, RequestAssumption DEF Read, TypeOK
    <3>3. /\ child[c] = "request" /\ reply[c] = <<>> /\ peer[c]["src"] # "reset"
          /\ UNCHANGED <<peer, relay, got>>
      BY <1>1, <2>1 DEF ReadRequest, Kept, ReplyOf, Due
    <3>4. request'[c] = r
      BY <1>1, <3>1 DEF TypeOK
    <3>5. \/ r.permitted /\ r.cd = "connect" /\ child'[c] = "resolve" /\ reply'[c] = <<>>
          \/ r.permitted /\ r.cd = "bind" /\ child'[c] = "bind" /\ reply'[c] = <<Accepted>>
          \/ child'[c] = "rejected" /\ reply'[c] = <<Rejected>>
      BY <1>1, <3>1, <3>2, <3>3, Codes DEF TypeOK, Goto, Says, Checked, Request
    <3> QED
      BY <1>1, <3>3, <3>4, <3>5, Codes DEF Kept, ChildOf, ReplyOf, Due
  <2>2. CASE Fails(c) \/ Resolve(c) \/ ConnectFails(c)
    <3>1. /\ UNCHANGED <<request, reply, peer, relay, got>>
          /\ \/ child[c] \in {"request", "bind", "connect"} /\ child'[c] = "zombie" /\ peer[c]["src"] = "reset"
             \/ child[c] \in {"resolve", "connect"} /\ child'[c] \in {"connect", "silent"}
      BY <1>1, <2>2 DEF Fails, Die, Resolve, ConnectFails, Goto, TypeOK
    <3> QED
      BY <1>1, <3>1, Codes DEF Kept, ChildOf, ReplyOf, Due
  <2>3. CASE DoConnect(c) \/ BindAccept(c)
    <3>1. /\ UNCHANGED <<request, got>>
          /\ \/ child[c] = "connect"
             \/ child[c] = "bind"
          /\ child'[c] = "relay" /\ peer'[c]["src"] = peer[c]["src"] /\ peer'[c]["dst"] = "open"
          /\ reply'[c] = IF peer[c]["src"] = "reset" THEN reply[c] ELSE Append(reply[c], Accepted)
      <4>1. /\ child[c] \in {"connect", "bind"} /\ child' = [child EXCEPT ![c] = "relay"]
            /\ peer' = [peer EXCEPT ![c]["dst"] = "open"]
            /\ reply' = [reply EXCEPT ![c] = IF peer[c]["src"] = "reset" THEN @ ELSE Append(@, Accepted)]
            /\ UNCHANGED <<request, got>>
        BY <2>3 DEF DoConnect, BindAccept, Begin, Goto, Announced, Says
      <4> QED
        BY <1>1, <4>1 DEF TypeOK
    <3>2. got[c]["down"] = <<>>
      BY <1>1, <3>1 DEF Kept, ChildOf, Dir
    <3>3. \/ child[c] = "connect" /\ request[c].cd # "bind" /\ (peer[c]["src"] # "reset" => reply[c] = <<>>)
          \/ child[c] = "bind" /\ request[c].cd = "bind" /\ (peer[c]["src"] # "reset" => reply[c] = <<Accepted>>)
      BY <1>1, <3>1 DEF Kept, ChildOf, ReplyOf, Due
    <3> QED
      BY <1>1, <3>1, <3>2, <3>3, Codes DEF Kept, ChildOf, ReplyOf, Due
  <2>4. CASE \E d \in Dir : RelayRead(c, d) \/ RelayEnd(c, d) \/ RelayWrite(c, d)
    <3>1. /\ UNCHANGED <<child, request, reply, peer>>
          /\ child[c] = "relay"
          /\ got'[c]["down"] = got[c]["down"] \/ peer[c]["src"] # "reset"
      <4>1. CASE \E d \in Dir : RelayRead(c, d) \/ RelayEnd(c, d)
        BY <4>1 DEF RelayRead, RelayEnd, Relaying
      <4>2. ASSUME NEW d \in Dir, RelayWrite(c, d)
            PROVE  <3>1!1 /\ <3>1!2 /\ <3>1!3
        <5>1. /\ child[c] = "relay" /\ peer[c][Sink(d)] # "reset"
              /\ got' = [got EXCEPT ![c][d] = @ \o WritesAll(hold[c][d])]
              /\ UNCHANGED <<child, request, reply, peer>>
          BY <4>2 DEF RelayWrite, Relaying
        <5>2. CASE d = "up"
          BY <1>1, <5>1, <5>2 DEF TypeOK, Dir
        <5>3. CASE d = "down"
          BY <5>1, <5>3 DEF Sink
        <5> QED
          BY <5>1, <5>2, <5>3 DEF Dir
      <4> QED
        BY <2>4, <4>1, <4>2
    <3> QED
      BY <1>1, <3>1 DEF Kept, ChildOf, ReplyOf, Due
  <2> QED
    BY <2>1, <2>2, <2>3, <2>4 DEF ChildStep
<1> QED
  BY <1>3, <1>4, OthersAlone DEF ChildInv

-----------------------------------------------------------------------------
(* The theorems.                                                           *)

\* At the start nobody is there and nothing was sent.
LEMMA InitSocks ==
  ASSUME Init
  PROVE  SocksInv
<1>1. <<>> \in Seq(Nat) /\ <<>> \in Seq(90 .. 91)
  BY EmptySeq
<1>2. TypeOK
  BY <1>1 DEF Init, TypeOK, Request, NoRequest, Started, Dir
<1>3. StreamInv
  <2> SUFFICES ASSUME NEW c \in Client, NEW d \in Dir PROVE Stream(c, d)
    BY DEF StreamInv
  <2>1. got[c][d] = <<>> /\ hold[c][d] = <<>> /\ inq[c][d] = <<>> /\ sent[c][d] = 0 /\ relay[c][d] = "off"
    BY DEF Init
  <2>2. Numbered(<<>>, 0) /\ Len(<<>>) = 0
    BY EmptyNumbered
  <2> QED
    BY <2>1, <2>2 DEF Stream, StreamOf
<1>4. ParentInv
  BY DEF Init, ParentInv
<1>5. ChildInv
  BY Codes DEF Init, ChildInv, Kept, ChildOf, ReplyOf, Due
<1> QED
  BY <1>2, <1>3, <1>4, <1>5 DEF SocksInv

\* Whatever the clients, the destinations and the signals do, every unit that was
\* sent is in one place, in order, and the replies follow the child's progress
\* (do_socks4, do_read_src, do_write_dst and their mirrors).
THEOREM SocksInvariant == Spec => []SocksInv
<1>1. Init => SocksInv
  BY InitSocks
<1>2. SocksInv /\ [Next]_vars => SocksInv'
  <2> SUFFICES ASSUME SocksInv, [Next]_vars PROVE SocksInv'
    OBVIOUS
  <2>1. CASE ParentStep
    BY <2>1, ParentTypes, ParentStreams, ParentKept DEF SocksInv
  <2>2. ASSUME NEW c \in Client, PeerStep(c)
        PROVE  SocksInv'
    BY <2>2, PeerTypes, PeerStreams, PeerKept DEF SocksInv
  <2>3. ASSUME NEW c \in Client, ChildStep(c)
        PROVE  SocksInv'
    BY <2>3, ChildTypes, ChildStreams, ChildKept DEF SocksInv
  <2>4. CASE UNCHANGED vars
    BY <2>4 DEF vars, parent, data, SocksInv, TypeOK, StreamInv, Stream, ParentInv, ChildInv, Kept
  <2> QED
    BY <2>1, <2>2, <2>3, <2>4 DEF Next
<1> QED
  BY <1>1, <1>2, PTL DEF Spec

\* How long the replies are, and in which of them is no refusal.
LEMMA CodesIn ==
  /\ Len(<<Accepted>>) = 1 /\ Len(<<Accepted, Accepted>>) = 2
  /\ Rejected \notin ToSet(<<>>) /\ Rejected \notin ToSet(<<Accepted>>) /\ Rejected \notin ToSet(<<Accepted, Accepted>>)
BY DEF ToSet, Accepted, Rejected

\* What the invariant says of the replies of each child is RepliesRight.
LEMMA RepliesFollow ==
  ASSUME SocksInv
  PROVE  RepliesRight
<1>1. TypeOK
  BY DEF SocksInv
<1>2. ASSUME NEW c \in Client
      PROVE  /\ reply[c] \in {<<>>, <<Rejected>>, <<Accepted>>}
                  \/ (reply[c] = <<Accepted, Accepted>> /\ request[c].cd = "bind")
             /\ got[c]["down"] # <<>> => Len(reply[c]) = (IF request[c].cd = "bind" THEN 2 ELSE 1)
             /\ peer[c]["dst"] # "away" => request[c].permitted /\ Rejected \notin ToSet(reply[c])
  <2>1. /\ ChildOf(child[c], request[c], peer[c], relay[c], got[c])
        /\ ReplyOf(child[c], request[c], peer[c], got[c], reply[c])
    BY DEF SocksInv, ChildInv, Kept
  <2>2. /\ reply[c] \in {<<>>, <<Rejected>>, <<Accepted>>, <<Accepted, Accepted>>}
        /\ reply[c] = <<Accepted, Accepted>> => request[c].cd = "bind"
        /\ reply[c] = <<Rejected>> => child[c] = "rejected"
    BY <2>1 DEF ReplyOf
  <2>3. ASSUME got[c]["down"] # <<>>
        PROVE  Len(reply[c]) = IF request[c].cd = "bind" THEN 2 ELSE 1
    <3>1. child[c] = "relay"
      BY <2>1, <2>3 DEF ChildOf, Dir
    <3>2. reply[c] = IF request[c].cd = "bind" THEN <<Accepted, Accepted>> ELSE <<Accepted>>
      BY <2>1, <2>3, <3>1 DEF ReplyOf, Due
    <3> QED
      BY <3>2, CodesIn
  <2>4. ASSUME peer[c]["dst"] # "away"
        PROVE  request[c].permitted /\ Rejected \notin ToSet(reply[c])
    <3>1. child[c] = "relay" /\ request[c].permitted
      BY <2>1, <2>4 DEF ChildOf
    <3> QED
      BY <2>2, <3>1, CodesIn
  <2> QED
    BY <2>2, <2>3, <2>4
<1> QED
  BY <1>1, <1>2 DEF RepliesRight

\* No order of requests, resets and replies shows a client the wrong ones: a
\* refusal is the only answer, BIND is answered twice before any data, and only a
\* permitted request is connected (do_request, do_connect, do_bind, firewall.check).
THEOREM ClientsHearRight == Spec => []RepliesRight
<1>1. SocksInv => RepliesRight
  BY RepliesFollow
<1> QED
  BY <1>1, SocksInvariant, PTL

-----------------------------------------------------------------------------
(* The relay implements its channels.                                      *)

Pairs(S, T, f) == [x \in S \X T |-> f[x[1]][x[2]]]

\* f and h differ in the pair <<a, b>>, for which h has v.
DifferAt(S, T, f, h, a, b, v) == \A x \in S, y \in T : h[x][y] = IF x = a /\ y = b THEN v ELSE f[x][y]

Sent == Pairs(Client, Dir, sent)
Got  == Pairs(Client, Dir, got)

\* A table of pairs, when one of them changes.
LEMMA PairUpdate ==
  ASSUME NEW S, NEW T, NEW f, NEW h, NEW a \in S, NEW b \in T, NEW v,
         DifferAt(S, T, f, h, a, b, v)
  PROVE  Pairs(S, T, h) = [Pairs(S, T, f) EXCEPT ![<<a, b>>] = v]
<1> DEFINE F == Pairs(S, T, f)
           H == Pairs(S, T, h)
<1>1. ASSUME NEW p \in S \X T
      PROVE  H[p] = IF p = <<a, b>> THEN v ELSE F[p]
  <2>1. PICK x \in S, y \in T : p = <<x, y>>
    OBVIOUS
  <2>2. p[1] = x /\ p[2] = y /\ (p = <<a, b>> <=> x = a /\ y = b)
    BY <2>1
  <2>3. H[p] = h[x][y] /\ F[p] = f[x][y]
    BY <2>2 DEF Pairs
  <2> QED
    BY <2>2, <2>3 DEF DifferAt
<1>2. H = [p \in S \X T |-> H[p]] /\ F = [p \in S \X T |-> F[p]]
  BY DEF Pairs
<1> HIDE DEF F, H
<1>3. H = [F EXCEPT ![<<a, b>>] = v]
  BY <1>1, <1>2
<1> QED
  BY <1>3 DEF F, H

\* What the actions of Streams say of the relay.
LEMMA ChannelActions ==
  /\ Channels!Init <=> Sent = [x \in Client \X Dir |-> 0] /\ Got = [x \in Client \X Dir |-> <<>>]
  /\ \A x : Channels!Send(x) <=> Sent' = [Sent EXCEPT ![x] = @ + 1] /\ Got' = Got
  /\ \A x : Channels!Deliver(x) <=>
       /\ \E n \in Len(Got[x]) + 1 .. Sent[x] : Got' = [Got EXCEPT ![x] = Channels!Upto(n)]
       /\ Sent' = Sent
BY DEF Channels!Init, Channels!Send, Channels!Deliver, Sent, Got, Pairs

\* A unit is sent.
LEMMA SendsUnit ==
  ASSUME SocksInv, NEW c \in Client, NEW d \in Dir, PeerSend(c, d)
  PROVE  Channels!Send(<<c, d>>)
<1>1. sent' = [sent EXCEPT ![c][d] = @ + 1] /\ got' = got
  BY DEF PeerSend
<1>2. DifferAt(Client, Dir, sent, sent', c, d, sent[c][d] + 1)
  BY <1>1 DEF SocksInv, TypeOK, DifferAt
<1>3. Sent' = [Sent EXCEPT ![<<c, d>>] = sent[c][d] + 1] /\ Sent[<<c, d>>] = sent[c][d]
  <2>1. Sent' = [Sent EXCEPT ![<<c, d>>] = sent[c][d] + 1]
    BY <1>2, PairUpdate DEF Sent
  <2>2. Sent[<<c, d>>] = sent[c][d]
    BY DEF Sent, Pairs
  <2> QED
    BY <2>1, <2>2
<1>4. Got' = Got
  BY <1>1 DEF Got
<1> QED
  BY <1>3, <1>4, ChannelActions

\* What is written together with what was passed on is all units up to one that was
\* sent.
LEMMA WrittenIsUpto ==
  ASSUME NEW g, NEW h, NEW q, NEW n \in Nat, NEW p, StreamOf(g, h, q, n, p, "write")
  PROVE  \E m \in Len(g) + 1 .. n : g \o h = Channels!Upto(m)
<1>1. Len(g) \in Nat /\ Len(h) \in Nat /\ Len(q) \in Nat
  BY StreamLengths
<1>2. /\ Numbered(g, 0) /\ Numbered(h, 0 + Len(g)) /\ Len(h) > 0
      /\ Len(g) + Len(h) + Len(q) <= n
  BY <1>1 DEF StreamOf
<1>3. Len(g) + Len(h) \in Len(g) + 1 .. n
  BY <1>1, <1>2
<1>4. Numbered(g \o h, 0) /\ Len(g \o h) = Len(g) + Len(h)
  BY <1>2, JoinNumbered
<1>5. g \o h = Channels!Upto(Len(g) + Len(h))
  BY <1>4, NumberedIsUpto, Zenon
<1> QED
  BY <1>3, <1>5

\* What was read is passed on: the other side then has all units up to it.
LEMMA DeliversRead ==
  ASSUME SocksInv, NEW c \in Client, NEW d \in Dir, RelayWrite(c, d)
  PROVE  Channels!Deliver(<<c, d>>)
<1>1. /\ got' = [got EXCEPT ![c][d] = @ \o hold[c][d]]
      /\ sent' = sent /\ relay[c][d] = "write"
  BY DEF RelayWrite, WritesAll, Relaying
<1>2. /\ StreamOf(got[c][d], hold[c][d], inq[c][d], sent[c][d], peer[c][Source(d)], "write")
      /\ sent[c][d] \in Nat
  BY <1>1, StreamTypes DEF Stream
<1>3. PICK m \in Len(got[c][d]) + 1 .. sent[c][d] : got[c][d] \o hold[c][d] = Channels!Upto(m)
  BY <1>2, WrittenIsUpto
<1>4. DifferAt(Client, Dir, got, got', c, d, Channels!Upto(m))
  BY <1>1, <1>3 DEF SocksInv, TypeOK, DifferAt
<1>5. Got' = [Got EXCEPT ![<<c, d>>] = Channels!Upto(m)]
  BY <1>4, PairUpdate DEF Got
<1>6. Got[<<c, d>>] = got[c][d] /\ Sent[<<c, d>>] = sent[c][d] /\ Sent' = Sent
  BY <1>1 DEF Got, Sent, Pairs
<1> QED
  BY <1>3, <1>5, <1>6, ChannelActions

\* However the pieces are cut and whoever ends or is reset, what comes out of a
\* direction is a prefix of what went in: nothing is lost before what follows,
\* repeated or reordered (do_read_src to do_write_dst, do_read_dst to do_write_src).
THEOREM RelaysAreStreams == Spec => KeepsStreams
<1>1. Init => Channels!Init
  <2> SUFFICES ASSUME Init PROVE Channels!Init
    OBVIOUS
  <2>1. Sent = [x \in Client \X Dir |-> 0] /\ Got = [x \in Client \X Dir |-> <<>>]
    BY DEF Init, Sent, Got, Pairs
  <2> QED
    BY <2>1, ChannelActions
<1>2. SocksInv /\ [Next]_vars => [Channels!Next]_<<Sent, Got>>
  <2> SUFFICES ASSUME SocksInv, [Next]_vars PROVE Channels!Next \/ UNCHANGED <<Sent, Got>>
    OBVIOUS
  <2>1. CASE \E c \in Client, d \in Dir : PeerSend(c, d)
    BY <2>1, SendsUnit DEF Channels!Next
  <2>2. CASE \E c \in Client, d \in Dir : RelayWrite(c, d)
    BY <2>2, DeliversRead DEF Channels!Next
  <2>3. CASE UNCHANGED <<sent, got>>
    BY <2>3 DEF Sent, Got
  <2>4. CASE ParentStep
    <3>1. UNCHANGED <<sent, got>>
      BY <2>4 DEF ParentStep, Accept, ForkChild, ForkFails, WaitChild, Reap, data
    <3> QED
      BY <2>3, <3>1
  <2>5. ASSUME NEW c \in Client, PeerStep(c)
        PROVE  UNCHANGED <<sent, got>> \/ \E d \in Dir : PeerSend(c, d)
    BY <2>5 DEF PeerStep, Connect, HalfClose, PeerReset, data
  <2>6. ASSUME NEW c \in Client, ChildStep(c)
        PROVE  UNCHANGED <<sent, got>> \/ \E d \in Dir : RelayWrite(c, d)
    BY <2>6 DEF ChildStep, ReadRequest, Fails, Resolve, DoConnect, ConnectFails, BindAccept,
                RelayRead, RelayEnd, data
  <2>7. CASE UNCHANGED vars
    BY <2>3, <2>7 DEF vars, data
  <2> QED
    BY <2>1, <2>2, <2>3, <2>4, <2>5, <2>6, <2>7 DEF Next
<1> QED
  BY <1>1, <1>2, SocksInvariant, PTL DEF Spec, KeepsStreams, Channels!Spec, Sent, Got, Pairs
=============================================================================
