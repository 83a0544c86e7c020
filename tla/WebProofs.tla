----------------------------- MODULE WebProofs -----------------------------
(***************************************************************************)
(* Proofs about http_server with the consoles that it runs, for any number *)
(* of browsers, hosts, forms and commands.                                 *)
(***************************************************************************)
EXTENDS Web, FiniteSetTheorems, SequenceTheorems, WellFoundedInduction, TLAPS

Alive == Running \cup {"zombie"}

(***************************************************************************)
(* The inductive invariant.  It follows a program from fork() to           *)
(* waitpid(): who is waited for, which sockets a child can have inherited, *)
(* among them one that was accepted and is not listed, and how far its     *)
(* connection is.                                                          *)
(***************************************************************************)
Waiting == \A b \in Browser : prog[b] \in Alive => cur = b

\* Every socket that a child inherits is in its connections_, where it finds it to
\* close it, or is the one that was accepted last and not listed yet.
Inherits ==
  /\ Held \subseteq connections \cup Unlisted
  /\ \A b, c \in Unlisted : b = c
  /\ \A b \in Browser :
       prog[b] = "forked" => b \in holds[b] /\ holds[b] \subseteq connections \cup Unlisted

\* Sockets are held by programs that run, and none that the server has closed.
HeldByRunning ==
  /\ \A b \in Browser : prog[b] \notin Running => holds[b] = {}
  /\ \A b, c \in Browser : conn[b] = "closed" => b \notin holds[c]

\* A connection gets one program, which is over when the connection is closed.
OneLife == /\ \A b \in Browser : prog[b] # "none" => conn[b] = "closed" \/ cur = b
           /\ \A b \in Browser : conn[b] = "closed" =>
                prog[b] \in {"zombie", "reaped"} \/ browser[b] = "gone" \/ server = "down"
           /\ \A b \in cut : prog[b] \in {"zombie", "reaped"}

HttpInv == HttpTypeOK /\ Waiting /\ Inherits /\ HeldByRunning /\ OneLife /\ HoldsItsOwn

-----------------------------------------------------------------------------
(* What the steps of the whole system are for http_server.                 *)

\* A console ends, with a part of its page or all of it.
ProgramEnds(b) == prog[b] = "cgi" /\ \E said \in {"headers", "page"} : Ends(b, said)

HttpStep == \E b \in Browser : BrowserStep(b) \/ Handler(b) \/ ChildStep(b) \/ ProgramEnds(b)

\* What a console does besides it does to itself.
LEMMA StepsOfHttp == Next => HttpStep \/ UNCHANGED http
<1> SUFFICES ASSUME Next PROVE HttpStep \/ UNCHANGED http
  OBVIOUS
<1>1. CASE ServerStep
  BY <1>1 DEF ServerStep, HttpStep
<1>2. CASE Outside
  BY <1>2 DEF Outside
<1>3. ASSUME NEW b \in Browser, BrowserStep(b)
      PROVE  HttpStep
  BY <1>3 DEF HttpStep
<1>4. ASSUME NEW b \in Browser, Forked(b)
      PROVE  HttpStep
  BY <1>4 DEF Forked, Becomes, HttpStep, ChildStep
<1>5. ASSUME NEW b \in Browser, ProgramStep(b)
      PROVE  HttpStep \/ UNCHANGED http
  <2>1. CASE ConsoleStep(b)
    BY <2>1 DEF ConsoleStep
  <2>2. CASE Sigpipe(b)
    BY <2>2 DEF Sigpipe, HttpStep, ProgramEnds
  <2>3. CASE Crash(b)
    BY <2>3 DEF Crash, HttpStep, ProgramEnds
  <2>4. CASE Finish(b)
    BY <2>4 DEF Finish, HttpStep, ProgramEnds
  <2> QED
    BY <1>5, <2>1, <2>2, <2>3, <2>4 DEF ProgramStep
<1> QED
  BY <1>1, <1>2, <1>3, <1>4, <1>5 DEF Next

-----------------------------------------------------------------------------
(* The steps keep the invariant.                                           *)

\* Browsers come and go.
LEMMA BrowserKeeps ==
  ASSUME HttpInv, NEW b \in Browser, BrowserStep(b)
  PROVE  HttpInv'
<1>1. /\ UNCHANGED <<server, cur, conn, connections, prog, holds, answer, cut>>
      /\ browser' \in [Browser -> {"away", "open", "asked", "gone"}]
      /\ \A c \in Browser : browser[c] = "gone" => browser'[c] = "gone"
  BY DEF HttpInv, HttpTypeOK, BrowserStep, Connect, Ask, Leave
<1> QED
  BY <1>1 DEF HttpInv, HttpTypeOK, Waiting, Inherits, HeldByRunning, OneLife, HoldsItsOwn, Held, Unlisted, Running

\* The handlers: a connection only goes on, and a program is started only when no
\* other is left.
LEMMA HandlerKeeps ==
  ASSUME HttpInv, NEW b \in Browser, Handler(b)
  PROVE  HttpInv'
<1> USE DEF Alive, Running, HttpInv
<1>1. CASE Accept(b)
  BY <1>1 DEF Accept, HttpTypeOK, Waiting, Inherits, HeldByRunning, OneLife, HoldsItsOwn, Held, Unlisted
<1>2. CASE StartConnection(b)
  BY <1>2, NoBrowserAssumption DEF StartConnection, HttpTypeOK, Waiting, Inherits, HeldByRunning, OneLife, HoldsItsOwn, Held, Unlisted
<1>3. CASE ReadCompletes(b)
  BY <1>3 DEF ReadCompletes, HttpTypeOK, Waiting, Inherits, HeldByRunning, OneLife, HoldsItsOwn, Held, Unlisted
<1>4. CASE ReadFails(b)
  BY <1>4, NoBrowserAssumption DEF ReadFails, HttpTypeOK, Waiting, Inherits, HeldByRunning, OneLife, HoldsItsOwn, Held, Unlisted
<1>5. CASE RequestThrows(b)
  BY <1>5, NoBrowserAssumption DEF RequestThrows, HttpTypeOK, Waiting, Inherits, HeldByRunning, OneLife, HoldsItsOwn, Held, Unlisted
<1>6. CASE ForkFails(b)
  BY <1>6 DEF ForkFails, HttpTypeOK, Waiting, Inherits, HeldByRunning, OneLife, HoldsItsOwn, Held, Unlisted
<1>7. CASE Fork(b)
  BY <1>7, NoBrowserAssumption DEF Fork, HttpTypeOK, Waiting, Inherits, HeldByRunning, OneLife, HoldsItsOwn, Held, Unlisted
<1>8. CASE EndRequest(b)
  BY <1>8, NoBrowserAssumption DEF EndRequest, Waited, HttpTypeOK, Waiting, Inherits, HeldByRunning, OneLife, HoldsItsOwn, Held, Unlisted
<1> QED
  BY <1>1, <1>2, <1>3, <1>4, <1>5, <1>6, <1>7, <1>8 DEF Handler

\* The child closes what it inherited, becomes the program, or ends.
LEMMA ChildKeeps ==
  ASSUME HttpInv, NEW b \in Browser, ChildStep(b) \/ ProgramEnds(b)
  PROVE  HttpInv'
<1> USE DEF Alive, Running, HttpInv
<1>1. CASE BecomeProgram(b)
  BY <1>1 DEF BecomeProgram, StopAll, ShutsNone, HttpTypeOK, Waiting, Inherits, HeldByRunning, OneLife, HoldsItsOwn, Held, Unlisted
<1>2. CASE ExecFails(b)
  BY <1>2 DEF ExecFails, ShutsNone, HttpTypeOK, Waiting, Inherits, HeldByRunning, OneLife, HoldsItsOwn, Held, Unlisted
<1>3. ASSUME NEW said \in {"none", "headers", "page"}, Ends(b, said)
      PROVE  HttpInv'
  BY <1>3 DEF Ends, HttpTypeOK, Waiting, Inherits, HeldByRunning, OneLife, HoldsItsOwn, Held, Unlisted
<1> QED
  BY <1>1, <1>2, <1>3 DEF ChildStep, Killed, ProgramEnds

\* From accept() over fork() to waitpid(), in any number of connections and with the
\* handlers in any order, a child has inherited what the server had open: connections
\* that its connections_ list, and at most one that they do not list yet (do_accept,
\* do_request, stopall).
THEOREM ServerInvariant == Spec => []HttpInv
<1>1. Init => HttpInv
  BY DEF Init, HttpInit, HttpInv, HttpTypeOK, Waiting, Inherits, HeldByRunning, OneLife, HoldsItsOwn, Held, Unlisted, Alive, Running
<1>2. HttpInv /\ [Next]_vars => HttpInv'
  <2> SUFFICES ASSUME HttpInv, [Next]_vars PROVE HttpInv'
    OBVIOUS
  <2>1. CASE HttpStep
    BY <2>1, BrowserKeeps, HandlerKeeps, ChildKeeps DEF HttpStep
  <2>2. CASE UNCHANGED http
    BY <2>2 DEF http, HttpInv, HttpTypeOK, Waiting, Inherits, HeldByRunning, OneLife, HoldsItsOwn, Held, Unlisted, Running
  <2> QED
    BY <2>1, <2>2, StepsOfHttp DEF vars
<1> QED
  BY <1>1, <1>2, PTL DEF Spec

\* There is one program at a time, the one that is waited for.  It has its own browser's
\* connection open and of the others' at most the one that was just accepted; nobody has
\* open what the server has closed (do_accept, do_request, do_signal, stopall).
THEOREM OneAtATime == Spec => []OneProgram
<1>1. HttpInv => OneProgram
  <2> SUFFICES ASSUME HttpInv PROVE OneProgram
    OBVIOUS
  <2> DEFINE S == {b \in Browser : prog[b] \in Running \cup {"zombie"}}
  <2>1. \A b \in Browser : prog[b] \in Running \cup {"zombie"} => cur = b
    BY DEF HttpInv, Waiting, Alive
  <2>2. S = {} \/ S = {cur}
    BY <2>1
  <2>3. Cardinality({}) = 0 /\ Cardinality({cur}) = 1
    BY FS_EmptySet, FS_Singleton
  <2> HIDE DEF S
  <2>4. Cardinality(S) <= 1
    <3>1. Cardinality(S) \in {0, 1}
      BY ONLY <2>2, <2>3
    <3> QED
      BY ONLY <3>1
  <2>5. Cardinality(Unlisted) <= 1
    <3>1. \A b, c \in Unlisted : b = c
      BY DEF HttpInv, Inherits
    <3> HIDE DEF Unlisted
    <3>2. CASE Unlisted = {}
      BY ONLY <2>3, <3>2
    <3>3. ASSUME NEW b \in Unlisted
          PROVE  Cardinality(Unlisted) <= 1
      <4>1. Unlisted = {b}
        BY ONLY <3>1, <3>3
      <4>2. Cardinality({b}) = 1
        BY FS_Singleton
      <4> QED
        BY ONLY <4>1, <4>2
    <3> QED
      BY <3>2, <3>3
  <2> QED
    BY <2>1, <2>4, <2>5 DEF HttpInv, HeldByRunning, OneProgram, S
<1> QED
  BY <1>1, ServerInvariant, PTL

\* A browser's page ends with its own program, or because the browser or the
\* server is gone (do_request, stop).
THEOREM PageEndsWithProgram == Spec => []EndsWithProgram
<1>1. HttpInv => EndsWithProgram
  BY DEF HttpInv, OneLife, EndsWithProgram, Ended
<1> QED
  BY <1>1, ServerInvariant, PTL

-----------------------------------------------------------------------------
(* What a page shows is what was typed.                                    *)

\* A prompt, or the rest of one, is the last of what a shell has sent.
Live(w)   == w # <<>> /\ w[Len(w)] = " "
Whole(w)  == Live(w) => Len(w) > 1 /\ w[Len(w) - 1] = "%"
Unread(w) == IF Live(w) THEN 1 ELSE 0

\* On the wire, a prompt is followed by nothing; a reply comes first.
WireOf(w, answered) ==
  /\ \A i \in 1 .. Len(w) : /\ w[i] = "%" => i = Len(w) - 1 /\ w[Len(w)] = " "
                            /\ w[i] = " " => i = Len(w)
                            /\ w[i] = "reply" => i = 1 /\ ~answered
  /\ w # <<>> /\ ~answered => w[1] = "reply"

\* A client, its proxy and its shell wait for each other; commands are run after they
\* were typed, and typed after they were counted.
StageOf(h) ==
  /\ ran[h] <= typed[h] /\ typed[h] <= counter[h]
  /\ st[h] = "write" => typed[h] < counter[h]
  /\ st[h] \in {"resolve", "connect"} =>
       asks[h] = "no" /\ shell[h] = "away" /\ wire[h] = <<>> /\ (h \in Proxied => ~replied[h])
  /\ shell[h] = "away" => counter[h] = 0 /\ wire[h] \in {<<>>, <<"reply">>}
  /\ asks[h] \in {"sending", "sent"} => shell[h] = "away" /\ ~replied[h] /\ wire[h] = <<>>
  /\ h \notin Proxied => replied[h] /\ asks[h] = "no"
  /\ ~replied[h] => counter[h] = 0

\* Unless output looked like a prompt, there are never more lines typed than prompts
\* sent, of which at most one is unread.
TalkOf(h) ==
  "mark" \notin mishap[h] =>
    /\ WireOf(wire[h], replied[h])
    /\ counter[h] + Unread(wire[h]) <= Commands
    /\ ran[h] < Commands => counter[h] + Unread(wire[h]) <= ran[h] + 1
    /\ mishap[h] = {} => Whole(wire[h]) /\ IsSession(page[h], counter[h])

TalkInv == ConsoleTypeOK /\ \A h \in Host : StageOf(h) /\ TalkOf(h)

Shown == [piece : Piece \cup {"reply", "line"}, line : 0 .. Commands + 1]

\* The first n pieces, and the rest.
LEMMA Cut ==
  ASSUME NEW S, NEW w \in Seq(S), NEW n \in 1 .. Len(w)
  PROVE  /\ SubSeq(w, 1, n) \in Seq(S) /\ Len(SubSeq(w, 1, n)) = n
         /\ \A i \in 1 .. n : SubSeq(w, 1, n)[i] = w[i]
         /\ SubSeq(w, n + 1, Len(w)) \in Seq(S) /\ Len(SubSeq(w, n + 1, Len(w))) = Len(w) - n
         /\ \A i \in 1 .. Len(w) - n : SubSeq(w, n + 1, Len(w))[i] = w[n + i]
<1>1. Len(w) \in Nat /\ \A i \in 1 .. Len(w) : w[i] \in S
  BY LenProperties, ElementOfSeq
<1>2. /\ SubSeq(w, 1, n) \in Seq(S) /\ Len(SubSeq(w, 1, n)) = n
      /\ \A i \in 1 .. n : SubSeq(w, 1, n)[i] = w[i]
  <2>1. \A i \in 1 .. n : w[i] \in S
    BY <1>1
  <2>2. /\ SubSeq(w, 1, n) \in Seq(S)
        /\ Len(SubSeq(w, 1, n)) = IF 1 <= n THEN n - 1 + 1 ELSE 0
        /\ \A i \in 1 .. n - 1 + 1 : SubSeq(w, 1, n)[i] = w[1 + i - 1]
    BY <2>1, SubSeqProperties
  <2> QED
    BY <1>1, <2>2
<1>3. /\ SubSeq(w, n + 1, Len(w)) \in Seq(S)
      /\ Len(SubSeq(w, n + 1, Len(w))) = IF n + 1 <= Len(w) THEN Len(w) - (n + 1) + 1 ELSE 0
      /\ \A i \in 1 .. Len(w) - (n + 1) + 1 : SubSeq(w, n + 1, Len(w))[i] = w[n + 1 + i - 1]
  <2>1. \A i \in n + 1 .. Len(w) : w[i] \in S
    BY <1>1
  <2> QED
    BY <1>1, <2>1, SubSeqProperties
<1> QED
  BY <1>1, <1>2, <1>3

\* Where a read finds a prompt.
LEMMA WherePrompt ==
  ASSUME NEW S, NEW c \in Seq(S)
  PROVE  /\ HasPrompt(c) /\ ~("mark" \in ToSet(c)) => \E i \in 1 .. Len(c) - 1 : c[i] = "%" /\ c[i + 1] = " "
         /\ (\E i \in 1 .. Len(c) - 1 : c[i] = "%" /\ c[i + 1] = " ") => HasPrompt(c)
         /\ "mark" \in ToSet(c) <=> \E i \in 1 .. Len(c) : c[i] = "mark"
<1>1. Len(c) \in Nat /\ DOMAIN c = 1 .. Len(c) /\ \A i \in 1 .. Len(c) : c[i] \in S
  BY LenProperties, ElementOfSeq
<1>2. ASSUME NEW i \in 1 .. Len(c) - 1
      PROVE  SubSeq(c, i, i + 1) = Prompt <=> c[i] = "%" /\ c[i + 1] = " "
  <2> DEFINE T == S \cup {"%", " "}
             d == SubSeq(c, i, i + 1)
  <2>1. i \in Int /\ i + 1 \in Int /\ \A k \in i .. i + 1 : c[k] \in T
    <3>1. \A k \in i .. i + 1 : k \in 1 .. Len(c)
      BY <1>1
    <3>2. ASSUME NEW k \in i .. i + 1
          PROVE  c[k] \in S
      BY <1>1, <3>1
    <3>3. S \subseteq T
      OBVIOUS
    <3> HIDE DEF T
    <3> QED
      BY <1>1, <3>2, <3>3
  <2> HIDE DEF T
  <2>2. /\ d \in Seq(T) /\ Len(d) = IF i <= i + 1 THEN i + 1 - i + 1 ELSE 0
        /\ \A k \in 1 .. i + 1 - i + 1 : d[k] = c[i + k - 1]
    BY <2>1, SubSeqProperties
  <2>3. d \in Seq(T) /\ Len(d) = 2 /\ d[1] = c[i] /\ d[2] = c[i + 1]
    BY <1>1, <2>2
  <2>4. Prompt \in Seq(T) /\ Len(Prompt) = 2 /\ Prompt[1] = "%" /\ Prompt[2] = " "
    BY DEF Prompt, T
  <2> HIDE DEF d
  <2>5. ASSUME d[1] = "%", d[2] = " "
        PROVE  d = Prompt
    <3>1. \A k \in 1 .. Len(d) : d[k] = Prompt[k]
      <4>1. \A k \in 1 .. 2 : k = 1 \/ k = 2
        OBVIOUS
      <4> QED
        BY ONLY <2>3, <2>4, <2>5, <4>1
    <3>2. Len(d) = Len(Prompt)
      BY <2>3, <2>4
    <3> QED
      BY ONLY <2>3, <2>4, <3>1, <3>2, SeqEqual
  <2> QED
    BY <2>3, <2>4, <2>5 DEF d
<1>3. "mark" \in ToSet(c) <=> \E i \in 1 .. Len(c) : c[i] = "mark"
  BY <1>1 DEF ToSet
<1> QED
  BY <1>2, <1>3 DEF HasPrompt

\* More output leaves a session a session.
LEMMA TextAdded ==
  ASSUME NEW p \in Seq(Shown), NEW q \in Seq(Shown), NEW n \in Nat, IsSession(p, n),
         \A i \in 1 .. Len(q) : q[i].piece = "text"
  PROVE  IsSession(p \o q, n)
<1> DEFINE r == p \o q
           k == Len(p)
           m == Len(p) + Len(q)
<1>0. IsSession(p, n) /\ \A i \in 1 .. Len(q) : q[i].piece = "text"
  OBVIOUS
<1>1. /\ k \in Nat /\ Len(q) \in Nat /\ m \in Nat /\ k <= m /\ DOMAIN p = 1 .. k /\ DOMAIN r = 1 .. m
      /\ \A i \in 1 .. m : r[i] = IF i <= k THEN p[i] ELSE q[i - k]
  BY ConcatProperties, LenProperties
<1>2. /\ \A i \in 1 .. k : r[i] = p[i]
      /\ \A i \in 1 .. m : i > k => r[i].piece = "text"
  <2>1. \A i \in 1 .. k : i \in 1 .. m /\ i <= k
    BY ONLY <1>1
  <2>2. \A i \in 1 .. m : i > k => i - k \in 1 .. Len(q) /\ ~(i <= k)
    BY ONLY <1>1 DEF m, k
  <2> HIDE DEF r, k, m
  <2> QED
    BY ONLY <1>0, <1>1, <2>1, <2>2
<1> HIDE DEF r, k, m
<1>3. ASSUME NEW x, x # "text"
      PROVE  Places(r, x) = Places(p, x)
  <2>1. \A i \in 1 .. m : i \in 1 .. k \/ i > k
    BY ONLY <1>1
  <2>2. \A i \in 1 .. k : i \in 1 .. m
    BY ONLY <1>1
  <2> QED
    BY ONLY <1>1, <1>2, <1>3, <2>1, <2>2 DEF Places
<1>4. \A i \in Places(p, "line") : r[i].line = p[i].line
  BY ONLY <1>1, <1>2 DEF Places
<1>5. /\ Places(r, "mark") = Places(p, "mark") /\ Places(r, "reply") = Places(p, "reply") /\ Places(r, "%") = Places(p, "%")
      /\ Places(r, " ") = Places(p, " ") /\ Places(r, "line") = Places(p, "line")
  BY ONLY <1>3
<1>6. {r[i].line : i \in Places(r, "line")} = {p[i].line : i \in Places(p, "line")}
  BY ONLY <1>4, <1>5
<1>7. IsSession(r, n)
  BY ONLY <1>0, <1>4, <1>5, <1>6 DEF IsSession
<1> QED
  BY ONLY <1>7 DEF r

\* A prompt and its line make one session more.
LEMMA SessionAdded ==
  ASSUME NEW p \in Seq(Shown), NEW q \in Seq(Shown), NEW n \in Nat, IsSession(p, n),
         Len(q) > 1, q[Len(q) - 1].piece = "%", q[Len(q)].piece = " ",
         \A i \in 1 .. Len(q) - 2 : q[i].piece = "text"
  PROVE  IsSession(Append(p \o q, Line(n + 1)), n + 1)
<1> DEFINE c == p \o q
           r == Append(c, Line(n + 1))
           k == Len(p)
           l == Len(q)
           m == k + l
<1>0. IsSession(p, n)
  OBVIOUS
<1>n. n \in Nat
  OBVIOUS
<1>l. l > 1 /\ l \in Nat
  BY LenProperties
<1>q. q[l - 1].piece = "%" /\ q[l].piece = " " /\ \A i \in 1 .. l - 2 : q[i].piece = "text"
  OBVIOUS
<1>1. /\ k \in Nat /\ DOMAIN p = 1 .. k
      /\ c \in Seq(Shown) /\ Len(c) = m
      /\ \A i \in 1 .. m : c[i] = IF i <= k THEN p[i] ELSE q[i - k]
  BY ConcatProperties, LenProperties
<1>2. /\ DOMAIN r = 1 .. m + 1 /\ r[m + 1] = Line(n + 1)
      /\ \A i \in 1 .. m : r[i] = c[i]
  <2>1. /\ r \in Seq(Shown \cup {Line(n + 1)}) /\ Len(r) = Len(c) + 1
        /\ \A i \in 1 .. Len(c) : r[i] = c[i]
        /\ r[Len(c) + 1] = Line(n + 1)
    <3>1. c \in Seq(Shown \cup {Line(n + 1)})
      BY ONLY <1>1, SeqMonotonic
    <3> HIDE DEF c
    <3> QED
      BY ONLY <3>1, AppendProperties
  <2>2. DOMAIN r = 1 .. Len(r)
    BY ONLY <2>1, LenProperties
  <2> QED
    BY ONLY <1>1, <2>1, <2>2
<1>k. k \in Nat
  BY LenProperties
<1> HIDE DEF k, l
<1>m. m \in Nat /\ m > k + 1 /\ m = k + l
  BY ONLY <1>k, <1>l DEF m
<1> HIDE DEF c, r, m
<1>3. /\ \A i \in 1 .. k : r[i] = p[i]
      /\ \A i \in k + 1 .. m - 2 : r[i].piece = "text"
      /\ r[m - 1].piece = "%" /\ r[m].piece = " " /\ r[m + 1].piece = "line" /\ r[m + 1].line = n + 1
  <2>1. ASSUME NEW i \in k + 1 .. m
        PROVE  r[i] = q[i - k]
    <3>1. i \in 1 .. m /\ ~(i <= k)
      BY ONLY <1>1, <1>m, i \in k + 1 .. m
    <3> QED
      BY ONLY <1>1, <1>2, <3>1
  <2>2. \A i \in 1 .. k : r[i] = p[i]
    <3>1. \A i \in 1 .. k : i \in 1 .. m /\ i <= k
      BY ONLY <1>k, <1>m
    <3> QED
      BY ONLY <1>1, <1>2, <3>1
  <2>3. m - 1 \in k + 1 .. m /\ m \in k + 1 .. m /\ m - 1 - k = l - 1 /\ m - k = l
    BY ONLY <1>k, <1>l, <1>m
  <2>4. \A i \in k + 1 .. m - 2 : i \in k + 1 .. m /\ i - k \in 1 .. l - 2
    BY ONLY <1>k, <1>l, <1>m
  <2>5. Line(n + 1).piece = "line" /\ Line(n + 1).line = n + 1
    BY ONLY TRUE DEF Line
  <2> QED
    BY ONLY <1>q, <1>2, <2>1, <2>2, <2>3, <2>4, <2>5
<1>4. ASSUME NEW x
      PROVE  Places(r, x) = Places(p, x) \cup {i \in k + 1 .. m + 1 : r[i].piece = x}
  <2>1. 1 .. m + 1 = (1 .. k) \cup (k + 1 .. m + 1)
    BY ONLY <1>k, <1>m
  <2>2. Places(p, x) = {i \in 1 .. k : p[i].piece = x}
    BY ONLY <1>1 DEF Places
  <2>3. Places(r, x) = {i \in 1 .. m + 1 : r[i].piece = x}
    BY ONLY <1>2 DEF Places
  <2>4. \A i \in 1 .. k : r[i] = p[i]
    BY ONLY <1>3
  <2> QED
    BY ONLY <2>1, <2>2, <2>3, <2>4
<1>5. /\ Places(r, "mark") = Places(p, "mark") /\ Places(r, "reply") = Places(p, "reply")
      /\ Places(r, "%") = Places(p, "%") \cup {m - 1} /\ Places(r, " ") = Places(p, " ") \cup {m}
      /\ Places(r, "line") = Places(p, "line") \cup {m + 1}
  <2>0. \A i \in k + 1 .. m + 1 : i \in k + 1 .. m - 2 \/ i = m - 1 \/ i = m \/ i = m + 1
    BY ONLY <1>k, <1>m
  <2>1. m - 1 \in k + 1 .. m + 1 /\ m \in k + 1 .. m + 1 /\ m + 1 \in k + 1 .. m + 1
    BY ONLY <1>k, <1>m
  <2>2. {i \in k + 1 .. m + 1 : r[i].piece = "mark"} = {}
    BY ONLY <1>3, <2>0, <2>1
  <2>3. {i \in k + 1 .. m + 1 : r[i].piece = "reply"} = {}
    BY ONLY <1>3, <2>0, <2>1
  <2>4. {i \in k + 1 .. m + 1 : r[i].piece = "%"} = {m - 1}
    BY ONLY <1>3, <2>0, <2>1
  <2>5. {i \in k + 1 .. m + 1 : r[i].piece = " "} = {m}
    BY ONLY <1>3, <2>0, <2>1
  <2>6. {i \in k + 1 .. m + 1 : r[i].piece = "line"} = {m + 1}
    BY ONLY <1>3, <2>0, <2>1
  <2>7. Places(r, "mark") = Places(p, "mark") /\ Places(r, "reply") = Places(p, "reply")
    BY <1>4, <2>2, <2>3
  <2>8. Places(r, "%") = Places(p, "%") \cup {m - 1}
    BY <1>4, <2>4
  <2>9. Places(r, " ") = Places(p, " ") \cup {m}
    BY <1>4, <2>5
  <2>10. Places(r, "line") = Places(p, "line") \cup {m + 1}
    BY <1>4, <2>6
  <2> QED
    BY ONLY <2>7, <2>8, <2>9, <2>10
<1>6. \A i \in Places(p, "line") : i \in 1 .. k /\ r[i].line = p[i].line /\ p[i].line \in 1 .. n
  <2>1. \A i \in Places(p, "line") : i \in 1 .. k
    BY ONLY <1>1 DEF Places
  <2>2. \A i \in Places(p, "line") : p[i].line \in {p[j].line : j \in Places(p, "line")}
    OBVIOUS
  <2>3. {p[j].line : j \in Places(p, "line")} = 1 .. n
    BY ONLY <1>0 DEF IsSession
  <2> QED
    BY ONLY <1>3, <2>1, <2>2, <2>3
<1>7. {r[i].line : i \in Places(r, "line")} = 1 .. n + 1
  <2>1. {r[i].line : i \in Places(r, "line")} = {p[i].line : i \in Places(p, "line")} \cup {n + 1}
    <3>1. \A i \in Places(p, "line") : r[i].line = p[i].line
      BY ONLY <1>6
    <3>2. r[m + 1].line = n + 1
      BY ONLY <1>3
    <3>3. Places(r, "line") = Places(p, "line") \cup {m + 1}
      BY ONLY <1>5
    <3> QED
      BY ONLY <3>1, <3>2, <3>3
  <2>2. {p[i].line : i \in Places(p, "line")} = 1 .. n
    BY ONLY <1>0 DEF IsSession
  <2>3. (1 .. n) \cup {n + 1} = 1 .. n + 1
    BY ONLY <1>n
  <2> QED
    BY ONLY <2>1, <2>2, <2>3
<1>8. ASSUME NEW i \in Places(r, "line"), NEW j \in Places(r, "line"), i < j
      PROVE  r[i].line < r[j].line
  <2>0. /\ i = m + 1 \/ i \in Places(p, "line")
        /\ j = m + 1 \/ j \in Places(p, "line")
    BY <1>5
  <2>1. CASE i = m + 1
    <3>1. j \in 1 .. k \/ j = m + 1
      BY ONLY <1>6, <2>0
    <3> QED
      BY ONLY <1>k, <1>m, <1>8, <2>1, <3>1
  <2>2. CASE i # m + 1 /\ j = m + 1
    <3>1. r[i].line \in 1 .. n
      BY ONLY <1>6, <2>0, <2>2
    <3>2. r[j].line = n + 1
      BY ONLY <1>3, <2>2
    <3> QED
      BY ONLY <1>n, <3>1, <3>2
  <2>3. CASE i # m + 1 /\ j # m + 1
    <3>1. i \in Places(p, "line") /\ j \in Places(p, "line")
      BY ONLY <2>0, <2>3
    <3>2. p[i].line < p[j].line
      BY ONLY <1>0, <1>8, <3>1 DEF IsSession
    <3> QED
      BY ONLY <1>6, <3>1, <3>2
  <2> QED
    BY ONLY <2>1, <2>2, <2>3
<1>9. /\ \A i \in Places(r, "%") : i + 2 \in Places(r, "line")
      /\ \A i \in Places(r, " ") : i + 1 \in Places(r, "line")
      /\ \A i \in Places(r, "line") : i - 1 \in Places(r, " ") /\ i - 2 \in Places(r, "%")
  <2>1. m - 1 + 2 = m + 1 /\ m + 1 - 1 = m /\ m + 1 - 2 = m - 1
    BY ONLY <1>m
  <2>2. /\ \A i \in Places(p, "%") : i + 2 \in Places(p, "line")
        /\ \A i \in Places(p, " ") : i + 1 \in Places(p, "line")
        /\ \A i \in Places(p, "line") : i - 1 \in Places(p, " ") /\ i - 2 \in Places(p, "%")
    BY ONLY <1>0 DEF IsSession
  <2>3. ASSUME NEW i \in Places(r, "%")
        PROVE  i + 2 \in Places(r, "line")
    <3>1. i \in Places(p, "%") \/ i = m - 1
      BY <1>5
    <3> QED
      BY ONLY <1>5, <2>1, <2>2, <3>1
  <2>4. ASSUME NEW i \in Places(r, " ")
        PROVE  i + 1 \in Places(r, "line")
    <3>1. i \in Places(p, " ") \/ i = m
      BY <1>5
    <3> QED
      BY ONLY <1>5, <2>1, <2>2, <3>1
  <2>5. ASSUME NEW i \in Places(r, "line")
        PROVE  i - 1 \in Places(r, " ") /\ i - 2 \in Places(r, "%")
    <3>1. i \in Places(p, "line") \/ i = m + 1
      BY <1>5
    <3>2. i = m + 1 => i - 1 = m /\ i - 2 = m - 1
      BY ONLY <1>m
    <3>3. i \in Places(p, "line") => i - 1 \in Places(p, " ") /\ i - 2 \in Places(p, "%")
      BY ONLY <2>2
    <3> QED
      BY ONLY <1>5, <3>1, <3>2, <3>3
  <2> QED
    BY ONLY <2>3, <2>4, <2>5
<1>10. IsSession(r, n + 1)
  <2>1. Places(r, "mark") = {} /\ Places(r, "reply") = {}
    BY ONLY <1>0, <1>5 DEF IsSession
  <2> QED
    BY ONLY <1>7, <1>8, <1>9, <2>1 DEF IsSession
<1> QED
  BY ONLY <1>10 DEF r, c

Bit == Piece \cup {"reply"}

\* What is left on the wire after a read.
LEMMA RestOfWire ==
  ASSUME NEW w \in Seq(Bit), NEW a \in BOOLEAN, WireOf(w, a), NEW n \in 1 .. Len(w),
         NEW u, u = SubSeq(w, n + 1, Len(w))
  PROVE  /\ WireOf(u, TRUE)
         /\ Live(u) => Live(w) /\ n < Len(w)
         /\ Whole(w) /\ Live(u) /\ w[n] # "%" => Whole(u)
<1>1. /\ Len(w) \in Nat /\ u \in Seq(Bit) /\ Len(u) = Len(w) - n
      /\ \A i \in 1 .. Len(w) - n : u[i] = w[n + i]
  BY Cut, LenProperties
<1>2. /\ \A i \in 1 .. Len(w) : /\ w[i] = "%" => i = Len(w) - 1 /\ w[Len(w)] = " "
                                /\ w[i] = " " => i = Len(w)
                                /\ w[i] = "reply" => i = 1
  BY DEF WireOf
<1>3. ASSUME NEW i \in 1 .. Len(u)
      PROVE  /\ u[i] = "%" => i = Len(u) - 1 /\ u[Len(u)] = " "
             /\ u[i] = " " => i = Len(u)
             /\ u[i] # "reply"
  <2>1. i \in 1 .. Len(w) - n /\ n + i \in 1 .. Len(w) /\ n + i # 1 /\ Len(u) \in 1 .. Len(w) - n /\ n + Len(u) = Len(w)
    BY <1>1
  <2>2. u[i] = w[n + i] /\ u[Len(u)] = w[Len(w)]
    BY ONLY <1>1, <2>1
  <2>3. /\ w[n + i] = "%" => n + i = Len(w) - 1 /\ w[Len(w)] = " "
        /\ w[n + i] = " " => n + i = Len(w)
        /\ w[n + i] = "reply" => n + i = 1
    BY ONLY <1>2, <2>1
  <2>4. n \in Nat /\ i \in Nat
    OBVIOUS
  <2>5. Len(w) \in Nat /\ Len(u) = Len(w) - n
    BY ONLY <1>1
  <2>6. u[i] = "%" => i = Len(u) - 1 /\ u[Len(u)] = " "
    <3>1. n + i = Len(w) - 1 => i = Len(u) - 1
      BY ONLY <2>4, <2>5
    <3> QED
      BY ONLY <2>2, <2>3, <3>1
  <2>7. u[i] = " " => i = Len(u)
    <3>1. n + i = Len(w) => i = Len(u)
      BY ONLY <2>4, <2>5
    <3> QED
      BY ONLY <2>2, <2>3, <3>1
  <2>8. u[i] # "reply"
    BY ONLY <2>1, <2>2, <2>3
  <2> QED
    BY ONLY <2>6, <2>7, <2>8
<1>4. WireOf(u, TRUE)
  BY ONLY <1>3 DEF WireOf
<1>5. u # <<>> => Len(u) \in 1 .. Len(w) - n /\ Len(w) \in 1 .. Len(w) /\ n < Len(w) /\ w # <<>> /\ u[Len(u)] = w[Len(w)]
  <2>1. u # <<>> => Len(u) > 0
    BY <1>1, EmptySeq
  <2>2. w # <<>>
    BY EmptySeq
  <2>3. Len(u) > 0 => Len(u) \in 1 .. Len(w) - n /\ Len(w) \in 1 .. Len(w) /\ n < Len(w) /\ n + Len(u) = Len(w)
    BY <1>1
  <2> QED
    BY ONLY <1>1, <2>1, <2>2, <2>3
<1>6. ASSUME Whole(w), Live(u), w[n] # "%"
      PROVE  Whole(u)
  <2>1. w[Len(w)] = " " /\ w[Len(w) - 1] = "%"
    BY ONLY <1>5, <1>6 DEF Whole, Live
  <2>2. n < Len(w) /\ n # Len(w) - 1
    BY ONLY <1>5, <1>6, <2>1 DEF Live
  <2>3. Len(w) - n - 1 \in 1 .. Len(w) - n /\ n + (Len(w) - n - 1) = Len(w) - 1 /\ Len(u) > 1 /\ Len(u) - 1 = Len(w) - n - 1
    BY <1>1, <2>2
  <2> QED
    BY ONLY <1>1, <2>1, <2>3 DEF Whole
<1> QED
  BY ONLY <1>4, <1>5, <1>6 DEF Live

\* The two pieces of a prompt.
LEMMA PromptPieces ==
  ASSUME NEW S
  PROVE  Prompt \in Seq(S \cup {"%", " "}) /\ Len(Prompt) = 2 /\ Prompt[1] = "%" /\ Prompt[2] = " "
BY DEF Prompt

\* Nothing but output and a prompt is sent, and only when nothing else is unread.
LEMMA OutputSent ==
  ASSUME NEW w \in Seq(Bit), NEW a \in BOOLEAN, WireOf(w, a), ~Live(w), w # <<>> \/ a,
         NEW o \in Seq(Bit), \A i \in 1 .. Len(o) : o[i] \in {"text", "mark"}, NEW u, u = w \o (o \o Prompt)
  PROVE  u \in Seq(Bit) /\ WireOf(u, a) /\ Live(u) /\ Whole(u)
<1> DEFINE v == o \o Prompt
<1>1. /\ Len(w) \in Nat /\ Len(o) \in Nat /\ o \in Seq(Bit) /\ Prompt \in Seq(Bit) /\ Len(Prompt) = 2
      /\ Prompt[1] = "%" /\ Prompt[2] = " "
      /\ \A i \in 1 .. Len(o) : o[i] \in {"text", "mark"}
  <2>1. Bit \cup {"%", " "} = Bit
    BY DEF Bit, Piece
  <2>2. Prompt \in Seq(Bit \cup {"%", " "}) /\ Len(Prompt) = 2 /\ Prompt[1] = "%" /\ Prompt[2] = " "
    BY PromptPieces
  <2> QED
    BY <2>1, <2>2, LenProperties
<1>2. /\ v \in Seq(Bit) /\ Len(v) = Len(o) + 2
      /\ \A i \in 1 .. Len(o) + 2 : v[i] = IF i <= Len(o) THEN o[i] ELSE Prompt[i - Len(o)]
  <2>1. o \in Seq(Bit) /\ Prompt \in Seq(Bit) /\ Len(Prompt) = 2
    BY <1>1
  <2>2. /\ v \in Seq(Bit) /\ Len(v) = Len(o) + Len(Prompt)
        /\ \A i \in 1 .. Len(o) + Len(Prompt) : v[i] = IF i <= Len(o) THEN o[i] ELSE Prompt[i - Len(o)]
    BY ONLY <2>1, ConcatProperties
  <2> QED
    BY <2>1, <2>2
<1>3. /\ u \in Seq(Bit) /\ Len(u) = Len(w) + (Len(o) + 2)
      /\ \A i \in 1 .. Len(w) + (Len(o) + 2) : u[i] = IF i <= Len(w) THEN w[i] ELSE v[i - Len(w)]
  <2>1. u = w \o v /\ w \in Seq(Bit)
    OBVIOUS
  <2>2. v \in Seq(Bit) /\ Len(v) = Len(o) + 2
    BY <1>2
  <2> HIDE DEF v
  <2>3. /\ w \o v \in Seq(Bit) /\ Len(w \o v) = Len(w) + Len(v)
        /\ \A i \in 1 .. Len(w) + Len(v) : (w \o v)[i] = IF i <= Len(w) THEN w[i] ELSE v[i - Len(w)]
    BY ONLY <2>1, <2>2, ConcatProperties
  <2> QED
    BY <2>1, <2>2, <2>3
<1> HIDE DEF v
<1>l. Len(w) \in Nat /\ Len(o) \in Nat /\ Len(u) = Len(w) + (Len(o) + 2)
  BY ONLY <1>1, <1>3
<1>4. \A i \in 1 .. Len(w) : w[i] # "%" /\ w[i] # " " /\ (w[i] = "reply" => i = 1 /\ ~a)
  <2>1. w # <<>> => w[Len(w)] # " "
    BY DEF Live
  <2>2. ASSUME NEW i \in 1 .. Len(w)
        PROVE  w # <<>>
    BY EmptySeq
  <2> QED
    BY <2>1, <2>2 DEF WireOf
<1>5. ASSUME NEW i \in 1 .. Len(u)
      PROVE  /\ i = Len(u) - 1 => u[i] = "%"
             /\ i = Len(u) => u[i] = " "
             /\ i < Len(u) - 1 => u[i] # "%" /\ u[i] # " " /\ (u[i] = "reply" => i = 1 /\ ~a)
  <2>1. i \in 1 .. Len(w) + (Len(o) + 2)
    BY <1>3
  <2>2. CASE i <= Len(w)
    <3>1. i \in 1 .. Len(w) /\ i < Len(u) - 1 /\ i # Len(u) - 1 /\ i # Len(u)
      BY ONLY <1>l, <2>1, <2>2
    <3>2. u[i] = w[i]
      BY ONLY <1>3, <2>1, <2>2
    <3> QED
      BY ONLY <1>4, <3>1, <3>2
  <2>3. CASE i > Len(w) /\ i <= Len(w) + Len(o)
    <3>1. i - Len(w) \in 1 .. Len(o) + 2 /\ i - Len(w) \in 1 .. Len(o) /\ ~(i <= Len(w)) /\ i - Len(w) <= Len(o)
      BY ONLY <1>l, <2>1, <2>3
    <3>2. u[i] = o[i - Len(w)]
      BY ONLY <1>2, <1>3, <2>1, <3>1
    <3>3. u[i] \in {"text", "mark"}
      BY ONLY <1>1, <3>1, <3>2
    <3>4. i # Len(u) - 1 /\ i # Len(u)
      BY ONLY <1>l, <2>1, <2>3
    <3> QED
      BY ONLY <3>3, <3>4
  <2>4. CASE i > Len(w) + Len(o)
    <3>1. i - Len(w) \in 1 .. Len(o) + 2 /\ ~(i <= Len(w)) /\ ~(i - Len(w) <= Len(o)) /\ i - Len(w) - Len(o) \in 1 .. 2
      BY ONLY <1>l, <2>1, <2>4
    <3>2. u[i] = Prompt[i - Len(w) - Len(o)]
      BY ONLY <1>2, <1>3, <2>1, <3>1
    <3>3. /\ i = Len(u) - 1 => i - Len(w) - Len(o) = 1
          /\ i = Len(u) => i - Len(w) - Len(o) = 2
      BY ONLY <1>l, <2>1
    <3>4. ~(i < Len(u) - 1)
      BY ONLY <1>l, <2>1, <2>4
    <3> QED
      BY ONLY <1>1, <3>2, <3>3, <3>4
  <2> QED
    <3>1. i <= Len(w) \/ (i > Len(w) /\ i <= Len(w) + Len(o)) \/ i > Len(w) + Len(o)
      BY ONLY <1>l, <2>1
    <3> QED
      BY ONLY <2>2, <2>3, <2>4, <3>1
<1>6. Len(u) \in Nat /\ Len(u) > 1 /\ Len(u) \in 1 .. Len(u) /\ Len(u) - 1 \in 1 .. Len(u) /\ ~(Len(u) < Len(u) - 1)
  BY ONLY <1>l
<1>7. u[Len(u)] = " " /\ u[Len(u) - 1] = "%" /\ u # <<>>
  <2>1. u # <<>>
    BY <1>3, <1>6, EmptySeq
  <2> QED
    BY <1>5, <1>6, <2>1
<1>8. WireOf(u, a)
  <2>1. \A i \in 1 .. Len(u) : i = Len(u) - 1 \/ i = Len(u) \/ i < Len(u) - 1
    BY ONLY <1>6
  <2>2. ASSUME NEW i \in 1 .. Len(u)
        PROVE  /\ u[i] = "%" => i = Len(u) - 1 /\ u[Len(u)] = " "
               /\ u[i] = " " => i = Len(u)
               /\ u[i] = "reply" => i = 1 /\ ~a
    BY ONLY <1>5, <1>7, <2>1, i \in 1 .. Len(u)
  <2>3. ~a => u[1] = "reply"
    <3>1. ~a => w # <<>> /\ w[1] = "reply" /\ Len(w) # 0
      BY EmptySeq DEF WireOf
    <3>2. Len(w) # 0 => 1 \in 1 .. Len(w) + (Len(o) + 2) /\ 1 <= Len(w)
      BY ONLY <1>l
    <3> QED
      BY ONLY <1>3, <3>1, <3>2
  <2> QED
    BY ONLY <2>2, <2>3 DEF WireOf
<1> QED
  BY <1>3, <1>6, <1>7, <1>8 DEF Live, Whole

\* An empty wire, a reply, a prompt, and both.
LEMMA FirstPieces ==
  /\ <<>> \in Seq(Bit) /\ ~Live(<<>>) /\ Whole(<<>>) /\ WireOf(<<>>, TRUE) /\ WireOf(<<>>, FALSE)
  /\ <<"reply">> \in Seq(Bit) /\ ~Live(<<"reply">>) /\ WireOf(<<"reply">>, FALSE) /\ <<>> \o <<"reply">> = <<"reply">>
  /\ LET w == <<>> \o Prompt
     IN  w \in Seq(Bit) /\ Live(w) /\ Whole(w) /\ WireOf(w, TRUE)
  /\ LET w == <<>> \o (<<"reply">> \o Prompt)
     IN  w \in Seq(Bit) /\ Live(w) /\ Whole(w) /\ WireOf(w, FALSE)
<1> DEFINE r == <<"reply">>
<1>1. <<>> \in Seq(Bit) /\ Len(<<>>) = 0
  BY EmptySeq
<1>2. ~Live(<<>>) /\ Whole(<<>>) /\ WireOf(<<>>, TRUE) /\ WireOf(<<>>, FALSE)
  <2>1. 1 .. Len(<<>>) = {}
    BY ONLY <1>1
  <2> QED
    BY ONLY <2>1 DEF Live, Whole, WireOf
<1>3. r \in Seq(Bit) /\ r # <<>> /\ Len(r) = 1 /\ r[1] = "reply"
  <2>1. Bit \cup {"reply"} = Bit
    BY DEF Bit
  <2>2. \A S : r \in Seq(S \cup {"reply"})
    OBVIOUS
  <2>3. r \in Seq(Bit \cup {"reply"})
    BY ONLY <2>2
  <2>4. r # <<>> /\ Len(r) = 1 /\ r[1] = "reply"
    OBVIOUS
  <2> QED
    BY ONLY <2>1, <2>3, <2>4
<1>4. <<>> \o Prompt = Prompt /\ Prompt \in Seq(Bit)
  <2>1. Bit \cup {"%", " "} = Bit
    BY DEF Bit, Piece
  <2>2. Prompt \in Seq(Bit \cup {"%", " "})
    BY PromptPieces
  <2> QED
    BY <2>1, <2>2, ConcatEmptySeq
<1> HIDE DEF r
<1>5. WireOf(r, FALSE) /\ ~Live(r)
  <2>1. \A i \in 1 .. Len(r) : i = 1
    BY ONLY <1>3
  <2>2. \A i \in 1 .. Len(r) : r[i] # "%" /\ r[i] # " "
    BY ONLY <1>3, <2>1
  <2>3. WireOf(r, FALSE)
    BY ONLY <1>3, <2>1, <2>2 DEF WireOf
  <2>4. ~Live(r)
    BY ONLY <1>3 DEF Live
  <2> QED
    BY ONLY <2>3, <2>4
<1>6. r \o Prompt \in Seq(Bit)
  BY ONLY <1>3, <1>4, ConcatProperties
<1>7. <<>> \o r = r /\ <<>> \o (r \o Prompt) = r \o Prompt
  BY ONLY <1>3, <1>6, ConcatEmptySeq
<1>8. \A i \in 1 .. Len(<<>>) : <<>>[i] \in {"text", "mark"}
  BY ONLY <1>1
<1>9. LET w == <<>> \o (<<>> \o Prompt)
      IN  w \in Seq(Bit) /\ Live(w) /\ Whole(w) /\ WireOf(w, TRUE)
  BY ONLY <1>1, <1>2, <1>8, OutputSent
<1>10. LET w == r \o (<<>> \o Prompt)
       IN  w \in Seq(Bit) /\ Live(w) /\ Whole(w) /\ WireOf(w, FALSE)
  BY ONLY <1>1, <1>3, <1>5, <1>8, OutputSent
<1> QED
  BY ONLY <1>1, <1>2, <1>3, <1>4, <1>5, <1>7, <1>9, <1>10 DEF r

\* Output is displayed piece by piece.
LEMMA OutputShown ==
  ASSUME NEW c \in Seq(Bit)
  PROVE  /\ Output(c) \in Seq(Shown) /\ Len(Output(c)) = Len(c)
         /\ \A i \in 1 .. Len(c) : Output(c)[i].piece = c[i]
<1>1. Len(c) \in Nat /\ DOMAIN c = 1 .. Len(c) /\ \A i \in 1 .. Len(c) : c[i] \in Bit
  BY LenProperties, ElementOfSeq
<1>2. \A i \in 1 .. Len(c) : [piece |-> c[i], line |-> 0] \in Shown
  <2>1. 0 \in 0 .. Commands + 1
    BY ConsoleAssumption
  <2> QED
    BY ONLY <1>1, <2>1 DEF Shown, Bit
<1>3. Output(c) = [i \in 1 .. Len(c) |-> [piece |-> c[i], line |-> 0]]
  BY <1>1 DEF Output
<1>4. \A i \in 1 .. Len(c) : Output(c)[i] = [piece |-> c[i], line |-> 0]
  BY ONLY <1>3
<1>5. Output(c) \in [1 .. Len(c) -> Shown]
  BY ONLY <1>2, <1>3
<1>6. Output(c) \in Seq(Shown) /\ Len(Output(c)) = Len(c)
  <2>1. Output(c) \in Seq(Shown)
    BY ONLY <1>1, <1>5, IsASeq
  <2>2. DOMAIN Output(c) = 1 .. Len(c)
    BY ONLY <1>3
  <2> QED
    BY <1>1, <2>1, <2>2, LenProperties
<1>7. ASSUME NEW i \in 1 .. Len(c)
      PROVE  Output(c)[i].piece = c[i]
  <2>1. Output(c)[i] = [piece |-> c[i], line |-> 0]
    BY ONLY <1>4, i \in 1 .. Len(c)
  <2>2. [piece |-> c[i], line |-> 0].piece = c[i]
    BY ONLY TRUE
  <2> QED
    BY ONLY <2>1, <2>2, Zenon
<1> QED
  BY ONLY <1>6, <1>7

\* A step of a client, of its shell or its proxy is nothing to the other clients.
LEMMA OthersStay ==
  ASSUME ConsoleTypeOK, NEW h \in Host, ClientStep(h) \/ HostStep(h), NEW g \in Host, g # h
  PROVE  /\ st'[g] = st[g] /\ asks'[g] = asks[g] /\ replied'[g] = replied[g] /\ counter'[g] = counter[g]
         /\ wire'[g] = wire[g] /\ shell'[g] = shell[g] /\ typed'[g] = typed[g] /\ ran'[g] = ran[g]
         /\ page'[g] = page[g] /\ mishap'[g] = mishap[g]
<1> USE DEF ConsoleTypeOK
<1>1. CASE Resolved(h)
  BY <1>1 DEF Resolved, Goto
<1>2. CASE Connected(h)
  BY <1>2 DEF Connected, Goto, Sends
<1>3. CASE AsksProxy(h)
  BY <1>3 DEF AsksProxy
<1>4. CASE ReadReply(h)
  BY <1>4 DEF ReadReply, Takes
<1>5. CASE ReadChunk(h)
  BY <1>5 DEF ReadChunk, Takes, Goto
<1>6. CASE Written(h)
  BY <1>6 DEF Written, Goto
<1>7. CASE ClientEnds(h)
  BY <1>7 DEF ClientEnds, Goto
<1>8. CASE RunsCommand(h)
  BY <1>8 DEF RunsCommand, Sends
<1>9. CASE ProxyAnswers(h)
  BY <1>9 DEF ProxyAnswers, Sends
<1> QED
  BY <1>1, <1>2, <1>3, <1>4, <1>5, <1>6, <1>7, <1>8, <1>9 DEF ClientStep, HostStep

\* What is said of a client is said of its own state.
LEMMA OwnState ==
  ASSUME NEW g \in Host, StageOf(g), TalkOf(g),
         st'[g] = st[g], asks'[g] = asks[g], replied'[g] = replied[g], counter'[g] = counter[g],
         wire'[g] = wire[g], shell'[g] = shell[g], typed'[g] = typed[g], ran'[g] = ran[g],
         page'[g] = page[g], mishap'[g] = mishap[g]
  PROVE  StageOf(g)' /\ TalkOf(g)'
BY DEF StageOf, TalkOf

\* Names are resolved, connections are opened and closed, commands are written.
LEMMA QuietSteps ==
  ASSUME TalkInv, NEW h \in Host,
         Resolved(h) \/ Connected(h) \/ AsksProxy(h) \/ Written(h) \/ ClientEnds(h)
  PROVE  ConsoleTypeOK' /\ StageOf(h)' /\ TalkOf(h)'
<1> USE ConsoleAssumption DEF TalkInv
<1>0. ConsoleTypeOK /\ StageOf(h) /\ TalkOf(h)
  OBVIOUS
<1>1. CASE Resolved(h)
  BY <1>0, <1>1 DEF Resolved, Goto, ConsoleTypeOK, StageOf, TalkOf
<1>2. CASE AsksProxy(h)
  BY <1>0, <1>2 DEF AsksProxy, ConsoleTypeOK, StageOf, TalkOf
<1>3. CASE Written(h)
  <2>1. st[h] = "write" /\ typed[h] < counter[h]
    BY <1>0, <1>3 DEF Written, StageOf
  <2>2. typed' \in [Host -> 0 .. Commands + 1]
    <3>1. typed[h] + 1 \in 0 .. Commands + 1
      BY <1>0, <2>1 DEF ConsoleTypeOK
    <3> QED
      BY <1>0, <1>3, <3>1 DEF Written, ConsoleTypeOK
  <2>3. StageOf(h)' /\ TalkOf(h)'
    BY <1>0, <1>3, <2>1 DEF Written, Goto, ConsoleTypeOK, StageOf, TalkOf
  <2> QED
    BY <1>0, <1>3, <2>2, <2>3 DEF Written, Goto, ConsoleTypeOK
<1>4. CASE ClientEnds(h)
  BY <1>0, <1>4 DEF ClientEnds, Goto, ConsoleTypeOK, StageOf, TalkOf
<1>5. CASE Connected(h)
  <2>1. CASE st'[h] = "over" /\ UNCHANGED <<asks, shell, wire>> /\ Goto(h, "over")
    BY <1>0, <1>5, <2>1 DEF Connected, Goto, ConsoleTypeOK, StageOf, TalkOf
  <2>2. CASE h \in Proxied /\ Goto(h, "read") /\ asks' = [asks EXCEPT ![h] = "sending"] /\ UNCHANGED <<shell, wire>>
    BY <1>0, <1>5, <2>2 DEF Connected, Goto, ConsoleTypeOK, StageOf, TalkOf
  <2>3. CASE h \notin Proxied /\ Goto(h, "read") /\ shell' = [shell EXCEPT ![h] = "up"] /\ Sends(h, Prompt) /\ UNCHANGED asks
    <3> DEFINE w == wire[h] \o Prompt
    <3>1. st[h] = "connect" /\ wire[h] = <<>> /\ replied[h] /\ shell[h] = "away"
      BY <1>0, <1>5, <2>3 DEF Connected, StageOf
    <3>2. wire' = [wire EXCEPT ![h] = w] /\ UNCHANGED <<form, replied, counter, typed, ran, page, mishap, asks>>
      BY <1>5, <2>3 DEF Connected, Sends
    <3>3. w = <<>> \o Prompt
      BY <3>1
    <3> HIDE DEF w
    <3>4. w \in Seq(Bit) /\ Live(w) /\ Whole(w) /\ WireOf(w, TRUE) /\ Unread(w) = 1
      <4>1. w \in Seq(Bit) /\ Live(w) /\ Whole(w) /\ WireOf(w, TRUE)
        BY ONLY <3>3, FirstPieces
      <4> QED
        BY ONLY <4>1 DEF Unread
    <3>5. wire' \in [Host -> Seq(Bit)] /\ wire'[h] = w
      BY <1>0, <3>2, <3>4 DEF ConsoleTypeOK, Bit
    <3>6. ConsoleTypeOK'
      BY <1>0, <2>3, <3>2, <3>5 DEF Goto, ConsoleTypeOK, Bit
    <3>7. /\ st'[h] = "read" /\ shell'[h] = "up" /\ asks'[h] = asks[h] /\ counter'[h] = counter[h]
          /\ typed'[h] = typed[h] /\ ran'[h] = ran[h] /\ replied'[h] = replied[h] /\ page'[h] = page[h]
          /\ mishap'[h] = mishap[h]
      BY <1>0, <2>3, <3>2 DEF Goto, ConsoleTypeOK
    <3>8. counter[h] = 0 /\ ran[h] = 0 /\ typed[h] = 0
      BY <1>0, <3>1 DEF StageOf, ConsoleTypeOK
    <3>9. StageOf(h)'
      BY <1>0, <3>1, <3>5, <3>7, <3>8 DEF StageOf
    <3>10. TalkOf(h)'
      <4> SUFFICES ASSUME "mark" \notin mishap[h] PROVE TalkOf(h)'
        BY <3>7 DEF TalkOf
      <4>1. mishap[h] = {} => IsSession(page[h], counter[h])
        BY <1>0 DEF TalkOf
      <4>2. /\ WireOf(wire'[h], replied'[h]) /\ Whole(wire'[h])
            /\ mishap'[h] = {} => IsSession(page'[h], counter'[h])
        BY ONLY <3>1, <3>4, <3>5, <3>7, <4>1
      <4>3. counter'[h] = 0 /\ ran'[h] = 0 /\ Unread(wire'[h]) = 1
        BY ONLY <3>4, <3>5, <3>7, <3>8
      <4> QED
        BY ONLY <4>2, <4>3, ConsoleAssumption DEF TalkOf
    <3> QED
      BY <3>6, <3>9, <3>10
  <2> QED
    BY <1>0, <1>5, <2>1, <2>2, <2>3 DEF Connected, Goto, ConsoleTypeOK
<1> QED
  BY <1>1, <1>2, <1>3, <1>4, <1>5

\* The proxy answers: nothing has been read, typed or run yet.
LEMMA ProxyAnswersKeeps ==
  ASSUME TalkInv, NEW h \in Host, ProxyAnswers(h)
  PROVE  ConsoleTypeOK' /\ StageOf(h)' /\ TalkOf(h)'
<1> USE ConsoleAssumption
<1>0. ConsoleTypeOK /\ StageOf(h) /\ TalkOf(h)
  BY DEF TalkInv
<1>1. /\ shell[h] = "away" /\ ~replied[h] /\ wire[h] = <<>> /\ counter[h] = 0 /\ typed[h] = 0 /\ ran[h] = 0
      /\ h \in Proxied /\ st[h] \notin {"resolve", "connect", "write"}
  BY <1>0 DEF ProxyAnswers, StageOf, ConsoleTypeOK
<1>2. PICK a \in {"through", "refused"}, s \in {"up", "away"}, w \in Seq(Bit) :
        /\ asks' = [asks EXCEPT ![h] = a] /\ shell' = [shell EXCEPT ![h] = s] /\ wire' = [wire EXCEPT ![h] = w]
        /\ s = "away" => w \in {<<>>, <<"reply">>} /\ ~Live(w)
        /\ WireOf(w, FALSE) /\ Whole(w)
  <2>1. CASE asks' = [asks EXCEPT ![h] = "through"] /\ shell' = [shell EXCEPT ![h] = "up"] /\ Sends(h, <<"reply">> \o Prompt)
    <3> DEFINE w == <<>> \o (<<"reply">> \o Prompt)
    <3>1. w \in Seq(Bit) /\ Whole(w) /\ WireOf(w, FALSE)
      BY ONLY FirstPieces
    <3>2. wire' = [wire EXCEPT ![h] = w]
      BY <1>1, <2>1 DEF Sends
    <3> HIDE DEF w
    <3> QED
      BY ONLY <2>1, <3>1, <3>2
  <2>2. CASE asks' = [asks EXCEPT ![h] = "refused"] /\ Sends(h, <<"reply">>) /\ UNCHANGED shell
    <3> DEFINE w == <<"reply">>
    <3>1. w \in Seq(Bit) /\ ~Live(w) /\ WireOf(w, FALSE)
      BY ONLY FirstPieces
    <3>2. wire' = [wire EXCEPT ![h] = w]
      <4>1. wire' = [wire EXCEPT ![h] = <<>> \o <<"reply">>]
        BY <1>1, <2>2 DEF Sends
      <4>2. <<>> \o <<"reply">> = w
        BY ONLY FirstPieces
      <4> QED
        BY ONLY <4>1, <4>2
    <3>3. shell' = [shell EXCEPT ![h] = "away"]
      BY <1>0, <1>1, <2>2 DEF ConsoleTypeOK
    <3>4. w \in {<<>>, <<"reply">>}
      OBVIOUS
    <3> HIDE DEF w
    <3>5. Whole(w)
      BY ONLY <3>1 DEF Whole
    <3> QED
      BY ONLY <2>2, <3>1, <3>2, <3>3, <3>4, <3>5
  <2>3. CASE asks' = [asks EXCEPT ![h] = "refused"] /\ UNCHANGED <<shell, wire>>
    <3>1. wire' = [wire EXCEPT ![h] = <<>>] /\ shell' = [shell EXCEPT ![h] = "away"]
      BY <1>0, <1>1, <2>3 DEF ConsoleTypeOK
    <3>2. <<>> \in Seq(Bit) /\ ~Live(<<>>) /\ Whole(<<>>) /\ WireOf(<<>>, FALSE)
      BY ONLY FirstPieces
    <3> QED
      BY ONLY <2>3, <3>1, <3>2
  <2> QED
    BY <2>1, <2>2, <2>3 DEF ProxyAnswers
<1>3. UNCHANGED <<form, st, replied, counter, typed, ran, page, mishap>>
  BY DEF ProxyAnswers
<1>4. asks'[h] = a /\ shell'[h] = s /\ wire'[h] = w
  BY <1>0, <1>2 DEF ConsoleTypeOK
<1>5. ConsoleTypeOK'
  <2>1. wire' \in [Host -> Seq(Bit)]
    BY <1>0, <1>2 DEF ConsoleTypeOK, Bit
  <2> QED
    BY <1>0, <1>2, <1>3, <2>1 DEF ConsoleTypeOK, Bit
<1>6. StageOf(h)'
  BY <1>0, <1>1, <1>2, <1>3, <1>4 DEF StageOf
<1>7. TalkOf(h)'
  <2>1. WireOf(wire'[h], replied'[h]) /\ Whole(wire'[h])
    <3>1. replied'[h] = FALSE
      BY <1>0, <1>1, <1>3 DEF ConsoleTypeOK
    <3> QED
      BY ONLY <1>2, <1>4, <3>1
  <2>2. counter'[h] = 0 /\ ran'[h] = 0 /\ Unread(wire'[h]) \in {0, 1}
    BY <1>1, <1>3 DEF Unread
  <2>3. "mark" \notin mishap'[h] => (mishap'[h] = {} => IsSession(page'[h], counter'[h]))
    BY <1>0, <1>3 DEF TalkOf
  <2> QED
    BY ONLY <2>1, <2>2, <2>3, ConsoleAssumption DEF TalkOf
<1> QED
  BY <1>5, <1>6, <1>7

\* A command is run, and the next prompt comes after its output.
LEMMA RunsCommandKeeps ==
  ASSUME TalkInv, NEW h \in Host, RunsCommand(h)
  PROVE  ConsoleTypeOK' /\ StageOf(h)' /\ TalkOf(h)'
<1> USE ConsoleAssumption
<1>0. ConsoleTypeOK /\ StageOf(h) /\ TalkOf(h)
  BY DEF TalkInv
<1>1. /\ shell[h] = "up" /\ ran[h] < typed[h] /\ ran' = [ran EXCEPT ![h] = ran[h] + 1]
      /\ UNCHANGED <<form, st, asks, replied, counter, typed, page, mishap>>
  BY DEF RunsCommand
<1>2. /\ ran[h] \in Nat /\ typed[h] \in Nat /\ counter[h] \in Nat /\ typed[h] <= counter[h]
      /\ typed[h] <= Commands + 1
      /\ ran'[h] = ran[h] + 1 /\ ran' \in [Host -> 0 .. Commands + 1] /\ wire[h] \in Seq(Bit) /\ replied[h] \in BOOLEAN
  <2>1. ran[h] \in 0 .. Commands + 1 /\ typed[h] \in 0 .. Commands + 1 /\ counter[h] \in 0 .. Commands + 1 /\ typed[h] <= counter[h]
    BY <1>0 DEF ConsoleTypeOK, StageOf
  <2>2. ran[h] + 1 \in 0 .. Commands + 1
    BY <1>1, <2>1
  <2> QED
    BY <1>0, <1>1, <2>1, <2>2 DEF ConsoleTypeOK, Bit
<1>3. replied[h]
  BY <1>0, <1>1, <1>2 DEF StageOf
<1>4. CASE /\ ran'[h] = Commands \/ ran'[h] < Commands
           /\ \E s \in {"closed", "busy"} : shell' = [shell EXCEPT ![h] = s]
           /\ UNCHANGED wire
  <2>1. PICK s \in {"closed", "busy"} : shell' = [shell EXCEPT ![h] = s] /\ UNCHANGED wire
    BY <1>4
  <2>2. ConsoleTypeOK'
    BY <1>0, <1>1, <1>2, <2>1 DEF ConsoleTypeOK
  <2>3. StageOf(h)'
    BY <1>0, <1>1, <1>2, <2>1 DEF StageOf, ConsoleTypeOK
  <2>4. TalkOf(h)'
    <3> SUFFICES ASSUME "mark" \notin mishap[h] PROVE TalkOf(h)'
      BY <1>1 DEF TalkOf
    <3>1. /\ WireOf(wire[h], replied[h])
          /\ counter[h] + Unread(wire[h]) <= Commands
          /\ ran[h] < Commands => counter[h] + Unread(wire[h]) <= ran[h] + 1
          /\ mishap[h] = {} => Whole(wire[h]) /\ IsSession(page[h], counter[h])
      BY <1>0 DEF TalkOf
    <3>2. Unread(wire[h]) \in {0, 1}
      BY DEF Unread
    <3>3. ran'[h] < Commands => counter[h] + Unread(wire[h]) <= ran'[h] + 1
      BY <1>2, <3>1, <3>2
    <3> QED
      BY <1>1, <2>1, <3>1, <3>3 DEF TalkOf
  <2> QED
    BY <2>2, <2>3, <2>4
<1>5. CASE ran'[h] < Commands /\ (\E o \in Outputs : Sends(h, o \o Prompt)) /\ UNCHANGED shell
  <2>1. PICK o \in Outputs : wire' = [wire EXCEPT ![h] = wire[h] \o (o \o Prompt)]
    BY <1>5 DEF Sends
  <2>2. UNCHANGED shell
    BY <1>5
  <2>3. o \in Seq(Bit) /\ \A i \in 1 .. Len(o) : o[i] \in {"text", "mark"}
    <3>1. o \in Seq({"text", "mark"}) /\ {"text", "mark"} \subseteq Bit
      BY DEF Bit, Piece
    <3> QED
      BY ONLY <3>1, SeqMonotonic, ElementOfSeq
  <2> DEFINE u == wire[h] \o (o \o Prompt)
  <2>4. u \in Seq(Bit)
    <3>1. Prompt \in Seq(Bit \cup {"%", " "}) /\ Bit \cup {"%", " "} = Bit
      BY PromptPieces DEF Bit, Piece
    <3>2. o \o Prompt \in Seq(Bit)
      BY <2>3, <3>1, ConcatProperties
    <3> QED
      BY <1>2, <3>2, ConcatProperties
  <2> HIDE DEF u
  <2>5. wire' \in [Host -> Seq(Bit)] /\ wire'[h] = u
    <3>1. wire' = [wire EXCEPT ![h] = u]
      BY <2>1 DEF u
    <3> QED
      BY <1>0, <2>4, <3>1 DEF ConsoleTypeOK, Bit
  <2>6. ConsoleTypeOK'
    BY <1>0, <1>1, <1>2, <2>2, <2>5 DEF ConsoleTypeOK, Bit
  <2>7. StageOf(h)'
    BY <1>0, <1>1, <1>2, <1>3, <2>2 DEF StageOf
  <2>8. TalkOf(h)'
    <3> SUFFICES ASSUME "mark" \notin mishap[h] PROVE TalkOf(h)'
      BY <1>1 DEF TalkOf
    <3>1. /\ WireOf(wire[h], replied[h])
          /\ counter[h] + Unread(wire[h]) <= Commands
          /\ ran[h] < Commands => counter[h] + Unread(wire[h]) <= ran[h] + 1
          /\ mishap[h] = {} => IsSession(page[h], counter[h])
      BY <1>0 DEF TalkOf
    <3>2. Unread(wire[h]) \in {0, 1}
      BY DEF Unread
    <3>3. Unread(wire[h]) = 0 /\ counter[h] = ran[h] + 1 /\ counter[h] < Commands
      BY <1>1, <1>2, <1>5, <3>1, <3>2
    <3>4. ~Live(wire[h])
      BY <3>3 DEF Unread
    <3>5. WireOf(u, replied[h]) /\ Live(u) /\ Whole(u)
      BY <1>2, <1>3, <2>3, <3>1, <3>4, OutputSent DEF u
    <3>6. Unread(wire'[h]) = 1
      BY <2>5, <3>5 DEF Unread
    <3>7. /\ counter'[h] + Unread(wire'[h]) <= Commands
          /\ counter'[h] + Unread(wire'[h]) <= ran'[h] + 1
      BY <1>1, <1>2, <3>3, <3>6
    <3> QED
      BY <1>1, <2>5, <3>1, <3>5, <3>7 DEF TalkOf
  <2> QED
    BY <2>6, <2>7, <2>8
<1> QED
  BY <1>4, <1>5 DEF RunsCommand

\* The reply of the proxy is read, with what came with it.
LEMMA ReadReplyKeeps ==
  ASSUME TalkInv, NEW h \in Host, ReadReply(h)
  PROVE  ConsoleTypeOK' /\ StageOf(h)' /\ TalkOf(h)'
<1>0. ConsoleTypeOK /\ StageOf(h) /\ TalkOf(h)
  BY DEF TalkInv
<1>1. PICK n \in 1 .. Len(wire[h]) :
        /\ wire' = [wire EXCEPT ![h] = SubSeq(wire[h], n + 1, Len(wire[h]))]
        /\ mishap' = [mishap EXCEPT ![h] = IF n > 1 THEN mishap[h] \cup {"swallowed"} ELSE mishap[h]]
  BY DEF ReadReply, Arrived, Takes
<1>2. /\ st[h] = "read" /\ ~replied[h] /\ replied' = [replied EXCEPT ![h] = TRUE]
      /\ UNCHANGED <<form, st, asks, counter, shell, typed, ran, page>>
  BY DEF ReadReply
<1> DEFINE w == wire[h]
           u == SubSeq(w, n + 1, Len(w))
<1>3. w \in Seq(Bit) /\ w # <<>> /\ u \in Seq(Bit) /\ Len(u) = Len(w) - n /\ Len(w) \in Nat
  <2>1. w \in Seq(Bit)
    BY <1>0 DEF ConsoleTypeOK, Bit
  <2> QED
    BY <2>1, Cut, LenProperties, EmptySeq
<1>4. wire'[h] = u /\ wire' \in [Host -> Seq(Bit)] /\ replied'[h] = TRUE
  BY <1>0, <1>1, <1>2, <1>3 DEF ConsoleTypeOK, Bit
<1>5. /\ "mark" \in mishap[h] => "mark" \in mishap'[h]
      /\ mishap'[h] = {} => mishap[h] = {} /\ n = 1
      /\ mishap' \in [Host -> SUBSET {"split", "swallowed", "mark"}]
  <2>1. mishap[h] \subseteq {"split", "swallowed", "mark"}
    BY <1>0 DEF ConsoleTypeOK
  <2>2. mishap'[h] = IF n > 1 THEN mishap[h] \cup {"swallowed"} ELSE mishap[h]
    BY <1>0, <1>1 DEF ConsoleTypeOK
  <2>3. mishap'[h] \in SUBSET {"split", "swallowed", "mark"}
    BY <2>1, <2>2
  <2>4. mishap' \in [Host -> SUBSET {"split", "swallowed", "mark"}]
    BY <1>0, <1>1, <2>2, <2>3 DEF ConsoleTypeOK
  <2>5. /\ "mark" \in mishap[h] => "mark" \in mishap'[h]
        /\ mishap'[h] = {} => mishap[h] = {} /\ n = 1
    BY <2>2
  <2> QED
    BY <2>4, <2>5
<1>6. ConsoleTypeOK'
  BY <1>0, <1>2, <1>4, <1>5 DEF ConsoleTypeOK, Bit
<1>7. w = <<"reply">> => u = <<>>
  BY <1>3, EmptySeq
<1>8. StageOf(h)'
  <2>1. shell[h] = "away" => u \in {<<>>, <<"reply">>}
    <3>1. shell[h] = "away" => w \in {<<>>, <<"reply">>}
      BY <1>0 DEF StageOf
    <3> QED
      BY ONLY <1>3, <1>7, <3>1
  <2>2. asks[h] \notin {"sending", "sent"}
    BY <1>0, <1>3 DEF StageOf
  <2> HIDE DEF w, u
  <2> QED
    BY <1>0, <1>2, <1>4, <2>1, <2>2 DEF StageOf, ConsoleTypeOK
<1>9. TalkOf(h)'
  <2> SUFFICES ASSUME "mark" \notin mishap[h] PROVE TalkOf(h)'
    BY <1>5 DEF TalkOf
  <2>1. /\ WireOf(w, replied[h])
        /\ counter[h] + Unread(w) <= Commands
        /\ ran[h] < Commands => counter[h] + Unread(w) <= ran[h] + 1
        /\ mishap[h] = {} => Whole(w) /\ IsSession(page[h], counter[h])
    BY <1>0 DEF TalkOf
  <2>2. w[1] = "reply" /\ replied[h] \in BOOLEAN
    BY <1>0, <1>2, <1>3, <2>1 DEF WireOf, ConsoleTypeOK
  <2>3. /\ WireOf(u, TRUE)
        /\ Live(u) => Live(w) /\ n < Len(w)
        /\ Whole(w) /\ Live(u) /\ w[n] # "%" => Whole(u)
    BY <1>3, <2>1, <2>2, RestOfWire
  <2> HIDE DEF w, u
  <2>4. mishap'[h] = {} => Whole(u)
    <3>1. ~Live(u) => Whole(u)
      BY ONLY TRUE DEF Whole
    <3> QED
      BY ONLY <1>5, <2>1, <2>2, <2>3, <3>1
  <2>5. Unread(u) \in {0, 1} /\ Unread(w) \in {0, 1} /\ Unread(u) <= Unread(w)
    BY ONLY <2>3 DEF Unread
  <2>6. /\ counter[h] + Unread(u) <= Commands
        /\ ran[h] < Commands => counter[h] + Unread(u) <= ran[h] + 1
    <3>1. counter[h] \in Nat /\ ran[h] \in Nat /\ Commands \in Nat
      BY <1>0, ConsoleAssumption DEF ConsoleTypeOK
    <3> QED
      BY ONLY <2>1, <2>5, <3>1
  <2> QED
    BY ONLY <1>2, <1>4, <1>5, <2>1, <2>3, <2>4, <2>6 DEF TalkOf
<1> QED
  BY <1>6, <1>8, <1>9

Plain(c) == \A i \in 1 .. Len(c) : c[i] = "text"

EndsInPrompt(c) == /\ Len(c) > 1 /\ c[Len(c) - 1] = "%" /\ c[Len(c)] = " "
                   /\ \A i \in 1 .. Len(c) - 2 : c[i] = "text"

SplitAt(w, n) == n < Len(w) /\ w[n] = "%"

\* What a read finds: a prompt that ends it, or output alone, unless it was misled.
LEMMA WhatIsRead ==
  ASSUME NEW w \in Seq(Bit), WireOf(w, TRUE), NEW n \in 1 .. Len(w),
         NEW c, c = SubSeq(w, 1, n), "mark" \notin ToSet(c)
  PROVE  /\ HasPrompt(c) => n = Len(w) /\ Live(w) /\ EndsInPrompt(c)
         /\ ~HasPrompt(c) /\ Whole(w) /\ ~SplitAt(w, n) => Plain(c)
<1>1. /\ Len(w) \in Nat /\ c \in Seq(Bit) /\ Len(c) = n
      /\ \A i \in 1 .. n : c[i] = w[i]
  BY Cut, LenProperties
<1>2. \A i \in 1 .. n : i \in 1 .. Len(w)
  BY <1>1
<1>3. /\ \A i \in 1 .. Len(w) : /\ w[i] = "%" => i = Len(w) - 1 /\ w[Len(w)] = " "
                                /\ w[i] = " " => i = Len(w)
                                /\ w[i] # "reply"
  BY DEF WireOf
<1>4. /\ HasPrompt(c) => \E i \in 1 .. n - 1 : c[i] = "%" /\ c[i + 1] = " "
      /\ (\E i \in 1 .. n - 1 : c[i] = "%" /\ c[i + 1] = " ") => HasPrompt(c)
      /\ \A i \in 1 .. n : c[i] # "mark"
  BY <1>1, WherePrompt
<1>5. ASSUME NEW i \in 1 .. n
      PROVE  /\ c[i] \in {"%", " ", "text"}
             /\ c[i] = "%" => i = Len(w) - 1 /\ w[Len(w)] = " "
             /\ c[i] = " " => i = Len(w)
  <2>1. c[i] \in Bit /\ c[i] # "mark" /\ c[i] = w[i] /\ i \in 1 .. Len(w)
    BY <1>1, <1>2, <1>4, ElementOfSeq
  <2>2. c[i] # "reply"
    BY ONLY <1>3, <2>1
  <2>3. c[i] \in {"%", " ", "text"}
    BY ONLY <2>1, <2>2 DEF Bit, Piece
  <2>4. /\ c[i] = "%" => i = Len(w) - 1 /\ w[Len(w)] = " "
        /\ c[i] = " " => i = Len(w)
    BY ONLY <1>3, <2>1
  <2> QED
    BY ONLY <2>3, <2>4
<1>n. n \in Nat /\ n >= 1 /\ n <= Len(w) /\ Len(w) \in Nat
  BY <1>1
<1>6. ASSUME HasPrompt(c)
      PROVE  /\ n = Len(w) /\ Live(w) /\ n > 1 /\ c[n - 1] = "%" /\ c[n] = " "
             /\ \A i \in 1 .. n - 2 : c[i] = "text"
  <2>1. PICK i \in 1 .. n - 1 : c[i] = "%" /\ c[i + 1] = " "
    BY <1>4, <1>6
  <2>2. i \in 1 .. n /\ i + 1 \in 1 .. n
    BY ONLY <1>n, i \in 1 .. n - 1
  <2>3. i = Len(w) - 1 /\ w[Len(w)] = " "
    BY ONLY <1>5, <2>1, <2>2
  <2>4. n = Len(w) /\ n > 1 /\ i = n - 1 /\ i + 1 = n
    <3>1. i = Len(w) - 1
      BY ONLY <2>3
    <3> QED
      BY ONLY <1>n, <2>2, <3>1
  <2>5. \A j \in 1 .. n - 2 : j \in 1 .. n /\ j # Len(w) - 1 /\ j # Len(w)
    BY ONLY <1>n, <2>4
  <2>6. \A j \in 1 .. n - 2 : c[j] = "text"
    BY ONLY <1>5, <2>5
  <2>7. w # <<>>
    BY EmptySeq
  <2> QED
    BY ONLY <2>1, <2>3, <2>4, <2>6, <2>7 DEF Live
<1>7. ASSUME ~HasPrompt(c), Whole(w), ~SplitAt(w, n), NEW i \in 1 .. n
      PROVE  c[i] = "text"
  <2>1. c[i] = w[i]
    BY <1>1
  <2>2. CASE c[i] = "%"
    <3>1. i = Len(w) - 1 /\ w[Len(w)] = " "
      BY ONLY <1>5, <2>2, i \in 1 .. n
    <3>0. i = Len(w) - 1
      BY ONLY <3>1
    <3>2. n = i \/ n = Len(w)
      BY ONLY <1>n, <3>0, i \in 1 .. n
    <3>3. CASE n = i
      <4>0. n < Len(w)
        BY ONLY <1>n, <3>0, <3>3
      <4>1. n < Len(w) /\ w[n] = "%"
        BY ONLY <2>1, <2>2, <3>3, <4>0
      <4> QED
        BY ONLY <1>7, <4>1 DEF SplitAt
    <3>4. CASE n = Len(w)
      <4>1. i \in 1 .. n - 1 /\ i + 1 = n /\ n \in 1 .. n
        BY ONLY <1>n, <3>0, <3>4, i \in 1 .. n
      <4>2. c[i + 1] = " "
        BY ONLY <1>1, <3>1, <3>4, <4>1
      <4> QED
        BY ONLY <1>4, <1>7, <2>2, <4>1, <4>2
    <3> QED
      BY ONLY <3>2, <3>3, <3>4
  <2>3. CASE c[i] = " "
    <3>1. i = Len(w)
      BY ONLY <1>5, <2>3, i \in 1 .. n
    <3>2. n = Len(w) /\ n = i
      BY ONLY <1>n, <3>1, i \in 1 .. n
    <3>3. w # <<>>
      BY EmptySeq
    <3>4. Len(w) > 1 /\ w[Len(w) - 1] = "%"
      BY ONLY <1>7, <2>1, <2>3, <3>1, <3>3 DEF Whole, Live
    <3>5. n - 1 \in 1 .. n - 1 /\ n - 1 \in 1 .. n /\ n - 1 + 1 = n
      BY ONLY <1>n, <3>2, <3>4
    <3>6. c[n - 1] = "%" /\ c[n - 1 + 1] = " "
      BY ONLY <1>1, <2>3, <3>2, <3>4, <3>5
    <3> QED
      BY ONLY <1>4, <1>7, <3>5, <3>6
  <2> QED
    BY ONLY <1>5, <2>2, <2>3, i \in 1 .. n
<1>8. Len(c) = n
  BY <1>1
<1> QED
  BY ONLY <1>6, <1>7, <1>8 DEF EndsInPrompt, Plain, SplitAt

\* A read is displayed, and the next line of the file with it when a prompt was found.
LEMMA ReadChunkKeeps ==
  ASSUME TalkInv, NEW h \in Host, ReadChunk(h)
  PROVE  ConsoleTypeOK' /\ StageOf(h)' /\ TalkOf(h)'
<1>0. ConsoleTypeOK /\ StageOf(h) /\ TalkOf(h)
  BY DEF TalkInv
<1> DEFINE w == wire[h]
           k == counter[h]
           p == page[h]
<1>1. PICK n \in 1 .. Len(w) :
        LET c == SubSeq(w, 1, n) IN
        /\ wire' = [wire EXCEPT ![h] = SubSeq(w, n + 1, Len(w))]
        /\ mishap' = [mishap EXCEPT ![h] = mishap[h] \cup (IF SplitAt(w, n) THEN {"split"} ELSE {})
                                                    \cup (IF "mark" \in ToSet(c) THEN {"mark"} ELSE {})]
        /\ IF HasPrompt(c)
             THEN /\ k + 1 <= Commands + 1
                  /\ st' = [st EXCEPT ![h] = "write"]
                  /\ counter' = [counter EXCEPT ![h] = k + 1]
                  /\ page' = [page EXCEPT ![h] = Append(p \o Output(c), Line(k + 1))]
             ELSE /\ page' = [page EXCEPT ![h] = p \o Output(c)]
                  /\ UNCHANGED <<st, counter>>
  BY DEF ReadChunk, Arrived, Takes, IsSplit, SplitAt, PostIncrement, Displayed, Goto
<1>2. /\ st[h] = "read" /\ replied[h]
      /\ UNCHANGED <<form, asks, replied, shell, typed, ran>>
  BY DEF ReadChunk
<1> DEFINE c == SubSeq(w, 1, n)
           u == SubSeq(w, n + 1, Len(w))
           q == Output(c)
<1>3. /\ w \in Seq(Bit) /\ Len(w) \in Nat /\ c \in Seq(Bit) /\ Len(c) = n
      /\ \A i \in 1 .. n : c[i] = w[i]
      /\ u \in Seq(Bit) /\ Len(u) = Len(w) - n
  <2>1. w \in Seq(Bit)
    BY <1>0 DEF ConsoleTypeOK, Bit
  <2> QED
    BY <2>1, Cut, LenProperties
<1>4. q \in Seq(Shown) /\ Len(q) = n /\ \A i \in 1 .. n : q[i].piece = c[i]
  BY <1>3, OutputShown
<1>5. /\ k \in 0 .. Commands + 1 /\ k \in Nat /\ Commands \in Nat /\ ran[h] \in Nat /\ typed[h] \in Nat
      /\ p \in Seq(Shown) /\ replied[h] = TRUE
  <2>1. p \in Seq(Shown)
    BY <1>0 DEF ConsoleTypeOK, Shown
  <2>2. k \in 0 .. Commands + 1 /\ ran[h] \in 0 .. Commands + 1 /\ typed[h] \in 0 .. Commands + 1 /\ replied[h] \in BOOLEAN
    BY <1>0 DEF ConsoleTypeOK
  <2> HIDE DEF k, p
  <2> QED
    BY <1>2, <2>1, <2>2, ConsoleAssumption
<1>c. /\ wire' = [wire EXCEPT ![h] = u]
      /\ mishap' = [mishap EXCEPT ![h] = mishap[h] \cup (IF SplitAt(w, n) THEN {"split"} ELSE {})
                                                    \cup (IF "mark" \in ToSet(c) THEN {"mark"} ELSE {})]
      /\ HasPrompt(c) => /\ k + 1 <= Commands + 1
                         /\ st' = [st EXCEPT ![h] = "write"]
                         /\ counter' = [counter EXCEPT ![h] = k + 1]
                         /\ page' = [page EXCEPT ![h] = Append(p \o q, Line(k + 1))]
      /\ ~HasPrompt(c) => page' = [page EXCEPT ![h] = p \o q] /\ UNCHANGED <<st, counter>>
  BY <1>1
<1> HIDE DEF c, u, q
<1>l. Len(w) \in Nat /\ Len(u) = Len(w) - n /\ n \in Nat
  BY <1>3
<1>6. wire'[h] = u /\ wire' \in [Host -> Seq(Bit)]
  BY <1>0, <1>3, <1>c DEF ConsoleTypeOK, Bit
<1>7. /\ mishap' \in [Host -> SUBSET {"split", "swallowed", "mark"}]
      /\ "mark" \notin mishap'[h] => "mark" \notin mishap[h] /\ "mark" \notin ToSet(c)
      /\ mishap'[h] = {} => mishap[h] = {} /\ ~SplitAt(w, n)
  <2> DEFINE m == mishap[h] \cup (IF SplitAt(w, n) THEN {"split"} ELSE {})
                           \cup (IF "mark" \in ToSet(c) THEN {"mark"} ELSE {})
  <2>1. mishap[h] \in SUBSET {"split", "swallowed", "mark"}
    BY <1>0 DEF ConsoleTypeOK
  <2>2. m \in SUBSET {"split", "swallowed", "mark"}
    BY <2>1
  <2>3. /\ "mark" \notin m => "mark" \notin mishap[h] /\ "mark" \notin ToSet(c)
        /\ m = {} => mishap[h] = {} /\ ~SplitAt(w, n)
    OBVIOUS
  <2>4. mishap' = [mishap EXCEPT ![h] = m]
    BY <1>c
  <2> HIDE DEF m
  <2> QED
    BY <1>0, <2>2, <2>3, <2>4 DEF ConsoleTypeOK
<1>8. p \o q \in Seq(Shown)
  BY <1>4, <1>5, ConcatProperties
<1> HIDE DEF p, k, w
\* What has come before the connection was there is no prompt.
<1>9. shell[h] = "away" => ~HasPrompt(c) /\ u = <<>> /\ k = 0
  <2> SUFFICES ASSUME shell[h] = "away" PROVE ~HasPrompt(c) /\ u = <<>> /\ k = 0
    OBVIOUS
  <2>1. k = 0 /\ w \in {<<>>, <<"reply">>}
    BY <1>0 DEF StageOf, k, w
  <2>2. Len(w) > 0
    BY <1>3
  <2>3. w # <<>>
    BY <2>2, EmptySeq
  <2>4. w = <<"reply">>
    BY ONLY <2>1, <2>3
  <2>5. Len(w) = 1 /\ w[1] = "reply"
    BY <2>4
  <2>6. n = 1
    BY <2>5
  <2>7. c[1] = "reply" /\ Len(c) = 1
    BY ONLY <1>3, <2>5, <2>6
  <2>8. u = <<>>
    <3>1. Len(u) = 0
      BY ONLY <1>3, <2>5, <2>6
    <3> QED
      BY ONLY <1>3, <3>1, EmptySeq
  <2>9. ~HasPrompt(c)
    <3>1. 1 .. Len(c) - 1 = {} /\ 1 .. Len(c) = {1}
      BY ONLY <2>7
    <3>2. "mark" \notin ToSet(c)
      BY <1>3, <2>7, <3>1, WherePrompt
    <3> QED
      BY <1>3, <3>1, <3>2, WherePrompt
  <2> QED
    BY <2>1, <2>8, <2>9
\* Unless the prompt was in the output, it is the end of what was sent.
<1>10. ASSUME "mark" \notin mishap'[h]
       PROVE  /\ WireOf(w, TRUE) /\ WireOf(u, TRUE)
              /\ Live(u) => Live(w) /\ n < Len(w)
              /\ Whole(w) /\ Live(u) /\ w[n] # "%" => Whole(u)
              /\ k + Unread(w) <= Commands
              /\ ran[h] < Commands => k + Unread(w) <= ran[h] + 1
              /\ mishap'[h] = {} => Whole(w) /\ IsSession(p, k)
              /\ HasPrompt(c) => n = Len(w) /\ Live(w) /\ EndsInPrompt(c)
              /\ ~HasPrompt(c) /\ Whole(w) /\ ~SplitAt(w, n) => Plain(c)
  <2>1. /\ WireOf(w, TRUE)
        /\ k + Unread(w) <= Commands
        /\ ran[h] < Commands => k + Unread(w) <= ran[h] + 1
        /\ mishap[h] = {} => Whole(w) /\ IsSession(p, k)
    BY <1>0, <1>5, <1>7, <1>10 DEF TalkOf, w, k, p
  <2>2. "mark" \notin ToSet(c)
    BY <1>7, <1>10
  <2>3. /\ HasPrompt(c) => n = Len(w) /\ Live(w) /\ EndsInPrompt(c)
        /\ ~HasPrompt(c) /\ Whole(w) /\ ~SplitAt(w, n) => Plain(c)
    <3>1. c = SubSeq(w, 1, n)
      BY DEF c
    <3>2. w \in Seq(Bit) /\ WireOf(w, TRUE) /\ n \in 1 .. Len(w)
      BY <1>3, <2>1
    <3> QED
      BY ONLY <2>2, <3>1, <3>2, WhatIsRead
  <2>4. /\ WireOf(u, TRUE)
        /\ Live(u) => Live(w) /\ n < Len(w)
        /\ Whole(w) /\ Live(u) /\ w[n] # "%" => Whole(u)
    BY <1>3, <2>1, RestOfWire DEF u
  <2> QED
    BY ONLY <1>7, <2>1, <2>3, <2>4
<1>11. CASE HasPrompt(c)
  <2> DEFINE r == Append(p \o q, Line(k + 1))
  <2>1. k + 1 \in 0 .. Commands + 1
    BY <1>5, <1>11, <1>c
  <2>2. r \in Seq(Shown)
    <3>1. Line(k + 1) \in Shown
      BY ONLY <2>1 DEF Line, Shown
    <3> QED
      BY ONLY <1>8, <3>1, AppendProperties
  <2> HIDE DEF r
  <2>3. /\ st' = [st EXCEPT ![h] = "write"]
        /\ counter' = [counter EXCEPT ![h] = k + 1]
        /\ page' = [page EXCEPT ![h] = r]
    BY <1>11, <1>c DEF r
  <2>4. st'[h] = "write" /\ counter'[h] = k + 1 /\ page'[h] = r
    BY <1>0, <2>3 DEF ConsoleTypeOK
  <2>5. ConsoleTypeOK'
    <3>1. counter' \in [Host -> 0 .. Commands + 1] /\ st' \in [Host -> {"resolve", "connect", "read", "write", "over"}]
      BY <1>0, <2>1, <2>3 DEF ConsoleTypeOK
    <3>2. page' \in [Host -> Seq(Shown)]
      BY <1>0, <2>2, <2>3 DEF ConsoleTypeOK, Shown
    <3> QED
      BY <1>0, <1>2, <1>6, <1>7, <3>1, <3>2 DEF ConsoleTypeOK, Bit, Shown
  <2>6. StageOf(h)'
    <3>1. shell[h] # "away"
      BY <1>9, <1>11
    <3>2. ran[h] <= typed[h] /\ typed[h] < k + 1 /\ typed[h] <= k + 1
      BY <1>0, <1>5 DEF StageOf, k
    <3>3. asks[h] \notin {"sending", "sent"}
      BY <1>0, <1>2, <3>1 DEF StageOf
    <3> QED
      BY <1>0, <1>2, <2>4, <3>1, <3>2, <3>3 DEF StageOf
  <2>7. TalkOf(h)'
    <3> SUFFICES ASSUME "mark" \notin mishap'[h] PROVE TalkOf(h)'
      BY DEF TalkOf
    <3>1. n = Len(w) /\ Live(w) /\ EndsInPrompt(c)
      BY <1>10, <1>11
    <3>2. u = <<>>
      <4>0. n = Len(w)
        BY ONLY <3>1
      <4>1. Len(u) = 0
        BY ONLY <1>l, <4>0
      <4> QED
        BY ONLY <1>3, <4>1, EmptySeq
    <3>3. Unread(u) = 0 /\ Unread(w) = 1 /\ Whole(u) /\ WireOf(u, TRUE)
      BY ONLY <3>1, <3>2, FirstPieces DEF Unread
    <3>4. /\ k + 1 + Unread(u) <= Commands
          /\ ran[h] < Commands => k + 1 + Unread(u) <= ran[h] + 1
      <4>1. /\ k + Unread(w) <= Commands
            /\ ran[h] < Commands => k + Unread(w) <= ran[h] + 1
        BY <1>10
      <4> QED
        BY ONLY <1>5, <3>3, <4>1
    <3>5. ASSUME mishap'[h] = {}
          PROVE  IsSession(r, k + 1)
      <4>1. IsSession(p, k)
        BY <1>10, <3>5
      <4>2. q[n - 1].piece = "%" /\ q[n].piece = " " /\ \A i \in 1 .. n - 2 : q[i].piece = "text"
        <5>0. n > 1
          BY ONLY <1>3, <3>1 DEF EndsInPrompt
        <5>1. n - 1 \in 1 .. n /\ n \in 1 .. n /\ \A i \in 1 .. n - 2 : i \in 1 .. n
          BY ONLY <1>l, <5>0
        <5>2. c[n - 1] = "%" /\ c[n] = " " /\ \A i \in 1 .. n - 2 : c[i] = "text"
          BY ONLY <1>3, <3>1 DEF EndsInPrompt
        <5> QED
          BY ONLY <1>4, <5>1, <5>2
      <4>3. n > 1
        BY ONLY <1>3, <3>1 DEF EndsInPrompt
      <4> QED
        BY <1>4, <1>5, <4>1, <4>2, <4>3, SessionAdded DEF r
    <3> QED
      BY ONLY <1>2, <1>5, <1>6, <2>4, <3>3, <3>4, <3>5 DEF TalkOf
  <2> QED
    BY <2>5, <2>6, <2>7
<1>12. CASE ~HasPrompt(c)
  <2>1. UNCHANGED <<st, counter>> /\ page' = [page EXCEPT ![h] = p \o q]
    BY <1>12, <1>c
  <2>2. page'[h] = p \o q /\ page' \in [Host -> Seq(Shown)]
    BY <1>0, <1>8, <2>1 DEF ConsoleTypeOK, Shown
  <2>3. ConsoleTypeOK'
    BY <1>0, <1>2, <1>6, <1>7, <2>1, <2>2 DEF ConsoleTypeOK, Bit, Shown
  <2>4. StageOf(h)'
    <3>1. asks[h] \notin {"sending", "sent"}
      BY <1>0, <1>2 DEF StageOf
    <3> QED
      BY <1>0, <1>2, <1>6, <1>9, <2>1, <3>1 DEF StageOf, k
  <2>5. TalkOf(h)'
    <3> SUFFICES ASSUME "mark" \notin mishap'[h] PROVE TalkOf(h)'
      BY DEF TalkOf
    <3>1. Unread(u) \in {0, 1} /\ Unread(w) \in {0, 1} /\ Unread(u) <= Unread(w) /\ WireOf(u, TRUE)
      <4>1. Live(u) => Live(w)
        BY <1>10
      <4>2. WireOf(u, TRUE)
        BY <1>10
      <4>3. Unread(u) \in {0, 1} /\ Unread(w) \in {0, 1} /\ Unread(u) <= Unread(w)
        BY ONLY <4>1 DEF Unread
      <4> QED
        BY ONLY <4>2, <4>3
    <3>2. /\ k + Unread(u) <= Commands
          /\ ran[h] < Commands => k + Unread(u) <= ran[h] + 1
      <4>1. /\ k + Unread(w) <= Commands
            /\ ran[h] < Commands => k + Unread(w) <= ran[h] + 1
        BY <1>10
      <4> QED
        BY ONLY <1>5, <3>1, <4>1
    <3>3. ASSUME mishap'[h] = {}
          PROVE  Whole(u) /\ IsSession(p \o q, k)
      <4>1. Whole(w) /\ IsSession(p, k) /\ ~SplitAt(w, n)
        BY <1>7, <1>10, <3>3
      <4>2. \A i \in 1 .. n : c[i] = "text"
        BY <1>3, <1>10, <1>12, <4>1 DEF Plain
      <4>3. IsSession(p \o q, k)
        BY <1>4, <1>5, <4>1, <4>2, TextAdded
      <4>4. Whole(u)
        BY <1>10, <4>1 DEF Whole, SplitAt
      <4> QED
        BY <4>3, <4>4
    <3>4. counter'[h] = k
      BY <2>1 DEF k
    <3> QED
      BY ONLY <1>2, <1>5, <1>6, <2>2, <3>1, <3>2, <3>3, <3>4 DEF TalkOf
  <2> QED
    BY <2>3, <2>4, <2>5
<1> QED
  BY <1>11, <1>12

\* Any step at a host.
LEMMA HostKeeps ==
  ASSUME TalkInv, NEW h \in Host, ClientStep(h) \/ HostStep(h)
  PROVE  TalkInv'
<1>1. ConsoleTypeOK' /\ StageOf(h)' /\ TalkOf(h)'
  BY QuietSteps, ProxyAnswersKeeps, RunsCommandKeeps, ReadReplyKeeps, ReadChunkKeeps DEF ClientStep, HostStep
<1>2. ASSUME NEW g \in Host, g # h
      PROVE  StageOf(g)' /\ TalkOf(g)'
  BY <1>2, OthersStay, OwnState DEF TalkInv
<1> QED
  BY <1>1, <1>2 DEF TalkInv

\* What every client starts with.
Fresh ==
  /\ counter = [h \in Host |-> 0] /\ wire = [h \in Host |-> <<>>] /\ shell = [h \in Host |-> "away"]
  /\ typed = [h \in Host |-> 0] /\ ran = [h \in Host |-> 0] /\ page = [h \in Host |-> <<>>]
  /\ mishap = [h \in Host |-> {}] /\ asks = [h \in Host |-> "no"]
  /\ st \in [Host -> {"resolve", "over"}] /\ replied \in [Host -> BOOLEAN]
  /\ \A h \in Host : /\ st[h] = "resolve" /\ h \in Proxied => ~replied[h]
                     /\ h \notin Proxied => replied[h]

\* Nothing has been sent to a client that has just been started.
LEMMA FreshClients == Fresh => TalkInv
<1> SUFFICES ASSUME Fresh PROVE TalkInv
  OBVIOUS
<1> USE DEF Fresh
<1> USE ConsoleAssumption
<1>1. <<>> \in Seq(Bit) /\ ~Live(<<>>) /\ Whole(<<>>) /\ WireOf(<<>>, TRUE) /\ WireOf(<<>>, FALSE) /\ <<>> \in Seq(Shown)
  BY FirstPieces, EmptySeq
<1>2. ConsoleTypeOK
  BY <1>1 DEF ConsoleTypeOK, Bit, Shown
<1>3. IsSession(<<>>, 0)
  <2>1. \A x : Places(<<>>, x) = {}
    <3>1. DOMAIN <<>> = {}
      OBVIOUS
    <3> QED
      BY <3>1 DEF Places
  <2>2. 1 .. 0 = {}
    OBVIOUS
  <2> QED
    BY <2>1, <2>2 DEF IsSession
<1>4. ASSUME NEW h \in Host
      PROVE  StageOf(h) /\ TalkOf(h)
  <2>1. StageOf(h)
    <3>1. /\ counter[h] = 0 /\ typed[h] = 0 /\ ran[h] = 0 /\ shell[h] = "away" /\ asks[h] = "no" /\ wire[h] = <<>>
          /\ st[h] \in {"resolve", "over"} /\ (st[h] = "resolve" /\ h \in Proxied => ~replied[h])
          /\ h \notin Proxied => replied[h]
      OBVIOUS
    <3> QED
      BY ONLY <3>1 DEF StageOf
  <2>2. replied[h] \in BOOLEAN /\ WireOf(wire[h], replied[h])
    BY <1>1
  <2>3. Unread(wire[h]) = 0
    BY <1>1 DEF Unread
  <2> QED
    BY <1>1, <1>3, <2>1, <2>2, <2>3 DEF TalkOf
<1> QED
  BY <1>2, <1>4 DEF TalkInv

\* In any conversation of any number of hosts, with any reads, the page of a host is
\* a session at its shell, and the counter of the lines stays in the file, unless the
\* console was misled by what it read (do_read, do_write, read_reply).
THEOREM PageStaysRight == Spec => []PageRight
<1>1. Init => TalkInv
  <2> SUFFICES ASSUME ConsoleInit PROVE TalkInv
    BY DEF Init
  <2> QED
    BY FreshClients DEF ConsoleInit, Fresh
<1>2. TalkInv /\ [Next]_vars => TalkInv'
  <2> SUFFICES ASSUME TalkInv, [Next]_vars PROVE TalkInv'
    OBVIOUS
  <2>1. ASSUME NEW h \in Host, ClientStep(h) \/ HostStep(h)
        PROVE  TalkInv'
    BY <2>1, HostKeeps
  <2>2. ASSUME NEW q \in Queries, Start(q)
        PROVE  TalkInv'
    <3>1. Fresh'
      BY <2>2 DEF Start, Fresh
    <3> QED
      BY <3>1, FreshClients, PTL
  <2>3. CASE UNCHANGED console
    BY <2>3 DEF console, TalkInv, ConsoleTypeOK, StageOf, TalkOf
  <2>4. \/ UNCHANGED console
        \/ \E h \in Host : ClientStep(h) \/ HostStep(h)
        \/ \E q \in Queries : Start(q)
    BY DEF vars, Next, ServerStep, Forked, Becomes, ProgramStep, ConsoleStep, Sigpipe, Crash, Finish, Outside
  <2> QED
    BY <2>1, <2>2, <2>3, <2>4
<1>3. TalkInv => PageRight
  <2> SUFFICES ASSUME TalkInv, NEW h \in Host, "mark" \notin mishap[h]
               PROVE  counter[h] <= Commands /\ (mishap[h] = {} => IsSession(page[h], counter[h]))
    <3>1. \A h \in Host : mishap[h] = {} => "mark" \notin mishap[h]
      OBVIOUS
    <3> QED
      BY <3>1 DEF PageRight, TalkInv
  <2>1. /\ counter[h] + Unread(wire[h]) <= Commands
        /\ mishap[h] = {} => IsSession(page[h], counter[h])
    BY DEF TalkInv, TalkOf
  <2>2. Unread(wire[h]) \in {0, 1} /\ counter[h] \in Nat /\ Commands \in Nat
    BY ConsoleAssumption DEF Unread, TalkInv, ConsoleTypeOK
  <2> QED
    BY <2>1, <2>2
<1> QED
  BY <1>1, <1>2, <1>3, PTL DEF Spec

-----------------------------------------------------------------------------
(* Who is connected to is one row of the form.                             *)

\* A set of numbers has a least one.
LEMMA Least ==
  ASSUME NEW T \in SUBSET Nat, T # {}
  PROVE  \E m \in T : \A k \in T : m <= k
<1> DEFINE R == OpToRel(<, Nat)
<1>1. IsWellFoundedOn(R, Nat)
  BY NatLessThanWellFounded
<1>2. \A x, y \in Nat : x < y => <<x, y>> \in R
  BY DEF OpToRel
<1> HIDE DEF R
<1>3. PICK m \in T : \A k \in T : <<k, m>> \notin R
  BY <1>1, WFMin
<1>4. ASSUME NEW k \in T
      PROVE  m <= k
  <2>1. k \in Nat /\ m \in Nat /\ ~(k < m)
    BY <1>2, <1>3
  <2> QED
    BY <2>1
<1> QED
  BY <1>4

Complete(q, i) == EndsHost(i, q[i + 1])

\* Hosts are counted by the files before them.
LEMMA HostsInOrder ==
  ASSUME NEW q, NEW i \in Nat, NEW j \in Nat, i <= j
  PROVE  /\ HostOf(q, i) \in Nat /\ HostOf(q, i) <= HostOf(q, j)
         /\ Complete(q, i) /\ i < j => HostOf(q, i) < HostOf(q, j)
         /\ (\A f \in i .. j - 1 : ~Complete(q, f)) => HostOf(q, i) = HostOf(q, j)
<1> DEFINE Before(n) == {f \in 0 .. n - 1 : Complete(q, f)}
<1>1. \A n : HostOf(q, n) = 1 + Cardinality(Before(n))
  BY DEF HostOf, Complete
<1>2. ASSUME NEW n \in Nat
      PROVE  IsFiniteSet(Before(n)) /\ Cardinality(Before(n)) \in Nat
  <2>1. IsFiniteSet(0 .. n - 1) /\ Before(n) \subseteq 0 .. n - 1
    BY FS_Interval
  <2>2. IsFiniteSet(Before(n))
    BY <2>1, FS_Subset
  <2> QED
    BY <2>2, FS_CardinalityType
<1>3. Before(i) \subseteq Before(j)
  OBVIOUS
<1>4. Cardinality(Before(i)) <= Cardinality(Before(j))
  BY <1>2, <1>3, FS_Subset
<1>5. ASSUME Complete(q, i), i < j
      PROVE  Cardinality(Before(i)) < Cardinality(Before(j))
  <2>1. i \in Before(j) /\ i \notin Before(i)
    BY <1>5
  <2> HIDE DEF Before
  <2>2. Before(i) # Before(j)
    BY <2>1
  <2> QED
    BY <1>2, <1>3, <1>4, <2>2, FS_Subset
<1>6. ASSUME \A f \in i .. j - 1 : ~Complete(q, f)
      PROVE  Before(i) = Before(j)
  <2>1. \A f \in 0 .. j - 1 : f \in 0 .. i - 1 \/ f \in i .. j - 1
    OBVIOUS
  <2> QED
    BY <1>3, <1>6, <2>1
<1> HIDE DEF Before
<1> QED
  BY <1>1, <1>2, <1>4, <1>5, <1>6

Parts == {"addr", "port", "file"}

\* The values of a host of one kind, and which of them it keeps.
Given(q, h, part) == {i \in 0 .. 3 * Hosts - 1 : HostOf(q, i) = h /\ q[i + 1] # 0 /\ Key(i) = part}
LastOf(q, S)      == IF S = {} THEN 0 ELSE q[(CHOOSE i \in S : \A j \in S : j <= i) + 1]

\* Parser::parse in these words.
LEMMA PartsOfHost ==
  ASSUME NEW q, NEW h \in Host, NEW part \in Parts
  PROVE  ParseHosts(q)[h] = [k \in Parts |-> LastOf(q, Given(q, h, k))]
BY DEF ParseHosts, LastOf, Given, Parts

\* The host that has a file has its row.
LEMMA RowOfHost ==
  ASSUME NEW q \in Queries, FilledInRows(q), NEW h \in Host, ParseHosts(q)[h] # NoHost
  PROVE  LET host == ParseHosts(q)[h]
         IN  host.addr % 3 = 1 /\ host.port = host.addr + 1 /\ host.file = host.addr + 2
<1> DEFINE N == 3 * Hosts
           own == {i \in 0 .. N - 1 : HostOf(q, i) = h /\ q[i + 1] # 0}
<1>0. N \in Nat /\ \A i : Complete(q, i) <=> i % 3 = 2 /\ q[i + 1] # 0
  BY ConsoleAssumption DEF Complete, EndsHost
<1>1. /\ \A i \in 0 .. N - 1 : q[i + 1] \in {0, i + 1}
      /\ \A i \in 2 .. N - 1 : Complete(q, i) => q[i] # 0 /\ q[i - 1] # 0
      /\ \A i \in 0 .. N - 1 : q[i + 1] # 0 => \E f \in i .. N - 1 : Complete(q, f)
  BY <1>0 DEF FilledInRows
<1>2. PICK i \in own : TRUE
  <2>1. own # {}
    <3> SUFFICES ASSUME own = {} PROVE FALSE
      OBVIOUS
    <3>1. \A part : Given(q, h, part) = {}
      BY DEF Given
    <3>2. \A part : LastOf(q, Given(q, h, part)) = 0
      BY <3>1 DEF LastOf
    <3>3. ParseHosts(q)[h] = [k \in Parts |-> 0]
      BY <3>2, PartsOfHost DEF Parts
    <3>4. NoHost = [k \in Parts |-> 0]
      BY DEF NoHost, Parts
    <3> QED
      BY <3>3, <3>4
  <2> QED
    BY <2>1
<1> HIDE DEF N
\* The first file that is not before it.
<1>3. PICK f \in i .. N - 1 : Complete(q, f) /\ \A g \in i .. f - 1 : ~Complete(q, g)
  <2> DEFINE T == {g \in i .. N - 1 : Complete(q, g)}
  <2>1. T \in SUBSET Nat /\ T # {}
    <3>1. i \in 0 .. N - 1 /\ q[i + 1] # 0
      BY <1>2
    <3> QED
      BY <1>0, <1>1, <3>1
  <2>2. PICK f \in T : \A g \in T : f <= g
    BY <2>1, Least
  <2>3. \A g \in i .. f - 1 : g \in i .. N - 1 /\ ~(f <= g)
    BY <1>0, <1>2, <2>1
  <2> QED
    BY <2>2, <2>3
<1>4. f \in Nat /\ i \in Nat /\ i <= f /\ f < N /\ f % 3 = 2 /\ q[f + 1] # 0
  BY <1>0, <1>2, <1>3
<1>5. HostOf(q, f) = h
  <2>1. HostOf(q, i) = h
    BY <1>2
  <2>2. HostOf(q, i) = HostOf(q, f)
    BY <1>3, <1>4, HostsInOrder
  <2> QED
    BY <2>1, <2>2
<1>6. f >= 2 /\ f - 1 \in Nat /\ f - 2 \in Nat /\ (f - 1) % 3 = 1 /\ (f - 2) % 3 = 0
  BY <1>4
<1>7. /\ q[f + 1] = f + 1 /\ q[f] = f /\ q[f - 1] = f - 1
  <2>1. q[f] # 0 /\ q[f - 1] # 0
    BY <1>0, <1>1, <1>3, <1>4, <1>6
  <2>2. /\ f \in 0 .. N - 1 /\ f - 1 \in 0 .. N - 1 /\ f - 2 \in 0 .. N - 1
        /\ f - 1 + 1 = f /\ f - 2 + 1 = f - 1
    BY <1>0, <1>4, <1>6
  <2>3. q[f + 1] \in {0, f + 1} /\ q[f - 1 + 1] \in {0, f - 1 + 1} /\ q[f - 2 + 1] \in {0, f - 2 + 1}
    BY ONLY <1>1, <2>2
  <2> QED
    BY ONLY <1>4, <2>1, <2>2, <2>3
<1>8. HostOf(q, f - 1) = h /\ HostOf(q, f - 2) = h
  <2>1. \A g \in f - 2 .. f - 1 : ~Complete(q, g)
    BY <1>0, <1>6
  <2>2. \A g \in f - 1 .. f - 1 : ~Complete(q, g)
    BY <2>1, <1>6
  <2>3. HostOf(q, f - 2) = HostOf(q, f)
    BY <1>4, <1>6, <2>1, HostsInOrder
  <2>4. HostOf(q, f - 1) = HostOf(q, f)
    <3>1. f - 1 \in Nat /\ f \in Nat /\ f - 1 <= f
      BY <1>4, <1>6
    <3> QED
      BY ONLY <2>2, <3>1, HostsInOrder
  <2> QED
    BY <1>5, <2>3, <2>4
<1>9. ASSUME NEW j \in 0 .. N - 1, HostOf(q, j) = h
      PROVE  j <= f
  <2> SUFFICES ASSUME f < j PROVE FALSE
    BY <1>4
  <2>1. HostOf(q, f) \in Nat /\ HostOf(q, f) < HostOf(q, j)
    BY <1>0, <1>3, <1>4, HostsInOrder
  <2> QED
    BY <1>5, <1>9, <2>1
\* What is kept is the value of that file's row.
<1>10. ASSUME NEW part \in Parts, NEW p \in 0 .. N - 1, p \in Given(q, h, part),
              \A j \in Given(q, h, part) : j <= p
       PROVE  LastOf(q, Given(q, h, part)) = q[p + 1]
  <2>1. \A j \in Given(q, h, part) : j \in Nat
    BY <1>0 DEF Given, N
  <2> DEFINE S == Given(q, h, part)
             c == CHOOSE j \in S : \A k \in S : k <= j
  <2>2. c \in S /\ \A k \in S : k <= c
    BY <1>10
  <2>3. c = p
    <3>1. c <= p /\ p <= c /\ c \in Nat /\ p \in Nat
      BY <1>10, <2>1, <2>2
    <3> HIDE DEF c
    <3> QED
      BY ONLY <3>1
  <2> QED
    BY <1>10, <2>3 DEF LastOf
<1>11. ASSUME NEW j \in 0 .. N - 1
       PROVE  /\ Key(j) = "addr" <=> j % 3 = 0
              /\ Key(j) = "port" <=> j % 3 = 1
              /\ Key(j) = "file" <=> j % 3 = 2
  BY <1>0 DEF Key
<1>12. LastOf(q, Given(q, h, "file")) = f + 1
  <2>1. f \in Given(q, h, "file")
    BY <1>0, <1>4, <1>5, <1>11 DEF Given, N
  <2>2. \A j \in Given(q, h, "file") : j <= f
    BY <1>9 DEF Given, N
  <2> QED
    BY <1>0, <1>4, <1>7, <1>10, <2>1, <2>2 DEF Parts
<1>13. LastOf(q, Given(q, h, "port")) = f
  <2>1. f - 1 \in Given(q, h, "port")
    BY <1>0, <1>4, <1>6, <1>7, <1>8, <1>11 DEF Given, N
  <2>2. ASSUME NEW j \in Given(q, h, "port")
        PROVE  j <= f - 1
    <3>1. j \in 0 .. N - 1 /\ j <= f /\ j % 3 = 1
      BY <1>9, <1>11 DEF Given, N
    <3> QED
      BY <1>0, <1>4, <3>1
  <2>3. q[f - 1 + 1] = f /\ f - 1 \in 0 .. N - 1
    BY <1>0, <1>4, <1>6, <1>7
  <2> QED
    BY <1>10, <2>1, <2>2, <2>3 DEF Parts
<1>14. LastOf(q, Given(q, h, "addr")) = f - 1
  <2>1. f - 2 \in Given(q, h, "addr")
    BY <1>0, <1>4, <1>6, <1>7, <1>8, <1>11 DEF Given, N
  <2>2. ASSUME NEW j \in Given(q, h, "addr")
        PROVE  j <= f - 2
    <3>1. j \in 0 .. N - 1 /\ j <= f /\ j % 3 = 0
      BY <1>9, <1>11 DEF Given, N
    <3> QED
      BY <1>0, <1>4, <3>1
  <2>3. q[f - 2 + 1] = f - 1 /\ f - 2 \in 0 .. N - 1
    BY <1>0, <1>4, <1>6, <1>7
  <2> QED
    BY <1>10, <2>1, <2>2, <2>3 DEF Parts
<1>15. ParseHosts(q)[h].addr = f - 1 /\ ParseHosts(q)[h].port = f /\ ParseHosts(q)[h].file = f + 1
  <2>1. ParseHosts(q)[h] = [k \in Parts |-> LastOf(q, Given(q, h, k))]
    BY PartsOfHost DEF Parts
  <2>2. "addr" \in Parts /\ "port" \in Parts /\ "file" \in Parts
    BY DEF Parts
  <2> QED
    BY ONLY <1>12, <1>13, <1>14, <2>1, <2>2
<1>16. (f - 1) % 3 = 1 /\ f = f - 1 + 1 /\ f + 1 = f - 1 + 2
  BY <1>4, <1>6
<1> QED
  BY ONLY <1>15, <1>16

OneRowInv == \A h \in Host : form[h] = NoHost \/ \E q \in Queries : form[h] = ParseHosts(q)[h]

\* When forms are filled in by rows, and rows may lack their file or more as long as a
\* row after them is complete, each console connects to the host and the port of one
\* row and types the file of that row, for any number of rows (Parser::parse).
THEOREM RowsStayTogether ==
  ASSUME \A q \in Queries : FilledInRows(q)
  PROVE  Spec => []OneRow
<1>1. Init => OneRowInv
  BY DEF Init, ConsoleInit, OneRowInv
<1>2. OneRowInv /\ [Next]_vars => OneRowInv'
  <2> SUFFICES ASSUME OneRowInv, [Next]_vars PROVE OneRowInv'
    OBVIOUS
  <2>1. UNCHANGED form \/ \E q \in Queries : form' = ParseHosts(q)
    BY DEF vars, console, Next, ServerStep, Forked, Becomes, ProgramStep, ConsoleStep, Sigpipe, Crash, Finish, Outside,
           Start, ClientStep, HostStep, Resolved, Connected, AsksProxy, ReadReply, ReadChunk, Written, ClientEnds,
           RunsCommand, ProxyAnswers
  <2> QED
    BY <2>1 DEF OneRowInv
<1>3. OneRowInv => OneRow
  <2> SUFFICES ASSUME OneRowInv, NEW h \in Host, form[h] # NoHost
               PROVE  form[h].addr % 3 = 1 /\ form[h].port = form[h].addr + 1 /\ form[h].file = form[h].addr + 2
    BY DEF OneRow, IsAlive
  <2>1. PICK q \in Queries : form[h] = ParseHosts(q)[h]
    BY DEF OneRowInv
  <2>2. FilledInRows(q)
    OBVIOUS
  <2> QED
    BY <2>1, <2>2, RowOfHost
<1> QED
  BY <1>1, <1>2, <1>3, PTL DEF Spec
=============================================================================
