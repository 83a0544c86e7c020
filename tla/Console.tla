------------------------------ MODULE Console ------------------------------
(***************************************************************************)
(* console.cgi: it reads which hosts to connect to, and types the lines of *)
(* a file into a shell on each of them, one line for each prompt it sees.  *)
(* In project 3 it connects to a host, in project 4 to the SOCKS server,   *)
(* which it asks for the host.                                             *)
(*                                                                         *)
(* The shells, the hosts and the proxy are outside.  A shell writes        *)
(* prompts as np_simple does, runs one command after the other and may be  *)
(* kept by one for ever; the proxy passes on what is sent but, as          *)
(* socks_server, never that a side has ended (SocksServer), and never      *)
(* closes.  What a shell writes is a sequence of pieces: "%" and " " are   *)
(* the two bytes of a prompt, "text" is output without "% ", "mark" is     *)
(* output with it.                                                         *)
(***************************************************************************)
EXTENDS Integers, Sequences, FiniteSets, SequencesExt

CONSTANTS
  Hosts,     \* bound: MAX_SERVER_NUM
  Proxied,   \* the hosts that are reached through the proxy
  Queries,   \* the forms that browsers fill in
  Commands,  \* bound: lines of a file; the last is exit
  Outputs,   \* what a command may write before the next prompt
  Buffer     \* pieces that one read returns at most

Host == 1 .. Hosts

ASSUME ConsoleAssumption ==
  /\ Hosts \in Nat /\ Proxied \subseteq Host
  /\ Commands \in Nat \ {0} /\ Buffer \in Nat \ {0}
  /\ \A q \in Queries : q \in Seq(Nat) /\ Len(q) = 3 * Hosts
  /\ Outputs \subseteq Seq({"text", "mark"})

Piece  == {"%", " ", "text", "mark"}
Prompt == <<"%", " ">>

\* What the page shows: pieces of output, and lines of the file.
Output(chunk) == [i \in DOMAIN chunk |-> [piece |-> chunk[i], line |-> 0]]
Line(k)       == [piece |-> "line", line |-> k]

VARIABLES
  form,      \* the hosts as Parser::parse left them
  st,        \* what each Client waits for
  asks,      \* a proxied Client: has its request been sent, and then answered
  replied,   \* whether read_reply has returned
  counter,   \* write_commands_counter_
  wire,      \* what a shell has sent and the console has not read
  shell,     \* "away", "up", "busy" with a command that does not end, or "closed"
  typed,     \* commands that a shell has got
  ran,       \* those it has begun
  page,      \* what was displayed of each host
  mishap     \* a prompt was split or swallowed, or output looked like one

console == <<form, st, asks, replied, counter, wire, shell, typed, ran, page, mishap>>

ConsoleTypeOK ==
  /\ st \in [Host -> {"resolve", "connect", "read", "write", "over"}]
  /\ asks \in [Host -> {"no", "sending", "sent", "through", "refused"}]
  /\ replied \in [Host -> BOOLEAN]
  /\ counter \in [Host -> 0 .. Commands + 1]
  /\ wire \in [Host -> Seq(Piece \cup {"reply"})]
  /\ shell \in [Host -> {"away", "up", "busy", "closed"}]
  /\ typed \in [Host -> 0 .. Commands + 1] /\ ran \in [Host -> 0 .. Commands + 1]
  /\ page \in [Host -> Seq([piece : Piece \cup {"reply", "line"}, line : 0 .. Commands + 1])]
  /\ mishap \in [Host -> SUBSET {"split", "swallowed", "mark"}]

-----------------------------------------------------------------------------
(* Parser::parse.  A value of the form is 0 when it is empty.              *)

NoHost == [addr |-> 0, port |-> 0, file |-> 0]
Key(i) == CASE i % 3 = 0 -> "addr" [] i % 3 = 1 -> "port" [] OTHER -> "file"

\* Value i, counted from 0: an empty one is passed over, and a host is complete with
\* its file, where the next one begins.
\* (Fault: a host is complete with its third value, also when it is empty.)
EndsRow(i, v)  == i % 3 = 2
EndsHost(i, v) == i % 3 = 2 /\ v # 0

HostOf(q, i) == 1 + Cardinality({j \in 0 .. i - 1 : EndsHost(j, q[j + 1])})

ParseHosts(q) ==
  LET At(h, k)  == {i \in 0 .. 3 * Hosts - 1 : HostOf(q, i) = h /\ q[i + 1] # 0 /\ Key(i) = k}
      Latest(S) == IF S = {} THEN 0 ELSE q[(CHOOSE i \in S : \A j \in S : j <= i) + 1]
  IN  [h \in Host |-> [k \in {"addr", "port", "file"} |-> Latest(At(h, k))]]

IsAlive(h) == form[h] # NoHost

\* Parser::parse and the Clients that main() starts.
Start(q) ==
  /\ form' = ParseHosts(q)
  /\ st' = [h \in Host |-> IF form'[h] # NoHost THEN "resolve" ELSE "over"]
  /\ asks' = [h \in Host |-> "no"]
  /\ replied' = [h \in Host |-> h \notin Proxied]
  /\ counter' = [h \in Host |-> 0]
  /\ wire' = [h \in Host |-> <<>>]
  /\ shell' = [h \in Host |-> "away"]
  /\ typed' = [h \in Host |-> 0] /\ ran' = [h \in Host |-> 0]
  /\ page' = [h \in Host |-> <<>>]
  /\ mishap' = [h \in Host |-> {}]

ConsoleInit ==
  /\ form = [h \in Host |-> NoHost]
  /\ st = [h \in Host |-> "over"] /\ asks = [h \in Host |-> "no"]
  /\ replied = [h \in Host |-> TRUE] /\ counter = [h \in Host |-> 0]
  /\ wire = [h \in Host |-> <<>>] /\ shell = [h \in Host |-> "away"]
  /\ typed = [h \in Host |-> 0] /\ ran = [h \in Host |-> 0]
  /\ page = [h \in Host |-> <<>>] /\ mishap = [h \in Host |-> {}]

-----------------------------------------------------------------------------
(* The shells and the proxy.                                               *)

Sends(h, pieces) == wire' = [wire EXCEPT ![h] = @ \o pieces]

RunsCommand(h) ==
  /\ shell[h] = "up" /\ ran[h] < typed[h]
  /\ ran' = [ran EXCEPT ![h] = @ + 1]
  /\ \/ ran'[h] = Commands /\ shell' = [shell EXCEPT ![h] = "closed"] /\ UNCHANGED wire
     \/ ran'[h] < Commands /\ (\E o \in Outputs : Sends(h, o \o Prompt)) /\ UNCHANGED shell
     \/ ran'[h] < Commands /\ shell' = [shell EXCEPT ![h] = "busy"] /\ UNCHANGED wire
  /\ UNCHANGED <<form, st, asks, replied, counter, typed, page, mishap>>

\* The proxy answers and passes the host's prompt on, or refuses, or is silent,
\* and stays.
ProxyAnswers(h) ==
  /\ asks[h] = "sent"
  /\ \/ /\ asks' = [asks EXCEPT ![h] = "through"]
        /\ shell' = [shell EXCEPT ![h] = "up"]
        /\ Sends(h, <<"reply">> \o Prompt)
     \/ /\ asks' = [asks EXCEPT ![h] = "refused"]
        /\ Sends(h, <<"reply">>) \/ UNCHANGED wire
        /\ UNCHANGED shell
  /\ UNCHANGED <<form, st, replied, counter, typed, ran, page, mishap>>

HostStep(h) == RunsCommand(h) \/ ProxyAnswers(h)

-----------------------------------------------------------------------------
(* The Client of a host.                                                   *)

Goto(h, s) == st' = [st EXCEPT ![h] = s]

Resolved(h) ==
  /\ st[h] = "resolve"
  /\ Goto(h, "connect") \/ Goto(h, "over")
  /\ UNCHANGED <<form, asks, replied, counter, wire, shell, typed, ran, page, mishap>>

\* do_connect.  In project 4 all of do_http_resolve, read_reply and do_read are
\* started at once; the two reads return in that order.
Connected(h) ==
  /\ st[h] = "connect"
  /\ \/ /\ Goto(h, "read")
        /\ IF h \in Proxied
             THEN asks' = [asks EXCEPT ![h] = "sending"] /\ UNCHANGED <<shell, wire>>
             ELSE shell' = [shell EXCEPT ![h] = "up"] /\ Sends(h, Prompt) /\ UNCHANGED asks
     \/ Goto(h, "over") /\ UNCHANGED <<asks, shell, wire>>
  /\ UNCHANGED <<form, replied, counter, typed, ran, page, mishap>>

AsksProxy(h) ==
  /\ asks[h] = "sending"
  /\ asks' = [asks EXCEPT ![h] = "sent"]
  /\ UNCHANGED <<form, st, replied, counter, wire, shell, typed, ran, page, mishap>>

\* The first n pieces.
Takes(h, n)  == wire' = [wire EXCEPT ![h] = SubSeq(@, n + 1, Len(@))]
Arrived(h)   == 1 .. Len(wire[h])
IsSplit(h, n) == n < Len(wire[h]) /\ wire[h][n] = "%"

\* The buffer of the reply takes whatever comes with it, and nobody looks at it.
ReadReply(h) ==
  /\ st[h] = "read" /\ ~replied[h]
  /\ \E n \in Arrived(h) :
       /\ Takes(h, n)
       /\ mishap' = [mishap EXCEPT ![h] = IF n > 1 THEN @ \cup {"swallowed"} ELSE @]
  /\ replied' = [replied EXCEPT ![h] = TRUE]
  /\ UNCHANGED <<form, st, asks, counter, shell, typed, ran, page>>

\* data.find("% ").
\* (Fault: only a chunk that is nothing else is taken for a prompt.)
OnlyPrompt(chunk) == chunk = Prompt
HasPrompt(chunk) == "mark" \in ToSet(chunk) \/ \E i \in 1 .. Len(chunk) - 1 : SubSeq(chunk, i, i + 1) = Prompt

\* The command that is sent is commands_[write_commands_counter_++].
\* (Fault: the counter goes first.)
PreIncrement(n)  == n + 2
PostIncrement(n) == n + 1

\* What is displayed of a read.
Displayed(h, chunk) == page[h] \o Output(chunk)

\* The handler of do_read, with do_write up to the write itself.  After the last
\* line commands_ is read past its end: the program dies of it (Crash), or finds
\* an empty line there.
ReadChunk(h) ==
  /\ st[h] = "read" /\ replied[h]
  /\ \E n \in Arrived(h) : n <= Buffer /\
       LET chunk  == SubSeq(wire[h], 1, n)
           number == PostIncrement(counter[h]) IN
       /\ Takes(h, n)
       /\ mishap' = [mishap EXCEPT ![h] = @ \cup (IF IsSplit(h, n) THEN {"split"} ELSE {})
                                           \cup (IF "mark" \in ToSet(chunk) THEN {"mark"} ELSE {})]
       /\ IF HasPrompt(chunk)
            THEN /\ number <= Commands + 1
                 /\ Goto(h, "write")
                 /\ counter' = [counter EXCEPT ![h] = @ + 1]
                 /\ page' = [page EXCEPT ![h] = Append(Displayed(h, chunk), Line(number))]
            ELSE /\ page' = [page EXCEPT ![h] = Displayed(h, chunk)]
                 /\ UNCHANGED <<st, counter>>
  /\ UNCHANGED <<form, asks, replied, shell, typed, ran>>

\* commands_ past its end, or http_ep of a name that has no address.
MayCrash(h) ==
  \/ /\ st[h] = "read" /\ replied[h] /\ counter[h] >= Commands
     /\ \E n \in Arrived(h) : n <= Buffer /\ HasPrompt(SubSeq(wire[h], 1, n))
  \/ asks[h] = "sending"

\* What is written to a shell that has ended is lost, if it is not an error.  (do_write
\* sends from a string that is gone when it returns, but the socket has room: the line
\* is sent before.)
Written(h) ==
  /\ st[h] = "write"
  /\ typed' = [typed EXCEPT ![h] = IF shell[h] \in {"up", "busy"} THEN @ + 1 ELSE @]
  /\ Goto(h, "read")
  /\ UNCHANGED <<form, asks, replied, counter, wire, shell, ran, page, mishap>>

\* The end of the input, or an error: no handler starts another operation.  Through the
\* proxy neither arrives, and the client goes on reading for ever.
ClientEnds(h) ==
  /\ h \notin Proxied /\ shell[h] = "closed"
  /\ st[h] = "write" \/ (st[h] = "read" /\ wire[h] = <<>>)
  /\ Goto(h, "over")
  /\ UNCHANGED <<form, asks, replied, counter, wire, shell, typed, ran, page, mishap>>

ClientStep(h) == \/ Resolved(h) \/ Connected(h) \/ AsksProxy(h)
                 \/ ReadReply(h) \/ ReadChunk(h) \/ Written(h) \/ ClientEnds(h)

\* The read of h will never return: the shell is busy for ever; it waits for a line while
\* its prompt was split over two reads or taken with the proxy's reply; or the proxy,
\* which never closes, has refused, or has passed on all there was of a shell that ended.
Stays(h) == /\ st[h] = "read" /\ wire[h] = <<>>
            /\ \/ shell[h] = "busy"
               \/ shell[h] = "up" /\ ran[h] = typed[h] /\ mishap[h] \cap {"split", "swallowed"} # {}
               \/ asks[h] = "refused"
               \/ h \in Proxied /\ shell[h] = "closed"

\* io_context.run() returns when no operation is left.
AllOver == \A h \in Host : st[h] = "over"

-----------------------------------------------------------------------------
(* What must hold.                                                         *)

Places(shown, piece) == {i \in DOMAIN shown : shown[i].piece = piece}

\* Output with n prompts, each followed at once by its line of the file: line 1 after
\* the first prompt, and so on.
IsSession(shown, n) ==
  /\ Places(shown, "mark") = {} /\ Places(shown, "reply") = {}
  /\ \A i \in Places(shown, "%") : i + 2 \in Places(shown, "line")
  /\ \A i \in Places(shown, " ") : i + 1 \in Places(shown, "line")
  /\ \A i \in Places(shown, "line") : i - 1 \in Places(shown, " ") /\ i - 2 \in Places(shown, "%")
  /\ \A i, j \in Places(shown, "line") : i < j => shown[i].line < shown[j].line
  /\ {shown[i].line : i \in Places(shown, "line")} = 1 .. n

\* What is displayed of a host reads like a session at its shell: each line of the
\* file once, in order, after a prompt of its own and before what it caused, with
\* nothing shown twice.  It holds unless the console was misled by a prompt that
\* came in two parts or with the proxy's reply, or by output with "% " in it; and
\* only such output makes it read commands_ past the last line, which is exit,
\* although nobody checks the counter (do_read, do_write).
PageRight ==
  /\ ConsoleTypeOK
  /\ \A h \in Host : "mark" \notin mishap[h] => counter[h] <= Commands
  /\ \A h \in Host : mishap[h] = {} => IsSession(page[h], counter[h])

\* A form that was filled in by rows: its n-th value is n, or empty; a file is never
\* without its host and port; and behind every value there is a file, of its row or
\* of a later one.
FilledInRows(q) ==
  LET HasFile(i) == i % 3 = 2 /\ q[i + 1] # 0
      Values     == 0 .. 3 * Hosts - 1
  IN  \A i \in Values : /\ q[i + 1] \in {0, i + 1}
                        /\ HasFile(i) => q[i] # 0 /\ q[i - 1] # 0
                        /\ q[i + 1] # 0 => \E f \in i .. 3 * Hosts - 1 : HasFile(f)

\* Who is connected to is one row of the form, with the rows without a file
\* passed over.  (Forms are filled in by rows: the n-th value is n.)
OneRow == \A h \in Host : IsAlive(h) =>
  form[h].addr % 3 = 1 /\ form[h].port = form[h].addr + 1 /\ form[h].file = form[h].addr + 2
=============================================================================
