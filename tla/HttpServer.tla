----------------------------- MODULE HttpServer -----------------------------
(***************************************************************************)
(* http_server of project 3.  One process accepts browsers, reads one      *)
(* request from each, forks a child that becomes the CGI program with the  *)
(* browser's socket as its streams, and waits for that program before it   *)
(* goes on with anything else.                                             *)
(*                                                                         *)
(* What a program does is left to the module that composes it: here it is  *)
(* its life, prog, and the sockets that it holds.                          *)
(***************************************************************************)
EXTENDS Integers, FiniteSets

CONSTANTS
  Browser,   \* browsers; each makes one connection
  NoBrowser

ASSUME NoBrowserAssumption == NoBrowser \notin Browser

VARIABLES
  server,      \* "run": in io_context.run(); "wait": in waitpid(); "down"
  cur,         \* the browser whose program is waited for
  browser,     \* what each browser has done
  conn,        \* its Connection: accepted, reading, a request read, forgotten, closed
  connections, \* ConnectionMgr: never erased when a program has run
  prog,        \* its program
  holds,       \* the sockets that a program has open
  answer,      \* what a browser got: headers, and whether they are followed
  cut          \* the connections that were shut down

http == <<server, cur, browser, conn, connections, prog, holds, answer, cut>>

Running == {"forked", "cgi"}

HttpTypeOK ==
  /\ server \in {"run", "wait", "down"} /\ cur \in Browser \cup {NoBrowser}
  /\ browser \in [Browser -> {"away", "open", "asked", "gone"}]
  /\ conn \in [Browser -> {"none", "accepted", "reading", "read", "stuck", "closed"}]
  /\ connections \subseteq Browser /\ cut \subseteq Browser
  /\ prog \in [Browser -> {"none", "zombie", "reaped"} \cup Running]
  /\ holds \in [Browser -> SUBSET Browser]
  /\ answer \in [Browser -> {"none", "headers", "page", "failed"}]
  /\ (server = "wait") = (cur # NoBrowser)

-----------------------------------------------------------------------------
(* The browsers.                                                           *)

Connect(b) ==
  /\ browser[b] = "away"
  /\ browser' = [browser EXCEPT ![b] = "open"]
  /\ UNCHANGED <<server, cur, conn, connections, prog, holds, answer, cut>>

Ask(b) ==
  /\ browser[b] = "open"
  /\ browser' = [browser EXCEPT ![b] = "asked"]
  /\ UNCHANGED <<server, cur, conn, connections, prog, holds, answer, cut>>

Leave(b) ==
  /\ browser[b] \in {"open", "asked"}
  /\ browser' = [browser EXCEPT ![b] = "gone"]
  /\ UNCHANGED <<server, cur, conn, connections, prog, holds, answer, cut>>

BrowserStep(b) == Connect(b) \/ Ask(b) \/ Leave(b)

-----------------------------------------------------------------------------
(* The server: one handler at a time.                                      *)

\* The one async_accept has a socket; its handler has yet to be called, and others
\* may be called before it.
Unlisted == {b \in Browser : conn[b] = "accepted"}

Accept(b) ==
  /\ server = "run" /\ browser[b] # "away" /\ conn[b] = "none" /\ Unlisted = {}
  /\ conn' = [conn EXCEPT ![b] = "accepted"]
  /\ UNCHANGED <<server, cur, browser, connections, prog, holds, answer, cut>>

StartConnection(b) ==
  /\ server = "run" /\ conn[b] = "accepted"
  /\ conn' = [conn EXCEPT ![b] = "reading"]
  /\ connections' = connections \cup {b}
  /\ UNCHANGED <<server, cur, browser, prog, holds, answer, cut>>

\* The socket has been read; here too the handler is still to come.
ReadCompletes(b) ==
  /\ server = "run" /\ conn[b] = "reading" /\ browser[b] = "asked"
  /\ conn' = [conn EXCEPT ![b] = "read"]
  /\ UNCHANGED <<server, cur, browser, connections, prog, holds, answer, cut>>

ReadFails(b) ==
  /\ server = "run" /\ conn[b] = "reading" /\ browser[b] = "gone"
  /\ conn' = [conn EXCEPT ![b] = "closed"]
  /\ connections' = connections \ {b}
  /\ UNCHANGED <<server, cur, browser, prog, holds, answer, cut>>

\* remote_endpoint() throws for a browser that is gone, and main() ends: so do all
\* connections.
RequestThrows(b) ==
  /\ server = "run" /\ conn[b] = "read" /\ browser[b] = "gone"
  /\ server' = "down"
  /\ conn' = [c \in Browser |-> "closed"]
  /\ UNCHANGED <<cur, browser, connections, prog, holds, answer, cut>>

\* Nothing is sent and nothing more is read.
ForkFails(b) ==
  /\ server = "run" /\ conn[b] = "read" /\ browser[b] # "gone"
  /\ conn' = [conn EXCEPT ![b] = "stuck"]
  /\ UNCHANGED <<server, cur, browser, connections, prog, holds, answer, cut>>

Held == {b \in Browser : conn[b] \in {"accepted", "reading", "read", "stuck"}}

Fork(b) ==
  /\ server = "run" /\ conn[b] = "read" /\ browser[b] # "gone"
  /\ prog' = [prog EXCEPT ![b] = "forked"]
  /\ holds' = [holds EXCEPT ![b] = Held]
  /\ server' = "wait" /\ cur' = b
  /\ UNCHANGED <<browser, conn, connections, answer, cut>>

\* waitpid() in do_request comes before the signal handler's: it runs only from
\* io_context.run(), where no program is left.
\* (Fault: it waits for nothing.)
GoesOn(b) == server = "wait" /\ b = cur
Waited(b) == server = "wait" /\ b = cur /\ prog[b] = "zombie"

EndRequest(b) ==
  /\ Waited(b)
  /\ prog' = [prog EXCEPT ![b] = IF @ = "zombie" THEN "reaped" ELSE @]
  /\ conn' = [conn EXCEPT ![b] = "closed"]
  /\ server' = "run" /\ cur' = NoBrowser
  /\ UNCHANGED <<browser, connections, holds, answer, cut>>

Handler(b) == \/ Accept(b) \/ StartConnection(b) \/ ReadCompletes(b) \/ ReadFails(b) \/ RequestThrows(b)
              \/ ForkFails(b) \/ Fork(b) \/ EndRequest(b)

-----------------------------------------------------------------------------
(* The child in do_request, up to execv().                                 *)

\* What is left of its sockets: what is not in connections_, and the copies that dup2
\* made of its own.
\* (Fault: it shuts down what it closes.)
StopAll(b)   == (holds[b] \ connections) \cup {b}
ShutsAll(b)  == holds[b] \ {b}
ShutsNone(b) == {}

BecomeProgram(b) ==
  /\ prog[b] = "forked" /\ browser[b] # "gone"
  /\ holds' = [holds EXCEPT ![b] = StopAll(b)]
  /\ cut' = cut \cup ShutsNone(b)
  /\ answer' = [answer EXCEPT ![b] = "headers"]
  /\ prog' = [prog EXCEPT ![b] = "cgi"]
  /\ UNCHANGED <<server, cur, browser, conn, connections>>

\* execv fails: the child says so and ends.  The socket that it shuts down then was
\* closed by stopall() with the others.
ExecFails(b) ==
  /\ prog[b] = "forked" /\ browser[b] # "gone"
  /\ answer' = [answer EXCEPT ![b] = "failed"]
  /\ cut' = cut \cup ShutsNone(b)
  /\ prog' = [prog EXCEPT ![b] = "zombie"]
  /\ holds' = [holds EXCEPT ![b] = {}]
  /\ UNCHANGED <<server, cur, browser, conn, connections>>

\* A program ends by itself, or when it writes to a browser that is gone.
Ends(b, said) ==
  /\ prog[b] \in Running
  /\ prog' = [prog EXCEPT ![b] = "zombie"]
  /\ holds' = [holds EXCEPT ![b] = {}]
  /\ answer' = [answer EXCEPT ![b] = said]
  /\ UNCHANGED <<server, cur, browser, conn, connections, cut>>

Killed(b) == prog[b] = "forked" /\ browser[b] = "gone" /\ Ends(b, "none")

ChildStep(b) == BecomeProgram(b) \/ ExecFails(b) \/ Killed(b)

HttpInit ==
  /\ server = "run" /\ cur = NoBrowser
  /\ browser = [b \in Browser |-> "away"]
  /\ conn = [b \in Browser |-> "none"]
  /\ connections = {} /\ cut = {}
  /\ prog = [b \in Browser |-> "none"]
  /\ holds = [b \in Browser |-> {}]
  /\ answer = [b \in Browser |-> "none"]

-----------------------------------------------------------------------------
(* What must hold.                                                         *)

\* A browser sees its connection end when nobody has it open or it is shut down.
Ended(b) == conn[b] = "closed" /\ (b \in cut \/ \A c \in Browser : b \notin holds[c])

\* A browser whose request was taken sees the end of its page only when its
\* program has ended, and what another's program does to the sockets it inherited
\* never ends it (do_request, ConnectionMgr::stopall).
EndsWithProgram ==
  \A b \in Browser : Ended(b) \/ b \in cut =>
    prog[b] \in {"zombie", "reaped"} \/ browser[b] = "gone" \/ server = "down"

\* What a program that runs has open: of the others' sockets only one that nobody had
\* listed yet when it was forked.
HoldsItsOwn == \A b \in Browser : prog[b] = "cgi" => b \in holds[b] /\ holds[b] \subseteq {b} \cup Unlisted

\* Programs run one at a time and none is left behind.  One that runs has its own
\* browser's connection open and none of the others that the server reads from; it
\* may have inherited one that was just accepted, but no page stays open for another's
\* program: what the server has closed, nobody has open (do_request, do_signal,
\* do_accept, ConnectionMgr::stopall).
OneProgram ==
  /\ HttpTypeOK /\ HoldsItsOwn
  /\ Cardinality(Unlisted) <= 1
  /\ Cardinality({b \in Browser : prog[b] \in Running \cup {"zombie"}}) <= 1
  /\ \A b \in Browser : prog[b] \in Running \cup {"zombie"} => cur = b
  /\ \A b, c \in Browser : conn[b] = "closed" => b \notin holds[c]
=============================================================================
