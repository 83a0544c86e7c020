------------------------------ MODULE NpSimple ------------------------------
(***************************************************************************)
(* np_simple: a process for each client, which takes what one recv returns *)
(* for a line, parses it and runs its commands.  What these do is modelled *)
(* in NpShell: here a line that runs comes to an end.                      *)
(***************************************************************************)
EXTENDS LineParser

CONSTANTS
  Client,
  Lines,     \* the lines, as tokens, that each client may type
  MaxLine,   \* bound: lines that a client types
  MaxPipe,   \* bound: Environment::maxpipe
  Garbled    \* what recv may return when it is not one line: any other tokens

ASSUME LineAssumption ==
  /\ Lines \in [Client -> SUBSET Seq(Token)] /\ Garbled \subseteq Seq(Token)
  /\ MaxLine \in Nat /\ MaxPipe \in 1 .. MaxInt

VARIABLES
  up,        \* the server accepts clients
  client,    \* "away", "open", "closed" with what it has sent unread, "gone"
  nline,     \* lines that it has typed
  wire,      \* those that have not been received; the first may be in part
  sh,        \* the shell of a client
  whole,     \* it has received its lines one by one so far (bound: once it has not)
  line,      \* the tokens that it parsed last
  tasks      \* and the tasks

vars == <<up, client, nline, wire, sh, whole, line, tasks>>

Alive == {"recv", "run"}

TypeOK ==
  /\ up \in BOOLEAN
  /\ client \in [Client -> {"away", "open", "closed", "gone"}]
  /\ nline \in [Client -> 0 .. MaxLine]
  /\ wire \in [Client -> Seq(Seq(Token))]
  /\ sh \in [Client -> Alive \cup {"none", "exited", "died", "killed", "reaped"}]
  /\ whole \in [Client -> BOOLEAN]
  /\ line \in [Client -> Seq(Token)]
  /\ tasks \in [Client -> Seq(Task)]
  /\ \A c \in Client : \A k \in DOMAIN tasks[c] : tasks[c][k].args # <<>>

-----------------------------------------------------------------------------
(* The clients.                                                            *)

Connect(c) ==
  /\ client[c] = "away"
  /\ client' = [client EXCEPT ![c] = "open"]
  /\ UNCHANGED <<up, nline, wire, sh, whole, line, tasks>>

Type(c) ==
  /\ client[c] = "open" /\ nline[c] < MaxLine
  /\ nline' = [nline EXCEPT ![c] = @ + 1]
  /\ \E l \in Lines[c] : wire' = [wire EXCEPT ![c] = Append(@, l)]
  /\ UNCHANGED <<up, client, sh, whole, line, tasks>>

Close(c) ==
  /\ client[c] = "open"
  /\ client' = [client EXCEPT ![c] = "closed"]
  /\ UNCHANGED <<up, nline, wire, sh, whole, line, tasks>>

Reset(c) ==
  /\ client[c] \in {"open", "closed"}
  /\ client' = [client EXCEPT ![c] = "gone"]
  /\ wire' = [wire EXCEPT ![c] = <<>>]
  /\ UNCHANGED <<up, nline, sh, whole, line, tasks>>

-----------------------------------------------------------------------------
(* main().                                                                 *)

Accept(c) ==
  /\ up /\ client[c] # "away" /\ sh[c] = "none"
  /\ sh' = [sh EXCEPT ![c] = "recv"]
  /\ UNCHANGED <<up, client, nline, wire, whole, line, tasks>>

\* "Fail to fork!!!": the server ends, its shells go on.
ForkFails(c) ==
  /\ up /\ client[c] # "away" /\ sh[c] = "none"
  /\ up' = FALSE
  /\ UNCHANGED <<client, nline, wire, sh, whole, line, tasks>>

\* signal_handler; init reaps the shells of a server that has ended.
Over == {c \in Client : sh[c] \in {"exited", "died", "killed"}}
Reap ==
  /\ Over # {}
  /\ sh' = [c \in Client |-> IF c \in Over THEN "reaped" ELSE sh[c]]
  /\ UNCHANGED <<up, client, nline, wire, whole, line, tasks>>

-----------------------------------------------------------------------------
(* create_shell().                                                         *)

\* (Fault: the end of the input is taken for an empty line.)
Errs(c)     == client[c] = "gone"
HasEnded(c) == client[c] = "gone" \/ (client[c] = "closed" /\ wire[c] = <<>>)

RecvEnd(c) ==
  /\ sh[c] = "recv" /\ HasEnded(c)
  /\ sh' = [sh EXCEPT ![c] = "exited"]
  /\ UNCHANGED <<up, client, nline, wire, whole, line, tasks>>

\* A parser that throws ends the process, and one that reads past its tokens may.
Parsed(c, ts) ==
  LET p == ParseSimple(ts) IN
  /\ line' = [line EXCEPT ![c] = ts]
  /\ tasks' = [tasks EXCEPT ![c] = p.tasks]
  /\ \/ p.end # "none" /\ sh' = [sh EXCEPT ![c] = "died"]
     \/ p.end # "thrown" /\ sh' = [sh EXCEPT ![c] = IF p.tasks = <<>> THEN "recv" ELSE "run"]

RecvLine(c) ==
  /\ sh[c] = "recv" /\ wire[c] # <<>>
  /\ Parsed(c, Head(wire[c]))
  /\ wire' = [wire EXCEPT ![c] = Tail(@)]
  /\ UNCHANGED <<up, client, nline, whole>>

\* Part of a line, whose rest is another line then, or several lines: the "\n" inside
\* stays and the last character goes.
RecvOther(c) ==
  /\ sh[c] = "recv" /\ wire[c] # <<>> /\ whole[c]
  /\ \E ts \in Garbled : Parsed(c, ts)
  /\ \E rest \in {<<>>} \cup {<<ts>> : ts \in Garbled} : wire' = [wire EXCEPT ![c] = rest \o Tail(@)]
  /\ whole' = [whole EXCEPT ![c] = FALSE]
  /\ UNCHANGED <<up, client, nline>>

\* getpipe() finds its slot, (pos + current_pos) % maxpipe, wherever current_pos is:
\* the sum is an int, and not negative.
InRing(n) == n \in 0 .. MaxInt - (MaxPipe - 1)

\* The tasks are run and waited for; exit kills what runs and ends the shell, and what
\* is done at a slot outside of the ring may.
RunTasks(c) ==
  /\ sh[c] = "run"
  /\ \/ sh' = [sh EXCEPT ![c] = "recv"]
     \/ sh' = [sh EXCEPT ![c] = "exited"]
     \/ /\ \E k \in DOMAIN tasks[c] : tasks[c][k].out.type = "pipe" /\ ~InRing(tasks[c][k].out.n)
        /\ sh' = [sh EXCEPT ![c] = "died"]
  /\ UNCHANGED <<up, client, nline, wire, whole, line, tasks>>

\* SIGPIPE: the prompt, or what a builtin says, is written to a client that is gone.
WriteFails(c) ==
  /\ sh[c] \in Alive /\ client[c] = "gone"
  /\ sh' = [sh EXCEPT ![c] = "killed"]
  /\ UNCHANGED <<up, client, nline, wire, whole, line, tasks>>

ShellStep(c) == RecvEnd(c) \/ RecvLine(c) \/ RecvOther(c) \/ RunTasks(c) \/ WriteFails(c)
ServerStep   == Reap \/ \E c \in Client : Accept(c) \/ ForkFails(c)

Init ==
  /\ up = TRUE
  /\ client = [c \in Client |-> "away"] /\ nline = [c \in Client |-> 0]
  /\ wire = [c \in Client |-> <<>>] /\ sh = [c \in Client |-> "none"]
  /\ whole = [c \in Client |-> TRUE]
  /\ line = [c \in Client |-> <<>>] /\ tasks = [c \in Client |-> <<>>]

Next == ServerStep \/ \E c \in Client : Connect(c) \/ Type(c) \/ Close(c) \/ Reset(c) \/ ShellStep(c)

Spec     == Init /\ [][Next]_vars
FairSpec == Spec /\ WF_vars(ServerStep) /\ \A c \in Client : WF_vars(ShellStep(c))

-----------------------------------------------------------------------------
(* What must hold.                                                         *)

\* The tasks of a line are what its grammar says, in npshell and np_simple and in
\* the servers with user pipes: commands, words, and where each stream goes
\* (Parser::parse).
LineMeant ==
  TypeOK /\ \A c \in Client :
    /\ InGrammar("simple", line[c]) => tasks[c] = Meaning("simple", line[c])
    /\ InGrammar("user", line[c]) => ParseUser(line[c]).tasks = Meaning("user", line[c])

\* Only a number that stoi cannot return, a file without a name and, with user pipes, an
\* empty line make the parser throw or read what is not there.  A shell dies of these
\* and of a pipe whose number is negative or so large that its sum with current_pos is no
\* int; any other line, also one that arrived in parts, leaves the shell to its user.
Survives ==
  \A c \in Client :
    /\ sh[c] = "died" => \/ Misleads("simple", line[c])
                         \/ \E i \in DOMAIN line[c] : line[c][i].kind \in {"|n", "!n"} /\ ~InRing(line[c][i].n)
    /\ ParseUser(line[c]).end # "none" => Misleads("user", line[c])

\* When a client has closed or lost its connection its shell comes to its end and
\* is reaped, whatever it had typed and whatever recv made of it.
ShellsEnd ==
  \A c \in Client : client[c] \in {"closed", "gone"} /\ sh[c] # "none" ~> sh[c] = "reaped"
=============================================================================
