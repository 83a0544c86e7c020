----------------------------- MODULE UserTable -----------------------------
(***************************************************************************)
(* The user tables of np_single_proc: one process serves every client from *)
(* a select() loop and keeps four views of who is logged in: by id, by     *)
(* file descriptor, by name and in the descriptor set it selects on.  A    *)
(* user who leaves, by the command exit or by disconnecting, is only put   *)
(* in a queue; the tables are cleared before the next select().            *)
(*                                                                         *)
(* A handler runs to its end between two events of the clients, except     *)
(* that the builtins of one line are steps of their own, and that the      *)
(* server waits at the end of a line for the commands it ran, which need   *)
(* never end.  What else commands other than the builtins do is visible    *)
(* here only in the descriptors they leave open.                           *)
(***************************************************************************)
EXTENDS Integers, Sequences, FiniteSets

CONSTANTS
  Conn,      \* the clients
  Nobody,    \* a null shared_ptr
  Name,      \* the names a client may ask for
  NoName,    \* "(no name)": what everyone is called at first, and may ask for
  NoEntry,   \* no element of id2username for this id
  Msock,     \* the descriptor of the listening socket
  MaxFd,     \* bound: the highest descriptor of the process
  Lines      \* what a client may type: sequences of builtins

ASSUME ConnAssumption == IsFiniteSet(Conn)
ASSUME NobodyAssumption == Nobody \notin Conn
ASSUME NameAssumption == NoName \notin Name /\ NoEntry \notin Name /\ NoEntry # NoName
ASSUME FdAssumption == Msock \in Nat /\ MaxFd \in Nat /\ Msock <= MaxFd

\* The receiver of a tell that stoi() makes no int of.  (It makes one of a negative
\* number, which indexes id2usershell before its beginning: such a line is left out.)
NotNumber == -1

Fd   == Msock .. MaxFd
Task == [op   : {"quiet", "yell", "tell", "name", "exit", "pipe", "unpipe"},
         name : Name \cup {NoName},
         id   : Nat \cup {NotNumber}]

ASSUME LineAssumption == Lines \subseteq Seq(Task)

VARIABLES
  \* the Server
  afds, maxfd, id2usershell, fd2usershell, id2username, available_ids, garbage_shells,
  \* the Shell of each client that has one
  shell,
  \* Server::run: where it is, the descriptors left to scan, the line executed
  pc, rfds, who, todo,
  \* the kernel: the open descriptors, those of pipes, the clients' connections
  open, pipefds, link, pending,
  status,   \* the process is "up", stopped by "exit", killed by "sigpipe", or ended
            \* by an exception that nobody catches ("thrown")
  census    \* history: how many users each client knows of: those who were there
            \* when it came, and the arrivals and departures it was told of since

tables == <<afds, maxfd, id2usershell, fd2usershell, id2username, available_ids>>
loop   == <<pc, rfds, who, todo>>
kernel == <<open, pipefds, link, pending>>
vars   == <<tables, garbage_shells, shell, loop, kernel, status, census>>

NoShell == [ufd |-> Msock, uid |-> 0, isalive |-> FALSE, name |-> NoName]

TypeOK ==
  /\ afds \subseteq Fd
  /\ maxfd \in Fd
  /\ id2usershell \in Seq(Conn \cup {Nobody})
  /\ fd2usershell \in [Fd -> Conn \cup {Nobody}]
  /\ id2username \in Seq(Name \cup {NoName, NoEntry})
  /\ available_ids \in Seq(Nat)
  /\ garbage_shells \in Seq(Conn)
  /\ shell \in [Conn -> [ufd : Fd, uid : Nat, isalive : BOOLEAN, name : Name \cup {NoName}]]
  /\ pc \in {"clear", "scan", "exec"}
  /\ rfds \subseteq Fd
  /\ who \in Conn \cup {Nobody}
  /\ todo \in Seq(Task)
  /\ open \subseteq Fd
  /\ pipefds \subseteq Fd
  /\ link \in [Conn -> {"out", "up", "fin", "rst"}]
  /\ pending \in [Conn -> BOOLEAN]
  /\ status \in {"up", "exit", "sigpipe", "thrown"}
  /\ census \in [Conn -> Int]

-----------------------------------------------------------------------------
(* The clients and the network, while there is a server.                   *)

\* The users of the table: the clients whose connection was accepted.
Users == {c \in Conn : \E fd \in Fd : fd2usershell[fd] = c}

\* A connection that the kernel completed and nobody accepted.
Waiting(c) == link[c] # "out" /\ c \notin Users

network == <<tables, garbage_shells, shell, loop, open, pipefds, status, census>>

Connect(c) == /\ status = "up" /\ link[c] = "out"
              /\ link' = [link EXCEPT ![c] = "up"]
              /\ UNCHANGED <<network, pending>>

Type(c) == /\ status = "up" /\ link[c] = "up"
           /\ ~pending[c]
           /\ pending' = [pending EXCEPT ![c] = TRUE]
           /\ UNCHANGED <<network, link>>

Close(c) == /\ status = "up" /\ link[c] = "up"
            /\ link' = [link EXCEPT ![c] = "fin"]
            /\ UNCHANGED <<network, pending>>

\* The peer answers what it no longer wants to read with a reset.
Reset(c) == /\ status = "up" /\ link[c] \in {"up", "fin"}
            /\ link' = [link EXCEPT ![c] = "rst"]
            /\ UNCHANGED <<network, pending>>

\* safe_send, or a write through cout, to the clients in s.  A connection that
\* was reset answers an error, or SIGPIPE, which the server does not ignore.
\* (broadcast also sends to descriptors whose shell is gone, which only fails.)
SendTo(s) == status' \in IF \E c \in s : link[c] = "rst" THEN {"up", "sigpipe"} ELSE {"up"}

-----------------------------------------------------------------------------
(* Server::clear_garbage_shells, one shell per step.  The user pipes that  *)
(* the departed user wrote are closed with it.                             *)

c0  == Head(garbage_shells)
id0 == shell[c0].uid
fd0 == shell[c0].ufd

\* use_count() > 3: somebody else holds the shell, namely the queue itself.
\* (Fault: the count is not looked at.)
NeverShared == FALSE
StillShared == \E i \in 2 .. Len(garbage_shells) : garbage_shells[i] = c0

\* (Fault: maxfd is lowered whoever leaves.)
LowerAlways == maxfd - 1
LowerMaxfd  == IF maxfd = fd0 THEN maxfd - 1 ELSE maxfd

\* (Fault: the descriptor keeps leading to the shell.)
KeepFd == fd2usershell
FreeFd == [fd2usershell EXCEPT ![fd0] = Nobody]

\* (Fault: the id is freed but its name is kept.)
KeepName == id2username
FreeName == [id2username EXCEPT ![id0] = NoEntry]

ClearGarbage ==
  /\ status = "up" /\ pc = "clear" /\ garbage_shells # <<>>
  /\ garbage_shells' = Tail(garbage_shells)
  /\ IF StillShared
       THEN UNCHANGED <<tables, kernel, status, census>>
       ELSE /\ SendTo(Users)
            /\ census' = [c \in Conn |-> IF c \in Users \ {c0} THEN census[c] - 1 ELSE 0]
            /\ id2usershell' = [id2usershell EXCEPT ![id0] = Nobody]
            /\ fd2usershell' = FreeFd
            /\ afds' = afds \ {fd0}
            /\ id2username' = FreeName
            /\ available_ids' = [available_ids EXCEPT ![id0] = @ + 1]
            /\ maxfd' = LowerMaxfd
            /\ \E fds \in {{}, pipefds} :
                 /\ open' = open \ ({fd0} \cup fds)
                 /\ pipefds' = pipefds \ fds
            /\ link' = [link EXCEPT ![c0] = "out"]
            /\ pending' = [pending EXCEPT ![c0] = FALSE]
  /\ UNCHANGED <<shell, loop>>

-----------------------------------------------------------------------------
(* Server::run.                                                            *)

Readable(fd) ==
  IF fd = Msock THEN \E c \in Conn : Waiting(c)
  ELSE \E c \in Conn : fd2usershell[fd] = c /\ (pending[c] \/ link[c] \in {"fin", "rst"})

\* select() looks at the descriptors up to maxfd only.
\* (Fault: it is called with maxfd, not with maxfd + 1.)
OffByOne(fd) == fd < maxfd
InReach(fd)  == fd <= maxfd

Select ==
  /\ status = "up" /\ pc = "clear" /\ garbage_shells = <<>>
  /\ rfds' = {fd \in afds : InReach(fd) /\ Readable(fd)}
  /\ rfds' # {}
  /\ pc' = "scan"
  /\ UNCHANGED <<tables, garbage_shells, shell, who, todo, kernel, status, census>>

\* The scan has come to fd, the lowest one left.
At(fd) == /\ status = "up" /\ pc = "scan"
          /\ fd \in rfds /\ fd <= maxfd
          /\ \A g \in rfds : fd <= g
          /\ rfds' = rfds \ {fd}

EndScan ==
  /\ status = "up" /\ pc = "scan"
  /\ \A fd \in rfds : fd > maxfd
  /\ pc' = "clear"
  /\ UNCHANGED <<tables, garbage_shells, shell, rfds, who, todo, kernel, status, census>>

\* What accept() and pipe() take: the lowest descriptor that is not open.
Lowest(fd) == /\ fd \in Fd \ open
              /\ \A g \in Fd \ open : fd <= g

\* create_id: the lowest id given back, or a new one.
\* (Faults: a new id each time; the first id when none was given back.)
AlwaysNew(uid) == uid = Len(id2usershell) + 1
FirstId(uid)   == uid = 1
CreateId(uid)  ==
  LET back == {i \in 1 .. Len(available_ids) : available_ids[i] > 0} IN
  IF back = {} THEN uid = Len(id2usershell) + 1
               ELSE uid \in back /\ \A i \in back : uid <= i

\* v with its element i set, or appended when v ends before it; v long enough
\* to have an element i.
Grow(v, i, x) == IF i \in 1 .. Len(v) THEN v ELSE Append(v, x)
Put(v, i, x)  == IF i \in 1 .. Len(v) THEN [v EXCEPT ![i] = x] ELSE Append(v, x)

\* The pop of create_id.
TakeId(uid) == IF uid \in 1 .. Len(available_ids)
                 THEN [available_ids EXCEPT ![uid] = @ - 1] ELSE Append(available_ids, 0)

\* create_shell stops the server when the id or the descriptor is taken.
Occupied(uid, fd) == \/ uid \in 1 .. Len(id2usershell) /\ id2usershell[uid] # Nobody
                     \/ fd2usershell[fd] # Nobody

\* (Fault: maxfd is not raised.)
LeaveMaxfd(fd) == maxfd
RaiseMaxfd(fd) == IF fd > maxfd THEN fd ELSE maxfd

\* A client is accepted and welcomed, and everyone is told.
Accept(c) ==
  /\ At(Msock)
  /\ Waiting(c)
  /\ \E fd \in Fd, uid \in 1 .. Len(id2usershell) + 1 :
       /\ Lowest(fd)
       /\ CreateId(uid)
       /\ available_ids' = TakeId(uid)
       /\ open' = open \cup {fd}
       /\ shell' = [shell EXCEPT ![c] = [ufd |-> fd, uid |-> uid, isalive |-> TRUE, name |-> NoName]]
       /\ IF Occupied(uid, fd)
            THEN /\ status' = "exit"
                 /\ id2usershell' = Grow(id2usershell, uid, Nobody)
                 /\ id2username' = Grow(id2username, uid, NoEntry)
                 /\ UNCHANGED <<fd2usershell, afds, maxfd, census>>
            ELSE /\ SendTo(Users \cup {c})
                 /\ id2usershell' = Put(id2usershell, uid, c)
                 /\ fd2usershell' = [fd2usershell EXCEPT ![fd] = c]
                 /\ id2username' = Put(id2username, uid, NoName)
                 /\ afds' = afds \cup {fd}
                 /\ maxfd' = RaiseMaxfd(fd)
                 /\ census' = [d \in Conn |-> IF d = c THEN Cardinality(Users) + 1
                                              ELSE IF d \in Users THEN census[d] + 1 ELSE 0]
  /\ UNCHANGED <<garbage_shells, pc, who, todo, pipefds, link, pending>>

\* The end of a connection is executed as the line exit.
ExitTask == [op |-> "exit", name |-> NoName, id |-> 0]

\* A client's descriptor.  One without a shell stops the server; a shell that is
\* not alive is passed over, since it waits in the queue.
Serve(fd) ==
  LET c == fd2usershell[fd] IN
  /\ At(fd)
  /\ fd # Msock
  /\ IF c = Nobody
       THEN status' = "exit" /\ UNCHANGED <<pc, who, todo, pending>>
       ELSE /\ UNCHANGED status
            /\ IF ~shell[c].isalive
                 THEN UNCHANGED <<pc, who, todo, pending>>
                 ELSE /\ pc' = "exec"
                      /\ who' = c
                      /\ todo' \in IF pending[c] THEN Lines ELSE {<<ExitTask>>}
                      /\ pending' = [pending EXCEPT ![c] = FALSE]
  /\ UNCHANGED <<tables, garbage_shells, shell, open, pipefds, link, census>>

-----------------------------------------------------------------------------
(* Shell::execute, one builtin per step.                                   *)

task == Head(todo)

Doing(op) == /\ status = "up" /\ pc = "exec"
             /\ todo # <<>>
             /\ task.op = op
             /\ todo' = Tail(todo)
             /\ UNCHANGED <<pc, rfds, who>>

\* who, printenv, setenv, and every message that only the user sees.
DoQuiet ==
  /\ Doing("quiet")
  /\ SendTo({who})
  /\ UNCHANGED <<tables, garbage_shells, shell, kernel, census>>

DoYell ==
  /\ Doing("yell")
  /\ SendTo(Users)
  /\ UNCHANGED <<tables, garbage_shells, shell, kernel, census>>

\* builtin_tell to a user that user_exists finds, or the error message; the server
\* ends when the receiver is no number.
DoTell ==
  /\ Doing("tell")
  /\ IF task.id = NotNumber THEN status' = "thrown"
     ELSE SendTo(IF task.id \in 1 .. Len(id2usershell) /\ id2usershell[task.id] # Nobody
                   THEN {id2usershell[task.id]} ELSE {who})
  /\ UNCHANGED <<tables, garbage_shells, shell, kernel, census>>

\* (Fault: the name is only compared with the user's own.)
IsMyName(n) == shell[who].name = n
IsSame(n)   == \E i \in 1 .. Len(id2username) : id2username[i] = n

DoName ==
  /\ Doing("name")
  /\ IF IsSame(task.name)
       THEN /\ SendTo({who})
            /\ UNCHANGED <<id2username, shell>>
       ELSE /\ SendTo(Users)
            /\ id2username' = [id2username EXCEPT ![shell[who].uid] = task.name]
            /\ shell' = [shell EXCEPT ![who].name = task.name]
  /\ UNCHANGED <<afds, maxfd, id2usershell, fd2usershell, available_ids, garbage_shells, kernel, census>>

MarkDead == [shell EXCEPT ![who].isalive = FALSE]

\* builtin_exit and deleteuser: the shell joins the queue, if both tables know it.
DoExit ==
  /\ Doing("exit")
  /\ garbage_shells' =
       IF id2usershell[shell[who].uid] # Nobody
          /\ id2usershell[shell[who].uid] = fd2usershell[shell[who].ufd]
         THEN Append(garbage_shells, id2usershell[shell[who].uid]) ELSE garbage_shells
  /\ shell' = MarkDead
  /\ UNCHANGED <<tables, kernel, status, census>>

\* A command leaves a numbered or a user pipe open (bound: one at a time), or
\* reads it and has it closed.
DoPipe ==
  /\ Doing("pipe")
  /\ IF pipefds # {} THEN UNCHANGED <<open, pipefds>>
     ELSE \E r, w \in Fd \ open :
            /\ Lowest(r)
            /\ w # r /\ \A g \in Fd \ (open \cup {r}) : w <= g
            /\ open' = open \cup {r, w}
            /\ pipefds' = pipefds \cup {r, w}
  /\ UNCHANGED <<tables, garbage_shells, shell, link, pending, status, census>>

DoUnpipe ==
  /\ Doing("unpipe")
  /\ \E fds \in {{}, pipefds} :
       /\ open' = open \ fds
       /\ pipefds' = pipefds \ fds
  /\ UNCHANGED <<tables, garbage_shells, shell, link, pending, status, census>>

\* The server is in waitpid(), for commands of this line or of earlier ones that
\* were piped to it, and serves nobody.  They may run for ever.
InWaitpid == pc = "exec" /\ todo = <<>>

\* They have ended, if there were any: the prompt, if the shell is still alive.
EndLine ==
  /\ status = "up" /\ InWaitpid
  /\ SendTo(IF shell[who].isalive THEN {who} ELSE {})
  /\ pc' = "scan"
  /\ who' = Nobody
  /\ UNCHANGED <<tables, garbage_shells, shell, rfds, todo, kernel, census>>

-----------------------------------------------------------------------------
Init ==
  /\ afds = {Msock}
  /\ maxfd = Msock
  /\ id2usershell = <<>>
  /\ fd2usershell = [fd \in Fd |-> Nobody]
  /\ id2username = <<>>
  /\ available_ids = <<>>
  /\ garbage_shells = <<>>
  /\ shell = [c \in Conn |-> NoShell]
  /\ pc = "clear"
  /\ rfds = {}
  /\ who = Nobody
  /\ todo = <<>>
  /\ open = {Msock}
  /\ pipefds = {}
  /\ link = [c \in Conn |-> "out"]
  /\ pending = [c \in Conn |-> FALSE]
  /\ status = "up"
  /\ census = [c \in Conn |-> 0]

ClientStep(c) == Connect(c) \/ Type(c) \/ Close(c) \/ Reset(c)

RunLine == DoQuiet \/ DoYell \/ DoTell \/ DoName \/ DoExit \/ DoPipe \/ DoUnpipe \/ EndLine

ServerStep == \/ ClearGarbage \/ Select \/ EndScan \/ RunLine
              \/ \E c \in Conn : Accept(c)
              \/ \E fd \in Fd : Serve(fd)

Next == ServerStep \/ \E c \in Conn : ClientStep(c)

Spec == Init /\ [][Next]_vars

\* The server runs whenever it can, but nothing makes the commands end that it
\* waits for; clients are free to do nothing.  Every connection that waits is
\* accepted in its turn.
Fairness == /\ WF_vars(~InWaitpid /\ ServerStep)
            /\ \A c \in Conn : SF_vars(Accept(c))

FairSpec == Spec /\ Fairness

-----------------------------------------------------------------------------
(* What the tables must keep true while the server is up.                  *)

\* The descriptors of live users are what is watched: a user's socket is in
\* afds, within the reach of select(), and leads back to the user; nothing else
\* is in afds but the listening socket (run, clear_garbage_shells: maxfd--).
WatchedFds ==
  status = "up" =>
    /\ afds = {Msock} \cup {shell[c].ufd : c \in Users}
    /\ \A c \in Users : fd2usershell[shell[c].ufd] = c
    /\ \A fd \in afds : fd <= maxfd /\ fd \in open /\ fd \notin pipefds
    /\ \A fd \in Fd : fd2usershell[fd] # Nobody => shell[fd2usershell[fd]].ufd = fd
    /\ Msock \notin {shell[c].ufd : c \in Users}

\* Every id handed out so far either belongs to one user, who is known by it,
\* or waits in available_ids exactly once (create_id, clear_garbage_shells).
IdsPartitioned ==
  status = "up" =>
    /\ Len(available_ids) = Len(id2usershell)
    /\ \A i \in 1 .. Len(id2usershell) :
         IF id2usershell[i] = Nobody THEN available_ids[i] = 1
         ELSE available_ids[i] = 0 /\ id2usershell[i] \in Users /\ shell[id2usershell[i]].uid = i
    /\ \A c \in Users : shell[c].uid \in 1 .. Len(id2usershell) /\ id2usershell[shell[c].uid] = c

\* The name table and the shells agree, freed ids have no name, and no two
\* users have taken one name (builtin_name, create_shell, clear_garbage_shells).
NamesAgree ==
  status = "up" =>
    /\ Len(id2username) = Len(id2usershell)
    /\ \A i \in 1 .. Len(id2usershell) :
         id2username[i] = IF id2usershell[i] = Nobody THEN NoEntry ELSE shell[id2usershell[i]].name
    /\ \A c, d \in Users : shell[c].name = shell[d].name /\ shell[c].name # NoName => c = d

\* The queue holds users that have exited, and all of them: nobody is queued
\* who is alive, and nobody is dead without being queued for removal.
QueueIsTheDead ==
  status = "up" =>
    {garbage_shells[i] : i \in 1 .. Len(garbage_shells)} = {c \in Users : ~shell[c].isalive}

\* The server's own consistency checks never stop it: "uid or ufd is occupied"
\* (create_shell) and "shell with given sockfd not exists" (run).
NeverStops == status # "exit"

\* Each arrival and each departure is told once to everyone who is logged in:
\* who counts them knows how many users there are.
CensusRight == status = "up" => \A c \in Users : census[c] = Cardinality(Users)

\* The server is gone, or waits for ever for the commands of one line: for all
\* other users this is the same (wait_child_processes, wait_user_child_processes).
Lost == <>[](status # "up" \/ InWaitpid)

\* A client whose connection has ended is removed from the tables, unless the
\* server is lost; its slot and its id are not kept for ever.
DepartedRemoved ==
  \/ \A c \in Conn : (c \in Users /\ link[c] \in {"fin", "rst"}) ~> c \notin Users
  \/ Lost

\* A client that connects is accepted, unless the server is lost.
WaitingAccepted == (\A c \in Conn : Waiting(c) ~> c \in Users) \/ Lost

-----------------------------------------------------------------------------
(* The roster that the four tables implement.                              *)

Roster == INSTANCE Registry WITH
  roster <- [i \in {j \in 1 .. Len(id2usershell) : id2usershell[j] # Nobody} |->
               [who |-> id2usershell[i], name |-> id2username[i]]]

KeepsRoster == Roster!Spec
=============================================================================
