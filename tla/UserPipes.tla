------------------------------ MODULE UserPipes ------------------------------
(***************************************************************************)
(* Shell::execute of np_single_proc.  One process executes the lines of    *)
(* all users, one after the other.  A line is a pipeline whose ends may be *)
(* numbered pipes, kept in a ring per user as in npshell, or user pipes:   *)
(* `>r` puts a pipe into the mailbox that user r keeps for the sender,     *)
(* `<s` takes the one that user s sent.  The server holds both ends of     *)
(* every pipe that waits in a ring or a mailbox, and its children inherit  *)
(* those that they do not close.                                           *)
(*                                                                         *)
(* A user's id may be given to a newcomer; sessions are numbered so that   *)
(* they can be told apart.  The tables of users are those of UserTable.    *)
(***************************************************************************)
EXTENDS Integers, Sequences, FiniteSets

CONSTANTS
  User,           \* ids
  MaxPipe,        \* slots of a ring (Environment::maxpipe)
  Capacity,       \* units a kernel pipe holds
  Lines,          \* what a user may type: non-empty sequences of tasks
  MaxFork,        \* bound: processes forked
  MaxLine,        \* bound: lines executed
  MaxSession,     \* bound: logins
  MaxForkError    \* bound: forks that fail

ASSUME UserAssumption == User \subseteq Nat \ {0}
ASSUME BoundAssumption ==
  /\ MaxPipe \in Nat \ {0} /\ Capacity \in Nat \ {0}
  /\ MaxFork \in Nat /\ MaxLine \in Nat /\ MaxSession \in Nat /\ MaxForkError \in Nat

NoPipe  == 0    \* a Pipe with pfd = {-1, -1}; as an end: the user's socket or a file
DevNull == -1   \* the fake_pipe, whose read end is /dev/null
NotPipe == -1   \* an IO whose type is Origin or ToFile
NoUser  == 0    \* an IO whose type is not ToUserPipe; the session of nobody

(***************************************************************************)
(* A parsed command.  out and err are the distance of the line the stream  *)
(* is piped to, 0 for the next command.  from and to are the users of `<`  *)
(* on the first task and `>` on the last.  A command that reads copies its *)
(* input to its output; one that does not writes size units.               *)
(***************************************************************************)
Task == [kind : {"run", "builtin", "exit"}, reads : BOOLEAN, size : Nat,
         out : Nat \cup {NotPipe}, err : Nat \cup {NotPipe},
         from : User \cup {NoUser}, to : User \cup {NoUser}]

ASSUME LineAssumption == Lines \subseteq Seq(Task) \ {<<>>}

Proc    == 1 .. MaxFork
Slots   == 0 .. MaxPipe - 1
Session == 1 .. MaxSession

VARIABLES
  holder,     \* the session that has each id, or NoUser
  nsession,   \* logins so far
  env,        \* the Environment of each user
  garbage,    \* the users in garbage_shells
  \* the line being executed: its user, its tasks, the next one, the two flags
  pc, who, line, idx, inError, outError,
  lineno,     \* lines begun so far
  \* the kernel: pipes the server holds, pipes created, units in each; processes
  open, npipe, buf, proc, nproc, forkErrors,
  route       \* history: the two sessions a user pipe was made for

server == <<pc, who, line, idx, inError, outError, lineno>>
users  == <<holder, nsession, garbage>>
kernel == <<open, npipe, buf, proc, nproc, forkErrors, route>>
vars   == <<users, env, server, kernel>>

NewEnv == [current_pos          |-> 0,
           pipes                |-> [k \in Slots |-> NoPipe],
           last_pipe            |-> NoPipe,
           child_processes      |-> [k \in Slots |-> {}],
           user_pipes           |-> [s \in User |-> NoPipe],
           user_child_processes |-> [s \in User |-> {}]]

NoProc == [st |-> "none", by |-> NoUser, reads |-> FALSE, left |-> 0,
           in |-> NoPipe, out |-> NoPipe, err |-> NoPipe, held |-> {}]

Pipes == 1 .. npipe

\* An Environment and a process, when the kernel has numbered n pipes.
EnvRec(n) == [current_pos          : Slots,
              pipes                : [Slots -> 1 .. n \cup {NoPipe, DevNull}],
              last_pipe            : 1 .. n \cup {NoPipe, DevNull},
              child_processes      : [Slots -> SUBSET Proc],
              user_pipes           : [User -> 0 .. n],
              user_child_processes : [User -> SUBSET Proc]]
ProcRec(n) == [st : {"none", "running", "done", "killed"}, by : Session \cup {NoUser},
               reads : BOOLEAN, left : Nat, in : 1 .. n \cup {NoPipe, DevNull},
               out : 0 .. n, err : 0 .. n, held : SUBSET (1 .. n)]

TypeOK ==
  /\ holder \in [User -> Session \cup {NoUser}]
  /\ nsession \in 0 .. MaxSession
  /\ garbage \subseteq User
  /\ env \in [User -> EnvRec(npipe)]
  /\ pc \in {"idle", "exec", "forward", "waituser", "wait"}
  /\ who \in User \cup {NoUser}
  /\ line \in Seq(Task) /\ idx \in Nat
  /\ inError \in BOOLEAN /\ outError \in BOOLEAN
  /\ lineno \in 0 .. MaxLine
  /\ open \subseteq Pipes
  /\ npipe \in Nat
  /\ buf \in [Pipes -> 0 .. Capacity]
  /\ proc \in [Proc -> ProcRec(npipe)]
  /\ nproc \in 0 .. MaxFork
  /\ forkErrors \in 0 .. MaxForkError
  /\ route \in [Pipes -> (Session \cup {NoUser}) \X (Session \cup {NoUser})]

-----------------------------------------------------------------------------
(* The commands and the kernel's pipes.                                    *)

Running(p) == proc[p].st = "running"

HasReader(q) == q \in open \/ \E p \in Proc : Running(p) /\ (proc[p].in = q \/ q \in proc[p].held)
HasWriter(q) == q \in open \/ \E p \in Proc : Running(p) /\ q \in {proc[p].out, proc[p].err} \cup proc[p].held

HasRoom(q) == q \in Pipes /\ HasReader(q) => buf[q] < Capacity

\* One unit more in q, unless nobody would read it or it is no pipe.
Filled(b, q) == IF q \in Pipes /\ HasReader(q) THEN [b EXCEPT ![q] = @ + 1] ELSE b

CanWrite(p) == Running(p) /\ proc[p].left > 0 /\ HasRoom(proc[p].out)
CanCopy(p)  == /\ Running(p) /\ proc[p].reads
               /\ proc[p].in \in Pipes /\ buf[proc[p].in] > 0
               /\ HasRoom(proc[p].out)
AtEnd(p)    == IF proc[p].reads THEN /\ proc[p].in # NoPipe
                                     /\ proc[p].in \in Pipes => buf[proc[p].in] = 0 /\ ~HasWriter(proc[p].in)
                                ELSE proc[p].left = 0
CanEnd(p)   == Running(p) /\ AtEnd(p)

\* A write that nobody can read any more ends the command (SIGPIPE).
AfterWrite(p, r) == IF proc[p].out \in Pipes /\ ~HasReader(proc[p].out) THEN [r EXCEPT !.st = "done"] ELSE r

Write(p) ==
  /\ CanWrite(p)
  /\ proc' = [proc EXCEPT ![p] = AfterWrite(p, [proc[p] EXCEPT !.left = @ - 1])]
  /\ buf' = Filled(buf, proc[p].out)
  /\ UNCHANGED <<users, env, server, open, npipe, nproc, forkErrors, route>>

Copy(p) ==
  /\ CanCopy(p)
  /\ proc' = [proc EXCEPT ![p] = AfterWrite(p, @)]
  /\ buf' = Filled([buf EXCEPT ![proc[p].in] = @ - 1], proc[p].out)
  /\ UNCHANGED <<users, env, server, open, npipe, nproc, forkErrors, route>>

End(p) ==
  /\ CanEnd(p)
  /\ proc' = [proc EXCEPT ![p].st = "done"]
  /\ UNCHANGED <<users, env, server, open, npipe, buf, nproc, forkErrors, route>>

\* A command that reads the user's socket ends when the user pleases.
SocketEnd(p) ==
  /\ Running(p) /\ proc[p].reads /\ proc[p].in = NoPipe
  /\ proc' = [proc EXCEPT ![p].st = "done"]
  /\ UNCHANGED <<users, env, server, open, npipe, buf, nproc, forkErrors, route>>

ProcStep(p) == Write(p) \/ Copy(p) \/ End(p)

-----------------------------------------------------------------------------
(* Users come and go between two lines.  The listening socket has the      *)
(* least descriptor, so that nobody is let in once a line of the scan has  *)
(* put a user into the queue.                                              *)

Online(u) == u \in User /\ holder[u] # NoUser

Login(u) ==
  /\ pc = "idle" /\ garbage = {}
  /\ ~Online(u) /\ nsession < MaxSession
  /\ nsession' = nsession + 1
  /\ holder' = [holder EXCEPT ![u] = nsession + 1]
  /\ env' = [env EXCEPT ![u] = NewEnv]
  /\ UNCHANGED <<garbage, server, kernel>>

\* The mailboxes that hold something from u are emptied, the writers listed
\* with them killed; then ~Shell kills the children that u's lists name.
\* (Fault: the pipes of the departed user are closed but stay in the boxes.)
KeepsMail(e, u) == e.user_pipes
DropMail(e, u)  == [e.user_pipes EXCEPT ![u] = NoPipe]

\* (Fault: ~Shell forgets the children that wait for u to read them.)
OwnChildren(u)  == UNION {env[u].child_processes[k] : k \in Slots}
AllChildren(u)  == OwnChildren(u) \cup UNION {env[u].user_child_processes[s] : s \in User}

Victims(u) == AllChildren(u) \cup UNION {env[v].user_child_processes[u] : v \in User}

ClearGarbage(u) ==
  /\ pc = "idle" /\ u \in garbage
  /\ garbage' = garbage \ {u}
  /\ open' = open \ {env[v].user_pipes[u] : v \in User}
  /\ proc' = [p \in Proc |-> IF Running(p) /\ p \in Victims(u) THEN [proc[p] EXCEPT !.st = "killed"] ELSE proc[p]]
  /\ env' = [v \in User |-> IF v = u THEN NewEnv
              ELSE [env[v] EXCEPT !.user_pipes = DropMail(env[v], u), !.user_child_processes[u] = {}]]
  /\ holder' = [holder EXCEPT ![u] = NoUser]
  /\ UNCHANGED <<nsession, server, npipe, buf, nproc, forkErrors, route>>

-----------------------------------------------------------------------------
(* Shell::execute, before the tasks.                                       *)

Mail(s, r) == env[r].user_pipes[s]

\* `<s` of user u: the pipe, or an error and /dev/null in its place.
Received(u, s) == Online(s) /\ Mail(s, u) # NoPipe
TakesMail(u, s) == [env[u].user_pipes EXCEPT ![s] = NoPipe]
Receive(u, s) ==
  IF s = NoUser THEN env
  ELSE IF Received(u, s)
    THEN [env EXCEPT ![u].last_pipe = Mail(s, u), ![u].user_pipes = TakesMail(u, s)]
    ELSE [env EXCEPT ![u].last_pipe = DevNull]

\* `>r` of user u over the environments e: an error when r has an unread pipe of
\* u, else a new pipe.
\* (Fault: the unread pipe is replaced.)
MayReplace(e, u, r) == Online(r)
MaySend(e, u, r)    == Online(r) /\ e[r].user_pipes[u] = NoPipe

\* A line of a user whose shell is alive.  One who has left stays in the tables
\* until the scan is over: lines of others may come before ClearGarbage.
ReadLine(u) ==
  /\ pc = "idle" /\ u \notin garbage
  /\ Online(u) /\ lineno < MaxLine
  /\ \E l \in Lines :
       LET s == l[1].from
           r == l[Len(l)].to
           e == Receive(u, s)
           sends == r # NoUser /\ MaySend(e, u, r) IN
       /\ nproc + Len(l) <= MaxFork
       /\ line' = l
       /\ inError' = (s # NoUser /\ ~Received(u, s))
       /\ outError' = (r # NoUser /\ ~sends)
       /\ IF sends
            THEN /\ npipe' = npipe + 1
                 /\ open' = open \cup {npipe + 1}
                 /\ buf' = Append(buf, 0)
                 /\ route' = Append(route, <<holder[u], holder[r]>>)
                 /\ env' = [e EXCEPT ![r].user_pipes[u] = npipe + 1]
            ELSE /\ env' = e
                 /\ UNCHANGED <<npipe, open, buf, route>>
  /\ pc' = "exec"
  /\ who' = u
  /\ idx' = 1
  /\ lineno' = lineno + 1
  /\ UNCHANGED <<users, proc, nproc, forkErrors>>

-----------------------------------------------------------------------------
(* Task::exec.                                                             *)

me       == env[who]
task     == line[idx]
lastTask == line[Len(line)]
Slot(n)  == (me.current_pos + n) % MaxPipe

NextTask == IF idx = Len(line) THEN pc' = "forward" /\ UNCHANGED idx
                               ELSE idx' = idx + 1 /\ UNCHANGED pc

\* The chat builtins, printenv and setenv make, take and close no pipe; exit
\* puts the user into the queue.
ExecBuiltin ==
  /\ pc = "exec" /\ task.kind # "run"
  /\ garbage' = IF task.kind = "exit" THEN garbage \cup {who} ELSE garbage
  /\ NextTask
  /\ UNCHANGED <<holder, nsession, env, who, line, inError, outError, lineno, kernel>>

\* The slot's pipe becomes the input and a new one takes its place; then the
\* slots that stdout and stderr go to get a pipe if they have none.
taken    == IF me.pipes[Slot(0)] # NoPipe THEN me.pipes[Slot(0)] ELSE me.last_pipe
Lacks(n) == n # NotPipe /\ Slot(n) # Slot(0) /\ me.pipes[Slot(n)] = NoPipe
wanted   == {Slot(n) : n \in {m \in {task.out, task.err} : Lacks(m)}}
made     == npipe + 1 + Cardinality(wanted)
ring     == [k \in Slots |-> IF k = Slot(0) THEN npipe + 1
                             ELSE IF k \in wanted
                               THEN IF k = Slot(task.out) /\ Lacks(task.out) THEN npipe + 2 ELSE made
                             ELSE me.pipes[k]]
Target(n) == IF n = NotPipe THEN NoPipe ELSE ring[Slot(n)]

\* stdout to a user: his mailbox, or /dev/null after an error.
Stdout == IF task.to = NoUser THEN Target(task.out)
          ELSE IF outError THEN NoPipe ELSE env[task.to].user_pipes[who]

\* The child closes last_pipe and the ring of its own user.
\* (Fault: it does not close last_pipe.)
ClosesRing    == {ring[k] : k \in Slots}
ClosedByChild == {ring[k] : k \in Slots} \cup {taken}

Child == [st |-> "running", by |-> holder[who], reads |-> task.reads,
          left |-> IF task.reads THEN 0 ELSE task.size,
          in |-> taken, out |-> Stdout, err |-> Target(task.err),
          held |-> (open \cup (npipe + 1 .. made)) \ ClosedByChild]

AfterLast == idx = Len(line)

\* (Fault: it closes the pipe that was in the way of the slot's too.)
ClosesBoth     == {taken, me.last_pipe} \cup (IF AfterLast THEN {npipe + 1} ELSE {})
ClosedByParent == {taken} \cup (IF AfterLast THEN {npipe + 1} ELSE {})

NewPipes == /\ npipe' = made
            /\ buf' = [q \in 1 .. made |-> IF q \in Pipes THEN buf[q] ELSE 0]
            /\ route' = [q \in 1 .. made |-> IF q \in Pipes THEN route[q] ELSE <<NoUser, NoUser>>]

ExecFork ==
  /\ pc = "exec" /\ task.kind = "run"
  /\ env' = [env EXCEPT ![who].pipes = IF AfterLast THEN [ring EXCEPT ![Slot(0)] = NoPipe] ELSE ring,
                        ![who].last_pipe = NoPipe,
                        ![who].child_processes[Slot(0)] = @ \cup {nproc + 1}]
  /\ open' = (open \cup (npipe + 1 .. made)) \ ClosedByParent
  /\ NewPipes
  /\ nproc' = nproc + 1
  /\ proc' = [proc EXCEPT ![nproc + 1] = Child]
  /\ NextTask
  /\ UNCHANGED <<users, who, line, inError, outError, lineno, forkErrors>>

\* fork() fails: the slot gets last_pipe back, and execute() tries again.
ExecForkError ==
  /\ pc = "exec" /\ task.kind = "run"
  /\ forkErrors < MaxForkError
  /\ env' = [env EXCEPT ![who].pipes = [ring EXCEPT ![Slot(0)] = taken], ![who].last_pipe = taken]
  /\ open' = (open \cup (npipe + 1 .. made)) \ {npipe + 1}
  /\ NewPipes
  /\ forkErrors' = forkErrors + 1
  /\ UNCHANGED <<users, server, proc, nproc>>

-----------------------------------------------------------------------------
(* Shell::execute, after the tasks.                                        *)

\* The children of a line that is piped on go to the list of the line, or of
\* the user, that will read it.
GivesChildren == [env EXCEPT ![lastTask.to].user_child_processes[who] = @ \cup me.child_processes[Slot(0)],
                             ![who].child_processes[Slot(0)] = {}]
Forward ==
  /\ pc = "forward"
  /\ env' = IF lastTask.to # NoUser
              THEN IF outError THEN env ELSE GivesChildren
              ELSE IF lastTask.out # NotPipe
                THEN [env EXCEPT ![who].child_processes =
                        [me.child_processes EXCEPT ![Slot(lastTask.out)] = @ \cup me.child_processes[Slot(0)],
                                                   ![Slot(0)] = {}]]
                ELSE env
  /\ pc' = IF line[1].from # NoUser /\ ~inError THEN "waituser" ELSE "wait"
  /\ inError' = FALSE
  /\ outError' = FALSE
  /\ UNCHANGED <<users, who, line, idx, lineno, kernel>>

\* The processes that the server waits for.
awaited == IF pc = "waituser" THEN me.user_child_processes[line[1].from]
           ELSE IF pc = "wait" THEN me.child_processes[Slot(0)] ELSE {}

WaitUser ==
  /\ pc = "waituser"
  /\ \A p \in awaited : ~Running(p)
  /\ env' = [env EXCEPT ![who].user_child_processes[line[1].from] = {}]
  /\ pc' = "wait"
  /\ UNCHANGED <<users, who, line, idx, inError, outError, lineno, kernel>>

\* Then the line's own children, and clear_env.
EndLine ==
  /\ pc = "wait"
  /\ \A p \in awaited : ~Running(p)
  /\ open' = open \ {me.pipes[Slot(0)]}
  /\ env' = [env EXCEPT ![who].pipes[Slot(0)] = NoPipe,
                        ![who].child_processes[Slot(0)] = {},
                        ![who].current_pos = Slot(1)]
  /\ pc' = "idle"
  /\ who' = NoUser
  /\ line' = <<>>
  /\ idx' = 0
  /\ UNCHANGED <<users, inError, outError, lineno, npipe, buf, proc, nproc, forkErrors, route>>

-----------------------------------------------------------------------------
Init ==
  /\ holder = [u \in User |-> NoUser] /\ nsession = 0 /\ garbage = {}
  /\ env = [u \in User |-> NewEnv]
  /\ pc = "idle" /\ who = NoUser /\ line = <<>> /\ idx = 0
  /\ inError = FALSE /\ outError = FALSE /\ lineno = 0
  /\ open = {} /\ npipe = 0 /\ buf = <<>> /\ route = <<>>
  /\ proc = [p \in Proc |-> NoProc] /\ nproc = 0 /\ forkErrors = 0

ServerStep == \/ ExecBuiltin \/ ExecFork \/ ExecForkError
              \/ Forward \/ WaitUser \/ EndLine
              \/ \E u \in User : ClearGarbage(u)

Next == \/ \E u \in User : Login(u) \/ ReadLine(u)
        \/ ServerStep
        \/ \E p \in Proc : ProcStep(p) \/ SocketEnd(p)

Spec == Init /\ [][Next]_vars

\* The server and the commands run whenever they can; no user types or ends the
\* input of a command.
FairSpec == Spec /\ WF_vars(ServerStep) /\ \A p \in Proc : WF_vars(ProcStep(p))

-----------------------------------------------------------------------------
(* What must hold.                                                         *)

Boxed(q) == \E s, r \in User : Mail(s, r) = q

\* A user pipe is read only by commands of the session it was sent to and
\* written only by commands of the session that sent it, and while it waits in a
\* mailbox nobody has read from it and it is where the two sessions are now,
\* whoever had the ids before (execute, clear_garbage_shells).
MailRouted ==
  /\ \A p \in Proc, q \in Pipes : route[q] # <<NoUser, NoUser>> =>
       /\ proc[p].in = q => proc[p].by = route[q][2] /\ ~Boxed(q)
       /\ proc[p].out = q => proc[p].by = route[q][1]
  /\ \A s, r \in User : Mail(s, r) # NoPipe => route[Mail(s, r)] = <<holder[s], holder[r]>>

\* The pipes that some Environment knows.
Known == UNION {{env[u].pipes[k] : k \in Slots} \cup {env[u].user_pipes[s] : s \in User}
                  \cup {env[u].last_pipe} : u \in User}

\* The server loses a pipe it holds only when a user leaves with pipes waiting in
\* its ring or mailboxes, or when a line with `<` finds a numbered pipe, or what
\* a builtin did not take, in the way: nothing else leaks a descriptor.
LeaksOnly ==
  [][ \A q \in (open' \ Known') : q \in open /\ q \in Known =>
        \/ \E u \in garbage : u \notin garbage'
        \/ pc = "exec" /\ q = me.last_pipe /\ me.pipes[Slot(0)] # NoPipe
        \/ pc = "idle" /\ \E u \in User : q = env[u].last_pipe ]_vars

\* A command that runs is on a list of a user who is there: it will be waited
\* for, or killed when one of the two users of its pipe leaves; and it is killed
\* only then (add_childprocesses, ~Shell).
ChildrenAccounted ==
  \A p \in Proc :
    /\ Running(p) => \E u \in User :
         /\ Online(u)
         /\ \/ \E k \in Slots : p \in env[u].child_processes[k]
            \/ \E s \in User : p \in env[u].user_child_processes[s]
    /\ proc[p].st = "killed" =>
         LET gone == Session \ {holder[u] : u \in User} IN
         \/ proc[p].by \in gone
         \/ \E q \in Pipes : route[q][1] = proc[p].by /\ route[q][2] \in gone

\* No command finds its input closed before it was started: what an Environment
\* knows is open, and a user pipe that a `<` took and announced as received is
\* read by a command, or the server still holds it (a numbered pipe or a builtin
\* was in its way), while both its users are there.
PipesKept ==
  /\ TypeOK
  /\ Known \ {NoPipe, DevNull} \subseteq open
  /\ \A q \in Pipes : route[q] # <<NoUser, NoUser>> =>
       \/ q \in open
       \/ \E p \in Proc : proc[p].in = q
       \/ \E i \in {1, 2} : \A u \in User : holder[u] # route[q][i]

\* p goes on only if its user types, or if a line that reads its output is typed:
\* no command that runs reads the full pipe that it writes.
WantsToWrite(p) == proc[p].left > 0 \/ (proc[p].reads /\ proc[p].in \in Pipes /\ buf[proc[p].in] > 0)
ReadersOf(q)    == {r \in Proc : Running(r) /\ proc[r].in = q}
NeedsUser(p) == /\ Running(p)
                /\ \/ proc[p].reads /\ proc[p].in = NoPipe
                   \/ WantsToWrite(p) /\ ~HasRoom(proc[p].out) /\ ReadersOf(proc[p].out) = {}

\* The processes that have to go on before p can: the readers of the full pipe
\* that it writes; or all who keep a write end of the empty pipe that it reads.
WaitsFor(p) ==
  IF ~Running(p) THEN {}
  ELSE IF WantsToWrite(p) THEN ReadersOf(proc[p].out)
  ELSE {r \in Proc : /\ Running(r) /\ proc[p].reads /\ proc[p].in \in Pipes
                     /\ proc[p].in \in {proc[r].out, proc[r].err} \cup proc[r].held}

\* Among those the server waits for, at first hand or through pipes, is one that
\* needs its user.
UpToUsers ==
  \A P \in SUBSET Proc :
    awaited \subseteq P /\ (\A p \in P : WaitsFor(p) \subseteq P) => \E p \in P : NeedsUser(p)

\* Every line comes to its end, so that the others are served, unless the server
\* waits for ever for a command that needs its user: the server never waits for
\* itself, for commands that wait for each other, or on a descriptor nobody uses.
\* A command that is stuck in a pipe for a later line may well keep the mailbox of
\* others open (execute, wait_child_processes, Task::exec line 109).
LineEnds == \/ pc # "idle" ~> pc = "idle"
            \/ <>[](pc # "idle" /\ UpToUsers)
=============================================================================
