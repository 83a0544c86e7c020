----------------------------- MODULE FifoPipes -----------------------------
(***************************************************************************)
(* User pipes of np_multi_proc.  Every user has a shell of his own.  `>r`  *)
(* makes a FIFO, writes its name into the entry of user r in shared        *)
(* memory, signals r's shell, and waits in open() until that shell's       *)
(* handler has opened the FIFO for reading and noted the descriptor in its *)
(* entry; `<s` finds the descriptor there.                                 *)
(*                                                                         *)
(* How shells take entries is the matter of SharedTable: here a user logs  *)
(* in in one step and finds an entry that only shells that have left may   *)
(* still write to.  The FIFOs of an entry are cleared as in the code, one  *)
(* by one, and each in three steps that nothing locks.                     *)
(***************************************************************************)
EXTENDS Integers, Sequences, FiniteSets

CONSTANTS
  User,        \* ids
  MaxPipe,     \* slots of a ring (Environment::maxpipe)
  Capacity,    \* units a pipe or FIFO holds
  Typed,       \* what each user may type: non-empty sequences of tasks
  MaxFork,     \* bound: processes forked
  MaxLine,     \* bound: lines read
  MaxLogin,    \* bound: logins
  MaxKilled    \* bound: shells killed

ASSUME BoundAssumption ==
  /\ User \subseteq Nat \ {0} /\ MaxPipe \in Nat \ {0} /\ Capacity \in Nat \ {0}
  /\ MaxFork \in Nat /\ MaxLine \in Nat /\ MaxLogin \in Nat /\ MaxKilled \in Nat

NoPipe  == 0    \* no descriptor; as an end of a command: the user's socket
DevNull == -1
NotPipe == -1   \* an IO that is not piped to a later command
NoUser  == 0

\* As in UserPipes; a line `exit` is a task of its own kind.
Task == [kind : {"run", "builtin", "exit"}, reads : BOOLEAN, size : Nat,
         out : Nat \cup {NotPipe}, from : User \cup {NoUser}, to : User \cup {NoUser}]

ASSUME LineAssumption == Typed \in [User -> SUBSET (Seq(Task) \ {<<>>})]

Lines == UNION {Typed[u] : u \in User}

Proc  == 1 .. MaxFork
Slots == 0 .. MaxPipe - 1

VARIABLES
  online,      \* the entries in use, with the pid of a shell
  fifo, pids,  \* users[r].fifo[s] and users[r].userpipe_pids[s]
  file,        \* the FIFO behind the path s->r, or NoPipe
  sh,          \* each user's shell
  held,        \* the pipes each shell has open; of a FIFO, its read end
  usr2,        \* SIGUSR2 is pending
  up,          \* the server has not been killed by a signal to all processes
  npipe, fifos, buf, proc, nproc,  \* the kernel, as in UserPipes
  nline, nlogin

shared == <<online, fifo, pids, file, up>>
kernel == <<npipe, fifos, buf, proc, nproc>>
counts == <<nline, nlogin>>
vars   == <<shared, sh, held, usr2, kernel, counts>>

Pipes == 1 .. npipe

NewShell == [pc |-> "out", line |-> <<>>, idx |-> 0, inError |-> FALSE, outError |-> FALSE,
             userpipefd |-> NoPipe, waits |-> NoPipe, current_pos |-> 0, last_pipe |-> NoPipe,
             pipes |-> [k \in Slots |-> NoPipe], child_processes |-> [k \in Slots |-> {}],
             unlink_pos |-> [s \in User |-> -1], todo |-> {}, goal |-> "line"]
NoFifo == [fd |-> NoPipe, name |-> FALSE]
NoProc == [st |-> "none", by |-> NoUser, reads |-> FALSE, left |-> 0, in |-> NoPipe, out |-> NoPipe, held |-> {}]

\* What a shell, a mailbox and a process are when n pipes have been numbered.
Clearing    == {"close", "unlink", "unname"}
ShellPlace  == {"out", "recv", "send", "mkfifo", "name", "kill", "open", "blocked", "exec", "finish", "wait", "left",
                "destroy", "killed"} \cup Clearing
ShellRec(n) == [pc : ShellPlace, line : {<<>>} \cup Lines, idx : Nat,
                inError : BOOLEAN, outError : BOOLEAN,
                userpipefd : 0 .. n, waits : 0 .. n,
                current_pos : Slots, last_pipe : -1 .. n,
                pipes : [Slots -> 0 .. n], child_processes : [Slots -> SUBSET Proc],
                unlink_pos : [User -> Slots \cup {-1}],
                todo : SUBSET User, goal : {"line", "exit", "destroy"}]
MailRec(n)  == [fd : 0 .. n, name : BOOLEAN]
ProcRec(n)  == [st : {"none", "running", "done", "failed", "killed"}, by : User \cup {NoUser},
                reads : BOOLEAN, left : Nat, in : -1 .. n, out : 0 .. n, held : SUBSET (1 .. n)]

TypeOK ==
  /\ online \subseteq User /\ up \in BOOLEAN
  /\ fifo \in [User -> [User -> MailRec(npipe)]]
  /\ pids \in [User -> [User -> SUBSET Proc]]
  /\ file \in [User -> [User -> 0 .. npipe]]
  /\ sh \in [User -> ShellRec(npipe)]
  /\ held \in [User -> SUBSET Pipes] /\ usr2 \subseteq User
  /\ npipe \in Nat /\ fifos \subseteq Pipes /\ buf \in [Pipes -> 0 .. Capacity]
  /\ proc \in [Proc -> ProcRec(npipe)]
  /\ nproc \in 0 .. MaxFork /\ nline \in 0 .. MaxLine /\ nlogin \in 0 .. MaxLogin

At(u, p)   == sh[u].pc = p
Goto(u, p) == sh' = [sh EXCEPT ![u].pc = p]

-----------------------------------------------------------------------------
(* The commands, and the kernel's pipes and FIFOs.                         *)

Running(p) == proc[p].st = "running"

HasReader(q) == \/ \E u \in User : q \in held[u]
                \/ \E p \in Proc : Running(p) /\ q \in {proc[p].in} \cup proc[p].held
HasWriter(q) == \/ \E u \in User : q = sh[u].userpipefd \/ (q \in held[u] \ fifos)
                \/ \E p \in Proc : Running(p) /\ (proc[p].out = q \/ q \in proc[p].held \ fifos)

HasRoom(q) == q \in Pipes /\ HasReader(q) => buf[q] < Capacity

Write(p) ==
  /\ Running(p) /\ proc[p].left > 0 /\ HasRoom(proc[p].out)
  /\ LET q == proc[p].out IN
       IF q \in Pipes /\ ~HasReader(q)
         THEN proc' = [proc EXCEPT ![p].st = "done"] /\ UNCHANGED buf
         ELSE /\ proc' = [proc EXCEPT ![p].left = @ - 1]
              /\ buf' = IF q \in Pipes THEN [buf EXCEPT ![q] = @ + 1] ELSE buf
  /\ UNCHANGED <<shared, sh, held, usr2, npipe, fifos, nproc, counts>>

\* What is read goes to the user, or into a pipe that has room.
Copy(p) ==
  /\ Running(p) /\ proc[p].reads /\ proc[p].in \in Pipes /\ buf[proc[p].in] > 0
  /\ HasRoom(proc[p].out)
  /\ buf' = LET b == [buf EXCEPT ![proc[p].in] = @ - 1] IN
            IF proc[p].out \in Pipes /\ HasReader(proc[p].out) THEN [b EXCEPT ![proc[p].out] = @ + 1] ELSE b
  /\ UNCHANGED <<shared, sh, held, usr2, npipe, fifos, proc, nproc, counts>>

\* The handler opens FIFOs with O_NONBLOCK, and the command inherits that: it
\* fails on an empty FIFO that somebody may still write to.
ReadsNothing(p) == proc[p].in \in Pipes /\ buf[proc[p].in] = 0
Fails(p) == proc[p].reads /\ ReadsNothing(p) /\ proc[p].in \in fifos /\ HasWriter(proc[p].in)
AtEnd(p) == IF proc[p].reads THEN proc[p].in = DevNull \/ (ReadsNothing(p) /\ ~HasWriter(proc[p].in))
                             ELSE proc[p].left = 0

End(p) ==
  /\ Running(p) /\ (Fails(p) \/ AtEnd(p))
  /\ proc' = [proc EXCEPT ![p].st = IF Fails(p) THEN "failed" ELSE "done"]
  /\ UNCHANGED <<shared, sh, held, usr2, npipe, fifos, buf, nproc, counts>>

ProcStep(p) == Write(p) \/ Copy(p) \/ End(p)

-----------------------------------------------------------------------------
(* Shell::execute, before the tasks.                                       *)

Login(u) ==
  /\ up /\ At(u, "out") /\ nlogin < MaxLogin
  /\ nlogin' = nlogin + 1
  /\ online' = online \cup {u}
  /\ sh' = [sh EXCEPT ![u] = [NewShell EXCEPT !.pc = "recv"]]
  /\ UNCHANGED <<fifo, pids, file, up, held, usr2, kernel, nline>>

\* A `<s` takes the descriptor that the entry shows.  When the shell has closed it
\* already, the number means nothing, or a pipe opened since.
Received(u, s)  == s \in online /\ fifo[u][s].fd # NoPipe
Meaning(u, q)   == IF q \in held[u] THEN {q} ELSE {NoPipe} \cup (held[u] \ fifos)

ReadLine(u) ==
  /\ At(u, "recv") /\ nline < MaxLine
  /\ nline' = nline + 1
  /\ \E l \in Typed[u] :
       LET s == l[1].from IN
       /\ \E q \in (IF s = NoUser THEN {sh[u].last_pipe}
                    ELSE IF Received(u, s) THEN Meaning(u, fifo[u][s].fd) ELSE {DevNull}) :
            sh' = [sh EXCEPT ![u] = [@ EXCEPT !.line = l, !.idx = 1, !.last_pipe = q,
                                              !.inError = (s # NoUser /\ ~Received(u, s)),
                                              !.pc = IF l[Len(l)].to = NoUser THEN "exec" ELSE "send"]]
  /\ UNCHANGED <<shared, held, usr2, kernel, nlogin>>

line(u)     == sh[u].line
from(u)     == line(u)[1].from
lastTask(u) == line(u)[Len(line(u))]
to(u)       == lastTask(u).to

\* `>r`: an error when r is not there or has an unread FIFO of u.
MaySend(u, r) == r \in online /\ fifo[r][u].fd = NoPipe

FindReceiver(u) ==
  /\ At(u, "send")
  /\ sh' = [sh EXCEPT ![u].pc = IF MaySend(u, to(u)) THEN "mkfifo" ELSE "exec", ![u].outError = ~MaySend(u, to(u))]
  /\ UNCHANGED <<shared, held, usr2, kernel, counts>>

MakeFifo(u) ==
  /\ At(u, "mkfifo") /\ file[u][to(u)] = NoPipe
  /\ npipe' = npipe + 1
  /\ fifos' = fifos \cup {npipe + 1}
  /\ buf' = Append(buf, 0)
  /\ file' = [file EXCEPT ![u][to(u)] = npipe + 1]
  /\ Goto(u, "name")
  /\ UNCHANGED <<online, fifo, pids, up, held, usr2, proc, nproc, counts>>

\* The path is there: the line goes on without a pipe.
MakeFails(u) ==
  /\ At(u, "mkfifo") /\ file[u][to(u)] # NoPipe
  /\ Goto(u, "exec")
  /\ UNCHANGED <<shared, held, usr2, kernel, counts>>

NoteName(u) ==
  /\ At(u, "name")
  /\ fifo' = [fifo EXCEPT ![to(u)][u].name = TRUE]
  /\ Goto(u, "kill")
  /\ UNCHANGED <<online, pids, file, up, held, usr2, kernel, counts>>

\* The signal goes to the pid in the receiver's entry: if he has left meanwhile that
\* is -1, every process.  A shell that was killed has left its pid there.
Live(u) == ~At(u, "out") /\ ~At(u, "killed")
Hit(r)  == {v \in User : Live(v) /\ (r \in online => v = r)}

Signal(u) ==
  /\ At(u, "kill")
  /\ usr2' = usr2 \cup Hit(to(u))
  /\ up' = (up /\ to(u) \in online)
  /\ proc' = [p \in Proc |-> IF to(u) \notin online /\ Running(p) THEN [proc[p] EXCEPT !.st = "killed"] ELSE proc[p]]
  /\ Goto(u, "open")
  /\ UNCHANGED <<online, fifo, pids, file, held, npipe, fifos, buf, nproc, counts>>

\* open(path, O_WRONLY): fails if the path is gone, else waits for somebody to
\* open it for reading.
Opened(s, q) == [s EXCEPT !.pc = "exec", !.userpipefd = q, !.waits = NoPipe]

Open(u) ==
  /\ At(u, "open")
  /\ LET q == file[u][to(u)] IN
       sh' = [sh EXCEPT ![u] = IF q = NoPipe \/ HasReader(q) THEN Opened(@, q)
                               ELSE [@ EXCEPT !.pc = "blocked", !.waits = q]]
  /\ UNCHANGED <<shared, held, usr2, kernel, counts>>

\* A signal whose handler returns makes a waiting open() start again.
Restarted(s) == IF s.pc = "blocked" THEN [s EXCEPT !.pc = "open", !.waits = NoPipe] ELSE s

\* open_fifo_read opens every FIFO whose name is there and whose fd is not.
Fresh(u) == {s \in User : fifo[u][s].name /\ fifo[u][s].fd = NoPipe /\ file[s][u] # NoPipe}

OpenFifoRead(u) ==
  /\ u \in usr2
  /\ usr2' = usr2 \ {u}
  /\ fifo' = [fifo EXCEPT ![u] = [s \in User |-> IF s \in Fresh(u) THEN [@[s] EXCEPT !.fd = file[s][u]] ELSE @[s]]]
  /\ held' = [held EXCEPT ![u] = @ \cup {file[s][u] : s \in Fresh(u)}]
  /\ sh' = [v \in User |-> IF v = u THEN Restarted(sh[v])
                           ELSE IF v \in Fresh(u) /\ sh[v].pc = "blocked" /\ sh[v].waits = file[v][u]
                             THEN Opened(sh[v], sh[v].waits) ELSE sh[v]]
  /\ UNCHANGED <<online, pids, file, up, kernel, counts>>

-----------------------------------------------------------------------------
(* The FIFOs of an entry are cleared one by one: those that are due when a *)
(* line ends, all of them by deleteuser and ~Shell, which also close what  *)
(* they find, skip those without a name, and clear the pids.               *)

StartClearing(u, S, g) == sh' = [sh EXCEPT ![u].pc = "close", ![u].todo = S, ![u].goal = g]

First(u, s) == s \in sh[u].todo /\ \A t \in sh[u].todo : s <= t

CloseFd(u, s) ==
  /\ At(u, "close") /\ First(u, s)
  /\ fifo' = [fifo EXCEPT ![u][s].fd = NoPipe]
  /\ held' = IF sh[u].goal = "line" THEN held ELSE [held EXCEPT ![u] = @ \ {fifo[u][s].fd}]
  /\ Goto(u, "unlink")
  /\ UNCHANGED <<online, pids, file, up, usr2, kernel, counts>>

\* (Fault: the path is left.)
LeavesPath(u, s, f) == f
Unlinked(u, s, f)   == [f EXCEPT ![s][u] = NoPipe]

Unlink(u, s) ==
  /\ At(u, "unlink") /\ First(u, s)
  /\ sh[u].goal = "line" \/ fifo[u][s].name
  /\ file' = IF fifo[u][s].name THEN Unlinked(u, s, file) ELSE file
  /\ Goto(u, "unname")
  /\ UNCHANGED <<online, fifo, pids, up, held, usr2, kernel, counts>>

NextFifo(u, s) ==
  /\ sh' = [sh EXCEPT ![u].pc = "close", ![u].todo = @ \ {s}]
  /\ pids' = IF sh[u].goal = "line" THEN pids ELSE [pids EXCEPT ![u][s] = {}]

Nameless(u, s) ==
  /\ At(u, "unlink") /\ First(u, s)
  /\ sh[u].goal # "line" /\ ~fifo[u][s].name
  /\ NextFifo(u, s)
  /\ UNCHANGED <<online, fifo, file, up, held, usr2, kernel, counts>>

Unname(u, s) ==
  /\ At(u, "unname") /\ First(u, s)
  /\ fifo' = [fifo EXCEPT ![u][s].name = FALSE]
  /\ NextFifo(u, s)
  /\ UNCHANGED <<online, file, up, held, usr2, kernel, counts>>

AllCleared(u, g) == At(u, "close") /\ sh[u].todo = {} /\ sh[u].goal = g

-----------------------------------------------------------------------------
(* Task::exec.                                                             *)

task(u)    == line(u)[sh[u].idx]
Slot(u, n) == (sh[u].current_pos + n) % MaxPipe
IsLast(u)  == sh[u].idx = Len(line(u))
Next1(u, s) == IF IsLast(u) THEN [s EXCEPT !.pc = "finish"] ELSE [s EXCEPT !.idx = @ + 1]

ExecBuiltin(u) ==
  /\ At(u, "exec") /\ task(u).kind = "builtin"
  /\ sh' = [sh EXCEPT ![u] = Next1(u, @)]
  /\ UNCHANGED <<shared, held, usr2, kernel, counts>>

\* deleteuser: the entry is freed, and then its FIFOs are cleared.
ExecExit(u) ==
  /\ At(u, "exec") /\ task(u).kind = "exit"
  /\ online' = online \ {u}
  /\ StartClearing(u, User, "exit")
  /\ UNCHANGED <<fifo, pids, file, up, held, usr2, kernel, counts>>

ExitDone(u) ==
  /\ AllCleared(u, "exit")
  /\ sh' = [sh EXCEPT ![u] = Next1(u, [@ EXCEPT !.pc = "exec"])]
  /\ UNCHANGED <<shared, held, usr2, kernel, counts>>

\* The slot's pipe becomes the input and a new one takes its place; a slot that
\* stdout goes to gets a pipe if it has none.
taken(u) == IF sh[u].pipes[Slot(u, 0)] # NoPipe THEN sh[u].pipes[Slot(u, 0)] ELSE sh[u].last_pipe
Lacks(u) == task(u).out # NotPipe /\ Slot(u, task(u).out) # Slot(u, 0) /\ sh[u].pipes[Slot(u, task(u).out)] = NoPipe
made(u)  == npipe + (IF Lacks(u) THEN 2 ELSE 1)
ring(u)  == [k \in Slots |-> IF k = Slot(u, 0) THEN npipe + 1
                             ELSE IF Lacks(u) /\ k = Slot(u, task(u).out) THEN npipe + 2 ELSE sh[u].pipes[k]]

Stdout(u) == IF task(u).to # NoUser
               THEN IF sh[u].outError THEN NoPipe ELSE sh[u].userpipefd
               ELSE IF task(u).out = NotPipe THEN NoPipe ELSE ring(u)[Slot(u, task(u).out)]

Child(u) == [st |-> "running", by |-> u, reads |-> task(u).reads, left |-> IF task(u).reads THEN 0 ELSE task(u).size,
             in |-> taken(u), out |-> Stdout(u),
             held |-> (held[u] \cup (npipe + 1 .. made(u))) \ ({ring(u)[k] : k \in Slots} \cup {taken(u)})]

\* (Fault: the parent keeps what the first command reads.)
KeepsInput(u)     == IF IsLast(u) THEN {npipe + 1} ELSE {}
ClosedByParent(u) == {taken(u)} \cup (IF IsLast(u) THEN {npipe + 1} ELSE {})

Forked(u) == [sh[u] EXCEPT !.pipes = IF IsLast(u) THEN [ring(u) EXCEPT ![Slot(u, 0)] = NoPipe] ELSE ring(u),
                           !.last_pipe = NoPipe,
                           !.child_processes[Slot(u, 0)] = @ \cup {nproc + 1}]

ExecFork(u) ==
  /\ At(u, "exec") /\ task(u).kind = "run" /\ nproc < MaxFork
  /\ npipe' = made(u)
  /\ buf' = [q \in 1 .. made(u) |-> IF q \in Pipes THEN buf[q] ELSE 0]
  /\ nproc' = nproc + 1
  /\ proc' = [proc EXCEPT ![nproc + 1] = Child(u)]
  /\ held' = [held EXCEPT ![u] = (@ \cup (npipe + 1 .. made(u))) \ ClosedByParent(u)]
  /\ sh' = [sh EXCEPT ![u] = Next1(u, Forked(u))]
  /\ UNCHANGED <<shared, usr2, fifos, counts>>

-----------------------------------------------------------------------------
(* Shell::execute, after the tasks.                                        *)

\* The children of a line `>r` are noted in r's entry, those of a line that is
\* piped on go to the list of the line that will read it, with the ones noted
\* for the FIFO that it read.  The FIFO is unlinked when that line is over.
Aside(u)  == from(u) # NoUser /\ ~sh[u].inError
Target(u) == IF lastTask(u).out = NotPipe THEN Slot(u, 0) ELSE Slot(u, lastTask(u).out)
Moved(u)  == LET kids == sh[u].child_processes IN
             IF lastTask(u).out = NotPipe THEN kids
             ELSE [kids EXCEPT ![Target(u)] = @ \cup kids[Slot(u, 0)] \cup (IF Aside(u) THEN pids[u][from(u)] ELSE {}),
                               ![Slot(u, 0)] = {}]

\* waitpid waits for one's own children only: of the writers of a FIFO that was
\* read, for those of a user who piped to himself.
Finish(u) ==
  /\ At(u, "finish")
  /\ Aside(u) /\ lastTask(u).out = NotPipe => \A p \in pids[u][from(u)] : proc[p].by = u => ~Running(p)
  /\ pids' = [r \in User |-> [s \in User |->
                IF Aside(u) /\ r = u /\ s = from(u) THEN {}
                ELSE IF r = to(u) /\ s = u /\ ~sh[u].outError THEN pids[r][s] \cup sh[u].child_processes[Slot(u, 0)]
                ELSE pids[r][s]]]
  /\ sh' = [sh EXCEPT ![u].pc = "wait",
                      ![u].userpipefd = NoPipe,
                      ![u].child_processes = Moved(u),
                      ![u].unlink_pos = IF Aside(u) THEN [@ EXCEPT ![from(u)] = Target(u)] ELSE @,
                      ![u].inError = FALSE, ![u].outError = FALSE]
  /\ UNCHANGED <<online, fifo, file, up, held, usr2, kernel, counts>>

\* A line `>r` is not waited for.  Then the FIFOs that are due, and clear_env.
NextPos(u) == Slot(u, 1)

Due(u)     == {s \in User : sh[u].unlink_pos[s] = sh[u].current_pos}
Exits(u)   == \E i \in 1 .. Len(line(u)) : line(u)[i].kind = "exit"
Awaited(u) == IF to(u) = NoUser THEN sh[u].child_processes[Slot(u, 0)] ELSE {}

Cleared(u) == [sh[u] EXCEPT !.pc = IF Exits(u) THEN "left" ELSE "recv", !.line = <<>>, !.idx = 0,
                            !.unlink_pos = [s \in User |-> IF s \in Due(u) THEN -1 ELSE @[s]],
                            !.pipes[Slot(u, 0)] = NoPipe,
                            !.child_processes[Slot(u, 0)] = {},
                            !.current_pos = NextPos(u)]

EndLine(u) ==
  /\ At(u, "wait")
  /\ \A p \in Awaited(u) : ~Running(p)
  /\ StartClearing(u, Due(u), "line")
  /\ UNCHANGED <<shared, held, usr2, kernel, counts>>

ClearEnv(u) ==
  /\ AllCleared(u, "line")
  /\ held' = [held EXCEPT ![u] = @ \ {sh[u].pipes[Slot(u, 0)]}]
  /\ sh' = [sh EXCEPT ![u] = Cleared(u)]
  /\ UNCHANGED <<shared, usr2, kernel, counts>>

\* clear_processes: everybody is told, by a signal; then ~Shell.
\* (Fault: nobody is told.)
ToldNobody(u) == [sh EXCEPT ![u].pc = "destroy"]
Told(u) == [v \in User |-> IF v = u THEN [sh[v] EXCEPT !.pc = "destroy"]
                           ELSE IF v \in online THEN Restarted(sh[v]) ELSE sh[v]]

Leave(u) ==
  /\ At(u, "left")
  /\ sh' = Told(u)
  /\ UNCHANGED <<shared, held, usr2, kernel, counts>>

Destroy(u) ==
  /\ At(u, "destroy")
  /\ proc' = [p \in Proc |-> IF Running(p) /\ \E k \in Slots : p \in sh[u].child_processes[k]
                              THEN [proc[p] EXCEPT !.st = "killed"] ELSE proc[p]]
  /\ online' = online \ {u}
  /\ StartClearing(u, User, "destroy")
  /\ UNCHANGED <<fifo, pids, file, up, held, usr2, npipe, fifos, buf, nproc, counts>>

Gone(u, p) == /\ sh' = [sh EXCEPT ![u] = [NewShell EXCEPT !.pc = p]]
              /\ held' = [held EXCEPT ![u] = {}]
              /\ usr2' = usr2 \ {u}

Destroyed(u) ==
  /\ AllCleared(u, "destroy")
  /\ Gone(u, "out")
  /\ UNCHANGED <<shared, kernel, counts>>

\* Nobody ignores SIGPIPE or catches what stoi() throws: the shell may end wherever it
\* writes to a connection that was reset, its handlers do so too, or reads a number
\* that is none.  Its entry stays as it is, and its id is never free again.
Killed(u) ==
  /\ Live(u) /\ Cardinality({v \in User : At(v, "killed")}) < MaxKilled
  /\ Gone(u, "killed")
  /\ UNCHANGED <<shared, kernel, counts>>

-----------------------------------------------------------------------------
Init ==
  /\ online = {} /\ up = TRUE
  /\ fifo = [r \in User |-> [s \in User |-> NoFifo]]
  /\ pids = [r \in User |-> [s \in User |-> {}]]
  /\ file = [s \in User |-> [r \in User |-> NoPipe]]
  /\ sh = [u \in User |-> NewShell]
  /\ held = [u \in User |-> {}] /\ usr2 = {}
  /\ npipe = 0 /\ fifos = {} /\ buf = <<>>
  /\ proc = [p \in Proc |-> NoProc] /\ nproc = 0
  /\ nline = 0 /\ nlogin = 0

Clears(u) == \/ \E s \in User : CloseFd(u, s) \/ Unlink(u, s) \/ Nameless(u, s) \/ Unname(u, s)
             \/ ExitDone(u) \/ ClearEnv(u) \/ Destroyed(u)

ShellStep(u) == \/ FindReceiver(u) \/ MakeFifo(u) \/ MakeFails(u) \/ NoteName(u) \/ Signal(u) \/ Open(u)
                \/ OpenFifoRead(u)
                \/ ExecBuiltin(u) \/ ExecExit(u) \/ ExecFork(u)
                \/ Finish(u) \/ EndLine(u) \/ Leave(u) \/ Destroy(u) \/ Clears(u)

Next == \/ \E u \in User : Login(u) \/ ReadLine(u) \/ ShellStep(u) \/ Killed(u)
        \/ \E p \in Proc : ProcStep(p)

Spec     == Init /\ [][Next]_vars
Fairness == /\ \A u \in User : WF_vars(ShellStep(u))
            /\ \A p \in Proc : WF_vars(ProcStep(p))

\* Nothing falls between the steps in which a shell clears a FIFO: no signal makes it
\* open the path again before that is unlinked, and nobody makes a new FIFO whose name
\* it then clears.  (Either happens in the code, and breaks what is stated below.)
Undisturbed == \A u \in User : /\ OpenFifoRead(u) => ~At(u, "unlink")
                               /\ MakeFifo(u) \/ NoteName(u) => ~At(to(u), "unname")

\* Nobody frees his entry while another is between finding him in the table and
\* signalling him, or reads the FIFO before the one who made it is waiting for it.
Signalling(u) == {v \in User \ {u} : sh[v].pc \in {"mkfifo", "name", "kill"} /\ to(v) = u}
Opening(u)    == {v \in User : sh[v].pc \in {"kill", "open"} /\ to(v) = u}
Polite == \A u \in User : /\ ExecExit(u) \/ Destroy(u) => Signalling(u) = {}
                          /\ At(u, "exec") /\ from(u) \in Opening(u) => ~ExecFork(u)

UndisturbedSpec == Init /\ [][Next /\ Undisturbed]_vars
PoliteSpec      == Init /\ [][Next /\ Undisturbed /\ Polite]_vars /\ Fairness

-----------------------------------------------------------------------------
(* What must hold.                                                         *)

\* A path is there exactly while its name is in the receiver's entry, its maker has yet
\* to write it there, or was killed before; and a descriptor is noted only with its
\* name: a FIFO that was read can be made again, one that was not is not lost.
Forgotten(s, r) == At(r, "killed") \/ (At(r, "unname") /\ First(r, s))

MailboxWhole ==
  /\ TypeOK
  /\ \A s, r \in User :
       /\ fifo[r][s].fd # NoPipe => fifo[r][s].name /\ fifo[r][s].fd = file[s][r]
       /\ fifo[r][s].name => file[s][r] # NoPipe \/ Forgotten(s, r)
       /\ file[s][r] # NoPipe => fifo[r][s].name \/ (At(s, "name") /\ to(s) = r) \/ At(s, "killed")

\* A FIFO is the input of one command at most: what was read is not offered again,
\* also while the numbered pipe that it went into waits for its line.
ReadOnce == \A p, q \in Proc : proc[p].in = proc[q].in /\ proc[p].in \in fifos => p = q

\* Who sends to a user comes to the end of his line: the receiver opens the FIFO,
\* or has left and the path is gone; unless the receiver's shell was killed.
Waiting(u) == At(u, "blocked") \/ At(u, "open")

SendEnds == \A u \in User : Waiting(u) ~> ~Waiting(u) \/ At(to(u), "killed")
=============================================================================
