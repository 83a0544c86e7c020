------------------------------ MODULE NpShell ------------------------------
(***************************************************************************)
(* npshell: the interactive shell with ordinary pipes, numbered pipes and  *)
(* redirection (np_project1; np_project2/simple runs the same code behind  *)
(* a socket).  One shell process reads lines, forks one process per        *)
(* command, and connects the processes with kernel pipes that it keeps in  *)
(* a ring of MaxPipe slots: slot current_pos + n holds the pipe that the   *)
(* n-th line from now reads.                                               *)
(*                                                                         *)
(* A call of Task::exec is one step: what it does before fork() is private *)
(* to the shell, and the child closes its copies before it runs a command. *)
(* Kernel pipes are numbered by creation and never renumbered, so that a   *)
(* closed pipe and a new one cannot be confused.                           *)
(***************************************************************************)
EXTENDS Integers, Sequences, FiniteSets

CONSTANTS
  MaxPipe,        \* slots of the ring (Environment::maxpipe)
  Capacity,       \* units a kernel pipe holds
  Lines,          \* what the user may type: sequences of tasks
  MaxFork,        \* bound: processes the shell may fork
  MaxLine,        \* bound: non-empty lines the user types
  MaxForkError    \* bound: forks that fail

ASSUME RingAssumption == MaxPipe \in Nat \ {0}
ASSUME BoundAssumption ==
  /\ Capacity \in Nat \ {0}
  /\ MaxFork \in Nat
  /\ MaxLine \in Nat
  /\ MaxForkError \in Nat

NoPipe  == 0    \* a Pipe object with pfd = {-1, -1}; as an end: the terminal
NotPipe == -1   \* an IO whose type is Origin or ToFile

(***************************************************************************)
(* A parsed command.  out and err are the distance of the line the stream  *)
(* is piped to (0: the next command of this line) or NotPipe.  A command   *)
(* that reads copies its input, unit by unit; one that does not writes     *)
(* size units and ends.  onErr says that it writes to stderr.  The parser   *)
(* also takes a negative number, which indexes the ring out of its bounds  *)
(* (Environment::getpipe); such lines are left out.                        *)
(***************************************************************************)
Task == [kind  : {"run", "builtin", "exit"},
         reads : BOOLEAN,
         size  : Nat,
         onErr : BOOLEAN,
         out   : Nat \cup {NotPipe},
         err   : Nat \cup {NotPipe}]

ASSUME LineAssumption == Lines \subseteq Seq(Task)

Proc  == 1 .. MaxFork
Slots == 0 .. MaxPipe - 1

VARIABLES
  pc,               \* where main() is: "prompt", "exec", "forward", "wait", "exited"
  line,             \* the tasks of the line being executed
  idx,              \* the task that is executed next
  lineno,           \* lines completed (history, bounds the runs)
  current_pos,      \* Environment::current_pos
  pipes,            \* Environment::pipes
  last_pipe,        \* Environment::last_pipe
  child_processes,  \* Environment::child_processes
  open,             \* the kernel pipes whose two ends the shell holds
  npipe,            \* kernel pipes created so far
  buf,              \* units in each kernel pipe
  proc,             \* the process table
  nproc,            \* processes forked so far
  forkErrors        \* forks that failed so far

env    == <<current_pos, pipes, last_pipe, child_processes>>
kernel == <<open, npipe, buf, proc, nproc, forkErrors>>
vars   == <<pc, line, idx, lineno, env, kernel>>

Status == {"none", "running", "done", "sigpipe", "killed"}

NoProc == [st |-> "none", reads |-> FALSE, onErr |-> FALSE, left |-> 0,
           in |-> NoPipe, out |-> NoPipe, err |-> NoPipe, held |-> {}]

\* The process records over kernel pipes 1 .. n.
ProcRec(n) == [st : Status, reads : BOOLEAN, onErr : BOOLEAN, left : Nat,
               in : 0 .. n, out : 0 .. n, err : 0 .. n, held : SUBSET (1 .. n)]

TypeOK ==
  /\ pc \in {"prompt", "exec", "forward", "wait", "exited"}
  /\ line \in Seq(Task)
  /\ idx \in Nat \ {0}
  /\ lineno \in Nat
  /\ current_pos \in Slots
  /\ npipe \in Nat
  /\ pipes \in [Slots -> 0 .. npipe]
  /\ last_pipe \in 0 .. npipe
  /\ child_processes \in [Slots -> SUBSET Proc]
  /\ open \subseteq 1 .. npipe
  /\ buf \in [1 .. npipe -> 0 .. Capacity]
  /\ nproc \in 0 .. MaxFork
  /\ proc \in [Proc -> ProcRec(npipe)]
  /\ forkErrors \in 0 .. MaxForkError

-----------------------------------------------------------------------------
(* Environment and Pipe.                                                   *)

\* The ring slot of the line that is n lines ahead.
Slot(n) == (current_pos + n) % MaxPipe

\* Pipe::createp on slot k, the new kernel pipe numbered id.
CreateAt(ring, k, id) == [ring EXCEPT ![k] = id]

\* Environment::enablepipe: create the pipe a stream with position n goes to,
\* unless the stream is not piped or the slot has a pipe already.
\* (Fault: the test of isenable is left out.)
EnablesAgain(ring, n) == n # NotPipe
MustEnable(ring, n) == n # NotPipe /\ ring[Slot(n)] = NoPipe
Enable(ring, n, id) == IF MustEnable(ring, n) THEN CreateAt(ring, Slot(n), id) ELSE ring
Count(ring, n) == IF MustEnable(ring, n) THEN 1 ELSE 0

\* The kernel pipe a stream with position n is connected to.
Target(ring, n) == IF n = NotPipe THEN NoPipe ELSE ring[Slot(n)]

Enabled(ring) == {ring[k] : k \in Slots} \ {NoPipe}

-----------------------------------------------------------------------------
(* The commands' processes and the kernel's pipes.                         *)

Running(p) == proc[p].st = "running"

\* Somebody still has the read (the write) end of pipe q.
HasReader(q) == \/ q \in open
                \/ \E p \in Proc : Running(p) /\ (proc[p].in = q \/ q \in proc[p].held)
HasWriter(q) == \/ q \in open
                \/ \E p \in Proc : Running(p) /\ (q \in {proc[p].out, proc[p].err} \/ q \in proc[p].held)

\* The end that p writes its units to.
Sink(p) == IF proc[p].onErr THEN proc[p].err ELSE proc[p].out

\* A write returns at once on a terminal or a file, kills on a pipe nobody
\* reads, and waits while the pipe is full.
CanWrite(p) == /\ Running(p)
               /\ proc[p].left > 0
               /\ Sink(p) # NoPipe /\ HasReader(Sink(p)) => buf[Sink(p)] < Capacity

Write(p) ==
  LET q == Sink(p) IN
  /\ CanWrite(p)
  /\ IF q # NoPipe /\ ~HasReader(q)
       THEN /\ proc' = [proc EXCEPT ![p].st = "sigpipe"]
            /\ UNCHANGED buf
       ELSE /\ proc' = [proc EXCEPT ![p].left = @ - 1]
            /\ buf' = IF q = NoPipe THEN buf ELSE [buf EXCEPT ![q] = @ + 1]
  /\ UNCHANGED <<pc, line, idx, lineno, env, open, npipe, nproc, forkErrors>>

\* A reading command takes a unit from its pipe, which it then has to copy.
CanRead(p) == /\ Running(p)
              /\ proc[p].reads
              /\ proc[p].left = 0
              /\ proc[p].in # NoPipe
              /\ buf[proc[p].in] > 0

Read(p) ==
  /\ CanRead(p)
  /\ buf' = [buf EXCEPT ![proc[p].in] = @ - 1]
  /\ proc' = [proc EXCEPT ![p].left = 1]
  /\ UNCHANGED <<pc, line, idx, lineno, env, open, npipe, nproc, forkErrors>>

\* The input of p is at its end; the user at a terminal ends it at will, if ever.
AtEof(p) == proc[p].in # NoPipe => buf[proc[p].in] = 0 /\ ~HasWriter(proc[p].in)

CanEnd(p) == /\ Running(p)
             /\ proc[p].left = 0
             /\ proc[p].reads => AtEof(p)

End(p) ==
  /\ CanEnd(p)
  /\ proc' = [proc EXCEPT ![p].st = "done"]
  /\ UNCHANGED <<pc, line, idx, lineno, env, open, npipe, buf, nproc, forkErrors>>

ProcStep(p) == Write(p) \/ Read(p) \/ End(p)
CanStep(p)  == CanWrite(p) \/ CanRead(p) \/ CanEnd(p)

\* p waits for the user, who may leave it waiting for ever.
AtTerminal(p) == Running(p) /\ proc[p].reads /\ proc[p].in = NoPipe

-----------------------------------------------------------------------------
(* The shell.                                                              *)

task     == line[idx]
lastTask == line[Len(line)]

\* The loop over the tasks: go on with the next one, or leave the loop.
NextTask == IF idx = Len(line) THEN pc' = "forward" /\ UNCHANGED idx
                               ELSE idx' = idx + 1 /\ UNCHANGED pc

\* getline() and Parser::parse.  A blank line is answered by a new prompt and
\* leaves the ring where it is.
ReadLine ==
  /\ pc = "prompt"
  /\ lineno < MaxLine
  /\ \E l \in Lines :
       /\ nproc + Len(l) <= MaxFork
       /\ line' = l
       /\ pc' = IF l = <<>> THEN "prompt" ELSE "exec"
  /\ idx' = 1
  /\ UNCHANGED <<lineno, env, kernel>>

\* printenv and setenv run in the shell: no pipe is made, taken or closed.
ExecBuiltin ==
  /\ pc = "exec"
  /\ task.kind = "builtin"
  /\ NextTask
  /\ UNCHANGED <<line, lineno, env, kernel>>

(***************************************************************************)
(* Task::exec of a command.  The pipe that waits in the current slot       *)
(* becomes last_pipe, the command's input, and a new one takes its place   *)
(* for the command's output; the slots of numbered pipes get a pipe if     *)
(* they have none.  taken, ring and made are the values before fork().     *)
(***************************************************************************)
taken == IF pipes[Slot(0)] # NoPipe THEN pipes[Slot(0)] ELSE last_pipe
ring0 == CreateAt(pipes, Slot(0), npipe + 1)
ring1 == Enable(ring0, task.out, npipe + 2)
made1 == npipe + 1 + Count(ring0, task.out)
ring  == Enable(ring1, task.err, made1 + 1)
made  == made1 + Count(ring1, task.err)

\* The child closes last_pipe and every slot.
\* (Fault: it closes the pipes of its own line only.)
ClosesOwnPipes == {ring[Slot(0)], taken}
ClosedByChild  == Enabled(ring) \cup {taken}

Child == [st    |-> "running",
          reads |-> task.reads,
          onErr |-> task.onErr,
          left  |-> IF task.reads THEN 0 ELSE task.size,
          in    |-> taken,
          out   |-> Target(ring, task.out),
          err   |-> Target(ring, task.err),
          held  |-> (open \cup (npipe + 1 .. made)) \ ClosedByChild]

\* The parent closes the new pipe too when no task is left to read it.
\* (Faults: it does so after every task; it forgets last_pipe.)
EveryTask      == TRUE
AfterLast      == idx = Len(line)
ForgetsTaken   == IF AfterLast THEN {ring[Slot(0)]} ELSE {}
ClosedByParent == {taken} \cup (IF AfterLast THEN {ring[Slot(0)]} ELSE {})

ExecFork ==
  /\ pc = "exec"
  /\ task.kind = "run"
  /\ nproc < MaxFork
  /\ pipes' = IF AfterLast THEN [ring EXCEPT ![Slot(0)] = NoPipe] ELSE ring
  /\ open' = (open \cup (npipe + 1 .. made)) \ ClosedByParent
  /\ last_pipe' = NoPipe
  /\ npipe' = made
  /\ buf' = [q \in 1 .. made |-> IF q \in DOMAIN buf THEN buf[q] ELSE 0]
  /\ nproc' = nproc + 1
  /\ proc' = [proc EXCEPT ![nproc + 1] = Child]
  /\ child_processes' = [child_processes EXCEPT ![Slot(0)] = @ \cup {nproc + 1}]
  /\ NextTask
  /\ UNCHANGED <<line, lineno, current_pos, forkErrors>>

\* fork() fails: the new pipe is closed and last_pipe put back in the slot;
\* the pipes made for other lines stay, and main() calls exec again.
ExecForkError ==
  /\ pc = "exec"
  /\ task.kind = "run"
  /\ forkErrors < MaxForkError
  /\ pipes' = [ring EXCEPT ![Slot(0)] = taken]
  /\ open' = (open \cup (npipe + 1 .. made)) \ {ring[Slot(0)]}
  /\ last_pipe' = taken
  /\ npipe' = made
  /\ buf' = [q \in 1 .. made |-> IF q \in DOMAIN buf THEN buf[q] ELSE 0]
  /\ forkErrors' = forkErrors + 1
  /\ UNCHANGED <<pc, line, idx, lineno, current_pos, child_processes, proc, nproc>>

\* add_childprocesses: a line piped to a later one is not waited for now, its
\* children are appended to those of the later line; then pids.clear().
\* (Fault: they take the place of the later line's children.)
Replaced(n)  == [child_processes EXCEPT ![Slot(n)] = child_processes[Slot(0)], ![Slot(0)] = {}]
Forwarded(n) == [child_processes EXCEPT ![Slot(n)] = @ \cup child_processes[Slot(0)],
                                        ![Slot(0)] = {}]

Forward ==
  /\ pc = "forward"
  /\ pc' = "wait"
  /\ child_processes' = IF lastTask.out = NotPipe THEN child_processes ELSE Forwarded(lastTask.out)
  /\ UNCHANGED <<line, idx, lineno, current_pos, pipes, last_pipe, kernel>>

\* waitpid() on every child of the line, then clear_env.
\* (Fault: the ring does not wrap.)
NoWrap  == current_pos + 1
NextPos == (current_pos + 1) % MaxPipe

EndLine ==
  /\ pc = "wait"
  /\ \A p \in child_processes[Slot(0)] : ~Running(p)
  /\ pc' = "prompt"
  /\ lineno' = lineno + 1
  /\ open' = open \ {pipes[current_pos]}
  /\ pipes' = [pipes EXCEPT ![current_pos] = NoPipe]
  /\ child_processes' = [child_processes EXCEPT ![current_pos] = {}]
  /\ current_pos' = NextPos
  /\ UNCHANGED <<line, idx, last_pipe, npipe, buf, proc, nproc, forkErrors>>

\* exit_shell: every listed child is killed, and the shell's ends of the pipes
\* are closed with it.
ExitShell ==
  /\ pc' = "exited"
  /\ open' = {}
  /\ proc' = [p \in Proc |->
                IF Running(p) /\ \E k \in Slots : p \in child_processes[k]
                  THEN [proc[p] EXCEPT !.st = "killed"] ELSE proc[p]]
  /\ UNCHANGED <<line, idx, lineno, env, npipe, buf, nproc, forkErrors>>

ReadEof  == pc = "prompt" /\ ExitShell
ExecExit == pc = "exec" /\ task.kind = "exit" /\ ExitShell

Init ==
  /\ pc = "prompt"
  /\ line = <<>>
  /\ idx = 1
  /\ lineno = 0
  /\ current_pos = 0
  /\ pipes = [k \in Slots |-> NoPipe]
  /\ last_pipe = NoPipe
  /\ child_processes = [k \in Slots |-> {}]
  /\ open = {}
  /\ npipe = 0
  /\ buf = [q \in 1 .. 0 |-> 0]
  /\ proc = [p \in Proc |-> NoProc]
  /\ nproc = 0
  /\ forkErrors = 0

ShellStep == ExecBuiltin \/ ExecFork \/ ExecForkError \/ ExecExit \/ Forward \/ EndLine

Next == \/ ReadLine \/ ReadEof \/ ShellStep
        \/ \E p \in Proc : ProcStep(p)

Spec == Init /\ [][Next]_vars

\* The kernel runs every process that can step; nothing makes the user type a
\* line, or end what a command reads from the terminal.
Fairness == /\ WF_vars(ShellStep)
            /\ \A p \in Proc : WF_vars(~AtTerminal(p) /\ ProcStep(p))

FairSpec == Spec /\ Fairness

-----------------------------------------------------------------------------
(* What the shell must keep true.                                          *)

\* The kernel pipes the shell holds are those its Environment knows, each in
\* one slot; outside a failed fork last_pipe holds none.  A pipe that the ring
\* lost would never be closed, and its reader never see the end of its input
\* (Task::exec, Environment::clear_env).
SlotOwnership ==
  pc # "exited" =>
    /\ open = Enabled(pipes)
    /\ \A j, k \in Slots : pipes[j] = pipes[k] /\ pipes[j] # NoPipe => j = k
    /\ last_pipe # NoPipe => pc = "exec" /\ last_pipe = pipes[current_pos]

\* A command starts with no pipe end but its own three streams: it cannot keep
\* open a pipe it neither reads nor writes (the closep calls of Task::exec).
NoInheritedEnds == \A p \in Proc : proc[p].held = {}

\* A running command is on the list of a line that is still to come or to end,
\* so that it will be waited for or killed: the shell does not print the prompt
\* over it, nor leaves it behind on exit.
ChildrenAccounted ==
  \A p \in Proc : Running(p) => /\ pc # "exited"
                                /\ \E k \in Slots : p \in child_processes[k]

\* A writer loses its output only to a reader that has ended: the shell closes
\* no pipe before the command that reads it was started (Task::exec closes
\* last_pipe, Environment::clear_env closes the slot that was consumed).
SigpipeHasReader ==
  \A p \in Proc : proc[p].st = "sigpipe" =>
     \E r \in Proc : proc[r].st # "none" /\ ~Running(r) /\ proc[r].in = Sink(p)

\* While the shell waits for a child, some process can go on: a numbered pipe
\* that is full does not stop the shell, since its writer is not waited for
\* before its reader runs (add_childprocesses: "solve for the excess of pipe
\* capacity").
NotStuck ==
  pc = "wait" /\ (\E p \in child_processes[current_pos] : Running(p))
    => \E p \in Proc : CanStep(p)

\* Every line that is read comes to its end, with the next prompt or the shell's
\* exit, unless the user never ends the input of a command that reads the
\* terminal (the waits of main(), npshell.cpp:49).
LineEnds ==
  \/ pc \in {"exec", "forward", "wait"} ~> pc \in {"prompt", "exited"}
  \/ \E p \in Proc : <>[]AtTerminal(p)

-----------------------------------------------------------------------------
(* The promise kept: LinePipes speaks of lines by their number and of the  *)
(* processes whose output a command reads; here it is the ring that tells. *)

WritersOf(q) == {p \in Proc : q # NoPipe /\ q \in {proc[p].out, proc[p].err}}

\* The ring as seen by line number: the slot of line n, for the lines ahead.
Ahead(n) == n - lineno - 1
InRing(n) == Ahead(n) \in Slots

LineNo == 1 .. MaxLine + MaxPipe

front   == WritersOf(pipes[current_pos])
feeders == [n \in LineNo |->
              IF InRing(n) /\ Ahead(n) # 0 THEN WritersOf(pipes[Slot(Ahead(n))]) ELSE {}]
owed    == [n \in LineNo |-> IF InRing(n) THEN child_processes[Slot(Ahead(n))] ELSE {}]
input   == [p \in Proc |-> WritersOf(proc[p].in)]
started == {p \in Proc : proc[p].st # "none"}
running == {p \in Proc : Running(p)}

Promise == INSTANCE LinePipes WITH now <- lineno + 1, over <- pc = "exited"

\* The shell keeps the promise of LinePipes: every step is one of its steps, or none
\* that it can see (Task::exec, Environment::enablepipe, add_childprocesses, clear_env).
KeepsPromise == Promise!Spec
=============================================================================
