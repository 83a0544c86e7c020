# A verification project for the network programming servers

TLA+ models, TLC runs and TLAPS proofs about the programs of `src/`: a shell with
numbered pipes, the chat servers built around it, an HTTP server with its CGI
batch client, and a SOCKS4 proxy. `PROJECT.json` holds the same facts in a form a
program can read: components, runs, mutants, the map from definitions to source
lines, findings, hazards and theorems.

    cd tla
    tlc -workers 2 -config Web.cfg MCWeb      # a run
    tlapm WebProofs.tla                       # proofs; the other modules with theorems
                                              # also end in Proofs

## 1. The system

| component | source | state | operations | interacts with |
|---|---|---|---|---|
| npshell | `np_project1/npshell.cpp`, `src/{environment,task,pipe,io}.cpp` | ring of `maxpipe` pipes, `current_pos`, `last_pipe`, one child list per slot | read a line, exec a task (fork, retry), forward the children, wait, `clear_env`, exit | forked commands over kernel pipes; `waitpid`, SIGCHLD |
| parsers | `np_project1/src/parser.cpp`, the same in `simple/`; `{single,multi}_proc/src/parser.cpp` | none | a line to a list of tasks | the shells |
| np_simple | `np_project2/np_simple.cpp`, `simple/` | as npshell, one process per client | accept, fork, the same loop over a socket | clients |
| np_single_proc, tables | `single_proc/src/server_and_shell.cpp`: `Server`, the builtins of `Shell` | `afds`, `maxfd`, `id2usershell`, `fd2usershell`, `id2username`, `available_ids`, `garbage_shells`; per user fd, id, name, `isalive` | select and scan, accept, recv, who/tell/yell/name/exit, clearing the queue | all clients, one process |
| np_single_proc, execute | the same file: `Shell::execute`; `single_proc/src/{task,environment}.cpp` | per user a ring as npshell's and a map of user pipes with their children | numbered pipes, `>n`, `<n`, waiting | the rings of other users |
| np_multi_proc | `multi_proc/src/*.cpp` | shared memory: 30 entries with id, pid, fd, name, one message buffer, FIFO descriptors, pids | the same commands, one process per user; SIGUSR1 for messages, SIGUSR2 to open FIFOs | every other shell |
| http_server | `np_project3/np_http_server` | a set of connections | accept, read a request, fork a CGI program, wait | CGI programs |
| console.cgi | `np_project3/np_console`, `np_project4/np_console` | up to five clients: a command file, a cursor, a buffer | resolve, connect, read until the prompt, write the next command; through a proxy | the shells, the proxy |
| socks_server | `np_project4/np_socks_server` | two sockets and two buffers per forked child, firewall rules | accept, fork, parse, check, connect or bind, relay | both ends |

What is hard in it:

* **Processes and pipes** (npshell and all its heirs). Correctness rests on who
  holds which end of which pipe: one end too many and a reader waits for ever, one
  too few and a writer is killed. Pipes and child lists travel through a ring that
  is indexed modulo its size and shared by lines typed at any distance.
* **Four tables for one set of users** (np_single_proc), changed by handlers that
  run between two calls of `select()`, while the kernel gives closed descriptors to
  newcomers and departed users are removed only later.
* **Shared memory without locks, and signals** (np_multi_proc): slots, message
  buffers and FIFO descriptors are read, written and cleared by every process.
* **Streams** (np_simple, console.cgi): chunks are taken for lines and prompts.
* **Waiting for others** in a single thread (http_server, np_single_proc) and
  half-closed relays (socks_server).

The properties that make each part correct:

* npshell: pipes are neither lost nor leaked; commands are connected to those that
  the line numbers name; nothing is killed or left behind; every line ends.
* user tables: the four views agree; ids are given lowest first and given back
  once; names are unique; who leaves is removed and who comes is let in.
* user pipes: one pipe per pair, read once, closed with its reader; the server never
  waits for a process that waits for the server.
* np_multi_proc: one entry per shell; a message that is sent is shown once; FIFOs
  are opened by both sides or by none; an entry is cleared by its owner only.
* http_server, console.cgi, socks_server: each request is answered, each command is
  sent once and in order, relayed bytes arrive, sessions end.

`hazards` in `PROJECT.json` lists where each of these could go wrong, with the line
and the properties that would notice.

## 2. The modules

| module | what it is |
|---|---|
| `NpShell` | npshell: the shell, its commands and the kernel's pipes |
| `LinePipes` | what `NpShell` promises: lines by number, no ring, no pipes |
| `LineParser` | the two parsers, and what a line of their grammars means |
| `NpSimple` | np_simple: a forked shell per client, over `LineParser` |
| `UserTable` | np_single_proc's `Server` and the builtins |
| `Registry` | what `UserTable` promises: a roster |
| `UserPipes` | np_single_proc's `execute`: numbered pipes and user pipes of all users |
| `SharedTable` | np_multi_proc's table in shared memory, messages and SIGUSR1 |
| `FifoPipes` | np_multi_proc's user pipes: FIFOs and SIGUSR2 |
| `HttpServer` | http_server: connections, fork, waitpid |
| `Console` | console.cgi of projects 3 and 4 |
| `Web` | http_server running a console for each browser |
| `SocksServer` | socks_server: the parent, and a child for each client |
| `Streams` | what a relay promises: streams |
| `MCNpShell`, `MCNpSimple`, `MCUserTable`, `MCUserPipes`, `MCSharedTable`, `MCFifoPipes`, `MCWeb`, `MCSocksServer` | what is typed, asked or written in the runs |
| `NpShellProofs`, `NpSimpleProofs`, `UserTableProofs`, `UserPipesProofs`, `SharedTableProofs`, `FifoPipesProofs`, `WebProofs`, `SocksServerProofs` | the theorems |

`Web` composes `HttpServer` and `Console`. The others stand side by side and abstract
from each other where the code lets them: `UserPipes` knows from `UserTable` that a
user has one id and that a departed one is removed before `select()` is called again (the lines
of other users that the same scan still serves come before that, in `UserPipes` as
in `UserTable`), `FifoPipes` from `SharedTable` that a user who comes alone finds a blank
entry, `NpSimple` from `NpShell` that a line comes to an end.

### NpShell

State. `current_pos`, `pipes`, `last_pipe` and `child_processes` are the members of
`Environment`; a `Pipe` object is the number of the kernel pipe it holds, 0 for
`{-1,-1}`. Kernel pipes are numbered by creation and never renumbered, so that a
property can tell a pipe from a later one in the same slot. `open` is the set of
kernel pipes the shell itself holds: it is changed by the `closep` and `createp`
calls and nothing else, so whether it agrees with the ring is a question and not a
definition. `proc` is the process table: where a command's streams lead, what other
ends it holds, and how much it has left to write.

Actions. `ReadLine` is the prompt, `getline` and the parser; `ExecBuiltin`,
`ExecFork`, `ExecForkError` and `ExecExit` are the ways `Task::exec` goes; `Forward` is
the block after the loop; `EndLine` is the wait with `clear_env`; `ReadEof` is the end
of the input. One call of `Task::exec` is one step: nothing it does before `fork()`
can be seen by another process. `Write`, `Read` and `End` are what a command does on
kernel pipes, with blocking, end of file and SIGPIPE.

Data. A task is its kind, whether it reads, how much it writes, to which stream,
and the distances its streams are piped to. Text, file names, `PATH` and exit codes
are left out: no property depends on them. A stream to a file or to the terminal is
`NotPipe`; a terminal always takes output, and ends input when the user likes, if ever.
Numbers of pipes are natural: `|-1`, which indexes the ring before its start, and sums
beyond int are in `NpSimple`, where they kill the shell.

### UserTable

State. The variables have the names of the members of `Server`; `shell` holds the
fields of each client's `Shell`. `id2usershell` is a sequence without the null entry
at index 0, so that ids are its indices. `available_ids` counts, for each id, how often it
is in the heap, so that an id given back twice would be seen. `rfds`, `who` and `todo` are
the local variables of `run()` and `execute()`. `open` and `pipefds` are the process's
descriptors: the kernel hands out the lowest free one. `census` is a history
variable: what a client counts from the messages it is sent.

Actions. `ClearGarbage` is one turn of the loop of `clear_garbage_shells`; `Select`,
`Accept`, `Serve` and `EndScan` are `run()`; the `Do...` actions are the builtins, one
step each, since a line may hold several; `EndLine` is the prompt. Clients connect,
send a line, close or are reset at any time. A send to a connection that was reset
may kill the server (`status = "sigpipe"`), as it does in the code, where SIGPIPE
keeps its default action, and `tell` with a word for an id always does (`"thrown"`): `stoi()`
throws and nobody catches it. Properties speak of the time until then. A negative id, with
which `user_exists` reads before its table, is not modelled.

After a line's last task the server is in `waitpid()` (`InWaitpid`) and serves nobody, until
the commands of that line have ended. Nothing says that they do: `cat` alone never ends
by itself. So `EndLine` has no fairness.

`Serve` includes the two branches of `run()` for a descriptor without a shell and for
a shell that is not alive. `NeverStops` shows that the first is never taken; the
second is not either, since the queue is cleared before every `select()` and a
descriptor is served once per scan.

### UserPipes

`Shell::execute` of np_single_proc. `env[u]` is the `Environment` of user u, with the
ring of `NpShell` and, for each sender, the pipe that waits for u and the children that
write it. The server is one process, so `open` is one set for all users and a line is
executed from `ReadLine` to `EndLine` with nobody else served; a line is read also while others
that have left wait in `garbage` to be cleared. `Receive` and `MaySend`
are the blocks before the tasks, `ExecFork` and `ExecForkError` are `Task::exec`,
`Forward`, `WaitUser` and `EndLine` are the code after them. `Login` and `ClearGarbage`
are the arrivals and departures of `UserTable`, as far as they touch pipes and children.
Sessions are numbered, so that a user who is given the id of another can be told from
him; `route` remembers which two sessions a user pipe was made for.

A child closes the ring of its own user only, so `held` of a command is what it
inherits besides: the mailboxes, and the rings of others. `WaitsFor` reads off who waits
for whom: a writer for the readers of its full pipe, a reader for all who keep a write end of
its empty one, in whatever way they have it. `UpToUsers` says that from what the
server waits for such a chain leads to a command that needs its user (`NeedsUser`): it reads
the socket, or what it writes waits for a line that nobody has typed yet.

### SharedTable

One module for the table of `multi_proc`, without what `FifoPipes` has. A step is what
a shell does between two points where another one may look: a search of the table is
a step per entry; taking an entry, publishing name and pid, and installing the handlers
are three; a message is the start and the end of `strcpy`, with anything in the buffer
in between, and then `kill()`. A handler prints the buffer and empties it in two
steps, between any two steps of its shell's own program. `kill()` with the pid of an
entry that is blank is taken at its word: pid 0 or -1 is every process. Where a shell
writes to its client, in its program or in the handler, it may be killed by SIGPIPE (`BrokenPipe`),
and by `tell` with a word for an id (`BadTell`): then nothing frees its entry.

A shell that leaves clears its entry three times (`deleteuser`, `clear_processes`,
`~Shell`), each in two steps, `id` first; a newcomer may take the entry between them. That the
other fields are written one after another is abstracted to one write, as is the search for
receivers between two of them. A shell that finds no free entry goes on with uid -1 for a
moment and writes before the table, which is not modelled.

### FifoPipes

`fifo[r][s]` and `pids[r][s]` are the fields of r's entry for what s sends, `file` is what
stands in `user_pipe/`. A sender makes the path, writes the name, signals and waits in
`open()`; the receiver's handler opens whatever is named and not open. A FIFO's write end is
open in the sender's shell until its line ends, its read end in the receiver's. Writing the
name and sending the signal are two steps. To clear a FIFO takes three, between which anything
may happen: `CloseFd`, `Unlink` and `Unname`, for each FIFO in turn, when a line ends, in
`deleteuser` and in `~Shell`. `Killed` ends a shell wherever it is, as SIGPIPE and `stoi()` do;
its entry, names and paths stay. `Meaning` is what a descriptor number of the shared entry
denotes in a shell that may have closed it. `open()` starts again when a handler interrupts it.
The processes of all users are numbered together, so the bound `MaxFork` is in the guard of
`ExecFork`: it stops a command from being forked, not a line from being read.

The module states two conditions that the code does not guarantee, and the properties need.
`Undisturbed`: no handler runs between `CloseFd` and `Unlink`, and nobody makes or names a FIFO
for a receiver between its `Unlink` and `Unname`. Either happens in the code, with the results
that section 4 reports. `Polite`: nobody leaves while another has found him in the table and
not yet signalled him, nor reads a FIFO whose sender has not yet reached `open()`.

### SocksServer

The parent accepts, forks, waits when `fork()` fails, and reaps with SIGCHLD. A child
goes from the request through the firewall and the resolver to a connection or, for
BIND, to an acceptor; then two relays run, each with a buffer of its own: `RelayRead`,
`RelayWrite` and `RelayEnd` are the handlers of `read_from_*` and `write_to_*`. A peer
sends, ends its direction, or is reset at any time. The data are numbered units.
`Streams` is the promise to which both directions of every client are refined.

### HttpServer, Console and Web

`HttpServer` follows a connection from `accept()` through `do_read` and `do_request` to the end
of its program: which process holds which socket, what was shut down, and who is waited for.
`Accept` and `StartConnection` are two steps: between them a connection is open and not in
`connections_` (`Unlisted`), and a child forked then inherits it. The handlers of the server
are its actions; from `Fork` to `EndRequest` the server is in `waitpid()`.

`Console` has, per host, the `Client` of project 3, or that of project 4 when the host
is in `Proxied`: there `do_http_resolve`, `read_reply` and `do_read` are started at once, as
in the code. What a shell sends is a sequence of pieces, where a prompt is two, so
that a read may end between them. `mishap` remembers what misled the console, so that
the properties can say when it is not misled. `ParseHosts` is `Parser::parse` of the query:
the host of a value is counted by the files before it (`HostOf`), and of several values
for one host the last stays.

The proxy passes on what is sent, and never that a side has ended: `socks_server` neither closes a
socket nor ends its child. So a client that is connected through it goes on reading when
its shell has closed (`Stays`), and the console with it. A command may keep a shell busy for
ever. In `do_write` the string handed to `async_write` is local and gone when that returns
(`client.cpp:48-53`): the line is taken to have been sent by then, since the socket has room.

`Web` lets a program of `HttpServer` be a console: it starts it, writes its page to the
browser, and ends it: by itself, by SIGPIPE, or by the two ways in which it dies.

### LineParser and NpSimple

`StepSimple` and `StepUser` are one turn of the parsers' loops, over tokens that are a form
(`word`, `|`, `|n`, `>`, `>n` ...) and a number. `stoi()` returns the number if it is an int
(`Fits`) and throws otherwise; `NoNumber`, one beyond the largest, stands for all others. `<n`
takes the token after it along, but not when it comes after `>n` (`FromAndTo`). `Loop` is a
recursive function over the parser's states. `InGrammar` and `Meaning` are written from the
grammar in the comment of `Parser::parse` and share nothing with the steps: bars are counted,
and a task's words and streams are sets of positions (`TaskAt`).

`NpSimple` types lines into forked shells, whole or in parts: a line that arrives in parts is
any of `Garbled`. That makes the run both a check of the parsers over all its lines and one of
the processes around them. A shell whose line names a pipe that is not `InRing`, by a negative
number or one whose sum with `current_pos` is no int, may go on or die, since that is
undefined; one whose connection was reset dies when it writes its prompt (`WriteFails`).

## 3. The runs

| run | checks | bounds | states |
|---|---|---|---|
| `shell_any_line` | `TypeOK`, `SlotOwnership`, `NoInheritedEnds`, `ChildrenAccounted`, `KeepsPromise` | ring of 3, pipes of 1 unit, 4 processes, 3 lines, 2 failed forks | 110 890 |
| `shell_commands` | `SigpipeHasReader`, `LineEnds` | the same, 1 failed fork | 67 523 |
| `shell_builtin_target` | `NotStuck`, which fails (section 4) | two lines | |
| `lines` | `LineMeant`, `Survives`, `ShellsEnd` | every line of up to 2 of 15 tokens, and of 4 that begin with a command and go on with 7 of these; ints up to 9; 2 clients, 1 line | 151 278 |
| `users_tables` | `TypeOK`, `IdsPartitioned`, `NeverStops`, `WatchedFds`, `NamesAgree`, `CensusRight` | 2 clients, 1 name, 6 descriptors | 958 745 |
| `users_roster` | `KeepsRoster`, `DepartedRemoved`, `WaitingAccepted` | 2 clients, 2 names | 112 637 |
| `pipes` | `MailRouted`, `ChildrenAccounted`, `PipesKept`, `LeaksOnly`, `LineEnds` | 2 users, 3 sessions, ring of 2, pipes of 1 unit, 2 processes, 3 lines, 1 failed fork | 253 077 |
| `table_race` | `NoGhosts`, `PrintedOnce` | 2 entries, 2 shells, 2 lines, 1 name, any interleaving | 2 230 418 |
| `table_polite` | `TableRight`, `Flushed` | 2 entries, 3 shells, 2 lines, users come and go one at a time | 384 921 |
| `fifos` | `MailboxWhole`, `ReadOnce`, `SendEnds` | 2 users, ring of 3, pipes of 1 unit, 3 processes, 3 lines, 3 logins, 1 killed shell | 196 529 |
| `socks` | `RepliesRight`, `KeepsStreams`, `Delivered`, `Reaped` | 2 clients, 1 unit up and 2 down, reads of up to 2 | 112 435 |
| `web` | `EndsWithProgram`, `OneProgram`, `PageRight`, `OneRow`, `Served` | 2 browsers, 2 hosts (one behind the proxy), 2 commands, reads of up to 3 pieces | 391 582 |

Why the bounds are enough to be interesting.

* The shell. Three slots and three lines let the ring wrap, a slot be aimed at by two
  earlier lines, and a line aim beyond the ring. A capacity of one unit with writers of
  two or three makes every pipe fill. Four processes hold a pipeline fed by an
  earlier line. `NpShellProofs` removes the bounds of the first run, and of the second
  for all but `LineEnds`.
* The tables. Two clients are the least that collide on a name, are told about each
  other, or inherit a descriptor; descriptors 4 to 8 leave room for a pipe between the users'
  sockets, which is what `maxfd--` must survive. `UserTableProofs` removes the bounds
  for all but liveness.
* User pipes. Two users can send to each other and to themselves; three sessions let
  one leave with mail waiting on either side and a stranger come with the same id. A
  ring of two has the slot of the line and one other. Two processes are a pipeline,
  or a sender and a receiver, and one unit fills the pipe between them.
  `UserPipesProofs` removes the bounds for all but `LineEnds`.
* The shared table. Two shells in two entries collide in every way that two can, at every step;
  three, one of them coming late, reuse an entry. FIFOs: three logins of two users are a
  departure and a return, three lines are a send, a read and a second send or read (user 1
  sends, user 2 reads, both leave), and a ring of three holds what was piped on twice.
  `SharedTableProofs` and `FifoPipesProofs` remove the bounds for all but `Flushed` and
  `SendEnds`.
* The proxy. Two units in one direction can be read together or apart; the other
  client's child ends in all the ways in which one does, and the two may end at once.
* The web. Two browsers are one that is served and one that waits, with its socket
  inherited; two hosts, one of each kind; two lines are a command and `exit`. A read of up
  to three pieces cuts a prompt or takes it with what stands before it.
* The parsers. A line of four tokens has a redirection with a file name after another
  one, or two commands, one of them redirected. With ints up to 9 the number 10 stands for
  2^31 and more, and 9 for those that overflow in a sum. `NpSimpleProofs` removes the bounds for all
  but `ShellsEnd`.

Clients of `users_tables` are interchangeable, so that run uses symmetry; no run with
liveness does. Deadlock is not checked: users may stop typing, shells and servers end,
and a server that was killed takes no step. That nobody waits for ever is stated by
the liveness properties instead.

What a property says is written above it in its module. The deeper ones:

* `KeepsPromise`, `KeepsRoster`, `KeepsStreams` (refinements): each command reads from exactly the
  processes that the line numbers say, however slots were shared and reused; four
  tables are one roster with lowest free ids; a relay is a pair of streams.
* `LineEnds` (liveness, `NpShell` and `UserPipes`): no combination of full pipes, forwarded
  children and inherited ends stops the shell, unless a command waits for ever for the user at the
  terminal; or the server of all users, unless a chain of commands that wait for each other
  leads to a user who has to type or to close. Inherited ends do lengthen such chains: a writer that
  is stuck in a pipe for a later line can keep somebody else's `cat <n` from its end.
* `DepartedRemoved`, `WaitingAccepted`: users go and come, unless the server dies or waits in
  `waitpid()` for ever (`Lost`).
* `MailRouted`: user pipes reach the session they were sent to and nobody who has its id.
* `PipesKept`, `LeaksOnly`: descriptors go astray only in the three ways that the
  code has, which the property names.
* `PrintedOnce`, `NoGhosts`: what holds of unlocked shared memory under every
  interleaving. An entry in use has its shell, or one that was killed: that a shell which
  is killed keeps its entry for ever is what the code does, and no user who leaves otherwise
  does. `TableRight` needs users that come and go one at a time.
* `MailboxWhole`, `ReadOnce`: path, name and descriptor of a FIFO agree up to the one write
  that is due, and no FIFO is read twice, while nothing falls between the steps that clear it.
* `SendEnds`: a sender blocked in `open()` goes on when the receiver leaves, if not when it is
  killed.
* `Delivered`: half a connection ends without taking the other half with it.
* `PageRight`: unless it was misled, a page is a session, line by line: `IsSession` says it
  of the places of prompts and lines in what was displayed.
* `OneRow`: rows of the form do not run into each other. It holds of forms that are filled
  in by rows (`FilledInRows`), where a row may lack its file if a complete one comes after it.
* `OneProgram`: a program has its own browser's connection and of the others at most one that
  was not yet listed when it was forked; what the server has closed, nobody holds.
* `Served`: each browser's turn comes, unless a console hangs (`Hung`): one of its clients will not
  end, as none does whose session went through the proxy (`Stays`).
* `Survives`: no line kills a shell of np_simple but those that section 4 names, however lines are cut.
* `LineMeant`: two parsers against one meaning.

### Fairness

* `NpShell`, `UserPipes`, `FifoPipes`: the shells, the server and each command run
  whenever they can, since the kernel schedules all processes; nothing makes a user
  type, or end what a command reads from him (`AtTerminal` in `NpShell`, `SocketEnd` in
  `UserPipes`: such an end has no fairness).
* `UserTable`: the server runs whenever it can, except that nothing ends its `waitpid()`;
  `accept()` takes connections in the order they came, so a connection that waits while others
  are accepted again and again is accepted too (`SF` of each client's `Accept`). Clients need
  do nothing.
* `SharedTable` (`PoliteSpec`): each shell takes its steps, its handlers included.
* `SocksServer`: the parent's handlers, and the handlers of each child as a whole. The
  latter suffices because a child has finitely many steps.
* `Web`: the server's handlers as a whole, each forked program, and the hosts as a
  whole. No browser need do anything; no host need be reachable, and no shell need come to
  the end of a command.
* `NpSimple`: the server, and the shell of each client. A line that runs is assumed to end.

`PoliteSpec` of `SharedTable` and of `FifoPipes` also restricts who acts: users come and go
while nobody is in the middle of sending to them. `UndisturbedSpec` of `FifoPipes` only keeps
others out of the three steps that clear a FIFO: the theorems about FIFOs need that only, the run
assumes both, since `SendEnds` needs both. These are no properties of the code but
conditions under which what is stated holds; section 4 says what happens otherwise,
and `table_race` has no such condition.

Each property has a mutant, an operator next to the one it changes (marked "Fault"):
the property fails when the fault is put in the place of the code's behaviour. A
type invariant is checked as a part of another property where it is not a property of its own.

## 4. What the code does that one might not expect

One finding is a run of its own, since a comment of the code says otherwise:

* `shell_builtin_target`. `ls |1` whose output is larger than a pipe, then a builtin
  such as `printenv PATH`: the builtin leaves the pipe in the ring, the shell waits at
  `npshell.cpp:49` for a writer, and the reader that the writer waits for would be
  the shell. The comment at `npshell.cpp:38` calls the code a solution "for the excess
  of pipe capacity". The same lines are in `np_simple.cpp` and in
  `single_proc/src/server_and_shell.cpp:493`, where all users wait.

The others are modelled as they are, and the properties are stated so that they hold
nevertheless, or name the exception:

* npshell: a line piped to its own slot (`|1000`, or a trailing `|`) gives
  `add_childprocesses` its own list twice: it is appended to itself and cleared, the
  prompt comes while the command runs, and at exit the command is not killed
  (`environment.cpp:62`).
* Parsers: `<n > file` writes to a file named `>` (`single_proc/src/parser.cpp:132`); `|x`, and
  a number of 2^31 or more, throw (`parser.cpp:46`); a trailing `>` and, with user pipes, an
  empty line read what is not there. `|-1` indexes the ring before its start
  (`environment.cpp:42`, `52`).
* np_single_proc: a `send()` to a connection that was reset kills the server (`status =
  "sigpipe"`), and so does `tell bob hi` (line 283). While it waits for the commands of one
  line it serves nobody (356, 365, 493), and a lone `cat` makes it wait as long as its user
  likes. `cat <1 |1` makes it wait for what nobody reads yet (line 489). So does `cat <1`
  alone, when user 1 first typed `ls >2` and then a large output `|1`: the latter's command is
  stuck in its full pipe with an inherited end of the mailbox. A `<n` that meets a numbered
  pipe loses one of the two (line 416).
* np_multi_proc: two shells may take one entry (line 133), two users one name (302), a
  broadcast may meet an entry with pid 0 or -1 and signal every process (329), a shell
  that leaves may clear a newcomer's entry (570). FIFOs are opened with
  `O_NONBLOCK`, so a reader that is started before the writer may fail with EAGAIN
  (`server_and_shell.h:108`). After `<n |k` the entry shows a descriptor that the shell
  has closed (509).
* np_multi_proc, clearing a FIFO (558-560, and the same in 174-186 and 633-645). A SIGUSR2 from a
  third user after `fd = -1` and before `unlink()` makes the handler open the same FIFO
  again, and the next `<n` reads what was read. A sender that comes after `fd = -1` and `unlink()`
  makes a path of its own and writes the name, which the reader then erases: the
  handler finds no name, and the sender stays in `open()` (476). `Undisturbed` excludes just these.
* np_multi_proc, deaths: a shell that writes to a connection that was reset
  (110, `server_and_shell.h:99`), or that reads `tell bob hi` (254), ends without `deleteuser`.
  Its entry is in use for ever, who tells it something signals a dead pid, who sends to it waits
  in `open()` for ever, and its paths stay.
* http_server: a browser that is gone when its request is handled ends the server
  (`connection.cpp:59`); when `fork()` fails nothing is answered or closed. A connection that
  was accepted and not yet handled (`server.cpp:31`) is inherited by a program that does not
  know of it.
* console.cgi: a prompt that is cut by two reads, or that comes with the proxy's reply, is not
  seen, and the console and the server that waits for it hang; a proxy that refuses and keeps
  the connection does the same. And so does every session that went through the proxy and ended
  as it should, because `socks_server` closes nothing (its `server.cpp:68-76`, `98-106`). A
  last row of the form without a file is a host without commands (`host.cpp:32`).
* socks_server: no reply when the destination cannot be resolved or reached
  (`server.cpp:111`, `127`).

## 5. The proofs

`NpShellProofs` proves, for every ring size, pipe capacity, number of processes and
set of lines:

| theorem | statement |
|---|---|
| `RingInvariant` | `Spec => []RingInv` |
| `TypeCorrect` | `Spec => []TypeOK` |
| `PipesOwned` | `Spec => []SlotOwnership` |
| `NothingInherited` | `Spec => []NoInheritedEnds` |
| `NoCommandLost` | `NotOntoItself` implies `Spec => []ChildrenAccounted` |
| `PromiseKept` | `NotOntoItself` implies `Spec => KeepsPromise` |
| `WritersLoseToReaders` | `NotOntoItself` and `LastRuns` imply `Spec => []SigpipeHasReader` |

Assumptions: the ring has a slot, the bounds are natural numbers, lines are sequences
of tasks. Two hypotheses on the lines are named where they are needed, and each excludes
what section 4 reports of the code. `NotOntoItself`: no line is piped ahead by a multiple of
the ring's size, which is its own slot; numbers beyond the ring are allowed. `LastRuns`: the
last task of a line is no builtin, since a builtin leaves what waits for its line to
`clear_env`, which closes it with nobody to read it, and the line's errors are not piped
to its own slot either.

The argument. `SlotOwnership` is not inductive by itself. That the ring's arithmetic
stays in the array and that a task is read within its line needs `TypeOK` and
`LineInv`; that a retried exec does not count `last_pipe` as a second owner needs
`RetryInv`. `RingInv` is their conjunction, and TLC found it invariant before it was
proved. The centre is `ExecRing`: the ring that exec has built at the time of `fork()`
holds exactly the old pipes without the one taken, and the new ones; it is put
together from `CreateRing` (a slot is given a pipe) and `EnableRing` (enablepipe), and
`OwnershipStep` follows for the parent, the failed fork and the end of the line by
comparing which pipes leave the ring with which are closed. `NothingInherited` uses
the same fact for the child; `NoCommandLost` follows the lists, where the hypothesis
makes the line's own slot and the one it is piped to two (`ModAround`).

The refinement. `LinePipes` knows lines by number and no pipe at all; the mapping reads
it off the ring: the feeders of line n are the processes whose stream is the pipe in the
slot that lies n lines ahead. Under `PromiseInv`, which adds to `RingInv` that a pipe some
command reads is in no slot (`TakenInv`) and that processes not yet started have no
streams (`FreshInv`), each action of the shell is one of `LinePipes` or none. The fork is the
hard one: the child is added to the feeders of just those lines whose slots its streams
lead to, and of no others, although some of these pipes were made for it and some by
earlier lines; `EndLine` shifts all slots by one against the line numbers. For
`SigpipeHasReader` the inductive fact is `SinkInv`: what somebody writes to can still be
read, or was given to a reader; `ConsumedInv`, that nothing is in the line's slot after its last
task, is what `LastRuns` buys.

`UserTableProofs` proves, for any finite number of clients, any names, descriptors and
lines:

| theorem | statement |
|---|---|
| `TablesInvariant` | `Spec => []UpInv` |
| `TypesKept` | `Spec => []TypeOK` |
| `SocketsWatched` | `Spec => []WatchedFds` |
| `IdsNeverShared` | `Spec => []IdsPartitioned` |
| `NamesNeverShared` | `Spec => []NamesAgree` |
| `QueueExact` | `Spec => []QueueIsTheDead` |
| `ChecksNeverFail` | `Spec => []NeverStops` |
| `EveryoneTold` | `Spec => []CensusRight` |
| `TablesAreARoster` | `Spec => KeepsRoster` |

Assumptions: clients are finitely many, `Nobody` is no client, `NoName` and `NoEntry` are
no names and differ, the listening socket is a descriptor, lines are sequences of builtins.

The argument. None of the invariants holds step by step on its own. That the queue's
head is still a user is `QueueIsTheDead`; that its id and its descriptor lead to it and
to nobody else is `IdsPartitioned` and `WatchedFds`; that the checks of `create_shell` pass
needs both, and that an id that waits has no user; that a command's pipe never is a
user's socket needs the pipes to be open while they are pipes (`ScanInv`); that `run()`
never meets a descriptor without a shell needs the descriptors left to scan to be
watched still, which holds because nothing is cleared during a scan (`ScanInv` again). `TableInv`
is their conjunction. `ClearStep` and `AcceptStep` say what the two actions that change
the set of users do to each table, `TablesUnchanged` serves all actions that change no table,
and `ExceptSeq` and `PutSeq` are the facts about sequences. `EveryoneTold` and the
refinement follow from `TableInv` with `Cardinality` of a set with one element more or less.

`QueueIsTheDead` is proved and is a part of the inductive invariant; no run has it by itself.

`UserPipesProofs` proves, for any users, ids and sessions, any ring, pipes and set of lines,
with users who leave and ids that are handed out again at every prompt, and with forks that fail:

| theorem | statement |
|---|---|
| `PlacesInvariant` | `Spec => []PlaceInv` |
| `MailStaysRouted` | `Spec => []MailRouted` |
| `PipesStayKept` | `Spec => []PipesKept` |
| `LeaksAreKnown` | `Spec => LeaksOnly` |
| `EveryChildListed` | `NotOntoItself` implies `Spec => []ChildrenAccounted` |

Assumptions: the ring has a slot, the bounds are natural numbers, users are positive ids, lines
are non-empty sequences of tasks; for the last theorem, that no line is piped to its own slot.

The argument. `MailRouted` speaks of processes and mailboxes, but a process gets its input
from a slot or from `last_pipe`: the invariant has to say where each pipe is. `PlaceInv`
does: ids belong to different sessions (`SessionInv`), a mailbox holds what was made for the
two sessions that are there (`BoxInv`), no pipe is in two slots of whatever rings (`RingInv`),
and a user pipe is out of its mailbox when it is in `last_pipe` (`LastInv`). A fork that fails
leaves the ring half changed, with a user pipe or /dev/null in the line's slot; `Retry` names
that moment. On it rest `EndsInv` (the processes at the ends of a user pipe), `OpenInv` and
`ReadInv` (what a place holds is open; what was closed had a reader, or its users have
parted), and `ListInv` with `ChildInv` (whom the lists name, and that they name everybody).
`ExecRing` and `ForkFrame` say once what `Task::exec` does to the ring and to the user.

`WebProofs` proves, for any set of browsers, any number of hosts, any forms, commands and
output, and reads of any size:

| theorem | statement |
|---|---|
| `ServerInvariant` | `Spec => []HttpInv` |
| `OneAtATime` | `Spec => []OneProgram` |
| `PageEndsWithProgram` | `Spec => []EndsWithProgram` |
| `PageStaysRight` | `Spec => []PageRight` |
| `RowsStayTogether` | `Spec => []OneRow`, if every form is `FilledInRows` |

Assumptions: `NoBrowser` is no browser; a file has a line, a read returns something, a form
has three values for each host, output is of text and marks (`ConsoleAssumption`).

The argument. `StepsOfHttp` says that every step of `Web` is a step of http_server, its child
or a browser, or leaves http_server alone: whatever a console does, it ends as `ProgramEnds`. A
child holds its own socket, and of the others' at most the one that was accepted and not yet
listed (`HoldsItsOwn`). That a page ends only with its own program is not inductive: another's
program might have kept the socket, or the connection be closed before its program is over.
`Inherits` says what is open: what the server has listed, and so a child finds it to close it,
and what it has accepted and not yet listed; `OneLife` that a connection has one program, over
when the connection is closed, and that what is shut down had one; `Waiting` that a program in
any stage, zombies included, is the one that `waitpid()` waits for, which is why the next
`fork()` finds none. `HttpInv` is their conjunction with the types, `HoldsItsOwn`, and
`HeldByRunning`: who holds a socket runs, and the server has not closed it.

That a page is a session is not inductive either: it says nothing of what is still on its way.
The invariant `TalkInv` adds it. `StageOf` follows one host: its proxy, its shell and its client
wait for each other, and a line is counted, then typed, then run. `TalkOf` bounds the
conversation: lines counted, with the prompt that is unread, are at most one more than the
commands that have been run, so that a shell that runs a command has nothing unread and
the counter stays in the file; it holds until output with a prompt in it was read, which is
why such output is the only way past the last line. `WireOf` says what may stand where: a
prompt only at the end, a reply only at the start; `Whole` that a prompt is still in one
piece, which is what a split read breaks. On these rest `WhatIsRead`: a read with a prompt
in it is all that was on the wire, and a read without one is text; then `SessionAdded` or
`TextAdded` make the new page a session. `RestOfWire` and `OutputSent` keep `WireOf`.

`RowOfHost` is about `Parser::parse` alone. From a value of a host the first file behind it is the
host's (`Least`, `HostsInOrder`: nothing is counted in between); the two values before that
file are of the same host, and every later one is of a later host. So what stays is that row.

`SocksServerProofs` proves, for any set of clients, whatever they may ask, any amount of
data and any size of the buffers:

| theorem | statement |
|---|---|
| `SocksInvariant` | `Spec => []SocksInv` |
| `ClientsHearRight` | `Spec => []RepliesRight` |
| `RelaysAreStreams` | `Spec => KeepsStreams` |

Assumptions: requests are sets of `Request`, the bounds are natural numbers, a read returns at
least one unit.

The argument. That the other side has a prefix of what was sent says nothing of what is
under way, so `StreamOf` numbers all of it: what came out begins with unit 1, what the
buffer holds follows it, what was not read follows that, and together they reach what was
sent unless the sender was reset. A direction that reads has an empty buffer, one that writes
has not. One lemma for each thing that can happen to a stream (`UnitSent`, `PartRead`,
`AllWritten`, `RestLost`, `NothingMoves`) is all the steps need; a written buffer then is
a longer prefix (`WrittenIsUpto`), which is the step of `Streams`. For the replies, `Kept`
ties them to where the child is, except for a client that is gone and has got no data:
it may have missed any of them. Its exception has to mention the data, for a client that got
some and then resets must still have heard the right codes.

`SharedTableProofs` proves, for any size of the table, any number of shells, names and lines,
under `Spec`, which interleaves the shells at every point where another can see or change
the table:

| theorem | statement |
|---|---|
| `SharedInvariant` | `Spec => []SharedInv` |
| `NoGhostsEver` | `Spec => []NoGhosts` |
| `TextsPrintedOnce` | `Spec => PrintedOnce` |

Assumptions: there is an entry and a shell, the bounds are natural numbers, names are not the
two that the server uses.

The argument. Nothing says that an entry has one owner: two shells may claim it at once, and
one may claim it while another clears it. What can be kept is `HeldInv`: an entry in use has a
shell that took it and has not freed it since, because clearing never sets the id and freeing
unsets it for all who share the entry. A shell that is killed stays the holder of its entry.
That a text is not printed twice needs more than that the buffer is emptied, for a copy under
way may put it back after the handler has returned: `Past` says that a text found in an entry
or printed from it has been passed by its author, who alone could write it there (`OwnInv`); a
text comes back (`OnceKept`) only through a copy (`StepEntries`), which `WrittenPast` shows not
to be past.

It also proves, under `PoliteSpec`, where users come and go one at a time and
nobody else sends anything meanwhile:

| theorem | statement |
|---|---|
| `TableStaysRight` | `PoliteSpec => []TableRight` |

That condition is no property of the code; without it two shells take one entry, and the
statement is false (section 4). Under it the proof has still to follow an entry through the
unlocked steps that take it, fill it, rename it, free it and clear it three times. `PoliteInv`
says who may do so (`AloneInv`), what an entry holds at each of these steps (`SeatInv`), that
who sends has found an entry in use (`TargetInv`), that an entry in use has its shell
(`HolderInv`), and that one out of use is blank, or was freed by a shell about to clear it
(`BlankInv`).

`FifoPipesProofs` proves, for any users, ring, pipes and lines, under `UndisturbedSpec`, where
signals are handled, users leave and shells are killed at any moment, in the middle of
another's send included, but nothing falls between the steps in which a FIFO is cleared:

| theorem | statement |
|---|---|
| `FifosInvariant` | `UndisturbedSpec => []FifoInv` |
| `MailboxesWhole` | `UndisturbedSpec => []MailboxWhole` |
| `FifosReadOnce` | `UndisturbedSpec => []ReadOnce` |

Assumptions: those of the module: users are positive ids, the ring has a slot, the bounds are
natural numbers, lines are non-empty sequences of tasks.

The argument. After `<n |k` an entry still shows the descriptor of a FIFO that a command reads
already, so that what an entry says is no proof that the FIFO may be read. `MailInv` ties path,
name and descriptor of an entry together, except for the one write that is due: of the sender
who has made the path and not yet written the name, of the reader who has reset the descriptor
or unlinked the path, or of a shell that was killed before it. `PathInv` gives each path a FIFO
of its own, which nobody has and nobody reads until a descriptor is noted. `OwnerInv` is the
heart of it: a FIFO is one user's, in `held` or in `last_pipe`, and from the moment a command
reads it, nobody's; the fork takes it from its owner, and no second command can be given it.
`FifoMade`, `FifoOpened` and `FifoTaken` are the three steps of its life; `LosingSteps` serves
all others, which can only lose descriptors. Without `Undisturbed` both properties are false of
the code (section 4); `Polite`, which `SendEnds` needs, is not needed here.

`NpSimpleProofs` proves, for any clients and lines of any length, made of any words and
numbers, and whatever `recv` makes of them:

| theorem | statement |
|---|---|
| `LinesInvariant` | `Spec => []LinesInv` |
| `LinesMeant` | `Spec => []LineMeant` |
| `ShellsSurvive` | `Spec => []Survives` |

Assumptions: lines, and what `recv` returns instead of one, are sequences of tokens; the
largest int is a natural number, and the ring has between one slot and that many.

The argument. `LinesInv` is short: a shell has died only at a line at which the parser did not
come to its end, or with a task that is piped out of the ring (`OutOfRing`), and its tasks are
the parser's; TLC found it invariant first. That such a task has its number from a token of the
line is one more set of states closed under a turn (`Numbered`). The work is in what the
parsers compute. Their loop is a recursive function on an infinite set of parser states, and
that a set of numbers has a least one (`LeastNumber`) takes the place of an induction: there is
such a function, because every turn advances (`RunExists`), and its result keeps whatever each
turn keeps (`RunKeeps`). `SimpleLoop` and `UserLoop` say this of the two parsers, and each fact
about their results names a set of states that is closed under a turn. For `Survives` it is
those whose end `Misleads` explains. For `LineMeant` it is `ReadRight`: a parser about to read
token i, which is no file's name, has the tasks that tokens 1 to i - 1 mean (`Upto`). That
`TaskAt` takes any set of positions, not the whole line, makes this inductive: `TaskBegins`,
`TaskWord`, `TaskBar`, `TaskRedirected`, `TaskFrom` and `TaskName` say how the meaning of a
segment changes with one more token of each kind, `TaskElsewhere` that no other segment's does,
and `SimpleReads` and `UserReads` that a turn does the same. The grammar is needed at every
kind of token: of two redirections the code keeps the last, and a word after one it adds to the
command.

Only model-checked: liveness (`LineEnds`, `DepartedRemoved`, `WaitingAccepted`, `Flushed`,
`SendEnds`, `Delivered`, `Reaped`, `Served`, `ShellsEnd`), which is out of the prover's
reach. Every safety invariant, action property and refinement that a passing run checks is a
theorem; `DivMod`, `ModUnique` and `ModAround` are stated in both modules that need them.

## 6. What is not modelled, and why

* The programs the shells run: only how they use pipes.
* Text: prompts, messages, HTML and its escapes, environment variables, how a line is
  cut at its blanks. No property depends on them.
* The bytes of HTTP and SOCKS requests: a request is what the parser returned. Hence a
  request that is too short, or comes in parts, is not there; a SOCKS client that ends
  before its request has any request read of it.
* `panel.cgi` and the pages' scripts: they print a form and keep no state.
* Exhaustion: `pipe()`, `open()`, `accept()` without a free descriptor; full socket buffers, so
  that `send()` returns at once; writes of a line that are short.
* Reuse of pids.
* What undefined reads and writes do to the rest: a negative id in `tell` or a user pipe, which
  reads before the table; the write before the table of a shell of np_multi_proc that found no
  entry.
* `example/`, `bin/`, build files.

Components whose operations are all modelled are `modelled` in `PROJECT.json`; those where
something of this list is state of theirs are `partly`, with the reason.

## 7. What is left

1. The requests' bytes, with reads that return a part.
2. Pid reuse between a reaped child and the lists that still name it.
3. `SharedTable` and `FifoPipes` in one module, where a descriptor number is cleared by
   the shell that had the entry before.
