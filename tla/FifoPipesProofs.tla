--------------------------- MODULE FifoPipesProofs ---------------------------
(***************************************************************************)
(* Proofs about FifoPipes, for any users, rings, lines and interleaving of *)
(* the shells in which nothing falls between the steps that clear a FIFO   *)
(* (UndisturbedSpec): a path and the name in its receiver's entry go       *)
(* together, and what a FIFO brings is read by one command.                *)
(***************************************************************************)
EXTENDS FifoPipes, SequenceTheorems, TLAPS

\* What users type is lines of tasks.
LEMMA LinesAreTasks ==
  /\ Lines \subseteq Seq(Task) \ {<<>>}
  /\ \A u \in User : Typed[u] \subseteq Lines
BY LineAssumption DEF Lines

\* u's shell has a way to q: a descriptor, or what the next command is to read.
Has(u, q) == q \in held[u] \/ sh[u].last_pipe = q

\* s has made a FIFO for r and not yet written its name into r's entry.
Pending(s, r) == At(s, "name") /\ to(s) = r

\* r is clearing the FIFO of s, before and after the path is gone.
Unlinking(r, s) == At(r, "unlink") /\ First(r, s)
Unnaming(r, s)  == At(r, "unname") /\ First(r, s)

\* A shell in a line has one, with a task left to do; one that makes a FIFO has a receiver.
Sending   == {"send", "mkfifo", "name", "kill", "open", "blocked"}
InLine(x) == x.pc \in Sending \cup {"exec", "finish", "wait"} \/ (x.pc \in Clearing /\ x.goal # "destroy")
LineOf(x) ==
  /\ InLine(x) => x.line \in Lines /\ x.idx \in 1 .. Len(x.line)
  /\ x.pc \in Sending => x.line[Len(x.line)].to \in User
LineInv == \A u \in User : LineOf(sh[u])

\* The path and the name go together but while one of them is written; a descriptor
\* comes with a name.
MailOf(f, q, pending, killed, unlinking, unnaming, dead) ==
  /\ q # NoPipe => f.name \/ pending \/ killed
  /\ f.name => q # NoPipe \/ unnaming \/ dead
  /\ f.fd # NoPipe => f.name /\ f.fd = q
  /\ unlinking \/ unnaming => f.fd = NoPipe
  /\ unnaming => ~f.name \/ q = NoPipe
  /\ pending => q # NoPipe /\ (f.name => dead)
MailAt(s, r) == MailOf(fifo[r][s], file[s][r], Pending(s, r), At(s, "killed"),
                       Unlinking(r, s), Unnaming(r, s), At(r, "killed"))
MailInv == \A s, r \in User : MailAt(s, r)

\* A path leads to a FIFO of its own, which nobody has while no descriptor is noted,
\* unless that has just been cleared.
Unopened(s, r) == fifo[r][s].fd = NoPipe /\ ~At(r, "killed") /\ ~(Unlinking(r, s) /\ fifo[r][s].name)
PathInv ==
  \A s, r \in User : file[s][r] # NoPipe =>
    /\ file[s][r] \in fifos
    /\ \A t, v \in User : file[t][v] = file[s][r] => t = s /\ v = r
    /\ Unopened(s, r) => /\ \A u \in User : ~Has(u, file[s][r])
                         /\ \A p \in Proc : proc[p].in # file[s][r]

\* A FIFO is one user's, and nobody's any more when a command reads it.
OwnerInv ==
  \A q \in fifos :
    /\ \A u, v \in User : Has(u, q) /\ Has(v, q) => u = v
    /\ \A p \in Proc : proc[p].in = q => \A u \in User : ~Has(u, q)

\* The numbered pipes are no FIFOs.
RingInv == \A u \in User : \A k \in Slots : sh[u].pipes[k] \notin fifos

\* Shells that were killed take no signals.
SignalInv == \A u \in usr2 : ~At(u, "killed")

FifoInv == TypeOK /\ LineInv /\ MailInv /\ PathInv /\ OwnerInv /\ RingInv /\ SignalInv /\ ReadOnce

\* What may happen, and one user's part in it.
Step        == Next /\ Undisturbed
UserStep(u) == Login(u) \/ ReadLine(u) \/ ShellStep(u) \/ Killed(u)

\* All of them but a fork.
PlainStep(u) ==
  \/ Login(u) \/ ReadLine(u) \/ Killed(u)
  \/ FindReceiver(u) \/ MakeFifo(u) \/ MakeFails(u) \/ NoteName(u) \/ Signal(u) \/ Open(u) \/ OpenFifoRead(u)
  \/ ExecBuiltin(u) \/ ExecExit(u) \/ Finish(u) \/ EndLine(u) \/ Leave(u) \/ Destroy(u)
  \/ \E s \in User : CloseFd(u, s) \/ Unlink(u, s) \/ Nameless(u, s) \/ Unname(u, s)
  \/ ExitDone(u) \/ ClearEnv(u) \/ Destroyed(u)

-----------------------------------------------------------------------------
(* Kernel pipes by the order of their creation.                            *)

\* One value more for the next pipe.
LEMMA AppendNext ==
  ASSUME NEW n \in Nat, NEW S, NEW f \in [1 .. n -> S], NEW x \in S
  PROVE  /\ Append(f, x) \in [1 .. n + 1 -> S]
         /\ Append(f, x)[n + 1] = x
         /\ \A i \in 1 .. n : Append(f, x)[i] = f[i]
<1>1. f \in Seq(S) /\ Len(f) = n
  OBVIOUS
<1>2. /\ Append(f, x) \in Seq(S) /\ Len(Append(f, x)) = n + 1
      /\ \A i \in 1 .. n : Append(f, x)[i] = f[i]
      /\ Append(f, x)[n + 1] = x
  BY ONLY <1>1, AppendProperties, n \in Nat, x \in S
<1>3. Append(f, x) \in [1 .. n + 1 -> S]
  BY ONLY <1>2, LenProperties
<1> QED
  BY <1>2, <1>3

-----------------------------------------------------------------------------
(* The records of shells.                                                  *)

Placed(x, p)           == [x EXCEPT !.pc = p]
Sought(x, p, b)        == [x EXCEPT !.pc = p, !.outError = b]
Stuck(x, q)            == [x EXCEPT !.pc = "blocked", !.waits = q]
Onto(x, m)             == [x EXCEPT !.idx = m]
Cleaning(x, S, g)      == [x EXCEPT !.pc = "close", !.todo = S, !.goal = g]
Passed(x, s)           == [x EXCEPT !.pc = "close", !.todo = @ \ {s}]
Started(x, l, q, b, p) == [x EXCEPT !.line = l, !.idx = 1, !.last_pipe = q, !.inError = b, !.pc = p]
Anew(p)                == [NewShell EXCEPT !.pc = p]

\* What most updates leave alone.
SameRing(x, y) == y.last_pipe = x.last_pipe /\ y.pipes = x.pipes
SameLine(x, y) == y.line = x.line /\ y.idx = x.idx /\ SameRing(x, y)
SameJob(x, y)  == SameLine(x, y) /\ y.todo = x.todo /\ y.goal = x.goal

\* A record of a shell stays one when a field gets a value of its kind.
LEMMA PlacedFacts ==
  ASSUME NEW n \in Nat, NEW x \in ShellRec(n), NEW p \in ShellPlace
  PROVE  Placed(x, p) \in ShellRec(n) /\ Placed(x, p).pc = p /\ SameJob(x, Placed(x, p))
BY DEF Placed, ShellRec, SameJob, SameLine, SameRing

LEMMA SoughtFacts ==
  ASSUME NEW n \in Nat, NEW x \in ShellRec(n), NEW p \in ShellPlace, NEW b \in BOOLEAN
  PROVE  Sought(x, p, b) \in ShellRec(n) /\ Sought(x, p, b).pc = p /\ SameJob(x, Sought(x, p, b))
BY DEF Sought, ShellRec, SameJob, SameLine, SameRing

LEMMA OpenedFacts ==
  ASSUME NEW n \in Nat, NEW x \in ShellRec(n), NEW q \in 0 .. n
  PROVE  Opened(x, q) \in ShellRec(n) /\ Opened(x, q).pc = "exec" /\ SameJob(x, Opened(x, q))
<1>1. NoPipe \in 0 .. n /\ "exec" \in ShellPlace
  BY DEF NoPipe, ShellPlace
<1> QED
  BY <1>1 DEF Opened, ShellRec, SameJob, SameLine, SameRing

LEMMA StuckFacts ==
  ASSUME NEW n \in Nat, NEW x \in ShellRec(n), NEW q \in 0 .. n
  PROVE  Stuck(x, q) \in ShellRec(n) /\ Stuck(x, q).pc = "blocked" /\ SameJob(x, Stuck(x, q))
<1>1. "blocked" \in ShellPlace
  BY DEF ShellPlace
<1> QED
  BY <1>1 DEF Stuck, ShellRec, SameJob, SameLine, SameRing

LEMMA OntoFacts ==
  ASSUME NEW n \in Nat, NEW x \in ShellRec(n), NEW m \in Nat
  PROVE  /\ Onto(x, m) \in ShellRec(n) /\ Onto(x, m).idx = m /\ Onto(x, m).line = x.line
         /\ Onto(x, m).pc = x.pc /\ SameRing(x, Onto(x, m))
BY DEF Onto, ShellRec, SameRing

LEMMA CleaningFacts ==
  ASSUME NEW n \in Nat, NEW x \in ShellRec(n), NEW S \in SUBSET User, NEW g \in {"line", "exit", "destroy"}
  PROVE  /\ Cleaning(x, S, g) \in ShellRec(n) /\ SameLine(x, Cleaning(x, S, g))
         /\ Cleaning(x, S, g).pc = "close" /\ Cleaning(x, S, g).goal = g
<1>1. "close" \in ShellPlace
  BY DEF ShellPlace, Clearing
<1> QED
  BY <1>1 DEF Cleaning, ShellRec, SameLine, SameRing

LEMMA PassedFacts ==
  ASSUME NEW n \in Nat, NEW x \in ShellRec(n), NEW s \in User
  PROVE  /\ Passed(x, s) \in ShellRec(n) /\ SameLine(x, Passed(x, s))
         /\ Passed(x, s).pc = "close" /\ Passed(x, s).goal = x.goal
<1>1. "close" \in ShellPlace
  BY DEF ShellPlace, Clearing
<1> QED
  BY <1>1 DEF Passed, ShellRec, SameLine, SameRing

LEMMA StartedFacts ==
  ASSUME NEW n \in Nat, NEW x \in ShellRec(n), NEW l \in Lines, NEW q \in -1 .. n, NEW b \in BOOLEAN, NEW p \in ShellPlace
  PROVE  /\ Started(x, l, q, b, p) \in ShellRec(n) /\ Started(x, l, q, b, p).pipes = x.pipes
         /\ Started(x, l, q, b, p).line = l /\ Started(x, l, q, b, p).idx = 1
         /\ Started(x, l, q, b, p).pc = p /\ Started(x, l, q, b, p).last_pipe = q
BY DEF Started, ShellRec

\* What a shell that waits in open() becomes when it returns or starts again.
Woken(x) == {x, Restarted(x)} \cup (IF x.pc = "blocked" THEN {Opened(x, x.waits)} ELSE {})

LEMMA WaitFacts ==
  ASSUME NEW n \in Nat, NEW x \in ShellRec(n), NEW y \in Woken(x)
  PROVE  /\ y \in ShellRec(n) /\ SameJob(x, y)
         /\ y.pc = x.pc \/ (x.pc = "blocked" /\ y.pc \in {"open", "exec"})
<1>1. x.waits \in 0 .. n /\ NoPipe \in 0 .. n /\ "open" \in ShellPlace
  BY DEF ShellRec, NoPipe, ShellPlace
<1>2. CASE y = x
  BY <1>2 DEF SameJob, SameLine, SameRing
<1>3. CASE x.pc = "blocked" /\ y = Restarted(x)
  <2>1. y = [x EXCEPT !.pc = "open", !.waits = NoPipe]
    BY <1>3 DEF Restarted
  <2> QED
    BY <1>1, <1>3, <2>1 DEF ShellRec, SameJob, SameLine, SameRing
<1>4. CASE x.pc = "blocked" /\ y = Opened(x, x.waits)
  BY <1>1, <1>4, OpenedFacts
<1>5. y = x \/ (x.pc = "blocked" /\ y \in {Restarted(x), Opened(x, x.waits)})
  <2>1. CASE x.pc = "blocked"
    <3>1. Woken(x) = {x, Restarted(x), Opened(x, x.waits)}
      BY <2>1 DEF Woken
    <3> QED
      BY <2>1, <3>1
  <2>2. CASE x.pc # "blocked"
    <3>1. Woken(x) = {x}
      BY <2>2 DEF Woken, Restarted
    <3> QED
      BY <3>1
  <2> QED
    BY <2>1, <2>2
<1> QED
  BY ONLY <1>2, <1>3, <1>4, <1>5

\* A new record.
LEMMA NewRecord ==
  ASSUME NEW n \in Nat, NEW p \in ShellPlace
  PROVE  /\ Anew(p) \in ShellRec(n) /\ Anew(p).pc = p /\ Anew(p).last_pipe = NoPipe
         /\ \A k \in Slots : Anew(p).pipes[k] = NoPipe
<1>1. 0 \in Slots /\ [k \in Slots |-> NoPipe] \in [Slots -> 0 .. n]
  BY BoundAssumption DEF Slots, NoPipe
<1>2. NewShell \in ShellRec(n)
  BY <1>1 DEF NewShell, ShellRec, ShellPlace, NoPipe
<1>3. Anew(p) \in ShellRec(n) /\ Anew(p).pc = p /\ SameJob(NewShell, Anew(p))
  BY <1>2, PlacedFacts DEF Anew, Placed
<1> QED
  BY <1>3 DEF SameJob, SameLine, SameRing, NewShell

\* A slot of the ring.
LEMMA SlotRange ==
  ASSUME TypeOK, NEW u \in User
  PROVE  /\ sh[u] \in ShellRec(npipe) /\ sh[u].current_pos \in Slots
         /\ \A n \in Nat : Slot(u, n) \in Slots
<1>1. sh[u] \in ShellRec(npipe)
  BY DEF TypeOK
<1>2. sh[u].current_pos \in 0 .. MaxPipe - 1
  BY <1>1 DEF ShellRec, Slots
<1>3. MaxPipe \in Nat \ {0}
  BY BoundAssumption
<1>4. \A n \in Nat : Slot(u, n) \in 0 .. MaxPipe - 1
  BY <1>2, <1>3 DEF Slot
<1> QED
  BY <1>1, <1>2, <1>4 DEF Slots

\* Records stay well formed when the kernel numbers more pipes.
LEMMA RecordsGrow ==
  ASSUME NEW m \in Nat, NEW n \in Nat, m <= n
  PROVE  ShellRec(m) \subseteq ShellRec(n) /\ MailRec(m) \subseteq MailRec(n) /\ ProcRec(m) \subseteq ProcRec(n)
<1>1. 1 .. m \subseteq 1 .. n /\ 0 .. m \subseteq 0 .. n /\ -1 .. m \subseteq -1 .. n
  OBVIOUS
<1>2. ProcRec(m) \subseteq ProcRec(n) /\ MailRec(m) \subseteq MailRec(n)
  BY <1>1 DEF ProcRec, MailRec
<1>3. [Slots -> 0 .. m] \subseteq [Slots -> 0 .. n]
  BY <1>1
<1>4. ShellRec(m) \subseteq ShellRec(n)
  BY <1>1, <1>3 DEF ShellRec
<1> QED
  BY <1>2, <1>4

\* What is typed.
LEMMA LineFacts ==
  ASSUME TypeOK, LineInv, NEW u \in User, InLine(sh[u])
  PROVE  /\ line(u) \in Lines /\ line(u) \in Seq(Task) /\ sh[u].idx \in 1 .. Len(line(u))
         /\ task(u) \in Task /\ lastTask(u) \in Task /\ line(u)[1] \in Task
         /\ to(u) \in User \cup {NoUser} /\ from(u) \in User \cup {NoUser}
         /\ NoUser \notin User
         /\ sh[u].pc \in Sending => to(u) \in User
<1>1. line(u) \in Lines /\ line(u) \in Seq(Task) /\ line(u) # <<>> /\ sh[u].idx \in 1 .. Len(line(u))
  BY LinesAreTasks DEF LineInv, LineOf, line
<1>2. Len(line(u)) \in Nat \ {0}
  BY <1>1
<1>3. task(u) \in Task /\ lastTask(u) \in Task /\ line(u)[1] \in Task
  BY <1>1, <1>2 DEF task, lastTask
<1>4. sh[u].pc \in Sending => to(u) \in User
  BY DEF LineInv, LineOf, to, lastTask, line
<1> QED
  BY <1>1, <1>3, <1>4, BoundAssumption DEF Task, to, from, NoUser

\* The receiver of one who makes a FIFO.
LEMMA Receiver ==
  ASSUME TypeOK, LineInv, NEW u \in User,
         MakeFifo(u) \/ MakeFails(u) \/ NoteName(u) \/ Signal(u) \/ Open(u)
  PROVE  to(u) \in User /\ InLine(sh[u]) /\ sh[u].pc \in Sending
BY LineFacts DEF MakeFifo, MakeFails, NoteName, Signal, Open, At, InLine, Sending

\* The next task, or the end of them.
LEMMA Nexts ==
  ASSUME NEW n \in Nat, NEW u \in User, NEW x \in ShellRec(n), x.pc = "exec",
         x.line = line(u), x.idx = sh[u].idx, InLine(x), LineOf(x)
  PROVE  /\ Next1(u, x) \in ShellRec(n) /\ SameRing(x, Next1(u, x))
         /\ Next1(u, x).pc \in {"exec", "finish"} /\ LineOf(Next1(u, x))
<1>0. x.idx \in Nat /\ x.line \in Lines /\ x.idx \in 1 .. Len(x.line) /\ "finish" \in ShellPlace
  BY DEF ShellRec, LineOf, ShellPlace
<1>1. CASE IsLast(u)
  <2> DEFINE y == Placed(x, "finish")
  <2>1. Next1(u, x) = y
    BY <1>1 DEF Next1, Placed
  <2>2. y \in ShellRec(n) /\ y.pc = "finish" /\ y.line = x.line /\ y.idx = x.idx /\ SameRing(x, y)
    BY <1>0, PlacedFacts DEF SameJob, SameLine
  <2> HIDE DEF y
  <2> QED
    BY <1>0, <2>1, <2>2 DEF LineOf, InLine, Sending, Clearing
<1>2. CASE ~IsLast(u)
  <2> DEFINE y == Onto(x, x.idx + 1)
  <2>1. Next1(u, x) = y
    BY <1>2 DEF Next1, Onto
  <2>2. y \in ShellRec(n) /\ y.idx = x.idx + 1 /\ y.line = x.line /\ y.pc = x.pc /\ SameRing(x, y)
    <3>1. x.idx + 1 \in Nat
      BY <1>0
    <3> QED
      BY <3>1, OntoFacts
  <2>3. x.idx + 1 \in 1 .. Len(x.line)
    <3>1. Len(x.line) \in Nat
      BY <1>0, LinesAreTasks
    <3> QED
      BY <1>0, <1>2, <3>1 DEF IsLast
  <2> HIDE DEF y
  <2> QED
    BY <1>0, <2>1, <2>2, <2>3 DEF LineOf, InLine, Sending, Clearing
<1> QED
  BY <1>1, <1>2

-----------------------------------------------------------------------------
(* What each step does to the shells.                                      *)

\* What becomes of a shell in a step of its own, the forks aside: one that reads a line
\* has a new input, the others keep theirs and the ring or lose them.
Kept(x, y) == /\ y.last_pipe \in {x.last_pipe, NoPipe}
              /\ \A k \in Slots : y.pipes[k] \in {x.pipes[k], NoPipe}

LEMMA Keeps ==
  ASSUME NEW x, NEW y, SameRing(x, y)
  PROVE  Kept(x, y)
BY DEF SameRing, Kept

\* The steps that write one place, or a new record.
LEMMA PlaceSteps ==
  ASSUME TypeOK, LineInv, NEW u \in User
  PROVE  /\ MakeFifo(u)  => sh' = [sh EXCEPT ![u] = Placed(sh[u], "name")]
         /\ MakeFails(u) => sh' = [sh EXCEPT ![u] = Placed(sh[u], "exec")]
         /\ NoteName(u)  => sh' = [sh EXCEPT ![u] = Placed(sh[u], "kill")]
         /\ Signal(u)    => sh' = [sh EXCEPT ![u] = Placed(sh[u], "open")]
         /\ \A s \in User : /\ CloseFd(u, s) => sh' = [sh EXCEPT ![u] = Placed(sh[u], "unlink")]
                            /\ Unlink(u, s)  => sh' = [sh EXCEPT ![u] = Placed(sh[u], "unname")]
                            /\ Nameless(u, s) \/ Unname(u, s) => sh' = [sh EXCEPT ![u] = Passed(sh[u], s)]
         /\ ExecExit(u) => sh' = [sh EXCEPT ![u] = Cleaning(sh[u], User, "exit")]
         /\ EndLine(u)  => sh' = [sh EXCEPT ![u] = Cleaning(sh[u], Due(u), "line")]
         /\ Destroy(u)  => sh' = [sh EXCEPT ![u] = Cleaning(sh[u], User, "destroy")]
         /\ Login(u)     => sh' = [sh EXCEPT ![u] = Anew("recv")]
         /\ Destroyed(u) => sh' = [sh EXCEPT ![u] = Anew("out")]
         /\ Killed(u)    => sh' = [sh EXCEPT ![u] = Anew("killed")]
<1>0. sh \in [User -> ShellRec(npipe)]
  BY DEF TypeOK
<1>1. ASSUME NEW p, Goto(u, p)
      PROVE  sh' = [sh EXCEPT ![u] = Placed(sh[u], p)]
  BY <1>0, <1>1 DEF Goto, Placed
<1>2. ASSUME NEW S, NEW g, StartClearing(u, S, g)
      PROVE  sh' = [sh EXCEPT ![u] = Cleaning(sh[u], S, g)]
  BY <1>0, <1>2 DEF StartClearing, Cleaning
<1>3. ASSUME NEW s, NextFifo(u, s)
      PROVE  sh' = [sh EXCEPT ![u] = Passed(sh[u], s)]
  BY <1>0, <1>3 DEF NextFifo, Passed
<1>4. /\ Login(u)     => sh' = [sh EXCEPT ![u] = Anew("recv")]
      /\ Destroyed(u) => sh' = [sh EXCEPT ![u] = Anew("out")]
      /\ Killed(u)    => sh' = [sh EXCEPT ![u] = Anew("killed")]
  BY DEF Login, Destroyed, Killed, Gone, Anew
<1>5. /\ MakeFifo(u)  => sh' = [sh EXCEPT ![u] = Placed(sh[u], "name")]
      /\ MakeFails(u) => sh' = [sh EXCEPT ![u] = Placed(sh[u], "exec")]
      /\ NoteName(u)  => sh' = [sh EXCEPT ![u] = Placed(sh[u], "kill")]
      /\ Signal(u)    => sh' = [sh EXCEPT ![u] = Placed(sh[u], "open")]
  BY <1>1 DEF MakeFifo, MakeFails, NoteName, Signal
<1>6. /\ ExecExit(u) => sh' = [sh EXCEPT ![u] = Cleaning(sh[u], User, "exit")]
      /\ EndLine(u)  => sh' = [sh EXCEPT ![u] = Cleaning(sh[u], Due(u), "line")]
      /\ Destroy(u)  => sh' = [sh EXCEPT ![u] = Cleaning(sh[u], User, "destroy")]
  BY <1>2 DEF ExecExit, EndLine, Destroy
<1>7. ASSUME NEW s \in User
      PROVE  /\ CloseFd(u, s) => sh' = [sh EXCEPT ![u] = Placed(sh[u], "unlink")]
             /\ Unlink(u, s)  => sh' = [sh EXCEPT ![u] = Placed(sh[u], "unname")]
             /\ Nameless(u, s) \/ Unname(u, s) => sh' = [sh EXCEPT ![u] = Passed(sh[u], s)]
  BY <1>1, <1>3 DEF CloseFd, Unlink, Nameless, Unname
<1> QED
  BY ONLY <1>4, <1>5, <1>6, <1>7

\* The places from which it shows which FIFOs are pending, or cleared, and the steps
\* that enter or leave one.
Marked  == {"name", "unlink", "unname", "killed"}
Unmarked(x, y) == \/ y.pc = x.pc /\ y.line = x.line /\ y.todo = x.todo
                  \/ x.pc \notin Marked /\ y.pc \notin Marked
ClearsOne(u, s) == CloseFd(u, s) \/ Unlink(u, s) \/ Nameless(u, s) \/ Unname(u, s)
Marking(u)      == MakeFifo(u) \/ NoteName(u) \/ Killed(u) \/ \E s \in User : ClearsOne(u, s)

\* Every step of a shell but a fork changes its own record to another one, with a line
\* where one is needed, and lets others wake up.
LEMMA OwnStep ==
  ASSUME TypeOK, LineInv, NEW u \in User, PlainStep(u)
  PROVE  /\ sh' \in [User -> ShellRec(npipe)]
         /\ \A v \in User : v # u => sh'[v] \in Woken(sh[v])
         /\ LineOf(sh'[u])
         /\ ReadLine(u) \/ Kept(sh[u], sh'[u])
         /\ Marking(u) \/ Unmarked(sh[u], sh'[u])
<1> DEFINE x == sh[u]
<1>0. /\ sh \in [User -> ShellRec(npipe)] /\ npipe \in Nat /\ x \in ShellRec(npipe) /\ LineOf(x)
      /\ file \in [User -> [User -> 0 .. npipe]]
  BY DEF TypeOK, LineInv
<1>1. ASSUME NEW y \in ShellRec(npipe), sh' = [sh EXCEPT ![u] = y], LineOf(y),
             ReadLine(u) \/ SameRing(x, y) \/ Kept(x, y), Marking(u) \/ Unmarked(x, y)
      PROVE  /\ sh' \in [User -> ShellRec(npipe)]
             /\ \A v \in User : v # u => sh'[v] \in Woken(sh[v])
             /\ LineOf(sh'[u])
             /\ ReadLine(u) \/ Kept(sh[u], sh'[u])
             /\ Marking(u) \/ Unmarked(sh[u], sh'[u])
  <2>1. sh'[u] = y /\ \A v \in User : v # u => sh'[v] = sh[v]
    BY <1>0, <1>1
  <2>2. sh' \in [User -> ShellRec(npipe)]
    BY <1>0, <1>1
  <2> QED
    BY <1>1, <2>1, <2>2, Keeps DEF Woken
<1>p. \A p \in {"exec", "unlink", "unname", "name", "kill", "open", "recv", "out", "killed", "mkfifo", "send", "wait",
               "left", "destroy", "close"} : p \in ShellPlace
  BY DEF ShellPlace, Clearing
<1> HIDE DEF x
<1>2. CASE MakeFifo(u) \/ MakeFails(u) \/ NoteName(u) \/ Signal(u)
  <2>1. PICK p \in {"name", "exec", "kill", "open"} :
          /\ sh' = [sh EXCEPT ![u] = Placed(x, p)]
          /\ \/ MakeFifo(u) \/ NoteName(u)
             \/ MakeFails(u) /\ p = "exec"
             \/ Signal(u) /\ p = "open"
    BY <1>2, PlaceSteps DEF x
  <2>2. x.pc \in {"mkfifo", "name", "kill"} /\ InLine(x) /\ x.pc \in Sending
    BY <1>2 DEF MakeFifo, MakeFails, NoteName, Signal, At, x, InLine, Sending
  <2>3. Placed(x, p) \in ShellRec(npipe) /\ Placed(x, p).pc = p /\ SameJob(x, Placed(x, p))
    <3>1. p \in ShellPlace
      BY <1>p
    <3> QED
      BY <1>0, <3>1, PlacedFacts
  <2>4. LineOf(Placed(x, p))
    BY <1>0, <2>2, <2>3 DEF LineOf, SameJob, SameLine
  <2>5. Marking(u) \/ (x.pc \notin Marked /\ p \notin Marked)
    BY <2>1 DEF Marking, MakeFails, Signal, At, x, Marked
  <2>6. SameRing(x, Placed(x, p))
    BY <2>3 DEF SameJob, SameLine
  <2>7. Marking(u) \/ Unmarked(x, Placed(x, p))
    BY <2>3, <2>5 DEF Unmarked
  <2> QED
    BY <1>1, <2>1, <2>3, <2>4, <2>6, <2>7
<1>3. CASE \E s \in User : ClearsOne(u, s)
  <2>1. PICK s \in User : ClearsOne(u, s)
    BY <1>3
  <2>2. PICK y \in {Placed(x, "unlink"), Placed(x, "unname"), Passed(x, s)} : sh' = [sh EXCEPT ![u] = y]
    BY <2>1, PlaceSteps DEF ClearsOne, x
  <2>3. x.pc \in Clearing
    BY <2>1 DEF ClearsOne, CloseFd, Unlink, Nameless, Unname, At, x, Clearing
  <2>4. y \in ShellRec(npipe) /\ SameLine(x, y) /\ y.goal = x.goal /\ y.pc \in Clearing
    <3>1. ASSUME NEW p \in {"unlink", "unname"}, y = Placed(x, p)
          PROVE  y \in ShellRec(npipe) /\ SameJob(x, y) /\ y.pc = p
      <4>1. p \in ShellPlace
        BY <1>p
      <4> QED
        BY <1>0, <3>1, <4>1, PlacedFacts
    <3>2. CASE y = Passed(x, s)
      BY <1>0, <3>2, PassedFacts DEF Clearing
    <3>3. CASE y \in {Placed(x, "unlink"), Placed(x, "unname")}
      <4>1. y \in ShellRec(npipe) /\ SameJob(x, y) /\ y.pc \in {"unlink", "unname"}
        BY <3>1, <3>3
      <4> QED
        BY <4>1 DEF SameJob, Clearing
    <3> QED
      BY <2>2, <3>2, <3>3
  <2>5. LineOf(y)
    BY <1>0, <2>3, <2>4 DEF LineOf, InLine, Sending, SameLine, Clearing
  <2>6. Marking(u)
    BY <1>3 DEF Marking
  <2> QED
    BY <1>1, <2>2, <2>4, <2>5, <2>6 DEF SameLine
<1>4. CASE ExecExit(u) \/ EndLine(u) \/ Destroy(u)
  <2>1. PICK S \in SUBSET User, g \in {"line", "exit", "destroy"} :
          sh' = [sh EXCEPT ![u] = Cleaning(x, S, g)] /\ (g = "destroy" \/ x.pc \in {"exec", "wait"})
    <3>1. Due(u) \subseteq User
      BY DEF Due
    <3> QED
      BY <1>4, <3>1, PlaceSteps DEF x, ExecExit, EndLine, At
  <2>2. x.pc \in {"exec", "wait", "destroy"}
    BY <1>4 DEF ExecExit, EndLine, Destroy, At, x
  <2> DEFINE y == Cleaning(x, S, g)
  <2>3. y \in ShellRec(npipe) /\ SameLine(x, y) /\ y.pc = "close" /\ y.goal = g
    BY <1>0, CleaningFacts
  <2> HIDE DEF y
  <2>4. LineOf(y)
    BY <1>0, <2>1, <2>2, <2>3 DEF LineOf, InLine, Sending, SameLine, Clearing
  <2>5. Unmarked(x, y)
    BY <2>2, <2>3 DEF Unmarked, Marked
  <2> QED
    BY <1>1, <2>1, <2>3, <2>4, <2>5 DEF SameLine, y
<1>5. CASE Login(u) \/ Destroyed(u) \/ Killed(u)
  <2>1. PICK p \in {"recv", "out", "killed"} : sh' = [sh EXCEPT ![u] = Anew(p)] /\ (p = "killed" => Killed(u))
    BY <1>5, PlaceSteps
  <2>2. Anew(p) \in ShellRec(npipe) /\ Anew(p).pc = p /\ Kept(x, Anew(p))
    BY <1>0, <1>p, NewRecord DEF Kept
  <2>3. LineOf(Anew(p))
    BY <2>2 DEF LineOf, InLine, Sending, Clearing
  <2>4. Marking(u) \/ Unmarked(x, Anew(p))
    <3>1. CASE Killed(u)
      BY <3>1 DEF Marking
    <3>2. CASE ~Killed(u)
      <4>1. x.pc \in {"out", "close"}
        BY <1>5, <3>2 DEF Login, Destroyed, AllCleared, At, x
      <4> QED
        BY <2>1, <2>2, <3>2, <4>1 DEF Unmarked, Marked
    <3> QED
      BY <3>1, <3>2
  <2> QED
    BY <1>1, <2>1, <2>2, <2>3, <2>4
<1>6. CASE FindReceiver(u)
  <2>1. PICK p \in {"mkfifo", "exec"}, b \in BOOLEAN : sh' = [sh EXCEPT ![u] = Sought(x, p, b)]
    <3> DEFINE b == ~MaySend(u, to(u))
               p == IF MaySend(u, to(u)) THEN "mkfifo" ELSE "exec"
    <3>1. sh' = [sh EXCEPT ![u].pc = p, ![u].outError = b] /\ b \in BOOLEAN /\ p \in {"mkfifo", "exec"}
      BY <1>6 DEF FindReceiver
    <3> HIDE DEF b, p
    <3>2. sh' = [sh EXCEPT ![u] = Sought(x, p, b)]
      BY <1>0, <3>1 DEF Sought, x
    <3> QED
      BY <3>1, <3>2
  <2>2. x.pc = "send"
    BY <1>6 DEF FindReceiver, At, x
  <2> DEFINE y == Sought(x, p, b)
  <2>3. y \in ShellRec(npipe) /\ SameJob(x, y) /\ y.pc = p
    <3>1. p \in ShellPlace
      BY <1>p
    <3> QED
      BY <1>0, <3>1, SoughtFacts
  <2> HIDE DEF y
  <2>4. LineOf(y) /\ Unmarked(x, y)
    BY <1>0, <2>2, <2>3 DEF LineOf, InLine, Sending, SameJob, SameLine, Unmarked, Marked
  <2> QED
    BY <1>1, <2>1, <2>3, <2>4 DEF SameJob, SameLine, y
<1>7. CASE Open(u)
  <2> DEFINE q == file[u][to(u)]
  <2>1. q \in 0 .. npipe
    BY <1>0, <1>7, Receiver
  <2>2. x.pc = "open"
    BY <1>7 DEF Open, At, x
  <2>3. PICK y \in {Opened(x, q), Stuck(x, q)} : sh' = [sh EXCEPT ![u] = y]
    BY <1>0, <1>7 DEF Open, Stuck, x
  <2> HIDE DEF q
  <2>4. y \in ShellRec(npipe) /\ SameJob(x, y) /\ y.pc \in {"exec", "blocked"}
    BY <1>0, <2>1, <2>3, OpenedFacts, StuckFacts
  <2>5. LineOf(y) /\ Unmarked(x, y)
    BY <1>0, <2>2, <2>4 DEF LineOf, InLine, Sending, SameJob, SameLine, Unmarked, Marked
  <2> QED
    BY <1>1, <2>3, <2>4, <2>5 DEF SameJob, SameLine
<1>8. CASE OpenFifoRead(u)
  <2>1. sh' = [v \in User |-> sh'[v]] /\ \A v \in User : sh'[v] \in Woken(sh[v])
    BY <1>8 DEF OpenFifoRead, Woken
  <2>2. \A v \in User : sh'[v] \in ShellRec(npipe)
    BY <1>0, <2>1, WaitFacts
  <2>3. sh' \in [User -> ShellRec(npipe)]
    BY <2>1, <2>2
  <2> DEFINE y == sh'[u]
  <2>4. SameJob(x, y) /\ (y.pc = x.pc \/ (x.pc = "blocked" /\ y.pc \in {"open", "exec"}))
    BY <1>0, <2>1, WaitFacts DEF x
  <2> HIDE DEF y
  <2>5. LineOf(y) /\ Unmarked(x, y)
    BY <1>0, <2>4 DEF LineOf, InLine, Sending, SameJob, SameLine, Unmarked, Marked, Clearing
  <2>6. Kept(x, y)
    BY <2>4, Keeps DEF SameJob, SameLine
  <2> QED
    BY <2>1, <2>3, <2>5, <2>6 DEF x, y
<1>9. CASE Leave(u)
  <2>1. sh' = [v \in User |-> sh'[v]] /\ sh'[u] = Placed(x, "destroy") /\ \A v \in User : v # u => sh'[v] \in Woken(sh[v])
    BY <1>9 DEF Leave, Told, Woken, Placed, x
  <2> DEFINE y == sh'[u]
  <2>2. y \in ShellRec(npipe) /\ SameJob(x, y) /\ y.pc = "destroy" /\ x.pc = "left"
    <3>1. "destroy" \in ShellPlace /\ x.pc = "left"
      BY <1>9, <1>p DEF Leave, At, x
    <3> QED
      BY <1>0, <2>1, <3>1, PlacedFacts
  <2>3. \A v \in User : sh'[v] \in ShellRec(npipe)
    BY <1>0, <2>1, <2>2, WaitFacts
  <2>4. sh' \in [User -> ShellRec(npipe)]
    BY <2>1, <2>3
  <2> HIDE DEF y
  <2>5. LineOf(y) /\ Unmarked(x, y)
    BY <2>2 DEF LineOf, InLine, Sending, Unmarked, Marked, Clearing
  <2>6. Kept(x, y)
    BY <2>2, Keeps DEF SameJob, SameLine
  <2> QED
    BY <2>1, <2>4, <2>5, <2>6 DEF x, y
<1>10. CASE ExecBuiltin(u) \/ ExitDone(u)
  <2> DEFINE z == Placed(x, "exec")
  <2>1. z \in ShellRec(npipe) /\ SameJob(x, z) /\ z.pc = "exec" /\ InLine(x) /\ x.pc \in {"exec", "close"}
    <3>1. "exec" \in ShellPlace
      BY <1>p
    <3>2. z \in ShellRec(npipe) /\ SameJob(x, z) /\ z.pc = "exec"
      BY <1>0, <3>1, PlacedFacts
    <3>3. x.pc = "exec" \/ (x.pc = "close" /\ x.goal = "exit")
      BY <1>10 DEF ExecBuiltin, ExitDone, AllCleared, At, x
    <3> QED
      BY <3>2, <3>3 DEF InLine, Clearing
  <2>2. sh' = [sh EXCEPT ![u] = Next1(u, z)]
    <3>1. CASE ExecBuiltin(u)
      <4>1. z = x
        BY <1>0, <3>1 DEF ExecBuiltin, At, Placed, ShellRec, x
      <4> QED
        BY <1>0, <3>1, <4>1 DEF ExecBuiltin, x
    <3>2. CASE ExitDone(u)
      BY <1>0, <3>2 DEF ExitDone, Placed, x
    <3> QED
      BY <1>10, <3>1, <3>2
  <2> HIDE DEF z
  <2>3. LineOf(z) /\ InLine(z) /\ z.line = line(u) /\ z.idx = sh[u].idx
    BY <1>0, <2>1 DEF LineOf, InLine, Sending, SameJob, SameLine, line, x
  <2> DEFINE y == Next1(u, z)
  <2>4. y \in ShellRec(npipe) /\ SameRing(z, y) /\ y.pc \in {"exec", "finish"} /\ LineOf(y)
    BY <1>0, <2>1, <2>3, Nexts
  <2> HIDE DEF y
  <2>5. Unmarked(x, y) /\ SameRing(x, y)
    BY <2>1, <2>4 DEF Unmarked, Marked, SameJob, SameLine, SameRing
  <2> QED
    BY <1>1, <2>2, <2>4, <2>5 DEF y
<1>11. CASE ReadLine(u)
  <2>1. PICK l \in Lines : \E q \in (IF l[1].from = NoUser THEN {sh[u].last_pipe}
                    ELSE IF Received(u, l[1].from) THEN Meaning(u, fifo[u][l[1].from].fd) ELSE {DevNull}) :
            sh' = [sh EXCEPT ![u] = [sh[u] EXCEPT !.line = l, !.idx = 1, !.last_pipe = q,
                                              !.inError = (l[1].from # NoUser /\ ~Received(u, l[1].from)),
                                              !.pc = IF l[Len(l)].to = NoUser THEN "exec" ELSE "send"]]
    BY <1>0, <1>11, LinesAreTasks DEF ReadLine
  <2>2. \A q : Meaning(u, q) \subseteq -1 .. npipe
    <3>1. held[u] \subseteq 1 .. npipe
      BY DEF TypeOK, Pipes
    <3> QED
      BY <1>0, <3>1 DEF Meaning, NoPipe
  <2>3. sh[u].last_pipe \in -1 .. npipe /\ DevNull \in -1 .. npipe
    BY <1>0 DEF ShellRec, DevNull, x
  <2>4. PICK q \in -1 .. npipe :
            sh' = [sh EXCEPT ![u] = [sh[u] EXCEPT !.line = l, !.idx = 1, !.last_pipe = q,
                                              !.inError = (l[1].from # NoUser /\ ~Received(u, l[1].from)),
                                              !.pc = IF l[Len(l)].to = NoUser THEN "exec" ELSE "send"]]
    BY <2>1, <2>2, <2>3, ZenonT(60)
  <2> DEFINE b == l[1].from # NoUser /\ ~Received(u, l[1].from)
             p == IF l[Len(l)].to = NoUser THEN "exec" ELSE "send"
             y == Started(x, l, q, b, p)
  <2>5. sh' = [sh EXCEPT ![u] = y]
    BY <2>4 DEF Started, x
  <2>6. b \in BOOLEAN /\ p \in ShellPlace /\ p \in {"exec", "send"} /\ (p = "send" => l[Len(l)].to # NoUser)
    BY <1>p
  <2> HIDE DEF b, p
  <2>7. y \in ShellRec(npipe) /\ y.line = l /\ y.idx = 1 /\ y.pc = p
    BY <1>0, <2>6, StartedFacts
  <2> HIDE DEF y
  <2>8. Len(l) \in Nat \ {0} /\ l[Len(l)].to \in User \cup {NoUser}
    <3>1. l \in Seq(Task) /\ l # <<>>
      BY LinesAreTasks
    <3>2. Len(l) \in Nat \ {0}
      BY <3>1
    <3>3. l[Len(l)] \in Task
      BY <3>1, <3>2
    <3> QED
      BY <3>2, <3>3 DEF Task
  <2>9. LineOf(y)
    <3>1. l[Len(l)].to \in User \/ p # "send"
      BY <2>6, <2>8
    <3>2. 1 \in 1 .. Len(l)
      BY <2>8
    <3> QED
      BY <2>6, <2>7, <3>1, <3>2 DEF LineOf, InLine, Sending, Clearing
  <2>10. Unmarked(x, y)
    BY <1>11, <2>6, <2>7 DEF ReadLine, At, Unmarked, Marked, x
  <2> QED
    BY <1>1, <1>11, <2>5, <2>7, <2>9, <2>10
<1>12. CASE Finish(u)
  <2> DEFINE c1  == Moved(u)
             up1 == IF Aside(u) THEN [x.unlink_pos EXCEPT ![from(u)] = Target(u)] ELSE x.unlink_pos
             y   == [x EXCEPT !.pc = "wait", !.userpipefd = NoPipe, !.child_processes = c1,
                              !.unlink_pos = up1, !.inError = FALSE, !.outError = FALSE]
  <2>0. x.pc = "finish" /\ InLine(x) /\ x.child_processes \in [Slots -> SUBSET Proc]
        /\ x.unlink_pos \in [User -> Slots \cup {-1}]
    BY <1>0, <1>12 DEF Finish, At, InLine, ShellRec, x
  <2>1. /\ lastTask(u) \in Task /\ from(u) \in User \cup {NoUser} /\ NoUser \notin User
        /\ \A n \in Nat : Slot(u, n) \in Slots
    BY <2>0, LineFacts, SlotRange DEF x
  <2>2. Target(u) \in Slots
    <3>1. lastTask(u).out # NotPipe => lastTask(u).out \in Nat
      BY <2>1 DEF Task
    <3> QED
      BY <2>1, <3>1 DEF Target
  <2>3. c1 \in [Slots -> SUBSET Proc]
    <3>1. Aside(u) => pids[u][from(u)] \subseteq Proc
      BY <2>1 DEF Aside, TypeOK
    <3>2. sh[u].child_processes \in [Slots -> SUBSET Proc] /\ Slot(u, 0) \in Slots
      BY <2>0, <2>1 DEF x
    <3> QED
      BY <2>2, <3>1, <3>2 DEF Moved
  <2>4. up1 \in [User -> Slots \cup {-1}]
    BY <2>0, <2>1, <2>2 DEF Aside
  <2>5. sh' = [sh EXCEPT ![u] = y]
    BY <1>0, <1>12 DEF Finish, x
  <2>6. "wait" \in ShellPlace /\ NoPipe \in 0 .. npipe
    BY <1>0 DEF ShellPlace, NoPipe
  <2> HIDE DEF up1, c1
  <2>7. y \in ShellRec(npipe) /\ y.pc = "wait" /\ SameLine(x, y)
    BY ONLY <1>0, <2>3, <2>4, <2>6 DEF ShellRec, SameLine, SameRing
  <2> HIDE DEF y
  <2>8. LineOf(y) /\ Unmarked(x, y)
    BY <1>0, <2>0, <2>7 DEF LineOf, InLine, Sending, SameLine, Unmarked, Marked
  <2> QED
    BY <1>1, <2>5, <2>7, <2>8 DEF SameLine
<1>13. CASE ClearEnv(u)
  <2> DEFINE p1 == IF Exits(u) THEN "left" ELSE "recv"
             u1 == [s \in User |-> IF s \in Due(u) THEN -1 ELSE x.unlink_pos[s]]
             r1 == [x.pipes EXCEPT ![Slot(u, 0)] = NoPipe]
             c1 == [x.child_processes EXCEPT ![Slot(u, 0)] = {}]
             n1 == NextPos(u)
             y  == [x EXCEPT !.pc = p1, !.line = <<>>, !.idx = 0, !.unlink_pos = u1,
                             !.pipes = r1, !.child_processes = c1, !.current_pos = n1]
  <2>1. sh' = [sh EXCEPT ![u] = y] /\ x.pc = "close"
    BY <1>13 DEF ClearEnv, Cleared, AllCleared, At, x
  <2>2. /\ x.child_processes \in [Slots -> SUBSET Proc] /\ x.unlink_pos \in [User -> Slots \cup {-1}]
        /\ x.pipes \in [Slots -> 0 .. npipe] /\ \A n \in Nat : Slot(u, n) \in Slots
    BY <1>0, SlotRange DEF ShellRec
  <2>3. /\ u1 \in [User -> Slots \cup {-1}] /\ r1 \in [Slots -> 0 .. npipe]
        /\ c1 \in [Slots -> SUBSET Proc] /\ n1 \in Slots /\ p1 \in ShellPlace /\ p1 \in {"left", "recv"}
    <3>1. u1 \in [User -> Slots \cup {-1}] /\ c1 \in [Slots -> SUBSET Proc]
      BY <2>2
    <3>2. r1 \in [Slots -> 0 .. npipe] /\ n1 \in Slots
      BY <1>0, <2>2 DEF NextPos, NoPipe
    <3>3. p1 \in ShellPlace /\ p1 \in {"left", "recv"}
      BY <1>p
    <3> QED
      BY <3>1, <3>2, <3>3
  <2>4. \A k \in Slots : r1[k] \in {x.pipes[k], NoPipe}
    BY <2>2
  <2> HIDE DEF u1, r1, c1, p1, n1
  <2>5. y \in ShellRec(npipe) /\ y.pc = p1 /\ y.last_pipe = x.last_pipe /\ y.pipes = r1
    BY <1>0, <2>3 DEF ShellRec
  <2> HIDE DEF y
  <2>6. LineOf(y) /\ Unmarked(x, y) /\ Kept(x, y)
    BY <2>1, <2>3, <2>4, <2>5 DEF LineOf, InLine, Sending, Clearing, Unmarked, Marked, Kept
  <2> QED
    BY <1>1, <2>1, <2>5, <2>6
<1> QED
  BY <1>2, <1>3, <1>4, <1>5, <1>6, <1>7, <1>8, <1>9, <1>10, <1>11, <1>12, <1>13
     DEF PlainStep, ClearsOne

\* A fork numbers pipes; the ring, the child and the shell know no others.
LEMMA ForkFrame ==
  ASSUME TypeOK, LineInv, NEW u \in User, ExecFork(u)
  PROVE  /\ npipe' \in Nat /\ npipe' > npipe /\ npipe' = made(u)
         /\ taken(u) \in -1 .. npipe
         /\ ring(u) \in [Slots -> 0 .. npipe']
         /\ \A k \in Slots : ring(u)[k] = sh[u].pipes[k] \/ ring(u)[k] > npipe
         /\ sh' \in [User -> ShellRec(npipe')]
         /\ Child(u) \in ProcRec(npipe')
         /\ nproc + 1 \in Proc
         /\ proc' = [proc EXCEPT ![nproc + 1] = Child(u)]
         /\ \A v \in User : v # u => sh'[v] = sh[v] /\ held'[v] = held[v]
         /\ sh'[u].last_pipe = NoPipe
         /\ \A k \in Slots : sh'[u].pipes[k] \in {ring(u)[k], NoPipe}
         /\ held'[u] = (held[u] \cup (npipe + 1 .. made(u))) \ ClosedByParent(u)
         /\ LineOf(sh'[u]) /\ Unmarked(sh[u], sh'[u])
<1> DEFINE x == sh[u]
<1>0. /\ sh \in [User -> ShellRec(npipe)] /\ npipe \in Nat /\ x \in ShellRec(npipe) /\ x.pc = "exec"
      /\ proc \in [Proc -> ProcRec(npipe)] /\ nproc \in 0 .. MaxFork /\ nproc < MaxFork
      /\ held \in [User -> SUBSET (1 .. npipe)]
  BY DEF TypeOK, ExecFork, At, Pipes
<1>1. /\ \A n \in Nat : Slot(u, n) \in Slots
      /\ x.current_pos \in Slots
  BY SlotRange
<1>2. /\ x.child_processes \in [Slots -> SUBSET Proc] /\ x.pipes \in [Slots -> 0 .. npipe]
      /\ x.last_pipe \in -1 .. npipe /\ x.idx \in Nat /\ x.userpipefd \in 0 .. npipe
  BY <1>0 DEF ShellRec
<1>3. task(u) \in Task /\ LineOf(x) /\ InLine(x)
  BY <1>0, LineFacts DEF LineInv, InLine
<1> HIDE DEF x
<1>4. npipe' = made(u) /\ made(u) \in {npipe + 1, npipe + 2} /\ (Lacks(u) => made(u) = npipe + 2)
  BY <1>0 DEF ExecFork, made
<1>5. npipe' \in Nat /\ npipe' > npipe /\ npipe + 1 <= npipe' /\ (Lacks(u) => npipe + 2 <= npipe')
  BY <1>0, <1>4
<1>6. taken(u) \in -1 .. npipe
  BY <1>0, <1>1, <1>2 DEF taken, x
<1>7. /\ ring(u) \in [Slots -> 0 .. npipe']
      /\ \A k \in Slots : ring(u)[k] = x.pipes[k] \/ ring(u)[k] > npipe
  <2>1. \A k \in Slots : ring(u)[k] \in {x.pipes[k], npipe + 1, npipe + 2} /\ (ring(u)[k] = npipe + 2 => Lacks(u) \/ ring(u)[k] = x.pipes[k])
    BY <1>0, <1>2 DEF ring, x
  <2>2. ring(u) = [k \in Slots |-> ring(u)[k]]
    BY DEF ring
  <2>3. ASSUME NEW k \in Slots
        PROVE  ring(u)[k] \in 0 .. npipe' /\ (ring(u)[k] = x.pipes[k] \/ ring(u)[k] > npipe)
    <3>1. x.pipes[k] \in 0 .. npipe
      BY <1>2
    <3> QED
      BY <1>0, <1>5, <2>1, <3>1
  <2> QED
    BY <2>2, <2>3
<1>8. x \in ShellRec(npipe')
  BY <1>0, <1>5, RecordsGrow
<1> DEFINE r1 == IF IsLast(u) THEN [ring(u) EXCEPT ![Slot(u, 0)] = NoPipe] ELSE ring(u)
           c1 == [x.child_processes EXCEPT ![Slot(u, 0)] = @ \cup {nproc + 1}]
           y  == [x EXCEPT !.pipes = r1, !.last_pipe = NoPipe, !.child_processes = c1]
<1>9. sh' = [sh EXCEPT ![u] = Next1(u, y)]
  BY DEF ExecFork, Forked, x
<1>10. nproc + 1 \in Proc
  BY <1>0, BoundAssumption DEF Proc
<1>11. r1 \in [Slots -> 0 .. npipe'] /\ \A k \in Slots : r1[k] \in {ring(u)[k], NoPipe}
  BY <1>1, <1>5, <1>7 DEF NoPipe
<1>12. c1 \in [Slots -> SUBSET Proc]
  BY <1>1, <1>2, <1>10
<1> HIDE DEF r1, c1
<1>13. y \in ShellRec(npipe') /\ y.last_pipe = NoPipe /\ y.line = x.line /\ y.pipes = r1 /\ y.pc = "exec" /\ y.idx = x.idx
  <2>1. NoPipe \in -1 .. npipe'
    BY <1>5 DEF NoPipe
  <2> QED
    BY ONLY <1>0, <1>8, <1>11, <1>12, <2>1 DEF ShellRec
<1> HIDE DEF y
<1>14. /\ Next1(u, y) \in ShellRec(npipe') /\ LineOf(Next1(u, y))
       /\ Next1(u, y).last_pipe = NoPipe /\ Next1(u, y).pipes = r1
       /\ Next1(u, y).pc \in {"exec", "finish"}
  <2>1. InLine(y) /\ LineOf(y) /\ y.line = line(u) /\ y.idx = sh[u].idx
    BY <1>0, <1>3, <1>13 DEF InLine, LineOf, Sending, Clearing, line, x
  <2>2. Next1(u, y) \in ShellRec(npipe') /\ SameRing(y, Next1(u, y))
        /\ Next1(u, y).pc \in {"exec", "finish"} /\ LineOf(Next1(u, y))
    BY <1>5, <1>13, <2>1, Nexts
  <2> QED
    BY <1>13, <2>2 DEF SameRing
<1>15. sh'[u] = Next1(u, y) /\ sh' \in [User -> ShellRec(npipe')] /\ \A v \in User : v # u => sh'[v] = sh[v]
  <2>1. sh \in [User -> ShellRec(npipe')]
    BY <1>0, <1>5, RecordsGrow
  <2> QED
    BY <1>9, <1>14, <2>1
<1>16. Child(u) \in ProcRec(npipe')
  <2>1. Stdout(u) \in 0 .. npipe'
    <3>1. task(u).out # NotPipe => Slot(u, task(u).out) \in Slots
      BY <1>1, <1>3 DEF Task
    <3> QED
      BY <1>0, <1>2, <1>5, <1>7, <3>1 DEF Stdout, x, NoPipe
  <2>2. (held[u] \cup (npipe + 1 .. made(u))) \subseteq 1 .. npipe'
    BY <1>0, <1>4, <1>5
  <2>3. task(u).reads \in BOOLEAN /\ (IF task(u).reads THEN 0 ELSE task(u).size) \in Nat
    BY <1>3 DEF Task
  <2>4. taken(u) \in -1 .. npipe'
    BY <1>0, <1>5, <1>6
  <2>5. (held[u] \cup (npipe + 1 .. made(u))) \ ({ring(u)[k] : k \in Slots} \cup {taken(u)}) \subseteq 1 .. npipe'
    BY <2>2
  <2> QED
    BY <2>1, <2>3, <2>4, <2>5 DEF Child, ProcRec
<1>17. held' = [held EXCEPT ![u] = (@ \cup (npipe + 1 .. made(u))) \ ClosedByParent(u)]
  BY DEF ExecFork
<1>18. proc' = [proc EXCEPT ![nproc + 1] = Child(u)]
  BY DEF ExecFork
<1>19. LineOf(sh'[u]) /\ Unmarked(sh[u], sh'[u])
  BY <1>0, <1>14, <1>15 DEF Unmarked, Marked, x
<1> QED
  BY <1>0, <1>4, <1>5, <1>6, <1>7, <1>10, <1>11, <1>14, <1>15, <1>16, <1>17, <1>18, <1>19 DEF x

\* The rest of the state keeps its type.
LEMMA TypeStep ==
  ASSUME TypeOK, LineInv, [Next]_vars
  PROVE  TypeOK'
<1>0. /\ npipe \in Nat /\ fifo \in [User -> [User -> MailRec(npipe)]] /\ file \in [User -> [User -> 0 .. npipe]]
      /\ pids \in [User -> [User -> SUBSET Proc]] /\ proc \in [Proc -> ProcRec(npipe)]
      /\ held \in [User -> SUBSET (1 .. npipe)] /\ buf \in [1 .. npipe -> 0 .. Capacity]
      /\ NoFifo \in MailRec(npipe) /\ NoPipe \in 0 .. npipe
  BY DEF TypeOK, NoFifo, MailRec, NoPipe, Pipes
<1>r. ASSUME NEW x \in MailRec(npipe), NEW q \in 0 .. npipe
      PROVE  /\ [x EXCEPT !.name = TRUE] \in MailRec(npipe) /\ [x EXCEPT !.name = FALSE] \in MailRec(npipe)
             /\ [x EXCEPT !.fd = q] \in MailRec(npipe)
  BY DEF MailRec
<1>k. \A p \in Proc, st \in {"done", "failed", "killed"} : [proc[p] EXCEPT !.st = st] \in ProcRec(npipe)
  <2>1. ASSUME NEW x \in ProcRec(npipe), NEW st \in {"done", "failed", "killed"}
        PROVE  [x EXCEPT !.st = st] \in ProcRec(npipe)
    BY DEF ProcRec
  <2> QED
    BY <1>0, <2>1
<1>t. Capacity \in Nat \ {0}
  BY BoundAssumption
<1>s. ASSUME NEW u \in User, PlainStep(u)
      PROVE  sh' \in [User -> ShellRec(npipe)]
  BY <1>s, OwnStep
<1>1. ASSUME NEW u \in User, \/ FindReceiver(u) \/ MakeFails(u) \/ Open(u) \/ ExecBuiltin(u) \/ Leave(u) \/ Login(u)
                             \/ ReadLine(u) \/ ExitDone(u) \/ EndLine(u)
      PROVE  TypeOK'
  <2>1. sh' \in [User -> ShellRec(npipe)]
    BY <1>1, <1>s DEF PlainStep
  <2>2. CASE Login(u)
    <3>1. nlogin' \in 0 .. MaxLogin
      BY <2>2, BoundAssumption DEF Login, TypeOK
    <3>2. online' \subseteq User
      BY <2>2 DEF Login, TypeOK
    <3> QED
      BY <2>1, <2>2, <3>1, <3>2 DEF Login, TypeOK, kernel, Pipes
  <2>3. CASE ReadLine(u)
    <3>1. nline' \in 0 .. MaxLine
      BY <2>3, BoundAssumption DEF ReadLine, TypeOK
    <3> QED
      BY <2>1, <2>3, <3>1 DEF ReadLine, TypeOK, shared, kernel, Pipes
  <2>4. CASE UNCHANGED <<shared, held, usr2, kernel, counts>>
    BY <2>1, <2>4 DEF TypeOK, shared, kernel, counts, Pipes
  <2> QED
    BY <1>1, <2>2, <2>3, <2>4 DEF FindReceiver, MakeFails, Open, ExecBuiltin, Leave, ExitDone, EndLine
<1>2. ASSUME NEW u \in User, MakeFifo(u)
      PROVE  TypeOK'
  <2>0. /\ npipe' = npipe + 1 /\ npipe' \in Nat /\ npipe <= npipe' /\ to(u) \in User
        /\ 1 .. npipe \subseteq 1 .. npipe' /\ 0 .. npipe \subseteq 0 .. npipe' /\ npipe + 1 \in 1 .. npipe'
    <3>1. to(u) \in User
      BY <1>2, Receiver
    <3>2. npipe' = npipe + 1
      BY <1>2 DEF MakeFifo
    <3> QED
      BY <1>0, <3>1, <3>2
  <2>1. ShellRec(npipe) \subseteq ShellRec(npipe') /\ MailRec(npipe) \subseteq MailRec(npipe')
        /\ ProcRec(npipe) \subseteq ProcRec(npipe')
    BY <1>0, <2>0, RecordsGrow
  <2>2. sh' \in [User -> ShellRec(npipe')]
    <3>1. sh' \in [User -> ShellRec(npipe)]
      BY <1>2, <1>s DEF PlainStep
    <3> QED
      BY <2>1, <3>1
  <2>3. file' \in [User -> [User -> 0 .. npipe']]
    <3>1. file \in [User -> [User -> 0 .. npipe']] /\ npipe + 1 \in 0 .. npipe'
      BY <1>0, <2>0, SMTT(30)
    <3>2. file' = [file EXCEPT ![u][to(u)] = npipe + 1]
      BY <1>2 DEF MakeFifo
    <3> QED
      BY <2>0, <3>1, <3>2
  <2>4. fifo' \in [User -> [User -> MailRec(npipe')]] /\ proc' \in [Proc -> ProcRec(npipe')]
        /\ held' \in [User -> SUBSET (1 .. npipe')]
    BY <1>0, <1>2, <2>0, <2>1, SMTT(30) DEF MakeFifo
  <2>5. fifos' \subseteq 1 .. npipe'
    BY <1>2, <2>0 DEF MakeFifo, TypeOK, Pipes
  <2>6. buf' \in [1 .. npipe' -> 0 .. Capacity]
    <3>1. buf' = Append(buf, 0) /\ 0 \in 0 .. Capacity
      BY <1>2, <1>t DEF MakeFifo
    <3> QED
      BY <1>0, <2>0, <3>1, AppendNext
  <2> QED
    BY <1>2, <2>0, <2>2, <2>3, <2>4, <2>5, <2>6 DEF MakeFifo, TypeOK, counts, Pipes
<1>n. ASSUME NEW u \in User, NoteName(u)
      PROVE  TypeOK'
  <2>1. sh' \in [User -> ShellRec(npipe)] /\ to(u) \in User
    BY <1>n, <1>s, Receiver DEF PlainStep
  <2>2. fifo' \in [User -> [User -> MailRec(npipe)]]
    <3>1. fifo' = [fifo EXCEPT ![to(u)] = [fifo[to(u)] EXCEPT ![u] = [fifo[to(u)][u] EXCEPT !.name = TRUE]]]
      BY <1>n DEF NoteName
    <3>2. [fifo[to(u)][u] EXCEPT !.name = TRUE] \in MailRec(npipe)
      <4>1. fifo[to(u)][u] \in MailRec(npipe) /\ NoPipe \in 0 .. npipe
        BY <1>0, <2>1
      <4> QED
        BY <1>r, <4>1
    <3> QED
      BY <1>0, <2>1, <3>1, <3>2
  <2> QED
    BY <1>n, <2>1, <2>2 DEF NoteName, TypeOK, kernel, counts, Pipes
<1>3. ASSUME NEW u \in User, Signal(u)
      PROVE  TypeOK'
  <2>1. sh' \in [User -> ShellRec(npipe)] /\ to(u) \in User
    BY <1>3, <1>s, Receiver DEF PlainStep
  <2>2. proc' \in [Proc -> ProcRec(npipe)]
    <3>1. proc' = [p \in Proc |-> IF to(u) \notin online /\ Running(p) THEN [proc[p] EXCEPT !.st = "killed"] ELSE proc[p]]
      BY <1>3 DEF Signal
    <3> QED
      BY <1>0, <1>k, <3>1
  <2>3. usr2' \subseteq User /\ up' \in BOOLEAN
    BY <1>3, <2>1 DEF Signal, TypeOK, Hit
  <2> QED
    BY <1>3, <2>1, <2>2, <2>3, SMTT(40) DEF Signal, TypeOK, counts, Pipes
<1>4. ASSUME NEW u \in User, OpenFifoRead(u)
      PROVE  TypeOK'
  <2>1. sh' \in [User -> ShellRec(npipe)]
    BY <1>4, <1>s DEF PlainStep
  <2>2. fifo' \in [User -> [User -> MailRec(npipe)]]
    <3>1. fifo' = [fifo EXCEPT ![u] = [s \in User |-> IF s \in Fresh(u) THEN [fifo[u][s] EXCEPT !.fd = file[s][u]] ELSE fifo[u][s]]]
      BY <1>0, <1>4 DEF OpenFifoRead
    <3>2. ASSUME NEW s \in User
          PROVE  [fifo[u][s] EXCEPT !.fd = file[s][u]] \in MailRec(npipe) /\ fifo[u][s] \in MailRec(npipe)
      <4>1. fifo[u][s] \in MailRec(npipe) /\ file[s][u] \in 0 .. npipe
        BY <1>0
      <4> QED
        BY <1>r, <4>1
    <3> QED
      BY <1>0, <3>1, <3>2
  <2>3. held' \in [User -> SUBSET (1 .. npipe)]
    <3>1. {file[s][u] : s \in Fresh(u)} \subseteq 1 .. npipe
      BY <1>0 DEF Fresh, NoPipe
    <3> QED
      BY <1>0, <1>4, <3>1 DEF OpenFifoRead
  <2> QED
    BY <1>4, <2>1, <2>2, <2>3 DEF OpenFifoRead, TypeOK, kernel, counts, Pipes
<1>c. ASSUME NEW u \in User, NEW s \in User, CloseFd(u, s) \/ Unlink(u, s) \/ Nameless(u, s) \/ Unname(u, s)
      PROVE  TypeOK'
  <2>0. sh' \in [User -> ShellRec(npipe)]
    BY <1>c, <1>s DEF PlainStep
  <2>f. fifo[u][s] \in MailRec(npipe) /\ [fifo[u][s] EXCEPT !.name = FALSE] \in MailRec(npipe)
        /\ [fifo[u][s] EXCEPT !.fd = NoPipe] \in MailRec(npipe)
    <3>1. fifo[u][s] \in MailRec(npipe)
      BY <1>0
    <3> QED
      BY <1>0, <1>r, <3>1
  <2>p. NextFifo(u, s) => pids' \in [User -> [User -> SUBSET Proc]]
    BY <1>0 DEF NextFifo
  <2>1. CASE CloseFd(u, s)
    <3>1. fifo' = [fifo EXCEPT ![u] = [fifo[u] EXCEPT ![s] = [fifo[u][s] EXCEPT !.fd = NoPipe]]]
      BY <1>0, <2>1 DEF CloseFd
    <3>2. fifo' \in [User -> [User -> MailRec(npipe)]]
      BY <1>0, <2>f, <3>1
    <3>3. held' \in [User -> SUBSET (1 .. npipe)]
      BY <1>0, <2>1 DEF CloseFd
    <3> QED
      BY <2>0, <2>1, <3>2, <3>3 DEF CloseFd, TypeOK, kernel, counts, Pipes
  <2>2. CASE Unlink(u, s)
    <3>1. file' \in [User -> [User -> 0 .. npipe]]
      BY <1>0, <2>2 DEF Unlink, Unlinked
    <3> QED
      BY <2>0, <2>2, <3>1 DEF Unlink, TypeOK, kernel, counts, Pipes
  <2>3. CASE Nameless(u, s)
    BY <2>0, <2>3, <2>p DEF Nameless, TypeOK, kernel, counts, Pipes
  <2>4. CASE Unname(u, s)
    <3>1. fifo' = [fifo EXCEPT ![u] = [fifo[u] EXCEPT ![s] = [fifo[u][s] EXCEPT !.name = FALSE]]]
      BY <1>0, <2>4 DEF Unname
    <3>2. fifo' \in [User -> [User -> MailRec(npipe)]]
      BY <1>0, <2>f, <3>1
    <3> QED
      BY <2>0, <2>4, <2>p, <3>2 DEF Unname, TypeOK, kernel, counts, Pipes
  <2> QED
    BY <1>c, <2>1, <2>2, <2>3, <2>4
<1>5. ASSUME NEW u \in User, ExecExit(u)
      PROVE  TypeOK'
  <2>1. sh' \in [User -> ShellRec(npipe)] /\ online' \subseteq User
    BY <1>5, <1>s DEF PlainStep, ExecExit, TypeOK
  <2> QED
    BY <1>5, <2>1 DEF ExecExit, TypeOK, kernel, counts, Pipes
<1>6. ASSUME NEW u \in User, Destroy(u)
      PROVE  TypeOK'
  <2>1. sh' \in [User -> ShellRec(npipe)] /\ online' \subseteq User
    BY <1>6, <1>s DEF PlainStep, Destroy, TypeOK
  <2>2. proc' \in [Proc -> ProcRec(npipe)]
    <3>1. proc' = [p \in Proc |-> IF Running(p) /\ \E k \in Slots : p \in sh[u].child_processes[k]
                              THEN [proc[p] EXCEPT !.st = "killed"] ELSE proc[p]]
      BY <1>6 DEF Destroy
    <3> QED
      BY <1>0, <1>k, <3>1
  <2> QED
    BY <1>6, <2>1, <2>2 DEF Destroy, TypeOK, counts, Pipes
<1>g. ASSUME NEW u \in User, Destroyed(u) \/ Killed(u)
      PROVE  TypeOK'
  <2>1. sh' \in [User -> ShellRec(npipe)]
    BY <1>g, <1>s DEF PlainStep
  <2>2. held' \in [User -> SUBSET (1 .. npipe)] /\ usr2' \subseteq User
    BY <1>0, <1>g DEF Destroyed, Killed, Gone, TypeOK
  <2> QED
    BY <1>g, <2>1, <2>2 DEF Destroyed, Killed, TypeOK, shared, kernel, counts, Pipes
<1>7. ASSUME NEW u \in User, ExecFork(u)
      PROVE  TypeOK'
  <2>0. /\ npipe' \in Nat /\ npipe <= npipe' /\ npipe' = made(u)
        /\ sh' \in [User -> ShellRec(npipe')] /\ Child(u) \in ProcRec(npipe')
        /\ nproc + 1 \in Proc /\ proc' = [proc EXCEPT ![nproc + 1] = Child(u)]
    BY <1>0, <1>7, ForkFrame
  <2>1. /\ MailRec(npipe) \subseteq MailRec(npipe') /\ ProcRec(npipe) \subseteq ProcRec(npipe')
        /\ 0 .. npipe \subseteq 0 .. npipe' /\ 1 .. npipe \subseteq 1 .. npipe'
    BY <1>0, <2>0, RecordsGrow
  <2>2. proc' \in [Proc -> ProcRec(npipe')]
    BY <1>0, <2>0, <2>1
  <2>3. held' \in [User -> SUBSET (1 .. npipe')]
    <3>1. held' = [held EXCEPT ![u] = (held[u] \cup (npipe + 1 .. made(u))) \ ClosedByParent(u)]
      BY <1>7 DEF ExecFork
    <3>2. npipe + 1 .. made(u) \subseteq 1 .. npipe'
      BY <1>0, <2>0
    <3>3. (held[u] \cup (npipe + 1 .. made(u))) \ ClosedByParent(u) \subseteq 1 .. npipe'
      BY <1>0, <2>1, <3>2
    <3> QED
      BY <1>0, <2>1, <3>1, <3>3
  <2>4. buf' \in [1 .. npipe' -> 0 .. Capacity]
    <3>1. buf' = [q \in 1 .. made(u) |-> IF q \in Pipes THEN buf[q] ELSE 0] /\ 0 \in 0 .. Capacity
      BY <1>7, <1>t DEF ExecFork
    <3> QED
      BY <1>0, <2>0, <3>1 DEF Pipes
  <2>5. /\ fifo' \in [User -> [User -> MailRec(npipe')]] /\ file' \in [User -> [User -> 0 .. npipe']]
        /\ fifos' \subseteq 1 .. npipe'
    <3>1. fifo' = fifo /\ file' = file /\ fifos' = fifos
      BY <1>7 DEF ExecFork, shared
    <3>2. fifos \subseteq 1 .. npipe
      BY DEF TypeOK, Pipes
    <3>3. fifo' \in [User -> [User -> MailRec(npipe')]]
      BY ONLY <1>0, <2>1, <3>1
    <3>4. file' \in [User -> [User -> 0 .. npipe']]
      BY ONLY <1>0, <2>1, <3>1
    <3> QED
      BY <2>1, <3>1, <3>2, <3>3, <3>4
  <2>6. nproc' \in 0 .. MaxFork
    BY <1>7, BoundAssumption DEF ExecFork, TypeOK
  <2> QED
    BY <1>7, <2>0, <2>2, <2>3, <2>4, <2>5, <2>6 DEF ExecFork, shared, TypeOK, counts, Pipes
<1>8. ASSUME NEW u \in User, Finish(u)
      PROVE  TypeOK'
  <2>1. sh' \in [User -> ShellRec(npipe)]
    BY <1>8, <1>s DEF PlainStep
  <2>2. pids' \in [User -> [User -> SUBSET Proc]]
    <3>1. sh[u].child_processes[Slot(u, 0)] \subseteq Proc
      BY SlotRange DEF ShellRec
    <3>2. pids' = [r \in User |-> [s \in User |->
                IF Aside(u) /\ r = u /\ s = from(u) THEN {}
                ELSE IF r = to(u) /\ s = u /\ ~sh[u].outError THEN pids[r][s] \cup sh[u].child_processes[Slot(u, 0)]
                ELSE pids[r][s]]]
      BY <1>8 DEF Finish
    <3>3. ASSUME NEW r \in User, NEW s \in User
          PROVE  (IF Aside(u) /\ r = u /\ s = from(u) THEN {}
                  ELSE IF r = to(u) /\ s = u /\ ~sh[u].outError THEN pids[r][s] \cup sh[u].child_processes[Slot(u, 0)]
                  ELSE pids[r][s]) \in SUBSET Proc
      BY <1>0, <3>1
    <3> QED
      BY <3>2, <3>3
  <2> QED
    BY <1>8, <2>1, <2>2 DEF Finish, TypeOK, kernel, counts, Pipes
<1>9. ASSUME NEW u \in User, ClearEnv(u)
      PROVE  TypeOK'
  <2>1. sh' \in [User -> ShellRec(npipe)]
    BY <1>9, <1>s DEF PlainStep
  <2>2. held' \in [User -> SUBSET (1 .. npipe)]
    BY <1>0, <1>9 DEF ClearEnv
  <2> QED
    BY <1>9, <2>1, <2>2 DEF ClearEnv, TypeOK, shared, kernel, counts, Pipes
<1>10. ASSUME NEW p \in Proc, ProcStep(p)
       PROVE  TypeOK'
  <2>1. CASE Write(p)
    <3> DEFINE q == proc[p].out
    <3>0. proc[p] \in ProcRec(npipe)
      BY <1>0
    <3>1. CASE q \in Pipes /\ ~HasReader(q)
      BY <1>0, <1>k, <2>1, <3>1 DEF Write, TypeOK, shared, counts, Pipes
    <3>2. CASE ~(q \in Pipes /\ ~HasReader(q))
      <4>1. proc' = [proc EXCEPT ![p] = [proc[p] EXCEPT !.left = @ - 1]] /\ proc[p].left > 0
            /\ buf' = (IF q \in Pipes THEN [buf EXCEPT ![q] = @ + 1] ELSE buf)
            /\ (q \in Pipes => buf[q] < Capacity)
        BY <2>1, <3>2 DEF Write, HasRoom
      <4>2. [proc[p] EXCEPT !.left = @ - 1] \in ProcRec(npipe)
        BY <3>0, <4>1 DEF ProcRec
      <4>3. proc' \in [Proc -> ProcRec(npipe)]
        BY <1>0, <4>1, <4>2
      <4>4. buf' \in [1 .. npipe -> 0 .. Capacity]
        <5>1. CASE q \in Pipes
          <6>1. buf[q] + 1 \in 0 .. Capacity
            BY <1>0, <1>t, <4>1, <5>1 DEF Pipes
          <6> QED
            BY <1>0, <4>1, <5>1, <6>1 DEF Pipes
        <5> QED
          BY <1>0, <4>1, <5>1
      <4> QED
        BY <2>1, <4>3, <4>4 DEF Write, TypeOK, shared, counts, Pipes
    <3> QED
      BY <3>1, <3>2
  <2>2. CASE Copy(p)
    <3> DEFINE i == proc[p].in
               q == proc[p].out
               b == [buf EXCEPT ![i] = @ - 1]
    <3>1. i \in Pipes /\ buf[i] > 0 /\ HasRoom(q)
          /\ buf' = IF q \in Pipes /\ HasReader(q) THEN [b EXCEPT ![q] = @ + 1] ELSE b
      BY <2>2 DEF Copy
    <3>2. b \in [1 .. npipe -> 0 .. Capacity] /\ (q \in Pipes => b[q] <= buf[q])
      <4>1. buf[i] - 1 \in 0 .. Capacity
        <5>1. buf[i] \in 0 .. Capacity
          BY <1>0, <3>1 DEF Pipes
        <5> QED
          BY <1>t, <3>1, <5>1
      <4> QED
        BY <1>0, <3>1, <4>1 DEF Pipes
    <3> HIDE DEF b, i, q
    <3>3. buf' \in [1 .. npipe -> 0 .. Capacity]
      <4>1. CASE q \in Pipes /\ HasReader(q)
        <5>1. q \in 1 .. npipe /\ buf[q] < Capacity /\ buf[q] \in 0 .. Capacity /\ b[q] \in 0 .. Capacity
          BY <1>0, <3>1, <3>2, <4>1 DEF HasRoom, Pipes
        <5>2. b[q] + 1 \in 0 .. Capacity
          BY <1>t, <3>2, <4>1, <5>1
        <5> QED
          BY <3>1, <3>2, <4>1, <5>1, <5>2
      <4> QED
        BY <3>1, <3>2, <4>1
    <3> QED
      BY <2>2, <3>3 DEF Copy, TypeOK, shared, counts, Pipes
  <2>3. CASE End(p)
    <3>1. proc' = [proc EXCEPT ![p] = [proc[p] EXCEPT !.st = IF Fails(p) THEN "failed" ELSE "done"]]
      BY <2>3 DEF End
    <3>2. proc' \in [Proc -> ProcRec(npipe)]
      BY <1>0, <1>k, <3>1
    <3> QED
      BY <2>3, <3>2 DEF End, TypeOK, shared, counts, Pipes
  <2> QED
    BY <1>10, <2>1, <2>2, <2>3 DEF ProcStep
<1>11. CASE UNCHANGED vars
  BY <1>11 DEF vars, shared, kernel, counts, TypeOK, Pipes
<1>12. ASSUME NEW u \in User, UserStep(u)
       PROVE  TypeOK'
  BY <1>1, <1>2, <1>n, <1>3, <1>4, <1>c, <1>5, <1>6, <1>g, <1>7, <1>8, <1>9, <1>12 DEF UserStep, ShellStep, Clears
<1> QED
  BY <1>10, <1>11, <1>12 DEF Next, UserStep

-----------------------------------------------------------------------------
(* Lines, and the marks of a shell: what it has pending, or clears.        *)

\* What a step of one shell does to any: its line is one, and its marks stay unless the
\* step is one of those that make, name and clear FIFOs, or the shell is killed.
LEMMA StepFacts ==
  ASSUME TypeOK, LineInv, NEW u \in User, UserStep(u), NEW v \in User
  PROVE  /\ LineOf(sh'[v])
         /\ v # u => sh'[v] \in Woken(sh[v])
         /\ v # u \/ ~Marking(u) => Unmarked(sh[v], sh'[v])
<1>0. npipe \in Nat /\ sh[v] \in ShellRec(npipe) /\ LineOf(sh[v])
  BY DEF TypeOK, LineInv
<1>1. ASSUME sh'[v] \in Woken(sh[v])
      PROVE  LineOf(sh'[v]) /\ Unmarked(sh[v], sh'[v])
  <2>1. SameJob(sh[v], sh'[v]) /\ (sh'[v].pc = sh[v].pc \/ (sh[v].pc = "blocked" /\ sh'[v].pc \in {"open", "exec"}))
    BY <1>0, <1>1, WaitFacts
  <2> QED
    BY <1>0, <2>1 DEF LineOf, InLine, Sending, Clearing, Unmarked, Marked, SameJob, SameLine
<1>2. CASE ExecFork(u)
  <2>1. LineOf(sh'[u]) /\ Unmarked(sh[u], sh'[u]) /\ \A w \in User : w # u => sh'[w] = sh[w]
    BY <1>2, ForkFrame
  <2> QED
    BY <1>1, <2>1 DEF Woken
<1>3. CASE PlainStep(u)
  BY <1>1, <1>3, OwnStep
<1> QED
  BY <1>2, <1>3 DEF UserStep, ShellStep, Clears, PlainStep

\* So shells in a line have one.
LEMMA LineStep ==
  ASSUME TypeOK, LineInv, [Next]_vars
  PROVE  LineInv'
<1>1. CASE UNCHANGED sh
  BY <1>1 DEF LineInv
<1>2. ASSUME NEW u \in User, UserStep(u)
      PROVE  LineInv'
  BY <1>2, StepFacts DEF LineInv
<1> QED
  BY <1>1, <1>2 DEF Next, UserStep, vars, ProcStep, Write, Copy, End

\* The marks of a shell whose place, line and list are as before, or which has none.
LEMMA MarksStay ==
  ASSUME NEW v \in User, Unmarked(sh[v], sh'[v])
  PROVE  /\ At(v, "killed")' <=> At(v, "killed")
         /\ \A s \in User : /\ Pending(v, s)' <=> Pending(v, s)
                            /\ Unlinking(v, s)' <=> Unlinking(v, s)
                            /\ Unnaming(v, s)' <=> Unnaming(v, s)
<1>1. CASE sh[v].pc \notin Marked /\ sh'[v].pc \notin Marked
  BY <1>1 DEF Marked, At, Pending, Unlinking, Unnaming
<1>2. CASE sh'[v].pc = sh[v].pc /\ sh'[v].line = sh[v].line /\ sh'[v].todo = sh[v].todo
  BY <1>2 DEF At, Pending, Unlinking, Unnaming, First, to, lastTask, line
<1> QED
  BY <1>1, <1>2 DEF Unmarked

\* One FIFO is cleared at a time.
LEMMA OnlyFirst ==
  ASSUME NEW u \in User, NEW s \in User, NEW t \in User, First(u, s), First(u, t)
  PROVE  s = t
<1>1. s \in Nat /\ t \in Nat /\ s <= t /\ t <= s
  BY BoundAssumption DEF First
<1> QED
  BY <1>1

\* A step that leaves all marks, the entries and the paths leaves them in agreement.
LEMMA MailSame ==
  ASSUME MailInv, NEW s \in User, NEW r \in User, Unmarked(sh[s], sh'[s]), Unmarked(sh[r], sh'[r]),
         fifo'[r][s] = fifo[r][s], file'[s][r] = file[s][r]
  PROVE  MailAt(s, r)'
<1>1. MailAt(s, r)
  BY DEF MailInv
<1>2. /\ Pending(s, r)' <=> Pending(s, r)
      /\ At(s, "killed")' <=> At(s, "killed")
      /\ At(r, "killed")' <=> At(r, "killed")
      /\ Unlinking(r, s)' <=> Unlinking(r, s)
      /\ Unnaming(r, s)' <=> Unnaming(r, s)
  BY MarksStay
<1> QED
  BY <1>1, <1>2 DEF MailAt, MailOf

-----------------------------------------------------------------------------
(* The path and the name in the receiver's entry.                          *)

LEMMA MailMade ==
  ASSUME TypeOK, LineInv, MailInv, NEW u \in User, MakeFifo(u), Undisturbed
  PROVE  MailInv'
<1>0. /\ npipe \in Nat /\ file \in [User -> [User -> 0 .. npipe]] /\ sh \in [User -> ShellRec(npipe)]
  BY DEF TypeOK
<1>1. /\ sh[u].pc = "mkfifo" /\ to(u) \in User /\ file[u][to(u)] = NoPipe /\ fifo' = fifo
      /\ file' = [file EXCEPT ![u][to(u)] = npipe + 1] /\ ~At(to(u), "unname")
  BY Receiver DEF MakeFifo, At, Undisturbed
<1>2. sh' = [sh EXCEPT ![u] = Placed(sh[u], "name")]
  BY PlaceSteps
<1>3. sh'[u].pc = "name" /\ sh'[u].line = sh[u].line
  <2>1. "name" \in ShellPlace /\ sh[u] \in ShellRec(npipe)
    BY <1>0 DEF ShellPlace
  <2> QED
    BY <1>0, <1>2, <2>1, PlacedFacts DEF SameJob, SameLine
<1>4. \A v \in User : v # u => Unmarked(sh[v], sh'[v])
  BY <1>0, <1>2 DEF Unmarked
<1>5. /\ \A r \in User : ~Pending(u, r) /\ (Pending(u, r)' <=> r = to(u))
      /\ ~At(u, "killed") /\ ~At(u, "killed")'
      /\ \A s \in User : ~Unlinking(u, s) /\ ~Unlinking(u, s)' /\ ~Unnaming(u, s) /\ ~Unnaming(u, s)'
  BY <1>1, <1>3 DEF Pending, Unlinking, Unnaming, At, to, lastTask, line
<1>6. ASSUME NEW s \in User, NEW r \in User
      PROVE  MailAt(s, r)'
  <2>0. MailAt(s, r)
    BY DEF MailInv
  <2>1. /\ At(s, "killed")' <=> At(s, "killed")
        /\ At(r, "killed")' <=> At(r, "killed")
        /\ Unlinking(r, s)' <=> Unlinking(r, s)
        /\ Unnaming(r, s)' <=> Unnaming(r, s)
    BY <1>4, <1>5, MarksStay
  <2>2. CASE s = u /\ r = to(u)
    <3>1. file'[s][r] = npipe + 1 /\ npipe + 1 # NoPipe
      BY <1>0, <1>1, <2>2 DEF NoPipe
    <3>2. ~Unnaming(r, s) /\ Pending(s, r)' /\ file[s][r] = NoPipe
      BY <1>1, <1>5, <2>2 DEF Unnaming
    <3> QED
      BY <1>1, <2>0, <2>1, <3>1, <3>2 DEF MailAt, MailOf
  <2>3. CASE ~(s = u /\ r = to(u))
    <3>1. file'[s][r] = file[s][r]
      BY <1>0, <1>1, <2>3
    <3>2. Pending(s, r)' <=> Pending(s, r)
      BY <1>4, <1>5, <2>3, MarksStay
    <3> QED
      BY <1>1, <2>0, <2>1, <3>1, <3>2 DEF MailAt, MailOf
  <2> QED
    BY <2>2, <2>3
<1> QED
  BY <1>6 DEF MailInv

LEMMA MailNamed ==
  ASSUME TypeOK, LineInv, MailInv, NEW u \in User, NoteName(u), Undisturbed
  PROVE  MailInv'
<1>0. /\ npipe \in Nat /\ fifo \in [User -> [User -> MailRec(npipe)]] /\ sh \in [User -> ShellRec(npipe)]
  BY DEF TypeOK
<1>1. /\ sh[u].pc = "name" /\ to(u) \in User /\ file' = file /\ ~At(to(u), "unname")
      /\ fifo' = [fifo EXCEPT ![to(u)] = [fifo[to(u)] EXCEPT ![u] = [fifo[to(u)][u] EXCEPT !.name = TRUE]]]
  BY Receiver DEF NoteName, At, Undisturbed
<1>2. sh' = [sh EXCEPT ![u] = Placed(sh[u], "kill")]
  BY PlaceSteps
<1>3. sh'[u].pc = "kill"
  <2>1. "kill" \in ShellPlace /\ sh[u] \in ShellRec(npipe)
    BY <1>0 DEF ShellPlace
  <2> QED
    BY <1>0, <1>2, <2>1, PlacedFacts
<1>4. \A v \in User : v # u => Unmarked(sh[v], sh'[v])
  BY <1>0, <1>2 DEF Unmarked
<1>5. /\ \A r \in User : ~Pending(u, r)' /\ (Pending(u, r) <=> r = to(u))
      /\ ~At(u, "killed") /\ ~At(u, "killed")'
      /\ \A s \in User : ~Unlinking(u, s) /\ ~Unlinking(u, s)' /\ ~Unnaming(u, s) /\ ~Unnaming(u, s)'
  BY <1>1, <1>3 DEF Pending, Unlinking, Unnaming, At
<1>6. ASSUME NEW s \in User, NEW r \in User
      PROVE  MailAt(s, r)'
  <2>0. MailAt(s, r)
    BY DEF MailInv
  <2>1. /\ At(s, "killed")' <=> At(s, "killed")
        /\ At(r, "killed")' <=> At(r, "killed")
        /\ Unlinking(r, s)' <=> Unlinking(r, s)
        /\ Unnaming(r, s)' <=> Unnaming(r, s)
    BY <1>4, <1>5, MarksStay
  <2>2. CASE s = u /\ r = to(u)
    <3>1. fifo'[r][s] = [fifo[r][s] EXCEPT !.name = TRUE]
      BY <1>0, <1>1, <2>2
    <3>2. fifo'[r][s].name /\ fifo'[r][s].fd = fifo[r][s].fd
      BY <1>0, <3>1 DEF MailRec
    <3>3. ~Unnaming(r, s) /\ Pending(s, r) /\ ~Pending(s, r)'
      BY <1>1, <1>5, <2>2 DEF Unnaming
    <3> QED
      BY <1>1, <2>0, <2>1, <3>2, <3>3 DEF MailAt, MailOf
  <2>3. CASE ~(s = u /\ r = to(u))
    <3>1. fifo'[r][s] = fifo[r][s]
      BY <1>0, <1>1, <2>3
    <3>2. Pending(s, r)' <=> Pending(s, r)
      BY <1>4, <1>5, <2>3, MarksStay
    <3> QED
      BY <1>1, <2>0, <2>1, <3>1, <3>2 DEF MailAt, MailOf
  <2> QED
    BY <2>2, <2>3
<1> QED
  BY <1>6 DEF MailInv

\* What a handler opens is noted with its name; it is not one that is being cleared.
LEMMA MailOpened ==
  ASSUME TypeOK, LineInv, MailInv, NEW u \in User, OpenFifoRead(u), Undisturbed
  PROVE  MailInv'
<1>0. /\ npipe \in Nat /\ fifo \in [User -> [User -> MailRec(npipe)]] /\ sh \in [User -> ShellRec(npipe)]
  BY DEF TypeOK
<1>1. /\ file' = file /\ ~At(u, "unlink")
      /\ fifo' = [fifo EXCEPT ![u] = [s \in User |-> IF s \in Fresh(u) THEN [fifo[u][s] EXCEPT !.fd = file[s][u]] ELSE fifo[u][s]]]
  BY <1>0 DEF OpenFifoRead, Undisturbed
<1>2. ASSUME NEW v \in User
      PROVE  Unmarked(sh[v], sh'[v])
  <2>1. sh'[v] \in Woken(sh[v])
    BY DEF OpenFifoRead, Woken
  <2>2. SameJob(sh[v], sh'[v]) /\ (sh'[v].pc = sh[v].pc \/ (sh[v].pc = "blocked" /\ sh'[v].pc \in {"open", "exec"}))
    BY <1>0, <2>1, WaitFacts
  <2> QED
    BY <2>2 DEF Unmarked, Marked, SameJob, SameLine
<1>3. ASSUME NEW s \in User, NEW r \in User
      PROVE  MailAt(s, r)'
  <2>1. CASE r = u /\ s \in Fresh(u)
    <3>0. MailAt(s, r)
      BY DEF MailInv
    <3>1. fifo'[r][s] = [fifo[r][s] EXCEPT !.fd = file[s][r]] /\ fifo[r][s].name /\ file[s][r] # NoPipe
      BY <1>0, <1>1, <2>1 DEF Fresh
    <3>2. fifo'[r][s].name = fifo[r][s].name /\ fifo'[r][s].fd = file[s][r]
      <4>1. fifo[r][s] \in MailRec(npipe)
        BY <1>0
      <4> QED
        BY <3>1, <4>1 DEF MailRec
    <3>3. /\ Pending(s, r)' <=> Pending(s, r)
          /\ At(s, "killed")' <=> At(s, "killed")
          /\ At(r, "killed")' <=> At(r, "killed")
          /\ Unlinking(r, s)' <=> Unlinking(r, s)
          /\ Unnaming(r, s)' <=> Unnaming(r, s)
          /\ ~Unlinking(r, s)
      BY <1>1, <1>2, <2>1, MarksStay DEF Unlinking
    <3> QED
      BY <1>1, <3>0, <3>1, <3>2, <3>3 DEF MailAt, MailOf
  <2>2. CASE ~(r = u /\ s \in Fresh(u))
    <3>1. fifo'[r][s] = fifo[r][s]
      BY <1>0, <1>1, <2>2
    <3> QED
      BY <1>1, <1>2, <3>1, MailSame
  <2> QED
    BY <2>1, <2>2
<1> QED
  BY <1>3 DEF MailInv

\* A FIFO that is being cleared loses its descriptor, its path and its name in turn.
LEMMA MailCleared ==
  ASSUME TypeOK, LineInv, MailInv, NEW u \in User, NEW t \in User, ClearsOne(u, t)
  PROVE  MailInv'
<1>0. /\ npipe \in Nat /\ fifo \in [User -> [User -> MailRec(npipe)]] /\ file \in [User -> [User -> 0 .. npipe]]
      /\ sh \in [User -> ShellRec(npipe)] /\ sh[u] \in ShellRec(npipe)
      /\ "unlink" \in ShellPlace /\ "unname" \in ShellPlace
  BY DEF TypeOK, ShellPlace, Clearing
<1>1. First(u, t) /\ sh[u].pc \in Clearing /\ \A s \in User : s # t => ~First(u, s)
  BY OnlyFirst DEF ClearsOne, CloseFd, Unlink, Nameless, Unname, At, Clearing
<1>2. PICK y \in {Placed(sh[u], "unlink"), Placed(sh[u], "unname"), Passed(sh[u], t)} :
        /\ sh' = [sh EXCEPT ![u] = y]
        /\ \/ CloseFd(u, t) /\ y = Placed(sh[u], "unlink")
           \/ Unlink(u, t) /\ y = Placed(sh[u], "unname")
           \/ (Nameless(u, t) \/ Unname(u, t)) /\ y = Passed(sh[u], t)
  BY PlaceSteps DEF ClearsOne
<1>3. sh'[u] = y /\ \A v \in User : v # u => Unmarked(sh[v], sh'[v])
  BY <1>0, <1>2 DEF Unmarked
<1>4. y.pc \in Clearing /\ (y.pc = "close" \/ y.todo = sh[u].todo)
      /\ (y = Placed(sh[u], "unlink") => y.pc = "unlink") /\ (y = Placed(sh[u], "unname") => y.pc = "unname")
      /\ (y = Passed(sh[u], t) => y.pc = "close")
  <2>1. /\ Placed(sh[u], "unlink").pc = "unlink" /\ Placed(sh[u], "unlink").todo = sh[u].todo
        /\ Placed(sh[u], "unname").pc = "unname" /\ Placed(sh[u], "unname").todo = sh[u].todo
        /\ Passed(sh[u], t).pc = "close"
    BY <1>0, PlacedFacts, PassedFacts DEF SameJob
  <2> QED
    BY <1>2, <2>1 DEF Clearing
<1>5. /\ ~At(u, "killed") /\ ~At(u, "killed")'
      /\ \A s \in User : ~Pending(u, s) /\ ~Pending(u, s)'
      /\ \A s \in User : s # t => /\ ~Unlinking(u, s) /\ ~Unlinking(u, s)'
                                  /\ ~Unnaming(u, s) /\ ~Unnaming(u, s)'
  BY <1>1, <1>3, <1>4 DEF At, Pending, Unlinking, Unnaming, Clearing, First
<1>6. \A s, r \in User : ~(s = t /\ r = u) => fifo'[r][s] = fifo[r][s] /\ file'[s][r] = file[s][r]
  BY <1>0 DEF ClearsOne, CloseFd, Unlink, Unlinked, Nameless, Unname
<1>7. ASSUME NEW s \in User, NEW r \in User, ~(s = t /\ r = u)
      PROVE  MailAt(s, r)'
  <2>1. MailAt(s, r)
    BY DEF MailInv
  <2>2. /\ Pending(s, r)' <=> Pending(s, r)
        /\ At(s, "killed")' <=> At(s, "killed")
        /\ At(r, "killed")' <=> At(r, "killed")
        /\ Unlinking(r, s)' <=> Unlinking(r, s)
        /\ Unnaming(r, s)' <=> Unnaming(r, s)
    BY <1>3, <1>5, <1>7, MarksStay
  <2> QED
    BY <1>6, <1>7, <2>1, <2>2 DEF MailAt, MailOf
<1>8. MailAt(t, u)'
  <2>0. MailAt(t, u) /\ fifo[u][t] \in MailRec(npipe)
    BY <1>0 DEF MailInv
  <2>1. Pending(t, u)' <=> Pending(t, u)
    BY <1>3, <1>5, MarksStay
  <2>2. At(t, "killed")' <=> At(t, "killed")
    BY <1>3, <1>5, MarksStay
  <2>3. CASE CloseFd(u, t)
    <3>1. /\ fifo'[u][t] = [fifo[u][t] EXCEPT !.fd = NoPipe] /\ file' = file /\ sh[u].pc = "close"
      BY <1>0, <2>3 DEF CloseFd, At
    <3>2. fifo'[u][t].fd = NoPipe /\ fifo'[u][t].name = fifo[u][t].name
      BY <2>0, <3>1 DEF MailRec
    <3>3. ~Unlinking(u, t) /\ ~Unnaming(u, t) /\ ~Unnaming(u, t)'
      <4>1. sh'[u].pc \in {"unlink", "close"}
        <5>1. sh' = [sh EXCEPT ![u] = Placed(sh[u], "unlink")]
          BY <2>3, PlaceSteps
        <5> QED
          BY <1>0, <5>1, PlacedFacts
      <4> QED
        BY <3>1, <4>1 DEF Unlinking, Unnaming, At
    <3> QED
      BY <1>5, <2>0, <2>1, <2>2, <3>1, <3>2, <3>3 DEF MailAt, MailOf
  <2>4. CASE Unlink(u, t)
    <3>1. /\ fifo' = fifo /\ sh[u].pc = "unlink" /\ Unlinking(u, t) /\ ~Unnaming(u, t)
          /\ fifo[u][t].name => file'[t][u] = NoPipe
          /\ ~fifo[u][t].name => file'[t][u] = file[t][u]
      BY <1>0, <2>4 DEF Unlink, Unlinked, Unlinking, Unnaming, At
    <3>2. ~Unlinking(u, t)' /\ Unnaming(u, t)'
      <4>1. sh'[u] = Placed(sh[u], "unname")
        BY <1>0, <2>4, PlaceSteps
      <4>2. sh'[u].pc = "unname" /\ sh'[u].todo = sh[u].todo
        BY <1>0, <4>1, PlacedFacts DEF SameJob
      <4> QED
        BY <1>1, <4>2 DEF Unlinking, Unnaming, At, First
    <3> QED
      BY <1>5, <2>0, <2>1, <2>2, <3>1, <3>2 DEF MailAt, MailOf
  <2>5. CASE Nameless(u, t) \/ Unname(u, t)
    <3>1. sh'[u].pc = "close"
      <4>1. sh'[u] = Passed(sh[u], t)
        BY <1>0, <2>5, PlaceSteps
      <4> QED
        BY <1>0, <4>1, PassedFacts
    <3>2. ~Unlinking(u, t)' /\ ~Unnaming(u, t)'
      BY <3>1 DEF Unlinking, Unnaming, At
    <3>3. CASE Nameless(u, t)
      <4>1. fifo' = fifo /\ file' = file /\ ~fifo[u][t].name /\ ~Unnaming(u, t)
        BY <3>3 DEF Nameless, Unnaming, At
      <4> QED
        BY <1>5, <2>0, <2>1, <2>2, <3>2, <4>1 DEF MailAt, MailOf
    <3>4. CASE Unname(u, t)
      <4>1. /\ fifo'[u][t] = [fifo[u][t] EXCEPT !.name = FALSE] /\ file' = file /\ Unnaming(u, t)
        BY <1>0, <3>4 DEF Unname, Unnaming
      <4>2. fifo'[u][t].fd = fifo[u][t].fd /\ ~fifo'[u][t].name
        BY <2>0, <4>1 DEF MailRec
      <4> QED
        BY <1>5, <2>0, <2>1, <2>2, <3>2, <4>1, <4>2 DEF MailAt, MailOf
    <3> QED
      BY <2>5, <3>3, <3>4
  <2> QED
    BY <2>3, <2>4, <2>5 DEF ClearsOne
<1> QED
  BY <1>7, <1>8 DEF MailInv

\* A shell that is killed leaves its entry as it is, and a FIFO that it has not announced.
LEMMA MailKilled ==
  ASSUME TypeOK, LineInv, MailInv, NEW u \in User, Killed(u)
  PROVE  MailInv'
<1>0. npipe \in Nat /\ sh \in [User -> ShellRec(npipe)] /\ "killed" \in ShellPlace
  BY DEF TypeOK, ShellPlace
<1>1. sh' = [sh EXCEPT ![u] = Anew("killed")] /\ fifo' = fifo /\ file' = file /\ ~At(u, "killed")
  BY PlaceSteps DEF Killed, Live, shared
<1>2. sh'[u].pc = "killed" /\ \A v \in User : v # u => Unmarked(sh[v], sh'[v])
  BY <1>0, <1>1, NewRecord DEF Unmarked
<1>3. /\ At(u, "killed")'
      /\ \A s \in User : ~Pending(u, s)' /\ ~Unlinking(u, s)' /\ ~Unnaming(u, s)'
  BY <1>2 DEF At, Pending, Unlinking, Unnaming
<1>4. ASSUME NEW s \in User, NEW r \in User
      PROVE  MailAt(s, r)'
  <2>0. MailAt(s, r)
    BY DEF MailInv
  <2>1. /\ s # u => (Pending(s, r)' <=> Pending(s, r)) /\ (At(s, "killed")' <=> At(s, "killed"))
        /\ r # u => /\ At(r, "killed")' <=> At(r, "killed")
                    /\ Unlinking(r, s)' <=> Unlinking(r, s)
                    /\ Unnaming(r, s)' <=> Unnaming(r, s)
    BY <1>2, MarksStay
  <2> QED
    BY <1>1, <1>3, <2>0, <2>1 DEF MailAt, MailOf
<1> QED
  BY <1>4 DEF MailInv

\* Every step keeps an entry, the path and the FIFO still to be announced in agreement.
LEMMA MailStep ==
  ASSUME TypeOK, LineInv, MailInv, [Step]_vars
  PROVE  MailInv'
<1>0. \A s, r \in User : MailAt(s, r)
  BY DEF MailInv
<1>1. ASSUME UNCHANGED <<fifo, file, sh>>
      PROVE  MailInv'
  <2>1. \A v \in User : Unmarked(sh[v], sh'[v])
    BY <1>1 DEF Unmarked
  <2> QED
    BY <1>1, <2>1, MailSame DEF MailInv
<1>2. ASSUME NEW u \in User, UserStep(u), Undisturbed
      PROVE  MailInv'
  <2>1. CASE MakeFifo(u)
    BY <1>2, <2>1, MailMade
  <2>2. CASE NoteName(u)
    BY <1>2, <2>2, MailNamed
  <2>3. CASE OpenFifoRead(u)
    BY <1>2, <2>3, MailOpened
  <2>4. CASE Killed(u)
    BY <2>4, MailKilled
  <2>5. CASE \E s \in User : ClearsOne(u, s)
    BY <2>5, MailCleared
  <2>6. CASE ~Marking(u) /\ ~OpenFifoRead(u)
    <3>1. UNCHANGED <<fifo, file>>
      BY <1>2, <2>6 DEF UserStep, ShellStep, Clears, Marking, ClearsOne, Login, ReadLine, FindReceiver, MakeFails, Signal,
            Open, ExecBuiltin, ExecExit, ExecFork, Finish, EndLine, Leave, Destroy, ExitDone, ClearEnv, Destroyed, shared
    <3>2. \A v \in User : Unmarked(sh[v], sh'[v])
      BY <1>2, <2>6, StepFacts
    <3> QED
      BY <3>1, <3>2, MailSame DEF MailInv
  <2> QED
    BY <2>1, <2>2, <2>3, <2>4, <2>5, <2>6 DEF Marking
<1> QED
  BY <1>1, <1>2 DEF Step, Next, UserStep, vars, shared, ProcStep, Write, Copy, End

\* Nobody that takes signals was killed.
LEMMA SignalStep ==
  ASSUME TypeOK, LineInv, SignalInv, [Next]_vars
  PROVE  SignalInv'
<1>1. CASE UNCHANGED <<sh, usr2>>
  BY <1>1 DEF SignalInv, At
<1>2. ASSUME NEW u \in User, UserStep(u), NEW v \in usr2'
      PROVE  ~At(v, "killed")'
  <2>0. /\ usr2 \subseteq User /\ npipe \in Nat /\ sh \in [User -> ShellRec(npipe)] /\ sh[u] \in ShellRec(npipe)
        /\ \A p \in {"name", "kill", "unlink", "unname"} : p \in ShellPlace
    BY DEF TypeOK, ShellPlace, Clearing
  <2>1. v \in User /\ ~At(v, "killed")
    <3>1. CASE Signal(u)
      BY <1>2, <2>0, <3>1 DEF Signal, Hit, Live, SignalInv
    <3>2. CASE ~Signal(u)
      <4>1. usr2' \subseteq usr2
        BY <1>2, <3>2 DEF UserStep, ShellStep, Clears, Login, ReadLine, Killed, Gone, FindReceiver, MakeFifo, MakeFails,
              NoteName, Open, OpenFifoRead, ExecBuiltin, ExecExit, ExecFork, Finish, EndLine, Leave, Destroy,
              CloseFd, Unlink, Nameless, Unname, ExitDone, ClearEnv, Destroyed
      <4> QED
        BY <1>2, <2>0, <4>1 DEF SignalInv
    <3> QED
      BY <3>1, <3>2
  <2>2. CASE v # u \/ ~Marking(u)
    <3>1. Unmarked(sh[v], sh'[v])
      BY <1>2, <2>1, <2>2, StepFacts
    <3> QED
      BY <2>1, <3>1, MarksStay
  <2>3. CASE v = u /\ (MakeFifo(u) \/ NoteName(u))
    <3>1. PICK p \in {"name", "kill"} : sh' = [sh EXCEPT ![u] = Placed(sh[u], p)]
      BY <2>3, PlaceSteps
    <3>2. p \in ShellPlace /\ sh'[u] = Placed(sh[u], p)
      BY <2>0, <3>1
    <3>3. sh'[u].pc = p
      BY <2>0, <3>2, PlacedFacts
    <3> QED
      BY <2>3, <3>3 DEF At
  <2>4. CASE v = u /\ \E s \in User : ClearsOne(u, s)
    <3>1. PICK s \in User : ClearsOne(u, s)
      BY <2>4
    <3>2. PICK y \in {Placed(sh[u], "unlink"), Placed(sh[u], "unname"), Passed(sh[u], s)} : sh' = [sh EXCEPT ![u] = y]
      BY <3>1, PlaceSteps DEF ClearsOne
    <3>3. /\ Placed(sh[u], "unlink").pc # "killed" /\ Placed(sh[u], "unname").pc # "killed"
          /\ Passed(sh[u], s).pc # "killed"
      <4>1. "unlink" \in ShellPlace /\ "unname" \in ShellPlace
        BY <2>0
      <4>2. Placed(sh[u], "unlink").pc = "unlink" /\ Placed(sh[u], "unname").pc = "unname"
        BY <2>0, <4>1, PlacedFacts
      <4>3. Passed(sh[u], s).pc = "close"
        BY <2>0, PassedFacts
      <4> QED
        BY <4>2, <4>3
    <3> QED
      BY <2>0, <2>4, <3>2, <3>3 DEF At
  <2>5. CASE v = u /\ Killed(u)
    BY <1>2, <2>5 DEF Killed, Gone
  <2> QED
    BY <2>2, <2>3, <2>4, <2>5 DEF Marking
<1> QED
  BY <1>1, <1>2 DEF SignalInv, Next, UserStep, vars, ProcStep, Write, Copy, End

-----------------------------------------------------------------------------
(* Whose FIFO is whose.                                                    *)

\* A FIFO is unopened or not, as before, when its entry is, and the marks of the shell
\* whose entry it is in.
LEMMA SameUnopened ==
  ASSUME NEW s \in User, NEW r \in User, fifo'[r][s] = fifo[r][s], Unmarked(sh[r], sh'[r])
  PROVE  Unopened(s, r)' <=> Unopened(s, r)
BY MarksStay DEF Unopened

\* Nobody finds a FIFO that he did not have, none is opened and no command gets one.
LEMMA NothingNew ==
  ASSUME FifoInv, fifos' = fifos,
         \A s, r \in User : \/ file'[s][r] = file[s][r] /\ (Unopened(s, r)' => Unopened(s, r))
                            \/ file'[s][r] = NoPipe,
         \A v \in User : \A q \in fifos : q \in held'[v] \/ sh'[v].last_pipe = q => Has(v, q),
         \A p \in Proc : proc'[p].in = proc[p].in,
         \A v \in User : \A k \in Slots : sh'[v].pipes[k] \notin fifos
  PROVE  PathInv' /\ OwnerInv' /\ RingInv' /\ ReadOnce'
<1>0. PathInv /\ OwnerInv /\ RingInv /\ ReadOnce
  BY DEF FifoInv
<1>1. PathInv'
  <2> SUFFICES ASSUME NEW s \in User, NEW r \in User, file'[s][r] # NoPipe
               PROVE  /\ file'[s][r] \in fifos'
                      /\ \A t, v \in User : file'[t][v] = file'[s][r] => t = s /\ v = r
                      /\ Unopened(s, r)' =>
                           /\ \A u \in User : ~(file'[s][r] \in held'[u] \/ sh'[u].last_pipe = file'[s][r])
                           /\ \A p \in Proc : proc'[p].in # file'[s][r]
    BY DEF PathInv, Has
  <2>1. file'[s][r] = file[s][r] /\ (Unopened(s, r)' => Unopened(s, r)) /\ file[s][r] # NoPipe
    OBVIOUS
  <2>2. \A t, v \in User : file'[t][v] = file'[s][r] => file[t][v] = file[s][r]
    BY <2>1
  <2> QED
    BY <1>0, <2>1, <2>2 DEF PathInv
<1>2. OwnerInv'
  BY <1>0 DEF OwnerInv, Has
<1>3. RingInv' /\ ReadOnce'
  BY <1>0 DEF RingInv, ReadOnce
<1> QED
  BY <1>1, <1>2, <1>3

\* A path is as unopened as before, or it is gone.
LEMMA PathsLost ==
  ASSUME FifoInv, NEW u \in User, PlainStep(u), ~MakeFifo(u), ~OpenFifoRead(u),
         NEW s \in User, NEW r \in User
  PROVE  \/ file'[s][r] = file[s][r] /\ (Unopened(s, r)' => Unopened(s, r))
         \/ file'[s][r] = NoPipe
<1>0. /\ TypeOK /\ LineInv /\ npipe \in Nat /\ MailAt(s, r) /\ sh[u] \in ShellRec(npipe) /\ sh \in [User -> ShellRec(npipe)]
      /\ fifo \in [User -> [User -> MailRec(npipe)]] /\ file \in [User -> [User -> 0 .. npipe]]
      /\ fifo[r][s] \in MailRec(npipe) /\ "unlink" \in ShellPlace
  BY DEF FifoInv, TypeOK, MailInv, ShellPlace, Clearing
<1>1. r # u \/ ~Marking(u) => Unmarked(sh[r], sh'[r])
  BY <1>0, StepFacts DEF PlainStep, UserStep, ShellStep, Clears
<1>2. CASE ~Marking(u)
  <2>1. UNCHANGED <<fifo, file>>
    BY <1>2 DEF PlainStep, Marking, ClearsOne, Login, ReadLine, FindReceiver, MakeFails, Signal,
          Open, ExecBuiltin, ExecExit, Finish, EndLine, Leave, Destroy, ExitDone, ClearEnv, Destroyed, shared
  <2> QED
    BY <1>1, <1>2, <2>1, SameUnopened
<1>3. CASE NoteName(u)
  <2>1. /\ to(u) \in User /\ file' = file /\ sh[u].pc = "name"
        /\ fifo' = [fifo EXCEPT ![to(u)] = [fifo[to(u)] EXCEPT ![u] = [fifo[to(u)][u] EXCEPT !.name = TRUE]]]
    BY <1>0, <1>3, Receiver DEF NoteName, At
  <2>2. fifo'[r][s].fd = fifo[r][s].fd /\ (fifo[r][s].name => fifo'[r][s].name)
    <3>1. fifo'[r][s] = fifo[r][s] \/ fifo'[r][s] = [fifo[r][s] EXCEPT !.name = TRUE]
      BY <1>0, <2>1
    <3> QED
      BY <1>0, <3>1 DEF MailRec
  <2>3. CASE r = u
    BY <2>1, <2>2, <2>3 DEF Unopened, Unlinking, At
  <2>4. CASE r # u
    <3>1. (At(r, "killed")' <=> At(r, "killed")) /\ (Unlinking(r, s)' <=> Unlinking(r, s))
      BY <1>1, <2>4, MarksStay
    <3> QED
      BY <2>1, <2>2, <3>1 DEF Unopened
  <2> QED
    BY <2>3, <2>4
<1>4. CASE Killed(u)
  <2>1. fifo' = fifo /\ file' = file
    BY <1>4 DEF Killed, shared
  <2>2. CASE r = u
    <3>1. At(r, "killed")'
      BY <1>0, <1>4, <2>2 DEF Killed, Gone, At, NewShell
    <3> QED
      BY <2>1, <3>1 DEF Unopened
  <2> QED
    BY <1>1, <2>1, <2>2, SameUnopened
<1>5. ASSUME NEW t \in User, ClearsOne(u, t)
      PROVE  \/ file'[s][r] = file[s][r] /\ (Unopened(s, r)' => Unopened(s, r))
             \/ file'[s][r] = NoPipe
  <2>1. CASE r # u
    <3>1. fifo'[r] = fifo[r]
      BY <1>0, <1>5, <2>1 DEF ClearsOne, CloseFd, Unlink, Nameless, Unname
    <3>2. file'[s][r] = file[s][r]
      BY <1>0, <1>5, <2>1 DEF ClearsOne, CloseFd, Unlink, Unlinked, Nameless, Unname
    <3> QED
      BY <1>1, <2>1, <3>1, <3>2, SameUnopened
  <2>2. CASE r = u /\ CloseFd(u, t)
    <3>1. /\ file' = file /\ sh[u].pc = "close" /\ First(u, t)
          /\ fifo' = [fifo EXCEPT ![u] = [fifo[u] EXCEPT ![t] = [fifo[u][t] EXCEPT !.fd = NoPipe]]]
      BY <2>2 DEF CloseFd, At
    <3>2. ~At(r, "killed") /\ ~Unlinking(r, s)
      BY <2>2, <3>1 DEF Unlinking, At
    <3>3. CASE s # t
      <4>1. fifo'[r][s] = fifo[r][s]
        BY <1>0, <2>2, <3>1, <3>3
      <4> QED
        BY <3>1, <3>2, <4>1 DEF Unopened
    <3>4. CASE s = t
      <4>1. sh'[u] = Placed(sh[u], "unlink")
        BY <1>0, <2>2, PlaceSteps
      <4>2. Unlinking(r, s)'
        BY <1>0, <2>2, <3>1, <3>4, <4>1, PlacedFacts DEF Unlinking, At, First, SameJob
      <4>3. fifo'[r][s].name = fifo[r][s].name
        <5>1. fifo'[r][s] = [fifo[r][s] EXCEPT !.fd = NoPipe]
          BY <1>0, <2>2, <3>1, <3>4
        <5> QED
          BY <1>0, <5>1 DEF MailRec
      <4> QED
        BY <1>0, <3>1, <3>2, <4>2, <4>3 DEF Unopened, MailAt, MailOf
    <3> QED
      BY <3>3, <3>4
  <2>3. CASE r = u /\ (Unlink(u, t) \/ Nameless(u, t))
    <3>1. /\ fifo' = fifo /\ sh[u].pc = "unlink" /\ First(u, t)
          /\ Nameless(u, t) => file' = file /\ ~fifo[u][t].name
          /\ Unlink(u, t) => file' = IF fifo[u][t].name THEN [file EXCEPT ![t] = [file[t] EXCEPT ![u] = NoPipe]] ELSE file
      BY <2>3 DEF Unlink, Unlinked, Nameless, At
    <3>2. ~At(r, "killed")
      BY <2>3, <3>1 DEF At
    <3>3. CASE s # t
      <4>1. ~Unlinking(r, s) /\ file'[s][r] = file[s][r]
        BY <1>0, <2>3, <3>1, <3>3, OnlyFirst DEF Unlinking
      <4> QED
        BY <3>1, <3>2, <4>1 DEF Unopened
    <3>4. CASE s = t /\ fifo[u][t].name
      BY <1>0, <2>3, <3>1, <3>4
    <3>5. CASE s = t /\ ~fifo[u][t].name
      BY <1>0, <2>3, <3>1, <3>2, <3>5 DEF Unopened
    <3> QED
      BY <3>3, <3>4, <3>5
  <2>4. CASE r = u /\ Unname(u, t)
    <3>1. /\ file' = file /\ sh[u].pc = "unname"
          /\ fifo' = [fifo EXCEPT ![u] = [fifo[u] EXCEPT ![t] = [fifo[u][t] EXCEPT !.name = FALSE]]]
      BY <2>4 DEF Unname, At
    <3>2. fifo'[r][s].fd = fifo[r][s].fd
      <4>1. fifo'[r][s] = fifo[r][s] \/ fifo'[r][s] = [fifo[r][s] EXCEPT !.name = FALSE]
        BY <1>0, <2>4, <3>1
      <4> QED
        BY <1>0, <4>1 DEF MailRec
    <3> QED
      BY <2>4, <3>1, <3>2 DEF Unopened, Unlinking, At
  <2> QED
    BY <1>5, <2>1, <2>2, <2>3, <2>4 DEF ClearsOne
<1> QED
  BY <1>2, <1>3, <1>4, <1>5 DEF Marking

\* The steps in which users at most lose FIFOs.
LEMMA LosingSteps ==
  ASSUME FifoInv, NEW u \in User, PlainStep(u), ~MakeFifo(u), ~OpenFifoRead(u)
  PROVE  PathInv' /\ OwnerInv' /\ RingInv' /\ ReadOnce'
<1>0. /\ TypeOK /\ LineInv /\ RingInv
      /\ npipe \in Nat /\ sh \in [User -> ShellRec(npipe)] /\ held \in [User -> SUBSET Pipes] /\ fifos \subseteq 1 .. npipe
      /\ proc \in [Proc -> ProcRec(npipe)]
      /\ NoPipe \notin fifos /\ DevNull \notin fifos
  <2>1. TypeOK /\ LineInv /\ RingInv
    BY DEF FifoInv
  <2>2. NoPipe \notin 1 .. npipe /\ DevNull \notin 1 .. npipe
    BY <2>1 DEF NoPipe, DevNull, TypeOK
  <2> QED
    BY <2>1, <2>2 DEF TypeOK, Pipes
<1>1. fifos' = fifos
  BY ZenonT(60) DEF PlainStep, Login, ReadLine, Killed, FindReceiver, MakeFails, NoteName, Signal, Open, ExecBuiltin,
     ExecExit, Finish, EndLine, Leave, Destroy, CloseFd, Unlink, Nameless, Unname, ExitDone, ClearEnv, Destroyed, kernel
<1>2. \A s, r \in User : \/ file'[s][r] = file[s][r] /\ (Unopened(s, r)' => Unopened(s, r))
                         \/ file'[s][r] = NoPipe
  BY PathsLost
<1>3. \A v \in User : held'[v] \subseteq held[v]
  <2>1. CASE UNCHANGED held
    BY <2>1
  <2>2. CASE \E S : held' = [held EXCEPT ![u] = held[u] \ S]
    BY <1>0, <2>2
  <2>3. CASE held' = [held EXCEPT ![u] = {}]
    BY <1>0, <2>3
  <2> QED
    BY <2>1, <2>2, <2>3 DEF PlainStep, Login, ReadLine, Killed, Gone, FindReceiver, MakeFails, NoteName, Signal, Open,
       ExecBuiltin, ExecExit, Finish, EndLine, Leave, Destroy, CloseFd, Unlink, Nameless, Unname, ExitDone, ClearEnv, Destroyed
<1>4. ASSUME NEW p \in Proc
      PROVE  proc'[p].in = proc[p].in
  <2>1. proc'[p] \in {proc[p], [proc[p] EXCEPT !.st = "killed"]}
    <3>1. CASE Signal(u)
      BY <3>1 DEF Signal
    <3>2. CASE Destroy(u)
      BY <3>2 DEF Destroy
    <3>3. CASE UNCHANGED proc
      BY <3>3
    <3> QED
      BY <3>1, <3>2, <3>3 DEF PlainStep, Login, ReadLine, Killed, FindReceiver, MakeFails, NoteName, Open, ExecBuiltin,
         ExecExit, Finish, EndLine, Leave, CloseFd, Unlink, Nameless, Unname, ExitDone, ClearEnv, Destroyed, kernel
  <2>2. proc[p] \in ProcRec(npipe)
    BY <1>0
  <2> QED
    BY ONLY <2>1, <2>2 DEF ProcRec
<1>5. ASSUME NEW v \in User, v # u
      PROVE  SameRing(sh[v], sh'[v])
  <2>1. sh'[v] \in Woken(sh[v]) /\ sh[v] \in ShellRec(npipe)
    BY <1>0, <1>5, OwnStep
  <2> QED
    BY <1>0, <2>1, WaitFacts DEF SameJob, SameLine
<1>6. CASE ~ReadLine(u)
  <2>1. \A v \in User : Kept(sh[v], sh'[v])
    BY <1>0, <1>5, <1>6, OwnStep, Keeps
  <2>2. \A v \in User : \A q \in fifos : q \in held'[v] \/ sh'[v].last_pipe = q => Has(v, q)
    BY <1>0, <1>3, <2>1 DEF Has, Kept
  <2>3. \A v \in User : \A k \in Slots : sh'[v].pipes[k] \notin fifos
    BY <1>0, <2>1 DEF RingInv, Kept
  <2> QED
    BY <1>1, <1>2, <1>4, <2>2, <2>3, NothingNew
<1>7. CASE ReadLine(u)
  <2>1. PICK l \in Lines : \E q \in (IF l[1].from = NoUser THEN {sh[u].last_pipe}
                    ELSE IF Received(u, l[1].from) THEN Meaning(u, fifo[u][l[1].from].fd) ELSE {DevNull}) :
            sh' = [sh EXCEPT ![u] = [sh[u] EXCEPT !.line = l, !.idx = 1, !.last_pipe = q,
                                              !.inError = (l[1].from # NoUser /\ ~Received(u, l[1].from)),
                                              !.pc = IF l[Len(l)].to = NoUser THEN "exec" ELSE "send"]]
    BY <1>0, <1>7, LinesAreTasks DEF ReadLine
  <2>2. PICK q \in (IF l[1].from = NoUser THEN {sh[u].last_pipe}
                    ELSE IF Received(u, l[1].from) THEN Meaning(u, fifo[u][l[1].from].fd) ELSE {DevNull}) :
            sh' = [sh EXCEPT ![u] = [sh[u] EXCEPT !.line = l, !.idx = 1, !.last_pipe = q,
                                              !.inError = (l[1].from # NoUser /\ ~Received(u, l[1].from)),
                                              !.pc = IF l[Len(l)].to = NoUser THEN "exec" ELSE "send"]]
    BY <2>1
  <2>3. sh'[u].last_pipe = q /\ sh'[u].pipes = sh[u].pipes /\ \A v \in User : v # u => sh'[v] = sh[v]
    BY <1>0, <2>2 DEF ShellRec
  <2>4. q \in fifos => Has(u, q)
    BY <1>0, <2>2 DEF Meaning, Has
  <2>5. \A v \in User : \A x \in fifos : x \in held'[v] \/ sh'[v].last_pipe = x => Has(v, x)
    BY <1>3, <2>3, <2>4 DEF Has
  <2>6. \A v \in User : \A k \in Slots : sh'[v].pipes[k] \notin fifos
    BY <1>0, <2>3 DEF RingInv
  <2> QED
    BY <1>1, <1>2, <1>4, <2>5, <2>6, NothingNew
<1> QED
  BY <1>6, <1>7

\* A new FIFO is nobody's yet.
LEMMA FifoMade ==
  ASSUME FifoInv, NEW u \in User, MakeFifo(u)
  PROVE  PathInv' /\ OwnerInv' /\ RingInv' /\ ReadOnce'
<1> DEFINE N == npipe + 1
<1>0. /\ TypeOK /\ LineInv /\ PathInv /\ OwnerInv /\ RingInv /\ ReadOnce
      /\ npipe \in Nat /\ file \in [User -> [User -> 0 .. npipe]] /\ fifos \subseteq 1 .. npipe
      /\ sh \in [User -> ShellRec(npipe)] /\ held \in [User -> SUBSET (1 .. npipe)]
      /\ proc \in [Proc -> ProcRec(npipe)] /\ sh[u] \in ShellRec(npipe) /\ "name" \in ShellPlace
  BY DEF FifoInv, TypeOK, Pipes, ShellPlace
<1>1. /\ to(u) \in User /\ fifos' = fifos \cup {N} /\ file' = [file EXCEPT ![u][to(u)] = N]
      /\ fifo' = fifo /\ held' = held /\ proc' = proc /\ sh[u].pc = "mkfifo"
  BY <1>0, Receiver DEF MakeFifo, At
<1>2. N \notin fifos /\ N > 0
  BY <1>0
<1>3. sh' = [sh EXCEPT ![u] = Placed(sh[u], "name")] /\ Placed(sh[u], "name").pc = "name"
      /\ SameRing(sh[u], Placed(sh[u], "name"))
  BY <1>0, PlaceSteps, PlacedFacts DEF SameJob, SameLine
<1>4. /\ \A v \in User : v # u => sh'[v] = sh[v]
      /\ sh'[u].pc = "name"
      /\ \A v \in User : sh'[v].last_pipe = sh[v].last_pipe /\ sh'[v].pipes = sh[v].pipes
  BY <1>0, <1>3 DEF SameRing
<1>5. ASSUME NEW v \in User
      PROVE  N \notin held'[v] /\ sh'[v].last_pipe # N /\ \A k \in Slots : sh'[v].pipes[k] # N
  <2>1. sh[v].last_pipe \in -1 .. npipe /\ sh[v].pipes \in [Slots -> 0 .. npipe] /\ held[v] \subseteq 1 .. npipe
    BY <1>0 DEF ShellRec
  <2>2. \A k \in Slots : sh[v].pipes[k] \in 0 .. npipe
    BY <2>1
  <2> QED
    BY <1>0, <1>1, <1>2, <1>4, <2>1, <2>2
<1>6. \A p \in Proc : proc'[p].in = proc[p].in /\ proc'[p].in # N
  <2>1. \A p \in Proc : proc[p].in \in -1 .. npipe
    BY <1>0 DEF ProcRec
  <2> QED
    BY <1>0, <1>1, <2>1
<1>7. ASSUME NEW s \in User, NEW r \in User
      PROVE  /\ s = u /\ r = to(u) => file'[s][r] = N
             /\ ~(s = u /\ r = to(u)) => file'[s][r] = file[s][r] /\ file[s][r] # N
             /\ Unopened(s, r)' => Unopened(s, r)
  <2>1. Unopened(s, r)' => Unopened(s, r)
    <3>1. CASE r = u
      BY <1>1, <3>1 DEF Unopened, Unlinking, At
    <3>2. CASE r # u
      BY <1>1, <1>4, <3>2, SameUnopened DEF Unmarked
    <3> QED
      BY <3>1, <3>2
  <2> QED
    BY <1>0, <1>1, <2>1
<1>8. \A v \in User : \A q \in fifos : q \in held'[v] \/ sh'[v].last_pipe = q => Has(v, q)
  BY <1>1, <1>4 DEF Has
<1> HIDE DEF N
<1>9. PathInv'
  <2> SUFFICES ASSUME NEW s \in User, NEW r \in User, file'[s][r] # NoPipe
               PROVE  /\ file'[s][r] \in fifos'
                      /\ \A t, v \in User : file'[t][v] = file'[s][r] => t = s /\ v = r
                      /\ Unopened(s, r)' =>
                           /\ \A v \in User : ~(file'[s][r] \in held'[v] \/ sh'[v].last_pipe = file'[s][r])
                           /\ \A p \in Proc : proc'[p].in # file'[s][r]
    BY DEF PathInv, Has
  <2>1. CASE s = u /\ r = to(u)
    <3>1. file'[s][r] = N
      BY <1>7, <2>1
    <3>2. \A t, v \in User : file'[t][v] = N => t = u /\ v = to(u)
      BY <1>7
    <3> QED
      BY <1>1, <1>5, <1>6, <2>1, <3>1, <3>2
  <2>2. CASE ~(s = u /\ r = to(u))
    <3>1. file'[s][r] = file[s][r] /\ file[s][r] # NoPipe /\ file[s][r] # N
      BY <1>7, <2>2
    <3>2. \A t, v \in User : file'[t][v] = file[s][r] => file[t][v] = file[s][r]
      BY <1>7, <3>1
    <3>3. Unopened(s, r)' => Unopened(s, r)
      BY <1>7
    <3>4. /\ file[s][r] \in fifos
          /\ \A t, v \in User : file[t][v] = file[s][r] => t = s /\ v = r
          /\ Unopened(s, r) => /\ \A v \in User : ~Has(v, file[s][r])
                               /\ \A p \in Proc : proc[p].in # file[s][r]
      BY <1>0, <3>1 DEF PathInv
    <3> QED
      BY <1>1, <1>6, <1>8, <3>1, <3>2, <3>3, <3>4
  <2> QED
    BY <2>1, <2>2
<1>10. OwnerInv'
  BY <1>0, <1>1, <1>5, <1>6, <1>8 DEF OwnerInv, Has
<1>11. RingInv' /\ ReadOnce'
  BY <1>0, <1>1, <1>4, <1>5, <1>6 DEF RingInv, ReadOnce
<1> QED
  BY <1>9, <1>10, <1>11

\* A handler opens the FIFOs made for its user, which nobody had.
LEMMA FifoOpened ==
  ASSUME FifoInv, NEW u \in User, OpenFifoRead(u), Undisturbed
  PROVE  PathInv' /\ OwnerInv' /\ RingInv' /\ ReadOnce'
<1> DEFINE New == {file[s][u] : s \in Fresh(u)}
<1>0. /\ TypeOK /\ LineInv /\ PathInv /\ OwnerInv /\ RingInv /\ ReadOnce /\ SignalInv
      /\ npipe \in Nat /\ file \in [User -> [User -> 0 .. npipe]] /\ fifo \in [User -> [User -> MailRec(npipe)]]
      /\ sh \in [User -> ShellRec(npipe)]
      /\ held \in [User -> SUBSET (1 .. npipe)] /\ fifos \subseteq 1 .. npipe /\ NoPipe \notin fifos
  BY DEF FifoInv, TypeOK, Pipes, NoPipe
<1>1. /\ fifos' = fifos /\ file' = file /\ proc' = proc /\ held' = [held EXCEPT ![u] = held[u] \cup New]
      /\ fifo' = [fifo EXCEPT ![u] = [s \in User |-> IF s \in Fresh(u) THEN [fifo[u][s] EXCEPT !.fd = file[s][u]] ELSE fifo[u][s]]]
      /\ ~At(u, "killed") /\ ~At(u, "unlink")
  BY <1>0 DEF OpenFifoRead, kernel, SignalInv, Undisturbed
<1>2. ASSUME NEW v \in User
      PROVE  /\ sh'[v].last_pipe = sh[v].last_pipe /\ sh'[v].pipes = sh[v].pipes
             /\ Unmarked(sh[v], sh'[v])
  <2>1. sh'[v] \in Woken(sh[v])
    BY DEF OpenFifoRead, Woken
  <2>2. SameJob(sh[v], sh'[v]) /\ (sh'[v].pc = sh[v].pc \/ (sh[v].pc = "blocked" /\ sh'[v].pc \in {"open", "exec"}))
    BY <1>0, <2>1, WaitFacts
  <2> QED
    BY <2>2 DEF Unmarked, Marked, SameJob, SameLine, SameRing
<1>3. ASSUME NEW q \in New
      PROVE  /\ q \in fifos /\ \A v \in User : ~Has(v, q)
             /\ \A p \in Proc : proc[p].in # q
             /\ \E s \in Fresh(u) : q = file[s][u] /\ s \in User
  <2>1. PICK s \in User : s \in Fresh(u) /\ q = file[s][u]
    BY DEF Fresh
  <2>2. Unopened(s, u) /\ file[s][u] # NoPipe
    BY <1>1, <2>1 DEF Fresh, Unopened, Unlinking
  <2> QED
    BY <1>0, <2>1, <2>2 DEF PathInv
<1>4. ASSUME NEW v \in User, NEW q \in fifos, q \in held'[v] \/ sh'[v].last_pipe = q
      PROVE  Has(v, q) \/ (v = u /\ q \in New)
  BY <1>0, <1>1, <1>2, <1>4 DEF Has
<1>5. ASSUME NEW s \in User, NEW r \in User, Unopened(s, r)', file[s][r] # NoPipe
      PROVE  Unopened(s, r) /\ ~(r = u /\ s \in Fresh(u))
  <2>1. CASE r = u /\ s \in Fresh(u)
    <3>1. fifo'[r][s] = [fifo[r][s] EXCEPT !.fd = file[s][r]] /\ fifo[r][s] \in MailRec(npipe)
      BY <1>0, <1>1, <2>1
    <3>2. fifo'[r][s].fd = file[s][r]
      BY <3>1 DEF MailRec
    <3> QED
      BY <1>5, <3>2 DEF Unopened
  <2>2. CASE ~(r = u /\ s \in Fresh(u))
    <3>1. fifo'[r][s] = fifo[r][s]
      BY <1>0, <1>1, <2>2
    <3> QED
      BY <1>2, <1>5, <2>2, <3>1, SameUnopened
  <2> QED
    BY <2>1, <2>2
<1>6. PathInv'
  <2> SUFFICES ASSUME NEW s \in User, NEW r \in User, file'[s][r] # NoPipe
               PROVE  /\ file'[s][r] \in fifos'
                      /\ \A t, v \in User : file'[t][v] = file'[s][r] => t = s /\ v = r
                      /\ Unopened(s, r)' =>
                           /\ \A v \in User : ~(file'[s][r] \in held'[v] \/ sh'[v].last_pipe = file'[s][r])
                           /\ \A p \in Proc : proc'[p].in # file'[s][r]
    BY DEF PathInv, Has
  <2>0. file' = file /\ fifos' = fifos /\ proc' = proc /\ file[s][r] # NoPipe
    BY <1>1
  <2>1. /\ file[s][r] \in fifos
        /\ \A t, v \in User : file[t][v] = file[s][r] => t = s /\ v = r
        /\ Unopened(s, r) =>
              /\ \A v \in User : ~Has(v, file[s][r])
              /\ \A p \in Proc : proc[p].in # file[s][r]
    BY <1>0, <2>0 DEF PathInv
  <2>2. ASSUME file[s][r] \in New
        PROVE  r = u /\ s \in Fresh(u)
    BY <1>3, <2>1, <2>2 DEF Fresh
  <2> HIDE DEF New
  <2>3. ASSUME Unopened(s, r)'
        PROVE  Unopened(s, r) /\ file[s][r] \notin New
    BY <1>5, <2>0, <2>2, <2>3
  <2> QED
    BY <1>4, <2>0, <2>1, <2>3
<1>7. OwnerInv'
  <2> HIDE DEF New
  <2>1. ASSUME NEW q \in fifos, NEW v \in User, q \in held'[v] \/ sh'[v].last_pipe = q
        PROVE  /\ \A w \in User : q \in held'[w] \/ sh'[w].last_pipe = q => v = w
               /\ \A p \in Proc : proc[p].in # q
    BY <1>0, <1>3, <1>4, <2>1 DEF OwnerInv
  <2> QED
    BY <1>1, <2>1 DEF OwnerInv, Has
<1>8. RingInv' /\ ReadOnce'
  BY <1>0, <1>1, <1>2 DEF RingInv, ReadOnce
<1> QED
  BY <1>6, <1>7, <1>8

\* A command that is to read a FIFO takes it from the one user who had it.
LEMMA FifoTaken ==
  ASSUME FifoInv, NEW u \in User, ExecFork(u)
  PROVE  PathInv' /\ OwnerInv' /\ RingInv' /\ ReadOnce'
<1> DEFINE q == taken(u)
<1>0. /\ TypeOK /\ LineInv /\ PathInv /\ OwnerInv /\ RingInv /\ ReadOnce
      /\ npipe \in Nat /\ fifos \subseteq 1 .. npipe /\ NoPipe \notin fifos
      /\ proc \in [Proc -> ProcRec(npipe)]
  BY DEF FifoInv, TypeOK, Pipes, NoPipe
<1>1. /\ fifos' = fifos /\ file' = file /\ fifo' = fifo
  BY DEF ExecFork, shared
<1>2. /\ nproc + 1 \in Proc /\ proc' = [proc EXCEPT ![nproc + 1] = Child(u)]
      /\ \A v \in User : v # u => sh'[v] = sh[v] /\ held'[v] = held[v]
      /\ sh'[u].last_pipe = NoPipe
      /\ \A k \in Slots : sh'[u].pipes[k] \in {ring(u)[k], NoPipe}
      /\ \A k \in Slots : ring(u)[k] = sh[u].pipes[k] \/ ring(u)[k] > npipe
      /\ held'[u] = (held[u] \cup (npipe + 1 .. made(u))) \ ClosedByParent(u)
      /\ Unmarked(sh[u], sh'[u])
  BY <1>0, ForkFrame
<1>3. q \in fifos => Has(u, q)
  <2>1. Slot(u, 0) \in Slots
    BY <1>0, SlotRange
  <2> QED
    BY <1>0, <2>1 DEF taken, RingInv, Has
<1>4. ASSUME NEW v \in User, NEW x \in fifos, x \in held'[v] \/ sh'[v].last_pipe = x
      PROVE  Has(v, x) /\ (v = u => x # q)
  <2>1. CASE v # u
    BY <1>2, <1>4, <2>1 DEF Has
  <2>2. CASE v = u
    <3>1. x \notin npipe + 1 .. made(u) /\ x # NoPipe
      BY <1>0
    <3>2. x \in held[u] /\ x # q
      BY <1>2, <1>4, <2>2, <3>1 DEF ClosedByParent
    <3> QED
      BY <2>2, <3>2 DEF Has
  <2> QED
    BY <2>1, <2>2
<1>5. ASSUME NEW p \in Proc
      PROVE  /\ p = nproc + 1 => proc'[p].in = q
             /\ p # nproc + 1 => proc'[p].in = proc[p].in
  BY <1>0, <1>2 DEF Child
<1>6. \A s, r \in User : Unopened(s, r)' <=> Unopened(s, r)
  BY <1>1, <1>2, SameUnopened DEF Unmarked
<1> HIDE DEF q
<1>7. PathInv'
  <2> SUFFICES ASSUME NEW s \in User, NEW r \in User, file'[s][r] # NoPipe
               PROVE  /\ file'[s][r] \in fifos'
                      /\ \A t, v \in User : file'[t][v] = file'[s][r] => t = s /\ v = r
                      /\ Unopened(s, r)' =>
                           /\ \A v \in User : ~(file'[s][r] \in held'[v] \/ sh'[v].last_pipe = file'[s][r])
                           /\ \A p \in Proc : proc'[p].in # file'[s][r]
    BY DEF PathInv, Has
  <2>1. /\ file[s][r] \in fifos
        /\ \A t, v \in User : file[t][v] = file[s][r] => t = s /\ v = r
        /\ Unopened(s, r) =>
              /\ \A v \in User : ~Has(v, file[s][r])
              /\ \A p \in Proc : proc[p].in # file[s][r]
    BY <1>0, <1>1 DEF PathInv
  <2>2. Unopened(s, r) => q # file[s][r]
    BY <1>3, <2>1
  <2> QED
    BY <1>1, <1>4, <1>5, <1>6, <2>1, <2>2
<1>8. OwnerInv'
  <2>1. ASSUME NEW x \in fifos, NEW v \in User, x \in held'[v] \/ sh'[v].last_pipe = x
        PROVE  /\ \A w \in User : x \in held'[w] \/ sh'[w].last_pipe = x => v = w
               /\ \A p \in Proc : proc'[p].in # x
    <3>1. Has(v, x) /\ (v = u => x # q)
      BY <1>4, <2>1
    <3>2. x # q
      BY <1>0, <1>3, <3>1 DEF OwnerInv
    <3> QED
      BY <1>0, <1>4, <1>5, <3>1, <3>2 DEF OwnerInv
  <2> QED
    BY <1>1, <2>1 DEF OwnerInv, Has
<1>9. RingInv'
  <2>1. ASSUME NEW v \in User, NEW k \in Slots
        PROVE  sh'[v].pipes[k] \notin fifos
    <3>1. \A x \in fifos : ~(x > npipe)
      BY <1>0
    <3> QED
      BY <1>0, <1>2, <3>1, ZenonT(60) DEF RingInv
  <2> QED
    BY <1>1, <2>1 DEF RingInv
<1>10. ReadOnce'
  <2>1. \A p \in Proc : q \in fifos => proc[p].in # q
    BY <1>0, <1>3 DEF OwnerInv
  <2> QED
    BY <1>0, <1>1, <1>5, <2>1 DEF ReadOnce
<1> QED
  BY <1>7, <1>8, <1>9, <1>10

\* Commands go on reading what they read.
LEMMA CommandsRead ==
  ASSUME TypeOK, NEW p \in Proc, ProcStep(p)
  PROVE  UNCHANGED <<fifo, file, sh, held, fifos>> /\ \A x \in Proc : proc'[x].in = proc[x].in
<1>1. UNCHANGED <<fifo, file, sh, held, fifos>>
  BY DEF ProcStep, Write, Copy, End, shared
<1>2. ASSUME NEW x \in Proc
      PROVE  proc'[x].in = proc[x].in
  <2>1. proc \in [Proc -> ProcRec(npipe)] /\ proc[x] \in ProcRec(npipe)
    BY DEF TypeOK
  <2>2. proc' = proc \/ (\E st : proc' = [proc EXCEPT ![p] = [proc[p] EXCEPT !.st = st]])
        \/ proc' = [proc EXCEPT ![p] = [proc[p] EXCEPT !.left = @ - 1]]
    BY DEF ProcStep, Write, Copy, End
  <2> QED
    BY <2>1, <2>2 DEF ProcRec
<1> QED
  BY <1>1, <1>2

\* What was made, noted and read stays in step, in every execution in which nothing
\* falls between the steps that clear a FIFO.
THEOREM FifosInvariant == UndisturbedSpec => []FifoInv
<1>1. Init => FifoInv
  <2> SUFFICES ASSUME Init PROVE FifoInv
    OBVIOUS
  <2>1. TypeOK
    <3>1. NewShell \in ShellRec(0)
      <4>1. 0 \in Slots /\ [k \in Slots |-> NoPipe] \in [Slots -> 0 .. 0]
        BY BoundAssumption DEF Slots, NoPipe
      <4> QED
        BY <4>1 DEF NewShell, ShellRec, ShellPlace, NoPipe
    <3>2. NoFifo \in MailRec(0) /\ NoProc \in ProcRec(0)
      BY DEF NoFifo, MailRec, NoProc, ProcRec, NoPipe
    <3>3. buf \in [1 .. 0 -> 0 .. Capacity]
      BY DEF Init
    <3> QED
      BY <3>1, <3>2, <3>3, BoundAssumption DEF Init, TypeOK, Pipes, NoPipe
  <2>2. \A u \in User : sh[u].pc = "out" /\ \A k \in Slots : sh[u].pipes[k] \notin fifos
    BY DEF Init, NewShell
  <2>3. MailInv
    BY <2>2 DEF Init, MailInv, MailAt, MailOf, NoFifo, NoPipe, Pending, Unlinking, Unnaming, At
  <2>4. LineInv
    BY <2>2 DEF LineInv, LineOf, InLine, Sending, Clearing
  <2> QED
    BY <2>1, <2>2, <2>3, <2>4 DEF Init, FifoInv, PathInv, OwnerInv, RingInv, SignalInv, ReadOnce
<1>2. FifoInv /\ [Next /\ Undisturbed]_vars => FifoInv'
  <2> SUFFICES ASSUME FifoInv, [Next /\ Undisturbed]_vars PROVE FifoInv'
    OBVIOUS
  <2>0. TypeOK /\ LineInv /\ MailInv /\ PathInv /\ OwnerInv /\ RingInv /\ SignalInv /\ ReadOnce
    BY DEF FifoInv
  <2>1. TypeOK' /\ LineInv' /\ MailInv' /\ SignalInv'
    <3>1. [Next]_vars /\ [Step]_vars
      BY DEF Step
    <3> QED
      BY <2>0, <3>1, TypeStep, LineStep, MailStep, SignalStep
  <2>2. PathInv' /\ OwnerInv' /\ RingInv' /\ ReadOnce'
    <3>1. ASSUME UNCHANGED <<fifo, file, sh, held, fifos>>, \A p \in Proc : proc'[p].in = proc[p].in
          PROVE  PathInv' /\ OwnerInv' /\ RingInv' /\ ReadOnce'
      BY <2>0, <3>1 DEF PathInv, OwnerInv, RingInv, ReadOnce, Has, Unopened, Unlinking, First, At
    <3>2. CASE UNCHANGED vars
      BY <3>1, <3>2 DEF vars, shared, kernel
    <3>3. ASSUME NEW p \in Proc, ProcStep(p)
          PROVE  PathInv' /\ OwnerInv' /\ RingInv' /\ ReadOnce'
      BY <2>0, <3>1, <3>3, CommandsRead
    <3>4. ASSUME NEW u \in User, UserStep(u), Undisturbed
          PROVE  PathInv' /\ OwnerInv' /\ RingInv' /\ ReadOnce'
      <4>1. CASE ExecFork(u)
        BY <4>1, FifoTaken
      <4>2. CASE PlainStep(u)
        BY <3>4, <4>2, FifoMade, FifoOpened, LosingSteps
      <4> QED
        BY <3>4, <4>1, <4>2 DEF UserStep, ShellStep, Clears, PlainStep
    <3> QED
      BY <3>2, <3>3, <3>4 DEF Next, UserStep
  <2> QED
    BY <2>1, <2>2 DEF FifoInv
<1> QED
  BY <1>1, <1>2, PTL DEF UndisturbedSpec

\* However the shells, their handlers, those who leave and those that are killed
\* interleave, and unless a signal or a new FIFO falls between the steps that clear one,
\* a path is there exactly while its name is in the receiver's entry, its maker is about
\* to write it or was killed before, and a descriptor comes with a name (open_fifo_read,
\* deleteuser, Shell::execute).
THEOREM MailboxesWhole == UndisturbedSpec => []MailboxWhole
<1>1. FifoInv => MailboxWhole
  <2> SUFFICES ASSUME FifoInv, NEW s \in User, NEW r \in User
               PROVE  /\ fifo[r][s].fd # NoPipe => fifo[r][s].name /\ fifo[r][s].fd = file[s][r]
                      /\ fifo[r][s].name => file[s][r] # NoPipe \/ Forgotten(s, r)
                      /\ file[s][r] # NoPipe => fifo[r][s].name \/ (At(s, "name") /\ to(s) = r) \/ At(s, "killed")
    BY DEF FifoInv, MailboxWhole
  <2>1. MailAt(s, r)
    BY DEF FifoInv, MailInv
  <2> QED
    BY <2>1 DEF MailAt, MailOf, Pending, Unnaming, Forgotten
<1> QED
  BY <1>1, FifosInvariant, PTL

\* Under the same condition no two commands read the same FIFO, although a descriptor
\* that was read stays noted in its entry until the line that got the data is over
\* (Shell::execute, Task::exec).
THEOREM FifosReadOnce == UndisturbedSpec => []ReadOnce
<1>1. FifoInv => ReadOnce
  BY DEF FifoInv
<1> QED
  BY <1>1, FifosInvariant, PTL
=============================================================================
