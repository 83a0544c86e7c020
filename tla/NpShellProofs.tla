--------------------------- MODULE NpShellProofs ---------------------------
(***************************************************************************)
(* Proofs about NpShell, for every size of the ring, every capacity of the *)
(* kernel's pipes and every set of lines.                                  *)
(***************************************************************************)
EXTENDS NpShell, TLAPS

(***************************************************************************)
(* The inductive invariant.  TypeOK needs to know that the loop over the   *)
(* tasks stays within the line; SlotOwnership needs the types.             *)
(***************************************************************************)
LineInv == pc \in {"exec", "forward"} => idx \in 1 .. Len(line)

\* The shell calls exec again for the same command after a failed fork, and
\* only for it: no builtin runs while last_pipe is in use.
RetryInv == last_pipe # NoPipe => task.kind = "run"

RingInv == TypeOK /\ LineInv /\ RetryInv /\ SlotOwnership

-----------------------------------------------------------------------------
(* Positions in a ring of m slots.                                         *)

\* Quotient and remainder.
LEMMA DivMod ==
  ASSUME NEW m \in Nat \ {0}, NEW y \in Int
  PROVE  y \div m \in Int /\ y % m \in 0 .. m - 1 /\ y = m * (y \div m) + (y % m)
OBVIOUS

\* The remainder is the only number below m that differs from a by a multiple of m.
LEMMA ModUnique ==
  ASSUME NEW m \in Nat \ {0}, NEW a \in Int, NEW q \in Int, NEW s \in 0 .. m - 1, a = m * q + s
  PROVE  a % m = s
<1> DEFINE d == a \div m
           r == a % m
<1>1. d \in Int /\ r \in 0 .. m - 1 /\ a = m * d + r
  BY DivMod
<1>2. \A k \in Int : k >= 1 => m * k >= m
  OBVIOUS
<1>3. \A k \in Int : k <= -1 => m * k <= -m
  OBVIOUS
<1> HIDE DEF d, r
<1>4. q - d \in Int /\ m * (q - d) = r - s
  <2>1. m * (q - d) = m * q - m * d
    BY <1>1
  <2>2. m * q \in Int /\ m * d \in Int
    BY <1>1
  <2> QED
    BY <1>1, <2>1, <2>2
<1>5. r - s \in Int /\ r - s < m /\ r - s > -m
  BY <1>1
<1>6. q - d = 0
  <2>1. ~(q - d >= 1)
    BY <1>2, <1>4, <1>5
  <2>2. ~(q - d <= -1)
    BY <1>3, <1>4, <1>5
  <2> QED
    BY <1>4, <2>1, <2>2
<1>7. r - s = 0
  BY <1>4, <1>6
<1> QED
  BY <1>1, <1>7 DEF r

\* Adding n leaves a remainder as it was only when n is a multiple of m.
LEMMA ModAround ==
  ASSUME NEW m \in Nat \ {0}, NEW x \in 0 .. m - 1, NEW n \in Nat, (x + n) % m = x
  PROVE  n % m = 0
<1> DEFINE q == (x + n) \div m
<1>1. q \in Int /\ x + n = m * q + x
  <2>1. x + n \in Int
    OBVIOUS
  <2> QED
    BY <2>1, DivMod
<1> HIDE DEF q
<1>2. n = m * q + 0 /\ 0 \in 0 .. m - 1 /\ n \in Int
  <2>1. m * q \in Int
    BY <1>1
  <2> QED
    BY <1>1, <2>1
<1> QED
  BY <1>1, <1>2, ModUnique

\* n slots ahead is where n % m slots ahead is.
LEMMA ModPlus ==
  ASSUME NEW m \in Nat \ {0}, NEW x \in Nat, NEW n \in Nat
  PROVE  /\ n % m \in 0 .. m - 1
         /\ (x + n) % m = (x + (n % m)) % m
<1> DEFINE d == n \div m
           r == n % m
           e == (x + r) \div m
           s == (x + r) % m
<1>1. d \in Int /\ r \in 0 .. m - 1 /\ n = m * d + r
  BY DivMod
<1>2. x + r \in Int
  BY <1>1
<1> HIDE DEF d, r
<1>3. e \in Int /\ s \in 0 .. m - 1 /\ x + r = m * e + s
  BY <1>2, DivMod
<1> HIDE DEF e, s
<1>4. x + n = m * (d + e) + s /\ d + e \in Int /\ x + n \in Int
  <2>1. m * (d + e) = m * d + m * e
    BY <1>1, <1>3
  <2>2. m * d \in Int /\ m * e \in Int
    BY <1>1, <1>3
  <2> QED
    BY <1>1, <1>3, <2>1, <2>2
<1>5. (x + n) % m = s
  BY <1>3, <1>4, ModUnique
<1> QED
  BY <1>1, <1>5 DEF r, s

-----------------------------------------------------------------------------
(* The ring.                                                               *)

\* The position of any line ahead is a slot: the arithmetic of getpipe stays
\* within the array.
LEMMA SlotRange ==
  ASSUME TypeOK, NEW n \in Nat
  PROVE  Slot(n) \in Slots
<1>1. current_pos + n \in Nat /\ MaxPipe \in Nat \ {0}
  BY RingAssumption DEF TypeOK, Slots
<1> QED
  BY <1>1 DEF Slot, Slots

\* The slot of the line being executed is current_pos itself.
LEMMA SlotHere ==
  ASSUME TypeOK
  PROVE  Slot(0) = current_pos
<1>1. current_pos \in 0 .. MaxPipe - 1 /\ MaxPipe \in Nat \ {0}
  BY RingAssumption DEF TypeOK, Slots
<1> QED
  BY <1>1 DEF Slot

\* A ring over the kernel pipes 1 .. n that has no pipe twice.
RingOf(r, n) ==
  /\ r \in [Slots -> 0 .. n]
  /\ \A j, k \in Slots : r[j] = r[k] /\ r[j] # NoPipe => j = k

\* A slot that is given the next kernel pipe loses the one it had, if any.
LEMMA CreateRing ==
  ASSUME NEW n \in Nat, NEW r, RingOf(r, n), NEW k \in Slots
  PROVE  /\ RingOf(CreateAt(r, k, n + 1), n + 1)
         /\ CreateAt(r, k, n + 1)[k] = n + 1
         /\ \A j \in Slots : j # k => CreateAt(r, k, n + 1)[j] = r[j]
         /\ Enabled(CreateAt(r, k, n + 1)) = (Enabled(r) \ {r[k]}) \cup {n + 1}
<1> DEFINE c == CreateAt(r, k, n + 1)
<1>1. /\ c \in [Slots -> 0 .. n + 1]
      /\ c[k] = n + 1
      /\ \A j \in Slots : j # k => c[j] = r[j] /\ c[j] \in 0 .. n
  BY DEF CreateAt, RingOf
<1>2. RingOf(c, n + 1)
  BY <1>1 DEF RingOf
<1>3. Enabled(c) = (Enabled(r) \ {r[k]}) \cup {n + 1}
  BY <1>1 DEF Enabled, RingOf, NoPipe
<1> QED
  BY <1>1, <1>2, <1>3

\* What enablepipe does to a ring r over 1 .. n: it adds the pipe n + 1 or leaves
\* the ring as it is; c is the number of pipes it creates.
EnableFacts(r, s, n, c) ==
  /\ c \in Nat
  /\ RingOf(s, n + c)
  /\ Enabled(s) = Enabled(r) \cup (n + 1 .. n + c)
  /\ \A j \in Slots : r[j] # NoPipe => s[j] = r[j]

\* enablepipe creates at most one pipe, in an empty slot, and loses none.
LEMMA EnableRing ==
  ASSUME TypeOK,
         NEW n \in Nat, NEW r, RingOf(r, n), NEW m \in Nat \cup {NotPipe}
  PROVE  EnableFacts(r, Enable(r, m, n + 1), n, Count(r, m))
<1>1. CASE MustEnable(r, m)
  <2>1. m \in Nat /\ Slot(m) \in Slots /\ r[Slot(m)] = NoPipe
    BY <1>1, SlotRange DEF MustEnable
  <2>2. Enable(r, m, n + 1) = CreateAt(r, Slot(m), n + 1) /\ Count(r, m) = 1
    BY <1>1 DEF Enable, Count
  <2>3. NoPipe \notin Enabled(r)
    BY DEF Enabled
  <2> QED
    BY <2>1, <2>2, <2>3, CreateRing DEF EnableFacts
<1>2. CASE ~MustEnable(r, m)
  <2>1. Enable(r, m, n + 1) = r /\ Count(r, m) = 0
    BY <1>2 DEF Enable, Count
  <2> QED
    BY <2>1 DEF EnableFacts, RingOf
<1> QED
  BY <1>1, <1>2

\* The ring that Task::exec has built when it calls fork(): the current slot
\* has a new pipe, the pipe it had is last_pipe, and nothing else was lost.
LEMMA ExecRing ==
  ASSUME RingInv, pc = "exec"
  PROVE  /\ task \in Task
         /\ made \in Nat /\ made > npipe
         /\ RingOf(ring, made)
         /\ ring[current_pos] = npipe + 1
         /\ taken = pipes[current_pos] /\ taken \in 0 .. npipe
         /\ Enabled(ring) = (Enabled(pipes) \ {taken}) \cup (npipe + 1 .. made)
         /\ Enabled(pipes) \subseteq 1 .. npipe
<1>1. TypeOK /\ LineInv /\ SlotOwnership
  BY DEF RingInv
<1>2. task \in Task
  BY <1>1 DEF TypeOK, LineInv, task
<1>3. task.out \in Nat \cup {NotPipe} /\ task.err \in Nat \cup {NotPipe}
  BY <1>2 DEF Task
<1>4. /\ npipe \in Nat
      /\ current_pos \in Slots
      /\ RingOf(pipes, npipe)
  BY <1>1 DEF TypeOK, SlotOwnership, RingOf
<1>5. taken = pipes[current_pos]
  BY <1>1, SlotHere DEF taken, SlotOwnership, TypeOK
<1>6. taken \in 0 .. npipe /\ Enabled(pipes) \subseteq 1 .. npipe
  BY <1>4, <1>5 DEF RingOf, Enabled, NoPipe
<1>7. /\ RingOf(ring0, npipe + 1)
      /\ ring0[current_pos] = npipe + 1
      /\ Enabled(ring0) = (Enabled(pipes) \ {taken}) \cup {npipe + 1}
  BY <1>1, <1>4, <1>5, SlotHere, CreateRing DEF ring0
<1>8. /\ made1 \in Nat /\ made1 >= npipe + 1
      /\ RingOf(ring1, made1)
      /\ ring1[current_pos] = npipe + 1
      /\ Enabled(ring1) = Enabled(ring0) \cup (npipe + 2 .. made1)
  <2>1. npipe + 1 \in Nat /\ (npipe + 1) + 1 = npipe + 2 /\ npipe + 1 # NoPipe
    BY <1>4 DEF NoPipe
  <2>2. EnableFacts(ring0, Enable(ring0, task.out, (npipe + 1) + 1), npipe + 1, Count(ring0, task.out))
    BY <1>1, <1>3, <1>7, <2>1, EnableRing
  <2>3. EnableFacts(ring0, ring1, npipe + 1, Count(ring0, task.out))
    BY <2>1, <2>2 DEF ring1
  <2> QED
    BY <1>4, <1>7, <2>1, <2>3 DEF EnableFacts, made1
<1>9. /\ made \in Nat /\ made >= made1
      /\ RingOf(ring, made)
      /\ ring[current_pos] = npipe + 1
      /\ Enabled(ring) = Enabled(ring1) \cup (made1 + 1 .. made)
  <2>1. npipe + 1 # NoPipe
    BY <1>4 DEF NoPipe
  <2>2. EnableFacts(ring1, ring, made1, Count(ring1, task.err))
    BY <1>1, <1>3, <1>8, EnableRing DEF ring
  <2> QED
    BY <1>4, <1>8, <2>1, <2>2 DEF EnableFacts, made
<1>10. Enabled(ring) = (Enabled(pipes) \ {taken}) \cup (npipe + 1 .. made)
  BY <1>4, <1>7, <1>8, <1>9
<1> QED
  BY <1>2, <1>4, <1>5, <1>6, <1>8, <1>9, <1>10

-----------------------------------------------------------------------------
(* Types.                                                                  *)

\* A process record stays well formed when the kernel numbers more pipes.
LEMMA ProcRecGrows ==
  ASSUME NEW m \in Nat, NEW n \in Nat, m <= n
  PROVE  ProcRec(m) \subseteq ProcRec(n)
BY DEF ProcRec

\* What the shell has opened is numbered within what was made.
LEMMA OpenGrows ==
  ASSUME TypeOK, NEW n \in Nat, npipe <= n, NEW T
  PROVE  (open \cup (npipe + 1 .. n)) \ T \subseteq 1 .. n
<1> SUFFICES ASSUME NEW q \in (open \cup (npipe + 1 .. n)) \ T
             PROVE  q \in 1 .. n
  OBVIOUS
<1>1. q \in 1 .. npipe \/ q \in npipe + 1 .. n
  BY DEF TypeOK
<1> QED
  BY <1>1 DEF TypeOK

\* The child's record is well formed over the pipes made so far.
LEMMA ChildType ==
  ASSUME RingInv, pc = "exec"
  PROVE  Child \in ProcRec(made)
<1>1. TypeOK
  BY DEF RingInv
<1>2. /\ task \in Task /\ made \in Nat /\ made > npipe
      /\ RingOf(ring, made) /\ taken \in 0 .. npipe
  BY ExecRing
<1>3. task.out \in Nat \cup {NotPipe} /\ task.err \in Nat \cup {NotPipe}
  BY <1>2 DEF Task
<1>4. \A m \in Nat \cup {NotPipe} : Target(ring, m) \in 0 .. made
  BY <1>1, <1>2, SlotRange DEF RingOf, Target, NoPipe
<1>5. (open \cup (npipe + 1 .. made)) \ ClosedByChild \subseteq 1 .. made
  <2>1. npipe <= made
    BY <1>1, <1>2 DEF TypeOK
  <2> QED
    BY <1>1, <1>2, <2>1, OpenGrows
<1>6. /\ (IF task.reads THEN 0 ELSE task.size) \in Nat
      /\ task.reads \in BOOLEAN /\ task.onErr \in BOOLEAN
  BY <1>2 DEF Task
<1>7. taken \in 0 .. made /\ "running" \in Status
  BY <1>1, <1>2 DEF TypeOK, Status
<1> QED
  BY <1>3, <1>4, <1>5, <1>6, <1>7 DEF Child, ProcRec

\* The loop over the tasks keeps the type of its position and of pc.
LEMMA NextTaskType ==
  ASSUME TypeOK, LineInv, pc = "exec", NextTask
  PROVE  /\ pc' \in {"exec", "forward"}
         /\ idx' \in Nat \ {0}
         /\ idx' \in 1 .. Len(line)
BY DEF TypeOK, LineInv, NextTask

\* The steps that leave the kernel's pipes alone and those of the processes.
LEMMA TypeStep ==
  ASSUME RingInv, [Next]_vars
  PROVE  TypeOK'
<1>0. TypeOK /\ LineInv
  BY DEF RingInv
<1> USE <1>0
<1>1. CASE ReadLine
  <2>1. \A l \in Lines : l \in Seq(Task)
    BY LineAssumption
  <2> QED
    BY <1>1, <2>1, SMTT(30) DEF ReadLine, TypeOK, env, kernel
<1>2. CASE ReadEof \/ ExecExit
  <2>1. ASSUME NEW p \in Proc
        PROVE  [proc[p] EXCEPT !.st = "killed"] \in ProcRec(npipe)
    <3>1. proc[p] \in ProcRec(npipe)
      BY DEF TypeOK
    <3> QED
      BY ONLY <3>1 DEF ProcRec, Status
  <2>2. ExitShell
    BY <1>2 DEF ReadEof, ExecExit
  <2>3. proc' \in [Proc -> ProcRec(npipe)]
    BY <2>1, <2>2 DEF ExitShell, TypeOK
  <2> QED
    BY <2>2, <2>3 DEF ExitShell, TypeOK, env
<1>3. CASE ExecBuiltin
  BY <1>3, NextTaskType DEF ExecBuiltin, TypeOK, env, kernel
<1>4. CASE ExecFork
  <2>1. pc = "exec"
    BY <1>4 DEF ExecFork
  <2>2. /\ made \in Nat /\ made > npipe /\ RingOf(ring, made)
        /\ Child \in ProcRec(made)
        /\ nproc + 1 \in Proc /\ nproc + 1 \in 0 .. MaxFork
        /\ npipe \in Nat
    BY <1>4, <2>1, ExecRing, ChildType, BoundAssumption DEF ExecFork, TypeOK, Proc
  <2>3. proc' \in [Proc -> ProcRec(npipe')]
    <3>1. proc \in [Proc -> ProcRec(made)]
      BY <2>2, ProcRecGrows DEF TypeOK
    <3> QED
      BY <1>4, <2>2, <3>1 DEF ExecFork
  <2>4. pipes' \in [Slots -> 0 .. npipe'] /\ last_pipe' \in 0 .. npipe'
    <3>1. /\ pipes' = IF AfterLast THEN [ring EXCEPT ![Slot(0)] = NoPipe] ELSE ring
          /\ last_pipe' = NoPipe
          /\ npipe' = made
      BY <1>4 DEF ExecFork
    <3>2. ring \in [Slots -> 0 .. made] /\ 0 \in 0 .. made
      BY <2>2 DEF RingOf
    <3> QED
      BY <3>1, <3>2 DEF NoPipe
  <2>5. open' \subseteq 1 .. npipe'
    <3>1. /\ open' = (open \cup (npipe + 1 .. made)) \ ClosedByParent
          /\ npipe' = made
      BY <1>4 DEF ExecFork
    <3>2. npipe <= made
      BY <2>2
    <3> QED
      BY <2>2, <3>1, <3>2, OpenGrows
  <2>6. buf' \in [1 .. npipe' -> 0 .. Capacity]
    BY <1>4, <2>2, BoundAssumption DEF ExecFork, TypeOK
  <2>7. child_processes' \in [Slots -> SUBSET Proc]
    BY <1>4, <2>2, SlotRange DEF ExecFork, TypeOK
  <2> QED
    BY <1>4, <2>1, <2>2, <2>3, <2>4, <2>5, <2>6, <2>7, NextTaskType DEF ExecFork, TypeOK
<1>5. CASE ExecForkError
  <2>1. pc = "exec"
    BY <1>5 DEF ExecForkError
  <2>2. /\ made \in Nat /\ made > npipe /\ RingOf(ring, made)
        /\ taken \in 0 .. made /\ npipe \in Nat
    BY <2>1, ExecRing DEF TypeOK
  <2>3. proc' \in [Proc -> ProcRec(npipe')]
    BY <1>5, <2>2, ProcRecGrows DEF TypeOK, ExecForkError
  <2>4. pipes' \in [Slots -> 0 .. npipe'] /\ last_pipe' \in 0 .. npipe'
    BY <1>5, <2>2 DEF ExecForkError, RingOf
  <2>5. open' \subseteq 1 .. npipe'
    <3>1. /\ open' = (open \cup (npipe + 1 .. made)) \ {ring[Slot(0)]}
          /\ npipe' = made
      BY <1>5 DEF ExecForkError
    <3>2. npipe <= made
      BY <2>2
    <3> QED
      BY <2>2, <3>1, <3>2, OpenGrows
  <2>6. buf' \in [1 .. npipe' -> 0 .. Capacity]
    BY <1>5, <2>2, BoundAssumption DEF ExecForkError, TypeOK
  <2>7. forkErrors' \in 0 .. MaxForkError
    BY <1>5, BoundAssumption DEF ExecForkError, TypeOK
  <2> QED
    BY <1>5, <2>2, <2>3, <2>4, <2>5, <2>6, <2>7 DEF ExecForkError, TypeOK
<1>6. CASE Forward
  <2>1. lastTask.out \in Nat \cup {NotPipe}
    <3>1. Len(line) \in 1 .. Len(line)
      BY <1>6 DEF Forward, LineInv, TypeOK
    <3>2. lastTask \in Task
      BY <3>1 DEF TypeOK, lastTask
    <3> QED
      BY <3>2 DEF Task
  <2>2. child_processes' \in [Slots -> SUBSET Proc]
    BY <1>6, <2>1, SlotRange DEF Forward, Forwarded, TypeOK
  <2> QED
    BY <1>6, <2>2 DEF Forward, TypeOK, kernel
<1>7. CASE EndLine
  <2>1. current_pos' \in Slots
    <3>1. current_pos + 1 \in Nat /\ MaxPipe \in Nat \ {0}
      BY RingAssumption DEF TypeOK, Slots
    <3> QED
      BY <1>7, <3>1 DEF EndLine, NextPos, Slots
  <2>2. open' \subseteq 1 .. npipe' /\ pipes' \in [Slots -> 0 .. npipe']
    <3>1. npipe' = npipe /\ open' = open \ {pipes[current_pos]} /\ npipe \in Nat
      BY <1>7 DEF EndLine, TypeOK
    <3>2. open' \subseteq 1 .. npipe'
      BY <3>1 DEF TypeOK
    <3>3. pipes' = [pipes EXCEPT ![current_pos] = NoPipe] /\ NoPipe \in 0 .. npipe
      BY <1>7, <3>1 DEF EndLine, NoPipe
    <3> QED
      BY <3>1, <3>2, <3>3 DEF TypeOK
  <2>3. lineno' \in Nat /\ child_processes' \in [Slots -> SUBSET Proc] /\ pc' = "prompt"
    BY <1>7 DEF EndLine, TypeOK
  <2> QED
    BY <1>7, <2>1, <2>2, <2>3 DEF EndLine, TypeOK
<1>8. ASSUME NEW p \in Proc, ProcStep(p)
      PROVE  TypeOK'
  <2>1. /\ proc[p] \in ProcRec(npipe) /\ npipe \in Nat
        /\ proc[p].left \in Nat
    BY DEF TypeOK, ProcRec
  <2>2. CASE Write(p)
    <3>1. /\ [proc[p] EXCEPT !.st = "sigpipe"] \in ProcRec(npipe)
          /\ proc[p].left > 0 => [proc[p] EXCEPT !.left = proc[p].left - 1] \in ProcRec(npipe)
      BY <2>1 DEF ProcRec, Status
    <3>2. Sink(p) \in 0 .. npipe
      BY <2>1 DEF Sink, ProcRec
    <3>3. proc' \in [Proc -> ProcRec(npipe)]
      BY <2>2, <3>1 DEF Write, CanWrite, TypeOK
    <3>4. buf' \in [1 .. npipe -> 0 .. Capacity]
      BY <2>2, <3>2, BoundAssumption, SMTT(30) DEF Write, CanWrite, TypeOK, NoPipe
    <3> QED
      BY <2>2, <3>3, <3>4 DEF Write, TypeOK, env
  <2>3. CASE Read(p)
    <3>1. [proc[p] EXCEPT !.left = 1] \in ProcRec(npipe) /\ proc[p].in \in 0 .. npipe
      BY <2>1 DEF ProcRec
    <3>2. proc' \in [Proc -> ProcRec(npipe)]
      BY <2>3, <3>1 DEF Read, TypeOK
    <3>3. buf' \in [1 .. npipe -> 0 .. Capacity]
      BY <2>3, <3>1, BoundAssumption, SMTT(30) DEF Read, CanRead, TypeOK, NoPipe
    <3> QED
      BY <2>3, <3>2, <3>3 DEF Read, TypeOK, env
  <2>4. CASE End(p)
    <3>1. [proc[p] EXCEPT !.st = "done"] \in ProcRec(npipe)
      BY <2>1 DEF ProcRec, Status
    <3> QED
      BY <2>4, <3>1 DEF End, TypeOK, env
  <2> QED
    BY <1>8, <2>2, <2>3, <2>4 DEF ProcStep
<1>9. CASE UNCHANGED vars
  BY <1>9 DEF vars, env, kernel, TypeOK
<1> QED
  BY <1>1, <1>2, <1>3, <1>4, <1>5, <1>6, <1>7, <1>8, <1>9 DEF Next, ShellStep

-----------------------------------------------------------------------------
(* The loop over the tasks and the ownership of the pipes.                 *)

\* Every step keeps the position of the loop within the line.
LEMMA LineStep ==
  ASSUME RingInv, [Next]_vars
  PROVE  LineInv'
<1>0. TypeOK /\ LineInv
  BY DEF RingInv
<1>1. CASE ReadLine
  <2>1. \A l \in Lines : l \in Seq(Task)
    BY LineAssumption
  <2> QED
    BY <1>1, <2>1 DEF ReadLine, LineInv
<1>2. CASE ReadEof \/ ExecExit \/ Forward \/ EndLine
  BY <1>2 DEF ReadEof, ExecExit, ExitShell, Forward, EndLine, LineInv
<1>3. CASE ExecBuiltin \/ ExecFork
  BY <1>0, <1>3, NextTaskType DEF ExecBuiltin, ExecFork, LineInv
<1>4. CASE ExecForkError
  BY <1>0, <1>4 DEF ExecForkError, LineInv
<1>5. CASE \E p \in Proc : ProcStep(p)
  BY <1>0, <1>5 DEF ProcStep, Write, Read, End, LineInv
<1>6. CASE UNCHANGED vars
  BY <1>0, <1>6 DEF vars, LineInv
<1> QED
  BY <1>1, <1>2, <1>3, <1>4, <1>5, <1>6 DEF Next, ShellStep

\* Every step keeps last_pipe empty but between the tries of one fork.
LEMMA RetryStep ==
  ASSUME RingInv, [Next]_vars
  PROVE  RetryInv'
<1>0. RetryInv /\ (pc \in {"prompt", "forward", "wait"} => last_pipe = NoPipe)
  BY DEF RingInv, SlotOwnership
<1>1. CASE ReadLine \/ Forward \/ EndLine \/ ReadEof \/ ExecExit
  BY <1>0, <1>1 DEF ReadLine, Forward, EndLine, ReadEof, ExecExit, ExitShell, RetryInv, env, task
<1>2. CASE ExecBuiltin
  BY <1>0, <1>2 DEF ExecBuiltin, RetryInv, env
<1>3. CASE ExecFork
  BY <1>3 DEF ExecFork, RetryInv
<1>4. CASE ExecForkError
  BY <1>4 DEF ExecForkError, RetryInv, task
<1>5. CASE \E p \in Proc : ProcStep(p)
  BY <1>0, <1>5 DEF ProcStep, Write, Read, End, RetryInv, env, task
<1>6. CASE UNCHANGED vars
  BY <1>0, <1>6 DEF vars, env, RetryInv, task
<1> QED
  BY <1>1, <1>2, <1>3, <1>4, <1>5, <1>6 DEF Next, ShellStep

\* A slot is emptied: the ring loses exactly the pipe that was in it.
LEMMA ClearSlot ==
  ASSUME NEW n \in Nat, NEW r, RingOf(r, n), NEW k \in Slots
  PROVE  /\ RingOf([r EXCEPT ![k] = NoPipe], n)
         /\ Enabled([r EXCEPT ![k] = NoPipe]) = Enabled(r) \ {r[k]}
<1> DEFINE c == [r EXCEPT ![k] = NoPipe]
<1>1. /\ c \in [Slots -> 0 .. n]
      /\ c[k] = NoPipe
      /\ \A j \in Slots : j # k => c[j] = r[j]
  BY DEF RingOf, NoPipe
<1>2. RingOf(c, n)
  BY <1>1 DEF RingOf
<1>3. Enabled(c) = Enabled(r) \ {r[k]}
  BY <1>1 DEF Enabled, RingOf
<1> QED
  BY <1>2, <1>3

\* Every step keeps SlotOwnership: the steps that touch the ring close a pipe
\* exactly when they take it out of its slot.
LEMMA OwnershipStep ==
  ASSUME RingInv, [Next]_vars
  PROVE  SlotOwnership'
<1>0. \/ TypeOK /\ SlotOwnership /\ RingOf(pipes, npipe) /\ npipe \in Nat /\ current_pos \in Slots
      \/ pc = "exited"
  BY DEF RingInv, SlotOwnership, TypeOK, RingOf
<1>1. CASE ReadLine \/ ExecBuiltin
  <2>1. /\ pc # "exited"
        /\ pc' = "exited" \/ pc' = "prompt" \/ pc' = "exec" \/ pc = "exec"
        /\ pc = "exec" => task.kind = "builtin"
        /\ UNCHANGED <<current_pos, pipes, last_pipe, open>>
    BY <1>1 DEF ReadLine, ExecBuiltin, NextTask, env, kernel
  <2>2. last_pipe = NoPipe
    BY <1>0, <2>1 DEF RingInv, RetryInv, SlotOwnership
  <2> QED
    BY <1>0, <2>1, <2>2 DEF SlotOwnership, Enabled
<1>2. CASE ReadEof \/ ExecExit
  BY <1>2 DEF ReadEof, ExecExit, ExitShell, SlotOwnership
<1>3. CASE ExecFork
  <2>1. pc = "exec" /\ pc' \in {"exec", "forward"}
    BY <1>3 DEF ExecFork, NextTask
  <2>2. /\ open = Enabled(pipes) /\ npipe \in Nat /\ current_pos \in Slots
        /\ Slot(0) = current_pos
    BY <2>1, <1>0, SlotHere DEF SlotOwnership
  <2>3. /\ made \in Nat /\ made > npipe
        /\ RingOf(ring, made)
        /\ ring[current_pos] = npipe + 1
        /\ taken \in 0 .. npipe
        /\ Enabled(ring) = (Enabled(pipes) \ {taken}) \cup (npipe + 1 .. made)
    BY <2>1, ExecRing
  <2>4. taken \notin npipe + 1 .. made
    BY <2>2, <2>3
  <2>5. (open \cup (npipe + 1 .. made)) \ {taken} = Enabled(ring)
    BY <2>2, <2>3, <2>4
  <2>6. open' = Enabled(pipes')
    <3>1. CASE AfterLast
      <4>1. pipes' = [ring EXCEPT ![current_pos] = NoPipe]
        BY <1>3, <2>2, <3>1 DEF ExecFork
      <4>2. open' = Enabled(ring) \ {ring[current_pos]}
        BY <1>3, <2>2, <2>5, <3>1 DEF ExecFork, ClosedByParent
      <4>3. Enabled([ring EXCEPT ![current_pos] = NoPipe]) = Enabled(ring) \ {ring[current_pos]}
        <5>1. RingOf(ring, made) /\ made \in Nat /\ current_pos \in Slots
          BY <2>2, <2>3
        <5> QED
          BY ONLY <5>1, ClearSlot
      <4> QED
        BY <4>1, <4>2, <4>3
    <3>2. CASE ~AfterLast
      BY <1>3, <2>5, <3>2 DEF ExecFork, ClosedByParent
    <3> QED
      BY <3>1, <3>2
  <2>7. RingOf(pipes', made)
    BY <1>3, <2>2, <2>3, ClearSlot DEF ExecFork
  <2>8. last_pipe' = NoPipe
    BY <1>3 DEF ExecFork
  <2> QED
    BY <2>6, <2>7, <2>8 DEF SlotOwnership, RingOf, Enabled
<1>4. CASE ExecForkError
  <2>1. pc = "exec" /\ pc' = "exec" /\ current_pos' = current_pos
    BY <1>4 DEF ExecForkError
  <2>2. /\ open = Enabled(pipes) /\ npipe \in Nat /\ current_pos \in Slots
        /\ Slot(0) = current_pos
    BY <2>1, <1>0, SlotHere DEF SlotOwnership
  <2>3. /\ made \in Nat /\ made > npipe
        /\ RingOf(ring, made)
        /\ ring[current_pos] = npipe + 1
        /\ taken = pipes[current_pos] /\ taken \in 0 .. npipe
        /\ Enabled(ring) = (Enabled(pipes) \ {taken}) \cup (npipe + 1 .. made)
    BY <2>1, ExecRing
  <2>4. taken \notin npipe + 1 .. made /\ taken \in 0 .. made
    BY <2>2, <2>3
  <2>5. taken \notin Enabled(ring)
    BY <2>3, <2>4
  <2>6. pipes' = [ring EXCEPT ![current_pos] = taken]
    BY <1>4, <2>2 DEF ExecForkError
  <2>7. /\ RingOf(pipes', made)
        /\ Enabled(pipes') = (Enabled(ring) \ {npipe + 1}) \cup ({taken} \ {NoPipe})
    <3>1. /\ pipes' \in [Slots -> 0 .. made]
          /\ pipes'[current_pos] = taken
          /\ \A j \in Slots : j # current_pos => pipes'[j] = ring[j]
      BY <2>2, <2>3, <2>4, <2>6 DEF RingOf
    <3>2. RingOf(pipes', made)
      BY <2>2, <2>5, <3>1, <2>3 DEF RingOf, Enabled
    <3>3. Enabled(pipes') = (Enabled(ring) \ {ring[current_pos]}) \cup ({taken} \ {NoPipe})
      BY <2>2, <2>3, <3>1 DEF Enabled, RingOf
    <3> QED
      BY <2>3, <3>2, <3>3
  <2>8. open' = Enabled(pipes')
    <3>1. open' = (Enabled(pipes) \cup (npipe + 1 .. made)) \ {npipe + 1}
      BY <1>4, <2>2, <2>3 DEF ExecForkError
    <3>2. taken \in Enabled(pipes) \/ taken = NoPipe
      BY <2>2, <2>3 DEF Enabled
    <3>3. NoPipe \notin Enabled(pipes) /\ taken # npipe + 1
      BY <2>2, <2>3 DEF Enabled
    <3> QED
      BY <2>3, <2>7, <3>1, <3>2, <3>3
  <2>9. last_pipe' = taken /\ pipes'[current_pos] = taken
    BY <1>4, <2>2, <2>3, <2>6 DEF ExecForkError, RingOf
  <2> QED
    BY <2>1, <2>7, <2>8, <2>9 DEF SlotOwnership, RingOf, Enabled
<1>5. CASE Forward
  BY <1>5 DEF Forward, RingInv, SlotOwnership, kernel, Enabled
<1>6. CASE EndLine
  <2>1. /\ pipes' = [pipes EXCEPT ![current_pos] = NoPipe]
        /\ open' = open \ {pipes[current_pos]}
        /\ last_pipe' = last_pipe
        /\ pc = "wait"
    BY <1>6 DEF EndLine
  <2>2. RingOf(pipes', npipe) /\ Enabled(pipes') = Enabled(pipes) \ {pipes[current_pos]}
    BY <1>0, <2>1, ClearSlot
  <2> QED
    BY <1>0, <2>1, <2>2 DEF SlotOwnership, RingOf, Enabled
<1>7. CASE \E p \in Proc : ProcStep(p)
  BY <1>7 DEF ProcStep, Write, Read, End, RingInv, SlotOwnership, env, Enabled
<1>8. CASE UNCHANGED vars
  BY <1>8 DEF vars, env, kernel, RingInv, SlotOwnership, Enabled
<1> QED
  BY <1>1, <1>2, <1>3, <1>4, <1>5, <1>6, <1>7, <1>8 DEF Next, ShellStep

-----------------------------------------------------------------------------
(* The theorems.                                                           *)

\* The shell starts with an empty ring.
LEMMA RingInit == Init => RingInv
<1> SUFFICES ASSUME Init PROVE RingInv
  OBVIOUS
<1>1. TypeOK
  <2>1. NoProc \in ProcRec(0)
    BY DEF NoProc, ProcRec, Status, NoPipe
  <2>2. 0 \in Slots /\ 0 \in 0 .. MaxFork /\ 0 \in 0 .. MaxForkError
    BY RingAssumption, BoundAssumption DEF Slots
  <2> QED
    BY <2>1, <2>2 DEF Init, TypeOK, NoPipe
<1>2. LineInv /\ RetryInv
  BY DEF Init, LineInv, RetryInv
<1>3. SlotOwnership
  BY DEF Init, SlotOwnership, Enabled
<1> QED
  BY <1>1, <1>2, <1>3 DEF RingInv

\* The invariant is inductive.
LEMMA RingStep == RingInv /\ [Next]_vars => RingInv'
BY TypeStep, LineStep, RetryStep, OwnershipStep DEF RingInv

\* The inductive invariant holds in every reachable state of the shell.
THEOREM RingInvariant == Spec => []RingInv
BY RingInit, RingStep, PTL DEF Spec

\* The state of the shell, of its processes and of the kernel's pipes keeps its
\* type whatever the user types and however forks fail.
THEOREM TypeCorrect == Spec => []TypeOK
<1>1. RingInv => TypeOK
  BY DEF RingInv
<1> QED
  BY <1>1, RingInvariant, PTL

\* The shell never loses a kernel pipe and never holds one twice, for every ring
\* size, every set of lines (|n may wrap around the ring) and every failed fork.
THEOREM PipesOwned == Spec => []SlotOwnership
<1>1. RingInv => SlotOwnership
  BY DEF RingInv
<1> QED
  BY <1>1, RingInvariant, PTL

\* A process keeps its pipe ends, and does not start to run again, when its
\* status or what it has left to write changes.
LEMMA RecordUpdate ==
  ASSUME TypeOK, NEW p \in Proc, NEW x
  PROVE  /\ [proc[p] EXCEPT !.st = x].held = proc[p].held
         /\ [proc[p] EXCEPT !.st = x].st = x
         /\ [proc[p] EXCEPT !.left = x].held = proc[p].held
         /\ [proc[p] EXCEPT !.left = x].st = proc[p].st
<1>1. proc[p] \in ProcRec(npipe)
  BY DEF TypeOK
<1> QED
  BY <1>1 DEF ProcRec

\* A step of a process changes the record of that process alone, and starts none.
LEMMA ProcFrame ==
  ASSUME TypeOK, NEW p \in Proc, ProcStep(p), NEW q \in Proc
  PROVE  /\ proc'[q].held = proc[q].held
         /\ proc'[q].st = "running" => proc[q].st = "running"
<1>1. CASE q # p
  BY <1>1 DEF ProcStep, Write, Read, End, TypeOK
<1>2. CASE q = p
  <2>1. \/ proc'[p] = [proc[p] EXCEPT !.left = proc[p].left - 1]
        \/ proc'[p] = [proc[p] EXCEPT !.left = 1]
        \/ proc'[p] = [proc[p] EXCEPT !.st = "sigpipe"]
        \/ proc'[p] = [proc[p] EXCEPT !.st = "done"]
    BY DEF ProcStep, Write, Read, End, TypeOK
  <2>2. proc[p] \in ProcRec(npipe)
    BY DEF TypeOK
  <2>3. proc'[p].held = proc[p].held /\ proc'[p].st \in {proc[p].st, "sigpipe", "done"}
    BY <2>1, <2>2 DEF ProcRec
  <2> QED
    BY <1>2, <2>3
<1> QED
  BY <1>1, <1>2

\* exit_shell changes nothing of a process but that it no longer runs.
LEMMA ExitFrame ==
  ASSUME TypeOK, ExitShell, NEW q \in Proc
  PROVE  /\ proc'[q].held = proc[q].held
         /\ (\E k \in Slots : q \in child_processes[k]) => proc'[q].st # "running"
<1>1. proc'[q] = IF Running(q) /\ \E k \in Slots : q \in child_processes[k]
                   THEN [proc[q] EXCEPT !.st = "killed"] ELSE proc[q]
  BY DEF ExitShell
<1> QED
  BY <1>1, RecordUpdate DEF Running

\* No step gives a process a pipe end that is not one of its streams.
LEMMA InheritedStep ==
  ASSUME RingInv, NoInheritedEnds, [Next]_vars
  PROVE  NoInheritedEnds'
<1>0. TypeOK /\ \A p \in Proc : proc[p].held = {}
  BY DEF RingInv, NoInheritedEnds
<1>1. CASE ReadLine \/ ExecBuiltin \/ ExecForkError \/ Forward \/ EndLine \/ UNCHANGED vars
  BY <1>0, <1>1 DEF ReadLine, ExecBuiltin, ExecForkError, Forward, EndLine, NoInheritedEnds, kernel, vars
<1>2. CASE ReadEof \/ ExecExit
  BY <1>0, <1>2, ExitFrame DEF ReadEof, ExecExit, NoInheritedEnds
<1>3. CASE ExecFork
  <2>1. pc = "exec"
    BY <1>3 DEF ExecFork
  <2>2. /\ open = Enabled(pipes)
        /\ Enabled(ring) = (Enabled(pipes) \ {taken}) \cup (npipe + 1 .. made)
    BY <2>1, ExecRing DEF RingInv, SlotOwnership
  <2>3. Child.held = {}
    BY <2>2 DEF Child, ClosedByChild
  <2> QED
    BY <1>0, <1>3, <2>3 DEF ExecFork, NoInheritedEnds, TypeOK
<1>4. CASE \E p \in Proc : ProcStep(p)
  BY <1>0, <1>4, ProcFrame DEF NoInheritedEnds
<1> QED
  BY <1>1, <1>2, <1>3, <1>4 DEF Next, ShellStep

\* No command starts with the end of a pipe that is not one of its streams: the
\* end of a command's output is seen by its reader as soon as its writers end.
THEOREM NothingInherited == Spec => []NoInheritedEnds
<1>1. Init => NoInheritedEnds
  BY DEF Init, NoInheritedEnds, NoProc
<1> QED
  BY <1>1, InheritedStep, RingInvariant, PTL DEF Spec

-----------------------------------------------------------------------------
(* No command is lost, when no line is piped to itself around the ring.    *)

\* No line is piped to its own slot: as many lines ahead as there are slots would be.
NotOntoItself ==
  \A l \in Lines : l # <<>> /\ l[Len(l)].out # NotPipe => l[Len(l)].out % MaxPipe # 0

LineKnown == pc \in {"exec", "forward"} => line \in Lines /\ line # <<>>

\* The line being executed is a line that was typed.
LEMMA KnownStep ==
  ASSUME LineKnown, [Next]_vars
  PROVE  LineKnown'
BY DEF LineKnown, Next, ShellStep, ReadLine, ReadEof, ExecExit, ExitShell, ExecBuiltin, ExecFork,
       ExecForkError, NextTask, Forward, EndLine, ProcStep, Write, Read, End, vars

\* A line piped ahead, but not around the whole ring, is not piped to itself.
LEMMA OtherSlot ==
  ASSUME TypeOK, NEW n \in Nat, n % MaxPipe # 0
  PROVE  Slot(n) \in Slots /\ Slot(n) # current_pos
<1>1. current_pos \in 0 .. MaxPipe - 1 /\ MaxPipe \in Nat \ {0}
  BY RingAssumption DEF TypeOK, Slots
<1> QED
  BY <1>1, SlotRange, ModAround DEF Slot

\* Where the line being executed is piped to.
LEMMA LastOut ==
  ASSUME NotOntoItself, TypeOK, LineKnown, pc = "forward"
  PROVE  \/ lastTask.out = NotPipe
         \/ lastTask.out \in Nat /\ lastTask.out % MaxPipe # 0 /\ lastTask.out # NotPipe
<1>1. line \in Seq(Task) /\ line # <<>> /\ line \in Lines
  BY DEF TypeOK, LineKnown
<1>2. lastTask \in Task
  BY <1>1 DEF lastTask
<1>3. lastTask.out \in Nat \cup {NotPipe}
  BY <1>2 DEF Task
<1> QED
  BY <1>1, <1>3 DEF NotOntoItself, lastTask, NotPipe

\* No step takes a running command off every list.
LEMMA AccountedStep ==
  ASSUME NotOntoItself, RingInv, LineKnown, ChildrenAccounted, [Next]_vars
  PROVE  ChildrenAccounted'
<1>0. TypeOK /\ Slot(0) = current_pos /\ current_pos \in Slots
  BY SlotHere DEF RingInv, TypeOK
<1>1. CASE ReadLine \/ ExecBuiltin \/ ExecForkError \/ UNCHANGED vars
  BY <1>1 DEF ReadLine, ExecBuiltin, ExecForkError, NextTask, ChildrenAccounted, Running, env, kernel, vars
<1>2. CASE ReadEof \/ ExecExit
  <2>1. \A p \in Proc : ~Running(p)'
    <3>1. ASSUME NEW p \in Proc, ~\E k \in Slots : p \in child_processes[k]
          PROVE  ~Running(p)'
      BY <1>2, <3>1 DEF ReadEof, ExecExit, ExitShell, ChildrenAccounted, Running
    <3>2. ASSUME NEW p \in Proc, \E k \in Slots : p \in child_processes[k]
          PROVE  ~Running(p)'
      BY <1>0, <1>2, <3>2, ExitFrame DEF ReadEof, ExecExit, Running
    <3> QED
      BY <3>1, <3>2
  <2> QED
    BY <2>1 DEF ChildrenAccounted
<1>3. CASE ExecFork
  BY <1>0, <1>3 DEF ExecFork, NextTask, ChildrenAccounted, Running, TypeOK
<1>4. CASE Forward
  <2>1. lastTask.out = NotPipe \/ (lastTask.out \in Nat /\ lastTask.out % MaxPipe # 0 /\ lastTask.out # NotPipe)
    BY <1>0, <1>4, LastOut DEF Forward
  <2>2. CASE lastTask.out = NotPipe
    BY <1>4, <2>2 DEF Forward, ChildrenAccounted, Running, kernel
  <2>3. CASE lastTask.out \in Nat /\ lastTask.out % MaxPipe # 0 /\ lastTask.out # NotPipe
    <3>1. /\ Slot(lastTask.out) \in Slots /\ Slot(lastTask.out) # current_pos
          /\ lastTask.out # NotPipe
      BY <1>0, <2>3, OtherSlot
    <3>2. \A p \in Proc, k \in Slots :
            p \in child_processes[k] => \E j \in Slots : p \in child_processes'[j]
      BY <1>0, <1>4, <3>1 DEF Forward, Forwarded, TypeOK
    <3> QED
      BY <1>4, <3>2 DEF Forward, ChildrenAccounted, Running, kernel
  <2> QED
    BY <2>1, <2>2, <2>3
<1>5. CASE EndLine
  BY <1>0, <1>5 DEF EndLine, ChildrenAccounted, Running, TypeOK
<1>6. CASE \E p \in Proc : ProcStep(p)
  <2>1. PICK p \in Proc : ProcStep(p)
    BY <1>6
  <2>2. \A q \in Proc : Running(q)' => Running(q)
    BY <1>0, <2>1, ProcFrame DEF Running
  <2>3. UNCHANGED <<pc, child_processes>>
    BY <2>1 DEF ProcStep, Write, Read, End, env
  <2> QED
    BY <2>2, <2>3 DEF ChildrenAccounted
<1> QED
  BY <1>1, <1>2, <1>3, <1>4, <1>5, <1>6 DEF Next, ShellStep

\* When no line is piped around the whole ring, every command that runs is on the
\* list of a line to come or to end, and the shell leaves none behind on exit.
THEOREM NoCommandLost ==
  ASSUME NotOntoItself
  PROVE  Spec => []ChildrenAccounted
<1>1. Init => LineKnown /\ ChildrenAccounted
  BY DEF Init, LineKnown, ChildrenAccounted, Running, NoProc
<1>2. Spec => []LineKnown
  BY <1>1, KnownStep, PTL DEF Spec
<1>3. RingInv /\ LineKnown /\ ChildrenAccounted /\ [Next]_vars => ChildrenAccounted'
  BY AccountedStep
<1> QED
  BY <1>1, <1>2, <1>3, RingInvariant, PTL DEF Spec

-----------------------------------------------------------------------------
(* The slots of the lines ahead.                                           *)

\* The slot that is a lines ahead, with the wrap spelt out.
LEMMA SlotWraps ==
  ASSUME TypeOK, NEW a \in Slots
  PROVE  /\ Slot(a) \in Slots
         /\ Slot(a) = IF current_pos + a < MaxPipe THEN current_pos + a ELSE current_pos + a - MaxPipe
<1>1. current_pos \in 0 .. MaxPipe - 1 /\ a \in 0 .. MaxPipe - 1 /\ MaxPipe \in Nat \ {0}
  BY RingAssumption DEF TypeOK, Slots
<1>2. CASE current_pos + a < MaxPipe
  <2>1. Slot(a) = current_pos + a
    BY <1>1, <1>2 DEF Slot
  <2> QED
    BY <1>1, <1>2, <2>1 DEF Slots
<1>3. CASE current_pos + a >= MaxPipe
  <2>1. Slot(a) = current_pos + a - MaxPipe
    BY <1>1, <1>3 DEF Slot
  <2> QED
    BY <1>1, <1>3, <2>1 DEF Slots
<1> QED
  BY <1>1, <1>2, <1>3

\* Two lines of the ring do not share a slot.
LEMMA SlotApart ==
  ASSUME TypeOK, NEW a \in Slots, NEW b \in Slots, Slot(a) = Slot(b)
  PROVE  a = b
<1>1. current_pos \in 0 .. MaxPipe - 1 /\ a \in 0 .. MaxPipe - 1 /\ b \in 0 .. MaxPipe - 1 /\ MaxPipe \in Nat \ {0}
  BY RingAssumption DEF TypeOK, Slots
<1>2. /\ Slot(a) = IF current_pos + a < MaxPipe THEN current_pos + a ELSE current_pos + a - MaxPipe
      /\ Slot(b) = IF current_pos + b < MaxPipe THEN current_pos + b ELSE current_pos + b - MaxPipe
      /\ Slot(a) = Slot(b)
  BY SlotWraps
<1> QED
  BY ONLY <1>1, <1>2

\* When the line is over, the next line's slot is the first, and the slot just left
\* is that of the line that enters the ring.
LEMMA SlotTurns ==
  ASSUME TypeOK, NEW a \in Slots
  PROVE  (NextPos + a) % MaxPipe = IF a + 1 \in Slots THEN Slot(a + 1) ELSE current_pos
<1>1. current_pos \in 0 .. MaxPipe - 1 /\ a \in 0 .. MaxPipe - 1 /\ MaxPipe \in Nat \ {0}
  BY RingAssumption DEF TypeOK, Slots
<1>2. NextPos = IF current_pos + 1 = MaxPipe THEN 0 ELSE current_pos + 1
  <2>1. CASE current_pos + 1 = MaxPipe
    BY <1>1, <2>1 DEF NextPos
  <2>2. CASE current_pos + 1 < MaxPipe
    BY <1>1, <2>2 DEF NextPos
  <2> QED
    BY <1>1, <2>1, <2>2
<1>3. (NextPos + a) % MaxPipe = IF NextPos + a < MaxPipe THEN NextPos + a ELSE NextPos + a - MaxPipe
  <2>1. NextPos \in 0 .. MaxPipe - 1
    BY <1>1, <1>2
  <2>2. CASE NextPos + a < MaxPipe
    BY <1>1, <2>1, <2>2
  <2>3. CASE NextPos + a >= MaxPipe
    BY <1>1, <2>1, <2>3
  <2> QED
    BY <1>1, <2>1, <2>2, <2>3
<1>4. CASE a + 1 \in Slots
  <2>1. Slot(a + 1) = IF current_pos + (a + 1) < MaxPipe THEN current_pos + (a + 1)
                                                         ELSE current_pos + (a + 1) - MaxPipe
    BY <1>4, SlotWraps
  <2>2. a + 1 \in 0 .. MaxPipe - 1
    BY <1>4 DEF Slots
  <2> QED
    BY <1>1, <1>2, <1>3, <1>4, <2>1, <2>2
<1>5. CASE a + 1 \notin Slots
  <2>1. a + 1 = MaxPipe
    BY <1>1, <1>5 DEF Slots
  <2> QED
    BY <1>1, <1>2, <1>3, <1>5, <2>1
<1> QED
  BY <1>4, <1>5

-----------------------------------------------------------------------------
(* What the promise needs beside the ring.                                 *)

\* The processes that were started are the first nproc; the others have nothing.
FreshInv == \A p \in Proc : IF p <= nproc THEN proc[p].st # "none" ELSE proc[p] = NoProc

\* A pipe that a command reads is in no slot any more.
TakenInv == \A p \in Proc, k \in Slots : proc[p].in # NoPipe => pipes[k] # proc[p].in

BoundInv == lineno <= MaxLine /\ (pc \in {"exec", "forward", "wait"} => lineno < MaxLine)

PromiseInv == RingInv /\ LineKnown /\ ChildrenAccounted /\ FreshInv /\ TakenInv /\ BoundInv

\* The fork leaves a slot other than the line's own as it was, or fills it when it
\* was empty; the line's own has a new pipe.
LEMMA RingKept ==
  ASSUME RingInv, pc = "exec", NEW k \in Slots, k # current_pos
  PROVE  ring[k] = pipes[k] \/ (pipes[k] = NoPipe /\ ring[k] \in npipe + 1 .. made)
<1>0. TypeOK /\ SlotOwnership /\ task \in Task /\ npipe \in Nat /\ current_pos \in Slots
  BY ExecRing DEF RingInv, TypeOK
<1>1. /\ RingOf(ring, made) /\ taken = pipes[current_pos]
      /\ Enabled(ring) = (Enabled(pipes) \ {taken}) \cup (npipe + 1 .. made)
  BY ExecRing
<1>2. \A j \in Slots : j # current_pos /\ pipes[j] # NoPipe => ring[j] = pipes[j]
  <2>1. RingOf(pipes, npipe)
    BY <1>0 DEF RingOf, SlotOwnership, TypeOK
  <2>2. /\ RingOf(ring0, npipe + 1)
        /\ \A j \in Slots : j # current_pos => ring0[j] = pipes[j]
    BY <1>0, <2>1, SlotHere, CreateRing DEF ring0
  <2>3. EnableFacts(ring0, ring1, npipe + 1, Count(ring0, task.out))
    <3>1. npipe + 1 \in Nat /\ task.out \in Nat \cup {NotPipe} /\ (npipe + 1) + 1 = npipe + 2
      BY <1>0 DEF Task
    <3>2. EnableFacts(ring0, Enable(ring0, task.out, (npipe + 1) + 1), npipe + 1, Count(ring0, task.out))
      BY <1>0, <2>2, <3>1, EnableRing
    <3> QED
      BY <3>1, <3>2 DEF ring1
  <2>4. EnableFacts(ring1, ring, made1, Count(ring1, task.err))
    <3>1. RingOf(ring1, made1) /\ made1 \in Nat /\ task.err \in Nat \cup {NotPipe}
      BY <1>0, <2>3 DEF EnableFacts, made1, Task
    <3> QED
      BY <1>0, <3>1, EnableRing DEF ring
  <2>5. \A j \in Slots : /\ ring0[j] # NoPipe => ring1[j] = ring0[j]
                         /\ ring1[j] # NoPipe => ring[j] = ring1[j]
    BY <2>3, <2>4 DEF EnableFacts
  <2> QED
    BY <2>2, <2>5
<1>3. CASE pipes[k] # NoPipe
  BY <1>2, <1>3
<1>4. CASE pipes[k] = NoPipe /\ ring[k] # NoPipe /\ ring[k] \notin npipe + 1 .. made
  <2>1. ring[k] \in Enabled(pipes) \ {taken}
    BY <1>1, <1>4 DEF Enabled
  <2>2. PICK i \in Slots : ring[k] = pipes[i] /\ i # current_pos /\ pipes[i] # NoPipe
    BY <1>1, <2>1 DEF Enabled
  <2>3. ring[i] = ring[k] /\ i # k
    BY <1>2, <1>4, <2>2
  <2> QED
    BY <1>1, <1>4, <2>3 DEF RingOf
<1> QED
  BY <1>3, <1>4

\* A step of a process leaves its streams, and does not make it one that was not started.
LEMMA StreamFrame ==
  ASSUME TypeOK, NEW p \in Proc, ProcStep(p), NEW q \in Proc
  PROVE  /\ proc'[q].in = proc[q].in /\ proc'[q].out = proc[q].out /\ proc'[q].err = proc[q].err
         /\ proc'[q].onErr = proc[q].onErr
         /\ q # p => proc'[q] = proc[q]
         /\ q = p => proc[q].st = "running" /\ proc'[q].st \in {"running", "sigpipe", "done"}
<1>1. CASE q # p
  BY <1>1 DEF ProcStep, Write, Read, End, TypeOK
<1>2. CASE q = p
  <2>1. \/ proc'[p] = [proc[p] EXCEPT !.left = proc[p].left - 1]
        \/ proc'[p] = [proc[p] EXCEPT !.left = 1]
        \/ proc'[p] = [proc[p] EXCEPT !.st = "sigpipe"]
        \/ proc'[p] = [proc[p] EXCEPT !.st = "done"]
    BY DEF ProcStep, Write, Read, End, TypeOK
  <2>2. proc[p] \in ProcRec(npipe) /\ proc[p].st = "running"
    BY DEF TypeOK, ProcStep, Write, CanWrite, Read, CanRead, End, CanEnd, Running
  <2>3. /\ proc'[p].in = proc[p].in /\ proc'[p].out = proc[p].out /\ proc'[p].err = proc[p].err
        /\ proc'[p].onErr = proc[p].onErr
        /\ proc'[p].st \in {"running", "sigpipe", "done"}
    BY <2>1, <2>2 DEF ProcRec
  <2> QED
    BY <1>2, <2>2, <2>3
<1> QED
  BY <1>1, <1>2

\* A step of a process leaves the shell where it is.
LEMMA ShellFrame ==
  ASSUME NEW p \in Proc, ProcStep(p)
  PROVE  UNCHANGED <<pc, line, idx, lineno, env, open, npipe, nproc, forkErrors>>
BY DEF ProcStep, Write, Read, End

\* exit_shell ends processes and touches no stream.
LEMMA ExitStreams ==
  ASSUME TypeOK, ExitShell, NEW q \in Proc
  PROVE  /\ proc'[q].in = proc[q].in /\ proc'[q].out = proc[q].out /\ proc'[q].err = proc[q].err
         /\ proc'[q].onErr = proc[q].onErr
         /\ proc'[q] = proc[q] \/ (proc[q].st = "running" /\ proc'[q].st = "killed")
<1>1. proc'[q] = IF Running(q) /\ \E k \in Slots : q \in child_processes[k]
                   THEN [proc[q] EXCEPT !.st = "killed"] ELSE proc[q]
  BY DEF ExitShell
<1>2. proc[q] \in ProcRec(npipe)
  BY DEF TypeOK
<1> QED
  BY <1>1, <1>2 DEF Running, ProcRec

\* The forked process, and the others.
LEMMA ForkProc ==
  ASSUME TypeOK, ExecFork
  PROVE  /\ nproc + 1 \in Proc /\ nproc' = nproc + 1
         /\ proc'[nproc + 1] = Child
         /\ \A p \in Proc : p # nproc + 1 => proc'[p] = proc[p]
<1>1. nproc + 1 \in Proc
  BY BoundAssumption DEF TypeOK, ExecFork, Proc
<1> QED
  BY <1>1 DEF TypeOK, ExecFork

\* The child's streams: its input is the pipe that waited in the line's slot, its
\* output goes to pipes of the ring.
LEMMA ChildStreams ==
  ASSUME RingInv, pc = "exec"
  PROVE  /\ Child.st = "running" /\ Child.in = taken
         /\ Child.out \in {NoPipe} \cup Enabled(ring)
         /\ Child.err \in {NoPipe} \cup Enabled(ring)
         /\ Enabled(ring) \subseteq 1 .. made
         /\ taken # NoPipe => taken \notin Enabled(ring)
<1>0. TypeOK /\ task.out \in Nat \cup {NotPipe} /\ task.err \in Nat \cup {NotPipe}
  BY ExecRing DEF RingInv, Task
<1>1. \A n \in Nat \cup {NotPipe} : Target(ring, n) \in {NoPipe} \cup Enabled(ring)
  BY <1>0, SlotRange DEF Target, Enabled
<1>2. /\ Enabled(ring) = (Enabled(pipes) \ {taken}) \cup (npipe + 1 .. made)
      /\ taken \in 0 .. npipe /\ npipe \in Nat /\ made \in Nat /\ made > npipe
      /\ Enabled(pipes) \subseteq 1 .. npipe
  BY <1>0, ExecRing DEF TypeOK
<1>3. Enabled(ring) \subseteq 1 .. made /\ (taken # NoPipe => taken \notin Enabled(ring))
  BY <1>2
<1>4. /\ Child.st = "running" /\ Child.in = taken
      /\ Child.out = Target(ring, task.out) /\ Child.err = Target(ring, task.err)
  BY DEF Child
<1> QED
  BY <1>0, <1>1, <1>3, <1>4

\* The processes that were started stay the first ones.
LEMMA FreshStep ==
  ASSUME TypeOK, FreshInv, [Next]_vars
  PROVE  FreshInv'
<1>0. nproc \in Nat
  BY DEF TypeOK
<1> DEFINE None(p) == proc[p].st = "none"
<1>a. \A p \in Proc : IF p <= nproc THEN ~None(p) ELSE None(p) /\ proc[p] = NoProc
  <2>1. NoProc.st = "none"
    BY DEF NoProc
  <2> QED
    BY <2>1 DEF FreshInv
<1>1. CASE ReadLine \/ ExecBuiltin \/ ExecForkError \/ Forward \/ EndLine \/ UNCHANGED vars
  BY <1>1 DEF ReadLine, ExecBuiltin, ExecForkError, Forward, EndLine, FreshInv, kernel, vars
<1>2. CASE ReadEof \/ ExecExit
  <2>1. ExitShell /\ nproc' = nproc
    BY <1>2 DEF ReadEof, ExecExit, ExitShell
  <2> QED
    BY <1>a, <2>1, ExitStreams DEF FreshInv
<1>3. CASE ExecFork
  <2>1. Child.st = "running"
    BY DEF Child
  <2> QED
    BY <1>0, <1>3, <2>1, ForkProc DEF FreshInv, Proc
<1>4. ASSUME NEW p \in Proc, ProcStep(p)
      PROVE  FreshInv'
  <2>1. \A q \in Proc : proc'[q] = proc[q] \/ (~None(q) /\ proc'[q].st # "none")
    BY <1>4, StreamFrame
  <2> QED
    BY <1>a, <1>4, <2>1, ShellFrame DEF FreshInv
<1> QED
  BY <1>1, <1>2, <1>3, <1>4 DEF Next, ShellStep

\* A pipe that was read from comes back into no slot.
LEMMA TakenStep ==
  ASSUME RingInv, FreshInv, TakenInv, [Next]_vars
  PROVE  TakenInv'
<1>0. /\ TypeOK /\ SlotOwnership /\ npipe \in Nat /\ current_pos \in Slots /\ Slot(0) = current_pos
      /\ \A p \in Proc : proc[p].in \in 0 .. npipe
  BY SlotHere DEF RingInv, TypeOK, ProcRec
<1>1. CASE ReadLine \/ ExecBuiltin \/ Forward \/ UNCHANGED vars
  BY <1>1 DEF ReadLine, ExecBuiltin, Forward, TakenInv, env, kernel, vars
<1>2. CASE ReadEof \/ ExecExit
  <2>1. ExitShell /\ pipes' = pipes
    BY <1>2 DEF ReadEof, ExecExit, ExitShell, env
  <2> QED
    BY <1>0, <2>1, ExitStreams DEF TakenInv
<1>3. CASE ExecFork
  <2>1. pc = "exec"
    BY <1>3 DEF ExecFork
  <2>2. \A k \in Slots : pipes'[k] = NoPipe \/ pipes'[k] = ring[k]
    <3>1. RingOf(ring, made)
      BY <2>1, ExecRing
    <3> QED
      BY <1>0, <1>3, <3>1 DEF ExecFork, RingOf
  <2>3. \A k \in Slots, p \in Proc : proc[p].in # NoPipe => ring[k] # proc[p].in
    BY <1>0, <2>1, RingKept, ExecRing DEF TakenInv
  <2>4. \A k \in Slots : taken # NoPipe => ring[k] # taken
    BY <2>1, ChildStreams DEF Enabled
  <2> QED
    BY <1>0, <1>3, <2>1, <2>2, <2>3, <2>4, ForkProc, ChildStreams DEF TakenInv, NoPipe
<1>4. CASE ExecForkError
  <2>1. pc = "exec"
    BY <1>4 DEF ExecForkError
  <2>2. RingOf(ring, made) /\ taken = pipes[current_pos]
    BY <2>1, ExecRing
  <2>3. \A k \in Slots : IF k = current_pos THEN pipes'[k] = pipes[k] ELSE pipes'[k] = ring[k]
    BY <1>0, <1>4, <2>2 DEF ExecForkError, RingOf
  <2>4. \A k \in Slots, p \in Proc : proc[p].in # NoPipe => pipes'[k] # proc[p].in
    BY <1>0, <2>1, <2>3, RingKept DEF TakenInv
  <2> QED
    BY <1>4, <2>4 DEF TakenInv, ExecForkError
<1>5. CASE EndLine
  <2>1. \A k \in Slots : pipes'[k] = NoPipe \/ pipes'[k] = pipes[k]
    BY <1>0, <1>5 DEF EndLine, TypeOK
  <2> QED
    BY <1>5, <2>1 DEF EndLine, TakenInv
<1>6. ASSUME NEW p \in Proc, ProcStep(p)
      PROVE  TakenInv'
  BY <1>0, <1>6, StreamFrame, ShellFrame DEF TakenInv, env
<1> QED
  BY <1>1, <1>2, <1>3, <1>4, <1>5, <1>6 DEF Next, ShellStep

\* Lines are counted within the bound of the lines that are typed.
LEMMA BoundStep ==
  ASSUME TypeOK, BoundInv, [Next]_vars
  PROVE  BoundInv'
<1>0. lineno \in Nat /\ MaxLine \in Nat
  BY BoundAssumption DEF TypeOK
<1> QED
  BY <1>0 DEF BoundInv, Next, ShellStep, ReadLine, ReadEof, ExecExit, ExitShell, ExecBuiltin, ExecFork,
              ExecForkError, NextTask, Forward, EndLine, ProcStep, Write, Read, End, vars

\* The inductive invariant of the promise.
LEMMA PromiseInvariant ==
  ASSUME NotOntoItself
  PROVE  Spec => []PromiseInv
<1>1. Init => LineKnown /\ FreshInv /\ TakenInv /\ BoundInv
  BY BoundAssumption DEF Init, LineKnown, FreshInv, TakenInv, BoundInv, NoProc, Proc
<1>2. RingInv /\ LineKnown /\ FreshInv /\ TakenInv /\ BoundInv /\ [Next]_vars
        => LineKnown' /\ FreshInv' /\ TakenInv' /\ BoundInv'
  BY KnownStep, FreshStep, TakenStep, BoundStep DEF RingInv
<1> QED
  BY <1>1, <1>2, RingInvariant, NoCommandLost, PTL DEF Spec, PromiseInv

-----------------------------------------------------------------------------
(* The promise, step by step.                                              *)

\* The writers of q after the step.
WritersAfter(q) == {p \in Proc : q # NoPipe /\ q \in {proc'[p].out, proc'[p].err}}

\* No process changes its streams, and none is started.
SameStreams == \A p \in Proc : /\ proc'[p].in = proc[p].in
                               /\ proc'[p].out = proc[p].out /\ proc'[p].err = proc[p].err
                               /\ (proc'[p].st = "none") = (proc[p].st = "none")

\* The ring as LinePipes sees it after a step.
LEMMA MappedAfter ==
  /\ front' = WritersAfter(pipes'[current_pos'])
  /\ feeders' = [n \in LineNo |->
                   IF n - lineno' - 1 \in Slots /\ n - lineno' - 1 # 0
                     THEN WritersAfter(pipes'[(current_pos' + (n - lineno' - 1)) % MaxPipe]) ELSE {}]
  /\ owed' = [n \in LineNo |->
                IF n - lineno' - 1 \in Slots
                  THEN child_processes'[(current_pos' + (n - lineno' - 1)) % MaxPipe] ELSE {}]
  /\ input' = [p \in Proc |-> WritersAfter(proc'[p].in)]
  /\ started' = {p \in Proc : proc'[p].st # "none"}
  /\ running' = {p \in Proc : proc'[p].st = "running"}
BY DEF front, feeders, owed, input, started, running, WritersAfter, WritersOf, InRing, Ahead, Slot, Running

\* Who writes to what is as it was when no stream changes.
LEMMA SameWriters ==
  ASSUME SameStreams
  PROVE  /\ \A q : WritersAfter(q) = WritersOf(q)
         /\ input' = input /\ started' = started
<1>1. \A q : WritersAfter(q) = WritersOf(q)
  BY DEF SameStreams, WritersAfter, WritersOf
<1>2. input' = input
  BY <1>1, MappedAfter DEF SameStreams, input
<1>3. started' = started
  BY MappedAfter DEF SameStreams, started
<1> QED
  BY <1>1, <1>2, <1>3

\* The lines ahead are fed as they were when no slot changes its writers.
LEMMA SameRing ==
  ASSUME TypeOK, UNCHANGED <<lineno, current_pos>>,
         \A k \in Slots : WritersAfter(pipes'[k]) = WritersOf(pipes[k])
  PROVE  front' = front /\ feeders' = feeders
<1>1. current_pos \in Slots /\ \A a \in Slots : Slot(a) \in Slots
  BY SlotWraps DEF TypeOK
<1>2. front' = front
  BY <1>1, MappedAfter DEF front
<1>3. feeders' = feeders
  BY <1>1, MappedAfter DEF feeders, InRing, Ahead, Slot
<1> QED
  BY <1>2, <1>3

\* The lines owe the same processes when no list changes.
LEMMA SameLists ==
  ASSUME UNCHANGED <<lineno, current_pos, child_processes>>
  PROVE  owed' = owed
BY DEF owed, InRing, Ahead, Slot

\* A process that is nobody's writer yet, and the line's own number.
LEMMA MappedNow ==
  ASSUME PromiseInv
  PROVE  /\ TypeOK /\ lineno \in Nat /\ current_pos \in Slots /\ 0 \in Slots
         /\ lineno + 1 \in Nat /\ (pc \in {"exec", "forward", "wait"} => lineno + 1 \in LineNo)
         /\ \A n \in LineNo : n - lineno - 1 \in Int /\ (n - lineno - 1 = 0 <=> n = lineno + 1)
         /\ \A q : q \notin 1 .. npipe => WritersOf(q) = {}
         /\ \A p \in Proc : proc[p].in \in 0 .. npipe
<1>0. TypeOK
  BY DEF PromiseInv, RingInv
<1>1. lineno \in Nat /\ current_pos \in Slots /\ 0 \in Slots /\ MaxLine \in Nat /\ MaxPipe \in Nat \ {0}
  BY <1>0, RingAssumption, BoundAssumption DEF TypeOK, Slots
<1>2. pc \in {"exec", "forward", "wait"} => lineno < MaxLine
  BY DEF PromiseInv, BoundInv
<1>3. \A q : q \notin 1 .. npipe => WritersOf(q) = {}
  <2> SUFFICES ASSUME NEW q, q \notin 1 .. npipe, NEW p \in Proc, q # NoPipe, q \in {proc[p].out, proc[p].err}
               PROVE  FALSE
    BY DEF WritersOf
  <2>1. npipe \in Nat /\ proc[p].out \in 0 .. npipe /\ proc[p].err \in 0 .. npipe
    BY <1>0 DEF TypeOK, ProcRec
  <2> QED
    BY <2>1 DEF NoPipe
<1>4. \A p \in Proc : proc[p].in \in 0 .. npipe
  BY <1>0 DEF TypeOK, ProcRec
<1>5. \A n \in LineNo : n - lineno - 1 \in Int /\ (n - lineno - 1 = 0 <=> n = lineno + 1)
  BY <1>1 DEF LineNo
<1> QED
  BY <1>0, <1>1, <1>2, <1>3, <1>4, <1>5 DEF LineNo

Unseen == UNCHANGED <<lineno, front, feeders, owed, input, started>> /\ (pc' = "exited") = (pc = "exited")

\* The steps that LinePipes does not see.
LEMMA QuietStep ==
  ASSUME PromiseInv,
         \/ ReadLine \/ ExecBuiltin \/ ExecForkError \/ (Forward /\ lastTask.out = NotPipe)
         \/ UNCHANGED vars
  PROVE  Unseen /\ running' = running
<1>0. TypeOK
  BY MappedNow
<1>1. /\ UNCHANGED <<lineno, current_pos, child_processes, proc>>
      /\ (pc' = "exited") = (pc = "exited")
  BY DEF ReadLine, ExecBuiltin, ExecForkError, NextTask, Forward, env, kernel, vars
<1>2. SameStreams
  BY <1>1 DEF SameStreams
<1>3. running' = running
  BY <1>1, MappedAfter DEF running, Running
<1>4. \A k \in Slots : WritersAfter(pipes'[k]) = WritersOf(pipes[k])
  <2>1. CASE ExecForkError
    <3>1. pc = "exec" /\ RingInv
      BY <2>1 DEF ExecForkError, PromiseInv
    <3>2. RingOf(ring, made) /\ taken = pipes[current_pos] /\ Slot(0) = current_pos
      BY <1>0, <3>1, ExecRing, SlotHere
    <3>3. \A k \in Slots : IF k = current_pos THEN pipes'[k] = pipes[k] ELSE pipes'[k] = ring[k]
      BY <2>1, <3>2 DEF ExecForkError, RingOf
    <3>4. \A k \in Slots : pipes'[k] = pipes[k] \/ (pipes[k] = NoPipe /\ pipes'[k] \in npipe + 1 .. made)
      BY <3>1, <3>3, RingKept
    <3>5. npipe \in Nat /\ \A q : (q \in npipe + 1 .. made \/ q = NoPipe) => q \notin 1 .. npipe
      BY <1>0 DEF TypeOK, NoPipe
    <3> QED
      BY <1>2, <3>4, <3>5, SameWriters, MappedNow
  <2>2. CASE ~ExecForkError
    <3>1. pipes' = pipes
      BY <2>2 DEF ReadLine, ExecBuiltin, Forward, env, kernel, vars
    <3> QED
      BY <1>2, <3>1, SameWriters
  <2> QED
    BY <2>1, <2>2
<1> QED
  BY <1>0, <1>1, <1>2, <1>3, <1>4, SameWriters, SameRing, SameLists DEF Unseen

\* A step of a process is its end, or is not seen.
LEMMA FinishStep ==
  ASSUME PromiseInv, NEW p \in Proc, ProcStep(p)
  PROVE  /\ Unseen
         /\ p \in running
         /\ running' = running \/ running' = running \ {p}
<1>0. TypeOK
  BY MappedNow
<1>1. UNCHANGED <<pc, lineno, current_pos, pipes, child_processes>>
  BY ShellFrame DEF env
<1>2. SameStreams
  BY <1>0, StreamFrame DEF SameStreams
<1>3. /\ p \in running
      /\ running' = running \/ running' = running \ {p}
  BY <1>0, MappedAfter, StreamFrame DEF running, Running
<1>4. \A k \in Slots : WritersAfter(pipes'[k]) = WritersOf(pipes[k])
  BY <1>1, <1>2, SameWriters
<1> QED
  BY <1>0, <1>1, <1>2, <1>3, <1>4, SameWriters, SameRing, SameLists DEF Unseen

\* The shell's exit leaves nothing running.
LEMMA ExitStep ==
  ASSUME PromiseInv, ReadEof \/ ExecExit
  PROVE  /\ UNCHANGED <<lineno, front, feeders, owed, input, started>>
         /\ pc # "exited" /\ pc' = "exited"
         /\ running' = {}
<1>0. TypeOK /\ ChildrenAccounted
  BY MappedNow DEF PromiseInv
<1>1. /\ UNCHANGED <<lineno, current_pos, pipes, child_processes>>
      /\ pc # "exited" /\ pc' = "exited" /\ ExitShell
  BY DEF ReadEof, ExecExit, ExitShell, env
<1>2. SameStreams
  BY <1>0, <1>1, ExitStreams DEF SameStreams
<1>3. running' = {}
  <2>1. \A q \in Proc : proc'[q].st # "running"
    BY <1>0, <1>1, ExitStreams, ExitFrame DEF ChildrenAccounted, Running
  <2> QED
    BY <2>1, MappedAfter
<1>4. \A k \in Slots : WritersAfter(pipes'[k]) = WritersOf(pipes[k])
  BY <1>1, <1>2, SameWriters
<1> QED
  BY <1>0, <1>1, <1>2, <1>3, <1>4, SameWriters, SameRing, SameLists

\* The fork starts a command: it reads the front, is the front of the next one if the
\* line's own new pipe is its output, and feeds the lines whose slots it writes to.
LEMMA StartStep ==
  ASSUME PromiseInv, ExecFork
  PROVE  \E isLast \in BOOLEAN, dests \in SUBSET {n \in LineNo : n > lineno + 1} :
           Promise!Start(nproc + 1, isLast, dests)
<1> DEFINE new == nproc + 1
           ends == {Child.out, Child.err} \ {NoPipe}
           dests == {n \in LineNo : /\ n - lineno - 1 \in Slots /\ n > lineno + 1
                                    /\ ring[Slot(n - lineno - 1)] \in ends}
           last == front' # {new}
<1>0. /\ TypeOK /\ RingInv /\ FreshInv /\ TakenInv /\ pc = "exec" /\ pc' # "exited"
      /\ lineno' = lineno /\ current_pos' = current_pos
      /\ Slot(0) = current_pos /\ current_pos \in Slots /\ 0 \in Slots
      /\ lineno + 1 \in LineNo /\ lineno \in Nat /\ npipe \in Nat
  BY MappedNow, SlotHere DEF PromiseInv, ExecFork, NextTask, TypeOK
<1>1. /\ new \in Proc /\ proc'[new] = Child
      /\ \A p \in Proc : p # new => proc'[p] = proc[p]
  BY <1>0, ForkProc
<1>2. /\ proc[new].st = "none" /\ proc[new].out = NoPipe /\ proc[new].err = NoPipe
  <2>1. proc[new] = NoProc
    BY <1>0, <1>1 DEF FreshInv, TypeOK
  <2> QED
    BY <2>1 DEF NoProc
<1>3. /\ Child.st = "running" /\ Child.in = taken /\ taken = pipes[current_pos] /\ taken \in 0 .. npipe
      /\ ends \subseteq Enabled(ring)
      /\ taken \notin ends
      /\ made \in Nat /\ made > npipe
      /\ RingOf(ring, made) /\ ring[current_pos] = npipe + 1
  BY <1>0, ChildStreams, ExecRing
<1>4. \A k \in Slots : pipes'[k] = IF k = current_pos /\ AfterLast THEN NoPipe ELSE ring[k]
  BY <1>0, <1>3 DEF ExecFork, RingOf
<1>5. \A q : WritersAfter(q) = IF q \in ends THEN WritersOf(q) \cup {new} ELSE WritersOf(q)
  <2> SUFFICES ASSUME NEW q
               PROVE  WritersAfter(q) = IF q \in ends THEN WritersOf(q) \cup {new} ELSE WritersOf(q)
    OBVIOUS
  <2> HIDE DEF new
  <2>1. \A p \in Proc : p \in WritersAfter(q) <=> (p \in WritersOf(q) \/ (p = new /\ q \in ends))
    BY <1>1, <1>2 DEF WritersAfter, WritersOf
  <2>2. WritersAfter(q) \subseteq Proc /\ WritersOf(q) \subseteq Proc
    BY DEF WritersAfter, WritersOf
  <2> QED
    BY <1>1, <2>1, <2>2
<1>6. \A q : q \notin 1 .. npipe => WritersOf(q) = {}
  BY MappedNow
<1>7. \A a \in Slots : Slot(a) \in Slots /\ (Slot(a) = current_pos => a = 0)
  BY <1>0, SlotWraps, SlotApart
<1>8. \A k \in Slots : k # current_pos => WritersOf(ring[k]) = WritersOf(pipes[k])
  <2>1. \A q : (q \in npipe + 1 .. made \/ q = NoPipe) => q \notin 1 .. npipe
    BY <1>0 DEF NoPipe
  <2> QED
    BY <1>0, <1>6, <2>1, RingKept
<1> HIDE DEF new, ends
<1>9. front' = IF last THEN {} ELSE {new}
  <2>1. front' = WritersAfter(pipes'[current_pos])
    BY <1>0, MappedAfter
  <2>2. pipes'[current_pos] \notin 1 .. npipe
    BY <1>0, <1>3, <1>4 DEF NoPipe
  <2>3. front' = {} \/ front' = {new}
    BY <1>5, <1>6, <2>1, <2>2
  <2> QED
    BY <2>3
<1>10. feeders' = [n \in LineNo |-> IF n \in dests THEN feeders[n] \cup {new} ELSE feeders[n]]
  <2> SUFFICES ASSUME NEW n \in LineNo
               PROVE  feeders'[n] = IF n \in dests THEN feeders[n] \cup {new} ELSE feeders[n]
    BY MappedAfter
  <2> DEFINE a == n - lineno - 1
  <2>1. feeders'[n] = IF a \in Slots /\ a # 0 THEN WritersAfter(pipes'[Slot(a)]) ELSE {}
    BY <1>0, MappedAfter DEF Slot
  <2>2. feeders[n] = IF a \in Slots /\ a # 0 THEN WritersOf(pipes[Slot(a)]) ELSE {}
    BY DEF feeders, InRing, Ahead
  <2>3. n > lineno + 1 <=> a > 0
    BY <1>0 DEF LineNo
  <2>4. a \in Slots => (a # 0 <=> a > 0)
    <3>1. \A x \in Slots : x # 0 <=> x > 0
      BY RingAssumption DEF Slots
    <3> QED
      BY ONLY <3>1
  <2>5. n \in dests <=> a \in Slots /\ a # 0 /\ ring[Slot(a)] \in ends
    BY <2>3, <2>4
  <2> HIDE DEF a, dests
  <2>6. CASE a \in Slots /\ a # 0
    <3>1. Slot(a) \in Slots /\ Slot(a) # current_pos
      BY <1>7, <2>6
    <3>2. pipes'[Slot(a)] = ring[Slot(a)] /\ WritersOf(ring[Slot(a)]) = WritersOf(pipes[Slot(a)])
      BY <1>4, <1>8, <3>1
    <3> QED
      BY <1>5, <2>1, <2>2, <2>5, <2>6, <3>2
  <2>7. CASE ~(a \in Slots /\ a # 0)
    BY <2>1, <2>2, <2>5, <2>7
  <2> QED
    BY <2>6, <2>7
<1>11. input' = [input EXCEPT ![new] = front]
  <2>1. \A p \in Proc : p # new => WritersAfter(proc[p].in) = WritersOf(proc[p].in)
    <3> SUFFICES ASSUME NEW p \in Proc, p # new, proc[p].in \in ends
                 PROVE  FALSE
      BY <1>5
    <3>1. PICK k \in Slots : proc[p].in = ring[k] /\ proc[p].in # NoPipe
      BY <1>3 DEF Enabled
    <3>2. proc[p].in \in 0 .. npipe /\ pipes[k] # proc[p].in
      BY <1>0, <3>1, MappedNow DEF TakenInv
    <3>3. ring[k] \in npipe + 1 .. made
      BY <1>0, <1>3, <3>1, <3>2, RingKept
    <3> QED
      BY <1>0, <3>1, <3>2, <3>3
  <2>2. WritersAfter(taken) = front
    BY <1>3, <1>5 DEF front
  <2>3. input' = [p \in Proc |-> IF p = new THEN front ELSE input[p]]
    BY <1>1, <1>3, <2>1, <2>2, MappedAfter DEF input
  <2>4. input \in [Proc -> SUBSET Proc]
    BY DEF input, WritersOf
  <2> HIDE DEF front, input
  <2> QED
    BY <1>1, <2>3, <2>4
<1>12. owed' = [owed EXCEPT ![lineno + 1] = @ \cup {new}]
  <2>1. \A k \in Slots : child_processes'[k] = IF k = current_pos THEN child_processes[k] \cup {new}
                                                                 ELSE child_processes[k]
    BY <1>0 DEF ExecFork, TypeOK, new
  <2>2. \A n \in LineNo : owed'[n] = IF n = lineno + 1 THEN owed[n] \cup {new} ELSE owed[n]
    <3> SUFFICES ASSUME NEW n \in LineNo
                 PROVE  owed'[n] = IF n = lineno + 1 THEN owed[n] \cup {new} ELSE owed[n]
      OBVIOUS
    <3> DEFINE a == n - lineno - 1
    <3>1. owed'[n] = IF a \in Slots THEN child_processes'[Slot(a)] ELSE {}
      BY <1>0, MappedAfter DEF Slot
    <3>2. owed[n] = IF a \in Slots THEN child_processes[Slot(a)] ELSE {}
      BY DEF owed, InRing, Ahead
    <3>3. a = 0 <=> n = lineno + 1
      BY MappedNow
    <3> HIDE DEF a
    <3>4. CASE a \in Slots
      BY <1>0, <1>7, <2>1, <3>1, <3>2, <3>3, <3>4
    <3>5. CASE a \notin Slots
      BY <1>0, <3>1, <3>2, <3>3, <3>5
    <3> QED
      BY <3>4, <3>5
  <2>3. DOMAIN owed' = LineNo /\ owed' = [n \in LineNo |-> owed'[n]] /\ owed = [n \in LineNo |-> owed[n]]
    BY MappedAfter DEF owed
  <2> HIDE DEF owed
  <2> QED
    BY <1>0, <2>2, <2>3
<1>13. started' = started \cup {new} /\ running' = running \cup {new} /\ new \notin started
  <2>1. \A p \in Proc : /\ p \in started' <=> (p \in started \/ p = new)
                        /\ p \in running' <=> (p \in running \/ p = new)
    BY <1>1, <1>3, MappedAfter DEF started, running, Running
  <2>2. started' \subseteq Proc /\ running' \subseteq Proc /\ started \subseteq Proc /\ running \subseteq Proc
    BY MappedAfter DEF started, running
  <2> QED
    BY <1>1, <1>2, <2>1, <2>2 DEF started
<1>14. last \in BOOLEAN /\ dests \in SUBSET {n \in LineNo : n > lineno + 1}
  OBVIOUS
<1> HIDE DEF last, dests
<1>15. Promise!Start(new, last, dests)
  BY <1>0, <1>9, <1>10, <1>11, <1>12, <1>13 DEF Promise!Start
<1> QED
  BY <1>14, <1>15 DEF new

\* A line that is piped ahead leaves its processes to the line that its pipe reaches.
LEMMA PassOnStep ==
  ASSUME NotOntoItself, PromiseInv, Forward, lastTask.out # NotPipe
  PROVE  \E n \in LineNo : Promise!PassOn(n)
<1> DEFINE o == lastTask.out
           b == o % MaxPipe
           to == lineno + 1 + b
<1>0. /\ TypeOK /\ pc = "forward" /\ pc' # "exited" /\ LineKnown
      /\ UNCHANGED <<lineno, current_pos, pipes, proc>>
      /\ Slot(0) = current_pos /\ current_pos \in Slots /\ 0 \in Slots
      /\ lineno + 1 \in LineNo /\ lineno \in Nat
  BY MappedNow, SlotHere DEF PromiseInv, Forward, kernel
<1>1. o \in Nat /\ b # 0
  BY <1>0, LastOut
<1>2. b \in Slots /\ Slot(o) = Slot(b) /\ MaxPipe \in Nat \ {0} /\ b \in Nat \ {0}
  <2>1. MaxPipe \in Nat \ {0} /\ current_pos \in Nat
    BY <1>0, RingAssumption DEF Slots
  <2>2. b \in 0 .. MaxPipe - 1 /\ (current_pos + o) % MaxPipe = (current_pos + b) % MaxPipe
    BY <1>1, <2>1, ModPlus
  <2> QED
    BY <1>1, <2>1, <2>2 DEF Slot, Slots
<1> HIDE DEF b
<1>3. to \in LineNo /\ to > lineno + 1
  <2>1. lineno < MaxLine /\ MaxLine \in Nat /\ b <= MaxPipe - 1
    BY <1>0, <1>2, BoundAssumption DEF PromiseInv, BoundInv, Slots
  <2> QED
    BY <1>0, <1>2, <2>1 DEF LineNo
<1>4. \A k \in Slots : child_processes'[k] = IF k = current_pos THEN {}
                                             ELSE IF k = Slot(b) THEN child_processes[k] \cup child_processes[current_pos]
                                             ELSE child_processes[k]
  <2>1. Slot(b) \in Slots /\ Slot(b) # current_pos
    BY <1>0, <1>2, SlotWraps, SlotApart
  <2> QED
    BY <1>0, <1>2, <2>1 DEF Forward, Forwarded, TypeOK
<1>5. \A n \in LineNo : owed'[n] = IF n = lineno + 1 THEN {}
                                   ELSE IF n = to THEN owed[n] \cup owed[lineno + 1]
                                   ELSE owed[n]
  <2> SUFFICES ASSUME NEW n \in LineNo
               PROVE  owed'[n] = IF n = lineno + 1 THEN {}
                                 ELSE IF n = to THEN owed[n] \cup owed[lineno + 1]
                                 ELSE owed[n]
    OBVIOUS
  <2> DEFINE a == n - lineno - 1
  <2>1. owed'[n] = IF a \in Slots THEN child_processes'[Slot(a)] ELSE {}
    BY <1>0, MappedAfter DEF Slot
  <2>2. owed[n] = IF a \in Slots THEN child_processes[Slot(a)] ELSE {}
    BY DEF owed, InRing, Ahead
  <2>3. owed[lineno + 1] = child_processes[current_pos]
    <3>1. (lineno + 1) - lineno - 1 = 0
      BY <1>0
    <3>2. owed[lineno + 1] = IF (lineno + 1) - lineno - 1 \in Slots
                               THEN child_processes[Slot((lineno + 1) - lineno - 1)] ELSE {}
      BY <1>0 DEF owed, InRing, Ahead
    <3> QED
      BY <1>0, <3>1, <3>2
  <2>4. (a = 0 <=> n = lineno + 1) /\ (a = b <=> n = to)
    BY <1>0, <1>2 DEF LineNo
  <2> HIDE DEF a, to
  <2>5. CASE a \in Slots
    <3>1. /\ Slot(a) \in Slots
          /\ Slot(a) = current_pos <=> a = 0
          /\ Slot(a) = Slot(b) <=> a = b
      BY <1>0, <1>2, <2>5, SlotWraps, SlotApart
    <3> QED
      BY <1>4, <2>1, <2>2, <2>3, <2>4, <2>5, <3>1
  <2>6. CASE a \notin Slots
    BY <1>0, <1>2, <2>1, <2>2, <2>4, <2>6
  <2> QED
    BY <2>5, <2>6
<1>6. SameStreams
  BY <1>0 DEF SameStreams
<1>7. UNCHANGED <<front, feeders, input, started, running>>
  BY <1>0, <1>6, SameWriters, SameRing, MappedAfter DEF running, Running
<1>8. owed' = [owed EXCEPT ![to] = @ \cup owed[lineno + 1], ![lineno + 1] = {}]
  <2>1. owed' = [n \in LineNo |-> owed'[n]] /\ owed = [n \in LineNo |-> owed[n]]
    BY MappedAfter DEF owed
  <2>2. to # lineno + 1
    BY <1>0, <1>2
  <2> HIDE DEF owed, to
  <2> QED
    BY <1>0, <1>3, <1>5, <2>1, <2>2
<1> HIDE DEF to
<1>9. Promise!PassOn(to)
  BY <1>0, <1>3, <1>7, <1>8 DEF Promise!PassOn
<1> QED
  BY <1>3, <1>9

\* The line's end moves the ring on by one: what waited for the next line is its front.
LEMMA EndLineStep ==
  ASSUME PromiseInv, EndLine
  PROVE  Promise!EndLine
<1>0. /\ TypeOK /\ pc = "wait" /\ pc' # "exited" /\ UNCHANGED proc
      /\ lineno' = lineno + 1 /\ current_pos' = NextPos
      /\ Slot(0) = current_pos /\ current_pos \in Slots /\ 0 \in Slots
      /\ lineno + 1 \in LineNo /\ lineno \in Nat
      /\ MaxPipe \in Nat \ {0} /\ Slots = 0 .. MaxPipe - 1
  BY MappedNow, SlotHere, RingAssumption DEF EndLine, Slots
<1>1. SameStreams
  BY <1>0 DEF SameStreams
<1>2. UNCHANGED <<input, started, running>>
  BY <1>0, <1>1, SameWriters, MappedAfter DEF running, Running
<1>3. \A k \in Slots : /\ pipes'[k] = IF k = current_pos THEN NoPipe ELSE pipes[k]
                       /\ child_processes'[k] = IF k = current_pos THEN {} ELSE child_processes[k]
  BY <1>0 DEF EndLine, TypeOK
<1>4. \A a \in Slots : Slot(a) \in Slots /\ (Slot(a) = current_pos => a = 0)
  BY <1>0, SlotWraps, SlotApart
<1>5. WritersOf(NoPipe) = {}
  BY DEF WritersOf
<1>6. \A n \in LineNo, c \in Slots :
        c = n - lineno' - 1 =>
          IF c + 1 \in Slots
            THEN /\ Slot(c + 1) \in Slots /\ Slot(c + 1) # current_pos
                 /\ (current_pos' + c) % MaxPipe = Slot(c + 1)
            ELSE (current_pos' + c) % MaxPipe = current_pos
  <2> SUFFICES ASSUME NEW c \in Slots
               PROVE  IF c + 1 \in Slots
                        THEN /\ Slot(c + 1) \in Slots /\ Slot(c + 1) # current_pos
                             /\ (NextPos + c) % MaxPipe = Slot(c + 1)
                        ELSE (NextPos + c) % MaxPipe = current_pos
    BY <1>0
  <2>1. c + 1 # 0
    BY <1>0
  <2> QED
    BY <1>0, <1>4, <2>1, SlotTurns
<1>7. owed[lineno + 1] \cap running = {}
  <2>1. (lineno + 1) - lineno - 1 = 0
    BY <1>0
  <2>2. owed[lineno + 1] = IF (lineno + 1) - lineno - 1 \in Slots
                             THEN child_processes[Slot((lineno + 1) - lineno - 1)] ELSE {}
    BY <1>0 DEF owed, InRing, Ahead
  <2>3. owed[lineno + 1] = child_processes[Slot(0)]
    BY <1>0, <2>1, <2>2
  <2> QED
    BY <2>3 DEF EndLine, running
<1>8. front' = feeders[lineno + 1 + 1]
  <2> DEFINE n == lineno + 1 + 1
  <2>1. front' = WritersOf(pipes'[NextPos])
    BY <1>0, <1>1, MappedAfter, SameWriters
  <2>2. NextPos = IF 1 \in Slots THEN Slot(1) ELSE current_pos
    <3>1. (NextPos + 0) % MaxPipe = IF 0 + 1 \in Slots THEN Slot(0 + 1) ELSE current_pos
      BY <1>0, SlotTurns
    <3>2. NextPos \in 0 .. MaxPipe - 1
      BY <1>0 DEF NextPos
    <3> QED
      BY <1>0, <3>1, <3>2
  <2>3. n \in LineNo /\ n - lineno - 1 = 1
    <3>1. lineno < MaxLine /\ MaxLine \in Nat
      BY <1>0, BoundAssumption DEF PromiseInv, BoundInv
    <3> QED
      BY <1>0, <3>1 DEF LineNo
  <2>4. feeders[n] = IF n - lineno - 1 \in Slots /\ n - lineno - 1 # 0
                       THEN WritersOf(pipes[Slot(n - lineno - 1)]) ELSE {}
    BY <2>3 DEF feeders, InRing, Ahead
  <2>5. feeders[n] = IF 1 \in Slots THEN WritersOf(pipes[Slot(1)]) ELSE {}
    BY <2>3, <2>4
  <2>6. CASE 1 \in Slots
    <3>1. Slot(1) \in Slots /\ Slot(1) # current_pos
      BY <1>4, <2>6
    <3> QED
      BY <1>3, <2>1, <2>2, <2>5, <2>6, <3>1
  <2>7. CASE 1 \notin Slots
    BY <1>0, <1>3, <1>5, <2>1, <2>2, <2>5, <2>7
  <2> QED
    BY <2>6, <2>7
<1>9. \A n \in LineNo : /\ feeders'[n] = IF n = lineno + 1 + 1 THEN {} ELSE feeders[n]
                        /\ owed'[n] = IF n = lineno + 1 THEN {} ELSE owed[n]
  <2> SUFFICES ASSUME NEW n \in LineNo
               PROVE  /\ feeders'[n] = IF n = lineno + 1 + 1 THEN {} ELSE feeders[n]
                      /\ owed'[n] = IF n = lineno + 1 THEN {} ELSE owed[n]
    OBVIOUS
  <2> DEFINE c == n - lineno' - 1
  <2>1. /\ feeders'[n] = IF c \in Slots /\ c # 0 THEN WritersOf(pipes'[(current_pos' + c) % MaxPipe]) ELSE {}
        /\ owed'[n] = IF c \in Slots THEN child_processes'[(current_pos' + c) % MaxPipe] ELSE {}
    BY <1>1, MappedAfter, SameWriters
  <2>2. c \in Int /\ n - lineno - 1 = c + 1
    BY <1>0 DEF LineNo
  <2>3. /\ feeders[n] = IF n - lineno - 1 \in Slots /\ n - lineno - 1 # 0
                          THEN WritersOf(pipes[Slot(n - lineno - 1)]) ELSE {}
        /\ owed[n] = IF n - lineno - 1 \in Slots THEN child_processes[Slot(n - lineno - 1)] ELSE {}
    BY DEF feeders, owed, InRing, Ahead
  <2>4. /\ feeders[n] = IF c + 1 \in Slots /\ c + 1 # 0 THEN WritersOf(pipes[Slot(c + 1)]) ELSE {}
        /\ owed[n] = IF c + 1 \in Slots THEN child_processes[Slot(c + 1)] ELSE {}
    BY <2>2, <2>3
  <2>5. (n = lineno + 1 + 1 <=> c = 0) /\ (n = lineno + 1 <=> c + 1 = 0)
    BY <1>0 DEF LineNo
  <2>6. c \in Slots =>
          IF c + 1 \in Slots
            THEN /\ Slot(c + 1) \in Slots /\ Slot(c + 1) # current_pos
                 /\ (current_pos' + c) % MaxPipe = Slot(c + 1)
            ELSE (current_pos' + c) % MaxPipe = current_pos
    BY <1>6
  <2>7. /\ c + 1 \in Slots => c \in Slots \/ c + 1 = 0
        /\ c \in Slots => c + 1 # 0
    BY <1>0, <2>2
  <2> HIDE DEF c
  <2>8. CASE c \in Slots /\ c + 1 \in Slots
    BY <1>3, <2>1, <2>4, <2>5, <2>6, <2>7, <2>8
  <2>9. CASE c \in Slots /\ c + 1 \notin Slots
    BY <1>0, <1>3, <1>5, <2>1, <2>4, <2>5, <2>6, <2>7, <2>9
  <2>10. CASE c \notin Slots
    BY <1>0, <2>1, <2>4, <2>5, <2>7, <2>10
  <2> QED
    BY <2>8, <2>9, <2>10
<1>10. /\ feeders' = [feeders EXCEPT ![lineno + 1 + 1] = {}]
       /\ owed' = [owed EXCEPT ![lineno + 1] = {}]
  <2>1. /\ feeders' = [n \in LineNo |-> feeders'[n]] /\ feeders = [n \in LineNo |-> feeders[n]]
        /\ owed' = [n \in LineNo |-> owed'[n]] /\ owed = [n \in LineNo |-> owed[n]]
    BY MappedAfter DEF feeders, owed
  <2> HIDE DEF feeders, owed
  <2> QED
    BY <1>9, <2>1
<1> QED
  BY <1>0, <1>2, <1>7, <1>8, <1>10 DEF Promise!EndLine

\* The shell keeps its promise when no line is piped around the whole ring: each command
\* reads exactly those that wrote to its line or come just before it, and a line ends
\* only when the processes that it owes have ended.
THEOREM PromiseKept ==
  ASSUME NotOntoItself
  PROVE  Spec => KeepsPromise
<1>1. Init => Promise!Init
  <2> SUFFICES ASSUME Init PROVE Promise!Init
    OBVIOUS
  <2>1. /\ pipes = [k \in Slots |-> NoPipe] /\ current_pos = 0 /\ lineno = 0 /\ pc = "prompt"
        /\ child_processes = [k \in Slots |-> {}] /\ proc = [p \in Proc |-> NoProc]
    BY DEF Init
  <2>2. 0 \in Slots /\ TypeOK
    BY RingAssumption, RingInit DEF Slots, RingInv
  <2>3. WritersOf(NoPipe) = {}
    BY DEF WritersOf
  <2>4. \A a \in Slots : Slot(a) \in Slots
    BY <2>2, SlotWraps
  <2>5. front = {}
    BY <2>1, <2>2, <2>3 DEF front
  <2>6. feeders = [n \in LineNo |-> {}] /\ owed = [n \in LineNo |-> {}]
    BY <2>1, <2>3, <2>4 DEF feeders, owed, InRing, Ahead
  <2>7. \A p \in Proc : proc[p].in = NoPipe /\ proc[p].st = "none"
    BY <2>1 DEF NoProc
  <2>8. input = [p \in Proc |-> {}] /\ started = {} /\ running = {}
    BY <2>3, <2>7 DEF input, started, running, Running
  <2> QED
    BY <2>1, <2>5, <2>6, <2>8 DEF Promise!Init
<1>2. PromiseInv /\ [Next]_vars => [Promise!Next]_Promise!vars
  <2> SUFFICES ASSUME PromiseInv, [Next]_vars PROVE [Promise!Next]_Promise!vars
    OBVIOUS
  <2>1. CASE \/ ReadLine \/ ExecBuiltin \/ ExecForkError \/ (Forward /\ lastTask.out = NotPipe)
             \/ UNCHANGED vars
    BY <2>1, QuietStep DEF Unseen, Promise!vars
  <2>2. CASE Forward /\ lastTask.out # NotPipe
    BY <2>2, PassOnStep DEF Promise!Next
  <2>3. CASE ReadEof \/ ExecExit
    BY <2>3, ExitStep DEF Promise!Next, Promise!Exit
  <2>4. CASE ExecFork
    <3>1. nproc + 1 \in Proc
      BY <2>4, MappedNow, ForkProc
    <3> QED
      BY <2>4, <3>1, StartStep DEF Promise!Next
  <2>5. CASE EndLine
    BY <2>5, EndLineStep DEF Promise!Next
  <2>6. ASSUME NEW p \in Proc, ProcStep(p)
        PROVE  [Promise!Next]_Promise!vars
    <3>1. /\ Unseen /\ p \in running
          /\ running' = running \/ running' = running \ {p}
      BY <2>6, FinishStep
    <3>2. CASE running' = running
      BY <3>1, <3>2 DEF Unseen, Promise!vars
    <3>3. CASE running' = running \ {p}
      BY <3>1, <3>3 DEF Unseen, Promise!Next, Promise!Finish
    <3> QED
      BY <3>1, <3>2, <3>3
  <2> QED
    BY <2>1, <2>2, <2>3, <2>4, <2>5, <2>6 DEF Next, ShellStep
<1> QED
  BY <1>1, <1>2, PromiseInvariant, PTL DEF Spec, KeepsPromise, Promise!Spec

-----------------------------------------------------------------------------
(* A writer loses its output only to a reader that has ended, when the     *)
(* pipes that reach a line find a command to read them.                    *)

\* A line ends in a command that is run in a process, or in exit, and its errors are not
\* piped around the whole ring.
LastRuns ==
  \A l \in Lines : l # <<>> => /\ l[Len(l)].kind # "builtin"
                               /\ l[Len(l)].err # NotPipe => l[Len(l)].err % MaxPipe # 0

\* After the line's last task nothing waits in the line's slot.
ConsumedInv == pc \in {"forward", "wait"} => pipes[current_pos] = NoPipe

\* What somebody writes to can still be read, or was given to a reader.
SinkInv ==
  pc # "exited" =>
    \A p \in Proc : \A q \in {proc[p].out, proc[p].err} \ {NoPipe} :
      q \in open \/ \E r \in Proc : proc[r].in = q

\* The last task takes what waited in the line's slot and leaves nothing there.
LEMMA ConsumedStep ==
  ASSUME LastRuns, RingInv, LineKnown, ConsumedInv, [Next]_vars
  PROVE  ConsumedInv'
<1>0. /\ TypeOK /\ Slot(0) = current_pos /\ current_pos \in Slots
  BY SlotHere DEF RingInv, TypeOK
<1>1. CASE ReadLine \/ ReadEof \/ ExecExit \/ EndLine
  BY <1>1 DEF ReadLine, ReadEof, ExecExit, ExitShell, EndLine, ConsumedInv
<1>2. CASE ExecBuiltin
  <2>1. idx # Len(line)
    <3>1. ASSUME idx = Len(line)
          PROVE  FALSE
      BY <1>2, <3>1 DEF ExecBuiltin, task, LineKnown, LastRuns
    <3> QED
      BY <3>1
  <2> QED
    BY <1>2, <2>1 DEF ExecBuiltin, NextTask, ConsumedInv
<1>3. CASE ExecFork
  <2>1. CASE AfterLast
    <3>1. RingOf(ring, made) /\ current_pos' = current_pos
      BY <1>3, ExecRing DEF ExecFork
    <3> QED
      BY <1>0, <1>3, <2>1, <3>1 DEF ExecFork, ConsumedInv, RingOf
  <2>2. CASE ~AfterLast
    BY <1>3, <2>2 DEF ExecFork, NextTask, AfterLast, ConsumedInv
  <2> QED
    BY <2>1, <2>2
<1>4. CASE ExecForkError \/ Forward \/ UNCHANGED vars
  BY <1>4 DEF ExecForkError, Forward, ConsumedInv, env, vars
<1>5. ASSUME NEW p \in Proc, ProcStep(p)
      PROVE  ConsumedInv'
  BY <1>5, ShellFrame DEF ConsumedInv, env
<1> QED
  BY <1>1, <1>2, <1>3, <1>4, <1>5 DEF Next, ShellStep

\* The last task's output is not the pipe that is closed after it.
LEMMA LastTargets ==
  ASSUME NotOntoItself, LastRuns, RingInv, LineKnown, pc = "exec", AfterLast
  PROVE  Child.out # npipe + 1 /\ Child.err # npipe + 1
<1>0. /\ TypeOK /\ line \in Lines /\ line # <<>> /\ task = lastTask /\ current_pos \in Slots
  BY DEF RingInv, TypeOK, LineKnown, AfterLast, task, lastTask
<1>1. /\ task \in Task /\ RingOf(ring, made) /\ ring[current_pos] = npipe + 1 /\ npipe \in Nat
  BY <1>0, ExecRing DEF TypeOK
<1>2. /\ task.out \in Nat \cup {NotPipe} /\ (task.out # NotPipe => task.out % MaxPipe # 0)
      /\ task.err \in Nat \cup {NotPipe} /\ (task.err # NotPipe => task.err % MaxPipe # 0)
  BY <1>0, <1>1 DEF NotOntoItself, LastRuns, lastTask, Task
<1>3. ASSUME NEW n \in Nat \cup {NotPipe}, n # NotPipe => n % MaxPipe # 0
      PROVE  Target(ring, n) # npipe + 1
  <2>1. CASE n = NotPipe
    BY <1>1, <2>1 DEF Target, NoPipe
  <2>2. CASE n # NotPipe
    <3>1. Slot(n) \in Slots /\ Slot(n) # current_pos
      BY <1>0, <1>3, <2>2, OtherSlot
    <3> QED
      BY <1>0, <1>1, <2>2, <3>1 DEF Target, RingOf, NoPipe
  <2> QED
    BY <2>1, <2>2
<1> QED
  BY <1>2, <1>3 DEF Child

\* Every pipe that is written to stays in the ring until a command is given it.
LEMMA SinkStep ==
  ASSUME NotOntoItself, LastRuns, RingInv, LineKnown, FreshInv, ConsumedInv, SinkInv, [Next]_vars
  PROVE  SinkInv'
<1>0. /\ TypeOK /\ SlotOwnership /\ npipe \in Nat
      /\ \A p \in Proc : proc[p].out \in 0 .. npipe /\ proc[p].err \in 0 .. npipe
  BY DEF RingInv, TypeOK, ProcRec
<1>1. CASE ReadLine \/ ExecBuiltin \/ Forward \/ UNCHANGED vars
  BY <1>1 DEF ReadLine, ExecBuiltin, NextTask, Forward, SinkInv, kernel, vars
<1>2. CASE ReadEof \/ ExecExit
  BY <1>2 DEF ReadEof, ExecExit, ExitShell, SinkInv
<1>3. CASE ExecFork
  <2> DEFINE new == nproc + 1
  <2>1. pc = "exec" /\ open = Enabled(pipes)
    BY <1>0, <1>3 DEF ExecFork, SlotOwnership
  <2>2. /\ new \in Proc /\ proc'[new] = Child
        /\ \A p \in Proc : p # new => proc'[p] = proc[p]
    BY <1>0, <1>3, ForkProc
  <2> HIDE DEF new
  <2>3. /\ Enabled(ring) = (Enabled(pipes) \ {taken}) \cup (npipe + 1 .. made)
        /\ taken \in 0 .. npipe /\ ring[current_pos] = npipe + 1 /\ Slot(0) = current_pos
    BY <1>0, <2>1, ExecRing, SlotHere
  <2>4. open' = (open \cup (npipe + 1 .. made)) \ ({taken} \cup (IF AfterLast THEN {npipe + 1} ELSE {}))
    BY <1>3, <2>3 DEF ExecFork, ClosedByParent
  <2>5. /\ Child.in = taken
        /\ Child.out \in {NoPipe} \cup Enabled(ring) /\ Child.err \in {NoPipe} \cup Enabled(ring)
        /\ taken # NoPipe => taken \notin Enabled(ring)
    BY <2>1, ChildStreams DEF RingInv
  <2>6. AfterLast => Child.out # npipe + 1 /\ Child.err # npipe + 1
    BY <2>1, LastTargets
  <2>7. \A q \in {Child.out, Child.err} \ {NoPipe} : q \in open'
    <3> SUFFICES ASSUME NEW q \in {Child.out, Child.err} \ {NoPipe}
                 PROVE  q \in open'
      OBVIOUS
    <3>1. q \in Enabled(ring) /\ q # taken /\ (AfterLast => q # npipe + 1)
      BY <2>5, <2>6
    <3> QED
      BY <2>1, <2>3, <2>4, <3>1
  <2>8. \A p \in Proc : p # new =>
          \A q \in {proc[p].out, proc[p].err} \ {NoPipe} :
            q \in open' \/ q = taken \/ \E r \in Proc : proc[r].in = q
    <3> SUFFICES ASSUME NEW p \in Proc, NEW q \in {proc[p].out, proc[p].err} \ {NoPipe},
                        q \in open, q # taken
                 PROVE  q \in open'
      BY <2>1 DEF SinkInv
    <3>1. q \in 0 .. npipe
      BY <1>0
    <3> QED
      BY <1>0, <2>4, <3>1
  <2>9. \A q : q # NoPipe /\ (\E r \in Proc : proc[r].in = q) => \E r \in Proc : r # new /\ proc[r].in = q
    <3>1. proc[new].in = NoPipe
      <4>1. proc[new] = NoProc
        BY <1>0, <2>2 DEF FreshInv, new, TypeOK
      <4> QED
        BY <4>1 DEF NoProc
    <3> QED
      BY <3>1
  <2> QED
    BY <2>2, <2>5, <2>7, <2>8, <2>9 DEF SinkInv
<1>4. CASE ExecForkError
  <2>1. ring[current_pos] = npipe + 1 /\ Slot(0) = current_pos /\ pc = "exec"
    BY <1>0, <1>4, ExecRing, SlotHere DEF ExecForkError
  <2>2. \A q \in 0 .. npipe : q \in open => q \in open'
    BY <1>0, <1>4, <2>1 DEF ExecForkError
  <2>3. proc' = proc /\ pc' = pc
    BY <1>4 DEF ExecForkError
  <2> QED
    BY <1>0, <2>2, <2>3 DEF SinkInv
<1>5. CASE EndLine
  <2>1. open' = open \ {NoPipe} /\ proc' = proc /\ pc = "wait"
    BY <1>5 DEF EndLine, ConsumedInv
  <2> QED
    BY <2>1 DEF SinkInv
<1>6. ASSUME NEW p \in Proc, ProcStep(p)
      PROVE  SinkInv'
  BY <1>0, <1>6, StreamFrame, ShellFrame DEF SinkInv
<1> QED
  BY <1>1, <1>2, <1>3, <1>4, <1>5, <1>6 DEF Next, ShellStep

\* A command that dies of a write had a reader, and the reader has ended.
LEMMA SigpipeStep ==
  ASSUME RingInv, ChildrenAccounted, FreshInv, SinkInv, SigpipeHasReader, [Next]_vars
  PROVE  SigpipeHasReader'
<1> DEFINE Ended(r) == proc[r].st # "none" /\ proc[r].st # "running"
           End0(p)  == IF proc[p].onErr THEN proc[p].err ELSE proc[p].out
<1>0. TypeOK
  BY DEF RingInv
<1>1. ASSUME \A p \in Proc : /\ proc'[p].in = proc[p].in /\ proc'[p].out = proc[p].out
                             /\ proc'[p].err = proc[p].err /\ proc'[p].onErr = proc[p].onErr
                             /\ proc'[p].st = "sigpipe" => proc[p].st = "sigpipe"
                             /\ Ended(p) => proc'[p].st # "none" /\ proc'[p].st # "running"
      PROVE  SigpipeHasReader'
  BY <1>1 DEF SigpipeHasReader, Sink, Running
<1>2. CASE ReadLine \/ ExecBuiltin \/ ExecForkError \/ Forward \/ EndLine \/ UNCHANGED vars
  <2>1. proc' = proc
    BY <1>2 DEF ReadLine, ExecBuiltin, ExecForkError, Forward, EndLine, kernel, vars
  <2> QED
    BY <1>1, <2>1
<1>3. CASE ReadEof \/ ExecExit
  <2>1. ExitShell
    BY <1>3 DEF ReadEof, ExecExit
  <2> QED
    BY <1>0, <1>1, <2>1, ExitStreams
<1>4. CASE ExecFork
  <2> DEFINE new == nproc + 1
  <2>1. /\ new \in Proc /\ proc'[new] = Child /\ Child.st = "running"
        /\ \A p \in Proc : p # new => proc'[p] = proc[p]
    BY <1>0, <1>4, ForkProc DEF Child
  <2>2. proc[new].st = "none"
    <3>1. proc[new] = NoProc
      BY <1>0, <2>1 DEF FreshInv, TypeOK
    <3> QED
      BY <3>1 DEF NoProc
  <2> HIDE DEF new
  <2>3. \A p \in Proc : proc'[p].st = "sigpipe" => proc'[p] = proc[p]
    BY <2>1
  <2>4. \A r \in Proc : Ended(r) => proc'[r] = proc[r]
    BY <2>1, <2>2
  <2> QED
    BY <2>3, <2>4 DEF SigpipeHasReader, Sink, Running
<1>5. ASSUME NEW p \in Proc, ProcStep(p)
      PROVE  SigpipeHasReader'
  <2>1. \A q \in Proc : /\ proc'[q].in = proc[q].in /\ proc'[q].out = proc[q].out
                        /\ proc'[q].err = proc[q].err /\ proc'[q].onErr = proc[q].onErr
                        /\ q # p => proc'[q] = proc[q]
                        /\ q = p => proc[q].st = "running" /\ proc'[q].st \in {"running", "sigpipe", "done"}
    BY <1>0, <1>5, StreamFrame
  <2>2. CASE proc'[p].st # "sigpipe"
    BY <1>1, <2>1, <2>2
  <2>3. CASE proc'[p].st = "sigpipe"
    <3>1. Running(p) /\ Sink(p) # NoPipe /\ ~HasReader(Sink(p))
      <4>1. proc[p] \in ProcRec(npipe) /\ proc[p].st = "running"
        BY <1>0, <2>1 DEF TypeOK
      <4>2. Read(p) => proc'[p].st = "running"
        BY <1>0, <4>1 DEF Read, TypeOK, ProcRec
      <4>3. End(p) => proc'[p].st = "done"
        BY <1>0, <4>1 DEF End, TypeOK, ProcRec
      <4>4. Write(p) => (Sink(p) # NoPipe /\ ~HasReader(Sink(p))) \/ proc'[p].st = "running"
        BY <1>0, <4>1 DEF Write, TypeOK, ProcRec
      <4> QED
        BY <1>5, <2>3, <4>1, <4>2, <4>3, <4>4 DEF ProcStep, Running
    <3>2. PICK r \in Proc : proc[r].in = Sink(p)
      BY <3>1 DEF ChildrenAccounted, SinkInv, Sink, HasReader
    <3>3. ~Running(r) /\ r # p
      BY <3>1, <3>2 DEF HasReader
    <3>4. proc[r].st # "none"
      <4>1. proc[r] # NoProc
        BY <3>1, <3>2 DEF NoProc
      <4> QED
        BY <4>1 DEF FreshInv
    <3>5. \A q \in Proc : Ended(q) => proc'[q] = proc[q]
      BY <2>1
    <3>6. proc'[r] = proc[r] /\ Ended(r) /\ (Sink(p))' = Sink(p)
      BY <2>1, <3>3, <3>4 DEF Running, Sink
    <3>7. ASSUME NEW q \in Proc, q # p, proc'[q].st = "sigpipe"
          PROVE  \E x \in Proc : proc'[x].st # "none" /\ proc'[x].st # "running" /\ proc'[x].in = (Sink(q))'
      <4>1. proc[q].st = "sigpipe" /\ (Sink(q))' = Sink(q)
        BY <2>1, <3>7 DEF Sink
      <4>2. PICK x \in Proc : Ended(x) /\ proc[x].in = Sink(q)
        BY <4>1 DEF SigpipeHasReader, Running
      <4> QED
        BY <3>5, <4>1, <4>2
    <3>8. \E x \in Proc : proc'[x].st # "none" /\ proc'[x].st # "running" /\ proc'[x].in = (Sink(p))'
      BY <3>2, <3>6
    <3> QED
      BY <3>7, <3>8 DEF SigpipeHasReader, Running
  <2> QED
    BY <2>2, <2>3
<1> QED
  BY <1>2, <1>3, <1>4, <1>5 DEF Next, ShellStep

\* When every line ends in a command and none is piped around the whole ring, a writer
\* loses its output only to a reader that has ended.
THEOREM WritersLoseToReaders ==
  ASSUME NotOntoItself, LastRuns
  PROVE  Spec => []SigpipeHasReader
<1>1. Init => ConsumedInv /\ SinkInv /\ SigpipeHasReader
  BY DEF Init, ConsumedInv, SinkInv, SigpipeHasReader, NoProc
<1>2. PromiseInv /\ ConsumedInv /\ SinkInv /\ SigpipeHasReader /\ [Next]_vars
        => ConsumedInv' /\ SinkInv' /\ SigpipeHasReader'
  BY ConsumedStep, SinkStep, SigpipeStep DEF PromiseInv
<1> QED
  BY <1>1, <1>2, PromiseInvariant, PTL DEF Spec
=============================================================================
