--------------------------- MODULE UserPipesProofs ---------------------------
(***************************************************************************)
(* Proofs about UserPipes, for any users, rings, pipes and lines: whose    *)
(* pipe is whose, that none is lost, and that every child is accounted     *)
(* for.                                                                    *)
(***************************************************************************)
EXTENDS UserPipes, FiniteSetTheorems, SequenceTheorems, TLAPS

\* What user u has in slot k of the ring, and what waits aside for the next command.
Ring(u, k) == env[u].pipes[k]
Last(u)    == env[u].last_pipe

Routed(q) == route[q] # <<NoUser, NoUser>>

\* The server is about to try the fork of a command of u again.
Retry(u, k) == pc = "exec" /\ who = u /\ k = env[u].current_pos /\ line[idx].kind = "run"

\* Ids are held by different sessions, and all sessions that are named have begun.
SessionInv ==
  /\ \A u \in User : holder[u] \in 0 .. nsession
  /\ \A u, v \in User : holder[u] = holder[v] /\ holder[u] # NoUser => u = v
  /\ \A u \in garbage : Online(u)
  /\ \A q \in Pipes : Routed(q) => route[q][1] \in 1 .. nsession /\ route[q][2] \in 1 .. nsession
  /\ \A p \in Proc : proc[p].by \in 0 .. nsession
  /\ \A p \in Proc : p > nproc => proc[p] = NoProc

\* A line is executed for a user who is there, and finds a process for each task;
\* one whose `>` was announced has a pipe and a receiver.
LineInv ==
  /\ pc # "idle" => Online(who) /\ line \in Lines
  /\ pc = "exec" => idx \in 1 .. Len(line) /\ nproc + Len(line) - idx < MaxFork
  /\ pc \in {"exec", "forward"} /\ lastTask.to # NoUser /\ ~outError =>
       /\ Online(lastTask.to)
       /\ \E q \in Pipes : route[q] = <<holder[who], holder[lastTask.to]>>

\* What waits in a mailbox was made for the two sessions that are there now.
BoxInv == \A s, r \in User : Mail(s, r) # NoPipe =>
            Online(s) /\ Online(r) /\ route[Mail(s, r)] = <<holder[s], holder[r]>>

\* A slot holds a pipe of its own; it holds a user pipe or /dev/null only until a
\* fork that failed is tried again.
RingInv ==
  \A u \in User, j \in Slots :
    /\ Ring(u, j) # NoPipe => Online(u)
    /\ Ring(u, j) = DevNull \/ (Ring(u, j) \in Pipes /\ Routed(Ring(u, j))) =>
         Retry(u, j) /\ Last(u) = Ring(u, j)
    /\ \A v \in User, k \in Slots : Ring(u, j) = Ring(v, k) /\ Ring(u, j) # NoPipe => u = v /\ j = k

\* last_pipe is a user pipe that has left its mailbox, unless a fork failed.
LastInv ==
  \A u \in User :
    /\ Last(u) # NoPipe => Online(u)
    /\ Last(u) \in Pipes =>
         IF Routed(Last(u)) THEN route[Last(u)][2] = holder[u] /\ ~Boxed(Last(u))
                            ELSE \E k \in Slots : Retry(u, k) /\ Last(u) = Ring(u, k)

PlaceInv == TypeOK /\ SessionInv /\ LineInv /\ BoxInv /\ RingInv /\ LastInv

-----------------------------------------------------------------------------
(* Positions in a ring of m slots; pipes in the order of their creation.   *)

\* Quotient and remainder.
LEMMA DivMod ==
  ASSUME NEW m \in Nat \ {0}, NEW y \in Int
  PROVE  y \div m \in Int /\ y % m \in 0 .. m - 1 /\ y = m * (y \div m) + (y % m)
OBVIOUS

\* The remainder is the only number below m that differs from a by a multiple of m.
LEMMA ModUnique ==
  ASSUME NEW m \in Nat \ {0}, NEW a \in Int, NEW q \in Int, NEW s \in 0 .. m - 1, a = m * q + s
  PROVE  a % m = s
<1> DEFINE d == a \div m
           r == a % m
<1>1. d \in Int /\ r \in 0 .. m - 1 /\ a = m * d + r
  BY DivMod
<1>2. \A k \in Int : k >= 1 => m * k >= m
  OBVIOUS
<1>3. \A k \in Int : k <= -1 => m * k <= -m
  OBVIOUS
<1> HIDE DEF d, r
<1>4. q - d \in Int /\ m * (q - d) = r - s
  <2>1. m * (q - d) = m * q - m * d
    BY <1>1
  <2>2. m * q \in Int /\ m * d \in Int
    BY <1>1
  <2> QED
    BY <1>1, <2>1, <2>2
<1>5. r - s \in Int /\ r - s < m /\ r - s > -m
  BY <1>1
<1>6. q - d = 0
  <2>1. ~(q - d >= 1)
    BY <1>2, <1>4, <1>5
  <2>2. ~(q - d <= -1)
    BY <1>3, <1>4, <1>5
  <2> QED
    BY <1>4, <2>1, <2>2
<1>7. r - s = 0
  BY <1>4, <1>6
<1> QED
  BY <1>1, <1>7 DEF r

\* Adding n leaves a remainder as it was only when n is a multiple of m.
LEMMA ModAround ==
  ASSUME NEW m \in Nat \ {0}, NEW x \in 0 .. m - 1, NEW n \in Nat, (x + n) % m = x
  PROVE  n % m = 0
<1> DEFINE q == (x + n) \div m
<1>1. q \in Int /\ x + n = m * q + x
  <2>1. x + n \in Int
    OBVIOUS
  <2> QED
    BY <2>1, DivMod
<1> HIDE DEF q
<1>2. n = m * q + 0 /\ 0 \in 0 .. m - 1 /\ n \in Int
  <2>1. m * q \in Int
    BY <1>1
  <2> QED
    BY <1>1, <2>1
<1> QED
  BY <1>1, <1>2, ModUnique

\* One value more for the next pipe.
LEMMA AppendNext ==
  ASSUME NEW n \in Nat, NEW S, NEW f \in [1 .. n -> S], NEW x \in S
  PROVE  /\ Append(f, x) \in [1 .. n + 1 -> S]
         /\ Append(f, x)[n + 1] = x
         /\ \A i \in 1 .. n : Append(f, x)[i] = f[i]
<1>1. f \in Seq(S) /\ Len(f) = n
  OBVIOUS
<1>2. /\ Append(f, x) \in Seq(S) /\ Len(Append(f, x)) = n + 1
      /\ \A i \in 1 .. n : Append(f, x)[i] = f[i]
      /\ Append(f, x)[n + 1] = x
  BY ONLY <1>1, AppendProperties, n \in Nat, x \in S
<1>3. Append(f, x) \in [1 .. n + 1 -> S]
  BY ONLY <1>2, LenProperties
<1> QED
  BY <1>2, <1>3

-----------------------------------------------------------------------------
(* Sequences over the pipes, slots, and the new ring of Task::exec.        *)

\* Records stay well formed when the kernel numbers more pipes.
LEMMA RecordsGrow ==
  ASSUME NEW m \in Nat, NEW n \in Nat, m <= n
  PROVE  /\ ProcRec(m) \subseteq ProcRec(n)
         /\ EnvRec(m) \subseteq EnvRec(n)
<1>1. 1 .. m \subseteq 1 .. n /\ 0 .. m \subseteq 0 .. n
  OBVIOUS
<1>2. ProcRec(m) \subseteq ProcRec(n)
  BY <1>1 DEF ProcRec
<1>3. /\ [Slots -> 1 .. m \cup {NoPipe, DevNull}] \subseteq [Slots -> 1 .. n \cup {NoPipe, DevNull}]
      /\ [User -> 0 .. m] \subseteq [User -> 0 .. n]
  BY <1>1
<1>4. EnvRec(m) \subseteq EnvRec(n)
  BY <1>1, <1>3 DEF EnvRec
<1> QED
  BY <1>2, <1>4

\* The position of any line ahead is a slot; that of the line itself is current_pos.
LEMMA SlotRange ==
  ASSUME TypeOK, who \in User
  PROVE  /\ me \in EnvRec(npipe)
         /\ me.current_pos \in Slots
         /\ Slot(0) = me.current_pos
         /\ \A n \in Nat : Slot(n) \in Slots
<1>1. me \in EnvRec(npipe)
  BY DEF TypeOK, me
<1>2. me.current_pos \in 0 .. MaxPipe - 1
  BY <1>1 DEF EnvRec, Slots
<1>3. MaxPipe \in Nat \ {0}
  BY BoundAssumption
<1>4. Slot(0) = me.current_pos
  BY <1>2, <1>3 DEF Slot
<1>5. \A n \in Nat : Slot(n) \in 0 .. MaxPipe - 1
  BY <1>2, <1>3 DEF Slot
<1> QED
  BY <1>1, <1>2, <1>4, <1>5 DEF Slots

\* A set of at most two things has as many elements as one counts.
LEMMA TwoAtMost ==
  ASSUME NEW a, NEW b, NEW S, S \subseteq {a, b}
  PROVE  /\ Cardinality(S) \in {0, 1, 2}
         /\ S # {} => Cardinality(S) >= 1
         /\ a \in S /\ b \in S /\ a # b => Cardinality(S) = 2
<1>1. CASE S = {}
  BY <1>1, FS_EmptySet
<1>2. CASE S = {a} \/ S = {b}
  <2>1. Cardinality({a}) = 1 /\ Cardinality({b}) = 1
    BY FS_Singleton
  <2>2. a \in S /\ b \in S => a = b
    BY <1>2
  <2> QED
    BY <1>2, <2>1, <2>2
<1>3. CASE S = {a, b} /\ a # b
  <2>1. IsFiniteSet({a}) /\ Cardinality({a}) = 1
    BY FS_Singleton
  <2>2. Cardinality({a} \cup {b}) = 2
    BY <1>3, <2>1, FS_AddElement
  <2>3. S = {a} \cup {b}
    BY <1>3
  <2> QED
    BY <2>2, <2>3
<1> QED
  BY <1>1, <1>2, <1>3

\* The ring that Task::exec has built when it calls fork(): the current slot has a
\* new pipe, the others have what they had or a new one each.
LEMMA ExecRing ==
  ASSUME PlaceInv, pc = "exec"
  PROVE  /\ who \in User /\ task \in Task
         /\ made \in Nat /\ made > npipe
         /\ taken \in 1 .. npipe \cup {NoPipe, DevNull}
         /\ ring \in [Slots -> 1 .. made \cup {NoPipe, DevNull}]
         /\ ring[me.current_pos] = npipe + 1
         /\ \A k \in Slots : k # me.current_pos =>
              \/ ring[k] = Ring(who, k)
              \/ Ring(who, k) = NoPipe /\ ring[k] \in npipe + 2 .. made
         /\ \A j, k \in Slots : ring[j] = ring[k] /\ ring[j] > npipe => j = k
<1> DEFINE cur == me.current_pos
           a == Slot(task.out)
           b == Slot(task.err)
<1>1. /\ TypeOK /\ LineInv /\ who \in User
  BY DEF PlaceInv, LineInv, Online
<1>2. task \in Task
  BY <1>1 DEF LineInv, TypeOK, task
<1>3. /\ npipe \in Nat /\ cur \in Slots /\ Slot(0) = cur
      /\ me.pipes \in [Slots -> 1 .. npipe \cup {NoPipe, DevNull}]
      /\ me.last_pipe \in 1 .. npipe \cup {NoPipe, DevNull}
      /\ \A k \in Slots : Ring(who, k) = me.pipes[k]
  BY <1>1, SlotRange DEF TypeOK, EnvRec, Ring, me
<1>4. taken \in 1 .. npipe \cup {NoPipe, DevNull}
  BY <1>3 DEF taken
<1>5. wanted \subseteq {a, b}
  BY DEF wanted
<1>6. /\ Cardinality(wanted) \in {0, 1, 2}
      /\ wanted # {} => Cardinality(wanted) >= 1
      /\ a \in wanted /\ b \in wanted /\ a # b => Cardinality(wanted) = 2
  <2> HIDE DEF a, b
  <2> QED
    BY <1>5, TwoAtMost
<1>7. /\ made \in Nat /\ made > npipe
      /\ wanted # {} => made >= npipe + 2
      /\ a \in wanted /\ b \in wanted /\ a # b => made = npipe + 3
  BY <1>3, <1>6 DEF made
<1>8. \A k \in wanted : k # cur /\ me.pipes[k] = NoPipe
  BY <1>3 DEF wanted, Lacks
<1>9. \A k \in Slots : ring[k] = IF k = cur THEN npipe + 1
                                 ELSE IF k \in wanted
                                   THEN IF k = a /\ Lacks(task.out) THEN npipe + 2 ELSE made
                                 ELSE me.pipes[k]
  BY <1>3 DEF ring
<1>10. \A k \in wanted : ring[k] \in npipe + 2 .. made \/ k \notin Slots
  BY <1>3, <1>7, <1>8, <1>9
<1>11. \A k \in Slots : k # cur =>
         \/ ring[k] = Ring(who, k) /\ ring[k] \in 1 .. npipe \cup {NoPipe, DevNull} /\ k \notin wanted
         \/ Ring(who, k) = NoPipe /\ ring[k] \in npipe + 2 .. made /\ k \in wanted
  BY <1>3, <1>8, <1>9, <1>10
<1>12. ring \in [Slots -> 1 .. made \cup {NoPipe, DevNull}]
  <2>1. \A k \in Slots : ring[k] \in 1 .. made \cup {NoPipe, DevNull}
    BY <1>3, <1>7, <1>9, <1>11
  <2> QED
    BY <2>1 DEF ring
<1>13. ring[cur] = npipe + 1
  BY <1>3, <1>9
<1>14. ASSUME NEW j \in Slots, NEW k \in Slots, ring[j] = ring[k], ring[j] > npipe, j # k
       PROVE  FALSE
  <2>1. j # cur /\ k # cur
    BY <1>3, <1>11, <1>13, <1>14 DEF NoPipe, DevNull
  <2>2. j \in wanted /\ k \in wanted
    BY <1>3, <1>11, <1>14, <2>1 DEF NoPipe, DevNull
  <2>3. a \in wanted /\ b \in wanted /\ a # b
    BY <1>5, <1>14, <2>2
  <2>4. Lacks(task.out)
    BY <2>3 DEF wanted
  <2>5. (ring[a] = npipe + 2 /\ ring[b] = npipe + 3) \/ a \notin Slots \/ b \notin Slots
    BY <1>7, <1>8, <1>9, <2>3, <2>4
  <2> QED
    BY <1>3, <1>5, <1>14, <2>2, <2>3, <2>5
<1> QED
  BY <1>1, <1>2, <1>4, <1>7, <1>11, <1>12, <1>13, <1>14

\* The child's record is well formed over the pipes made so far, and of its user's
\* session.
LEMMA ChildType ==
  ASSUME PlaceInv, pc = "exec"
  PROVE  /\ Child \in ProcRec(made)
         /\ Child.by = holder[who] /\ Child.in = taken /\ Child.out = Stdout /\ Child.st = "running"
<1>1. /\ who \in User /\ task \in Task /\ made \in Nat /\ made > npipe
      /\ taken \in 1 .. npipe \cup {NoPipe, DevNull}
      /\ ring \in [Slots -> 1 .. made \cup {NoPipe, DevNull}]
      /\ ring[me.current_pos] = npipe + 1
      /\ \A k \in Slots : k # me.current_pos =>
           ring[k] = Ring(who, k) \/ ring[k] \in npipe + 2 .. made
  BY ExecRing
<1>2. TypeOK /\ RingInv /\ npipe \in Nat
  BY DEF PlaceInv, TypeOK
<1>3. \A k \in Slots : ring[k] \in 0 .. made
  <2>1. \A k \in Slots : k # me.current_pos => Ring(who, k) # DevNull
    BY <1>1, <1>2 DEF RingInv, Retry, me
  <2> QED
    BY <1>1, <1>2, <2>1, SMTT(30) DEF NoPipe, DevNull
<1>4. \A n \in Nat \cup {NotPipe} : Target(n) \in 0 .. made
  BY <1>1, <1>2, <1>3, SlotRange DEF Target, NoPipe
<1>5. Stdout \in 0 .. made
  <2>1. ASSUME task.to # NoUser
        PROVE  env[task.to].user_pipes[who] \in 0 .. npipe
    BY <1>1, <1>2, <2>1 DEF Task, TypeOK, EnvRec
  <2>2. task.out \in Nat \cup {NotPipe}
    BY <1>1 DEF Task
  <2>3. \A q \in 0 .. npipe : q \in 0 .. made
    BY <1>1, <1>2
  <2>4. Target(task.out) \in 0 .. made /\ NoPipe \in 0 .. made
    <3>1. NoPipe \in 0 .. made
      BY <1>1 DEF NoPipe
    <3> QED
      BY <1>4, <2>2, <3>1
  <2> QED
    BY <2>1, <2>3, <2>4 DEF Stdout
<1>6. Target(task.err) \in 0 .. made
  BY <1>1, <1>4 DEF Task
<1>7. (open \cup (npipe + 1 .. made)) \ ClosedByChild \in SUBSET (1 .. made)
  <2>1. \A q \in open : q \in 1 .. npipe
    BY <1>2 DEF TypeOK, Pipes
  <2>2. \A q \in open \cup (npipe + 1 .. made) : q \in 1 .. made
    BY <1>1, <1>2, <2>1
  <2> QED
    BY <2>2
<1>8. /\ task.reads \in BOOLEAN /\ (IF task.reads THEN 0 ELSE task.size) \in Nat
      /\ holder[who] \in Session \cup {NoUser}
      /\ taken \in 1 .. made \cup {NoPipe, DevNull}
  BY <1>1, <1>2 DEF Task, TypeOK
<1> QED
  BY <1>5, <1>6, <1>7, <1>8 DEF Child, ProcRec

-----------------------------------------------------------------------------
(* What each step does to the users' environments.                         *)

\* All but the pipes that wait: what a line finds in an Environment stays.
SameRing(e, f) == /\ e.current_pos = f.current_pos /\ e.pipes = f.pipes
                  /\ e.child_processes = f.child_processes
                  /\ e.user_child_processes = f.user_child_processes

\* `<s` takes the pipe from the mailbox, or puts /dev/null in its place.
LEMMA ReceiveFrame ==
  ASSUME TypeOK, NEW u \in User, NEW s \in User \cup {NoUser}
  PROVE  LET e == Receive(u, s) IN
         /\ e \in [User -> EnvRec(npipe)]
         /\ \A v \in User : SameRing(e[v], env[v]) /\ (v # u => e[v] = env[v])
         /\ e[u].last_pipe = IF s = NoUser THEN Last(u) ELSE IF Received(u, s) THEN Mail(s, u) ELSE DevNull
         /\ \A a, b \in User : e[b].user_pipes[a] =
              IF Received(u, s) /\ a = s /\ b = u THEN NoPipe ELSE Mail(a, b)
<1> DEFINE e == Receive(u, s)
<1>1. /\ env \in [User -> EnvRec(npipe)] /\ env[u] \in EnvRec(npipe)
      /\ \A b \in User : env[b].user_pipes \in [User -> 0 .. npipe]
  BY DEF TypeOK, EnvRec
<1>2. CASE s = NoUser
  <2>1. e = env /\ ~Received(u, s)
    BY <1>2, UserAssumption DEF Receive, Received, Online, NoUser
  <2> QED
    BY <1>1, <1>2, <2>1 DEF SameRing, Last, Mail
<1>3. CASE s \in User /\ Received(u, s)
  <2>1. e = [env EXCEPT ![u] = [env[u] EXCEPT !.last_pipe = Mail(s, u), !.user_pipes = TakesMail(u, s)]]
    BY <1>1, <1>3, UserAssumption DEF Receive, NoUser
  <2>2. /\ TakesMail(u, s) \in [User -> 0 .. npipe]
        /\ \A a \in User : TakesMail(u, s)[a] = IF a = s THEN NoPipe ELSE Mail(a, u)
    BY <1>1, <1>3 DEF TakesMail, Mail, NoPipe, TypeOK
  <2>3. Mail(s, u) \in 1 .. npipe \cup {NoPipe, DevNull}
    BY <1>1, <1>3 DEF Mail, NoPipe
  <2>4. /\ e[u] = [env[u] EXCEPT !.last_pipe = Mail(s, u), !.user_pipes = TakesMail(u, s)]
        /\ \A v \in User : v # u => e[v] = env[v]
        /\ e = [v \in User |-> e[v]]
    BY <1>1, <2>1
  <2>5. /\ e[u] \in EnvRec(npipe)
        /\ e[u].last_pipe = Mail(s, u) /\ e[u].user_pipes = TakesMail(u, s)
        /\ SameRing(e[u], env[u])
    BY <1>1, <2>2, <2>3, <2>4 DEF EnvRec, SameRing
  <2> HIDE DEF e
  <2>6. e \in [User -> EnvRec(npipe)]
    BY <1>1, <2>4, <2>5
  <2>7. \A v \in User : SameRing(e[v], env[v])
    BY <2>4, <2>5 DEF SameRing
  <2>8. \A a, b \in User : e[b].user_pipes[a] = IF a = s /\ b = u THEN NoPipe ELSE Mail(a, b)
    BY <2>2, <2>4, <2>5 DEF Mail
  <2> USE DEF e
  <2> QED
    BY <1>3, <2>4, <2>5, <2>6, <2>7, <2>8, UserAssumption DEF NoUser
<1>4. CASE s \in User /\ ~Received(u, s)
  <2>1. e = [env EXCEPT ![u] = [env[u] EXCEPT !.last_pipe = DevNull]]
    BY <1>1, <1>4, UserAssumption DEF Receive, NoUser
  <2>2. /\ e[u] = [env[u] EXCEPT !.last_pipe = DevNull]
        /\ \A v \in User : v # u => e[v] = env[v]
        /\ e = [v \in User |-> e[v]]
    BY <1>1, <2>1
  <2>4. /\ e[u] \in EnvRec(npipe) /\ e[u].last_pipe = DevNull /\ e[u].user_pipes = env[u].user_pipes
        /\ SameRing(e[u], env[u])
    BY <1>1, <2>2 DEF EnvRec, SameRing
  <2> HIDE DEF e
  <2>3. /\ \A v \in User : SameRing(e[v], env[v])
        /\ \A a, b \in User : e[b].user_pipes[a] = Mail(a, b)
    BY <2>2, <2>4 DEF SameRing, Mail
  <2>5. e \in [User -> EnvRec(npipe)]
    BY <1>1, <2>2, <2>4
  <2> USE DEF e
  <2> QED
    BY <1>4, <2>2, <2>3, <2>4, <2>5, UserAssumption DEF NoUser
<1> QED
  BY <1>2, <1>3, <1>4

Source(l) == l[1].from
Dest(l)   == l[Len(l)].to

\* The two ends of a line are users or nobody.
LEMMA LineEndsTyped ==
  ASSUME NEW l \in Lines
  PROVE  /\ l \in Seq(Task) /\ Len(l) \in Nat \ {0}
         /\ Source(l) \in User \cup {NoUser} /\ Dest(l) \in User \cup {NoUser}
<1>1. l \in Seq(Task) /\ l # <<>>
  BY LineAssumption
<1>2. Len(l) \in Nat \ {0}
  BY <1>1, LenProperties
<1>3. l[1] \in Task /\ l[Len(l)] \in Task
  BY <1>1, <1>2
<1> QED
  BY <1>1, <1>2, <1>3 DEF Task, Source, Dest

\* The new line, and what its two ends did: the mailbox it reads is emptied, the one
\* it writes gets a pipe.
ReadEffect(u, s, r, sends) ==
  /\ Source(line') = s /\ Dest(line') = r
  /\ outError' = (r # NoUser /\ ~sends)
  /\ sends => /\ r \in User /\ Online(r)
              /\ ~(Received(u, s) /\ u = s /\ r = u) => Mail(u, r) = NoPipe
              /\ route'[npipe + 1] = <<holder[u], holder[r]>>
  /\ npipe' = npipe + (IF sends THEN 1 ELSE 0)
  /\ open' = open \cup (npipe + 1 .. npipe')
  /\ \A q \in Pipes : route'[q] = route[q]
  /\ \A v \in User : SameRing(env'[v], env[v]) /\ (v # u => Last(v)' = Last(v))
  /\ Last(u)' = IF s = NoUser THEN Last(u) ELSE IF Received(u, s) THEN Mail(s, u) ELSE DevNull
  /\ \A a, b \in User : Mail(a, b)' =
       IF sends /\ a = u /\ b = r THEN npipe + 1
       ELSE IF Received(u, s) /\ a = s /\ b = u THEN NoPipe ELSE Mail(a, b)

\* What ReadLine does.
LEMMA ReadFrame ==
  ASSUME PlaceInv, NEW u \in User, ReadLine(u)
  PROVE  /\ line' \in Lines /\ nproc + Len(line') <= MaxFork
         /\ env' \in [User -> EnvRec(npipe')]
         /\ buf' \in [1 .. npipe' -> 0 .. Capacity]
         /\ route' \in [1 .. npipe' -> (Session \cup {NoUser}) \X (Session \cup {NoUser})]
         /\ inError' \in BOOLEAN
         /\ \E s, r \in User \cup {NoUser}, sends \in BOOLEAN : ReadEffect(u, s, r, sends)
<1>0. TypeOK /\ npipe \in Nat
  BY SMTT(40) DEF PlaceInv, TypeOK
<1>1. PICK l \in Lines :
        LET s == l[1].from
            r == l[Len(l)].to
            e == Receive(u, s)
            sends == r # NoUser /\ MaySend(e, u, r) IN
        /\ nproc + Len(l) <= MaxFork
        /\ line' = l
        /\ inError' = (s # NoUser /\ ~Received(u, s))
        /\ outError' = (r # NoUser /\ ~sends)
        /\ IF sends
             THEN /\ npipe' = npipe + 1
                  /\ open' = open \cup {npipe + 1}
                  /\ buf' = Append(buf, 0)
                  /\ route' = Append(route, <<holder[u], holder[r]>>)
                  /\ env' = [e EXCEPT ![r].user_pipes[u] = npipe + 1]
             ELSE /\ env' = e
                  /\ UNCHANGED <<npipe, open, buf, route>>
  BY DEF ReadLine
<1> DEFINE s == l[1].from
           r == l[Len(l)].to
           e == Receive(u, s)
           sends == r # NoUser /\ MaySend(e, u, r)
<1>2. s \in User \cup {NoUser} /\ r \in User \cup {NoUser} /\ sends \in BOOLEAN
  BY LineEndsTyped DEF Source, Dest, MaySend, Online
<1>3. /\ e \in [User -> EnvRec(npipe)]
      /\ \A v \in User : SameRing(e[v], env[v]) /\ (v # u => e[v] = env[v])
      /\ e[u].last_pipe = IF s = NoUser THEN Last(u) ELSE IF Received(u, s) THEN Mail(s, u) ELSE DevNull
      /\ \A a, b \in User : e[b].user_pipes[a] =
           IF Received(u, s) /\ a = s /\ b = u THEN NoPipe ELSE Mail(a, b)
  BY <1>0, <1>2, ReceiveFrame, SMTT(30)
<1>4. nproc + Len(line') <= MaxFork /\ line' = l /\ Source(line') = s /\ Dest(line') = r
      /\ inError' \in BOOLEAN /\ outError' = (r # NoUser /\ ~sends)
  BY <1>1 DEF Source, Dest
<1>5. CASE sends
  <2>1. /\ npipe' = npipe + 1
        /\ open' = open \cup {npipe + 1}
        /\ buf' = Append(buf, 0)
        /\ route' = Append(route, <<holder[u], holder[r]>>)
        /\ env' = [e EXCEPT ![r].user_pipes[u] = npipe + 1]
    BY <1>1, <1>5
  <2>2. r \in User /\ Online(r) /\ e[r].user_pipes[u] = NoPipe
    BY <1>2, <1>5 DEF MaySend
  <2> HIDE DEF e, s, r, sends
  <2>3. /\ buf' \in [1 .. npipe' -> 0 .. Capacity]
    <3>1. buf \in [1 .. npipe -> 0 .. Capacity] /\ 0 \in 0 .. Capacity
      BY <1>0, BoundAssumption DEF TypeOK, Pipes
    <3> QED
      BY <1>0, <2>1, <3>1, AppendNext
  <2>4. /\ route' \in [1 .. npipe' -> (Session \cup {NoUser}) \X (Session \cup {NoUser})]
        /\ route'[npipe + 1] = <<holder[u], holder[r]>>
        /\ \A q \in Pipes : route'[q] = route[q]
    <3> DEFINE S == (Session \cup {NoUser}) \X (Session \cup {NoUser})
               x == <<holder[u], holder[r]>>
    <3>1. route \in [1 .. npipe -> S] /\ x \in S
      BY <1>0, <2>2 DEF TypeOK, Pipes
    <3>2. route' = Append(route, x) /\ npipe' = npipe + 1
      BY <2>1
    <3> HIDE DEF S, x
    <3>3. route' \in [1 .. npipe' -> S] /\ route'[npipe + 1] = x /\ \A q \in 1 .. npipe : route'[q] = route[q]
      <4>1. /\ Append(route, x) \in [1 .. npipe + 1 -> S]
            /\ Append(route, x)[npipe + 1] = x
            /\ \A i \in 1 .. npipe : Append(route, x)[i] = route[i]
        BY ONLY <1>0, <3>1, AppendNext
      <4> QED
        BY ONLY <3>2, <4>1
    <3> QED
      BY <3>3 DEF S, x, Pipes
  <2>5. /\ e[r] \in EnvRec(npipe') /\ e[r].user_pipes \in [User -> 0 .. npipe']
        /\ e \in [User -> EnvRec(npipe')]
    <3>1. npipe' \in Nat /\ npipe <= npipe'
      BY <1>0, <2>1
    <3>2. EnvRec(npipe) \subseteq EnvRec(npipe')
      BY <1>0, <3>1, RecordsGrow
    <3>3. e[r] \in EnvRec(npipe') /\ e \in [User -> EnvRec(npipe')]
      BY <1>3, <2>2, <3>2
    <3> QED
      BY <3>3 DEF EnvRec
  <2> DEFINE box == [e[r].user_pipes EXCEPT ![u] = npipe + 1]
  <2>6. /\ box \in [User -> 0 .. npipe']
        /\ \A a \in User : box[a] = IF a = u THEN npipe + 1 ELSE e[r].user_pipes[a]
    <3>1. npipe + 1 \in 0 .. npipe'
      BY <1>0, <2>1
    <3> QED
      BY <2>5, <3>1
  <2>7. /\ env'[r] = [e[r] EXCEPT !.user_pipes = box]
        /\ \A v \in User : v # r => env'[v] = e[v]
        /\ env' = [v \in User |-> env'[v]]
    BY <1>3, <2>1, <2>2
  <2> HIDE DEF box
  <2>8. /\ env'[r] \in EnvRec(npipe') /\ env'[r].user_pipes = box /\ SameRing(env'[r], e[r])
        /\ env'[r].last_pipe = e[r].last_pipe
    BY <2>5, <2>6, <2>7 DEF EnvRec, SameRing
  <2>9. env' \in [User -> EnvRec(npipe')]
    BY <2>5, <2>7, <2>8
  <2>10. /\ \A v \in User : SameRing(env'[v], env[v]) /\ (v # u => Last(v)' = Last(v))
         /\ Last(u)' = e[u].last_pipe
    <3>1. \A v \in User : SameRing(env'[v], e[v]) /\ env'[v].last_pipe = e[v].last_pipe
      BY <2>7, <2>8 DEF SameRing
    <3>2. \A v \in User : SameRing(env'[v], env[v])
      BY <1>3, <3>1 DEF SameRing
    <3> QED
      BY <1>3, <3>1, <3>2 DEF Last
  <2>11. \A a, b \in User : Mail(a, b)' = IF a = u /\ b = r THEN npipe + 1 ELSE e[b].user_pipes[a]
    BY <2>6, <2>7, <2>8 DEF Mail
  <2>12. open' = open \cup (npipe + 1 .. npipe')
    BY <1>0, <2>1
  <2>13. ~(Received(u, s) /\ u = s /\ r = u) => Mail(u, r) = NoPipe
    BY <1>3, <2>2
  <2>14. ReadEffect(u, s, r, TRUE)
    <3>1. outError' = (r # NoUser /\ ~TRUE)
      BY <1>4, <1>5
    <3>2. npipe' = npipe + (IF TRUE THEN 1 ELSE 0)
      BY <2>1
    <3>3. Last(u)' = IF s = NoUser THEN Last(u) ELSE IF Received(u, s) THEN Mail(s, u) ELSE DevNull
      BY <1>3, <2>10
    <3>4. \A a, b \in User : Mail(a, b)' =
            IF TRUE /\ a = u /\ b = r THEN npipe + 1
            ELSE IF Received(u, s) /\ a = s /\ b = u THEN NoPipe ELSE Mail(a, b)
      BY <1>3, <2>11
    <3> QED
      BY <1>4, <2>2, <2>4, <2>10, <2>12, <2>13, <3>1, <3>2, <3>3, <3>4 DEF ReadEffect
  <2> QED
    BY <1>2, <1>4, <2>3, <2>4, <2>9, <2>14
<1>6. CASE ~sends
  <2>1. env' = e /\ UNCHANGED <<npipe, open, buf, route>>
    BY <1>1, <1>6
  <2> HIDE DEF e, s, r, sends
  <2>2. open' = open \cup (npipe + 1 .. npipe')
    BY <1>0, <2>1
  <2>3. /\ \A v \in User : SameRing(env'[v], env[v]) /\ (v # u => Last(v)' = Last(v))
        /\ Last(u)' = e[u].last_pipe
        /\ \A a, b \in User : Mail(a, b)' = e[b].user_pipes[a]
    BY <1>3, <2>1 DEF Last, Mail
  <2>4. ReadEffect(u, s, r, FALSE)
    BY <1>0, <1>3, <1>4, <1>6, <2>1, <2>2, <2>3 DEF ReadEffect
  <2> QED
    BY <1>0, <1>2, <1>3, <1>4, <2>1, <2>4 DEF TypeOK, Pipes
<1> QED
  BY <1>5, <1>6

\* A write to the Environment of who leaves the others'.
LEMMA EnvOf ==
  ASSUME TypeOK, who \in User, NEW n \in Nat, npipe <= n, NEW f \in EnvRec(n)
  PROVE  /\ [env EXCEPT ![who] = f] \in [User -> EnvRec(n)]
         /\ [env EXCEPT ![who] = f][who] = f
         /\ \A u \in User : u # who => [env EXCEPT ![who] = f][u] = env[u]
<1>1. env \in [User -> EnvRec(n)]
  BY RecordsGrow DEF TypeOK
<1> QED
  BY <1>1

\* Nobody's mail or lists are touched, and nothing of the others'.
OthersKeep == /\ \A u \in User : u # who => env'[u] = env[u]
              /\ \A u \in User : /\ env'[u].user_pipes = env[u].user_pipes
                                 /\ env'[u].current_pos = env[u].current_pos
                                 /\ env'[u].user_child_processes = env[u].user_child_processes

\* The ring of who has got the pipes above npipe, and what it had in the other slots.
NewRing(r) ==
  /\ \A k \in Slots : k # me.current_pos =>
       \/ r[k] = Ring(who, k)
       \/ Ring(who, k) = NoPipe /\ r[k] \in npipe + 2 .. npipe'
  /\ \A j, k \in Slots : r[j] = r[k] /\ r[j] > npipe => j = k

\* What the kernel numbers has nothing in it and is nobody's user pipe.
KernelGrows ==
  /\ npipe' \in Nat /\ npipe' > npipe
  /\ buf' \in [1 .. npipe' -> 0 .. Capacity]
  /\ route' \in [1 .. npipe' -> (Session \cup {NoUser}) \X (Session \cup {NoUser})]
  /\ \A q \in Pipes : route'[q] = route[q]
  /\ \A q \in Pipes' : q \notin Pipes => route'[q] = <<NoUser, NoUser>>

\* The pipes made before a fork are new: the buffers and routes of the others stay.
LEMMA NewPipesGrow ==
  ASSUME PlaceInv, pc = "exec", NewPipes
  PROVE  KernelGrows
<1>1. made \in Nat /\ made > npipe /\ npipe \in Nat /\ TypeOK
  BY ExecRing DEF PlaceInv, TypeOK
<1>2. \A q \in 1 .. npipe : q \in 1 .. made
  BY <1>1
<1>3. <<NoUser, NoUser>> \in (Session \cup {NoUser}) \X (Session \cup {NoUser}) /\ 0 \in 0 .. Capacity
  BY BoundAssumption
<1> QED
  BY <1>1, <1>2, <1>3 DEF NewPipes, KernelGrows, TypeOK, Pipes

\* A child is started: last_pipe and the slot's pipe are its, a new one may wait in
\* the slot for the next task.
LEMMA ForkFrame ==
  ASSUME PlaceInv, ExecFork
  PROVE  /\ env' \in [User -> EnvRec(npipe')]
         /\ OthersKeep /\ KernelGrows /\ NewRing(env'[who].pipes)
         /\ env'[who].last_pipe = NoPipe
         /\ env'[who].pipes[me.current_pos] = IF AfterLast THEN NoPipe ELSE npipe + 1
         /\ env'[who].child_processes =
              [me.child_processes EXCEPT ![me.current_pos] = @ \cup {nproc + 1}]
         /\ nproc + 1 \in Proc
<1> DEFINE cur == me.current_pos
           r == IF AfterLast THEN [ring EXCEPT ![cur] = NoPipe] ELSE ring
           c == [me.child_processes EXCEPT ![cur] = @ \cup {nproc + 1}]
           f == [me EXCEPT !.pipes = r, !.last_pipe = NoPipe, !.child_processes = c]
<1>0. /\ TypeOK /\ LineInv /\ pc = "exec" /\ NewPipes /\ npipe' = made /\ npipe \in Nat /\ who \in User
  BY DEF PlaceInv, ExecFork, NewPipes, TypeOK, LineInv, Online
<1>1. KernelGrows
  BY <1>0, NewPipesGrow
<1>2. /\ made \in Nat /\ made > npipe
      /\ ring \in [Slots -> 1 .. made \cup {NoPipe, DevNull}]
      /\ ring[cur] = npipe + 1
      /\ \A k \in Slots : k # cur =>
           \/ ring[k] = Ring(who, k)
           \/ Ring(who, k) = NoPipe /\ ring[k] \in npipe + 2 .. made
      /\ \A j, k \in Slots : ring[j] = ring[k] /\ ring[j] > npipe => j = k
  BY <1>0, ExecRing
<1>3. me \in EnvRec(npipe) /\ me = env[who] /\ cur \in Slots /\ Slot(0) = cur
  BY <1>0, SlotRange DEF me
<1>4. nproc + 1 \in Proc
  BY <1>0, BoundAssumption DEF LineInv, TypeOK, Proc, Online
<1>5. c \in [Slots -> SUBSET Proc]
  BY <1>3, <1>4 DEF EnvRec
<1>6. /\ r \in [Slots -> 1 .. made \cup {NoPipe, DevNull}]
      /\ \A k \in Slots : k # cur => r[k] = ring[k]
      /\ r[cur] = IF AfterLast THEN NoPipe ELSE npipe + 1
  BY <1>2, <1>3
<1>7. env' = [env EXCEPT ![who] = f]
  <2>1. env' = [env EXCEPT ![who].pipes = r, ![who].last_pipe = NoPipe,
                           ![who].child_processes[cur] = @ \cup {nproc + 1}]
    BY <1>3 DEF ExecFork
  <2>2. env \in [User -> EnvRec(npipe)]
    BY <1>0 DEF TypeOK
  <2> HIDE DEF r
  <2> QED
    BY <1>0, <1>3, <2>1, <2>2, ZenonT(40)
<1> HIDE DEF c, r
<1>8. /\ f \in EnvRec(made)
      /\ f.pipes = r /\ f.last_pipe = NoPipe /\ f.child_processes = c
      /\ f.current_pos = cur /\ f.user_pipes = me.user_pipes
      /\ f.user_child_processes = me.user_child_processes
  <2>1. me \in EnvRec(made) /\ NoPipe \in 1 .. made \cup {NoPipe, DevNull}
    BY <1>0, <1>2, <1>3, RecordsGrow
  <2>2. f = [me EXCEPT !.pipes = r, !.last_pipe = NoPipe, !.child_processes = c]
    OBVIOUS
  <2>3. made \in Nat /\ r \in [Slots -> 1 .. made \cup {NoPipe, DevNull}]
    BY <1>2, <1>6
  <2> HIDE DEF f
  <2> QED
    BY ONLY <1>5, <2>1, <2>2, <2>3 DEF EnvRec
<1> HIDE DEF f
<1>9. /\ env' \in [User -> EnvRec(made)] /\ env'[who] = f
      /\ \A u \in User : u # who => env'[u] = env[u]
  BY <1>0, <1>2, <1>7, <1>8, EnvOf
<1>10. OthersKeep
  BY <1>3, <1>8, <1>9 DEF OthersKeep
<1>11. NewRing(r)
  <2>1. \A j, k \in Slots : r[j] = r[k] /\ r[j] > npipe => j = k
    BY <1>0, <1>2, <1>6 DEF NoPipe
  <2> QED
    BY <1>0, <1>2, <1>6, <2>1 DEF NewRing
<1>12. /\ env'[who].pipes = r /\ env'[who].last_pipe = NoPipe /\ env'[who].child_processes = c
       /\ env' \in [User -> EnvRec(npipe')]
  <2>1. env' \in [User -> EnvRec(npipe')]
    BY ONLY <1>0, <1>9
  <2> QED
    BY <1>8, <1>9, <2>1
<1> QED
  BY <1>1, <1>4, <1>6, <1>10, <1>11, <1>12 DEF c

\* fork() failed: what the command should have read is in the slot again, and aside.
LEMMA ErrorFrame ==
  ASSUME PlaceInv, ExecForkError
  PROVE  /\ env' \in [User -> EnvRec(npipe')]
         /\ OthersKeep /\ KernelGrows /\ NewRing(env'[who].pipes)
         /\ env'[who].last_pipe = taken
         /\ env'[who].pipes[me.current_pos] = taken
         /\ env'[who].child_processes = me.child_processes
<1> DEFINE cur == me.current_pos
           r == [ring EXCEPT ![cur] = taken]
           f == [me EXCEPT !.pipes = r, !.last_pipe = taken]
<1>0. /\ TypeOK /\ LineInv /\ pc = "exec" /\ NewPipes /\ npipe' = made /\ npipe \in Nat /\ who \in User
  BY DEF PlaceInv, ExecForkError, NewPipes, TypeOK, LineInv, Online
<1>1. KernelGrows
  BY <1>0, NewPipesGrow
<1>2. /\ made \in Nat /\ made > npipe
      /\ taken \in 1 .. npipe \cup {NoPipe, DevNull}
      /\ ring \in [Slots -> 1 .. made \cup {NoPipe, DevNull}]
      /\ ring[cur] = npipe + 1
      /\ \A k \in Slots : k # cur =>
           \/ ring[k] = Ring(who, k)
           \/ Ring(who, k) = NoPipe /\ ring[k] \in npipe + 2 .. made
      /\ \A j, k \in Slots : ring[j] = ring[k] /\ ring[j] > npipe => j = k
  BY <1>0, ExecRing
<1>3. me \in EnvRec(npipe) /\ me = env[who] /\ cur \in Slots /\ Slot(0) = cur
  BY <1>0, SlotRange DEF me
<1>4. taken \in 1 .. made \cup {NoPipe, DevNull}
  BY <1>0, <1>2
<1>6. /\ r \in [Slots -> 1 .. made \cup {NoPipe, DevNull}]
      /\ \A k \in Slots : k # cur => r[k] = ring[k]
      /\ r[cur] = taken
  BY <1>2, <1>3, <1>4
<1>7. env' = [env EXCEPT ![who] = f]
  <2>1. env' = [env EXCEPT ![who].pipes = r, ![who].last_pipe = taken]
    BY <1>3 DEF ExecForkError
  <2>2. env \in [User -> EnvRec(npipe)]
    BY <1>0 DEF TypeOK
  <2> HIDE DEF r
  <2> QED
    BY <1>0, <1>3, <2>1, <2>2
<1> HIDE DEF r
<1>8. /\ f \in EnvRec(made)
      /\ f.pipes = r /\ f.last_pipe = taken /\ f.child_processes = me.child_processes
      /\ f.current_pos = cur /\ f.user_pipes = me.user_pipes
      /\ f.user_child_processes = me.user_child_processes
  <2>1. me \in EnvRec(made)
    BY <1>0, <1>2, <1>3, RecordsGrow
  <2>2. f = [me EXCEPT !.pipes = r, !.last_pipe = taken]
    OBVIOUS
  <2>3. made \in Nat /\ r \in [Slots -> 1 .. made \cup {NoPipe, DevNull}]
    BY <1>2, <1>6
  <2> HIDE DEF f
  <2> QED
    BY ONLY <1>4, <2>1, <2>2, <2>3 DEF EnvRec
<1> HIDE DEF f
<1>9. /\ env' \in [User -> EnvRec(made)] /\ env'[who] = f
      /\ \A u \in User : u # who => env'[u] = env[u]
  BY <1>0, <1>2, <1>7, <1>8, EnvOf
<1>10. OthersKeep
  BY <1>3, <1>8, <1>9 DEF OthersKeep
<1>11. NewRing(r)
  <2>1. \A j, k \in Slots : r[j] = r[k] /\ r[j] > npipe => j = k
    BY <1>0, <1>2, <1>6 DEF NoPipe, DevNull
  <2> QED
    BY <1>0, <1>2, <1>6, <2>1 DEF NewRing
<1>12. env' \in [User -> EnvRec(npipe')]
  BY ONLY <1>0, <1>9
<1> QED
  BY <1>1, <1>6, <1>8, <1>9, <1>10, <1>11, <1>12

\* Nothing of the pipes that an Environment knows.
KeepsPipes == \A u \in User : /\ env'[u].current_pos = env[u].current_pos
                              /\ env'[u].pipes = env[u].pipes
                              /\ env'[u].last_pipe = env[u].last_pipe
                              /\ env'[u].user_pipes = env[u].user_pipes

\* The line went to a user, to another line, or to nobody.
ToUser == lastTask.to # NoUser /\ ~outError
ToLine == lastTask.to = NoUser /\ lastTask.out # NotPipe

\* The children of the line change lists.
LEMMA ForwardFrame ==
  ASSUME PlaceInv, Forward
  PROVE  /\ env' \in [User -> EnvRec(npipe)] /\ KeepsPipes
         /\ lastTask.out \in Nat \cup {NotPipe}
         /\ ToUser => lastTask.to \in User /\ Online(lastTask.to)
         /\ \A u, s \in User : env'[u].user_child_processes[s] =
              IF ToUser /\ u = lastTask.to /\ s = who
                THEN env[u].user_child_processes[s] \cup me.child_processes[me.current_pos]
                ELSE env[u].user_child_processes[s]
         /\ \A u \in User, k \in Slots : env'[u].child_processes[k] =
              IF u = who /\ (ToUser \/ ToLine) /\ k = me.current_pos THEN {}
              ELSE IF u = who /\ ToLine /\ k = Slot(lastTask.out)
                THEN me.child_processes[k] \cup me.child_processes[me.current_pos]
                ELSE env[u].child_processes[k]
<1> DEFINE cur == me.current_pos
           to == lastTask.to
<1>0. TypeOK /\ LineInv /\ pc = "forward" /\ who \in User /\ npipe \in Nat
  BY DEF PlaceInv, Forward, TypeOK, LineInv, Online
<1>1. me \in EnvRec(npipe) /\ me = env[who] /\ cur \in Slots /\ Slot(0) = cur
  BY <1>0, SlotRange DEF me
<1>2. lastTask.to \in User \cup {NoUser} /\ lastTask.out \in Nat \cup {NotPipe}
  <2>1. line \in Seq(Task) /\ line # <<>>
    BY <1>0, LineAssumption DEF LineInv
  <2>2. lastTask \in Task
    BY <2>1 DEF lastTask
  <2> QED
    BY <2>2 DEF Task
<1>3. ToUser => to \in User /\ Online(to)
  BY <1>0, <1>2 DEF LineInv, ToUser
<1>4. /\ env \in [User -> EnvRec(npipe)]
      /\ \A u \in User : /\ env[u].child_processes \in [Slots -> SUBSET Proc]
                         /\ env[u].user_child_processes \in [User -> SUBSET Proc]
  BY <1>0 DEF TypeOK, EnvRec
<1>5. CASE ToUser
  <2> DEFINE c == [me.child_processes EXCEPT ![cur] = {}]
             x == [env[to].user_child_processes EXCEPT ![who] = @ \cup me.child_processes[cur]]
             e == [env EXCEPT ![to] = [env[to] EXCEPT !.user_child_processes = x]]
             f == [e[who] EXCEPT !.child_processes = c]
  <2>1. to \in User
    BY <1>3, <1>5
  <2>2. env' = GivesChildren
    BY <1>5 DEF Forward, ToUser
  <2>3. env' = [e EXCEPT ![who] = f]
    BY <1>0, <1>1, <1>4, <2>1, <2>2 DEF GivesChildren
  <2>4. /\ c \in [Slots -> SUBSET Proc]
        /\ \A k \in Slots : c[k] = IF k = cur THEN {} ELSE me.child_processes[k]
        /\ x \in [User -> SUBSET Proc]
        /\ \A s \in User : x[s] = IF s = who THEN env[to].user_child_processes[s] \cup me.child_processes[cur]
                                             ELSE env[to].user_child_processes[s]
    BY <1>0, <1>1, <1>4, <2>1, ZenonT(60)
  <2> HIDE DEF c, x
  <2>5. /\ env[to] \in EnvRec(npipe)
        /\ e[to] = [env[to] EXCEPT !.user_child_processes = x]
        /\ \A u \in User : u # to => e[u] = env[u]
        /\ e = [u \in User |-> e[u]]
    BY <1>4, <2>1
  <2>6. /\ e[to] \in EnvRec(npipe) /\ e[to].user_child_processes = x
        /\ e[to].child_processes = env[to].child_processes
        /\ e[to].current_pos = env[to].current_pos /\ e[to].pipes = env[to].pipes
        /\ e[to].last_pipe = env[to].last_pipe /\ e[to].user_pipes = env[to].user_pipes
    BY <2>4, <2>5, SMTT(30) DEF EnvRec
  <2> HIDE DEF e
  <2>7. e \in [User -> EnvRec(npipe)]
    BY <1>4, <2>5, <2>6
  <2>8. /\ e[who] \in EnvRec(npipe)
        /\ env'[who] = [e[who] EXCEPT !.child_processes = c]
        /\ \A u \in User : u # who => env'[u] = e[u]
        /\ env' = [u \in User |-> env'[u]]
    BY <1>0, <2>3, <2>7
  <2>9. /\ env'[who] \in EnvRec(npipe) /\ env'[who].child_processes = c
        /\ env'[who].user_child_processes = e[who].user_child_processes
        /\ env'[who].current_pos = e[who].current_pos /\ env'[who].pipes = e[who].pipes
        /\ env'[who].last_pipe = e[who].last_pipe /\ env'[who].user_pipes = e[who].user_pipes
    BY <2>4, <2>8 DEF EnvRec
  <2>10. env' \in [User -> EnvRec(npipe)]
    BY <2>7, <2>8, <2>9
  <2>15. /\ \A u \in User : e[u].current_pos = env[u].current_pos /\ e[u].pipes = env[u].pipes
         /\ \A u \in User : e[u].last_pipe = env[u].last_pipe /\ e[u].user_pipes = env[u].user_pipes
         /\ \A u \in User : e[u].child_processes = env[u].child_processes
         /\ \A u \in User : e[u].user_child_processes = IF u = to THEN x ELSE env[u].user_child_processes
    <3> HIDE DEF to
    <3> QED
      BY ONLY <2>5, <2>6
  <2>16. /\ \A u \in User : env'[u].current_pos = e[u].current_pos /\ env'[u].pipes = e[u].pipes
         /\ \A u \in User : env'[u].last_pipe = e[u].last_pipe /\ env'[u].user_pipes = e[u].user_pipes
         /\ \A u \in User : env'[u].child_processes = IF u = who THEN c ELSE e[u].child_processes
         /\ \A u \in User : env'[u].user_child_processes = e[u].user_child_processes
    BY ONLY <2>8, <2>9
  <2>11. KeepsPipes
    BY ONLY <2>15, <2>16 DEF KeepsPipes
  <2>12. \A u, s \in User : env'[u].user_child_processes[s] =
              IF u = to /\ s = who THEN env[u].user_child_processes[s] \cup me.child_processes[cur]
                                   ELSE env[u].user_child_processes[s]
    <3>1. \A s \in User : x[s] = IF s = who THEN env[to].user_child_processes[s] \cup me.child_processes[cur]
                                            ELSE env[to].user_child_processes[s]
      BY <2>4
    <3>2. \A u \in User : env'[u].user_child_processes = IF u = to THEN x ELSE env[u].user_child_processes
      BY ONLY <2>15, <2>16
    <3> HIDE DEF to, cur
    <3> QED
      BY ONLY <3>1, <3>2
  <2>13. \A u \in User, k \in Slots : env'[u].child_processes[k] =
              IF u = who /\ k = cur THEN {} ELSE env[u].child_processes[k]
    <3>1. env[who].child_processes = me.child_processes
      BY <1>1
    <3>2. \A k \in Slots : c[k] = IF k = cur THEN {} ELSE me.child_processes[k]
      BY <2>4
    <3>3. \A u \in User : env'[u].child_processes = IF u = who THEN c ELSE env[u].child_processes
      BY ONLY <2>15, <2>16
    <3> HIDE DEF to, cur
    <3> QED
      BY ONLY <3>1, <3>2, <3>3
  <2>14. ~ToLine
    BY <1>5 DEF ToUser, ToLine
  <2> QED
    BY <1>2, <1>3, <1>5, <2>10, <2>11, <2>12, <2>13, <2>14, SMTT(30)
<1>6. CASE ToLine
  <2> DEFINE c == [me.child_processes EXCEPT ![Slot(lastTask.out)] = @ \cup me.child_processes[cur],
                                             ![cur] = {}]
             f == [env[who] EXCEPT !.child_processes = c]
  <2>1. env' = [env EXCEPT ![who] = f]
    <3>1. env' = [env EXCEPT ![who].child_processes = c]
      BY <1>1, <1>6 DEF Forward, ToLine
    <3> HIDE DEF c
    <3> QED
      BY <1>0, <1>4, <3>1
  <2>2. Slot(lastTask.out) \in Slots
    BY <1>0, <1>2, <1>6, SlotRange DEF ToLine
  <2>3. /\ c \in [Slots -> SUBSET Proc]
        /\ \A k \in Slots : c[k] =
             IF k = cur THEN {}
             ELSE IF k = Slot(lastTask.out) THEN me.child_processes[k] \cup me.child_processes[cur]
             ELSE me.child_processes[k]
    <3> DEFINE t == Slot(lastTask.out)
               b == me.child_processes
               d == [b EXCEPT ![t] = @ \cup b[cur]]
    <3>1. b \in [Slots -> SUBSET Proc] /\ t \in Slots /\ cur \in Slots
      BY <1>0, <1>1, <1>4, <2>2
    <3>2. c = [d EXCEPT ![cur] = {}]
      OBVIOUS
    <3> HIDE DEF b, c, t, cur
    <3>3. /\ d \in [Slots -> SUBSET Proc]
          /\ \A k \in Slots : d[k] = IF k = t THEN b[k] \cup b[cur] ELSE b[k]
      BY ONLY <3>1
    <3> HIDE DEF d
    <3>4. /\ c \in [Slots -> SUBSET Proc]
          /\ \A k \in Slots : c[k] = IF k = cur THEN {} ELSE d[k]
      BY ONLY <3>1, <3>2, <3>3
    <3>5. \A k \in Slots : c[k] = IF k = cur THEN {} ELSE IF k = t THEN b[k] \cup b[cur] ELSE b[k]
      BY ONLY <3>3, <3>4
    <3> USE DEF b, t, cur
    <3> QED
      BY ONLY <3>4, <3>5
  <2> HIDE DEF c
  <2>4. f = [env[who] EXCEPT !.child_processes = c] /\ env[who] \in EnvRec(npipe)
    BY <1>1
  <2>5. /\ f \in EnvRec(npipe) /\ f.child_processes = c
        /\ f.user_child_processes = env[who].user_child_processes
        /\ f.current_pos = env[who].current_pos /\ f.pipes = env[who].pipes
        /\ f.last_pipe = env[who].last_pipe /\ f.user_pipes = env[who].user_pipes
    BY <2>3, <2>4 DEF EnvRec
  <2> HIDE DEF f
  <2>6. /\ env' \in [User -> EnvRec(npipe)] /\ env'[who] = f
        /\ \A u \in User : u # who => env'[u] = env[u]
    BY <1>0, <2>1, <2>5, EnvOf
  <2>7. KeepsPipes
    BY <2>5, <2>6 DEF KeepsPipes
  <2>8. \A u, s \in User : env'[u].user_child_processes[s] = env[u].user_child_processes[s]
    BY <2>5, <2>6
  <2>9. \A u \in User, k \in Slots : env'[u].child_processes[k] =
              IF u = who THEN c[k] ELSE env[u].child_processes[k]
    BY <2>5, <2>6
  <2>10. ~ToUser
    BY <1>6 DEF ToUser, ToLine
  <2>11. \A u \in User, k \in Slots : env'[u].child_processes[k] =
              IF u = who /\ k = cur THEN {}
              ELSE IF u = who /\ k = Slot(lastTask.out)
                THEN me.child_processes[k] \cup me.child_processes[cur]
                ELSE env[u].child_processes[k]
    <3>1. env[who].child_processes = me.child_processes
      BY <1>1
    <3> QED
      BY ONLY <2>3, <2>9, <3>1
  <2> QED
    BY ONLY <1>2, <1>3, <1>6, <2>6, <2>7, <2>8, <2>10, <2>11, ZenonT(60)
<1>7. CASE ~ToUser /\ ~ToLine
  <2>1. env' = env
    BY <1>2, <1>7 DEF Forward, ToUser, ToLine
  <2> QED
    BY <1>2, <1>3, <1>4, <1>7, <2>1 DEF KeepsPipes
<1> QED
  BY <1>5, <1>6, <1>7

\* The children that the reader of a user pipe waited for are struck off.
LEMMA WaitFrame ==
  ASSUME PlaceInv, WaitUser
  PROVE  /\ env' \in [User -> EnvRec(npipe)] /\ KeepsPipes
         /\ \A u \in User : env'[u].child_processes = env[u].child_processes
         /\ \A u, s \in User : env'[u].user_child_processes[s] =
              IF u = who /\ s = Source(line) THEN {} ELSE env[u].user_child_processes[s]
<1> DEFINE x == [me.user_child_processes EXCEPT ![Source(line)] = {}]
           f == [env[who] EXCEPT !.user_child_processes = x]
<1>0. TypeOK /\ LineInv /\ pc = "waituser" /\ who \in User /\ npipe \in Nat
  BY DEF PlaceInv, WaitUser, TypeOK, LineInv, Online
<1>1. me \in EnvRec(npipe) /\ me = env[who] /\ env[who] \in EnvRec(npipe)
  BY <1>0, SlotRange DEF me
<1>2. me.user_child_processes \in [User -> SUBSET Proc]
  BY <1>1 DEF EnvRec
<1>3. /\ x \in [User -> SUBSET Proc]
      /\ \A s \in User : x[s] = IF s = Source(line) THEN {} ELSE me.user_child_processes[s]
  <2> DEFINE b == me.user_child_processes
  <2> HIDE DEF b
  <2> QED
    BY <1>2 DEF b
<1>4. env' = [env EXCEPT ![who] = f]
  <2>1. env' = [env EXCEPT ![who].user_child_processes[Source(line)] = {}]
    BY DEF WaitUser, Source
  <2> QED
    BY <1>0, <1>1, <2>1 DEF TypeOK
<1> HIDE DEF x
<1>5. f = [env[who] EXCEPT !.user_child_processes = x]
  OBVIOUS
<1> HIDE DEF f
<1>6. /\ f \in EnvRec(npipe) /\ f.user_child_processes = x
      /\ f.child_processes = env[who].child_processes
      /\ f.current_pos = env[who].current_pos /\ f.pipes = env[who].pipes
      /\ f.last_pipe = env[who].last_pipe /\ f.user_pipes = env[who].user_pipes
  BY ONLY <1>1, <1>3, <1>5 DEF EnvRec
<1>7. /\ env' \in [User -> EnvRec(npipe)] /\ env'[who] = f
      /\ \A u \in User : u # who => env'[u] = env[u]
  BY <1>0, <1>4, <1>6, EnvOf
<1>8. KeepsPipes
  BY ONLY <1>6, <1>7 DEF KeepsPipes
<1>9. \A u \in User : /\ env'[u].child_processes = env[u].child_processes
                      /\ env'[u].user_child_processes = IF u = who THEN x ELSE env[u].user_child_processes
  BY ONLY <1>6, <1>7
<1> QED
  BY ONLY <1>1, <1>3, <1>7, <1>8, <1>9

\* The line's slot is cleared and the position moves on.
LEMMA EndFrame ==
  ASSUME PlaceInv, EndLine
  PROVE  /\ env' \in [User -> EnvRec(npipe)]
         /\ \A u \in User : u # who => env'[u] = env[u]
         /\ env'[who].current_pos = Slot(1)
         /\ env'[who].pipes = [me.pipes EXCEPT ![me.current_pos] = NoPipe]
         /\ env'[who].child_processes = [me.child_processes EXCEPT ![me.current_pos] = {}]
         /\ env'[who].last_pipe = me.last_pipe
         /\ \A u \in User : /\ env'[u].user_pipes = env[u].user_pipes
                            /\ env'[u].user_child_processes = env[u].user_child_processes
         /\ open' = open \ {me.pipes[me.current_pos]}
<1> DEFINE r == [me.pipes EXCEPT ![me.current_pos] = NoPipe]
           c == [me.child_processes EXCEPT ![me.current_pos] = {}]
           f == [env[who] EXCEPT !.pipes = r, !.child_processes = c, !.current_pos = Slot(1)]
<1>0. TypeOK /\ LineInv /\ pc = "wait" /\ who \in User /\ npipe \in Nat
  BY DEF PlaceInv, EndLine, TypeOK, LineInv, Online
<1>1. /\ me \in EnvRec(npipe) /\ me = env[who] /\ env[who] \in EnvRec(npipe)
      /\ Slot(0) = me.current_pos /\ me.current_pos \in Slots /\ Slot(1) \in Slots
  BY <1>0, SlotRange DEF me
<1>2. /\ me.pipes \in [Slots -> 1 .. npipe \cup {NoPipe, DevNull}]
      /\ me.child_processes \in [Slots -> SUBSET Proc]
  BY <1>1 DEF EnvRec
<1>3. r \in [Slots -> 1 .. npipe \cup {NoPipe, DevNull}] /\ c \in [Slots -> SUBSET Proc]
  BY <1>2
<1>4. env' = [env EXCEPT ![who] = f]
  <2>1. env' = [env EXCEPT ![who].pipes[me.current_pos] = NoPipe,
                           ![who].child_processes[me.current_pos] = {},
                           ![who].current_pos = Slot(1)]
    BY <1>1 DEF EndLine
  <2> QED
    BY <1>0, <1>1, <2>1, ZenonT(60) DEF TypeOK
<1> HIDE DEF r, c
<1>5. f = [env[who] EXCEPT !.pipes = r, !.child_processes = c, !.current_pos = Slot(1)]
  OBVIOUS
<1> HIDE DEF f
<1>6. /\ f \in EnvRec(npipe) /\ f.pipes = r /\ f.child_processes = c /\ f.current_pos = Slot(1)
      /\ f.last_pipe = env[who].last_pipe /\ f.user_pipes = env[who].user_pipes
      /\ f.user_child_processes = env[who].user_child_processes
  BY ONLY <1>1, <1>3, <1>5 DEF EnvRec
<1>7. /\ env' \in [User -> EnvRec(npipe)] /\ env'[who] = f
      /\ \A u \in User : u # who => env'[u] = env[u]
  BY <1>0, <1>4, <1>6, EnvOf
<1>8. open' = open \ {me.pipes[me.current_pos]}
  BY <1>1 DEF EndLine
<1>9. \A u \in User : /\ env'[u].user_pipes = env[u].user_pipes
                      /\ env'[u].user_child_processes = env[u].user_child_processes
  BY ONLY <1>6, <1>7
<1> QED
  BY ONLY <1>1, <1>6, <1>7, <1>8, <1>9 DEF r, c

\* A user's Environment when he comes.
LEMMA NewEnvType ==
  ASSUME NEW n \in Nat
  PROVE  /\ NewEnv \in EnvRec(n)
         /\ NewEnv.current_pos = 0 /\ NewEnv.last_pipe = NoPipe
         /\ \A k \in Slots : NewEnv.pipes[k] = NoPipe /\ NewEnv.child_processes[k] = {}
         /\ \A s \in User : NewEnv.user_pipes[s] = NoPipe /\ NewEnv.user_child_processes[s] = {}
<1>1. 0 \in Slots /\ NoPipe \in 0 .. n
  BY BoundAssumption DEF Slots, NoPipe
<1> QED
  BY <1>1 DEF NewEnv, EnvRec

\* A newcomer finds nothing.
LEMMA LoginFrame ==
  ASSUME PlaceInv, NEW u \in User, Login(u)
  PROVE  /\ env' \in [User -> EnvRec(npipe)]
         /\ env'[u] = NewEnv
         /\ \A v \in User : v # u => env'[v] = env[v]
<1>1. env' = [env EXCEPT ![u] = NewEnv] /\ npipe \in Nat /\ env \in [User -> EnvRec(npipe)]
  BY DEF Login, PlaceInv, TypeOK
<1> QED
  BY <1>1, NewEnvType

\* Whoever leaves takes everything along: his Environment, and what the others had
\* from him.
LEMMA ClearFrame ==
  ASSUME PlaceInv, NEW u \in User, ClearGarbage(u)
  PROVE  /\ env' \in [User -> EnvRec(npipe)]
         /\ env'[u] = NewEnv
         /\ \A v \in User : v # u =>
              /\ env'[v].current_pos = env[v].current_pos /\ env'[v].pipes = env[v].pipes
              /\ env'[v].last_pipe = env[v].last_pipe
              /\ env'[v].child_processes = env[v].child_processes
              /\ \A s \in User : env'[v].user_pipes[s] = IF s = u THEN NoPipe ELSE env[v].user_pipes[s]
              /\ \A s \in User : env'[v].user_child_processes[s] =
                                   IF s = u THEN {} ELSE env[v].user_child_processes[s]
<1> DEFINE f(v) == [env[v] EXCEPT !.user_pipes = DropMail(env[v], u), !.user_child_processes[u] = {}]
<1>1. /\ env' = [v \in User |-> IF v = u THEN NewEnv ELSE f(v)]
      /\ npipe \in Nat /\ env \in [User -> EnvRec(npipe)]
  BY DEF ClearGarbage, PlaceInv, TypeOK
<1>2. ASSUME NEW v \in User
      PROVE  /\ f(v) \in EnvRec(npipe)
             /\ f(v).current_pos = env[v].current_pos /\ f(v).pipes = env[v].pipes
             /\ f(v).last_pipe = env[v].last_pipe
             /\ f(v).child_processes = env[v].child_processes
             /\ \A s \in User : f(v).user_pipes[s] = IF s = u THEN NoPipe ELSE env[v].user_pipes[s]
             /\ \A s \in User : f(v).user_child_processes[s] =
                                  IF s = u THEN {} ELSE env[v].user_child_processes[s]
  <2> DEFINE b == DropMail(env[v], u)
             x == [env[v].user_child_processes EXCEPT ![u] = {}]
             g == f(v)
  <2>1. /\ env[v] \in EnvRec(npipe) /\ env[v].user_pipes \in [User -> 0 .. npipe]
        /\ env[v].user_child_processes \in [User -> SUBSET Proc]
    BY <1>1 DEF EnvRec
  <2>2. /\ b \in [User -> 0 .. npipe]
        /\ \A s \in User : b[s] = IF s = u THEN NoPipe ELSE env[v].user_pipes[s]
    <3>0. b = [env[v].user_pipes EXCEPT ![u] = NoPipe]
      BY DEF DropMail
    <3>1. NoPipe \in 0 .. npipe
      <4>1. npipe \in Nat
        BY <1>1
      <4> QED
        BY ONLY <4>1 DEF NoPipe
    <3> HIDE DEF b
    <3> QED
      BY ONLY <2>1, <3>0, <3>1
  <2>3. /\ x \in [User -> SUBSET Proc]
        /\ \A s \in User : x[s] = IF s = u THEN {} ELSE env[v].user_child_processes[s]
    BY <2>1
  <2>4. g = [env[v] EXCEPT !.user_pipes = b, !.user_child_processes = x]
    BY <2>1
  <2> HIDE DEF b, x, g
  <2>5. /\ g \in EnvRec(npipe)
        /\ g.current_pos = env[v].current_pos /\ g.pipes = env[v].pipes
        /\ g.last_pipe = env[v].last_pipe /\ g.child_processes = env[v].child_processes
        /\ g.user_pipes = b /\ g.user_child_processes = x
    BY ONLY <2>1, <2>2, <2>3, <2>4 DEF EnvRec
  <2> QED
    BY <2>2, <2>3, <2>5 DEF g
<1> HIDE DEF f
<1>3. env'[u] = NewEnv /\ \A v \in User : v # u => env'[v] = f(v)
  BY <1>1
<1>4. env' \in [User -> EnvRec(npipe)]
  BY <1>1, <1>2, NewEnvType
<1> QED
  BY <1>2, <1>3, <1>4

-----------------------------------------------------------------------------
(* What the commands do: they read, write and end.                         *)

\* Only how far the commands have got changes.
CommandsOnly ==
  /\ UNCHANGED <<users, env, server, open, npipe, nproc, forkErrors, route>>
  /\ buf' \in [1 .. npipe -> 0 .. Capacity]
  /\ proc' \in [Proc -> ProcRec(npipe)]
  /\ \A p \in Proc :
       /\ proc'[p].by = proc[p].by /\ proc'[p].in = proc[p].in /\ proc'[p].out = proc[p].out
       /\ proc'[p].st = proc[p].st \/ (proc[p].st = "running" /\ proc'[p].st = "done")
       /\ proc[p].st # "running" => proc'[p] = proc[p]

\* A step of a command writes a unit where there is room, takes one where there is
\* one, or ends it.
LEMMA CommandFrame ==
  ASSUME TypeOK, NEW p \in Proc, ProcStep(p) \/ SocketEnd(p)
  PROVE  CommandsOnly
<1>1. /\ npipe \in Nat /\ buf \in [1 .. npipe -> 0 .. Capacity] /\ Capacity \in Nat
      /\ proc \in [Proc -> ProcRec(npipe)] /\ proc[p] \in ProcRec(npipe)
  BY BoundAssumption DEF TypeOK, Pipes
<1> DEFINE Later(r) == /\ r \in ProcRec(npipe)
                      /\ r.by = proc[p].by /\ r.in = proc[p].in /\ r.out = proc[p].out
                      /\ (r.st = "running" \/ r.st = "done")
<1>2. ASSUME Running(p), NEW r, Later(r), proc' = [proc EXCEPT ![p] = r],
             buf' \in [1 .. npipe -> 0 .. Capacity],
             UNCHANGED <<users, env, server, open, npipe, nproc, forkErrors, route>>
      PROVE  CommandsOnly
  <2>1. /\ proc' \in [Proc -> ProcRec(npipe)] /\ proc'[p] = r
        /\ \A o \in Proc : o # p => proc'[o] = proc[o]
    BY <1>1, <1>2
  <2>2. ASSUME NEW o \in Proc
        PROVE  /\ proc'[o].by = proc[o].by /\ proc'[o].in = proc[o].in /\ proc'[o].out = proc[o].out
               /\ proc'[o].st = proc[o].st \/ (proc[o].st = "running" /\ proc'[o].st = "done")
               /\ proc[o].st # "running" => proc'[o] = proc[o]
    BY <1>2, <2>1 DEF Running
  <2>3. /\ UNCHANGED <<users, env, server, open, npipe, nproc, forkErrors, route>>
        /\ buf' \in [1 .. npipe -> 0 .. Capacity]
    BY <1>2
  <2> QED
    BY ONLY <2>1, <2>2, <2>3 DEF CommandsOnly
<1>3. ASSUME Running(p)
      PROVE  /\ Later(proc[p]) /\ Later([proc[p] EXCEPT !.st = "done"])
             /\ proc[p].left > 0 => Later([proc[p] EXCEPT !.left = @ - 1])
                                    /\ Later([[proc[p] EXCEPT !.left = @ - 1] EXCEPT !.st = "done"])
  <2> DEFINE x == proc[p]
             y == [x EXCEPT !.left = @ - 1]
  <2>1. x \in ProcRec(npipe) /\ x.st = "running"
    BY <1>1, <1>3 DEF Running
  <2> HIDE DEF x
  <2>2. \A z \in ProcRec(npipe) : [z EXCEPT !.st = "done"] \in ProcRec(npipe)
                                  /\ [z EXCEPT !.st = "done"].by = z.by
                                  /\ [z EXCEPT !.st = "done"].in = z.in
                                  /\ [z EXCEPT !.st = "done"].out = z.out
                                  /\ [z EXCEPT !.st = "done"].st = "done"
    BY DEF ProcRec
  <2>3. x.left > 0 => y \in ProcRec(npipe) /\ y.by = x.by /\ y.in = x.in /\ y.out = x.out /\ y.st = "running"
    BY <2>1 DEF ProcRec
  <2> HIDE DEF y
  <2>4. /\ x.by = proc[p].by /\ x.in = proc[p].in /\ x.out = proc[p].out
    BY DEF x
  <2>5. x.left > 0 => Later(y) /\ Later([y EXCEPT !.st = "done"])
    BY <2>2, <2>3, <2>4
  <2>6. Later(x) /\ Later([x EXCEPT !.st = "done"])
    BY <2>1, <2>2, <2>4
  <2> QED
    BY <2>5, <2>6 DEF x, y
<1>4. ASSUME NEW b \in [1 .. npipe -> 0 .. Capacity], NEW q,
             q \in Pipes /\ HasReader(q) => b[q] < Capacity
      PROVE  Filled(b, q) \in [1 .. npipe -> 0 .. Capacity]
  <2>1. CASE q \in Pipes /\ HasReader(q)
    <3>1. b[q] + 1 \in 0 .. Capacity /\ Filled(b, q) = [b EXCEPT ![q] = b[q] + 1]
      BY <1>1, <1>4, <2>1 DEF Filled, Pipes
    <3> QED
      BY <3>1
  <2>2. CASE ~(q \in Pipes /\ HasReader(q))
    BY <2>2 DEF Filled
  <2> QED
    BY <2>1, <2>2
<1>5. CASE Write(p)
  <2> DEFINE r == AfterWrite(p, [proc[p] EXCEPT !.left = @ - 1])
  <2>1. /\ Running(p) /\ proc' = [proc EXCEPT ![p] = r]
        /\ buf' = Filled(buf, proc[p].out)
        /\ UNCHANGED <<users, env, server, open, npipe, nproc, forkErrors, route>>
    BY <1>5 DEF Write, CanWrite
  <2>2. Later(r)
    BY <1>3, <1>5 DEF Write, CanWrite, AfterWrite
  <2>3. buf' \in [1 .. npipe -> 0 .. Capacity]
    BY <1>1, <1>4, <1>5, <2>1 DEF Write, CanWrite, HasRoom
  <2> HIDE DEF r, Later
  <2> QED
    BY <1>2, <2>1, <2>2, <2>3
<1>6. CASE Copy(p)
  <2> DEFINE r == AfterWrite(p, proc[p])
             b == [buf EXCEPT ![proc[p].in] = @ - 1]
  <2>1. /\ Running(p) /\ proc' = [proc EXCEPT ![p] = r]
        /\ buf' = Filled(b, proc[p].out)
        /\ UNCHANGED <<users, env, server, open, npipe, nproc, forkErrors, route>>
    BY <1>6 DEF Copy, CanCopy
  <2>2. Later(r)
    BY <1>3, <1>6 DEF Copy, CanCopy, AfterWrite
  <2>3. b \in [1 .. npipe -> 0 .. Capacity] /\ \A q \in Pipes : b[q] <= buf[q]
    BY <1>1, <1>6 DEF Copy, CanCopy, Pipes
  <2>4. proc[p].out \in Pipes /\ HasReader(proc[p].out) => b[proc[p].out] < Capacity
    <3>1. ASSUME NEW q \in Pipes, buf[q] < Capacity
          PROVE  b[q] < Capacity
      <4>1. b[q] \in Int /\ buf[q] \in Int /\ b[q] <= buf[q]
        BY <1>1, <2>3 DEF Pipes
      <4> HIDE DEF b
      <4> QED
        BY <1>1, <3>1, <4>1
    <3> QED
      BY <1>6, <3>1 DEF Copy, CanCopy, HasRoom
  <2> HIDE DEF r, Later, b
  <2>5. buf' \in [1 .. npipe -> 0 .. Capacity]
    BY <1>4, <2>1, <2>3, <2>4
  <2> QED
    BY <1>2, <2>1, <2>2, <2>5
<1>7. CASE End(p) \/ SocketEnd(p)
  <2> DEFINE r == [proc[p] EXCEPT !.st = "done"]
  <2>1. /\ Running(p) /\ proc' = [proc EXCEPT ![p] = r] /\ buf' = buf
        /\ UNCHANGED <<users, env, server, open, npipe, nproc, forkErrors, route>>
    BY <1>7 DEF End, CanEnd, SocketEnd
  <2>2. Later(r)
    BY <1>3, <2>1
  <2> HIDE DEF r, Later
  <2> QED
    BY <1>1, <1>2, <2>1, <2>2
<1> QED
  BY <1>5, <1>6, <1>7 DEF ProcStep

\* A child has the next number; the others are as they were.
LEMMA ForkProc ==
  ASSUME PlaceInv, ExecFork
  PROVE  /\ proc' \in [Proc -> ProcRec(npipe')]
         /\ nproc + 1 \in Proc /\ proc'[nproc + 1] = Child
         /\ \A p \in Proc : p # nproc + 1 => proc'[p] = proc[p]
<1>1. pc = "exec" /\ proc' = [proc EXCEPT ![nproc + 1] = Child] /\ npipe' = made
  BY DEF ExecFork, NewPipes
<1>2. Child \in ProcRec(made) /\ made \in Nat /\ made > npipe /\ npipe \in Nat
  BY <1>1, ChildType, ExecRing DEF PlaceInv, TypeOK
<1>3. proc \in [Proc -> ProcRec(made)]
  <2>1. proc \in [Proc -> ProcRec(npipe)] /\ npipe <= made
    BY <1>2 DEF PlaceInv, TypeOK
  <2> QED
    BY <1>2, <2>1, RecordsGrow
<1>4. nproc + 1 \in Proc
  BY ForkFrame
<1>5. /\ proc' \in [Proc -> ProcRec(made)] /\ proc'[nproc + 1] = Child
      /\ \A p \in Proc : p # nproc + 1 => proc'[p] = proc[p]
  BY ONLY <1>1, <1>2, <1>3, <1>4
<1> QED
  BY ONLY <1>1, <1>4, <1>5

-----------------------------------------------------------------------------
(* The invariant holds in every step.                                      *)

\* The initial state: nobody is there and nothing waits.
LEMMA PlaceInit == Init => PlaceInv
<1> SUFFICES ASSUME Init PROVE PlaceInv
  OBVIOUS
<1> USE DEF Init
<1>0. /\ \A u \in User : env[u] = NewEnv /\ holder[u] = NoUser
      /\ npipe = 0 /\ Pipes = {} /\ \A p \in Proc : proc[p] = NoProc
  BY DEF Pipes
<1>1. TypeOK
  <2>1. env \in [User -> EnvRec(npipe)]
    BY NewEnvType
  <2>2. NoProc \in ProcRec(npipe)
    BY DEF NoProc, ProcRec, NoPipe, NoUser
  <2>3. buf \in [Pipes -> 0 .. Capacity] /\ route \in [Pipes -> (Session \cup {NoUser}) \X (Session \cup {NoUser})]
    BY <1>0
  <2>4. /\ nsession \in 0 .. MaxSession /\ lineno \in 0 .. MaxLine /\ npipe \in Nat
        /\ nproc \in 0 .. MaxFork /\ forkErrors \in 0 .. MaxForkError
        /\ line \in Seq(Task) /\ idx \in Nat
    BY BoundAssumption
  <2> QED
    BY <2>1, <2>2, <2>3, <2>4 DEF TypeOK
<1>2. SessionInv
  BY <1>0, BoundAssumption DEF SessionInv, NoUser, NoProc, Online
<1>3. LineInv
  BY DEF LineInv
<1>4. BoxInv /\ RingInv /\ LastInv
  <2>1. \A u \in User : /\ \A k \in Slots : Ring(u, k) = NoPipe
                        /\ \A s \in User : Mail(s, u) = NoPipe
                        /\ Last(u) = NoPipe
    BY <1>0, NewEnvType DEF Ring, Mail, Last
  <2> QED
    BY <1>0, <2>1 DEF BoxInv, RingInv, LastInv, NoPipe, DevNull
<1> QED
  BY <1>1, <1>2, <1>3, <1>4 DEF PlaceInv

\* Every variable keeps its type.
LEMMA TypeStep == PlaceInv /\ [Next]_vars => TypeOK'
<1> SUFFICES ASSUME PlaceInv, [Next]_vars
             PROVE  TypeOK'
  OBVIOUS
<1>0. TypeOK /\ LineInv /\ npipe \in Nat
  BY DEF PlaceInv, TypeOK
<1>1. ASSUME NEW u \in User, Login(u)
      PROVE  TypeOK'
  <2>1. env' \in [User -> EnvRec(npipe)]
    BY <1>1, LoginFrame
  <2>2. nsession' \in 0 .. MaxSession /\ nsession' \in Session
    BY <1>0, <1>1, BoundAssumption DEF Login, TypeOK, Session
  <2>3. holder' \in [User -> Session \cup {NoUser}]
    BY <1>0, <1>1, <2>2 DEF Login, TypeOK
  <2> QED
    BY <1>0, <1>1, <2>1, <2>2, <2>3 DEF Login, TypeOK, server, kernel, Pipes
<1>2. ASSUME NEW u \in User, ReadLine(u)
      PROVE  TypeOK'
  <2>1. /\ line' \in Lines
        /\ env' \in [User -> EnvRec(npipe')]
        /\ buf' \in [1 .. npipe' -> 0 .. Capacity]
        /\ route' \in [1 .. npipe' -> (Session \cup {NoUser}) \X (Session \cup {NoUser})]
        /\ inError' \in BOOLEAN
        /\ \E s, r \in User \cup {NoUser}, sends \in BOOLEAN : ReadEffect(u, s, r, sends)
    BY <1>0, <1>2, ReadFrame
  <2>2. /\ outError' \in BOOLEAN
        /\ npipe' \in Nat /\ npipe <= npipe'
        /\ open' = open \cup (npipe + 1 .. npipe')
    BY <1>0, <2>1 DEF ReadEffect
  <2>3. proc' \in [Proc -> ProcRec(npipe')]
    <3>1. proc \in [Proc -> ProcRec(npipe)] /\ proc' = proc
      BY <1>0, <1>2 DEF TypeOK, ReadLine
    <3> QED
      BY <1>0, <2>2, <3>1, RecordsGrow
  <2>4. open' \subseteq 1 .. npipe'
    <3>1. \A q \in open : q \in 1 .. npipe
      BY <1>0 DEF TypeOK, Pipes
    <3>2. \A q \in open \cup (npipe + 1 .. npipe') : q \in 1 .. npipe'
      BY <1>0, <2>2, <3>1
    <3> QED
      BY <2>2, <3>2
  <2>5. lineno' \in 0 .. MaxLine /\ idx' \in Nat /\ line' \in Seq(Task)
    <3>1. lineno' = lineno + 1 /\ lineno < MaxLine /\ idx' = 1 /\ lineno \in 0 .. MaxLine
      BY <1>0, <1>2 DEF ReadLine, TypeOK
    <3>2. line' \in Seq(Task)
      BY ONLY <2>1, LineAssumption
    <3> QED
      BY ONLY <3>1, <3>2, BoundAssumption
  <2>6. /\ holder' \in [User -> Session \cup {NoUser}] /\ nsession' \in 0 .. MaxSession
        /\ garbage' \subseteq User /\ pc' = "exec" /\ who' \in User
        /\ nproc' \in 0 .. MaxFork /\ forkErrors' \in 0 .. MaxForkError
    BY <1>0, <1>2 DEF ReadLine, TypeOK, users
  <2> QED
    BY ONLY <2>1, <2>2, <2>3, <2>4, <2>5, <2>6 DEF TypeOK, Pipes
<1>3. CASE ExecBuiltin
  <2>1. garbage' \subseteq User /\ pc' \in {"exec", "forward"} /\ idx' \in Nat
    BY <1>0, <1>3 DEF ExecBuiltin, NextTask, TypeOK, LineInv, Online
  <2> QED
    BY <1>0, <1>3, <2>1 DEF ExecBuiltin, TypeOK, kernel, Pipes
<1>4. CASE ExecFork
  <2>1. env' \in [User -> EnvRec(npipe')] /\ KernelGrows /\ nproc + 1 \in Proc
    BY <1>4, ForkFrame
  <2>2. proc' \in [Proc -> ProcRec(npipe')]
    BY <1>4, ForkProc
  <2>3. open' \subseteq 1 .. npipe'
    <3>1. \A q \in open : q \in 1 .. npipe
      BY <1>0 DEF TypeOK, Pipes
    <3>2. \A q \in open \cup (npipe + 1 .. npipe') : q \in 1 .. npipe'
      BY <1>0, <2>1, <3>1 DEF KernelGrows
    <3> QED
      BY <1>4, <3>2 DEF ExecFork, NewPipes
  <2>4. nproc' \in 0 .. MaxFork
    BY <1>0, <1>4, <2>1, BoundAssumption DEF ExecFork, TypeOK, Proc
  <2>5. pc' \in {"exec", "forward"} /\ idx' \in Nat
    BY <1>0, <1>4 DEF ExecFork, NextTask, TypeOK
  <2>6. /\ holder' \in [User -> Session \cup {NoUser}] /\ nsession' \in 0 .. MaxSession
        /\ garbage' \subseteq User /\ who' \in User \cup {NoUser}
        /\ line' \in Seq(Task) /\ inError' \in BOOLEAN /\ outError' \in BOOLEAN
        /\ lineno' \in 0 .. MaxLine /\ forkErrors' \in 0 .. MaxForkError
    BY <1>0, <1>4 DEF ExecFork, TypeOK, users
  <2> QED
    BY ONLY <2>1, <2>2, <2>3, <2>4, <2>5, <2>6 DEF TypeOK, Pipes, KernelGrows
<1>5. CASE ExecForkError
  <2>1. env' \in [User -> EnvRec(npipe')] /\ KernelGrows
    BY <1>5, ErrorFrame
  <2>2. proc' \in [Proc -> ProcRec(npipe')]
    <3>1. proc \in [Proc -> ProcRec(npipe)] /\ proc' = proc
      BY <1>0, <1>5 DEF TypeOK, ExecForkError
    <3>2. npipe' \in Nat /\ npipe <= npipe'
      BY <1>0, <2>1 DEF KernelGrows
    <3> QED
      BY <1>0, <3>1, <3>2, RecordsGrow
  <2>3. open' \subseteq 1 .. npipe'
    <3>1. \A q \in open : q \in 1 .. npipe
      BY <1>0 DEF TypeOK, Pipes
    <3>2. \A q \in open \cup (npipe + 1 .. npipe') : q \in 1 .. npipe'
      BY <1>0, <2>1, <3>1 DEF KernelGrows
    <3> QED
      BY <1>5, <3>2 DEF ExecForkError, NewPipes
  <2>4. /\ holder' \in [User -> Session \cup {NoUser}] /\ nsession' \in 0 .. MaxSession
        /\ garbage' \subseteq User /\ who' \in User \cup {NoUser} /\ pc' \in {"exec"}
        /\ line' \in Seq(Task) /\ idx' \in Nat /\ inError' \in BOOLEAN /\ outError' \in BOOLEAN
        /\ lineno' \in 0 .. MaxLine /\ nproc' \in 0 .. MaxFork
    BY <1>0, <1>5 DEF ExecForkError, TypeOK, users, server
  <2>5. forkErrors' \in 0 .. MaxForkError
    BY <1>0, <1>5, BoundAssumption DEF ExecForkError, TypeOK
  <2> QED
    BY ONLY <2>1, <2>2, <2>3, <2>4, <2>5 DEF TypeOK, Pipes, KernelGrows
<1>6. CASE Forward
  <2>1. env' \in [User -> EnvRec(npipe)]
    BY <1>6, ForwardFrame
  <2> QED
    BY <1>0, <1>6, <2>1 DEF Forward, TypeOK, users, kernel, Pipes
<1>7. CASE WaitUser
  <2>1. env' \in [User -> EnvRec(npipe)]
    BY <1>7, WaitFrame
  <2> QED
    BY <1>0, <1>7, <2>1 DEF WaitUser, TypeOK, users, kernel, Pipes
<1>8. CASE EndLine
  <2>1. env' \in [User -> EnvRec(npipe)] /\ open' \subseteq open /\ npipe' = npipe
    BY <1>8, EndFrame DEF EndLine
  <2>2. <<>> \in Seq(Task)
    OBVIOUS
  <2> QED
    BY <1>0, <1>8, <2>1, <2>2 DEF EndLine, TypeOK, users, Pipes
<1>9. ASSUME NEW u \in User, ClearGarbage(u)
      PROVE  TypeOK'
  <2>1. env' \in [User -> EnvRec(npipe)]
    BY <1>9, ClearFrame
  <2>2. proc' \in [Proc -> ProcRec(npipe)]
    <3>1. proc' = [p \in Proc |-> IF Running(p) /\ p \in Victims(u) THEN [proc[p] EXCEPT !.st = "killed"] ELSE proc[p]]
      BY <1>9 DEF ClearGarbage
    <3>2. ASSUME NEW x \in ProcRec(npipe)
          PROVE  [x EXCEPT !.st = "killed"] \in ProcRec(npipe)
      BY <3>2 DEF ProcRec
    <3> QED
      BY <1>0, <3>1, <3>2 DEF TypeOK
  <2>3. holder' \in [User -> Session \cup {NoUser}] /\ garbage' \subseteq User /\ open' \subseteq open
    BY <1>0, <1>9 DEF ClearGarbage, TypeOK
  <2> QED
    BY <1>0, <1>9, <2>1, <2>2, <2>3 DEF ClearGarbage, TypeOK, server, Pipes
<1>10. ASSUME NEW p \in Proc, ProcStep(p) \/ SocketEnd(p)
       PROVE  TypeOK'
  BY <1>0, <1>10, CommandFrame DEF CommandsOnly, TypeOK, users, server, Pipes
<1>11. CASE UNCHANGED vars
  BY <1>0, <1>11 DEF TypeOK, vars, users, server, kernel, Pipes
<1> QED
  BY <1>1, <1>2, <1>3, <1>4, <1>5, <1>6, <1>7, <1>8, <1>9, <1>10, <1>11 DEF Next, ServerStep

\* The pipes numbered so far keep their two sessions.
LEMMA RouteKept ==
  ASSUME PlaceInv, [Next]_vars
  PROVE  /\ npipe' \in Nat /\ npipe <= npipe'
         /\ \A q \in Pipes : q \in Pipes' /\ route'[q] = route[q]
<1>0. npipe \in Nat
  BY DEF PlaceInv, TypeOK
<1>1. npipe' \in Nat /\ npipe <= npipe' /\ \A q \in Pipes : route'[q] = route[q]
  <2>1. ASSUME NEW u \in User, Login(u) \/ ClearGarbage(u)
        PROVE  npipe' = npipe /\ route' = route
    BY <2>1 DEF Login, ClearGarbage, kernel
  <2>2. ASSUME NEW u \in User, ReadLine(u)
        PROVE  npipe' \in Nat /\ npipe <= npipe' /\ \A q \in Pipes : route'[q] = route[q]
    <3>1. \E s, r \in User \cup {NoUser}, sends \in BOOLEAN : ReadEffect(u, s, r, sends)
      BY <2>2, ReadFrame
    <3> QED
      BY <1>0, <3>1 DEF ReadEffect
  <2>3. CASE ExecFork
    BY <1>0, <2>3, ForkFrame DEF KernelGrows
  <2>4. CASE ExecForkError
    BY <1>0, <2>4, ErrorFrame DEF KernelGrows
  <2>5. CASE ExecBuiltin \/ Forward \/ WaitUser \/ EndLine
    BY <1>0, <2>5 DEF ExecBuiltin, Forward, WaitUser, EndLine, kernel
  <2>6. ASSUME NEW p \in Proc, ProcStep(p) \/ SocketEnd(p)
        PROVE  npipe' = npipe /\ route' = route
    BY <2>6, CommandFrame DEF PlaceInv, CommandsOnly
  <2>7. CASE UNCHANGED vars
    BY <1>0, <2>7 DEF vars, kernel
  <2> QED
    BY <1>0, <2>1, <2>2, <2>3, <2>4, <2>5, <2>6, <2>7 DEF Next, ServerStep
<1> QED
  BY <1>0, <1>1 DEF Pipes

\* Who holds the ids changes only when somebody comes or goes; sessions are not
\* named before they begin.
LEMMA SessionStep == PlaceInv /\ [Next]_vars => SessionInv'
<1> SUFFICES ASSUME PlaceInv, [Next]_vars
             PROVE  SessionInv'
  OBVIOUS
<1>0. TypeOK /\ LineInv /\ SessionInv /\ npipe \in Nat /\ nsession \in Nat
  BY DEF PlaceInv, TypeOK
<1>1. ASSUME NEW u \in User, Login(u)
      PROVE  SessionInv'
  <2>1. /\ nsession' = nsession + 1 /\ garbage = {} /\ garbage' = {}
        /\ holder'[u] = nsession + 1 /\ \A v \in User : v # u => holder'[v] = holder[v]
        /\ npipe' = npipe /\ route' = route /\ proc' = proc /\ nproc' = nproc
    BY <1>0, <1>1 DEF Login, TypeOK, kernel
  <2>2. \A v \in User : holder'[v] \in 0 .. nsession'
    BY <1>0, <2>1 DEF SessionInv
  <2>3. \A v, w \in User : holder'[v] = holder'[w] /\ holder'[v] # NoUser => v = w
    BY <1>0, <2>1 DEF SessionInv
  <2>4. \A q \in Pipes : Routed(q) => route[q][1] \in 1 .. nsession' /\ route[q][2] \in 1 .. nsession'
    BY <1>0, <2>1 DEF SessionInv
  <2>5. \A p \in Proc : proc[p].by \in 0 .. nsession'
    BY <1>0, <2>1 DEF SessionInv
  <2>6. \A p \in Proc : p > nproc => proc[p] = NoProc
    BY <1>0 DEF SessionInv
  <2> QED
    BY ONLY <2>1, <2>2, <2>3, <2>4, <2>5, <2>6 DEF SessionInv, Pipes, Routed
<1>2. ASSUME NEW u \in User, ReadLine(u)
      PROVE  SessionInv'
  <2>1. PICK s \in User \cup {NoUser}, r \in User \cup {NoUser}, sends \in BOOLEAN : ReadEffect(u, s, r, sends)
    BY <1>0, <1>2, ReadFrame
  <2>2. /\ Online(u) /\ holder' = holder /\ nsession' = nsession /\ garbage' = garbage
        /\ proc' = proc /\ nproc' = nproc
    BY <1>2 DEF ReadLine, users
  <2>3. ASSUME NEW q \in Pipes', Routed(q)'
        PROVE  route'[q][1] \in 1 .. nsession /\ route'[q][2] \in 1 .. nsession
    <3>1. CASE q \in Pipes
      <4>1. route'[q] = route[q]
        BY <2>1, <3>1 DEF ReadEffect
      <4> QED
        BY <1>0, <2>3, <3>1, <4>1 DEF SessionInv, Routed
    <3>2. CASE q \notin Pipes
      <4>1. sends /\ q = npipe + 1
        BY <1>0, <2>1, <3>2 DEF ReadEffect, Pipes
      <4>2. Online(r) /\ route'[q] = <<holder[u], holder[r]>>
        BY <2>1, <4>1 DEF ReadEffect
      <4> QED
        BY <1>0, <2>2, <4>2 DEF SessionInv, Online, NoUser
    <3> QED
      BY <3>1, <3>2
  <2> QED
    BY <1>0, <2>2, <2>3 DEF SessionInv, Online
<1>3. CASE ExecBuiltin
  <2>1. Online(who)
    BY <1>0, <1>3 DEF ExecBuiltin, LineInv
  <2>2. \A u \in garbage' : Online(u)
    BY <1>0, <1>3, <2>1 DEF ExecBuiltin, SessionInv
  <2>3. UNCHANGED <<holder, nsession, npipe, route, proc, nproc>>
    BY <1>3 DEF ExecBuiltin, kernel
  <2> QED
    BY <1>0, <2>2, <2>3 DEF SessionInv, Online, Pipes, Routed
<1>4. CASE ExecFork
  <2>1. KernelGrows /\ nproc + 1 \in Proc
    BY <1>4, ForkFrame
  <2>2. /\ proc'[nproc + 1] = Child /\ Child.by = holder[who]
        /\ \A p \in Proc : p # nproc + 1 => proc'[p] = proc[p]
    BY <1>4, ForkProc, ChildType DEF ExecFork
  <2>3. UNCHANGED <<holder, nsession, garbage>> /\ nproc' = nproc + 1
    BY <1>4 DEF ExecFork, users
  <2>4. \A q \in Pipes' : Routed(q)' => route'[q][1] \in 1 .. nsession /\ route'[q][2] \in 1 .. nsession
    BY <1>0, <2>1 DEF KernelGrows, Routed, SessionInv
  <2>5. holder[who] \in 0 .. nsession
    BY <1>0, <1>4 DEF ExecFork, LineInv, Online, SessionInv
  <2>6. \A p \in Proc : proc'[p].by \in 0 .. nsession
    BY <1>0, <2>2, <2>5 DEF SessionInv
  <2>7. \A p \in Proc : p > nproc + 1 => proc'[p] = NoProc
    <3>1. nproc \in Nat /\ \A p \in Proc : p \in Nat
      BY <1>0, BoundAssumption DEF TypeOK, Proc
    <3> QED
      BY <1>0, <2>2, <3>1 DEF SessionInv
  <2> QED
    BY <1>0, <2>3, <2>4, <2>6, <2>7 DEF SessionInv, Online
<1>5. CASE ExecForkError
  <2>1. KernelGrows
    BY <1>5, ErrorFrame
  <2>2. UNCHANGED <<holder, nsession, garbage, proc, nproc>>
    BY <1>5 DEF ExecForkError, users
  <2>3. \A q \in Pipes' : Routed(q)' => route'[q][1] \in 1 .. nsession /\ route'[q][2] \in 1 .. nsession
    BY <1>0, <2>1 DEF KernelGrows, Routed, SessionInv
  <2> QED
    BY <1>0, <2>2, <2>3 DEF SessionInv, Online
<1>6. CASE Forward \/ WaitUser \/ EndLine \/ UNCHANGED vars
  <2>1. UNCHANGED <<holder, nsession, garbage, npipe, route, proc, nproc>>
    BY <1>6 DEF Forward, WaitUser, EndLine, users, kernel, vars
  <2> QED
    BY <1>0, <2>1 DEF SessionInv, Online, Pipes, Routed
<1>7. ASSUME NEW u \in User, ClearGarbage(u)
      PROVE  SessionInv'
  <2>1. /\ UNCHANGED <<nsession, npipe, route, nproc>> /\ garbage' = garbage \ {u}
        /\ holder'[u] = NoUser /\ \A v \in User : v # u => holder'[v] = holder[v]
    BY <1>0, <1>7 DEF ClearGarbage, TypeOK
  <2>2. \A p \in Proc : proc'[p].by = proc[p].by /\ (proc'[p] = proc[p] \/ Running(p))
    BY <1>0, <1>7 DEF ClearGarbage, TypeOK, ProcRec
  <2>3. \A p \in Proc : p > nproc => proc'[p] = NoProc
    <3>1. NoProc.st # "running"
      BY DEF NoProc
    <3>2. \A p \in Proc : p > nproc => proc[p] = NoProc
      BY <1>0 DEF SessionInv
    <3> QED
      BY <2>2, <3>1, <3>2 DEF Running
  <2>4. /\ \A v \in User : holder'[v] \in 0 .. nsession
        /\ \A v, w \in User : holder'[v] = holder'[w] /\ holder'[v] # NoUser => v = w
    BY <1>0, <2>1 DEF SessionInv, NoUser
  <2>5. \A v \in garbage' : v \in User /\ holder'[v] # NoUser
    BY <1>0, <2>1 DEF SessionInv, Online
  <2>6. /\ \A q \in Pipes : Routed(q) => route[q][1] \in 1 .. nsession /\ route[q][2] \in 1 .. nsession
        /\ \A p \in Proc : proc'[p].by \in 0 .. nsession
    BY <1>0, <2>2 DEF SessionInv
  <2> QED
    BY ONLY <2>1, <2>3, <2>4, <2>5, <2>6 DEF SessionInv, Online, Pipes, Routed
<1>8. ASSUME NEW p \in Proc, ProcStep(p) \/ SocketEnd(p)
      PROVE  SessionInv'
  <2>1. CommandsOnly
    BY <1>0, <1>8, CommandFrame
  <2>2. \A o \in Proc : o > nproc => proc'[o] = NoProc
    BY <1>0, <2>1 DEF CommandsOnly, SessionInv, NoProc
  <2>3. \A o \in Proc : proc'[o].by \in 0 .. nsession
    BY <1>0, <2>1 DEF CommandsOnly, SessionInv
  <2>4. UNCHANGED <<holder, nsession, garbage, npipe, route, nproc>>
    BY <2>1 DEF CommandsOnly, users
  <2> QED
    BY <1>0, <2>2, <2>3, <2>4 DEF SessionInv, Online, Pipes, Routed
<1> QED
  BY <1>1, <1>2, <1>3, <1>4, <1>5, <1>6, <1>7, <1>8 DEF Next, ServerStep

\* A line is begun for a user who is there, and nobody leaves before it ends.
LEMMA LineStep == PlaceInv /\ [Next]_vars => LineInv'
<1> SUFFICES ASSUME PlaceInv, [Next]_vars
             PROVE  LineInv'
  OBVIOUS
<1> DEFINE HasDest == lastTask.to # NoUser /\ ~outError =>
                        /\ Online(lastTask.to)
                        /\ \E q \in Pipes : route[q] = <<holder[who], holder[lastTask.to]>>
<1>0. TypeOK /\ LineInv /\ npipe \in Nat
  BY DEF PlaceInv, TypeOK
<1>1. ASSUME UNCHANGED <<holder, who, line, outError>>, pc \in {"exec", "forward"}
      PROVE  HasDest'
  <2>1. HasDest /\ lastTask' = lastTask
    BY <1>0, <1>1 DEF LineInv, lastTask
  <2>2. \A q \in Pipes : q \in Pipes' /\ route'[q] = route[q]
    BY RouteKept
  <2> QED
    BY <1>1, <2>1, <2>2 DEF Online
<1>2. ASSUME pc' = "idle"
      PROVE  LineInv'
  BY <1>2 DEF LineInv
<1>3. ASSUME NEW u \in User, Login(u) \/ ClearGarbage(u)
      PROVE  LineInv'
  BY <1>2, <1>3 DEF Login, ClearGarbage, server
<1>4. ASSUME NEW u \in User, ReadLine(u)
      PROVE  LineInv'
  <2>1. PICK s \in User \cup {NoUser}, r \in User \cup {NoUser}, sends \in BOOLEAN : ReadEffect(u, s, r, sends)
    BY <1>0, <1>4, ReadFrame
  <2>2. line' \in Lines /\ nproc + Len(line') <= MaxFork
    BY <1>0, <1>4, ReadFrame
  <2>3. /\ pc' = "exec" /\ who' = u /\ idx' = 1 /\ nproc' = nproc /\ holder' = holder /\ Online(u)
    BY <1>4 DEF ReadLine, users
  <2>4. idx' \in 1 .. Len(line') /\ nproc' + Len(line') - idx' < MaxFork
    <3>1. Len(line') \in Nat \ {0} /\ nproc \in Nat /\ MaxFork \in Nat
      BY <1>0, <2>2, LineEndsTyped, BoundAssumption DEF TypeOK
    <3> QED
      BY ONLY <2>2, <2>3, <3>1
  <2>5. HasDest'
    <3>1. lastTask'.to = r /\ outError' = (r # NoUser /\ ~sends)
      BY <2>1 DEF ReadEffect, Dest, lastTask
    <3>2. sends => Online(r) /\ route'[npipe + 1] = <<holder[u], holder[r]>> /\ npipe + 1 \in Pipes'
      BY <1>0, <2>1 DEF ReadEffect, Pipes
    <3>3. r # NoUser /\ ~outError' => sends
      BY <3>1
    <3> QED
      BY <2>3, <3>1, <3>2, <3>3 DEF Online
  <2> QED
    BY <2>2, <2>3, <2>4, <2>5 DEF LineInv, Online
<1>5. ASSUME UNCHANGED <<holder, who, line, outError>>, pc = "exec", pc' \in {"exec", "forward"},
             pc' = "exec" => idx' \in 1 .. Len(line) /\ nproc' + Len(line) - idx' < MaxFork
      PROVE  LineInv'
  <2>1. HasDest'
    BY <1>1, <1>5
  <2> QED
    BY <1>0, <1>5, <2>1 DEF LineInv, Online
<1>6. ASSUME pc = "exec", NextTask, nproc' \in {nproc, nproc + 1}
      PROVE  /\ pc' \in {"exec", "forward"}
             /\ pc' = "exec" => idx' \in 1 .. Len(line) /\ nproc' + Len(line) - idx' < MaxFork
  <2>1. /\ idx \in 1 .. Len(line) /\ nproc + Len(line) - idx < MaxFork
        /\ Len(line) \in Nat /\ nproc \in Nat /\ MaxFork \in Nat
    BY <1>0, <1>6, LineEndsTyped, BoundAssumption DEF LineInv, TypeOK
  <2> QED
    BY ONLY <1>6, <2>1 DEF NextTask
<1>7. CASE ExecBuiltin
  <2>1. pc = "exec" /\ NextTask /\ UNCHANGED <<holder, who, line, outError, nproc>>
    BY <1>7 DEF ExecBuiltin, kernel
  <2> QED
    BY <1>5, <1>6, <2>1
<1>8. CASE ExecFork
  <2>1. pc = "exec" /\ NextTask /\ UNCHANGED <<holder, who, line, outError>> /\ nproc' = nproc + 1
    BY <1>8 DEF ExecFork, users
  <2> QED
    BY <1>5, <1>6, <2>1
<1>9. CASE ExecForkError
  <2>1. pc = "exec" /\ pc' = "exec" /\ UNCHANGED <<holder, who, line, outError, idx, nproc>>
    BY <1>9 DEF ExecForkError, users, server
  <2> QED
    BY <1>0, <1>5, <2>1 DEF LineInv
<1>10. CASE Forward \/ WaitUser
  <2>1. /\ pc # "idle" /\ pc' \in {"waituser", "wait"} /\ UNCHANGED <<holder, who, line>>
    BY <1>10 DEF Forward, WaitUser, users
  <2> QED
    BY <1>0, <2>1 DEF LineInv, Online
<1>11. CASE EndLine
  BY <1>2, <1>11 DEF EndLine
<1>12. CASE UNCHANGED <<users, server, npipe, route, nproc>>
  <2>1. UNCHANGED <<holder, who, line, outError, pc, idx, npipe, route, nproc>>
    BY <1>12 DEF users, server
  <2> QED
    BY <1>0, <2>1 DEF LineInv, Online, lastTask, Pipes
<1>13. ASSUME NEW p \in Proc, ProcStep(p) \/ SocketEnd(p)
       PROVE  LineInv'
  BY <1>0, <1>12, <1>13, CommandFrame DEF CommandsOnly
<1>14. CASE UNCHANGED vars
  BY <1>12, <1>14 DEF vars, kernel
<1> QED
  BY <1>3, <1>4, <1>7, <1>8, <1>9, <1>10, <1>11, <1>13, <1>14 DEF Next, ServerStep

\* A mailbox is filled for the two users who are there, and emptied before one of
\* them leaves.
LEMMA BoxStep == PlaceInv /\ [Next]_vars => BoxInv'
<1> SUFFICES ASSUME PlaceInv, [Next]_vars, NEW s \in User, NEW r \in User, Mail(s, r)' # NoPipe
             PROVE  Online(s)' /\ Online(r)' /\ route'[Mail(s, r)'] = <<holder'[s], holder'[r]>>
  BY DEF BoxInv
<1>0. TypeOK /\ BoxInv /\ npipe \in Nat
  BY DEF PlaceInv, TypeOK
<1>1. ASSUME Mail(s, r)' = Mail(s, r), holder'[s] = holder[s], holder'[r] = holder[r]
      PROVE  Online(s)' /\ Online(r)' /\ route'[Mail(s, r)'] = <<holder'[s], holder'[r]>>
  <2>1. Mail(s, r) \in Pipes
    BY <1>0, <1>1 DEF TypeOK, EnvRec, Mail, NoPipe, Pipes
  <2>2. route'[Mail(s, r)] = route[Mail(s, r)]
    BY <2>1, RouteKept
  <2> QED
    BY <1>0, <1>1, <2>2 DEF BoxInv, Online
<1>2. ASSUME NEW u \in User, Login(u)
      PROVE  Mail(s, r)' = Mail(s, r) /\ holder'[s] = holder[s] /\ holder'[r] = holder[r]
  <2>1. r # u /\ Mail(s, r)' = Mail(s, r)
    BY <1>0, <1>2, LoginFrame, NewEnvType DEF Mail
  <2>2. s # u
    BY <1>0, <1>2, <2>1 DEF BoxInv, Login
  <2> QED
    BY <1>0, <1>2, <2>1, <2>2 DEF Login, TypeOK
<1>3. ASSUME NEW u \in User, ClearGarbage(u)
      PROVE  Mail(s, r)' = Mail(s, r) /\ holder'[s] = holder[s] /\ holder'[r] = holder[r]
  <2>1. r # u
    BY <1>0, <1>3, ClearFrame, NewEnvType DEF Mail
  <2>2. s # u /\ Mail(s, r)' = Mail(s, r)
    BY <1>0, <1>3, <2>1, ClearFrame DEF Mail
  <2> QED
    BY <1>0, <1>3, <2>1, <2>2 DEF ClearGarbage, TypeOK
<1>4. ASSUME NEW u \in User, ReadLine(u)
      PROVE  Online(s)' /\ Online(r)' /\ route'[Mail(s, r)'] = <<holder'[s], holder'[r]>>
  <2>1. PICK f \in User \cup {NoUser}, t \in User \cup {NoUser}, sends \in BOOLEAN : ReadEffect(u, f, t, sends)
    BY <1>0, <1>4, ReadFrame
  <2>2. holder' = holder /\ Online(u)
    BY <1>4 DEF ReadLine, users
  <2>3. CASE sends /\ s = u /\ r = t
    <3>1. Mail(s, r)' = npipe + 1 /\ Online(t) /\ route'[npipe + 1] = <<holder[u], holder[t]>>
      BY <2>1, <2>3 DEF ReadEffect
    <3> QED
      BY <2>2, <2>3, <3>1 DEF Online
  <2>4. CASE ~(sends /\ s = u /\ r = t)
    <3>1. Mail(s, r)' = Mail(s, r)
      BY <2>1, <2>4 DEF ReadEffect
    <3> QED
      BY <1>1, <2>2, <3>1
  <2> QED
    BY <2>3, <2>4
<1>5. CASE ExecFork \/ ExecForkError
  <2>1. OthersKeep /\ holder' = holder
    BY <1>0, <1>5, ForkFrame, ErrorFrame DEF ExecFork, ExecForkError, users
  <2> QED
    BY <1>1, <2>1 DEF OthersKeep, Mail
<1>6. CASE Forward \/ WaitUser
  <2>1. KeepsPipes /\ holder' = holder
    BY <1>0, <1>6, ForwardFrame, WaitFrame DEF Forward, WaitUser, users
  <2> QED
    BY <1>1, <2>1 DEF KeepsPipes, Mail
<1>7. CASE EndLine
  <2>1. Mail(s, r)' = Mail(s, r) /\ holder' = holder
    BY <1>0, <1>7, EndFrame DEF EndLine, users, Mail
  <2> QED
    BY <1>1, <2>1
<1>8. CASE UNCHANGED <<holder, env>>
  BY <1>1, <1>8 DEF Mail
<1>9. ASSUME NEW p \in Proc, ProcStep(p) \/ SocketEnd(p)
      PROVE  UNCHANGED <<holder, env>>
  BY <1>0, <1>9, CommandFrame DEF CommandsOnly, users
<1>10. CASE ExecBuiltin \/ UNCHANGED vars
  BY <1>8, <1>10 DEF ExecBuiltin, vars, users
<1> QED
  BY <1>1, <1>2, <1>3, <1>4, <1>5, <1>6, <1>7, <1>8, <1>9, <1>10 DEF Next, ServerStep

\* What the places of the Environments hold, by type.
LEMMA PlaceTypes ==
  ASSUME TypeOK
  PROVE  /\ npipe \in Nat
         /\ \A u \in User, k \in Slots : Ring(u, k) \in 1 .. npipe \cup {NoPipe, DevNull}
         /\ \A u \in User : Last(u) \in 1 .. npipe \cup {NoPipe, DevNull}
         /\ \A s, r \in User : Mail(s, r) \in 0 .. npipe
         /\ \A u \in User : env[u].current_pos \in Slots
  BY DEF TypeOK, EnvRec, Ring, Last, Mail

\* While no fork is to be tried again, things are only taken away.
LEMMA PlacesDrop ==
  ASSUME PlaceInv, \A u \in User, k \in Slots : ~Retry(u, k),
         UNCHANGED <<npipe, route>>,
         \A u \in User : /\ Last(u)' # NoPipe => env'[u].last_pipe = Last(u) /\ holder'[u] = holder[u]
                         /\ \A k \in Slots : Ring(u, k)' # NoPipe => env'[u].pipes[k] = Ring(u, k) /\ holder'[u] = holder[u],
         \A s, r \in User : Mail(s, r)' # NoPipe => Mail(s, r)' = Mail(s, r)
  PROVE  RingInv' /\ LastInv'
<1>0. RingInv /\ LastInv
  BY DEF PlaceInv
<1>1. ASSUME NEW u \in User, NEW j \in Slots
      PROVE  /\ Ring(u, j)' # NoPipe => Online(u)'
             /\ ~(Ring(u, j)' = DevNull \/ (Ring(u, j)' \in Pipes /\ Routed(Ring(u, j)')))
             /\ \A v \in User, k \in Slots : Ring(u, j)' = Ring(v, k)' /\ Ring(u, j)' # NoPipe => u = v /\ j = k
  <2>1. CASE Ring(u, j)' # NoPipe
    <3>1. Ring(u, j)' = Ring(u, j) /\ holder'[u] = holder[u]
      BY <2>1 DEF Ring
    <3>2. Online(u)' /\ ~(Ring(u, j) = DevNull \/ (Ring(u, j) \in Pipes /\ Routed(Ring(u, j))))
      BY <1>0, <2>1, <3>1 DEF RingInv, Online
    <3>3. \A v \in User, k \in Slots : Ring(v, k)' # NoPipe => Ring(v, k)' = Ring(v, k)
      BY DEF Ring
    <3>4. \A v \in User, k \in Slots : Ring(u, j)' = Ring(v, k)' => u = v /\ j = k
      BY <1>0, <2>1, <3>1, <3>3 DEF RingInv
    <3> QED
      BY <3>1, <3>2, <3>4
  <2>2. CASE Ring(u, j)' = NoPipe
    BY <2>2 DEF NoPipe, DevNull, Pipes
  <2> QED
    BY <2>1, <2>2
<1>2. RingInv'
  <2>1. Pipes' = Pipes /\ \A q : Routed(q)' <=> Routed(q)
    BY DEF Pipes, Routed
  <2> QED
    BY <1>1, <2>1 DEF RingInv
<1>3. ASSUME NEW u \in User, Last(u)' # NoPipe
      PROVE  /\ Online(u)'
             /\ Last(u)' \in Pipes => Routed(Last(u)') /\ route[Last(u)'][2] = holder'[u] /\ ~(Boxed(Last(u)))'
  <2>1. Last(u)' = Last(u) /\ holder'[u] = holder[u]
    BY <1>3 DEF Last
  <2>2. Online(u)'
    BY <1>0, <1>3, <2>1 DEF LastInv, Online
  <2>3. Last(u) \in Pipes => Routed(Last(u)) /\ route[Last(u)][2] = holder[u] /\ ~Boxed(Last(u))
    BY <1>0 DEF LastInv
  <2>4. Boxed(Last(u))' => Boxed(Last(u)) \/ Last(u) = NoPipe
    BY <2>1 DEF Boxed
  <2> QED
    BY <1>3, <2>1, <2>2, <2>3, <2>4
<1>4. LastInv'
  <2>1. Pipes' = Pipes /\ route' = route
    BY DEF Pipes
  <2>2. NoPipe \notin Pipes
    BY DEF NoPipe, Pipes
  <2> QED
    BY <1>3, <2>1, <2>2 DEF LastInv, Routed
<1> QED
  BY <1>2, <1>4

\* A line begins: what a `<` took from its mailbox waits aside, and the new pipe of
\* a `>` is nobody else's.
LEMMA PlacesRead ==
  ASSUME PlaceInv, NEW u \in User, ReadLine(u)
  PROVE  RingInv' /\ LastInv'
<1>0. /\ TypeOK /\ SessionInv /\ BoxInv /\ RingInv /\ LastInv /\ npipe \in Nat
      /\ pc = "idle" /\ Online(u) /\ holder' = holder
  BY DEF PlaceInv, TypeOK, ReadLine, users
<1>1. PICK s \in User \cup {NoUser}, r \in User \cup {NoUser}, sends \in BOOLEAN : ReadEffect(u, s, r, sends)
  BY <1>0, ReadFrame
<1>2. \A q \in Pipes : q \in Pipes' /\ route'[q] = route[q]
  <2>1. Next
    BY DEF Next
  <2> QED
    BY <2>1, RouteKept
<1>3. \A v \in User, k \in Slots : Ring(v, k)' = Ring(v, k) /\ Ring(v, k) \in 1 .. npipe \cup {NoPipe, DevNull}
  BY <1>0, <1>1, PlaceTypes DEF ReadEffect, SameRing, Ring
<1>4. \A v \in User, k \in Slots : ~(Ring(v, k) = DevNull \/ (Ring(v, k) \in Pipes /\ Routed(Ring(v, k))))
  BY <1>0 DEF RingInv, Retry
<1>5. RingInv'
  <2>1. ASSUME NEW v \in User, NEW k \in Slots
        PROVE  ~(Ring(v, k) = DevNull \/ (Ring(v, k) \in Pipes' /\ Routed(Ring(v, k))'))
    <3>1. Ring(v, k) # DevNull /\ (Ring(v, k) \in Pipes => ~Routed(Ring(v, k)))
      BY <1>4
    <3>2. CASE Ring(v, k) \in Pipes
      <4>1. route'[Ring(v, k)] = <<NoUser, NoUser>>
        BY <1>2, <3>1, <3>2 DEF Routed
      <4>2. Ring(v, k)' = Ring(v, k)
        BY <1>3
      <4> QED
        BY <3>1, <4>1, <4>2 DEF Routed
    <3>3. CASE Ring(v, k) \notin Pipes
      <4>1. Ring(v, k) = NoPipe
        BY <1>3, <3>1, <3>3 DEF Pipes
      <4> QED
        BY <3>1, <4>1 DEF NoPipe, Pipes
    <3> QED
      BY <3>2, <3>3
  <2>2. ASSUME NEW v \in User, NEW k \in Slots
        PROVE  ~(Ring(v, k)' = DevNull \/ (Ring(v, k)' \in Pipes' /\ Routed(Ring(v, k))'))
    BY <1>3, <2>1
  <2> QED
    BY <1>0, <1>3, <2>2 DEF RingInv, Online
<1>6. ASSUME NEW q \in Pipes, NEW v \in User, Routed(q), route[q][2] = holder[v], q # npipe + 1,
             ~(Boxed(q)) \/ (v = u /\ s \in User /\ Received(u, s) /\ q = Mail(s, u))
      PROVE  ~(\E a, b \in User : Mail(a, b)' = q)
  <2> SUFFICES ASSUME NEW a \in User, NEW b \in User, Mail(a, b)' = q
               PROVE  FALSE
    OBVIOUS
  <2>1. Mail(a, b)' # NoPipe
    BY <1>6 DEF Pipes, NoPipe
  <2>2. ~(sends /\ a = u /\ b = r)
    BY <1>1, <1>6 DEF ReadEffect
  <2>3. Mail(a, b) = q /\ ~(Received(u, s) /\ a = s /\ b = u)
    BY <1>1, <2>1, <2>2 DEF ReadEffect
  <2>4. v = u /\ s \in User /\ Received(u, s) /\ Mail(s, u) = q /\ q # NoPipe
    BY <1>6, <2>1, <2>3 DEF Boxed
  <2>5. /\ Online(a) /\ Online(b) /\ Online(s)
        /\ <<holder[a], holder[b]>> = <<holder[s], holder[u]>>
    BY <1>0, <2>3, <2>4 DEF BoxInv
  <2>6. holder[a] = holder[s] /\ holder[b] = holder[u]
    BY <2>5
  <2>7. a = s /\ b = u
    BY <1>0, <2>4, <2>5, <2>6 DEF SessionInv, Online
  <2> QED
    BY <2>3, <2>4, <2>7
<1>7. ASSUME NEW v \in User
      PROVE  /\ Last(v)' # NoPipe => Online(v)
             /\ Last(v)' \in Pipes' => /\ Last(v)' \in Pipes /\ Routed(Last(v)')
                                       /\ route[Last(v)'][2] = holder[v]
                                       /\ ~(\E a, b \in User : Mail(a, b)' = Last(v)')
  <2>1. Last(v) \in 1 .. npipe \cup {NoPipe, DevNull}
    BY <1>0, PlaceTypes
  <2>2. CASE Last(v)' = Last(v)
    <3>1. /\ Last(v) # NoPipe => Online(v)
          /\ Last(v) \in Pipes => Routed(Last(v)) /\ route[Last(v)][2] = holder[v] /\ ~Boxed(Last(v))
      BY <1>0 DEF LastInv, Retry
    <3>2. Last(v) \in Pipes' => Last(v) \in Pipes /\ Last(v) # npipe + 1
      BY <1>0, <2>1 DEF Pipes, NoPipe, DevNull
    <3> QED
      BY <1>6, <2>2, <3>1, <3>2
  <2>3. CASE Last(v)' # Last(v)
    <3>1. /\ v = u
          /\ Last(v)' = IF s = NoUser THEN Last(u) ELSE IF Received(u, s) THEN Mail(s, u) ELSE DevNull
      BY <1>1, <2>3 DEF ReadEffect
    <3>2. CASE s = NoUser \/ ~Received(u, s)
      BY <1>0, <2>3, <3>1, <3>2 DEF Pipes, DevNull
    <3>3. CASE s # NoUser /\ Received(u, s)
      <4>1. s \in User /\ Last(v)' = Mail(s, u) /\ Mail(s, u) # NoPipe
        BY <3>1, <3>3 DEF Received
      <4>2. Mail(s, u) \in Pipes /\ Mail(s, u) # npipe + 1
        BY <1>0, <4>1, PlaceTypes DEF Pipes, NoPipe
      <4>3. route[Mail(s, u)] = <<holder[s], holder[u]>> /\ Online(s)
        BY <1>0, <4>1 DEF BoxInv
      <4>4. Routed(Mail(s, u)) /\ route[Mail(s, u)][2] = holder[u]
        <5>1. holder[s] # NoUser
          BY <4>3 DEF Online
        <5> QED
          BY <4>3, <5>1 DEF Routed
      <4> QED
        BY <1>0, <1>6, <3>1, <3>3, <4>1, <4>2, <4>4
    <3> QED
      BY <3>2, <3>3
  <2> QED
    BY <2>2, <2>3
<1>8. LastInv'
  <2>1. \A q \in Pipes : Routed(q) => route'[q] = route[q] /\ route'[q] # <<NoUser, NoUser>>
    BY <1>2 DEF Routed
  <2>2. ASSUME NEW v \in User
        PROVE  /\ Last(v)' # NoPipe => Online(v)'
               /\ Last(v)' \in Pipes' => /\ Routed(Last(v))' /\ route'[Last(v)'][2] = holder'[v]
                                         /\ ~(Boxed(Last(v)))'
    <3>1. Last(v)' # NoPipe => Online(v)'
      BY <1>0, <1>7 DEF Online
    <3>2. CASE Last(v)' \in Pipes'
      <4>1. /\ Last(v)' \in Pipes /\ Routed(Last(v)') /\ route[Last(v)'][2] = holder[v]
            /\ ~(\E a, b \in User : Mail(a, b)' = Last(v)')
        BY <1>7, <3>2
      <4>2. route'[Last(v)'] = route[Last(v)'] /\ route'[Last(v)'] # <<NoUser, NoUser>>
        BY <2>1, <4>1
      <4> QED
        BY <1>0, <3>1, <4>1, <4>2 DEF Routed, Boxed
    <3> QED
      BY <3>1, <3>2
  <2> QED
    BY <2>2 DEF LastInv
<1> QED
  BY <1>5, <1>8

\* While a command is started only the current slot may hold what is not a pipe of
\* the ring, and then a fork is to be tried again.
LEMMA ExecPlaces ==
  ASSUME PlaceInv, pc = "exec", task.kind = "run"
  PROVE  /\ who \in User /\ Online(who) /\ me.current_pos \in Slots
         /\ \A u \in User, k \in Slots : Retry(u, k) <=> u = who /\ k = me.current_pos
         /\ \A u \in User, k \in Slots : u # who \/ k # me.current_pos =>
              Ring(u, k) \in Pipes \cup {NoPipe} /\ (Ring(u, k) # NoPipe => ~Routed(Ring(u, k)))
         /\ \A u \in User : u # who /\ Last(u) \in Pipes =>
              Routed(Last(u)) /\ route[Last(u)][2] = holder[u] /\ ~Boxed(Last(u))
<1>0. TypeOK /\ LineInv /\ RingInv /\ LastInv
  BY DEF PlaceInv
<1>1. who \in User /\ Online(who) /\ me.current_pos \in Slots
  BY <1>0, SlotRange DEF LineInv, Online
<1>2. \A u \in User, k \in Slots : Retry(u, k) <=> u = who /\ k = me.current_pos
  BY DEF Retry, me, task
<1>3. ASSUME NEW u \in User, NEW k \in Slots, u # who \/ k # me.current_pos
      PROVE  Ring(u, k) \in Pipes \cup {NoPipe} /\ (Ring(u, k) # NoPipe => ~Routed(Ring(u, k)))
  <2>1. Ring(u, k) \in Pipes \cup {NoPipe, DevNull}
    BY <1>0, PlaceTypes DEF Pipes
  <2>2. ~Retry(u, k)
    BY <1>2, <1>3
  <2> QED
    BY <1>0, <2>1, <2>2 DEF RingInv
<1>4. \A u \in User : u # who /\ Last(u) \in Pipes =>
              Routed(Last(u)) /\ route[Last(u)][2] = holder[u] /\ ~Boxed(Last(u))
  BY <1>0, <1>2 DEF LastInv
<1> QED
  BY <1>1, <1>2, <1>3, <1>4

\* What the other users have, and the other slots of who, when a command of his was
\* started or not: their pipes are still pipes of rings, all different.
LEMMA OtherPlaces ==
  ASSUME PlaceInv, pc = "exec", task.kind = "run",
         OthersKeep, KernelGrows, NewRing(env'[who].pipes), holder' = holder, who' = who
  PROVE  /\ \A u \in User, k \in Slots : u # who \/ k # me.current_pos =>
              /\ Ring(u, k)' # NoPipe => Online(u)
              /\ Ring(u, k)' \in Pipes' \cup {NoPipe}
              /\ Ring(u, k)' # NoPipe => route'[Ring(u, k)'] = <<NoUser, NoUser>>
         /\ \A u, v \in User, j, k \in Slots :
              (u # who \/ j # me.current_pos) /\ (v # who \/ k # me.current_pos)
              /\ Ring(u, j)' = Ring(v, k)' /\ Ring(u, j)' # NoPipe => u = v /\ j = k
         /\ \A u \in User : u # who =>
              /\ Last(u)' # NoPipe => Online(u)
              /\ Last(u)' \in Pipes' => /\ (Routed(Last(u)))' /\ route'[Last(u)'][2] = holder[u]
                                        /\ ~(Boxed(Last(u)))'
<1> DEFINE cur == me.current_pos
           Old(u, k) == Ring(u, k)' = Ring(u, k)
<1>0. /\ TypeOK /\ RingInv /\ LastInv /\ npipe \in Nat /\ npipe' \in Nat /\ npipe' > npipe
  BY DEF PlaceInv, TypeOK, KernelGrows
<1>1. /\ who \in User /\ Online(who) /\ cur \in Slots
      /\ \A u \in User, k \in Slots : u # who \/ k # cur =>
           Ring(u, k) \in Pipes \cup {NoPipe} /\ (Ring(u, k) # NoPipe => ~Routed(Ring(u, k)))
      /\ \A u \in User : u # who /\ Last(u) \in Pipes =>
           Routed(Last(u)) /\ route[Last(u)][2] = holder[u] /\ ~Boxed(Last(u))
  BY ExecPlaces
<1>2. /\ \A q \in Pipes : q \in Pipes' /\ route'[q] = route[q]
      /\ \A q \in npipe + 2 .. npipe' : q \in Pipes' /\ q \notin Pipes /\ route'[q] = <<NoUser, NoUser>>
  BY <1>0 DEF KernelGrows, Pipes
<1>3. \A u \in User, k \in Slots : u # who \/ k # cur =>
        Old(u, k) \/ (u = who /\ Ring(u, k)' \in npipe + 2 .. npipe')
  BY <1>1 DEF OthersKeep, NewRing, Ring
<1> HIDE DEF cur
<1>4. ASSUME NEW u \in User, NEW k \in Slots, u # who \/ k # cur
      PROVE  /\ Ring(u, k)' # NoPipe => Online(u)
             /\ Ring(u, k)' \in Pipes' \cup {NoPipe}
             /\ Ring(u, k)' # NoPipe => route'[Ring(u, k)'] = <<NoUser, NoUser>>
  <2>1. CASE Old(u, k)
    BY <1>0, <1>1, <1>2, <1>4, <2>1 DEF RingInv, Routed
  <2>2. CASE u = who /\ Ring(u, k)' \in npipe + 2 .. npipe'
    BY <1>1, <1>2, <2>2
  <2> QED
    BY <1>3, <1>4, <2>1, <2>2
<1>5. ASSUME NEW u \in User, NEW v \in User, NEW j \in Slots, NEW k \in Slots,
             u # who \/ j # cur, v # who \/ k # cur, Ring(u, j)' = Ring(v, k)', Ring(u, j)' # NoPipe
      PROVE  u = v /\ j = k
  <2>1. CASE Old(u, j) /\ Old(v, k)
    BY <1>0, <1>5, <2>1, ZenonT(40) DEF RingInv
  <2>2. CASE ~(Old(u, j) /\ Old(v, k))
    <3>1. Ring(u, j)' \in npipe + 2 .. npipe'
      BY <1>3, <1>5, <2>2
    <3>2. ~Old(u, j) /\ ~Old(v, k)
      <4>1. Ring(u, j) \in Pipes \cup {NoPipe} /\ Ring(v, k) \in Pipes \cup {NoPipe}
        BY <1>1, <1>5
      <4> QED
        BY <1>2, <1>5, <3>1, <4>1
    <3>3. u = who /\ v = who
      BY <1>3, <1>5, <3>2
    <3>4. env'[who].pipes[j] = env'[who].pipes[k] /\ env'[who].pipes[j] > npipe
      BY <1>0, <1>5, <3>1, <3>3 DEF Ring
    <3> QED
      BY <3>3, <3>4 DEF NewRing
  <2> QED
    BY <2>1, <2>2
<1>6. ASSUME NEW u \in User, u # who
      PROVE  /\ Last(u)' # NoPipe => Online(u)
             /\ Last(u)' \in Pipes' => /\ (Routed(Last(u)))' /\ route'[Last(u)'][2] = holder[u]
                                       /\ ~(Boxed(Last(u)))'
  <2>1. Last(u)' = Last(u)
    BY <1>6 DEF OthersKeep, Last
  <2>2. Last(u) \in Pipes' => Last(u) \in Pipes
    BY <1>0, PlaceTypes DEF Pipes, NoPipe, DevNull
  <2>3. Last(u) # NoPipe => Online(u)
    BY <1>0 DEF LastInv
  <2>4. Boxed(Last(u))' => Boxed(Last(u))
    BY <2>1 DEF Boxed, Mail, OthersKeep
  <2>5. CASE Last(u) \in Pipes
    <3>1. Routed(Last(u)) /\ route[Last(u)][2] = holder[u] /\ ~Boxed(Last(u))
      BY <1>1, <1>6, <2>5
    <3>2. route'[Last(u)] = route[Last(u)]
      BY <1>2, <2>5
    <3>3. (Routed(Last(u)))'
      BY <2>1, <3>1, <3>2 DEF Routed
    <3>4. ~(Boxed(Last(u)))'
      BY <2>4, <3>1
    <3> QED
      BY <2>1, <2>3, <3>1, <3>2, <3>3, <3>4
  <2>6. CASE Last(u) \notin Pipes
    BY <2>1, <2>2, <2>3, <2>6
  <2> QED
    BY <2>5, <2>6
<1> QED
  BY <1>4, <1>5, <1>6 DEF cur

\* A command was started: its input is no longer in any place.
LEMMA PlacesFork ==
  ASSUME PlaceInv, ExecFork
  PROVE  RingInv' /\ LastInv'
<1> DEFINE cur == me.current_pos
<1>0. /\ pc = "exec" /\ task.kind = "run" /\ holder' = holder /\ who' = who
      /\ OthersKeep /\ KernelGrows /\ NewRing(env'[who].pipes) /\ npipe \in Nat /\ TypeOK
  BY ForkFrame DEF ExecFork, users, PlaceInv, TypeOK
<1>1. who \in User /\ Online(who) /\ cur \in Slots
  BY <1>0, ExecPlaces
<1>2. /\ env'[who].last_pipe = NoPipe
      /\ env'[who].pipes[cur] \in {NoPipe, npipe + 1}
      /\ route'[npipe + 1] = <<NoUser, NoUser>> /\ npipe + 1 \in Pipes' /\ npipe + 1 # DevNull
  BY <1>0, ForkFrame DEF KernelGrows, Pipes, DevNull
<1> HIDE DEF cur
<1>3. /\ \A u \in User, k \in Slots : u # who \/ k # cur =>
              /\ Ring(u, k)' # NoPipe => Online(u)
              /\ Ring(u, k)' \in Pipes' \cup {NoPipe}
              /\ Ring(u, k)' # NoPipe => route'[Ring(u, k)'] = <<NoUser, NoUser>>
      /\ \A u, v \in User, j, k \in Slots :
              (u # who \/ j # cur) /\ (v # who \/ k # cur)
              /\ Ring(u, j)' = Ring(v, k)' /\ Ring(u, j)' # NoPipe => u = v /\ j = k
      /\ \A u \in User : u # who =>
              /\ Last(u)' # NoPipe => Online(u)
              /\ Last(u)' \in Pipes' => /\ (Routed(Last(u)))' /\ route'[Last(u)'][2] = holder[u]
                                        /\ ~(Boxed(Last(u)))'
  BY <1>0, OtherPlaces DEF cur
<1>4. NoPipe \notin Pipes' /\ DevNull \notin Pipes' /\ NoPipe # DevNull
  BY DEF Pipes, NoPipe, DevNull
<1>5. ASSUME NEW u \in User, NEW k \in Slots
      PROVE  /\ Ring(u, k)' # NoPipe => Online(u)
             /\ Ring(u, k)' # DevNull
             /\ Ring(u, k)' \in Pipes' => route'[Ring(u, k)'] = <<NoUser, NoUser>>
  <2>1. CASE u # who \/ k # cur
    BY <1>3, <1>4, <2>1
  <2>2. CASE u = who /\ k = cur
    <3>1. Ring(u, k)' \in {NoPipe, npipe + 1}
      BY <1>2, <2>2 DEF Ring
    <3> QED
      BY <1>1, <1>2, <1>4, <2>2, <3>1
  <2> QED
    BY <2>1, <2>2
<1>6. \A u \in User, k \in Slots : u # who \/ k # cur => Ring(u, k)' # npipe + 1
  <2>1. ASSUME NEW u \in User, NEW k \in Slots, u # who
        PROVE  Ring(u, k)' # npipe + 1
    <3>1. Ring(u, k)' = Ring(u, k) /\ Ring(u, k) \in 1 .. npipe \cup {NoPipe, DevNull}
      BY <1>0, <2>1, PlaceTypes DEF OthersKeep, Ring
    <3> QED
      BY <1>0, <3>1 DEF NoPipe, DevNull
  <2>2. ASSUME NEW k \in Slots, k # cur
        PROVE  env'[who].pipes[k] # npipe + 1
    <3>1. env'[who].pipes[k] = Ring(who, k) \/ env'[who].pipes[k] \in npipe + 2 .. npipe'
      BY <1>0, <2>2 DEF NewRing, cur
    <3>2. Ring(who, k) \in 1 .. npipe \cup {NoPipe, DevNull} /\ npipe' \in Nat
      BY <1>0, <1>1, PlaceTypes DEF KernelGrows
    <3> QED
      BY <1>0, <3>1, <3>2 DEF NoPipe, DevNull
  <2> QED
    BY <2>1, <2>2 DEF Ring
<1>7. ASSUME NEW u \in User, NEW v \in User, NEW j \in Slots, NEW k \in Slots,
             Ring(u, j)' = Ring(v, k)', Ring(u, j)' # NoPipe
      PROVE  u = v /\ j = k
  <2>1. CASE (u # who \/ j # cur) /\ (v # who \/ k # cur)
    BY <1>3, <1>7, <2>1
  <2>2. CASE u = who /\ j = cur
    <3>1. Ring(v, k)' = npipe + 1
      BY <1>2, <1>7, <2>2 DEF Ring
    <3> QED
      BY <1>6, <2>2, <3>1
  <2>3. CASE v = who /\ k = cur
    <3>1. Ring(u, j)' = npipe + 1
      BY <1>2, <1>7, <2>3 DEF Ring
    <3> QED
      BY <1>6, <2>3, <3>1
  <2> QED
    BY <2>1, <2>2, <2>3
<1>8. RingInv'
  BY <1>0, <1>5, <1>7 DEF RingInv, Online, Routed
<1>9. ASSUME NEW u \in User
      PROVE  /\ Last(u)' # NoPipe => Online(u)
             /\ Last(u)' \in Pipes' => /\ (Routed(Last(u)))' /\ route'[Last(u)'][2] = holder[u]
                                       /\ ~(Boxed(Last(u)))'
  <2>1. CASE u # who
    BY <1>3, <2>1
  <2>2. CASE u = who
    <3>1. Last(u)' = NoPipe
      BY <1>2, <2>2 DEF Last
    <3> QED
      BY <1>4, <3>1
  <2> QED
    BY <2>1, <2>2
<1>10. LastInv'
  BY <1>0, <1>9 DEF LastInv, Online
<1> QED
  BY <1>8, <1>10

\* A fork failed: what the command should have read is back in the slot, and aside.
LEMMA PlacesError ==
  ASSUME PlaceInv, ExecForkError
  PROVE  RingInv' /\ LastInv'
<1> DEFINE cur == me.current_pos
           t == taken
<1>0. /\ pc = "exec" /\ task.kind = "run" /\ holder' = holder /\ who' = who
      /\ pc' = pc /\ line' = line /\ idx' = idx
      /\ OthersKeep /\ KernelGrows /\ NewRing(env'[who].pipes)
      /\ TypeOK /\ RingInv /\ LastInv /\ npipe \in Nat
  BY ErrorFrame DEF ExecForkError, users, server, PlaceInv, TypeOK
<1>1. /\ who \in User /\ Online(who) /\ cur \in Slots
      /\ \A u \in User, k \in Slots : Retry(u, k) <=> u = who /\ k = cur
      /\ \A u \in User, k \in Slots : u # who \/ k # cur =>
           Ring(u, k) \in Pipes \cup {NoPipe} /\ (Ring(u, k) # NoPipe => ~Routed(Ring(u, k)))
  BY <1>0, ExecPlaces
<1>2. env'[who].last_pipe = t /\ env'[who].pipes[cur] = t
  BY ErrorFrame
<1>3. \A u \in User, k \in Slots : u = who /\ k = cur => (Retry(u, k))' /\ Ring(u, k)' = t /\ Last(u)' = t
  BY <1>0, <1>1, <1>2 DEF Retry, Ring, Last, me, task, OthersKeep
<1>4. t = IF Ring(who, cur) # NoPipe THEN Ring(who, cur) ELSE Last(who)
  BY <1>0, <1>1, SlotRange DEF taken, Ring, Last, me
<1>5. t \in Pipes \cup {NoPipe, DevNull} /\ Last(who) \in Pipes \cup {NoPipe, DevNull}
  BY <1>0, <1>1, <1>4, PlaceTypes DEF Pipes
<1>6. t \in Pipes /\ Routed(t) => t = Last(who)
  BY <1>0, <1>1, <1>4 DEF RingInv
<1>7. Ring(who, cur) = NoPipe /\ Last(who) \in Pipes => Routed(Last(who))
  BY <1>0, <1>1 DEF LastInv, Pipes, NoPipe
<1> HIDE DEF t, cur
<1>8. /\ \A u \in User, k \in Slots : u # who \/ k # cur =>
              /\ Ring(u, k)' # NoPipe => Online(u)
              /\ Ring(u, k)' \in Pipes' \cup {NoPipe}
              /\ Ring(u, k)' # NoPipe => route'[Ring(u, k)'] = <<NoUser, NoUser>>
      /\ \A u, v \in User, j, k \in Slots :
              (u # who \/ j # cur) /\ (v # who \/ k # cur)
              /\ Ring(u, j)' = Ring(v, k)' /\ Ring(u, j)' # NoPipe => u = v /\ j = k
      /\ \A u \in User : u # who =>
              /\ Last(u)' # NoPipe => Online(u)
              /\ Last(u)' \in Pipes' => /\ (Routed(Last(u)))' /\ route'[Last(u)'][2] = holder[u]
                                        /\ ~(Boxed(Last(u)))'
  BY <1>0, OtherPlaces DEF cur
<1>9. /\ NoPipe \notin Pipes' /\ DevNull \notin Pipes' /\ NoPipe # DevNull
      /\ NoPipe \notin Pipes /\ DevNull \notin Pipes
      /\ \A q \in Pipes : q \in Pipes' /\ route'[q] = route[q]
      /\ \A q \in npipe + 2 .. npipe' : q \notin Pipes
  BY <1>0 DEF Pipes, NoPipe, DevNull, KernelGrows
<1>10. t # NoPipe => \A u \in User, k \in Slots : u # who \/ k # cur => Ring(u, k)' # t
  <2> SUFFICES ASSUME t # NoPipe, NEW u \in User, NEW k \in Slots, u # who \/ k # cur, Ring(u, k)' = t
               PROVE  FALSE
    OBVIOUS
  <2>1. t \in Pipes
    BY <1>5, <1>8, <1>9
  <2>2. Ring(u, k)' = Ring(u, k)
    <3>1. CASE u # who
      BY <1>0, <3>1 DEF OthersKeep, Ring
    <3>2. CASE u = who
      <4>1. Ring(u, k)' = Ring(u, k) \/ Ring(u, k)' \in npipe + 2 .. npipe'
        BY <1>0, <3>2 DEF NewRing, Ring, cur
      <4> QED
        BY <1>9, <2>1, <4>1
    <3> QED
      BY <3>1, <3>2
  <2>3. Ring(who, cur) = NoPipe /\ t = Last(who)
    BY <1>0, <1>1, <1>4, <2>2 DEF RingInv
  <2>4. Routed(t) /\ Ring(u, k) = t
    BY <1>7, <2>1, <2>2, <2>3
  <2> QED
    BY <1>1, <2>4
<1>11. ASSUME NEW u \in User, NEW v \in User, NEW j \in Slots, NEW k \in Slots,
             Ring(u, j)' = Ring(v, k)', Ring(u, j)' # NoPipe
       PROVE  u = v /\ j = k
  <2>1. CASE (u # who \/ j # cur) /\ (v # who \/ k # cur)
    BY <1>8, <1>11, <2>1
  <2>2. CASE u = who /\ j = cur
    <3>1. Ring(u, j)' = t
      BY <1>2, <2>2 DEF Ring
    <3> QED
      BY <1>10, <1>11, <2>2, <3>1
  <2>3. CASE v = who /\ k = cur
    <3>1. Ring(v, k)' = t
      BY <1>2, <2>3 DEF Ring
    <3> QED
      BY <1>10, <1>11, <2>3, <3>1
  <2> QED
    BY <2>1, <2>2, <2>3
<1>12. ASSUME NEW u \in User, NEW k \in Slots
       PROVE  /\ Ring(u, k)' # NoPipe => Online(u)
              /\ Ring(u, k)' = DevNull \/ (Ring(u, k)' \in Pipes' /\ (Routed(Ring(u, k)))') =>
                   (Retry(u, k))' /\ Last(u)' = Ring(u, k)'
  <2>1. CASE u # who \/ k # cur
    BY <1>8, <1>9, <2>1 DEF Routed
  <2>2. CASE u = who /\ k = cur
    BY <1>1, <1>3, <2>2
  <2> QED
    BY <2>1, <2>2
<1>13. RingInv'
  BY <1>0, <1>11, <1>12 DEF RingInv, Online
<1>14. ASSUME NEW u \in User
       PROVE  /\ Last(u)' # NoPipe => Online(u)
              /\ Last(u)' \in Pipes' =>
                   IF (Routed(Last(u)))' THEN route'[Last(u)'][2] = holder[u] /\ ~(Boxed(Last(u)))'
                                         ELSE \E k \in Slots : (Retry(u, k))' /\ Last(u)' = Ring(u, k)'
  <2>1. CASE u # who
    BY <1>8, <2>1
  <2>2. CASE u = who
    <3>1. Last(u)' = t
      BY <1>2, <2>2 DEF Last
    <3>2. CASE t \in Pipes /\ Routed(t)
      <4>1. t = Last(who) /\ route[t][2] = holder[who] /\ ~Boxed(t)
        BY <1>0, <1>6, <3>2, <1>1 DEF LastInv
      <4>2. route'[t] = route[t]
        BY <1>9, <3>2
      <4>3. ~(\E a, b \in User : Mail(a, b)' = t)
        BY <1>0, <4>1 DEF Boxed, Mail, OthersKeep
      <4> QED
        BY <1>1, <2>2, <3>1, <3>2, <4>1, <4>2, <4>3 DEF Boxed, Routed
    <3>3. CASE t \in Pipes /\ ~Routed(t)
      <4>1. route'[t] = <<NoUser, NoUser>>
        BY <1>9, <3>3 DEF Routed
      <4>2. ~(Routed(Last(u)))'
        BY <3>1, <4>1 DEF Routed
      <4>3. \E k \in Slots : (Retry(u, k))' /\ Last(u)' = Ring(u, k)'
        BY <1>1, <1>3, <2>2
      <4> QED
        BY <1>1, <2>2, <4>2, <4>3
    <3>4. CASE t \notin Pipes
      BY <1>1, <1>5, <1>9, <2>2, <3>1, <3>4
    <3> QED
      BY <3>2, <3>3, <3>4
  <2> QED
    BY <2>1, <2>2
<1>15. LastInv'
  BY <1>0, <1>14 DEF LastInv, Online
<1> QED
  BY <1>13, <1>15

\* Every step leaves each pipe in a place of its own.
LEMMA PlacesStep == PlaceInv /\ [Next]_vars => RingInv' /\ LastInv'
<1> SUFFICES ASSUME PlaceInv, [Next]_vars
             PROVE  RingInv' /\ LastInv'
  OBVIOUS
<1>0. TypeOK /\ SessionInv /\ LineInv /\ BoxInv /\ RingInv /\ LastInv
  BY DEF PlaceInv
<1>1. ASSUME NEW u \in User, Login(u)
      PROVE  RingInv' /\ LastInv'
  <2>1. pc = "idle" /\ UNCHANGED <<npipe, route>> /\ \A v \in User : v # u => holder'[v] = holder[v]
    BY <1>0, <1>1 DEF Login, kernel, TypeOK
  <2>2. env'[u] = NewEnv /\ \A v \in User : v # u => env'[v] = env[v]
    BY <1>1, LoginFrame
  <2>3. \A v \in User : /\ Last(v)' # NoPipe => env'[v].last_pipe = Last(v) /\ holder'[v] = holder[v]
                        /\ \A k \in Slots : Ring(v, k)' # NoPipe => env'[v].pipes[k] = Ring(v, k) /\ holder'[v] = holder[v]
    BY <2>1, <2>2, NewEnvType, 0 \in Nat DEF Ring, Last
  <2>4. \A s, r \in User : Mail(s, r)' # NoPipe => Mail(s, r)' = Mail(s, r)
    BY <2>2, NewEnvType, 0 \in Nat DEF Mail
  <2> QED
    BY <2>1, <2>3, <2>4, PlacesDrop DEF Retry
<1>2. ASSUME NEW u \in User, ClearGarbage(u)
      PROVE  RingInv' /\ LastInv'
  <2>1. pc = "idle" /\ UNCHANGED <<npipe, route>> /\ \A v \in User : v # u => holder'[v] = holder[v]
    BY <1>0, <1>2 DEF ClearGarbage, TypeOK
  <2>2. /\ env'[u] = NewEnv
        /\ \A v \in User : v # u =>
             /\ env'[v].pipes = env[v].pipes /\ env'[v].last_pipe = env[v].last_pipe
             /\ \A s \in User : env'[v].user_pipes[s] = IF s = u THEN NoPipe ELSE env[v].user_pipes[s]
    BY <1>2, ClearFrame
  <2>3. \A v \in User : /\ Last(v)' # NoPipe => env'[v].last_pipe = Last(v) /\ holder'[v] = holder[v]
                        /\ \A k \in Slots : Ring(v, k)' # NoPipe => env'[v].pipes[k] = Ring(v, k) /\ holder'[v] = holder[v]
    BY <2>1, <2>2, NewEnvType, 0 \in Nat DEF Ring, Last
  <2>4. \A s, r \in User : Mail(s, r)' # NoPipe => Mail(s, r)' = Mail(s, r)
    BY <2>2, NewEnvType, 0 \in Nat DEF Mail
  <2> QED
    BY <2>1, <2>3, <2>4, PlacesDrop DEF Retry
<1>3. CASE Forward \/ WaitUser
  <2>1. KeepsPipes /\ pc # "exec" /\ UNCHANGED <<npipe, route, holder>>
    BY <1>3, ForwardFrame, WaitFrame DEF Forward, WaitUser, kernel, users
  <2> QED
    BY <2>1, PlacesDrop DEF Retry, KeepsPipes, Ring, Last, Mail
<1>4. CASE EndLine
  <2>1. /\ pc # "exec" /\ UNCHANGED <<npipe, route, holder>> /\ who \in User
        /\ \A u \in User : u # who => env'[u] = env[u]
        /\ env'[who].pipes = [me.pipes EXCEPT ![me.current_pos] = NoPipe]
        /\ env'[who].last_pipe = me.last_pipe
        /\ \A u \in User : env'[u].user_pipes = env[u].user_pipes
    BY <1>0, <1>4, EndFrame DEF EndLine, users, LineInv, Online
  <2>2. me.pipes \in [Slots -> 1 .. npipe \cup {NoPipe, DevNull}]
    BY <1>0, <2>1 DEF TypeOK, EnvRec, me
  <2>3. \A u \in User, k \in Slots : Ring(u, k)' # NoPipe => env'[u].pipes[k] = Ring(u, k)
    BY <2>1, <2>2 DEF Ring, me
  <2> QED
    BY <2>1, <2>3, PlacesDrop DEF Retry, Last, Mail, me
<1>5. CASE ExecBuiltin
  <2>1. /\ \A u \in User, k \in Slots : ~Retry(u, k)
        /\ UNCHANGED <<npipe, route, holder, env>>
    BY <1>5 DEF ExecBuiltin, kernel, Retry, task
  <2> QED
    BY <2>1, PlacesDrop DEF Ring, Last, Mail
<1>6. CASE UNCHANGED <<holder, env, npipe, route, pc, who, line, idx>>
  BY <1>0, <1>6 DEF RingInv, LastInv, Ring, Last, Retry, Online, Pipes, Routed, Boxed, Mail
<1>7. ASSUME NEW p \in Proc, ProcStep(p) \/ SocketEnd(p)
      PROVE  RingInv' /\ LastInv'
  BY <1>0, <1>6, <1>7, CommandFrame DEF CommandsOnly, users, server
<1>8. CASE UNCHANGED vars
  BY <1>6, <1>8 DEF vars, users, server, kernel
<1> QED
  BY <1>1, <1>2, <1>3, <1>4, <1>5, <1>7, <1>8, PlacesRead, PlacesFork, PlacesError DEF Next, ServerStep

\* Who holds which pipe: mailboxes, rings and last_pipe never share one, each is of
\* users who are there, and a user pipe is where the two sessions it was made for
\* are (execute, Task::exec, clear_env, clear_garbage_shells).
THEOREM PlacesInvariant == Spec => []PlaceInv
<1>1. PlaceInv /\ [Next]_vars => PlaceInv'
  BY TypeStep, SessionStep, LineStep, BoxStep, PlacesStep DEF PlaceInv
<1> QED
  BY <1>1, PlaceInit, PTL DEF Spec

-----------------------------------------------------------------------------
(* User pipes connect the two sessions they were made for.                 *)

\* The commands at the two ends of a user pipe are of its two sessions, and nobody
\* has read from it while it is in a mailbox.
EndsInv ==
  \A p \in Proc, q \in Pipes : Routed(q) =>
    /\ proc[p].in = q => proc[p].by = route[q][2] /\ ~Boxed(q)
    /\ proc[p].out = q => proc[p].by = route[q][1]

\* What a command is started with: its input was sent to its session, its output is
\* sent by it.
LEMMA ChildEnds ==
  ASSUME PlaceInv, pc = "exec", task.kind = "run"
  PROVE  /\ taken \in Pipes /\ Routed(taken) => route[taken][2] = holder[who] /\ ~Boxed(taken)
         /\ Stdout \in Pipes /\ Routed(Stdout) => route[Stdout][1] = holder[who]
<1> DEFINE cur == me.current_pos
<1>0. /\ TypeOK /\ BoxInv /\ RingInv /\ LastInv /\ npipe \in Nat
      /\ who \in User /\ cur \in Slots
      /\ \A k \in Slots : k # cur =>
           Ring(who, k) \in Pipes \cup {NoPipe} /\ (Ring(who, k) # NoPipe => ~Routed(Ring(who, k)))
  BY ExecPlaces DEF PlaceInv, TypeOK
<1>1. /\ made \in Nat /\ task \in Task
      /\ ring[cur] = npipe + 1
      /\ \A k \in Slots : k # cur => ring[k] = Ring(who, k) \/ ring[k] \in npipe + 2 .. made
  BY ExecRing
<1>2. taken = IF Ring(who, cur) # NoPipe THEN Ring(who, cur) ELSE Last(who)
  BY <1>0, SlotRange DEF taken, Ring, Last, me
<1> HIDE DEF cur
<1>3. ASSUME taken \in Pipes, Routed(taken)
      PROVE  route[taken][2] = holder[who] /\ ~Boxed(taken)
  <2>1. taken = Last(who)
    BY <1>0, <1>2, <1>3 DEF RingInv
  <2> QED
    BY <1>0, <1>3, <2>1 DEF LastInv
<1>4. ASSUME Stdout \in Pipes, Routed(Stdout)
      PROVE  route[Stdout][1] = holder[who]
  <2>1. CASE task.to = NoUser
    <3>1. Stdout = Target(task.out) /\ task.out \in Nat \cup {NotPipe}
      BY <1>1, <2>1 DEF Stdout, Task
    <3>2. CASE task.out = NotPipe
      BY <1>4, <3>1, <3>2 DEF Target, Pipes, NoPipe
    <3>3. CASE task.out \in Nat
      <4>1. Stdout = ring[Slot(task.out)] /\ Slot(task.out) \in Slots
        BY <1>0, <3>1, <3>3, SlotRange DEF Target, NotPipe
      <4>2. Slot(task.out) # cur /\ Stdout = Ring(who, Slot(task.out))
        BY <1>0, <1>1, <1>4, <4>1 DEF Pipes
      <4> QED
        BY <1>0, <1>4, <4>1, <4>2 DEF Pipes, NoPipe
    <3> QED
      BY <3>1, <3>2, <3>3
  <2>2. CASE task.to # NoUser
    <3>1. Stdout = Mail(who, task.to) /\ task.to \in User
      BY <1>1, <1>4, <2>2 DEF Stdout, Mail, Task, Pipes, NoPipe
    <3> QED
      BY <1>0, <1>4, <3>1 DEF BoxInv, Pipes, NoPipe
  <2> QED
    BY <2>1, <2>2
<1> QED
  BY <1>3, <1>4

\* A pipe gets into a mailbox only when it is made.
LEMMA BoxesFill ==
  ASSUME PlaceInv, [Next]_vars, NEW q \in Pipes, Boxed(q)'
  PROVE  Boxed(q)
<1>0. TypeOK /\ npipe \in Nat /\ q # NoPipe
  BY DEF PlaceInv, TypeOK, Pipes, NoPipe
<1> SUFFICES ASSUME NEW s \in User, NEW r \in User, env'[r].user_pipes[s] = q
             PROVE  Mail(s, r) = q
  BY DEF Boxed, Mail
<1>1. ASSUME NEW u \in User, Login(u)
      PROVE  Mail(s, r) = q
  BY <1>0, <1>1, LoginFrame, NewEnvType DEF Mail
<1>2. ASSUME NEW u \in User, ClearGarbage(u)
      PROVE  Mail(s, r) = q
  BY <1>0, <1>2, ClearFrame, NewEnvType DEF Mail
<1>3. ASSUME NEW u \in User, ReadLine(u)
      PROVE  Mail(s, r) = q
  <2>1. PICK f \in User \cup {NoUser}, t \in User \cup {NoUser}, sends \in BOOLEAN : ReadEffect(u, f, t, sends)
    BY <1>0, <1>3, ReadFrame
  <2>2. Mail(s, r)' = q /\ q # npipe + 1
    BY <1>0 DEF Mail, Pipes
  <2> QED
    BY <1>0, <2>1, <2>2 DEF ReadEffect
<1>4. CASE ExecFork \/ ExecForkError
  BY <1>4, ForkFrame, ErrorFrame DEF OthersKeep, Mail
<1>5. CASE Forward \/ WaitUser
  BY <1>5, ForwardFrame, WaitFrame DEF KeepsPipes, Mail
<1>6. CASE EndLine
  BY <1>6, EndFrame DEF Mail
<1>7. CASE UNCHANGED env
  BY <1>7 DEF Mail
<1>8. ASSUME NEW p \in Proc, ProcStep(p) \/ SocketEnd(p)
      PROVE  UNCHANGED env
  BY <1>0, <1>8, CommandFrame DEF CommandsOnly
<1>9. CASE ExecBuiltin \/ UNCHANGED vars
  BY <1>7, <1>9 DEF ExecBuiltin, vars
<1> QED
  BY <1>1, <1>2, <1>3, <1>4, <1>5, <1>6, <1>7, <1>8, <1>9 DEF Next, ServerStep

\* A command's ends and user are settled when it is started.
LEMMA EndsSettled ==
  ASSUME PlaceInv, [Next]_vars, NEW p \in Proc
  PROVE  \/ proc'[p].by = proc[p].by /\ proc'[p].in = proc[p].in /\ proc'[p].out = proc[p].out
         \/ ExecFork /\ p = nproc + 1
<1>0. TypeOK
  BY DEF PlaceInv
<1>1. CASE ExecFork
  BY <1>1, ForkProc
<1>2. ASSUME NEW u \in User, ClearGarbage(u)
      PROVE  proc'[p].by = proc[p].by /\ proc'[p].in = proc[p].in /\ proc'[p].out = proc[p].out
  BY <1>0, <1>2, ZenonT(60) DEF ClearGarbage, TypeOK, ProcRec
<1>3. ASSUME NEW o \in Proc, ProcStep(o) \/ SocketEnd(o)
      PROVE  proc'[p].by = proc[p].by /\ proc'[p].in = proc[p].in /\ proc'[p].out = proc[p].out
  BY <1>0, <1>3, CommandFrame DEF CommandsOnly
<1>4. CASE UNCHANGED proc
  BY <1>4
<1>5. ASSUME NEW u \in User, Login(u) \/ ReadLine(u)
      PROVE  UNCHANGED proc
  BY <1>5 DEF Login, ReadLine, kernel
<1>6. CASE ExecBuiltin \/ ExecForkError \/ Forward \/ WaitUser \/ EndLine \/ UNCHANGED vars
  BY <1>4, <1>6 DEF ExecBuiltin, ExecForkError, Forward, WaitUser, EndLine, vars, kernel
<1> QED
  BY <1>1, <1>2, <1>3, <1>4, <1>5, <1>6 DEF Next, ServerStep

\* Each step keeps the ends of user pipes with their sessions.
LEMMA EndsStep == PlaceInv /\ EndsInv /\ [Next]_vars => EndsInv'
<1> SUFFICES ASSUME PlaceInv, EndsInv, [Next]_vars,
                    NEW p \in Proc, NEW q \in Pipes', (Routed(q))'
             PROVE  /\ proc'[p].in = q => proc'[p].by = route'[q][2] /\ ~(Boxed(q))'
                    /\ proc'[p].out = q => proc'[p].by = route'[q][1]
  BY DEF EndsInv
<1>0. /\ TypeOK /\ SessionInv /\ npipe \in Nat
      /\ proc[p].in \in 1 .. npipe \cup {NoPipe, DevNull} /\ proc[p].out \in 0 .. npipe
  BY DEF PlaceInv, TypeOK, ProcRec
<1>1. \A i \in Pipes : i \in Pipes' /\ route'[i] = route[i]
  BY RouteKept
<1>2. CASE proc'[p].by = proc[p].by /\ proc'[p].in = proc[p].in /\ proc'[p].out = proc[p].out
  <2>1. proc[p].in = q \/ proc[p].out = q => q \in Pipes
    BY <1>0 DEF Pipes, NoPipe, DevNull
  <2>2. CASE q \in Pipes
    <3>1. Routed(q) /\ route'[q] = route[q]
      BY <1>1, <2>2 DEF Routed
    <3>2. ~Boxed(q) => ~(Boxed(q))'
      BY <2>2, BoxesFill
    <3> QED
      BY <1>2, <2>2, <3>1, <3>2 DEF EndsInv
  <2> QED
    BY <1>2, <2>1, <2>2
<1>3. CASE ExecFork /\ p = nproc + 1
  <2>1. /\ pc = "exec" /\ task.kind = "run" /\ KernelGrows
        /\ proc'[p].by = holder[who] /\ proc'[p].in = taken /\ proc'[p].out = Stdout
    BY <1>3, ForkProc, ForkFrame, ChildType DEF ExecFork
  <2>2. q \in Pipes /\ Routed(q) /\ route'[q] = route[q]
    BY <1>0, <1>1, <2>1 DEF KernelGrows, Routed
  <2>3. ~Boxed(q) => ~(Boxed(q))'
    BY <2>2, BoxesFill
  <2> QED
    BY <2>1, <2>2, <2>3, ChildEnds
<1> QED
  BY <1>2, <1>3, EndsSettled

\* User pipes connect the sessions they were made for, whoever had the ids before.
THEOREM MailStaysRouted == Spec => []MailRouted
<1>1. Init => EndsInv
  BY DEF Init, EndsInv, Pipes
<1>2. PlaceInv /\ EndsInv => MailRouted
  BY DEF MailRouted, PlaceInv, EndsInv, BoxInv, Routed
<1> QED
  BY <1>1, <1>2, EndsStep, PlacesInvariant, PTL DEF Spec

-----------------------------------------------------------------------------
(* No pipe is lost.                                                        *)

\* What each place holds is open.
OpenInv ==
  /\ \A u \in User, k \in Slots : Ring(u, k) \in Pipes => Ring(u, k) \in open
  /\ \A u \in User : Last(u) \in Pipes => Last(u) \in open
  /\ \A s, r \in User : Mail(s, r) \in Pipes => Mail(s, r) \in open

\* One of the two sessions of q is over.
Parted(q) == \E i \in {1, 2} : \A u \in User : holder[u] # route[q][i]

\* A user pipe has been closed only after it got a reader, or with its users.
ReadInv == \A q \in Pipes : Routed(q) => q \in open \/ (\E p \in Proc : proc[p].in = q) \/ Parted(q)

\* While no fork is to be tried again, no two places hold the same pipe.
LEMMA PlacesApart ==
  ASSUME PlaceInv
  PROVE  /\ \A s, r \in User : Mail(s, r) \in Pipes => Routed(Mail(s, r)) /\ Online(s)
         /\ \A s, r, a, b \in User : Mail(s, r) = Mail(a, b) /\ Mail(s, r) \in Pipes => s = a /\ r = b
         /\ \A u \in User, k \in Slots : Ring(u, k) \in Pipes /\ ~Retry(u, k) => ~Routed(Ring(u, k))
         /\ \A u \in User : Last(u) \in Pipes /\ (\A k \in Slots : ~Retry(u, k)) =>
              Routed(Last(u)) /\ ~Boxed(Last(u)) /\ route[Last(u)][2] = holder[u] /\ Online(u)
<1>0. BoxInv /\ RingInv /\ LastInv /\ SessionInv /\ NoPipe \notin Pipes
  BY DEF PlaceInv, Pipes, NoPipe
<1>1. ASSUME NEW s \in User, NEW r \in User, Mail(s, r) \in Pipes
      PROVE  /\ Online(s) /\ Online(r) /\ route[Mail(s, r)] = <<holder[s], holder[r]>> /\ Routed(Mail(s, r))
  BY <1>0, <1>1 DEF BoxInv, Routed, Online
<1>2. ASSUME NEW s \in User, NEW r \in User, NEW a \in User, NEW b \in User,
             Mail(s, r) = Mail(a, b), Mail(s, r) \in Pipes
      PROVE  s = a /\ r = b
  <2>1. <<holder[s], holder[r]>> = <<holder[a], holder[b]>> /\ Online(s) /\ Online(r)
    BY <1>1, <1>2
  <2> QED
    BY <1>0, <2>1 DEF SessionInv, Online
<1>3. \A u \in User, k \in Slots : Ring(u, k) \in Pipes /\ ~Retry(u, k) => ~Routed(Ring(u, k))
  BY <1>0 DEF RingInv
<1>4. \A u \in User : Last(u) \in Pipes /\ (\A k \in Slots : ~Retry(u, k)) =>
        Routed(Last(u)) /\ ~Boxed(Last(u)) /\ route[Last(u)][2] = holder[u] /\ Online(u)
  BY <1>0 DEF LastInv
<1> QED
  BY <1>1, <1>2, <1>3, <1>4

\* A pipe that a child takes is in no other place afterwards.
LEMMA TakenApart ==
  ASSUME PlaceInv, pc = "exec", task.kind = "run", taken \in Pipes
  PROVE  /\ \A u \in User, k \in Slots : u # who \/ k # me.current_pos => Ring(u, k) # taken
         /\ \A u \in User : u # who => Last(u) # taken
         /\ \A s, r \in User : Mail(s, r) # taken
<1> DEFINE cur == me.current_pos
<1>0. /\ TypeOK /\ BoxInv /\ RingInv /\ LastInv /\ SessionInv /\ npipe \in Nat /\ NoPipe \notin Pipes
      /\ who \in User /\ cur \in Slots /\ Online(who)
      /\ \A u \in User, k \in Slots : u # who \/ k # cur =>
           Ring(u, k) \in Pipes \cup {NoPipe} /\ (Ring(u, k) # NoPipe => ~Routed(Ring(u, k)))
      /\ \A u \in User : u # who /\ Last(u) \in Pipes =>
           Routed(Last(u)) /\ route[Last(u)][2] = holder[u] /\ ~Boxed(Last(u))
      /\ \A u \in User, k \in Slots : Retry(u, k) <=> u = who /\ k = cur
  BY ExecPlaces, SMTT(40) DEF PlaceInv, TypeOK, Pipes, NoPipe
<1>1. taken = IF Ring(who, cur) # NoPipe THEN Ring(who, cur) ELSE Last(who)
  BY <1>0, SlotRange DEF taken, Ring, Last, me
<1>2. Routed(taken) => route[taken][2] = holder[who] /\ ~Boxed(taken)
  BY ChildEnds
<1> HIDE DEF cur
<1>3. ~Routed(taken) => taken = Ring(who, cur)
  BY <1>0, <1>1 DEF LastInv
<1>4. ASSUME NEW u \in User, NEW k \in Slots, u # who \/ k # cur, Ring(u, k) = taken
      PROVE  FALSE
  BY <1>0, <1>3, <1>4 DEF RingInv
<1>5. ASSUME NEW u \in User, u # who, Last(u) = taken
      PROVE  FALSE
  BY <1>0, <1>2, <1>5 DEF SessionInv, Online
<1>6. ASSUME NEW s \in User, NEW r \in User, Mail(s, r) = taken
      PROVE  FALSE
  BY <1>2, <1>6, PlacesApart DEF Boxed
<1> QED
  BY <1>4, <1>5, <1>6 DEF cur

\* What the kernel gives and takes when a command is started, or not.
LEMMA OpenExec ==
  ASSUME PlaceInv, OpenInv, ExecFork \/ ExecForkError
  PROVE  /\ OpenInv'
         /\ \A q \in open : q \in open' \/ (ExecFork /\ q = taken)
<1> DEFINE cur == me.current_pos
<1>0. /\ pc = "exec" /\ task.kind = "run" /\ npipe' = made
      /\ OthersKeep /\ KernelGrows /\ NewRing(env'[who].pipes) /\ npipe \in Nat /\ npipe' \in Nat /\ TypeOK
  BY ForkFrame, ErrorFrame DEF ExecFork, ExecForkError, NewPipes, PlaceInv, TypeOK, KernelGrows
<1>1. who \in User /\ cur \in Slots
  BY <1>0, ExecPlaces
<1>2. /\ env'[who].last_pipe \in {NoPipe, taken} /\ env'[who].pipes[cur] \in {NoPipe, npipe + 1, taken}
      /\ ExecFork => env'[who].last_pipe = NoPipe
                     /\ env'[who].pipes[cur] = IF AfterLast THEN NoPipe ELSE npipe + 1
      /\ ExecForkError => env'[who].pipes[cur] = taken
  BY ForkFrame, ErrorFrame
<1>3. /\ ExecFork => open' = (open \cup (npipe + 1 .. npipe')) \ ({taken} \cup (IF AfterLast THEN {npipe + 1} ELSE {}))
      /\ ExecForkError => open' = (open \cup (npipe + 1 .. npipe')) \ {npipe + 1}
  BY <1>0 DEF ExecFork, ExecForkError, ClosedByParent
<1>4. /\ open \subseteq Pipes /\ npipe + 1 \notin Pipes /\ npipe + 1 \in npipe + 1 .. npipe'
      /\ \A q \in npipe + 2 .. npipe' : q \in npipe + 1 .. npipe' /\ q # npipe + 1 /\ q \notin Pipes
      /\ NoPipe \notin Pipes' /\ DevNull \notin Pipes' /\ NoPipe \notin Pipes /\ DevNull \notin Pipes
      /\ \A q \in Pipes : q \in Pipes' /\ q # npipe + 1
  BY <1>0 DEF TypeOK, Pipes, KernelGrows, NoPipe, DevNull
<1>5. taken \in 1 .. npipe \cup {NoPipe, DevNull}
  BY <1>0, ExecRing
<1>6. taken \in Pipes => taken \in open
  BY <1>0, <1>1, SlotRange DEF taken, OpenInv, Ring, Last, me
<1>7. /\ taken \in Pipes => /\ \A u \in User, k \in Slots : u # who \/ k # cur => Ring(u, k) # taken
                            /\ \A u \in User : u # who => Last(u) # taken
                            /\ \A s, r \in User : Mail(s, r) # taken
  BY <1>0, TakenApart
<1> HIDE DEF cur
<1>8. \A q \in open : q # taken => q \in open'
  BY <1>3, <1>4, ExecFork \/ ExecForkError
<1>9. \A q \in npipe + 2 .. npipe' : q \in open'
  <2>1. taken \notin npipe + 2 .. npipe'
    BY <1>0, <1>5 DEF NoPipe, DevNull
  <2> QED
    BY <1>3, <1>4, <2>1
<1>10. taken \in Pipes /\ ExecForkError => taken \in open'
  BY <1>3, <1>4, <1>6
<1>11. ASSUME NEW u \in User, NEW k \in Slots, Ring(u, k)' \in Pipes'
       PROVE  Ring(u, k)' \in open'
  <2>1. CASE u # who \/ k # cur
    <3>1. Ring(u, k)' = Ring(u, k) \/ Ring(u, k)' \in npipe + 2 .. npipe'
      BY <1>0, <2>1 DEF OthersKeep, NewRing, Ring, cur
    <3>2. CASE Ring(u, k)' = Ring(u, k)
      <4>1. Ring(u, k) \in Pipes
        <5>1. Ring(u, k) \in 1 .. npipe \cup {NoPipe, DevNull}
          BY <1>0, PlaceTypes
        <5> QED
          BY <1>4, <1>11, <3>2, <5>1 DEF Pipes
      <4> QED
        BY <1>7, <1>8, <2>1, <3>2, <4>1 DEF OpenInv
    <3> QED
      BY <1>9, <3>1, <3>2
  <2>2. CASE u = who /\ k = cur
    <3>1. Ring(u, k)' = env'[who].pipes[cur]
      BY <2>2 DEF Ring
    <3>2. CASE ExecForkError
      BY <1>2, <1>4, <1>5, <1>10, <1>11, <3>1, <3>2 DEF Pipes
    <3>3. CASE ExecFork
      <4>1. ~AfterLast /\ Ring(u, k)' = npipe + 1
        BY <1>2, <1>4, <1>11, <3>1, <3>3
      <4>2. npipe + 1 # taken
        BY <1>0, <1>5 DEF NoPipe, DevNull
      <4> QED
        BY <1>3, <1>4, <3>3, <4>1, <4>2
    <3> QED
      BY <3>2, <3>3
  <2> QED
    BY <2>1, <2>2
<1>12. ASSUME NEW u \in User, Last(u)' \in Pipes'
       PROVE  Last(u)' \in open'
  <2>1. CASE u # who
    <3>1. Last(u)' = Last(u) /\ Last(u) \in 1 .. npipe \cup {NoPipe, DevNull}
      BY <1>0, <2>1, PlaceTypes DEF OthersKeep, Last
    <3>2. Last(u) \in Pipes
      BY <1>4, <1>12, <3>1 DEF Pipes
    <3> QED
      BY <1>7, <1>8, <2>1, <3>1, <3>2 DEF OpenInv
  <2>2. CASE u = who
    <3>1. Last(u)' = env'[who].last_pipe
      BY <2>2 DEF Last
    <3>2. Last(u)' = taken /\ taken \in Pipes /\ ExecForkError
      BY <1>2, <1>4, <1>5, <1>12, <3>1 DEF Pipes
    <3> QED
      BY <1>10, <3>2
  <2> QED
    BY <2>1, <2>2
<1>13. ASSUME NEW s \in User, NEW r \in User, Mail(s, r)' \in Pipes'
       PROVE  Mail(s, r)' \in open'
  <2>1. Mail(s, r)' = Mail(s, r) /\ Mail(s, r) \in 0 .. npipe
    BY <1>0, PlaceTypes DEF OthersKeep, Mail
  <2>2. Mail(s, r) \in Pipes
    BY <1>0, <1>4, <1>13, <2>1 DEF Pipes, NoPipe
  <2> QED
    BY <1>7, <1>8, <2>1, <2>2 DEF OpenInv
<1>14. ASSUME NEW q \in open
       PROVE  q \in open' \/ (ExecFork /\ q = taken)
  BY <1>4, <1>8, <1>10
<1> QED
  BY <1>11, <1>12, <1>13, <1>14 DEF OpenInv

\* Between two commands' starts, things are taken out of places and closed pipes are
\* in none of those that are left.
LEMMA OpenDrop ==
  ASSUME PlaceInv, OpenInv, UNCHANGED npipe,
         NEW closed, open' = open \ closed,
         \A u \in User : /\ Last(u)' \in Pipes => Last(u)' = Last(u) /\ Last(u) \notin closed
                         /\ \A k \in Slots : Ring(u, k)' \in Pipes => Ring(u, k)' = Ring(u, k) /\ Ring(u, k) \notin closed,
         \A s, r \in User : Mail(s, r)' \in Pipes => Mail(s, r)' = Mail(s, r) /\ Mail(s, r) \notin closed
  PROVE  OpenInv'
<1>1. Pipes' = Pipes
  BY DEF Pipes
<1>2. ASSUME NEW u \in User, NEW k \in Slots, Ring(u, k)' \in Pipes
      PROVE  Ring(u, k)' \in open'
  BY <1>2 DEF OpenInv
<1>3. ASSUME NEW u \in User, Last(u)' \in Pipes
      PROVE  Last(u)' \in open'
  BY <1>3 DEF OpenInv
<1>4. ASSUME NEW s \in User, NEW r \in User, Mail(s, r)' \in Pipes
      PROVE  Mail(s, r)' \in open'
  BY <1>4 DEF OpenInv
<1> QED
  BY <1>1, <1>2, <1>3, <1>4 DEF OpenInv

\* The server never closes a pipe that is still in some place.
LEMMA OpenStep == PlaceInv /\ OpenInv /\ [Next]_vars => OpenInv'
<1> SUFFICES ASSUME PlaceInv, OpenInv, [Next]_vars
             PROVE  OpenInv'
  OBVIOUS
<1>0. TypeOK /\ npipe \in Nat /\ NoPipe \notin Pipes
  BY DEF PlaceInv, TypeOK, Pipes, NoPipe
<1>1. ASSUME NEW u \in User, Login(u)
      PROVE  OpenInv'
  <2> DEFINE closed == {}
  <2>1. UNCHANGED npipe /\ open' = open \ closed
    BY <1>1 DEF Login, kernel
  <2>2. env'[u] = NewEnv /\ \A v \in User : v # u => env'[v] = env[v]
    BY <1>1, LoginFrame
  <2>3. /\ \A v \in User :
             /\ Last(v)' \in Pipes => Last(v)' = Last(v) /\ Last(v) \notin closed
             /\ \A k \in Slots : Ring(v, k)' \in Pipes => Ring(v, k)' = Ring(v, k) /\ Ring(v, k) \notin closed
        /\ \A s, r \in User : Mail(s, r)' \in Pipes => Mail(s, r)' = Mail(s, r) /\ Mail(s, r) \notin closed
    BY <1>0, <2>2, NewEnvType, 0 \in Nat DEF Ring, Last, Mail
  <2> HIDE DEF closed
  <2> QED
    BY <2>1, <2>3, OpenDrop
<1>2. ASSUME NEW u \in User, ClearGarbage(u)
      PROVE  OpenInv'
  <2> DEFINE closed == {Mail(u, v) : v \in User}
  <2>1. pc = "idle" /\ UNCHANGED npipe /\ open' = open \ closed
    BY <1>2 DEF ClearGarbage, Mail
  <2>2. /\ env'[u] = NewEnv
        /\ \A v \in User : v # u =>
             /\ env'[v].pipes = env[v].pipes /\ env'[v].last_pipe = env[v].last_pipe
             /\ \A s \in User : env'[v].user_pipes[s] = IF s = u THEN NoPipe ELSE env[v].user_pipes[s]
    BY <1>2, ClearFrame
  <2>3. \A v \in User, k \in Slots : ~Retry(v, k)
    BY <2>1 DEF Retry
  <2>4. ASSUME NEW v \in User
        PROVE  /\ Last(v)' \in Pipes => Last(v)' = Last(v) /\ Last(v) \notin closed
               /\ \A k \in Slots : Ring(v, k)' \in Pipes => Ring(v, k)' = Ring(v, k) /\ Ring(v, k) \notin closed
    <3>1. /\ Last(v)' \in Pipes => Last(v)' = Last(v)
          /\ \A k \in Slots : Ring(v, k)' \in Pipes => Ring(v, k)' = Ring(v, k)
      BY <1>0, <2>2, NewEnvType, 0 \in Nat DEF Ring, Last
    <3>2. Last(v) \in Pipes => Last(v) \notin closed
      BY <2>3, PlacesApart DEF Boxed
    <3>3. \A k \in Slots : Ring(v, k) \in Pipes => Ring(v, k) \notin closed
      BY <2>3, PlacesApart
    <3> QED
      BY <3>1, <3>2, <3>3
  <2>5. ASSUME NEW s \in User, NEW r \in User, Mail(s, r)' \in Pipes
        PROVE  Mail(s, r)' = Mail(s, r) /\ Mail(s, r) \notin closed
    <3>1. Mail(s, r)' = Mail(s, r) /\ s # u
      BY <1>0, <2>2, <2>5, NewEnvType, 0 \in Nat DEF Mail
    <3> QED
      BY <2>5, <3>1, PlacesApart
  <2> HIDE DEF closed
  <2> QED
    BY <2>1, <2>4, <2>5, OpenDrop
<1>3. ASSUME NEW u \in User, ReadLine(u)
      PROVE  OpenInv'
  <2>1. PICK s \in User \cup {NoUser}, r \in User \cup {NoUser}, sends \in BOOLEAN : ReadEffect(u, s, r, sends)
    BY <1>0, <1>3, ReadFrame
  <2>2. /\ \A q \in open : q \in open'
        /\ sends => npipe + 1 \in open'
        /\ \A q \in 1 .. npipe \cup {NoPipe, DevNull} : q \in Pipes' => q \in Pipes
    BY <1>0, <2>1 DEF ReadEffect, Pipes, NoPipe, DevNull
  <2>3. ASSUME NEW v \in User, NEW k \in Slots, Ring(v, k)' \in Pipes'
        PROVE  Ring(v, k)' \in open'
    <3>1. Ring(v, k)' = Ring(v, k) /\ Ring(v, k) \in 1 .. npipe \cup {NoPipe, DevNull}
      BY <1>0, <2>1, PlaceTypes DEF ReadEffect, SameRing, Ring
    <3> QED
      BY <2>2, <2>3, <3>1 DEF OpenInv
  <2>4. ASSUME NEW a \in User, NEW b \in User, Mail(a, b)' \in Pipes'
        PROVE  Mail(a, b)' \in open'
    <3>1. Mail(a, b)' = Mail(a, b) \/ (sends /\ Mail(a, b)' = npipe + 1) \/ Mail(a, b)' = NoPipe
      BY <2>1 DEF ReadEffect
    <3>2. Mail(a, b) \in 1 .. npipe \cup {NoPipe, DevNull} /\ NoPipe \notin Pipes'
      BY <1>0, PlaceTypes DEF NoPipe, Pipes
    <3> QED
      BY <2>2, <2>4, <3>1, <3>2 DEF OpenInv
  <2>5. ASSUME NEW v \in User, Last(v)' \in Pipes'
        PROVE  Last(v)' \in open'
    <3>1. \/ Last(v)' = Last(v)
          \/ Last(v)' = DevNull
          \/ s \in User /\ Last(v)' = Mail(s, u)
      BY <2>1 DEF ReadEffect, Received, Online
    <3>2. /\ Last(v) \in 1 .. npipe \cup {NoPipe, DevNull} /\ DevNull \notin Pipes'
          /\ s \in User => Mail(s, u) \in 1 .. npipe \cup {NoPipe, DevNull}
      BY <1>0, PlaceTypes DEF NoPipe, DevNull, Pipes
    <3> QED
      BY <2>2, <2>5, <3>1, <3>2 DEF OpenInv
  <2> QED
    BY <2>3, <2>4, <2>5 DEF OpenInv
<1>4. CASE EndLine
  <2> DEFINE cur == me.current_pos
             closed == {me.pipes[cur]}
  <2>1. /\ pc = "wait" /\ UNCHANGED npipe /\ who \in User /\ open' = open \ closed
        /\ \A u \in User : u # who => env'[u] = env[u]
        /\ env'[who].pipes = [me.pipes EXCEPT ![cur] = NoPipe]
        /\ env'[who].last_pipe = me.last_pipe
        /\ \A u \in User : env'[u].user_pipes = env[u].user_pipes
    BY <1>4, EndFrame DEF EndLine, PlaceInv, LineInv, Online
  <2>2. me.pipes \in [Slots -> 1 .. npipe \cup {NoPipe, DevNull}] /\ cur \in Slots
    BY <1>0, <2>1 DEF TypeOK, EnvRec, me
  <2>3. \A v \in User, k \in Slots : ~Retry(v, k)
    BY <2>1 DEF Retry
  <2>4. Ring(who, cur) = me.pipes[cur]
    BY DEF Ring, me
  <2>5. \A q \in Pipes : q \in closed => ~Routed(q) /\ q = Ring(who, cur)
    BY <2>1, <2>2, <2>3, <2>4, PlacesApart
  <2>6. ASSUME NEW v \in User, NEW k \in Slots, Ring(v, k)' \in Pipes
        PROVE  Ring(v, k)' = Ring(v, k) /\ Ring(v, k) \notin closed
    <3>1. Ring(v, k)' = Ring(v, k) /\ (v # who \/ k # cur)
      BY <1>0, <2>1, <2>2, <2>6 DEF Ring, me
    <3>2. Ring(v, k) # Ring(who, cur)
      BY <1>0, <2>1, <2>2, <2>6, <3>1 DEF PlaceInv, RingInv
    <3> QED
      BY <2>4, <3>1, <3>2
  <2>7. ASSUME NEW v \in User, Last(v)' \in Pipes
        PROVE  Last(v)' = Last(v) /\ Last(v) \notin closed
    <3>1. Last(v)' = Last(v)
      BY <2>1 DEF Last, me
    <3> QED
      BY <2>3, <2>5, <2>7, <3>1, PlacesApart
  <2>8. ASSUME NEW s \in User, NEW r \in User, Mail(s, r)' \in Pipes
        PROVE  Mail(s, r)' = Mail(s, r) /\ Mail(s, r) \notin closed
    <3>1. Mail(s, r)' = Mail(s, r)
      BY <2>1 DEF Mail
    <3> QED
      BY <2>5, <2>8, <3>1, PlacesApart
  <2> HIDE DEF closed
  <2> QED
    BY <2>1, <2>6, <2>7, <2>8, OpenDrop
<1>5. CASE Forward \/ WaitUser
  <2> DEFINE closed == {}
  <2>1. KeepsPipes /\ UNCHANGED npipe /\ open' = open \ closed
    BY <1>5, ForwardFrame, WaitFrame DEF Forward, WaitUser, kernel
  <2>2. /\ \A v \in User : /\ Last(v)' = Last(v) /\ Last(v) \notin closed
                           /\ \A k \in Slots : Ring(v, k)' = Ring(v, k) /\ Ring(v, k) \notin closed
        /\ \A s, r \in User : Mail(s, r)' = Mail(s, r) /\ Mail(s, r) \notin closed
    BY <2>1 DEF KeepsPipes, Ring, Last, Mail
  <2> HIDE DEF closed
  <2> QED
    BY <2>1, <2>2, OpenDrop
<1>6. CASE UNCHANGED <<env, npipe, open>>
  BY <1>6 DEF OpenInv, Ring, Last, Mail, Pipes
<1>7. ASSUME NEW p \in Proc, ProcStep(p) \/ SocketEnd(p)
      PROVE  OpenInv'
  BY <1>0, <1>6, <1>7, CommandFrame DEF CommandsOnly
<1>8. CASE ExecBuiltin \/ UNCHANGED vars
  BY <1>6, <1>8 DEF ExecBuiltin, vars, kernel
<1> QED
  BY <1>1, <1>2, <1>3, <1>4, <1>5, <1>7, <1>8, OpenExec DEF Next, ServerStep

\* A user pipe is closed when a command of the receiver has it, or with its users.
LEMMA ReadStep == PlaceInv /\ OpenInv /\ ReadInv /\ [Next]_vars => ReadInv'
<1> SUFFICES ASSUME PlaceInv, OpenInv, ReadInv, [Next]_vars, NEW q \in Pipes', (Routed(q))'
             PROVE  q \in open' \/ (\E p \in Proc : proc'[p].in = q) \/ (Parted(q))'
  BY DEF ReadInv
<1>0. TypeOK /\ SessionInv /\ npipe \in Nat /\ NoPipe \notin Pipes
  BY DEF PlaceInv, TypeOK, Pipes, NoPipe
<1>1. \A i \in Pipes : i \in Pipes' /\ route'[i] = route[i]
  BY RouteKept
<1>2. ASSUME q \in Pipes, q \in open => q \in open',
             \A u \in User : holder'[u] = holder[u] \/ holder'[u] = nsession + 1 \/ holder'[u] = NoUser
      PROVE  q \in open' \/ (\E p \in Proc : proc'[p].in = q) \/ (Parted(q))'
  <2>1. Routed(q) /\ route'[q] = route[q]
    BY <1>1, <1>2 DEF Routed
  <2>2. CASE \E p \in Proc : proc[p].in = q
    <3>1. PICK p \in Proc : proc[p].in = q
      BY <2>2
    <3>2. ~(p = nproc + 1)
      <4>1. p = nproc + 1 => proc[p] = NoProc
        BY <1>0 DEF SessionInv, TypeOK
      <4> QED
        BY <1>0, <1>2, <3>1, <4>1 DEF NoProc
    <3>3. proc'[p].in = q
      BY <3>1, <3>2, EndsSettled
    <3> QED
      BY <3>3
  <2>3. CASE Parted(q)
    <3>1. PICK i \in {1, 2} : \A u \in User : holder[u] # route[q][i]
      BY <2>3 DEF Parted
    <3>2. route[q][i] \in 1 .. nsession /\ nsession \in Nat
      BY <1>0, <1>2, <2>1, <3>1 DEF SessionInv, TypeOK
    <3>3. \A u \in User : holder'[u] # route[q][i]
      BY <1>2, <3>1, <3>2 DEF NoUser
    <3> QED
      BY <2>1, <3>3 DEF Parted
  <2> QED
    BY <1>2, <2>1, <2>2, <2>3 DEF ReadInv
<1>3. ASSUME NEW u \in User, Login(u)
      PROVE  q \in open' \/ (\E p \in Proc : proc'[p].in = q) \/ (Parted(q))'
  <2>1. /\ npipe' = npipe /\ open' = open
        /\ \A v \in User : holder'[v] = holder[v] \/ holder'[v] = nsession + 1
    BY <1>0, <1>3 DEF Login, kernel, TypeOK
  <2> QED
    BY <1>2, <2>1 DEF Pipes
<1>4. ASSUME NEW u \in User, ClearGarbage(u)
      PROVE  q \in open' \/ (\E p \in Proc : proc'[p].in = q) \/ (Parted(q))'
  <2>1. /\ q \in Pipes /\ route' = route
        /\ open' = open \ {Mail(u, v) : v \in User}
        /\ holder'[u] = NoUser /\ \A v \in User : v # u => holder'[v] = holder[v]
    BY <1>0, <1>4 DEF ClearGarbage, TypeOK, Mail, Pipes
  <2>2. CASE q \in {Mail(u, v) : v \in User}
    <3>1. PICK v \in User : q = Mail(u, v)
      BY <2>2
    <3>2. route[q] = <<holder[u], holder[v]>> /\ Online(u)
      BY <1>0, <2>1, <3>1 DEF PlaceInv, BoxInv
    <3>3. \A w \in User : holder'[w] # holder[u]
      BY <1>0, <2>1, <3>2 DEF SessionInv, Online
    <3>4. route'[q][1] = holder[u]
      BY <2>1, <3>2
    <3> QED
      BY <3>3, <3>4 DEF Parted
  <2>3. CASE q \notin {Mail(u, v) : v \in User}
    BY <1>2, <2>1, <2>3
  <2> QED
    BY <2>2, <2>3
<1>5. ASSUME NEW u \in User, ReadLine(u)
      PROVE  q \in open' \/ (\E p \in Proc : proc'[p].in = q) \/ (Parted(q))'
  <2>1. PICK s \in User \cup {NoUser}, r \in User \cup {NoUser}, sends \in BOOLEAN : ReadEffect(u, s, r, sends)
    BY <1>0, <1>5, ReadFrame
  <2>2. holder' = holder /\ (q \in Pipes \/ q \in open') /\ \A i \in open : i \in open'
    BY <1>0, <1>5, <2>1 DEF ReadEffect, Pipes, ReadLine, users
  <2> QED
    BY <1>2, <2>2
<1>6. CASE ExecFork \/ ExecForkError
  <2>1. KernelGrows /\ holder' = holder
    BY <1>6, ForkFrame, ErrorFrame DEF ExecFork, ExecForkError, users
  <2>2. q \in Pipes
    BY <2>1 DEF KernelGrows, Routed
  <2>3. CASE q \in open => q \in open'
    BY <1>2, <2>1, <2>2, <2>3
  <2>4. CASE ~(q \in open => q \in open')
    <3>1. ExecFork /\ q = taken
      BY <1>6, <2>4, OpenExec
    <3>2. nproc + 1 \in Proc /\ proc'[nproc + 1].in = q
      BY <3>1, ForkProc, ChildType DEF ExecFork
    <3> QED
      BY <3>2
  <2> QED
    BY <2>3, <2>4
<1>7. CASE EndLine
  <2>1. /\ q \in Pipes /\ holder' = holder /\ pc = "wait" /\ who \in User
        /\ open' = open \ {me.pipes[me.current_pos]} /\ me.current_pos \in Slots
    BY <1>0, <1>7, EndFrame, SlotRange DEF EndLine, users, Pipes, PlaceInv, LineInv, Online
  <2>2. q # me.pipes[me.current_pos]
    <3>1. Routed(q)
      BY <1>1, <2>1 DEF Routed
    <3>2. Ring(who, me.current_pos) = me.pipes[me.current_pos] /\ ~Retry(who, me.current_pos)
      BY <2>1 DEF Ring, me, Retry
    <3> QED
      BY <2>1, <3>1, <3>2, PlacesApart
  <2> QED
    BY <1>2, <2>1, <2>2
<1>8. CASE UNCHANGED <<holder, npipe, open>>
  BY <1>2, <1>8 DEF Pipes
<1>9. ASSUME NEW p \in Proc, ProcStep(p) \/ SocketEnd(p)
      PROVE  UNCHANGED <<holder, npipe, open>>
  BY <1>0, <1>9, CommandFrame DEF CommandsOnly, users
<1>10. CASE ExecBuiltin \/ Forward \/ WaitUser \/ UNCHANGED vars
  BY <1>8, <1>10 DEF ExecBuiltin, Forward, WaitUser, vars, kernel, users
<1> QED
  BY <1>3, <1>4, <1>5, <1>6, <1>7, <1>8, <1>9, <1>10 DEF Next, ServerStep

\* No command finds its input closed, and no announced user pipe is lost while its
\* two users are there.
THEOREM PipesStayKept == Spec => []PipesKept
<1>1. Init => OpenInv /\ ReadInv
  <2> SUFFICES ASSUME Init PROVE OpenInv /\ ReadInv
    OBVIOUS
  <2>1. Pipes = {}
    BY DEF Init, Pipes
  <2> QED
    BY <2>1 DEF OpenInv, ReadInv
<1>2. PlaceInv /\ OpenInv /\ ReadInv => PipesKept
  <2> SUFFICES ASSUME PlaceInv, OpenInv, ReadInv
               PROVE  PipesKept
    OBVIOUS
  <2>1. TypeOK /\ npipe \in Nat
    BY DEF PlaceInv, TypeOK
  <2>2. ASSUME NEW q \in Known, q \notin {NoPipe, DevNull}
        PROVE  q \in open
    <3>1. PICK u \in User : \/ \E k \in Slots : q = Ring(u, k)
                            \/ \E s \in User : q = Mail(s, u)
                            \/ q = Last(u)
      BY <2>2 DEF Known, Ring, Mail, Last
    <3>2. q \in Pipes
      BY <2>1, <2>2, <3>1, PlaceTypes DEF Pipes, NoPipe
    <3> QED
      BY <3>1, <3>2 DEF OpenInv
  <2>3. \A q \in Pipes : route[q] # <<NoUser, NoUser>> =>
          \/ q \in open
          \/ \E p \in Proc : proc[p].in = q
          \/ \E i \in {1, 2} : \A u \in User : holder[u] # route[q][i]
    BY DEF ReadInv, Routed, Parted
  <2> QED
    BY <2>1, <2>2, <2>3 DEF PipesKept
<1> QED
  BY <1>1, <1>2, OpenStep, ReadStep, PlacesInvariant, PTL DEF Spec

\* A pipe is known by the place that holds it.
LEMMA KnownPlaces ==
  ASSUME NEW q
  PROVE  q \in Known <=> \E u \in User : \/ \E k \in Slots : q = Ring(u, k)
                                         \/ \E s \in User : q = Mail(s, u)
                                         \/ q = Last(u)
  BY DEF Known, Ring, Mail, Last

\* What leaves its place but not the server's hands, action by action.
LEMMA LeakStep ==
  ASSUME PlaceInv, [Next]_vars, NEW q \in open', q \notin Known', q \in open, q \in Known
  PROVE  \/ \E u \in garbage : u \notin garbage'
         \/ pc = "exec" /\ q = me.last_pipe /\ me.pipes[Slot(0)] # NoPipe
         \/ pc = "idle" /\ \E u \in User : q = env[u].last_pipe
<1>0. /\ TypeOK /\ BoxInv /\ RingInv /\ LastInv /\ LineInv /\ npipe \in Nat
      /\ q \in Pipes /\ q # NoPipe /\ q # npipe + 1
  BY SMTT(40) DEF PlaceInv, TypeOK, Pipes, NoPipe
<1>1. PICK u \in User : \/ \E k \in Slots : q = Ring(u, k)
                        \/ \E s \in User : q = Mail(s, u)
                        \/ q = Last(u)
  BY KnownPlaces
<1>2. \A v \in User : /\ \A k \in Slots : env'[v].pipes[k] # q
                      /\ \A s \in User : env'[v].user_pipes[s] # q
                      /\ env'[v].last_pipe # q
  BY DEF Known
<1>3. ASSUME NEW v \in User, Login(v)
      PROVE  FALSE
  <2>1. u # v
    BY <1>0, <1>1, <1>3 DEF Login, RingInv, LastInv, BoxInv
  <2> QED
    BY <1>1, <1>2, <1>3, <2>1, LoginFrame DEF Ring, Mail, Last
<1>4. ASSUME NEW v \in User, ClearGarbage(v)
      PROVE  \E w \in garbage : w \notin garbage'
  BY <1>4 DEF ClearGarbage
<1>5. ASSUME NEW v \in User, ReadLine(v)
      PROVE  pc = "idle" /\ \E w \in User : q = env[w].last_pipe
  <2>1. PICK s \in User \cup {NoUser}, r \in User \cup {NoUser}, sends \in BOOLEAN : ReadEffect(v, s, r, sends)
    BY <1>0, <1>5, ReadFrame
  <2>2. \A k \in Slots : q # Ring(u, k)
    BY <1>2, <2>1 DEF ReadEffect, SameRing, Ring
  <2>3. \A a \in User : q # Mail(a, u)
    <3> SUFFICES ASSUME NEW a \in User, q = Mail(a, u)
                 PROVE  FALSE
      OBVIOUS
    <3>1. Mail(a, u)' # q
      BY <1>2 DEF Mail
    <3>2. CASE Received(v, s) /\ a = s /\ u = v
      <4>1. env'[v].last_pipe = q
        BY <1>0, <2>1, <3>2, UserAssumption DEF ReadEffect, Last, NoUser
      <4> QED
        BY <1>2, <4>1
    <3>3. CASE sends /\ a = v /\ u = r /\ ~(Received(v, s) /\ a = s /\ u = v)
      BY <1>0, <2>1, <3>3 DEF ReadEffect
    <3> QED
      BY <2>1, <3>1, <3>2, <3>3 DEF ReadEffect
  <2> QED
    BY <1>1, <1>5, <2>2, <2>3 DEF ReadLine, Last
<1>6. CASE ExecFork \/ ExecForkError
  <2> DEFINE cur == me.current_pos
  <2>1. /\ pc = "exec" /\ task.kind = "run" /\ OthersKeep /\ NewRing(env'[who].pipes)
        /\ who \in User /\ cur \in Slots /\ Slot(0) = cur
        /\ taken = IF me.pipes[cur] # NoPipe THEN me.pipes[cur] ELSE me.last_pipe
    BY <1>0, <1>6, ForkFrame, ErrorFrame, SlotRange DEF ExecFork, ExecForkError, LineInv, Online, taken
  <2>2. q # taken
    <3>1. CASE ExecFork
      BY <3>1 DEF ExecFork, ClosedByParent
    <3>2. CASE ExecForkError
      BY <1>2, <2>1, <3>2, ErrorFrame
    <3> QED
      BY <1>6, <3>1, <3>2
  <2>3. u = who
    BY <1>1, <1>2, <2>1 DEF OthersKeep, Ring, Mail, Last
  <2>4. \A s \in User : q # Mail(s, u)
    BY <1>2, <2>1 DEF OthersKeep, Mail
  <2>5. \A k \in Slots : q = Ring(u, k) => k = cur
    BY <1>0, <1>2, <2>1, <2>3 DEF NewRing
  <2>6. q = me.last_pipe /\ me.pipes[cur] # NoPipe
    BY <1>0, <1>1, <2>1, <2>2, <2>3, <2>4, <2>5 DEF Ring, Last, me
  <2> QED
    BY <2>1, <2>6
<1>7. CASE EndLine
  <2>1. /\ q # me.pipes[me.current_pos]
        /\ \A v \in User : v # who => env'[v] = env[v]
        /\ env'[who].pipes = [me.pipes EXCEPT ![me.current_pos] = NoPipe]
        /\ env'[who].last_pipe = me.last_pipe
        /\ \A v \in User : env'[v].user_pipes = env[v].user_pipes
    BY <1>7, EndFrame
  <2>2. who \in User /\ me.pipes \in [Slots -> 1 .. npipe \cup {NoPipe, DevNull}]
    BY <1>0, <1>7 DEF EndLine, LineInv, Online, TypeOK, EnvRec, me
  <2>3. \A k \in Slots : q = Ring(who, k) => env'[who].pipes[k] = q
    BY <2>1, <2>2 DEF Ring, me
  <2> QED
    BY <1>1, <1>2, <2>1, <2>2, <2>3 DEF Ring, Mail, Last, me
<1>8. CASE Forward \/ WaitUser
  <2>1. KeepsPipes
    BY <1>8, ForwardFrame, WaitFrame
  <2> QED
    BY <1>1, <1>2, <2>1 DEF KeepsPipes, Ring, Mail, Last
<1>9. CASE UNCHANGED env
  BY <1>1, <1>2, <1>9 DEF Ring, Mail, Last
<1>10. ASSUME NEW p \in Proc, ProcStep(p) \/ SocketEnd(p)
       PROVE  UNCHANGED env
  BY <1>0, <1>10, CommandFrame DEF CommandsOnly
<1>11. CASE ExecBuiltin \/ UNCHANGED vars
  BY <1>9, <1>11 DEF ExecBuiltin, vars
<1> QED
  BY <1>3, <1>4, <1>5, <1>6, <1>7, <1>8, <1>9, <1>10, <1>11 DEF Next, ServerStep

\* The server forgets a pipe that it still holds in three cases and no others.
THEOREM LeaksAreKnown == Spec => LeaksOnly
<1>1. PlaceInv /\ [Next]_vars =>
        [ \A q \in (open' \ Known') : q \in open /\ q \in Known =>
            \/ \E u \in garbage : u \notin garbage'
            \/ pc = "exec" /\ q = me.last_pipe /\ me.pipes[Slot(0)] # NoPipe
            \/ pc = "idle" /\ \E u \in User : q = env[u].last_pipe ]_vars
  BY LeakStep
<1> QED
  BY <1>1, PlacesInvariant, PTL DEF Spec, LeaksOnly

-----------------------------------------------------------------------------
(* Every child is on a list.                                               *)

\* No line is piped to its own slot: as many lines ahead as there are slots would be.
NotOntoItself == \A l \in Lines : Dest(l) = NoUser /\ l[Len(l)].out # NotPipe => l[Len(l)].out % MaxPipe # 0

\* A pipe was made for what the session of s sends to that of u.
Sent(s, u) == \E q \in Pipes : route[q] = <<holder[s], holder[u]>>

\* The lists name children of the users they are kept for.
ListInv ==
  \A p \in Proc, u \in User :
    /\ \A k \in Slots : p \in env[u].child_processes[k] => Online(u) /\ proc[p].by = holder[u]
    /\ \A s \in User : p \in env[u].user_child_processes[s] =>
         Online(u) /\ Online(s) /\ proc[p].by = holder[s] /\ Sent(s, u)

Listed(p) == \E u \in User : \/ \E k \in Slots : p \in env[u].child_processes[k]
                             \/ \E s \in User : p \in env[u].user_child_processes[s]

Gone(n) == n \in Session \ {holder[u] : u \in User}

\* A command that runs is listed; one that was killed had lost a user.
ChildInv ==
  \A p \in Proc :
    /\ Running(p) => Listed(p)
    /\ proc[p].st = "killed" => \/ Gone(proc[p].by)
                                \/ \E q \in Pipes : route[q][1] = proc[p].by /\ Gone(route[q][2])

\* A step that puts nobody on a list keeps what the lists say, while the users of
\* those who stay on them do.
LEMMA ListsShrink ==
  ASSUME PlaceInv, ListInv, [Next]_vars,
         \A p \in Proc : proc'[p].by = proc[p].by,
         \A u \in User : /\ \A k \in Slots : \A p \in env'[u].child_processes[k] :
                              p \in Proc => (\E j \in Slots : p \in env[u].child_processes[j]) /\ holder'[u] = holder[u]
                         /\ \A s \in User : \A p \in env'[u].user_child_processes[s] :
                              p \in Proc => p \in env[u].user_child_processes[s]
                                            /\ holder'[u] = holder[u] /\ holder'[s] = holder[s]
  PROVE  ListInv'
<1>1. \A q \in Pipes : q \in Pipes' /\ route'[q] = route[q]
  BY RouteKept
<1>2. ASSUME NEW p \in Proc, NEW u \in User, NEW k \in Slots, p \in env'[u].child_processes[k]
      PROVE  Online(u)' /\ proc'[p].by = holder'[u]
  BY <1>2 DEF ListInv, Online
<1>3. ASSUME NEW p \in Proc, NEW u \in User, NEW s \in User, p \in env'[u].user_child_processes[s]
      PROVE  Online(u)' /\ Online(s)' /\ proc'[p].by = holder'[s] /\ Sent(s, u)'
  <2>1. /\ Online(u) /\ Online(s) /\ proc[p].by = holder[s] /\ Sent(s, u)
        /\ holder'[u] = holder[u] /\ holder'[s] = holder[s] /\ proc'[p].by = proc[p].by
    BY <1>3 DEF ListInv
  <2>2. Sent(s, u)'
    BY <1>1, <2>1 DEF Sent
  <2> QED
    BY <2>1, <2>2 DEF Online
<1> QED
  BY <1>2, <1>3 DEF ListInv

\* The lists name the children of the right users after every step.
LEMMA ListStep == PlaceInv /\ ListInv /\ [Next]_vars => ListInv'
<1> SUFFICES ASSUME PlaceInv, ListInv, [Next]_vars
             PROVE  ListInv'
  OBVIOUS
<1>0. TypeOK /\ SessionInv /\ LineInv /\ npipe \in Nat
  BY DEF PlaceInv, TypeOK
<1>1. \A p \in Proc : proc'[p].by = proc[p].by \/ (ExecFork /\ p = nproc + 1)
  BY EndsSettled
<1>2. ASSUME NEW u \in User, Login(u)
      PROVE  ListInv'
  <2>1. env'[u] = NewEnv /\ \A v \in User : v # u => env'[v] = env[v]
    BY <1>2, LoginFrame
  <2>2. ~Online(u) /\ (\A v \in User : v # u => holder'[v] = holder[v]) /\ proc' = proc
    BY <1>0, <1>2 DEF Login, TypeOK, kernel
  <2>3. \A v \in User, k \in Slots : \A p \in env'[v].child_processes[k] :
          p \in Proc => p \in env[v].child_processes[k] /\ holder'[v] = holder[v]
    BY <2>1, <2>2, NewEnvType, 0 \in Nat
  <2>4. \A v, s \in User : \A p \in env'[v].user_child_processes[s] :
          p \in Proc => p \in env[v].user_child_processes[s] /\ holder'[v] = holder[v] /\ holder'[s] = holder[s]
    BY <2>1, <2>2, NewEnvType, 0 \in Nat DEF ListInv
  <2> QED
    BY <2>2, <2>3, <2>4, ListsShrink
<1>3. ASSUME NEW u \in User, ClearGarbage(u)
      PROVE  ListInv'
  <2>1. /\ env'[u] = NewEnv
        /\ \A v \in User : v # u =>
             /\ env'[v].child_processes = env[v].child_processes
             /\ \A s \in User : env'[v].user_child_processes[s] =
                                  IF s = u THEN {} ELSE env[v].user_child_processes[s]
    BY <1>3, ClearFrame
  <2>2. (\A v \in User : v # u => holder'[v] = holder[v]) /\ ~ExecFork
    BY <1>0, <1>3 DEF ClearGarbage, TypeOK, ExecFork
  <2>3. \A v \in User, k \in Slots : \A p \in env'[v].child_processes[k] :
          p \in Proc => p \in env[v].child_processes[k] /\ holder'[v] = holder[v]
    BY <2>1, <2>2, NewEnvType, 0 \in Nat
  <2>4. \A v, s \in User : \A p \in env'[v].user_child_processes[s] :
          p \in Proc => p \in env[v].user_child_processes[s] /\ holder'[v] = holder[v] /\ holder'[s] = holder[s]
    BY <2>1, <2>2, NewEnvType, 0 \in Nat
  <2> QED
    BY <1>1, <2>2, <2>3, <2>4, ListsShrink
<1>4. ASSUME NEW u \in User, ReadLine(u)
      PROVE  ListInv'
  <2>1. PICK s \in User \cup {NoUser}, r \in User \cup {NoUser}, sends \in BOOLEAN : ReadEffect(u, s, r, sends)
    BY <1>0, <1>4, ReadFrame
  <2>2. /\ holder' = holder /\ proc' = proc
        /\ \A v \in User : /\ env'[v].child_processes = env[v].child_processes
                           /\ env'[v].user_child_processes = env[v].user_child_processes
    BY <1>4, <2>1 DEF ReadLine, users, ReadEffect, SameRing
  <2> QED
    BY <2>2, ListsShrink
<1>5. CASE ExecFork
  <2> DEFINE cur == me.current_pos
             c == env'[who].child_processes
  <2>1. /\ OthersKeep /\ nproc + 1 \in Proc /\ holder' = holder
        /\ c = [me.child_processes EXCEPT ![cur] = @ \cup {nproc + 1}]
        /\ proc'[nproc + 1] = Child /\ Child.by = holder[who] /\ Online(who) /\ who \in User
    BY <1>0, <1>5, ForkFrame, ForkProc, ChildType DEF ExecFork, users, LineInv, Online
  <2>2. me.child_processes \in [Slots -> SUBSET Proc] /\ me = env[who]
    BY <1>0, <2>1 DEF TypeOK, EnvRec, me
  <2>3. \A p \in Proc : p # nproc + 1 => proc'[p].by = proc[p].by
    BY <1>1
  <2>4. /\ proc[nproc + 1].by = NoUser
        /\ \A u \in User, k \in Slots : nproc + 1 \notin env[u].child_processes[k]
        /\ \A u, s \in User : nproc + 1 \notin env[u].user_child_processes[s]
    <3>1. proc[nproc + 1] = NoProc
      BY <1>0, <2>1 DEF SessionInv, TypeOK
    <3>2. proc[nproc + 1].by = NoUser
      BY <3>1 DEF NoProc
    <3> QED
      BY <2>1, <3>2 DEF ListInv, Online
  <2>5. \A q \in Pipes : q \in Pipes' /\ route'[q] = route[q]
    BY RouteKept
  <2>6. ASSUME NEW p \in Proc, NEW u \in User, NEW k \in Slots, p \in env'[u].child_processes[k]
        PROVE  Online(u) /\ proc'[p].by = holder[u]
    <3>1. p \in env[u].child_processes[k] \/ (u = who /\ p = nproc + 1)
      BY <2>1, <2>2, <2>6 DEF OthersKeep
    <3> QED
      BY <2>1, <2>3, <2>4, <3>1 DEF ListInv
  <2>7. ASSUME NEW p \in Proc, NEW u \in User, NEW s \in User, p \in env'[u].user_child_processes[s]
        PROVE  Online(u) /\ Online(s) /\ proc'[p].by = holder[s] /\ Sent(s, u)'
    <3>1. p \in env[u].user_child_processes[s]
      BY <2>1, <2>7 DEF OthersKeep
    <3>2. Online(u) /\ Online(s) /\ proc'[p].by = holder[s] /\ Sent(s, u)
      BY <2>3, <2>4, <3>1 DEF ListInv
    <3>3. Sent(s, u)'
      BY <2>1, <2>5, <3>2 DEF Sent
    <3> QED
      BY <3>2, <3>3
  <2> QED
    BY <2>1, <2>6, <2>7 DEF ListInv, Online
<1>6. CASE ExecForkError
  <2>1. /\ OthersKeep /\ holder' = holder /\ proc' = proc
        /\ env'[who].child_processes = me.child_processes
    BY <1>6, ErrorFrame DEF ExecForkError, users
  <2>2. \A u \in User : env'[u].child_processes = env[u].child_processes
    BY <2>1 DEF OthersKeep, me
  <2> QED
    BY <2>1, <2>2, ListsShrink DEF OthersKeep
<1>7. CASE Forward
  <2> DEFINE cur == me.current_pos
  <2>1. /\ pc = "forward" /\ holder' = holder /\ proc' = proc /\ route' = route /\ npipe' = npipe
        /\ who \in User /\ Online(who) /\ cur \in Slots /\ me = env[who]
    BY <1>0, <1>7, SlotRange DEF Forward, users, kernel, LineInv, Online, me
  <2>2. /\ ToUser => lastTask.to \in User /\ Online(lastTask.to)
        /\ \A u, s \in User : env'[u].user_child_processes[s] =
             IF ToUser /\ u = lastTask.to /\ s = who
               THEN env[u].user_child_processes[s] \cup me.child_processes[cur]
               ELSE env[u].user_child_processes[s]
        /\ \A u \in User, k \in Slots : env'[u].child_processes[k] =
             IF u = who /\ (ToUser \/ ToLine) /\ k = cur THEN {}
             ELSE IF u = who /\ ToLine /\ k = Slot(lastTask.out)
               THEN me.child_processes[k] \cup me.child_processes[cur]
               ELSE env[u].child_processes[k]
    BY <1>7, ForwardFrame
  <2>3. ASSUME NEW p \in Proc, NEW u \in User, NEW k \in Slots, p \in env'[u].child_processes[k]
        PROVE  Online(u) /\ proc[p].by = holder[u]
    <3>1. p \in env[u].child_processes[k] \/ (u = who /\ p \in env[who].child_processes[cur])
      BY <2>1, <2>2, <2>3, ZenonT(40)
    <3> QED
      BY <2>1, <3>1 DEF ListInv
  <2>4. ASSUME NEW p \in Proc, NEW u \in User, NEW s \in User, p \in env'[u].user_child_processes[s]
        PROVE  Online(u) /\ Online(s) /\ proc'[p].by = holder[s] /\ Sent(s, u)'
    <3> SUFFICES Online(u) /\ Online(s) /\ proc[p].by = holder[s] /\ Sent(s, u)
      BY <2>1 DEF Sent, Pipes
    <3>1. CASE p \in env[u].user_child_processes[s]
      BY <3>1 DEF ListInv
    <3>2. CASE p \notin env[u].user_child_processes[s]
      <4>1. ToUser /\ u = lastTask.to /\ s = who /\ p \in env[who].child_processes[cur]
        BY <2>1, <2>2, <2>4, <3>2
      <4>2. Sent(who, lastTask.to)
        BY <1>0, <2>1, <4>1 DEF LineInv, ToUser, Sent
      <4> QED
        BY <2>1, <2>2, <4>1, <4>2 DEF ListInv
    <3> QED
      BY <3>1, <3>2
  <2> QED
    BY <2>1, <2>3, <2>4 DEF ListInv, Online
<1>8. CASE WaitUser
  <2>1. /\ holder' = holder /\ proc' = proc
        /\ \A u \in User : env'[u].child_processes = env[u].child_processes
        /\ \A u, s \in User : \A p \in env'[u].user_child_processes[s] : p \in env[u].user_child_processes[s]
    BY <1>8, WaitFrame DEF WaitUser, users, kernel
  <2> QED
    BY <2>1, ListsShrink
<1>9. CASE EndLine
  <2>1. /\ holder' = holder /\ proc' = proc /\ who \in User
        /\ \A u \in User : u # who => env'[u] = env[u]
        /\ env'[who].child_processes = [me.child_processes EXCEPT ![me.current_pos] = {}]
        /\ \A u \in User : env'[u].user_child_processes = env[u].user_child_processes
    BY <1>0, <1>9, EndFrame DEF EndLine, users, LineInv, Online
  <2>2. me.child_processes \in [Slots -> SUBSET Proc] /\ me = env[who]
    BY <1>0, <2>1 DEF TypeOK, EnvRec, me
  <2>3. \A u \in User, k \in Slots : \A p \in env'[u].child_processes[k] : p \in env[u].child_processes[k]
    BY <2>1, <2>2
  <2> QED
    BY <2>1, <2>3, ListsShrink
<1>11. ASSUME NEW p \in Proc, ProcStep(p) \/ SocketEnd(p)
       PROVE  ListInv'
  <2>1. CommandsOnly
    BY <1>0, <1>11, CommandFrame
  <2> QED
    BY <2>1, ListsShrink DEF CommandsOnly, users
<1>12. CASE ExecBuiltin \/ UNCHANGED vars
  <2>1. UNCHANGED <<holder, env, proc>>
    BY <1>12 DEF ExecBuiltin, vars, users, kernel
  <2> QED
    BY <2>1, ListsShrink
<1> QED
  BY <1>2, <1>3, <1>4, <1>5, <1>6, <1>7, <1>8, <1>9, <1>11, <1>12 DEF Next, ServerStep

\* Nobody has session n after the step.
GoneAfter(n) == n \in Session \ {holder'[u] : u \in User}

\* A session that is over stays so.
LEMMA GoneStays ==
  ASSUME PlaceInv, [Next]_vars, NEW n \in 0 .. nsession, Gone(n)
  PROVE  GoneAfter(n)
<1>0. TypeOK /\ nsession \in Nat
  BY DEF PlaceInv, TypeOK
<1>1. ASSUME NEW v \in User
      PROVE  holder'[v] = holder[v] \/ holder'[v] = nsession + 1 \/ holder'[v] = NoUser
  <2>1. ASSUME NEW u \in User, Login(u)
        PROVE  holder'[v] = holder[v] \/ holder'[v] = nsession + 1 \/ holder'[v] = NoUser
    BY <1>0, <2>1 DEF Login, TypeOK
  <2>2. ASSUME NEW u \in User, ClearGarbage(u)
        PROVE  holder'[v] = holder[v] \/ holder'[v] = nsession + 1 \/ holder'[v] = NoUser
    BY <1>0, <2>2 DEF ClearGarbage, TypeOK
  <2>3. ASSUME NEW u \in User, ReadLine(u)
        PROVE  holder' = holder
    BY <2>3 DEF ReadLine, users
  <2>4. ASSUME NEW p \in Proc, ProcStep(p) \/ SocketEnd(p)
        PROVE  holder' = holder
    BY <1>0, <2>4, CommandFrame DEF CommandsOnly, users
  <2>5. CASE ExecBuiltin \/ ExecFork \/ ExecForkError \/ Forward \/ WaitUser \/ EndLine \/ UNCHANGED vars
    BY <2>5 DEF ExecBuiltin, ExecFork, ExecForkError, Forward, WaitUser, EndLine, vars, users
  <2> QED
    BY <2>1, <2>2, <2>3, <2>4, <2>5 DEF Next, ServerStep
<1>2. n \in Session /\ NoUser \notin Session /\ n # nsession + 1
  BY <1>0 DEF Gone, Session, NoUser
<1>3. \A v \in User : holder[v] # n
  BY DEF Gone
<1>4. \A v \in User : holder'[v] # n
  BY <1>1, <1>2, <1>3
<1> QED
  BY <1>2, <1>4 DEF GoneAfter

\* Nobody who runs is struck off a list, save by the one who waited for him or by the
\* one who kills him.
LEMMA ChildStep ==
  ASSUME NotOntoItself, PlaceInv, ListInv, ChildInv, [Next]_vars
  PROVE  ChildInv'
<1> DEFINE LostAfter(p) == \/ GoneAfter(proc'[p].by)
                           \/ \E q \in Pipes' : route'[q][1] = proc'[p].by /\ GoneAfter(route'[q][2])
<1>0. TypeOK /\ SessionInv /\ LineInv /\ npipe \in Nat /\ nsession \in Nat
  BY DEF PlaceInv, TypeOK
<1>1. ASSUME NEW p \in Proc, proc[p].st = "killed", proc'[p].by = proc[p].by
      PROVE  LostAfter(p)
  <2>1. \A i \in Pipes : i \in Pipes' /\ route'[i] = route[i]
    BY RouteKept
  <2>2. \A n \in 0 .. nsession : Gone(n) => GoneAfter(n)
    BY GoneStays
  <2>3. CASE Gone(proc[p].by)
    <3>1. proc[p].by \in 0 .. nsession
      BY <1>0 DEF SessionInv
    <3> QED
      BY <1>1, <2>2, <2>3, <3>1
  <2>4. CASE \E q \in Pipes : route[q][1] = proc[p].by /\ Gone(route[q][2])
    <3>1. PICK q \in Pipes : route[q][1] = proc[p].by /\ Gone(route[q][2])
      BY <2>4
    <3>2. route[q][2] \in 0 .. nsession
      <4>1. route[q][2] # NoUser
        BY <3>1 DEF Gone, Session, NoUser
      <4>2. Routed(q)
        BY <4>1 DEF Routed
      <4> QED
        BY <1>0, <4>2 DEF SessionInv
    <3>3. GoneAfter(route'[q][2]) /\ q \in Pipes' /\ route'[q][1] = proc'[p].by
      BY <1>1, <2>1, <2>2, <3>1, <3>2
    <3> QED
      BY <3>3
  <2> QED
    BY <1>1, <2>3, <2>4 DEF ChildInv
<1>2. ASSUME \A p \in Proc : proc'[p].st = "killed" => LostAfter(p),
             \A p \in Proc : proc'[p].st = "running" => Listed(p)'
      PROVE  ChildInv'
  <2>1. \A p \in Proc : proc'[p].st = "killed" =>
          (Gone(proc[p].by) \/ \E q \in Pipes : route[q][1] = proc[p].by /\ Gone(route[q][2]))'
    BY <1>2 DEF Gone, GoneAfter
  <2>2. \A p \in Proc : Running(p)' => Listed(p)'
    BY <1>2 DEF Running
  <2> QED
    BY <2>1, <2>2 DEF ChildInv
<1>3. ASSUME \A p \in Proc : proc'[p].by = proc[p].by /\ (proc'[p].st = "killed" => proc[p].st = "killed"),
             \A p \in Proc : proc'[p].st = "running" => Listed(p)'
      PROVE  ChildInv'
  <2> HIDE DEF LostAfter
  <2> QED
    BY <1>1, <1>2, <1>3
<1>4. ASSUME NEW u \in User, Login(u)
      PROVE  ChildInv'
  <2>1. \A v \in User : v # u => env'[v] = env[v]
    BY <1>4, LoginFrame
  <2>2. proc' = proc /\ ~Online(u)
    BY <1>4 DEF Login, kernel
  <2>3. ASSUME NEW p \in Proc, proc[p].st = "running"
        PROVE  Listed(p)'
    <3>1. PICK v \in User : \/ \E k \in Slots : p \in env[v].child_processes[k]
                            \/ \E s \in User : p \in env[v].user_child_processes[s]
      BY <2>3 DEF ChildInv, Running, Listed
    <3>2. v # u
      BY <2>2, <3>1 DEF ListInv
    <3> QED
      BY <2>1, <3>1, <3>2 DEF Listed
  <2> QED
    BY <1>3, <2>2, <2>3
<1>5. ASSUME NEW u \in User, ClearGarbage(u)
      PROVE  ChildInv'
  <2>1. /\ env'[u] = NewEnv
        /\ \A v \in User : v # u =>
             /\ env'[v].child_processes = env[v].child_processes
             /\ \A s \in User : env'[v].user_child_processes[s] =
                                  IF s = u THEN {} ELSE env[v].user_child_processes[s]
    BY <1>5, ClearFrame
  <2>2. /\ holder'[u] = NoUser /\ (\A v \in User : v # u => holder'[v] = holder[v])
        /\ npipe' = npipe /\ route' = route
        /\ \A p \in Proc : proc'[p] = IF Running(p) /\ p \in Victims(u) THEN [proc[p] EXCEPT !.st = "killed"]
                                                                         ELSE proc[p]
    BY <1>0, <1>5 DEF ClearGarbage, TypeOK
  <2>3. \A p \in Proc : /\ proc'[p].by = proc[p].by
                        /\ proc'[p].st = IF Running(p) /\ p \in Victims(u) THEN "killed" ELSE proc[p].st
    BY <1>0, <2>2, ZenonT(60) DEF TypeOK, ProcRec
  <2>4. ASSUME NEW p \in Proc, proc'[p].st = "running"
        PROVE  Listed(p)'
    <3>1. Running(p) /\ p \notin Victims(u)
      BY <2>3, <2>4 DEF Running
    <3>2. PICK v \in User : \/ \E k \in Slots : p \in env[v].child_processes[k]
                            \/ \E s \in User : p \in env[v].user_child_processes[s]
      BY <3>1 DEF ChildInv, Listed
    <3>3. v # u
      BY <3>1, <3>2 DEF Victims, AllChildren, OwnChildren
    <3>4. \A s \in User : p \in env[v].user_child_processes[s] => s # u
      BY <3>1 DEF Victims
    <3> QED
      BY <2>1, <3>2, <3>3, <3>4 DEF Listed
  <2>5. Online(u) => GoneAfter(holder[u])
    <3>1. ASSUME Online(u)
          PROVE  holder[u] \in Session /\ \A v \in User : holder'[v] # holder[u]
      BY <1>0, <2>2, <3>1 DEF Online, TypeOK, SessionInv
    <3> QED
      BY <3>1 DEF GoneAfter
  <2>6. ASSUME NEW p \in Proc, proc'[p].st = "killed"
        PROVE  LostAfter(p)
    <3>1. CASE proc[p].st = "killed"
      <4> HIDE DEF LostAfter
      <4> QED
        BY <1>1, <2>3, <3>1
    <3>2. CASE proc[p].st # "killed"
      <4>1. p \in Victims(u)
        BY <2>3, <2>6, <3>2
      <4>2. CASE p \in OwnChildren(u)
        <5>1. Online(u) /\ proc[p].by = holder[u]
          BY <4>2 DEF OwnChildren, ListInv
        <5> QED
          BY <2>3, <2>5, <5>1
      <4>3. CASE \E s \in User : p \in env[u].user_child_processes[s]
        <5>1. PICK s \in User : p \in env[u].user_child_processes[s]
          BY <4>3
        <5>2. Online(u) /\ proc[p].by = holder[s] /\ Sent(s, u)
          BY <5>1 DEF ListInv
        <5>3. PICK q \in Pipes : route[q] = <<holder[s], holder[u]>>
          BY <5>2 DEF Sent
        <5>4. q \in Pipes' /\ route'[q][1] = proc'[p].by /\ route'[q][2] = holder[u]
          BY <2>2, <2>3, <5>2, <5>3 DEF Pipes
        <5> QED
          BY <2>5, <5>2, <5>4
      <4>4. CASE \E v \in User : p \in env[v].user_child_processes[u]
        <5>1. Online(u) /\ proc[p].by = holder[u]
          BY <4>4 DEF ListInv
        <5> QED
          BY <2>3, <2>5, <5>1
      <4> QED
        BY <4>1, <4>2, <4>3, <4>4 DEF Victims, AllChildren
    <3> QED
      BY <3>1, <3>2
  <2> HIDE DEF LostAfter
  <2> QED
    BY <1>2, <2>4, <2>6
<1>6. ASSUME NEW u \in User, ReadLine(u)
      PROVE  ChildInv'
  <2>1. PICK s \in User \cup {NoUser}, r \in User \cup {NoUser}, sends \in BOOLEAN : ReadEffect(u, s, r, sends)
    BY <1>0, <1>6, ReadFrame
  <2>2. /\ proc' = proc
        /\ \A v \in User : /\ env'[v].child_processes = env[v].child_processes
                           /\ env'[v].user_child_processes = env[v].user_child_processes
    BY <1>6, <2>1 DEF ReadLine, ReadEffect, SameRing
  <2> QED
    BY <1>3, <2>2 DEF ChildInv, Running, Listed
<1>7. CASE ExecFork
  <2> DEFINE cur == me.current_pos
             c == env'[who].child_processes
             new == nproc + 1
  <2>1. /\ OthersKeep /\ new \in Proc /\ who \in User /\ cur \in Slots /\ me = env[who]
        /\ c = [me.child_processes EXCEPT ![cur] = @ \cup {new}]
        /\ proc'[new] = Child /\ Child.st = "running"
        /\ \A p \in Proc : p # new => proc'[p] = proc[p]
    BY <1>0, <1>7, ForkFrame, ForkProc, ChildType, SlotRange DEF ExecFork, LineInv, Online, me
  <2>2. me.child_processes \in [Slots -> SUBSET Proc]
    BY <1>0, <2>1 DEF TypeOK, EnvRec
  <2> HIDE DEF cur, new
  <2>3. /\ new \in c[cur]
        /\ \A u \in User, k \in Slots : \A p \in env[u].child_processes[k] : p \in env'[u].child_processes[k]
        /\ \A u \in User : env'[u].user_child_processes = env[u].user_child_processes
    BY <2>1, <2>2 DEF OthersKeep
  <2>4. ASSUME NEW p \in Proc, proc'[p].st = "running"
        PROVE  Listed(p)'
    <3>1. CASE p = new
      BY <2>1, <2>3, <3>1 DEF Listed
    <3>2. CASE p # new
      <4>1. Listed(p)
        BY <2>1, <2>4, <3>2 DEF ChildInv, Running
      <4> QED
        BY <2>3, <4>1 DEF Listed
    <3> QED
      BY <3>1, <3>2
  <2>5. ASSUME NEW p \in Proc, proc'[p].st = "killed"
        PROVE  LostAfter(p)
    <3>1. p # new
      BY <2>1, <2>5
    <3> HIDE DEF LostAfter
    <3> QED
      BY <1>1, <2>1, <2>5, <3>1
  <2> HIDE DEF LostAfter
  <2> QED
    BY <1>2, <2>4, <2>5
<1>8. CASE ExecForkError
  <2>1. /\ OthersKeep /\ proc' = proc /\ env'[who].child_processes = me.child_processes
    BY <1>8, ErrorFrame DEF ExecForkError
  <2>2. \A u \in User : /\ env'[u].child_processes = env[u].child_processes
                        /\ env'[u].user_child_processes = env[u].user_child_processes
    BY <2>1 DEF OthersKeep, me
  <2> QED
    BY <1>3, <2>1, <2>2 DEF ChildInv, Running, Listed
<1>9. CASE Forward
  <2> DEFINE cur == me.current_pos
             to == lastTask.to
             next == Slot(lastTask.out)
  <2>1. /\ proc' = proc /\ who \in User /\ cur \in Slots /\ me = env[who] /\ me.current_pos \in 0 .. MaxPipe - 1
        /\ line \in Lines
    BY <1>0, <1>9, SlotRange DEF Forward, kernel, LineInv, Online, me, Slots
  <2>2. /\ lastTask.out \in Nat \cup {NotPipe}
        /\ ToUser => to \in User
        /\ \A u, s \in User : env'[u].user_child_processes[s] =
             IF ToUser /\ u = to /\ s = who
               THEN env[u].user_child_processes[s] \cup me.child_processes[cur]
               ELSE env[u].user_child_processes[s]
        /\ \A u \in User, k \in Slots : env'[u].child_processes[k] =
             IF u = who /\ (ToUser \/ ToLine) /\ k = cur THEN {}
             ELSE IF u = who /\ ToLine /\ k = next
               THEN me.child_processes[k] \cup me.child_processes[cur]
               ELSE env[u].child_processes[k]
    BY <1>9, ForwardFrame
  <2>3. ToLine => next \in Slots /\ next # cur
    <3>1. ASSUME ToLine
          PROVE  next \in Slots /\ next # cur
      <4>1. lastTask.out \in Nat /\ lastTask.out % MaxPipe # 0
        BY <2>1, <2>2, <3>1 DEF ToLine, NotOntoItself, Dest, lastTask
      <4>2. MaxPipe \in Nat \ {0}
        BY BoundAssumption
      <4>3. (cur + lastTask.out) % MaxPipe # cur
        BY <2>1, <4>1, <4>2, ModAround
      <4> QED
        BY <1>0, <2>1, <4>1, <4>3, SlotRange DEF Slot
    <3> QED
      BY <3>1
  <2> HIDE DEF cur, to, next
  <2>4. ASSUME NEW p \in Proc, proc[p].st = "running"
        PROVE  Listed(p)'
    <3>1. CASE p \in env[who].child_processes[cur] /\ ToUser
      <4>1. p \in env'[to].user_child_processes[who]
        BY <2>1, <2>2, <3>1
      <4> QED
        BY <2>1, <2>2, <3>1, <4>1 DEF Listed
    <3>2. CASE p \in env[who].child_processes[cur] /\ ToLine
      <4>1. p \in env'[who].child_processes[next]
        BY <2>1, <2>2, <2>3, <3>2
      <4> QED
        BY <2>1, <2>3, <3>2, <4>1 DEF Listed
    <3>3. CASE p \notin env[who].child_processes[cur] \/ (~ToUser /\ ~ToLine)
      <4>1. PICK v \in User : \/ \E k \in Slots : p \in env[v].child_processes[k]
                              \/ \E s \in User : p \in env[v].user_child_processes[s]
        BY <2>4 DEF ChildInv, Running, Listed
      <4>2. \A k \in Slots : p \in env[v].child_processes[k] => p \in env'[v].child_processes[k]
        BY <2>1, <2>2, <3>3
      <4>3. \A s \in User : p \in env[v].user_child_processes[s] => p \in env'[v].user_child_processes[s]
        BY <2>2
      <4> QED
        BY <4>1, <4>2, <4>3 DEF Listed
    <3> QED
      BY <3>1, <3>2, <3>3
  <2> QED
    BY <1>3, <2>1, <2>4
<1>10. CASE WaitUser
  <2>1. /\ proc' = proc /\ who \in User
        /\ \A p \in me.user_child_processes[Source(line)] : ~Running(p)
        /\ \A u \in User : env'[u].child_processes = env[u].child_processes
        /\ \A u, s \in User : env'[u].user_child_processes[s] =
              IF u = who /\ s = Source(line) THEN {} ELSE env[u].user_child_processes[s]
    BY <1>0, <1>10, WaitFrame DEF WaitUser, kernel, awaited, Source, LineInv, Online
  <2>2. ASSUME NEW p \in Proc, proc[p].st = "running"
        PROVE  Listed(p)'
    <3>1. PICK v \in User : \/ \E k \in Slots : p \in env[v].child_processes[k]
                            \/ \E s \in User : p \in env[v].user_child_processes[s]
      BY <2>2 DEF ChildInv, Running, Listed
    <3>2. \A s \in User : p \in env[v].user_child_processes[s] => p \in env'[v].user_child_processes[s]
      BY <2>1, <2>2 DEF Running, me
    <3> QED
      BY <2>1, <3>1, <3>2 DEF Listed
  <2> QED
    BY <1>3, <2>1, <2>2
<1>11. CASE EndLine
  <2> DEFINE cur == me.current_pos
  <2>1. /\ proc' = proc /\ who \in User /\ me = env[who]
        /\ \A p \in me.child_processes[cur] : ~Running(p)
        /\ \A u \in User : u # who => env'[u] = env[u]
        /\ env'[who].child_processes = [me.child_processes EXCEPT ![cur] = {}]
        /\ \A u \in User : env'[u].user_child_processes = env[u].user_child_processes
    BY <1>0, <1>11, EndFrame, SlotRange DEF EndLine, awaited, LineInv, Online, me
  <2>2. me.child_processes \in [Slots -> SUBSET Proc]
    BY <1>0, <2>1 DEF TypeOK, EnvRec
  <2> HIDE DEF cur
  <2>3. ASSUME NEW p \in Proc, proc[p].st = "running"
        PROVE  Listed(p)'
    <3>1. PICK v \in User : \/ \E k \in Slots : p \in env[v].child_processes[k]
                            \/ \E s \in User : p \in env[v].user_child_processes[s]
      BY <2>3 DEF ChildInv, Running, Listed
    <3>2. \A k \in Slots : p \in env[v].child_processes[k] => p \in env'[v].child_processes[k]
      BY <2>1, <2>2, <2>3 DEF Running
    <3> QED
      BY <2>1, <3>1, <3>2 DEF Listed
  <2> QED
    BY <1>3, <2>1, <2>3
<1>12. ASSUME NEW o \in Proc, ProcStep(o) \/ SocketEnd(o)
       PROVE  ChildInv'
  <2>1. CommandsOnly
    BY <1>0, <1>12, CommandFrame
  <2>2. \A p \in Proc : /\ proc'[p].by = proc[p].by
                        /\ proc'[p].st = "killed" => proc[p].st = "killed"
                        /\ proc'[p].st = "running" => proc[p].st = "running"
    BY <2>1 DEF CommandsOnly
  <2>3. env' = env
    BY <2>1 DEF CommandsOnly
  <2>4. \A p \in Proc : proc'[p].st = "running" => Listed(p)'
    BY <2>2, <2>3 DEF ChildInv, Running, Listed
  <2> QED
    BY <1>3, <2>2, <2>4
<1>13. CASE ExecBuiltin \/ UNCHANGED vars
  <2>1. UNCHANGED <<env, proc>>
    BY <1>13 DEF ExecBuiltin, vars, kernel
  <2> QED
    BY <1>3, <2>1 DEF ChildInv, Running, Listed
<1> QED
  BY <1>4, <1>5, <1>6, <1>7, <1>8, <1>9, <1>10, <1>11, <1>12, <1>13 DEF Next, ServerStep

\* When no line is piped around the whole ring, every command that runs is on a list
\* of a user who is there, and is killed only with one of the users of its pipe.
THEOREM EveryChildListed ==
  ASSUME NotOntoItself
  PROVE  Spec => []ChildrenAccounted
<1>1. Init => ListInv /\ ChildInv
  <2> SUFFICES ASSUME Init PROVE ListInv /\ ChildInv
    OBVIOUS
  <2>1. /\ \A u \in User : env[u] = NewEnv
        /\ \A p \in Proc : proc[p].st = "none"
    BY DEF Init, NoProc
  <2>2. ListInv
    BY <2>1, NewEnvType, 0 \in Nat DEF ListInv
  <2>3. ChildInv
    BY <2>1 DEF ChildInv, Running
  <2> QED
    BY <2>2, <2>3
<1>2. PlaceInv /\ ListInv /\ ChildInv /\ [Next]_vars => ListInv' /\ ChildInv'
  BY ListStep, ChildStep
<1>3. ListInv /\ ChildInv => ChildrenAccounted
  <2> SUFFICES ASSUME ListInv, ChildInv, NEW p \in Proc
               PROVE  /\ Running(p) => \E u \in User :
                           /\ Online(u)
                           /\ \/ \E k \in Slots : p \in env[u].child_processes[k]
                              \/ \E s \in User : p \in env[u].user_child_processes[s]
                      /\ proc[p].st = "killed" =>
                           \/ Gone(proc[p].by)
                           \/ \E q \in Pipes : route[q][1] = proc[p].by /\ Gone(route[q][2])
    BY DEF ChildrenAccounted, Gone
  <2> QED
    BY DEF ListInv, ChildInv, Listed
<1> QED
  BY <1>1, <1>2, <1>3, PlacesInvariant, PTL DEF Spec
=============================================================================
