---------------------------- MODULE NpSimpleProofs ----------------------------
(***************************************************************************)
(* Proofs about the line parsers and np_simple.  The parser's loop is a    *)
(* recursive function; that there is one, and that its result keeps what   *)
(* every turn keeps, follows from the least number of turns for which it   *)
(* would not.                                                              *)
(***************************************************************************)
EXTENDS NpSimple, FiniteSetTheorems, SequenceTheorems, WellFoundedInduction, TLAPS

-----------------------------------------------------------------------------
(* The loop.                                                               *)

\* A set of numbers that is not empty has a least one.
LEMMA LeastNumber ==
  ASSUME NEW T \in SUBSET Nat, T # {}
  PROVE  \E m \in T : \A k \in T : m <= k
<1> DEFINE R == OpToRel(<, Nat)
<1>1. IsWellFoundedOn(R, Nat)
  BY NatLessThanWellFounded
<1>2. \A x, y \in Nat : x < y => <<x, y>> \in R
  BY DEF OpToRel
<1> HIDE DEF R
<1>3. PICK m \in T : \A k \in T : <<k, m>> \notin R
  BY <1>1, WFMin
<1>4. ASSUME NEW k \in T
      PROVE  m <= k
  <2>1. k \in Nat /\ m \in Nat /\ ~(k < m)
    BY <1>2, <1>3
  <2> QED
    BY <2>1
<1> QED
  BY <1>4

\* The parser is done with n tokens.
Done(s, n) == s.end # "none" \/ s.idx > n

\* A function that runs the turns `turn` to their end.
Runs(f, turn, n) == f = [s \in Parser |-> IF Done(s, n) THEN s ELSE f[turn[s]]]

\* Every turn of a parser that is not done is a parser further on.
Advances(turn, n) ==
  \A s \in Parser : ~Done(s, n) => turn[s] \in Parser /\ turn[s].idx > s.idx

\* There is a function that runs a loop whose turns advance.
LEMMA RunExists ==
  ASSUME NEW n \in Nat, NEW turn, Advances(turn, n)
  PROVE  \E f : Runs(f, turn, n)
<1> DEFINE Near(m)   == {s \in Parser : s.idx + m > n}
           RunsNear(f, m) == \A s \in Near(m) : f[s] = IF Done(s, n) THEN s ELSE f[turn[s]]
           Fails == {m \in Nat : ~ \E f : RunsNear(f, m)}
<1>1. RunsNear([s \in Parser |-> s], 0)
  BY DEF Done, Parser
<1>2. ASSUME NEW m \in Nat, NEW f, RunsNear(f, m)
      PROVE  \E g : RunsNear(g, m + 1)
  <2> DEFINE g == [s \in Parser |-> IF Done(s, n) THEN s ELSE f[turn[s]]]
  <2>1. SUFFICES ASSUME NEW s \in Near(m + 1), ~Done(s, n)
                 PROVE  g[s] = g[turn[s]]
    <3>1. \A s \in Near(m + 1) : Done(s, n) => g[s] = s
      OBVIOUS
    <3>2. RunsNear(g, m + 1)
      BY <2>1, <3>1
    <3> HIDE DEF RunsNear, g
    <3> QED
      BY <3>2
  <2>2. s \in Parser /\ turn[s] \in Parser /\ turn[s].idx > s.idx
    BY <2>1 DEF Advances
  <2>3. turn[s] \in Near(m)
    BY <2>1, <2>2 DEF Parser
  <2>4. g[s] = f[turn[s]]
    BY <2>1, <2>2
  <2>5. f[turn[s]] = g[turn[s]]
    BY <1>2, <2>2, <2>3
  <2> QED
    BY <2>4, <2>5
<1> HIDE DEF RunsNear
<1>3. Fails = {}
  <2>1. SUFFICES ASSUME Fails # {} PROVE FALSE
    OBVIOUS
  <2>2. PICK m \in Fails : \A k \in Fails : m <= k
    BY <2>1, LeastNumber
  <2>3. m # 0
    BY <1>1
  <2>4. m - 1 \in Nat /\ m - 1 \notin Fails
    BY <2>2, <2>3
  <2>5. PICK f : RunsNear(f, m - 1)
    BY <2>4
  <2>6. \E g : RunsNear(g, (m - 1) + 1)
    BY <1>2, <2>4, <2>5
  <2> QED
    BY <2>2, <2>6
<1>4. PICK f : RunsNear(f, n)
  BY <1>3
<1>5. Near(n) = Parser
  <2>1. \A s \in Parser : s.idx \in Nat /\ s.idx > 0
    BY DEF Parser
  <2> QED
    BY <2>1
<1>6. \A s \in Parser : f[s] = IF Done(s, n) THEN s ELSE f[turn[s]]
  BY <1>4, <1>5 DEF RunsNear
<1> DEFINE h == [s \in Parser |-> f[s]]
<1>7. \A s \in Parser : h[s] = IF Done(s, n) THEN s ELSE h[turn[s]]
  BY <1>6 DEF Advances
<1>8. Runs(h, turn, n)
  <2> HIDE DEF h
  <2>1. h = [s \in Parser |-> h[s]]
    BY DEF h
  <2> QED
    BY <1>7, <2>1 DEF Runs
<1> QED
  BY <1>8

\* What a run returns is done, and in every set that its start is in and its turns
\* stay in.
LEMMA RunKeeps ==
  ASSUME NEW n \in Nat, NEW turn, NEW f, Runs(f, turn, n), NEW I \in SUBSET Parser,
         \A s \in I : ~Done(s, n) => turn[s] \in I /\ turn[s].idx > s.idx,
         NEW start \in I
  PROVE  f[start] \in I /\ Done(f[start], n)
<1> DEFINE Ok(s) == f[s] \in I /\ Done(f[s], n)
           Bad   == {s \in I : ~Ok(s)}
           Left  == {n + 1 - s.idx : s \in {t \in Bad : t.idx <= n}}
<1>1. \A s \in I : f[s] = IF Done(s, n) THEN s ELSE f[turn[s]]
  BY DEF Runs
<1>2. ASSUME NEW s \in Bad
      PROVE  s \in I /\ ~Done(s, n) /\ turn[s] \in Bad /\ turn[s].idx > s.idx
  <2>1. s \in I /\ ~Ok(s)
    OBVIOUS
  <2>2. ~Done(s, n)
    BY <1>1, <2>1
  <2>3. f[s] = f[turn[s]] /\ turn[s] \in I /\ turn[s].idx > s.idx
    BY <1>1, <2>1, <2>2
  <2> QED
    BY <2>1, <2>2, <2>3
<1> HIDE DEF Ok
<1>3. \A s \in Bad : s.idx \in Nat /\ s.idx <= n /\ s \in {t \in Bad : t.idx <= n}
  BY <1>2 DEF Done, Parser
<1>4. Left \in SUBSET Nat
  BY <1>3
<1>5. Bad = {}
  <2>1. SUFFICES ASSUME NEW b \in Bad PROVE FALSE
    OBVIOUS
  <2>2. Left # {}
    BY <1>3, <2>1
  <2>3. PICK m \in Left : \A k \in Left : m <= k
    BY <1>4, <2>2, LeastNumber
  <2>4. PICK s \in Bad : m = n + 1 - s.idx
    OBVIOUS
  <2>5. turn[s] \in Bad /\ turn[s].idx > s.idx
    BY <1>2
  <2>6. n + 1 - turn[s].idx \in Left
    BY <1>3, <2>5
  <2> HIDE DEF Left, Bad
  <2>7. m <= n + 1 - turn[s].idx
    BY <2>3, <2>6
  <2> QED
    BY <1>3, <2>4, <2>5, <2>7
<1> QED
  BY <1>5 DEF Ok

-----------------------------------------------------------------------------
(* The operations of the parser.                                           *)

\* Replacing a part of a sequence, or a position that it does not have, leaves a
\* sequence of the same length.
LEMMA SeqExcept ==
  ASSUME NEW S, NEW q \in Seq(S), NEW k \in Nat, NEW x, k \in 1 .. Len(q) => x \in S
  PROVE  /\ [q EXCEPT ![k] = x] \in Seq(S) /\ Len([q EXCEPT ![k] = x]) = Len(q)
         /\ \A j \in 1 .. Len(q) : [q EXCEPT ![k] = x][j] = IF j = k THEN x ELSE q[j]
<1>1. q \in [1 .. Len(q) -> S] /\ Len(q) \in Nat
  OBVIOUS
<1>2. [q EXCEPT ![k] = x] \in [1 .. Len(q) -> S]
  BY <1>1
<1>3. \A j \in 1 .. Len(q) : [q EXCEPT ![k] = x][j] = IF j = k THEN x ELSE q[j]
  BY <1>1
<1> QED
  BY <1>1, <1>2, <1>3

\* The ends of a task's streams.
LEMMA StreamEnds ==
  /\ NoFile \in Token /\ Origin \in IO
  /\ \A n \in Int : ToPipe(n) \in IO /\ ToUser(n) \in IO
  /\ \A t \in Token : ToFile(t) \in IO
<1>1. NoFile \in Token
  BY DEF NoFile, Token, Kinds
<1> QED
  BY <1>1 DEF IO, Origin, ToPipe, ToUser, ToFile

\* A parser with one of its components replaced.
LEMMA ParserParts ==
  ASSUME NEW s \in Parser
  PROVE  /\ s.idx \in Nat \ {0} /\ s.tasks \in Seq(Task) /\ Latest(s) \in Nat
         /\ \A n \in Nat : /\ Skip(s, n) \in Parser /\ Skip(s, n).idx = s.idx + n
                           /\ Skip(s, n).tasks = s.tasks /\ Skip(s, n).end = s.end
         /\ \A how \in {"none", "thrown", "outside"} :
              /\ Ends(s, how) \in Parser /\ Ends(s, how).idx = s.idx
              /\ Ends(s, how).tasks = s.tasks /\ Ends(s, how).end = how
<1>1. s.idx \in Nat \ {0} /\ s.tasks \in Seq(Task) /\ s.end \in {"none", "thrown", "outside"}
  BY DEF Parser
<1>2. Latest(s) \in Nat
  BY <1>1 DEF Latest
<1>3. ASSUME NEW n \in Nat
      PROVE  /\ Skip(s, n) \in Parser /\ Skip(s, n).idx = s.idx + n
             /\ Skip(s, n).tasks = s.tasks /\ Skip(s, n).end = s.end
  BY <1>1 DEF Skip, Parser
<1>4. ASSUME NEW how \in {"none", "thrown", "outside"}
      PROVE  /\ Ends(s, how) \in Parser /\ Ends(s, how).idx = s.idx
             /\ Ends(s, how).tasks = s.tasks /\ Ends(s, how).end = how
  BY <1>1 DEF Ends, Parser
<1> QED
  BY <1>1, <1>2, <1>3, <1>4

\* Going on by n tokens, and to the next.
LEMMA Onwards ==
  ASSUME NEW s \in Parser, NEW n \in Nat
  PROVE  Skip(s, n) \in Parser /\ Skip(s, n).idx = s.idx + n /\ Skip(s, n).tasks = s.tasks /\ Skip(s, n).end = s.end
BY ParserParts

LEMMA NextOne ==
  ASSUME NEW s \in Parser
  PROVE  Skip(s, 1) \in Parser /\ Skip(s, 1).idx = s.idx + 1 /\ Skip(s, 1).tasks = s.tasks /\ Skip(s, 1).end = s.end
<1>1. 1 \in Nat
  OBVIOUS
<1> QED
  BY ONLY <1>1, s \in Parser, Onwards

\* A new task.
LEMMA AddTask ==
  ASSUME NEW s \in Parser, NEW t \in Token
  PROVE  /\ Add(s, t) \in Parser /\ Add(s, t).idx = s.idx /\ Add(s, t).end = s.end
         /\ NewTask(t) \in Task /\ Add(s, t).tasks = Append(s.tasks, NewTask(t))
<1>1. NewTask(t) \in Task
  BY StreamEnds DEF NewTask, Task
<1>2. s.tasks \in Seq(Task) /\ Append(s.tasks, NewTask(t)) \in Seq(Task)
  BY <1>1, ParserParts
<1> QED
  BY <1>1, <1>2 DEF Add, Parser

\* The parser with its latest task replaced.
Replaced(s, task) == [s EXCEPT !.tasks = [s.tasks EXCEPT ![Latest(s)] = task]]

LEMMA ReplaceTask ==
  ASSUME NEW s \in Parser, NEW task, Latest(s) # 0 => task \in Task
  PROVE  /\ Replaced(s, task) \in Parser /\ Replaced(s, task).idx = s.idx /\ Replaced(s, task).end = s.end
         /\ Replaced(s, task).tasks = [s.tasks EXCEPT ![Latest(s)] = task]
<1>1. s.tasks \in Seq(Task) /\ Latest(s) \in Nat
  BY ParserParts
<1>2. [s.tasks EXCEPT ![Latest(s)] = task] \in Seq(Task)
  BY <1>1, SeqExcept
<1> QED
  BY <1>2 DEF Replaced, Parser

\* Each of the changes of the latest task is one, to a task.
LEMMA Changes ==
  ASSUME NEW s \in Parser, NEW io \in IO, NEW t \in Token
  PROVE  LET task == s.tasks[Latest(s)] IN
         /\ Latest(s) # 0 => /\ task \in Task
                             /\ [task EXCEPT !.args = Append(task.args, t)] \in Task
                             /\ [task EXCEPT !.out = io] \in Task
                             /\ [task EXCEPT !.out = io, !.err = io] \in Task
                             /\ [task EXCEPT !.in = io] \in Task
         /\ Arg(s, t)   = Replaced(s, [task EXCEPT !.args = Append(task.args, t)])
         /\ Out(s, io)  = Replaced(s, [task EXCEPT !.out = io])
         /\ Both(s, io) = Replaced(s, [task EXCEPT !.out = io, !.err = io])
         /\ In(s, io)   = Replaced(s, [task EXCEPT !.in = io])
<1> DEFINE task == s.tasks[Latest(s)]
<1>1. s.tasks \in Seq(Task) /\ Latest(s) \in Nat /\ Latest(s) = Len(s.tasks)
  BY ParserParts DEF Latest
<1>2. Latest(s) # 0 => task \in Task
  BY <1>1
<1>3. ASSUME task \in Task
      PROVE  /\ [task EXCEPT !.args = Append(task.args, t)] \in Task
             /\ [task EXCEPT !.out = io] \in Task
             /\ [task EXCEPT !.out = io, !.err = io] \in Task
             /\ [task EXCEPT !.in = io] \in Task
  <2> HIDE DEF task
  <2>1. /\ task.args \in Seq(Token) /\ Append(task.args, t) \in Seq(Token)
        /\ task = [args |-> task.args, in |-> task.in, out |-> task.out, err |-> task.err]
        /\ task.in \in IO /\ task.out \in IO /\ task.err \in IO
    BY <1>3 DEF Task
  <2>2. [task EXCEPT !.args = Append(task.args, t)]
          = [args |-> Append(task.args, t), in |-> task.in, out |-> task.out, err |-> task.err]
    BY <2>1
  <2>3. [task EXCEPT !.args = Append(task.args, t)] \in Task
    BY <2>1, <2>2 DEF Task
  <2>4. [task EXCEPT !.out = io] \in Task
    BY <1>3 DEF Task
  <2>5. [task EXCEPT !.out = io, !.err = io] \in Task
    BY <1>3 DEF Task
  <2>6. [task EXCEPT !.in = io] \in Task
    BY <1>3 DEF Task
  <2> QED
    BY <2>3, <2>4, <2>5, <2>6
<1>4. Arg(s, t)   = Replaced(s, [task EXCEPT !.args = Append(task.args, t)])
  BY <1>1 DEF Arg, Replaced
<1>5. Out(s, io)  = Replaced(s, [task EXCEPT !.out = io])
  BY <1>1 DEF Out, Replaced
<1>6. Both(s, io) = Replaced(s, [task EXCEPT !.out = io, !.err = io])
  BY <1>1 DEF Both, Replaced
<1>7. In(s, io)   = Replaced(s, [task EXCEPT !.in = io])
  BY <1>1 DEF In, Replaced
<1> QED
  BY <1>2, <1>3, <1>4, <1>5, <1>6, <1>7

\* They leave the parser where it is.
LEMMA ChangesStay ==
  ASSUME NEW s \in Parser, NEW io \in IO, NEW t \in Token
  PROVE  \A r \in {Add(s, t), Arg(s, t), Out(s, io), Both(s, io), In(s, io)} :
           r \in Parser /\ r.idx = s.idx /\ r.end = s.end
<1> DEFINE task == s.tasks[Latest(s)]
           Stays(r) == r \in Parser /\ r.idx = s.idx /\ r.end = s.end
           a == [task EXCEPT !.args = Append(task.args, t)]
           o == [task EXCEPT !.out = io]
           b == [task EXCEPT !.out = io, !.err = io]
           i == [task EXCEPT !.in = io]
<1>1. Stays(Add(s, t))
  BY AddTask
<1>2. /\ Latest(s) # 0 => a \in Task /\ o \in Task /\ b \in Task /\ i \in Task
      /\ Arg(s, t) = Replaced(s, a) /\ Out(s, io) = Replaced(s, o)
      /\ Both(s, io) = Replaced(s, b) /\ In(s, io) = Replaced(s, i)
  BY Changes
<1> HIDE DEF task, a, o, b, i
<1>3. Stays(Replaced(s, a)) /\ Stays(Replaced(s, o)) /\ Stays(Replaced(s, b)) /\ Stays(Replaced(s, i))
  BY <1>2, ReplaceTask
<1> QED
  BY <1>1, <1>2, <1>3

-----------------------------------------------------------------------------
(* The turns.                                                              *)

\* A turn at a token, in a file's name or at a number.
LEMMA TurnParts ==
  ASSUME NEW ts \in Seq(Token), NEW s \in Parser, ~Done(s, Len(ts))
  PROVE  /\ s.idx \in DOMAIN ts /\ ts[s.idx] \in Token /\ s.end = "none"
         /\ FileNext(ts, s) = IF s.idx = Len(ts) THEN Ends(s, "outside")
                              ELSE Skip(Out(s, ToFile(ts[s.idx + 1])), 1)
         /\ FileNext(ts, s) \in Parser /\ FileNext(ts, s).idx >= s.idx
         /\ s.idx # Len(ts) => ts[s.idx + 1] \in Token /\ FileNext(ts, s).end = "none"
<1>1. s.idx \in Nat \ {0} /\ Len(ts) \in Nat /\ DOMAIN ts = 1 .. Len(ts)
  BY ParserParts
<1>2. s.idx \in DOMAIN ts /\ ts[s.idx] \in Token /\ s.end = "none"
  BY <1>1 DEF Done
<1>3. CASE s.idx = Len(ts)
  <2>1. FileNext(ts, s) = Ends(s, "outside")
    BY <1>3 DEF FileNext
  <2> QED
    BY <1>1, <1>2, <1>3, <2>1, ParserParts
<1>4. CASE s.idx # Len(ts)
  <2>1. ts[s.idx + 1] \in Token
    BY <1>1, <1>2, <1>4
  <2> DEFINE r == Out(s, ToFile(ts[s.idx + 1]))
  <2>2. r \in Parser /\ r.idx = s.idx /\ r.end = s.end
    BY <2>1, ChangesStay, StreamEnds
  <2>3. FileNext(ts, s) = Skip(r, 1)
    BY <1>4 DEF FileNext
  <2> HIDE DEF r
  <2>4. Skip(r, 1) \in Parser /\ Skip(r, 1).idx = r.idx + 1 /\ Skip(r, 1).end = r.end
    BY <2>2, ParserParts
  <2>5. FileNext(ts, s) \in Parser /\ FileNext(ts, s).idx >= s.idx /\ FileNext(ts, s).end = "none"
    BY <1>1, <1>2, <2>2, <2>3, <2>4
  <2> QED
    BY <1>2, <1>4, <2>1, <2>3, <2>5 DEF r
<1> QED
  BY <1>3, <1>4

\* What a number is taken for.
LEMMA NumberParts ==
  ASSUME NEW s \in Parser, NEW t \in Token, NEW r, Fits(t.n) => r \in Parser /\ r.idx = s.idx /\ r.end = s.end
  PROVE  /\ Number(s, t, r) \in Parser /\ Number(s, t, r).idx = s.idx
         /\ Number(s, t, r).end = IF Fits(t.n) THEN s.end ELSE "thrown"
<1>1. CASE ~Fits(t.n)
  BY <1>1, ParserParts DEF Number
<1>2. CASE Fits(t.n)
  BY <1>2 DEF Number
<1> QED
  BY <1>1, <1>2

\* What a turn of StepSimple does before it goes to the next token.
SimpleAct(ts, s, t, r) ==
  \/ AfterPipe(ts, s.idx) /\ r = Add(s, t)
  \/ /\ ~AfterPipe(ts, s.idx)
     /\ \/ t.kind = "|"  /\ r = Out(s, ToPipe(0))
        \/ t.kind = ">"  /\ r = FileNext(ts, s)
        \/ t.kind = "|n" /\ r = Number(s, t, Out(s, ToPipe(t.n)))
        \/ t.kind = "!n" /\ r = Number(s, t, Both(s, ToPipe(t.n)))
        \/ t.kind \notin {"|", ">", "|n", "!n"} /\ r = Arg(s, t)

LEMMA SimpleTurn ==
  ASSUME NEW ts \in Seq(Token), NEW s \in Parser, ~Done(s, Len(ts))
  PROVE  \E r \in Parser :
           /\ SimpleAct(ts, s, ts[s.idx], r) /\ StepSimple(ts, s) = Skip(r, 1)
           /\ r.idx >= s.idx
           /\ r.end # "none" => \/ ts[s.idx].kind = ">" /\ s.idx = Len(ts)
                                \/ ts[s.idx].kind \in {"|n", "!n"} /\ ~Fits(ts[s.idx].n)
<1> DEFINE t == ts[s.idx]
<1>1. t \in Token /\ s.end = "none" /\ s.idx \in Nat
  BY TurnParts, ParserParts
<1>2. t.kind \in Kinds /\ t.n \in Int
  BY <1>1 DEF Token
<1> HIDE DEF t
<1>3. CASE AfterPipe(ts, s.idx)
  <2>1. StepSimple(ts, s) = Skip(Add(s, t), 1)
    BY <1>3 DEF StepSimple, t
  <2>2. Add(s, t) \in Parser /\ Add(s, t).idx = s.idx /\ Add(s, t).end = s.end
    BY <1>1, AddTask
  <2> QED
    BY <1>1, <1>3, <2>1, <2>2 DEF SimpleAct, t
<1>4. CASE ~AfterPipe(ts, s.idx) /\ t.kind = "|"
  <2>1. StepSimple(ts, s) = Skip(Out(s, ToPipe(0)), 1)
    BY <1>4 DEF StepSimple, t
  <2>2. ToPipe(0) \in IO
    BY StreamEnds
  <2>3. Out(s, ToPipe(0)) \in Parser /\ Out(s, ToPipe(0)).idx = s.idx /\ Out(s, ToPipe(0)).end = s.end
    BY <1>1, <2>2, ChangesStay
  <2> QED
    BY <1>1, <1>4, <2>1, <2>3 DEF SimpleAct, t
<1>5. CASE ~AfterPipe(ts, s.idx) /\ t.kind = ">"
  <2>1. StepSimple(ts, s) = Skip(FileNext(ts, s), 1)
    BY <1>5 DEF StepSimple, t
  <2> QED
    BY <1>1, <1>5, <2>1, TurnParts DEF SimpleAct, t
<1>6. CASE ~AfterPipe(ts, s.idx) /\ t.kind = "|n"
  <2> DEFINE r == Number(s, t, Out(s, ToPipe(t.n)))
  <2>1. StepSimple(ts, s) = Skip(r, 1)
    BY <1>6 DEF StepSimple, t
  <2>2. Fits(t.n) => LET o == Out(s, ToPipe(t.n)) IN o \in Parser /\ o.idx = s.idx /\ o.end = s.end
    BY <1>1, <1>2, ChangesStay, StreamEnds
  <2>3. r \in Parser /\ r.idx = s.idx /\ r.end = IF Fits(t.n) THEN s.end ELSE "thrown"
    BY <1>1, <2>2, NumberParts
  <2>4. SimpleAct(ts, s, t, r)
    BY <1>6 DEF SimpleAct
  <2> HIDE DEF r
  <2> QED
    BY <1>1, <1>6, <2>1, <2>3, <2>4 DEF t
<1>7. CASE ~AfterPipe(ts, s.idx) /\ t.kind = "!n"
  <2> DEFINE r == Number(s, t, Both(s, ToPipe(t.n)))
  <2>1. StepSimple(ts, s) = Skip(r, 1)
    BY <1>7 DEF StepSimple, t
  <2>2. Fits(t.n) => LET o == Both(s, ToPipe(t.n)) IN o \in Parser /\ o.idx = s.idx /\ o.end = s.end
    BY <1>1, <1>2, ChangesStay, StreamEnds
  <2>3. r \in Parser /\ r.idx = s.idx /\ r.end = IF Fits(t.n) THEN s.end ELSE "thrown"
    BY <1>1, <2>2, NumberParts
  <2>4. SimpleAct(ts, s, t, r)
    BY <1>7 DEF SimpleAct
  <2> HIDE DEF r
  <2> QED
    BY <1>1, <1>7, <2>1, <2>3, <2>4 DEF t
<1>8. CASE ~AfterPipe(ts, s.idx) /\ t.kind \notin {"|", ">", "|n", "!n"}
  <2>1. StepSimple(ts, s) = Skip(Arg(s, t), 1)
    BY <1>8 DEF StepSimple, t
  <2>2. Arg(s, t) \in Parser /\ Arg(s, t).idx = s.idx /\ Arg(s, t).end = s.end
    BY <1>1, ChangesStay, StreamEnds
  <2> QED
    BY <1>1, <1>8, <2>1, <2>2 DEF SimpleAct, t
<1> QED
  BY <1>3, <1>4, <1>5, <1>6, <1>7, <1>8

\* And a turn at a user pipe by itself.
UserAct(ts, s, t, r) ==
  /\ ~AfterPipe(ts, s.idx)
  /\ \/ t.kind = ">n" /\ r = Skip(Number(s, t, Out(s, ToUser(t.n))), 1)
     \/ t.kind = "<n" /\ r = Skip(Number(s, t, In(s, ToUser(t.n))), 1)

\* A number that is taken and the tokens passed with it.
LEMMA NumberPassed ==
  ASSUME NEW s \in Parser, s.end = "none", NEW t \in Token,
         NEW o, Fits(t.n) => o \in Parser /\ o.idx = s.idx /\ o.end = s.end, NEW k \in Nat
  PROVE  LET r == Skip(Number(s, t, o), k) IN
         r \in Parser /\ r.idx = s.idx + k /\ (r.end # "none" => ~Fits(t.n))
<1> DEFINE r == Number(s, t, o)
<1>1. r \in Parser /\ r.idx = s.idx /\ r.end = IF Fits(t.n) THEN s.end ELSE "thrown"
  BY NumberParts
<1> HIDE DEF r
<1>2. r \in Parser
  BY <1>1
<1>3. Skip(r, k) \in Parser /\ Skip(r, k).idx = r.idx + k /\ Skip(r, k).end = r.end
  BY ONLY <1>2, k \in Nat, Onwards
<1>4. Skip(r, k) \in Parser /\ Skip(r, k).idx = s.idx + k /\ (Skip(r, k).end # "none" => ~Fits(t.n))
  BY <1>1, <1>3
<1> QED
  BY <1>4 DEF r

LEMMA UserTurn ==
  ASSUME NEW ts \in Seq(Token), NEW s \in Parser, ~Done(s, Len(ts)),
         ~AfterPipe(ts, s.idx), ts[s.idx].kind \in {">n", "<n"}
  PROVE  LET r == OneToken(ts, s) IN
         /\ UserAct(ts, s, ts[s.idx], r) /\ r \in Parser /\ r.idx = s.idx + 1
         /\ r.end # "none" => ~Fits(ts[s.idx].n)
<1> DEFINE t == ts[s.idx]
<1>1. t \in Token /\ s.end = "none" /\ s.idx \in Nat /\ 1 \in Nat
  BY TurnParts, ParserParts
<1>2. ToUser(t.n) \in IO
  <2>1. t.n \in Int
    BY <1>1 DEF Token
  <2> QED
    BY <2>1, StreamEnds
<1> HIDE DEF t
<1>3. CASE t.kind = ">n"
  <2> DEFINE o == Out(s, ToUser(t.n))
  <2>1. OneToken(ts, s) = Skip(Number(s, t, o), 1)
    BY <1>3 DEF OneToken, t
  <2>2. UserAct(ts, s, t, OneToken(ts, s))
    BY <1>3, <2>1 DEF UserAct
  <2>3. o \in Parser /\ o.idx = s.idx /\ o.end = s.end
    BY <1>1, <1>2, ChangesStay
  <2> HIDE DEF o
  <2>4. LET r == Skip(Number(s, t, o), 1) IN r \in Parser /\ r.idx = s.idx + 1 /\ (r.end # "none" => ~Fits(t.n))
    BY ONLY <1>1, <2>3, s \in Parser, NumberPassed
  <2> QED
    BY <2>1, <2>2, <2>4 DEF t
<1>4. CASE t.kind = "<n"
  <2> DEFINE o == In(s, ToUser(t.n))
  <2>1. OneToken(ts, s) = Skip(Number(s, t, o), 1)
    BY <1>4 DEF OneToken, t
  <2>2. UserAct(ts, s, t, OneToken(ts, s))
    BY <1>4, <2>1 DEF UserAct
  <2>3. o \in Parser /\ o.idx = s.idx /\ o.end = s.end
    BY <1>1, <1>2, ChangesStay
  <2> HIDE DEF o
  <2>4. LET r == Skip(Number(s, t, o), 1) IN r \in Parser /\ r.idx = s.idx + 1 /\ (r.end # "none" => ~Fits(t.n))
    BY ONLY <1>1, <2>3, s \in Parser, NumberPassed
  <2> QED
    BY <2>1, <2>2, <2>4 DEF t
<1> QED
  BY <1>3, <1>4 DEF t

\* Any other token by itself is one of StepSimple.
LEMMA UserElse ==
  ASSUME NEW ts, NEW s, AfterPipe(ts, s.idx) \/ ts[s.idx].kind \notin {">n", "<n"}
  PROVE  OneToken(ts, s) = StepSimple(ts, s)
BY DEF OneToken

LEMMA OneAdvances ==
  ASSUME NEW ts \in Seq(Token), NEW s \in Parser, ~Done(s, Len(ts))
  PROVE  OneToken(ts, s) \in Parser /\ OneToken(ts, s).idx > s.idx
<1>1. s.idx \in Nat
  BY ParserParts
<1>2. CASE AfterPipe(ts, s.idx) \/ ts[s.idx].kind \notin {">n", "<n"}
  <2>1. PICK r \in Parser : StepSimple(ts, s) = Skip(r, 1) /\ r.idx >= s.idx
    BY SimpleTurn
  <2>2. Skip(r, 1) \in Parser /\ Skip(r, 1).idx = r.idx + 1 /\ r.idx \in Nat
    BY NextOne, ParserParts
  <2> QED
    BY <1>1, <1>2, <2>1, <2>2, UserElse
<1>3. CASE ~AfterPipe(ts, s.idx) /\ ts[s.idx].kind \in {">n", "<n"}
  <2>1. OneToken(ts, s) \in Parser /\ OneToken(ts, s).idx = s.idx + 1
    BY <1>3, UserTurn
  <2> QED
    BY <1>1, <2>1
<1> QED
  BY <1>2, <1>3

\* A `<n`, the `>` after it and the token after that.
LEMMA FileTurn ==
  ASSUME NEW ts \in Seq(Token), NEW s \in Parser, ~Done(s, Len(ts)), FromAndFile(ts, s.idx)
  PROVE  LET r == FromFile(ts, s) IN
         /\ r \in Parser /\ r.idx > s.idx
         /\ r.end # "none" => ts[s.idx].kind = "<n" /\ ~Fits(ts[s.idx].n)
<1> DEFINE t == ts[s.idx]
           i == In(s, ToUser(t.n))
           o == Out(i, ToFile(ts[s.idx + 1]))
<1>1. t \in Token /\ s.end = "none" /\ s.idx \in Nat /\ s.idx \in DOMAIN ts /\ Len(ts) \in Nat
  BY TurnParts, ParserParts
<1>2. t.kind = "<n" /\ ts[s.idx + 1] \in Token
  BY <1>1 DEF FromAndFile
<1>3. ToUser(t.n) \in IO /\ ToFile(ts[s.idx + 1]) \in IO
  <2>1. t.n \in Int
    BY <1>1 DEF Token
  <2> QED
    BY <1>2, <2>1, StreamEnds
<1>4. FromFile(ts, s) = Skip(Number(s, t, o), 3)
  BY DEF FromFile
<1> HIDE DEF t
<1>5. i \in Parser /\ i.idx = s.idx /\ i.end = s.end
  BY <1>1, <1>3, ChangesStay
<1> HIDE DEF i
<1>6. o \in Parser /\ o.idx = s.idx /\ o.end = s.end
  BY <1>1, <1>3, <1>5, ChangesStay
<1> HIDE DEF o
<1>7. LET r == Skip(Number(s, t, o), 3) IN r \in Parser /\ r.idx = s.idx + 3 /\ (r.end # "none" => ~Fits(t.n))
  <2>1. 3 \in Nat
    OBVIOUS
  <2> QED
    BY ONLY <1>1, <1>6, <2>1, s \in Parser, NumberPassed
<1>8. LET r == FromFile(ts, s) IN r \in Parser /\ r.idx = s.idx + 3 /\ (r.end # "none" => ~Fits(t.n))
  BY <1>4, <1>7
<1> QED
  BY <1>1, <1>2, <1>8 DEF t

\* A turn of StepUser stays where the turns that it is made of stay.
LEMMA UserStays ==
  ASSUME NEW ts \in Seq(Token), NEW I \in SUBSET Parser, NEW s \in I, ~Done(s, Len(ts)),
         \A p \in I : ~Done(p, Len(ts)) => OneToken(ts, p) \in I,
         FromAndFile(ts, s.idx) => FromFile(ts, s) \in I
  PROVE  StepUser(ts, s) \in I /\ StepUser(ts, s).idx > s.idx
<1> DEFINE one == OneToken(ts, s)
<1>1. s \in Parser /\ s.idx \in Nat /\ Len(ts) \in Nat
  BY ParserParts
<1>2. one \in I /\ one \in Parser /\ one.idx > s.idx
  BY <1>1, OneAdvances
<1>3. CASE FromAndFile(ts, s.idx)
  <2>1. StepUser(ts, s) = FromFile(ts, s)
    BY <1>3 DEF StepUser, FromAndFile, FromAndTo
  <2> QED
    BY <1>1, <1>3, <2>1, FileTurn
<1>4. CASE ~FromAndFile(ts, s.idx) /\ FromAndTo(ts, s.idx) /\ one.end = "none"
  <2>1. StepUser(ts, s) = OneToken(ts, one)
    BY <1>4 DEF StepUser, FromAndFile, FromAndTo
  <2>2. one.idx = s.idx + 1
    BY <1>1, <1>4, UserTurn DEF FromAndTo
  <2>3. ~Done(one, Len(ts))
    BY <1>1, <1>4, <2>2 DEF Done, FromAndTo
  <2> HIDE DEF one
  <2>4. OneToken(ts, one) \in I /\ OneToken(ts, one) \in Parser /\ OneToken(ts, one).idx > one.idx
    BY <1>2, <2>3, OneAdvances
  <2>5. OneToken(ts, one).idx \in Nat
    BY <2>4, ParserParts
  <2> QED
    BY <1>1, <2>1, <2>2, <2>4, <2>5
<1>5. CASE ~FromAndFile(ts, s.idx) /\ ~(FromAndTo(ts, s.idx) /\ one.end = "none")
  <2>1. StepUser(ts, s) = one
    BY <1>5 DEF StepUser
  <2> QED
    BY <1>2, <2>1
<1> QED
  BY <1>3, <1>4, <1>5

-----------------------------------------------------------------------------
(* The results of the loops.                                               *)

LEMMA StartIsParser == Start \in Parser /\ Start.idx = 1 /\ Start.tasks = <<>> /\ Start.end = "none"
BY DEF Start, Parser

\* What every turn keeps holds of the tasks of a line.
LEMMA SimpleLoop ==
  ASSUME NEW ts \in Seq(Token), NEW I \in SUBSET Parser, Start \in I,
         \A s \in I : ~Done(s, Len(ts)) => StepSimple(ts, s) \in I
  PROVE  ParseSimple(ts) \in I /\ Done(ParseSimple(ts), Len(ts))
<1> DEFINE turn == [s \in Parser |-> StepSimple(ts, s)]
           Eq(f) == f = [s \in Parser |-> IF s.end # "none" \/ s.idx > Len(ts) THEN s ELSE f[StepSimple(ts, s)]]
           run == CHOOSE f : Eq(f)
<1>1. ASSUME NEW s \in Parser, ~Done(s, Len(ts))
      PROVE  StepSimple(ts, s) \in Parser /\ StepSimple(ts, s).idx > s.idx
  <2>1. PICK r \in Parser : StepSimple(ts, s) = Skip(r, 1) /\ r.idx >= s.idx
    BY <1>1, SimpleTurn
  <2>2. Skip(r, 1) \in Parser /\ Skip(r, 1).idx = r.idx + 1 /\ r.idx \in Nat /\ s.idx \in Nat
    BY ParserParts
  <2> QED
    BY <2>1, <2>2
<1>2. Len(ts) \in Nat /\ Advances(turn, Len(ts))
  BY <1>1 DEF Advances
<1>3. ASSUME NEW f
      PROVE  Eq(f) <=> Runs(f, turn, Len(ts))
  BY DEF Runs, Done
<1>4. ParseSimple(ts) = run[Start]
  BY DEF ParseSimple, Loop
<1> HIDE DEF Eq
<1>5. \E f : Eq(f)
  BY <1>2, <1>3, RunExists
<1>6. Eq(run)
  BY <1>5
<1> HIDE DEF run
<1>7. Runs(run, turn, Len(ts))
  BY <1>3, <1>6
<1>8. \A s \in I : ~Done(s, Len(ts)) => turn[s] \in I /\ turn[s].idx > s.idx
  BY <1>1
<1> QED
  BY <1>2, <1>4, <1>7, <1>8, RunKeeps

\* The loop of ParseUser.
UserResult(ts) == Loop(ts, StepUser)

LEMMA UserLoop ==
  ASSUME NEW ts \in Seq(Token), NEW I \in SUBSET Parser, Start \in I,
         \A s \in I : ~Done(s, Len(ts)) => OneToken(ts, s) \in I,
         \A s \in I : ~Done(s, Len(ts)) /\ FromAndFile(ts, s.idx) => FromFile(ts, s) \in I
  PROVE  UserResult(ts) \in I /\ Done(UserResult(ts), Len(ts))
<1> DEFINE turn == [s \in Parser |-> StepUser(ts, s)]
           Eq(f) == f = [s \in Parser |-> IF s.end # "none" \/ s.idx > Len(ts) THEN s ELSE f[StepUser(ts, s)]]
           run == CHOOSE f : Eq(f)
<1>1. ASSUME NEW s \in Parser, ~Done(s, Len(ts))
      PROVE  StepUser(ts, s) \in Parser /\ StepUser(ts, s).idx > s.idx
  <2>1. \A p \in Parser : ~Done(p, Len(ts)) => OneToken(ts, p) \in Parser
    BY OneAdvances
  <2>2. FromAndFile(ts, s.idx) => FromFile(ts, s) \in Parser
    BY <1>1, FileTurn
  <2> QED
    BY <1>1, <2>1, <2>2, UserStays
<1>2. Len(ts) \in Nat /\ Advances(turn, Len(ts))
  BY <1>1 DEF Advances
<1>3. ASSUME NEW f
      PROVE  Eq(f) <=> Runs(f, turn, Len(ts))
  BY DEF Runs, Done
<1>4. UserResult(ts) = run[Start]
  BY DEF UserResult, Loop
<1> HIDE DEF Eq
<1>5. \E f : Eq(f)
  BY <1>2, <1>3, RunExists
<1>6. Eq(run)
  BY <1>5
<1> HIDE DEF run
<1>7. Runs(run, turn, Len(ts))
  BY <1>3, <1>6
<1>8. \A s \in I : ~Done(s, Len(ts)) => turn[s] \in I /\ turn[s].idx > s.idx
  <2>1. ASSUME NEW s \in I, ~Done(s, Len(ts))
        PROVE  StepUser(ts, s) \in I /\ StepUser(ts, s).idx > s.idx
    BY <2>1, UserStays
  <2> QED
    BY <2>1
<1> HIDE DEF turn
<1> QED
  BY <1>2, <1>4, <1>7, <1>8, RunKeeps

\* An end before the end of the line is one that Misleads names.
LEMMA SimpleEnds ==
  ASSUME NEW ts \in Seq(Token)
  PROVE  ParseSimple(ts) \in Parser /\ (ParseSimple(ts).end # "none" => Misleads("simple", ts))
<1> DEFINE I == {s \in Parser : s.end # "none" => Misleads("simple", ts)}
<1>1. Start \in I
  BY StartIsParser
<1>2. ASSUME NEW s \in I, ~Done(s, Len(ts))
      PROVE  StepSimple(ts, s) \in I
  <2>1. PICK r \in Parser :
          /\ StepSimple(ts, s) = Skip(r, 1)
          /\ r.end # "none" => \/ ts[s.idx].kind = ">" /\ s.idx = Len(ts)
                               \/ ts[s.idx].kind \in {"|n", "!n"} /\ ~Fits(ts[s.idx].n)
    BY <1>2, SimpleTurn
  <2>2. Skip(r, 1) \in Parser /\ Skip(r, 1).end = r.end
    BY NextOne
  <2>3. s.idx \in DOMAIN ts
    BY <1>2, TurnParts
  <2> QED
    BY <2>1, <2>2, <2>3 DEF Misleads
<1> HIDE DEF I
<1>3. I \in SUBSET Parser
  BY DEF I
<1>4. ParseSimple(ts) \in I
  BY <1>1, <1>2, <1>3, SimpleLoop
<1> QED
  BY <1>4 DEF I

LEMMA UserEnds ==
  ASSUME NEW ts \in Seq(Token), ParseUser(ts).end # "none"
  PROVE  Misleads("user", ts)
<1> DEFINE I == {s \in Parser : s.end # "none" => Misleads("user", ts)}
<1>0. \A r \in Parser : Skip(r, 1) \in Parser /\ Skip(r, 1).end = r.end
  BY NextOne
<1>1. Start \in I
  BY StartIsParser
<1>2. ASSUME NEW s \in I, ~Done(s, Len(ts))
      PROVE  OneToken(ts, s) \in I /\ (FromAndFile(ts, s.idx) => FromFile(ts, s) \in I)
  <2>1. s.idx \in DOMAIN ts
    BY <1>2, TurnParts
  <2>2. CASE AfterPipe(ts, s.idx) \/ ts[s.idx].kind \notin {">n", "<n"}
    <3>1. PICK r \in Parser :
            /\ StepSimple(ts, s) = Skip(r, 1)
            /\ r.end # "none" => \/ ts[s.idx].kind = ">" /\ s.idx = Len(ts)
                                 \/ ts[s.idx].kind \in {"|n", "!n"} /\ ~Fits(ts[s.idx].n)
      BY <1>2, SimpleTurn
    <3>2. OneToken(ts, s) \in I
      BY <1>0, <2>1, <2>2, <3>1, UserElse DEF Misleads
    <3> QED
      BY <1>2, <2>1, <3>2, FileTurn DEF Misleads
  <2>3. CASE ~AfterPipe(ts, s.idx) /\ ts[s.idx].kind \in {">n", "<n"}
    <3>1. OneToken(ts, s) \in Parser /\ (OneToken(ts, s).end # "none" => ~Fits(ts[s.idx].n))
      BY <1>2, <2>3, UserTurn
    <3>2. OneToken(ts, s) \in I
      BY <2>1, <2>3, <3>1 DEF Misleads
    <3> QED
      BY <1>2, <2>1, <3>2, FileTurn DEF Misleads
  <2> QED
    BY <2>2, <2>3
<1> HIDE DEF I
<1>3. I \in SUBSET Parser
  BY DEF I
<1>4. UserResult(ts) \in I
  BY <1>1, <1>2, <1>3, UserLoop
<1>5. CASE ts = <<>>
  BY <1>5 DEF Misleads
<1>6. CASE ts # <<>>
  <2>1. ts[1] \in Token
    BY <1>6
  <2>2. Add(Start, ts[1]).end = "none"
    BY <2>1, StartIsParser, AddTask
  <2>3. ts[1].kind # "who" /\ ts[1].kind # "chat"
    <3>1. CASE ts[1].kind = "who"
      BY <1>6, <2>2, <3>1 DEF ParseUser
    <3>2. CASE ts[1].kind = "chat" /\ ts[1].kind # "who"
      <4>1. Add(Start, ts[1]) \in Parser
        BY <2>1, StartIsParser, AddTask
      <4>2. [Add(Start, ts[1]) EXCEPT !.tasks[1].args = ts].end = Add(Start, ts[1]).end
        BY <4>1 DEF Parser
      <4> QED
        BY <1>6, <2>2, <3>2, <4>2 DEF ParseUser
    <3> QED
      BY <3>1, <3>2
  <2>4. ParseUser(ts) = UserResult(ts)
    BY <1>6, <2>3 DEF ParseUser, UserResult
  <2> QED
    BY <1>4, <2>4 DEF I
<1> QED
  BY <1>5, <1>6

-----------------------------------------------------------------------------
(* Segments and words.                                                     *)

\* The bars before a token: one more after a bar.
LEMMA BeforeNext ==
  ASSUME NEW ts \in Seq(Token)
  PROVE  /\ Bars(ts) \subseteq 1 .. Len(ts) /\ IsFiniteSet(Bars(ts)) /\ Cardinality(Bars(ts)) \in Nat
         /\ Before(ts, 1) = 0 /\ Before(ts, Len(ts) + 1) = Cardinality(Bars(ts))
         /\ \A i \in Nat : Before(ts, i) \in Nat
         /\ \A i \in DOMAIN ts : Before(ts, i + 1) = IF ts[i].kind = "|" THEN Before(ts, i) + 1 ELSE Before(ts, i)
         /\ \A i, j \in Nat : i <= j => Before(ts, i) <= Before(ts, j)
<1> DEFINE B(i) == {j \in Bars(ts) : j < i}
<1>1. Len(ts) \in Nat /\ DOMAIN ts = 1 .. Len(ts)
  OBVIOUS
<1>2. Bars(ts) \subseteq 1 .. Len(ts) /\ \A j \in Bars(ts) : j \in Nat /\ j >= 1 /\ j <= Len(ts)
  BY <1>1 DEF Bars
<1>3. IsFiniteSet(Bars(ts))
  <2>1. IsFiniteSet(1 .. Len(ts))
    BY <1>1, FS_Interval
  <2> QED
    BY <1>2, <2>1, FS_Subset
<1>4. \A i : B(i) \subseteq Bars(ts) /\ IsFiniteSet(B(i)) /\ Cardinality(B(i)) \in Nat
  BY <1>3, FS_Subset, FS_CardinalityType
<1>5. B(1) = {} /\ B(Len(ts) + 1) = Bars(ts)
  BY <1>1, <1>2
<1>6. ASSUME NEW i \in DOMAIN ts
      PROVE  Cardinality(B(i + 1)) = IF ts[i].kind = "|" THEN Cardinality(B(i)) + 1 ELSE Cardinality(B(i))
  <2>1. CASE ts[i].kind = "|"
    <3>1. B(i + 1) = B(i) \cup {i} /\ i \notin B(i)
      BY <1>1, <1>2, <2>1 DEF Bars
    <3> QED
      BY <1>4, <2>1, <3>1, FS_AddElement
  <2>2. CASE ts[i].kind # "|"
    <3>1. B(i + 1) = B(i)
      BY <1>1, <1>2, <2>2 DEF Bars
    <3> QED
      BY <2>2, <3>1
  <2> QED
    BY <2>1, <2>2
<1>7. ASSUME NEW i \in Nat, NEW j \in Nat, i <= j
      PROVE  Cardinality(B(i)) <= Cardinality(B(j))
  <2>1. B(i) \subseteq B(j)
    BY <1>2, <1>7
  <2> QED
    BY <1>4, <2>1, FS_Subset
<1>8. \A i : Before(ts, i) = Cardinality(B(i))
  BY DEF Before
<1>9. Before(ts, 1) = 0
  BY <1>5, <1>8, FS_EmptySet
<1> HIDE DEF B
<1> QED
  BY <1>2, <1>3, <1>4, <1>5, <1>6, <1>7, <1>8, <1>9, FS_CardinalityType

\* A value more at the end of a sequence.
LEMMA AppendIs ==
  ASSUME NEW S, NEW q \in Seq(S), NEW x \in S, NEW n \in Nat, n = Len(q)
  PROVE  Append(q, x) = [k \in 1 .. n + 1 |-> IF k <= n THEN q[k] ELSE x]
<1> DEFINE f == Append(q, x)
<1>1. /\ f \in Seq(S) /\ Len(f) = n + 1 /\ \A k \in 1 .. n : f[k] = q[k]
      /\ f[n + 1] = x
  BY AppendProperties
<1> HIDE DEF f
<1>2. f = [k \in 1 .. n + 1 |-> f[k]]
  BY <1>1
<1>3. \A k \in 1 .. n + 1 : f[k] = IF k <= n THEN q[k] ELSE x
  BY <1>1
<1>4. f = [k \in 1 .. n + 1 |-> IF k <= n THEN q[k] ELSE x]
  BY <1>2, <1>3
<1> QED
  BY <1>4 DEF f

\* A token more among those that are ordered, after them.
LEMMA OrderedNext ==
  ASSUME NEW ts, NEW p \in Nat, NEW S \in SUBSET (1 .. p), NEW q \in Nat, q > p
  PROVE  /\ Ordered(ts, S \cup {q}) = Append(Ordered(ts, S), ts[q])
         /\ Ordered(ts, {}) = <<>>
<1> DEFINE Rank(T, i) == Cardinality({m \in T : m < i})
           At(T, r)   == {i \in T : Rank(T, i) = r}
           n == Cardinality(S)
           U == S \cup {q}
<1>1. IsFiniteSet(S) /\ n \in Nat /\ q \notin S /\ \A i \in S : i \in Nat /\ i < q
  <2>1. IsFiniteSet(1 .. p)
    BY FS_Interval
  <2>2. IsFiniteSet(S)
    BY <2>1, FS_Subset
  <2>3. \A i \in S : i \in Nat /\ i < q
    OBVIOUS
  <2> QED
    BY <2>2, <2>3, FS_CardinalityType
<1>2. Cardinality(U) = n + 1
  BY <1>1, FS_AddElement
<1>3. Rank(U, q) = n
  <2>1. {m \in U : m < q} = S
    <3> HIDE DEF Rank, At, n
    <3>1. ASSUME NEW m \in S PROVE m \in U /\ m < q
      BY <1>1
    <3>2. ASSUME NEW m \in U, m < q PROVE m \in S
      BY <3>2
    <3> QED
      BY <3>1, <3>2
  <2> QED
    BY <2>1
<1>4. ASSUME NEW i \in S
      PROVE  Rank(U, i) = Rank(S, i) /\ Rank(S, i) \in Nat /\ Rank(S, i) < n
  <2>1. {m \in U : m < i} = {m \in S : m < i}
    BY <1>1
  <2>2. {m \in S : m < i} \subseteq S \ {i} /\ IsFiniteSet(S \ {i})
    BY <1>1, FS_Subset
  <2>3. Cardinality(S \ {i}) = n - 1
    BY <1>1, FS_RemoveElement
  <2>4. Rank(S, i) \in Nat /\ Rank(S, i) <= n - 1
    BY <2>2, <2>3, FS_Subset, FS_CardinalityType
  <2> QED
    BY <1>1, <2>1, <2>4
<1> HIDE DEF Rank
<1>5. ASSUME NEW r, r # n
      PROVE  At(U, r) = At(S, r)
  BY <1>3, <1>4, <1>5
<1>6. At(U, n) = {q}
  <2> HIDE DEF n
  <2>1. \A i \in U : Rank(U, i) = n <=> i = q
    BY <1>1, <1>3, <1>4
  <2>2. q \in U
    OBVIOUS
  <2> HIDE DEF U
  <2> QED
    BY <2>1, <2>2
<1>7. The({q}) = q
  BY DEF The
<1>8. \A T : Ordered(ts, T) = [j \in 1 .. Cardinality(T) |-> ts[The(At(T, j - 1))]]
  BY DEF Ordered, Rank
<1> HIDE DEF At
<1> DEFINE f == Ordered(ts, S)
           E(j) == ts[The(At(S, j - 1))]
           G(j) == ts[The(At(U, j - 1))]
           V == {E(j) : j \in 1 .. n}
<1>9. f \in Seq(V) /\ Len(f) = n /\ \A j \in 1 .. n : f[j] = E(j)
  <2>1. f = [j \in 1 .. n |-> E(j)]
    BY <1>8
  <2> HIDE DEF E, f, n
  <2>2. f \in [1 .. n -> V]
    BY <2>1
  <2> HIDE DEF V
  <2> QED
    BY <1>1, <2>1, <2>2
<1>10. Ordered(ts, U) = [j \in 1 .. n + 1 |-> IF j <= n THEN f[j] ELSE ts[q]]
  <2>1. \A j \in 1 .. n + 1 : G(j) = IF j <= n THEN f[j] ELSE ts[q]
    <3> HIDE DEF f, V, U, n, E, G
    <3>1. \A j \in 1 .. n + 1 : (j \in 1 .. n /\ j <= n) \/ (j = n + 1 /\ ~(j <= n))
      BY <1>1
    <3>2. \A j \in 1 .. n : G(j) = f[j]
      <4>1. \A j \in 1 .. n : j - 1 # n
        BY <1>1
      <4> QED
        BY <1>5, <1>9, <4>1 DEF E, G
    <3>3. G(n + 1) = ts[q]
      <4>1. (n + 1) - 1 = n
        BY <1>1
      <4> QED
        BY <1>6, <1>7, <4>1 DEF G
    <3>4. SUFFICES ASSUME NEW j \in 1 .. n + 1
                   PROVE  G(j) = IF j <= n THEN f[j] ELSE ts[q]
      OBVIOUS
    <3>5. CASE j \in 1 .. n /\ j <= n
      BY <3>2, <3>5
    <3>6. CASE j = n + 1 /\ ~(j <= n)
      BY <3>3, <3>6
    <3> QED
      BY <3>1, <3>5, <3>6
  <2>2. Ordered(ts, U) = [j \in 1 .. n + 1 |-> G(j)]
    BY <1>2, <1>8
  <2> QED
    BY <2>1, <2>2
<1>11. Append(f, ts[q]) = [j \in 1 .. n + 1 |-> IF j <= n THEN f[j] ELSE ts[q]]
  <2> HIDE DEF f, V, n
  <2> DEFINE W == V \cup {ts[q]}
  <2>1. f \in Seq(W) /\ ts[q] \in W
    BY <1>9
  <2> HIDE DEF W
  <2> QED
    BY <1>1, <1>9, <2>1, AppendIs
<1>12. Ordered(ts, {}) = <<>>
  <2>1. Cardinality({}) = 0
    BY FS_EmptySet
  <2> QED
    BY <1>8, <2>1
<1> QED
  BY <1>10, <1>11, <1>12

\* A token that is a word of its segment.
Counts(grammar, ts, i) ==
  /\ ~IsName(ts, i) /\ ts[i].kind \notin Redirects(grammar) \cup {"|"}
  /\ ~(grammar = "user" /\ ts[i].kind = "<n")

\* A task is what its bars, redirections and words are.
LEMMA TaskSame ==
  ASSUME NEW grammar, NEW ts, NEW P, NEW Q, NEW k,
         \A kinds \in {{"|"}, Redirects(grammar), {"!n"}} : Of(ts, P, k, kinds) = Of(ts, Q, k, kinds),
         grammar = "user" => Of(ts, P, k, {"<n"}) = Of(ts, Q, k, {"<n"}),
         Words(grammar, ts, P, k) = Words(grammar, ts, Q, k)
  PROVE  TaskAt(grammar, ts, P, k) = TaskAt(grammar, ts, Q, k)
<1>1. Of(ts, P, k, {"|"}) = Of(ts, Q, k, {"|"})
  OBVIOUS
<1>2. Of(ts, P, k, Redirects(grammar)) = Of(ts, Q, k, Redirects(grammar))
  OBVIOUS
<1>3. Of(ts, P, k, {"!n"}) = Of(ts, Q, k, {"!n"})
  OBVIOUS
<1>4. Goes(grammar, ts, P, k) = Goes(grammar, ts, Q, k)
  BY <1>1, <1>2 DEF Goes
<1> QED
  BY <1>3, <1>4 DEF TaskAt

\* So are the parts of a task.
LEMMA TaskParts ==
  ASSUME NEW grammar, NEW ts, NEW P, NEW k
  PROVE  LET from == Of(ts, P, k, {"<n"})
             last == Of(ts, P, k, Redirects(grammar))
             task == TaskAt(grammar, ts, P, k) IN
         /\ task = [args |-> task.args, in |-> task.in, out |-> task.out, err |-> task.err]
         /\ task.args = Ordered(ts, Words(grammar, ts, P, k))
         /\ task.in = IF grammar = "user" /\ from # {} THEN ToUser(ts[The(from)].n) ELSE Origin
         /\ task.out = Goes(grammar, ts, P, k)
         /\ task.err = IF Of(ts, P, k, {"!n"}) # {} THEN task.out ELSE Origin
         /\ Of(ts, P, k, {"|"}) # {} => task.out = ToPipe(0)
         /\ Of(ts, P, k, {"|"}) = {} => task.out = IF last = {} THEN Origin ELSE Redirected(ts, The(last))
<1>1. TaskAt(grammar, ts, P, k).out = Goes(grammar, ts, P, k)
  BY DEF TaskAt
<1> QED
  BY <1>1 DEF TaskAt, Goes

\* What the grammar says of a token.
IsWordIn(grammar, t) ==
  t.kind \in {"word", "who", "chat"} \/ (grammar = "simple" /\ t.kind \in {">n", "<n"})

LEMMA Grammar ==
  ASSUME NEW grammar \in {"simple", "user"}, NEW ts \in Seq(Token), InGrammar(grammar, ts), NEW i \in DOMAIN ts
  PROVE  /\ AfterPipe(ts, i) => IsWordIn(grammar, ts[i])
         /\ IsWordIn(grammar, ts[i]) => /\ ts[i].kind \notin Redirects(grammar) \cup {"|"}
                                        /\ ~(grammar = "user" /\ ts[i].kind = "<n")
         /\ ts[i].kind \in {"|n", "!n", ">n", "<n"} /\ ~IsWordIn(grammar, ts[i]) => Fits(ts[i].n) /\ ts[i].n \in Int
         /\ ts[i].kind = ">" => i < Len(ts) /\ ts[i + 1].kind = "word"
         /\ grammar = "user" /\ ts[i].kind = "<n" => ~FromAndFile(ts, i)
         /\ ts[i].kind \in Redirects(grammar) =>
              /\ Before(ts, i) = Cardinality(Bars(ts))
              /\ \A j \in DOMAIN ts : ts[j].kind \in Redirects(grammar) => j = i
         /\ grammar = "user" /\ ts[i].kind = "<n" => \A j \in DOMAIN ts : ts[j].kind = "<n" => j = i
         /\ ts # <<>> /\ ts[Len(ts)].kind # "|" /\ (grammar = "user" => ts[1].kind = "word")
<1> DEFINE Ending == {j \in DOMAIN ts : ts[j].kind \in Redirects(grammar)}
           From   == {j \in DOMAIN ts : grammar = "user" /\ ts[j].kind = "<n"}
           Word(j) == ts[j].kind \in {"word", "who", "chat"} \/ (grammar = "simple" /\ ts[j].kind \in {">n", "<n"})
<1>1. /\ ts # <<>> /\ Cardinality(Ending) <= 1 /\ Cardinality(From) <= 1
      /\ ts[Len(ts)].kind # "|" /\ (grammar = "user" => ts[1].kind = "word")
  BY DEF InGrammar
<1>2. \A j \in DOMAIN ts :
        /\ j = 1 \/ ts[j - 1].kind = "|" => Word(j)
        /\ ts[j].kind \in {"|n", "!n", ">n", "<n"} /\ ~Word(j) => Fits(ts[j].n)
        /\ ts[j].kind = ">" => j < Len(ts) /\ ts[j + 1].kind = "word" /\ (j > 1 => j - 1 \notin From)
        /\ j \in Ending => Before(ts, j) = Cardinality(Bars(ts))
  BY DEF InGrammar
<1>3. DOMAIN ts = 1 .. Len(ts) /\ Len(ts) \in Nat /\ ts[i] \in Token
  OBVIOUS
<1>4. ASSUME NEW S \in SUBSET DOMAIN ts, Cardinality(S) <= 1, NEW j \in S, NEW m \in S
      PROVE  j = m
  <2>1. IsFiniteSet(DOMAIN ts)
    BY <1>3, FS_Interval
  <2>2. IsFiniteSet(S) /\ Cardinality(S) \in Nat
    BY <2>1, FS_Subset, FS_CardinalityType
  <2>3. ASSUME j # m PROVE FALSE
    <3> DEFINE both == {j} \cup {m}
    <3>1. Cardinality(both) = 1 + 1
      <4>1. Cardinality({j}) = 1 /\ IsFiniteSet({j})
        BY FS_Singleton
      <4>2. m \notin {j}
        BY <2>3
      <4> QED
        BY <4>1, <4>2, FS_AddElement
    <3>2. both \subseteq S
      OBVIOUS
    <3> HIDE DEF both
    <3>3. Cardinality(both) <= Cardinality(S)
      BY <2>2, <3>2, FS_Subset
    <3> QED
      BY <1>4, <2>2, <3>1, <3>3
  <2> QED
    BY <2>3
<1>5. \A j, m \in Ending : j = m
  BY <1>1, <1>4
<1>6. \A j, m \in From : j = m
  BY <1>1, <1>4
<1>7. AfterPipe(ts, i) => IsWordIn(grammar, ts[i])
  BY <1>2 DEF AfterPipe, IsWordIn
<1>8. IsWordIn(grammar, ts[i]) => /\ ts[i].kind \notin Redirects(grammar) \cup {"|"}
                                  /\ ~(grammar = "user" /\ ts[i].kind = "<n")
  BY DEF IsWordIn, Redirects
<1>9. ts[i].kind \in {"|n", "!n", ">n", "<n"} /\ ~IsWordIn(grammar, ts[i]) => Fits(ts[i].n) /\ ts[i].n \in Int
  BY <1>2, <1>3 DEF IsWordIn, Token
<1>10. grammar = "user" /\ ts[i].kind = "<n" => ~FromAndFile(ts, i)
  <2>1. SUFFICES ASSUME grammar = "user", ts[i].kind = "<n", i < Len(ts), ts[i + 1].kind = ">" PROVE FALSE
    BY DEF FromAndFile
  <2>2. i + 1 \in DOMAIN ts /\ i + 1 > 1 /\ (i + 1) - 1 = i
    BY <1>3, <2>1
  <2>3. i \notin From
    BY <1>2, <2>1, <2>2
  <2> QED
    BY <2>1, <2>3
<1>11. ts[i].kind \in Redirects(grammar) =>
         /\ Before(ts, i) = Cardinality(Bars(ts))
         /\ \A j \in DOMAIN ts : ts[j].kind \in Redirects(grammar) => j = i
  BY <1>2, <1>5
<1>12. grammar = "user" /\ ts[i].kind = "<n" => \A j \in DOMAIN ts : ts[j].kind = "<n" => j = i
  BY <1>6
<1> QED
  BY <1>1, <1>2, <1>7, <1>8, <1>9, <1>10, <1>11, <1>12

-----------------------------------------------------------------------------
(* How a task grows with the tokens that have been seen.                   *)

\* The tasks begun by the first p tokens, and what they are.
Begun(ts, p) == IF p = 0 THEN 0 ELSE Before(ts, p) + 1
Upto(grammar, ts, p) == [k \in 1 .. Begun(ts, p) |-> TaskAt(grammar, ts, 1 .. p, k - 1)]

\* A token says nothing of other segments.
LEMMA TaskElsewhere ==
  ASSUME NEW grammar, NEW ts \in Seq(Token), NEW i \in DOMAIN ts, NEW k, k # Before(ts, i)
  PROVE  TaskAt(grammar, ts, 1 .. i, k) = TaskAt(grammar, ts, 1 .. i - 1, k)
<1>1. 1 .. i = (1 .. i - 1) \cup {i}
  OBVIOUS
<1> DEFINE P == 1 .. i - 1
<1> HIDE DEF P
<1> DEFINE Q == P \cup {i}
<1>2. /\ \A kinds : Of(ts, Q, k, kinds) = Of(ts, P, k, kinds)
      /\ Words(grammar, ts, Q, k) = Words(grammar, ts, P, k)
  <2>1. ASSUME NEW kinds PROVE Of(ts, Q, k, kinds) = Of(ts, P, k, kinds)
    BY DEF Of
  <2>2. Words(grammar, ts, Q, k) = Words(grammar, ts, P, k)
    BY DEF Words
  <2> QED
    BY <2>1, <2>2
<1> HIDE DEF Q
<1>3. TaskAt(grammar, ts, Q, k) = TaskAt(grammar, ts, P, k)
  BY <1>2, TaskSame
<1> QED
  BY <1>1, <1>3 DEF P, Q

\* The first token after a bar begins a task.
LEMMA TaskBegins ==
  ASSUME NEW grammar \in {"simple", "user"}, NEW ts \in Seq(Token), InGrammar(grammar, ts), NEW i \in DOMAIN ts,
         AfterPipe(ts, i), ~IsName(ts, i)
  PROVE  /\ Before(ts, i) \in Nat /\ Begun(ts, i - 1) = Before(ts, i) /\ Begun(ts, i) = Before(ts, i) + 1
         /\ TaskAt(grammar, ts, 1 .. i, Before(ts, i)) = NewTask(ts[i])
<1> DEFINE k == Before(ts, i)
           P == 1 .. i - 1
<1>1. i \in Nat /\ i >= 1 /\ DOMAIN ts = 1 .. Len(ts) /\ Len(ts) \in Nat
  OBVIOUS
<1>2. k \in Nat /\ Begun(ts, i - 1) = k /\ Begun(ts, i) = k + 1
  <2>1. CASE i = 1
    BY <2>1, BeforeNext DEF Begun
  <2>2. CASE i # 1
    <3>1. i - 1 \in DOMAIN ts /\ ts[i - 1].kind = "|" /\ (i - 1) + 1 = i
      BY <1>1, <2>2 DEF AfterPipe
    <3>2. Before(ts, (i - 1) + 1) = Before(ts, i - 1) + 1
      BY <3>1, BeforeNext
    <3> QED
      BY <1>1, <2>2, <3>1, <3>2, BeforeNext DEF Begun
  <2> QED
    BY <2>1, <2>2
<1>3. \A j \in P : Before(ts, j) # k
  <2>1. SUFFICES ASSUME NEW j \in P PROVE Before(ts, j) < k
    BY <1>2, BeforeNext
  <2>2. i # 1 /\ i - 1 \in DOMAIN ts /\ ts[i - 1].kind = "|" /\ (i - 1) + 1 = i
    BY <1>1 DEF AfterPipe
  <2>3. Before(ts, (i - 1) + 1) = Before(ts, i - 1) + 1
    BY <2>2, BeforeNext
  <2>4. j \in Nat /\ i - 1 \in Nat /\ j <= i - 1
    BY <1>1
  <2>5. Before(ts, j) <= Before(ts, i - 1) /\ Before(ts, j) \in Nat /\ Before(ts, i - 1) \in Nat
    BY <2>4, BeforeNext
  <2> QED
    BY <2>2, <2>3, <2>5
<1>4. 1 .. i = P \cup {i}
  BY <1>1
<1> HIDE DEF P
<1>5. (\A kinds : Of(ts, P, k, kinds) = {}) /\ Words(grammar, ts, P, k) = {}
  BY <1>3 DEF Of, Words
<1>6. ts[i].kind \notin Redirects(grammar) \cup {"|"} /\ ~(grammar = "user" /\ ts[i].kind = "<n")
  BY Grammar
<1>7. ts[i].kind \notin Redirects(grammar) /\ ts[i].kind # "|" /\ ts[i].kind # "!n" /\ Counts(grammar, ts, i)
  BY <1>6 DEF Counts, Redirects
<1> DEFINE Q == P \cup {i}
<1>8. /\ Of(ts, Q, k, {"|"}) = {} /\ Of(ts, Q, k, Redirects(grammar)) = {} /\ Of(ts, Q, k, {"!n"}) = {}
      /\ grammar = "user" => Of(ts, Q, k, {"<n"}) = {}
      /\ Words(grammar, ts, Q, k) = {i}
  <2>1. ASSUME NEW kinds, ts[i].kind \notin kinds PROVE Of(ts, Q, k, kinds) = Of(ts, P, k, kinds)
    BY <2>1 DEF Of
  <2>2. Words(grammar, ts, Q, k) = Words(grammar, ts, P, k) \cup {i}
    BY <1>7 DEF Words, Counts
  <2> HIDE DEF Q, k
  <2>3. \A kinds : ts[i].kind \notin kinds => Of(ts, Q, k, kinds) = {}
    BY <1>5, <2>1
  <2>4. Words(grammar, ts, Q, k) = {i}
    BY <1>5, <2>2
  <2>5. ts[i].kind \notin {"|"} /\ ts[i].kind \notin {"!n"} /\ (grammar = "user" => ts[i].kind \notin {"<n"})
    BY <1>6, <1>7
  <2> QED
    BY <1>7, <2>3, <2>4, <2>5
<1>9. Ordered(ts, {i}) = <<ts[i]>>
  <2>1. Ordered(ts, {} \cup {i}) = Append(<<>>, ts[i])
    <3>1. {} \in SUBSET (1 .. 0) /\ i > 0 /\ 0 \in Nat /\ i \in Nat
      BY <1>1
    <3>2. Ordered(ts, {} \cup {i}) = Append(Ordered(ts, {}), ts[i]) /\ Ordered(ts, {}) = <<>>
      BY ONLY <3>1, OrderedNext
    <3> QED
      BY <3>2
  <2> QED
    BY <2>1
<1> HIDE DEF Q, k
<1>10. TaskAt(grammar, ts, Q, k) = NewTask(ts[i])
  <2> DEFINE task == TaskAt(grammar, ts, Q, k)
  <2>1. /\ task = [args |-> task.args, in |-> task.in, out |-> task.out, err |-> task.err]
        /\ task.args = <<ts[i]>> /\ task.in = Origin /\ task.out = Origin /\ task.err = Origin
    <3>1. /\ task = [args |-> task.args, in |-> task.in, out |-> task.out, err |-> task.err]
          /\ task.args = Ordered(ts, Words(grammar, ts, Q, k))
      BY TaskParts
    <3>2. task.in = IF grammar = "user" /\ Of(ts, Q, k, {"<n"}) # {}
                      THEN ToUser(ts[The(Of(ts, Q, k, {"<n"}))].n) ELSE Origin
      BY DEF TaskAt
    <3>3. task.out = IF Of(ts, Q, k, Redirects(grammar)) = {} THEN Origin
                     ELSE Redirected(ts, The(Of(ts, Q, k, Redirects(grammar))))
      BY <1>8, TaskParts
    <3>4. task.err = IF Of(ts, Q, k, {"!n"}) # {} THEN task.out ELSE Origin
      BY TaskParts
    <3> HIDE DEF task
    <3> QED
      BY <1>8, <1>9, <3>1, <3>2, <3>3, <3>4
  <2> HIDE DEF task
  <2>2. task = NewTask(ts[i])
    BY <2>1 DEF NewTask
  <2> QED
    BY <2>2 DEF task
<1> QED
  BY <1>2, <1>4, <1>10 DEF Q, k

\* Any other token belongs to the task of the token before it.
LEMMA TaskGoesOn ==
  ASSUME NEW ts \in Seq(Token), NEW i \in DOMAIN ts, ~AfterPipe(ts, i)
  PROVE  /\ i > 1 /\ i - 1 \in DOMAIN ts /\ Before(ts, i) \in Nat /\ Before(ts, i) = Before(ts, i - 1)
         /\ Begun(ts, i - 1) = Before(ts, i) + 1 /\ Begun(ts, i) = Before(ts, i) + 1
<1>1. i \in Nat /\ i > 1 /\ i - 1 \in DOMAIN ts /\ (i - 1) + 1 = i /\ ts[i - 1].kind # "|"
  BY DEF AfterPipe
<1>2. Before(ts, (i - 1) + 1) = Before(ts, i - 1) /\ Before(ts, i) \in Nat
  BY <1>1, BeforeNext
<1> QED
  BY <1>1, <1>2 DEF Begun

\* The positions of a segment when its next token has been seen.
LEMMA SegmentMore ==
  ASSUME NEW grammar, NEW ts \in Seq(Token), NEW i \in DOMAIN ts
  PROVE  LET k == Before(ts, i) IN
         /\ \A kinds : ts[i].kind \notin kinds => Of(ts, 1 .. i, k, kinds) = Of(ts, 1 .. i - 1, k, kinds)
         /\ \A kinds : ts[i].kind \in kinds => i \in Of(ts, 1 .. i, k, kinds)
         /\ ~Counts(grammar, ts, i) => Words(grammar, ts, 1 .. i, k) = Words(grammar, ts, 1 .. i - 1, k)
         /\ Counts(grammar, ts, i) =>
              Ordered(ts, Words(grammar, ts, 1 .. i, k)) = Append(Ordered(ts, Words(grammar, ts, 1 .. i - 1, k)), ts[i])
<1> DEFINE k == Before(ts, i)
           P == 1 .. i - 1
           Q == 1 .. i
<1>1. Q = P \cup {i} /\ i \in Nat /\ i > i - 1 /\ i - 1 \in Nat
  OBVIOUS
<1> HIDE DEF P, Q
<1>2. ASSUME NEW kinds, ts[i].kind \notin kinds
      PROVE  Of(ts, Q, k, kinds) = Of(ts, P, k, kinds)
  BY <1>1, <1>2 DEF Of
<1>3. ASSUME NEW kinds, ts[i].kind \in kinds
      PROVE  i \in Of(ts, Q, k, kinds)
  BY <1>1, <1>3 DEF Of
<1>4. ~Counts(grammar, ts, i) => Words(grammar, ts, Q, k) = Words(grammar, ts, P, k)
  BY <1>1 DEF Words, Counts
<1>5. ASSUME Counts(grammar, ts, i)
      PROVE  Ordered(ts, Words(grammar, ts, Q, k)) = Append(Ordered(ts, Words(grammar, ts, P, k)), ts[i])
  <2> DEFINE S == Words(grammar, ts, P, k)
  <2>1. Words(grammar, ts, Q, k) = S \cup {i}
    BY <1>1, <1>5 DEF Words, Counts
  <2>2. S \in SUBSET (1 .. i - 1)
    BY DEF Words, P
  <2> HIDE DEF S
  <2>3. Ordered(ts, S \cup {i}) = Append(Ordered(ts, S), ts[i])
    BY ONLY <1>1, <2>2, OrderedNext
  <2> QED
    BY <2>1, <2>3 DEF S
<1> QED
  BY <1>2, <1>3, <1>4, <1>5 DEF P, Q

\* A task with one of its parts replaced.
LEMMA PartReplaced ==
  ASSUME NEW task, NEW x, task = [args |-> task.args, in |-> task.in, out |-> task.out, err |-> task.err]
  PROVE  /\ [task EXCEPT !.args = x] = [args |-> x, in |-> task.in, out |-> task.out, err |-> task.err]
         /\ [task EXCEPT !.in = x] = [args |-> task.args, in |-> x, out |-> task.out, err |-> task.err]
         /\ [task EXCEPT !.out = x] = [args |-> task.args, in |-> task.in, out |-> x, err |-> task.err]
         /\ [task EXCEPT !.out = x, !.err = x] = [args |-> task.args, in |-> task.in, out |-> x, err |-> x]
<1> DEFINE T == [args : {task.args}, in : {task.in}, out : {task.out}, err : {task.err}]
<1>1. task \in T
  <2> DEFINE a == task.args
             b == task.in
             c == task.out
             d == task.err
  <2> HIDE DEF a, b, c, d
  <2>1. task = [args |-> a, in |-> b, out |-> c, err |-> d]
    BY DEF a, b, c, d
  <2>2. task \in [args : {a}, in : {b}, out : {c}, err : {d}]
    BY <2>1
  <2> QED
    BY <2>2 DEF a, b, c, d
<1>2. [task EXCEPT !.args = x] = [args |-> x, in |-> task.in, out |-> task.out, err |-> task.err]
  BY ONLY <1>1
<1>3. [task EXCEPT !.in = x] = [args |-> task.args, in |-> x, out |-> task.out, err |-> task.err]
  BY ONLY <1>1
<1>4. [task EXCEPT !.out = x] = [args |-> task.args, in |-> task.in, out |-> x, err |-> task.err]
  BY ONLY <1>1
<1>5. [task EXCEPT !.out = x, !.err = x] = [args |-> task.args, in |-> task.in, out |-> x, err |-> x]
  <2> DEFINE r == [task EXCEPT !.out = x]
  <2>1. r \in [args : {task.args}, in : {task.in}, out : {x}, err : {task.err}]
    BY <1>4
  <2>2. [task EXCEPT !.out = x, !.err = x] = [r EXCEPT !.err = x]
    OBVIOUS
  <2> HIDE DEF r
  <2>3. [r EXCEPT !.err = x] = [args |-> task.args, in |-> task.in, out |-> x, err |-> x]
    BY ONLY <2>1
  <2> QED
    BY <2>2, <2>3
<1> QED
  BY <1>2, <1>3, <1>4, <1>5

\* The name of a file is not a word of its task.
LEMMA TaskName ==
  ASSUME NEW grammar \in {"simple", "user"}, NEW ts \in Seq(Token), NEW i \in DOMAIN ts,
         IsName(ts, i), ts[i].kind = "word", NEW k
  PROVE  TaskAt(grammar, ts, 1 .. i, k) = TaskAt(grammar, ts, 1 .. i - 1, k)
<1>1. CASE k # Before(ts, i)
  BY <1>1, TaskElsewhere
<1>2. CASE k = Before(ts, i)
  <2>1. ~Counts(grammar, ts, i)
    BY DEF Counts
  <2>2. /\ ts[i].kind \notin {"|"} /\ ts[i].kind \notin Redirects(grammar) /\ ts[i].kind \notin {"!n"}
        /\ ts[i].kind \notin {"<n"}
    BY DEF Redirects
  <2> DEFINE P == 1 .. i - 1
             Q == 1 .. i
  <2>3. /\ \A kinds \in {{"|"}, Redirects(grammar), {"!n"}} : Of(ts, Q, k, kinds) = Of(ts, P, k, kinds)
        /\ Of(ts, Q, k, {"<n"}) = Of(ts, P, k, {"<n"})
        /\ Words(grammar, ts, Q, k) = Words(grammar, ts, P, k)
    <3>1. \A kinds : ts[i].kind \notin kinds => Of(ts, Q, k, kinds) = Of(ts, P, k, kinds)
      BY <1>2, SegmentMore
    <3>2. Words(grammar, ts, Q, k) = Words(grammar, ts, P, k)
      BY <1>2, <2>1, SegmentMore
    <3> HIDE DEF P, Q
    <3> QED
      BY <2>2, <3>1, <3>2
  <2> HIDE DEF P, Q
  <2>4. TaskAt(grammar, ts, Q, k) = TaskAt(grammar, ts, P, k)
    BY <2>3, TaskSame
  <2> QED
    BY <2>4 DEF P, Q
<1> QED
  BY <1>1, <1>2

\* A task with a word more, and with a stream that goes elsewhere.
Extended(task, t) == [task EXCEPT !.args = Append(task.args, t)]
OutTo(task, io)   == [task EXCEPT !.out = io]
BothTo(task, io)  == [task EXCEPT !.out = io, !.err = io]
InFrom(task, io)  == [task EXCEPT !.in = io]

\* A word.
LEMMA TaskWord ==
  ASSUME NEW grammar \in {"simple", "user"}, NEW ts \in Seq(Token), NEW i \in DOMAIN ts, Counts(grammar, ts, i)
  PROVE  LET old == TaskAt(grammar, ts, 1 .. i - 1, Before(ts, i)) IN
         TaskAt(grammar, ts, 1 .. i, Before(ts, i)) = Extended(old, ts[i])
<1> DEFINE k == Before(ts, i)
           P == 1 .. i - 1
           Q == 1 .. i
           old == TaskAt(grammar, ts, P, k)
           new == TaskAt(grammar, ts, Q, k)
<1>1. /\ ts[i].kind \notin {"|"} /\ ts[i].kind \notin Redirects(grammar) /\ ts[i].kind \notin {"!n"}
      /\ grammar = "user" => ts[i].kind \notin {"<n"}
  BY DEF Counts, Redirects
<1>2. /\ Of(ts, Q, k, {"|"}) = Of(ts, P, k, {"|"}) /\ Of(ts, Q, k, {"!n"}) = Of(ts, P, k, {"!n"})
      /\ Of(ts, Q, k, Redirects(grammar)) = Of(ts, P, k, Redirects(grammar))
      /\ grammar = "user" => Of(ts, Q, k, {"<n"}) = Of(ts, P, k, {"<n"})
      /\ Ordered(ts, Words(grammar, ts, Q, k)) = Append(Ordered(ts, Words(grammar, ts, P, k)), ts[i])
  BY <1>1, SegmentMore
<1> HIDE DEF P, Q, k
<1>3. Goes(grammar, ts, Q, k) = Goes(grammar, ts, P, k)
  BY <1>2 DEF Goes
<1>4. /\ new.args = Append(old.args, ts[i]) /\ new.in = old.in /\ new.out = old.out /\ new.err = old.err
      /\ new = [args |-> new.args, in |-> new.in, out |-> new.out, err |-> new.err]
      /\ old = [args |-> old.args, in |-> old.in, out |-> old.out, err |-> old.err]
  BY <1>2, <1>3 DEF TaskAt
<1> HIDE DEF old, new
<1> DEFINE x == Append(old.args, ts[i])
<1> HIDE DEF x
<1>5. new = [old EXCEPT !.args = x]
  <2>1. [old EXCEPT !.args = x] = [args |-> x, in |-> old.in, out |-> old.out, err |-> old.err]
    BY ONLY <1>4, PartReplaced
  <2>2. new.args = x
    BY <1>4 DEF x
  <2> QED
    BY <1>4, <2>1, <2>2
<1> QED
  BY <1>5 DEF old, new, P, Q, k, x, Extended

\* A segment that ends with a bar is not the last, where the redirections are.
LEMMA BarsBefore ==
  ASSUME NEW ts \in Seq(Token), NEW i \in DOMAIN ts, ts[i].kind = "|"
  PROVE  Before(ts, i) # Cardinality(Bars(ts))
<1>1. i \in Nat /\ i + 1 \in Nat /\ Len(ts) + 1 \in Nat /\ i + 1 <= Len(ts) + 1
  OBVIOUS
<1>2. Before(ts, i + 1) = Before(ts, i) + 1 /\ Before(ts, i) \in Nat
  BY <1>1, BeforeNext
<1>3. Before(ts, i + 1) <= Before(ts, Len(ts) + 1)
  BY <1>1, BeforeNext
<1>4. Before(ts, Len(ts) + 1) = Cardinality(Bars(ts)) /\ Cardinality(Bars(ts)) \in Nat
  BY BeforeNext
<1> QED
  BY <1>2, <1>3, <1>4

\* A bar.
LEMMA TaskBar ==
  ASSUME NEW grammar \in {"simple", "user"}, NEW ts \in Seq(Token), InGrammar(grammar, ts), NEW i \in DOMAIN ts,
         ts[i].kind = "|"
  PROVE  LET old == TaskAt(grammar, ts, 1 .. i - 1, Before(ts, i)) IN
         TaskAt(grammar, ts, 1 .. i, Before(ts, i)) = OutTo(old, ToPipe(0))
<1> DEFINE k == Before(ts, i)
           P == 1 .. i - 1
           Q == 1 .. i
           old == TaskAt(grammar, ts, P, k)
           new == TaskAt(grammar, ts, Q, k)
<1>1. ts[i].kind \notin {"<n"} /\ ts[i].kind \notin {"!n"} /\ ts[i].kind \in {"|"} /\ ~Counts(grammar, ts, i)
  BY DEF Counts
<1>2. i \in Of(ts, Q, k, {"|"}) /\ Of(ts, Q, k, {"<n"}) = Of(ts, P, k, {"<n"})
      /\ Words(grammar, ts, Q, k) = Words(grammar, ts, P, k) /\ Of(ts, Q, k, {"!n"}) = Of(ts, P, k, {"!n"})
  <2>1. \A kinds : ts[i].kind \notin kinds => Of(ts, Q, k, kinds) = Of(ts, P, k, kinds)
    BY SegmentMore
  <2>2. i \in Of(ts, Q, k, {"|"}) /\ Words(grammar, ts, Q, k) = Words(grammar, ts, P, k)
    BY <1>1, SegmentMore
  <2> HIDE DEF P, Q, k
  <2> QED
    BY <1>1, <2>1, <2>2
<1>3. Of(ts, P, k, {"!n"}) = {}
  <2>1. SUFFICES ASSUME NEW j \in Of(ts, P, k, {"!n"}) PROVE FALSE
    OBVIOUS
  <2>2. j \in DOMAIN ts /\ Before(ts, j) = k /\ ts[j].kind \in Redirects(grammar)
    BY DEF Of, Redirects
  <2> QED
    BY <2>2, Grammar, BarsBefore
<1> HIDE DEF P, Q, k
<1>4. Goes(grammar, ts, Q, k) = ToPipe(0)
  BY <1>2 DEF Goes
<1>5. /\ new.args = old.args /\ new.in = old.in /\ new.out = ToPipe(0) /\ new.err = old.err
      /\ new = [args |-> new.args, in |-> new.in, out |-> new.out, err |-> new.err]
      /\ old = [args |-> old.args, in |-> old.in, out |-> old.out, err |-> old.err]
  BY <1>2, <1>3, <1>4 DEF TaskAt
<1> HIDE DEF old, new
<1>6. [old EXCEPT !.out = ToPipe(0)] = [args |-> old.args, in |-> old.in, out |-> ToPipe(0), err |-> old.err]
  BY ONLY <1>5, PartReplaced
<1>7. new = [old EXCEPT !.out = ToPipe(0)]
  BY <1>5, <1>6
<1> QED
  BY <1>7 DEF old, new, P, Q, k, OutTo

\* A redirection: of both outputs with `!n`.
LEMMA TaskRedirected ==
  ASSUME NEW grammar \in {"simple", "user"}, NEW ts \in Seq(Token), InGrammar(grammar, ts), NEW i \in DOMAIN ts,
         ts[i].kind \in Redirects(grammar)
  PROVE  LET old == TaskAt(grammar, ts, 1 .. i - 1, Before(ts, i))
             to  == Redirected(ts, i) IN
         /\ ts[i].kind = "!n" => TaskAt(grammar, ts, 1 .. i, Before(ts, i)) = BothTo(old, to)
         /\ ts[i].kind # "!n" => TaskAt(grammar, ts, 1 .. i, Before(ts, i)) = OutTo(old, to)
<1> DEFINE k == Before(ts, i)
           P == 1 .. i - 1
           Q == 1 .. i
           old == TaskAt(grammar, ts, P, k)
           new == TaskAt(grammar, ts, Q, k)
           to == Redirected(ts, i)
<1>1. ts[i].kind \notin {"|"} /\ ~Counts(grammar, ts, i) /\ (grammar = "user" => ts[i].kind \notin {"<n"})
  BY DEF Counts, Redirects
<1>2. P \subseteq DOMAIN ts /\ Q \subseteq DOMAIN ts /\ i \notin P
  OBVIOUS
<1>3. \A j \in DOMAIN ts : ts[j].kind \in Redirects(grammar) => j = i
  BY Grammar
<1>4. /\ \A kinds : ts[i].kind \notin kinds => Of(ts, Q, k, kinds) = Of(ts, P, k, kinds)
      /\ Words(grammar, ts, Q, k) = Words(grammar, ts, P, k)
      /\ i \in Of(ts, Q, k, Redirects(grammar))
      /\ ts[i].kind = "!n" => i \in Of(ts, Q, k, {"!n"})
  BY <1>1, SegmentMore
<1>5. Of(ts, Q, k, {"|"}) = {}
  <2>1. SUFFICES ASSUME NEW j \in Of(ts, Q, k, {"|"}) PROVE FALSE
    OBVIOUS
  <2>2. j \in DOMAIN ts /\ Before(ts, j) = k /\ ts[j].kind = "|"
    BY <1>2 DEF Of
  <2>3. Before(ts, i) = Cardinality(Bars(ts))
    BY Grammar
  <2> QED
    BY <2>2, <2>3, BarsBefore
<1> HIDE DEF P, Q, k
<1>6. Of(ts, Q, k, Redirects(grammar)) = {i} /\ The({i}) = i
  <2>1. \A j \in Of(ts, Q, k, Redirects(grammar)) : j = i
    BY <1>2, <1>3 DEF Of
  <2> QED
    BY <1>4, <2>1 DEF The
<1>7. Of(ts, P, k, {"!n"}) = {}
  <2>1. SUFFICES ASSUME NEW j \in Of(ts, P, k, {"!n"}) PROVE FALSE
    OBVIOUS
  <2>2. j \in DOMAIN ts /\ j # i /\ ts[j].kind = "!n" /\ ts[j].kind \in Redirects(grammar)
    BY <1>2 DEF Of, Redirects
  <2> QED
    BY <1>3, <2>2
<1>8. Goes(grammar, ts, Q, k) = to
  BY <1>5, <1>6 DEF Goes
<1>9. grammar = "user" => Of(ts, Q, k, {"<n"}) = Of(ts, P, k, {"<n"})
  BY <1>1, <1>4
<1>10. Of(ts, Q, k, {"!n"}) # {} <=> ts[i].kind = "!n"
  <2>1. CASE ts[i].kind = "!n"
    BY <1>4, <2>1
  <2>2. CASE ts[i].kind # "!n"
    <3>1. ts[i].kind \notin {"!n"}
      BY <2>2
    <3> QED
      BY <1>4, <1>7, <2>2, <3>1
  <2> QED
    BY <2>1, <2>2
<1> HIDE DEF to
<1>11. /\ new.args = old.args /\ new.in = old.in /\ new.out = to
       /\ new.err = IF ts[i].kind = "!n" THEN to ELSE old.err
       /\ new = [args |-> new.args, in |-> new.in, out |-> new.out, err |-> new.err]
       /\ old = [args |-> old.args, in |-> old.in, out |-> old.out, err |-> old.err]
  BY <1>4, <1>7, <1>8, <1>9, <1>10 DEF TaskAt
<1> HIDE DEF old, new
<1>12. /\ [old EXCEPT !.out = to] = [args |-> old.args, in |-> old.in, out |-> to, err |-> old.err]
       /\ [old EXCEPT !.out = to, !.err = to] = [args |-> old.args, in |-> old.in, out |-> to, err |-> to]
  <2>1. old = [args |-> old.args, in |-> old.in, out |-> old.out, err |-> old.err]
    BY <1>11
  <2> QED
    BY ONLY <2>1, PartReplaced
<1>13. ts[i].kind = "!n" => new = [old EXCEPT !.out = to, !.err = to]
  BY <1>11, <1>12
<1>14. ts[i].kind # "!n" => new = [old EXCEPT !.out = to]
  BY <1>11, <1>12
<1> QED
  BY <1>13, <1>14 DEF old, new, P, Q, k, to, OutTo, BothTo

\* What the first command of a pipeline reads.
LEMMA TaskFrom ==
  ASSUME NEW ts \in Seq(Token), InGrammar("user", ts), NEW i \in DOMAIN ts, ts[i].kind = "<n"
  PROVE  LET old == TaskAt("user", ts, 1 .. i - 1, Before(ts, i)) IN
         TaskAt("user", ts, 1 .. i, Before(ts, i)) = InFrom(old, ToUser(ts[i].n))
<1> DEFINE k == Before(ts, i)
           P == 1 .. i - 1
           Q == 1 .. i
           old == TaskAt("user", ts, P, k)
           new == TaskAt("user", ts, Q, k)
           from == ToUser(ts[i].n)
<1>1. ts[i].kind \notin {"|"} /\ ts[i].kind \notin Redirects("user") /\ ts[i].kind \notin {"!n"}
      /\ ts[i].kind \in {"<n"} /\ ~Counts("user", ts, i)
  BY DEF Counts, Redirects
<1>2. Q \subseteq DOMAIN ts
  OBVIOUS
<1>3. \A j \in DOMAIN ts : ts[j].kind = "<n" => j = i
  BY Grammar
<1>4. /\ \A kinds : ts[i].kind \notin kinds => Of(ts, Q, k, kinds) = Of(ts, P, k, kinds)
      /\ Words("user", ts, Q, k) = Words("user", ts, P, k)
      /\ i \in Of(ts, Q, k, {"<n"})
  BY <1>1, SegmentMore
<1> HIDE DEF P, Q, k
<1>5. Of(ts, Q, k, {"<n"}) = {i} /\ The({i}) = i
  <2>1. \A j \in Of(ts, Q, k, {"<n"}) : j = i
    BY <1>2, <1>3 DEF Of
  <2> QED
    BY <1>4, <2>1 DEF The
<1>6. /\ Of(ts, Q, k, {"|"}) = Of(ts, P, k, {"|"}) /\ Of(ts, Q, k, {"!n"}) = Of(ts, P, k, {"!n"})
      /\ Of(ts, Q, k, Redirects("user")) = Of(ts, P, k, Redirects("user"))
  BY <1>1, <1>4
<1>7. Goes("user", ts, Q, k) = Goes("user", ts, P, k)
  BY <1>6 DEF Goes
<1>8. /\ new.args = old.args /\ new.in = from /\ new.out = old.out /\ new.err = old.err
      /\ new = [args |-> new.args, in |-> new.in, out |-> new.out, err |-> new.err]
      /\ old = [args |-> old.args, in |-> old.in, out |-> old.out, err |-> old.err]
  BY <1>4, <1>5, <1>6, <1>7 DEF TaskAt
<1> HIDE DEF old, new, from
<1>9. [old EXCEPT !.in = from] = [args |-> old.args, in |-> from, out |-> old.out, err |-> old.err]
  BY ONLY <1>8, PartReplaced
<1>10. new = [old EXCEPT !.in = from]
  BY <1>8, <1>9
<1> QED
  BY <1>10 DEF old, new, P, Q, k, from, InFrom

-----------------------------------------------------------------------------
(* The turns on a line of the grammar.                                     *)

\* Parsers that have the meaning of the tokens that they have read.
ReadRight(grammar, ts) ==
  {s \in Parser : /\ s.end = "none" /\ s.idx <= Len(ts) + 1 /\ ~IsName(ts, s.idx)
                  /\ s.tasks = Upto(grammar, ts, s.idx - 1)}

\* A turn that ends right before the next token.
LEMMA ReadNext ==
  ASSUME NEW grammar, NEW ts \in Seq(Token), NEW r \in Parser, r.idx \in DOMAIN ts, r.end = "none",
         ts[r.idx].kind # ">", r.tasks = Upto(grammar, ts, r.idx)
  PROVE  Skip(r, 1) \in ReadRight(grammar, ts)
<1>1. /\ Skip(r, 1) \in Parser /\ Skip(r, 1).idx = r.idx + 1 /\ Skip(r, 1).tasks = r.tasks /\ Skip(r, 1).end = r.end
      /\ r.idx \in Nat
  BY NextOne, ParserParts
<1>2. (r.idx + 1) - 1 = r.idx /\ r.idx + 1 <= Len(ts) + 1
  BY <1>1
<1>3. ~IsName(ts, r.idx + 1)
  BY <1>2 DEF IsName
<1> QED
  BY <1>1, <1>2, <1>3 DEF ReadRight

\* What a parser that has read right is about to do.
LEMMA ReadParts ==
  ASSUME NEW grammar, NEW ts \in Seq(Token), NEW s \in ReadRight(grammar, ts), ~Done(s, Len(ts))
  PROVE  /\ s \in Parser /\ s.idx \in DOMAIN ts /\ ts[s.idx] \in Token /\ s.end = "none" /\ ~IsName(ts, s.idx)
         /\ s.tasks = Upto(grammar, ts, s.idx - 1) /\ s.tasks \in Seq(Task) /\ Begun(ts, s.idx - 1) \in Nat
         /\ Latest(s) = Begun(ts, s.idx - 1)
         /\ \A k \in 1 .. Latest(s) : s.tasks[k] = TaskAt(grammar, ts, 1 .. s.idx - 1, k - 1)
<1>1. s \in Parser /\ ~IsName(ts, s.idx) /\ s.tasks = Upto(grammar, ts, s.idx - 1) /\ s.end = "none"
  BY DEF ReadRight
<1>2. s.idx \in DOMAIN ts /\ ts[s.idx] \in Token /\ s.idx \in Nat \ {0} /\ s.tasks \in Seq(Task)
  BY <1>1, TurnParts, ParserParts
<1>3. s.idx - 1 \in Nat
  BY <1>2
<1>4. Begun(ts, s.idx - 1) \in Nat
  <2>1. Before(ts, s.idx - 1) \in Nat
    BY <1>3, BeforeNext
  <2> QED
    BY <2>1 DEF Begun
<1>5. DOMAIN s.tasks = 1 .. Begun(ts, s.idx - 1)
  BY <1>1 DEF Upto
<1>6. Latest(s) = Begun(ts, s.idx - 1)
  <2>1. DOMAIN s.tasks = 1 .. Len(s.tasks) /\ Len(s.tasks) \in Nat
    BY <1>2
  <2> QED
    BY <1>4, <1>5, <2>1 DEF Latest
<1>7. \A k \in 1 .. Latest(s) : s.tasks[k] = TaskAt(grammar, ts, 1 .. s.idx - 1, k - 1)
  BY <1>1, <1>6 DEF Upto
<1> QED
  BY <1>1, <1>2, <1>4, <1>6, <1>7

\* The first token of a segment.
LEMMA ReadBegins ==
  ASSUME NEW grammar \in {"simple", "user"}, NEW ts \in Seq(Token), InGrammar(grammar, ts),
         NEW s \in ReadRight(grammar, ts), ~Done(s, Len(ts)), AfterPipe(ts, s.idx)
  PROVE  Skip(Add(s, ts[s.idx]), 1) \in ReadRight(grammar, ts)
<1> DEFINE i == s.idx
           n == Begun(ts, i - 1)
           r == Add(s, ts[i])
           task == NewTask(ts[i])
<1>1. /\ s \in Parser /\ i \in DOMAIN ts /\ ts[i] \in Token /\ s.end = "none" /\ ~IsName(ts, i)
      /\ s.tasks = Upto(grammar, ts, i - 1) /\ s.tasks \in Seq(Task) /\ n \in Nat /\ Latest(s) = n
      /\ \A k \in 1 .. n : s.tasks[k] = TaskAt(grammar, ts, 1 .. i - 1, k - 1)
  BY ReadParts
<1>2. /\ r \in Parser /\ r.idx = i /\ r.end = s.end /\ task \in Task /\ r.tasks = Append(s.tasks, task)
  BY <1>1, AddTask
<1>3. /\ n = Before(ts, i) /\ Begun(ts, i) = n + 1
      /\ TaskAt(grammar, ts, 1 .. i, n) = task
  BY <1>1, TaskBegins
<1>4. \A k \in 1 .. n : s.tasks[k] = TaskAt(grammar, ts, 1 .. i, k - 1)
  <2>1. SUFFICES ASSUME NEW k \in 1 .. n
                 PROVE  TaskAt(grammar, ts, 1 .. i - 1, k - 1) = TaskAt(grammar, ts, 1 .. i, k - 1)
    BY <1>1
  <2>2. k - 1 # Before(ts, i)
    BY <1>1, <1>3
  <2> QED
    BY <1>1, <2>2, TaskElsewhere
<1>5. Append(s.tasks, task) = Upto(grammar, ts, i)
  <2> DEFINE T(k) == TaskAt(grammar, ts, 1 .. i, k - 1)
             q == s.tasks
  <2>1. q \in Seq(Task) /\ Len(q) = n /\ n \in Nat /\ task \in Task
    BY <1>1, <1>2 DEF Latest
  <2>2. T(n + 1) = task
    <3>1. (n + 1) - 1 = n
      BY <1>1
    <3> QED
      BY <1>3, <3>1
  <2>3. \A k \in 1 .. n : q[k] = T(k)
    BY <1>4
  <2> HIDE DEF T, q, task, n, i
  <2>4. Append(q, task) = [k \in 1 .. n + 1 |-> IF k <= n THEN q[k] ELSE task]
    BY ONLY <2>1, AppendIs
  <2>5. \A k \in 1 .. n + 1 : (IF k <= n THEN q[k] ELSE task) = T(k)
    <3>1. SUFFICES ASSUME NEW k \in 1 .. n + 1 PROVE (IF k <= n THEN q[k] ELSE task) = T(k)
      OBVIOUS
    <3>2. (k \in 1 .. n /\ k <= n) \/ (k = n + 1 /\ ~(k <= n))
      BY <2>1
    <3>3. CASE k \in 1 .. n /\ k <= n
      BY <2>3, <3>3
    <3>4. CASE k = n + 1 /\ ~(k <= n)
      BY <2>2, <3>4
    <3> QED
      BY <3>2, <3>3, <3>4
  <2>6. Append(q, task) = [k \in 1 .. n + 1 |-> T(k)]
    BY <2>4, <2>5
  <2> QED
    BY <1>3, <2>6 DEF T, q, Upto
<1>6. ts[i].kind # ">"
  BY <1>1, Grammar DEF Redirects
<1> HIDE DEF r
<1>7. Skip(r, 1) \in ReadRight(grammar, ts)
  BY <1>1, <1>2, <1>5, <1>6, ReadNext
<1> QED
  BY <1>7 DEF r

\* A token that changes the latest task to what its tokens mean now.
LEMMA ReadReplaces ==
  ASSUME NEW grammar, NEW ts \in Seq(Token),
         NEW s \in ReadRight(grammar, ts), ~Done(s, Len(ts)), ~AfterPipe(ts, s.idx)
  PROVE  LET old == TaskAt(grammar, ts, 1 .. s.idx - 1, Before(ts, s.idx))
             new == TaskAt(grammar, ts, 1 .. s.idx, Before(ts, s.idx)) IN
         /\ Latest(s) # 0 /\ s.tasks[Latest(s)] = old
         /\ new \in Task => /\ Replaced(s, new) \in Parser /\ Replaced(s, new).idx = s.idx
                            /\ Replaced(s, new).end = "none"
                            /\ Replaced(s, new).tasks = Upto(grammar, ts, s.idx)
<1> DEFINE i == s.idx
           n == Latest(s)
           new == TaskAt(grammar, ts, 1 .. i, Before(ts, i))
<1>1. /\ s \in Parser /\ i \in DOMAIN ts /\ s.end = "none"
      /\ s.tasks = Upto(grammar, ts, i - 1) /\ s.tasks \in Seq(Task) /\ n \in Nat /\ n = Begun(ts, i - 1)
      /\ \A k \in 1 .. n : s.tasks[k] = TaskAt(grammar, ts, 1 .. i - 1, k - 1)
  BY ReadParts
<1>2. n = Before(ts, i) + 1 /\ Begun(ts, i) = n /\ Before(ts, i) \in Nat
  BY <1>1, TaskGoesOn
<1>3. n # 0 /\ n \in 1 .. n /\ n - 1 = Before(ts, i)
  BY <1>2
<1>4. s.tasks[n] = TaskAt(grammar, ts, 1 .. i - 1, Before(ts, i))
  BY <1>1, <1>3
<1>5. ASSUME new \in Task
      PROVE  /\ Replaced(s, new) \in Parser /\ Replaced(s, new).idx = i /\ Replaced(s, new).end = "none"
             /\ Replaced(s, new).tasks = Upto(grammar, ts, i)
  <2> DEFINE T(k) == TaskAt(grammar, ts, 1 .. i, k - 1)
             q == s.tasks
  <2>1. /\ Replaced(s, new) \in Parser /\ Replaced(s, new).idx = i /\ Replaced(s, new).end = "none"
        /\ Replaced(s, new).tasks = [q EXCEPT ![n] = new]
    BY <1>1, <1>5, ReplaceTask
  <2>2. q \in Seq(Task) /\ Len(q) = n /\ n \in Nat
    BY <1>1 DEF Latest
  <2>3. ASSUME NEW k \in 1 .. n
        PROVE  [q EXCEPT ![n] = new][k] = T(k)
    <3>1. CASE k = n
      BY <1>3, <2>2, <3>1
    <3>2. CASE k # n
      <4>1. k - 1 # Before(ts, i)
        BY <1>2, <1>3, <3>2
      <4>2. q[k] = T(k)
        BY <1>1, <4>1, TaskElsewhere
      <4> HIDE DEF q, T, new, n
      <4>3. [q EXCEPT ![n] = new][k] = q[k]
        BY <2>2, <3>2
      <4> QED
        BY <4>2, <4>3
    <3> QED
      BY <3>1, <3>2
  <2>4. DOMAIN [q EXCEPT ![n] = new] = 1 .. n
    <3> HIDE DEF q, new, n
    <3> QED
      BY <2>2
  <2>5. [q EXCEPT ![n] = new] = [k \in 1 .. n |-> T(k)]
    <3> DEFINE f == [q EXCEPT ![n] = new]
    <3>1. f = [k \in DOMAIN f |-> f[k]]
      BY <2>2
    <3> HIDE DEF f
    <3>2. DOMAIN f = 1 .. n /\ \A k \in 1 .. n : f[k] = T(k)
      BY <2>3, <2>4 DEF f
    <3>3. f = [k \in 1 .. n |-> T(k)]
      BY <3>1, <3>2
    <3> QED
      BY <3>3 DEF f
  <2> QED
    BY <1>2, <2>1, <2>5 DEF Upto
<1> QED
  BY <1>3, <1>4, <1>5

\* A parser at token i that has read it right.
ReadsOn(grammar, ts, i, r) == r \in Parser /\ r.idx = i /\ r.end = "none" /\ r.tasks = Upto(grammar, ts, i)

LEMMA ReadChanges ==
  ASSUME NEW grammar, NEW ts \in Seq(Token),
         NEW s \in ReadRight(grammar, ts), ~Done(s, Len(ts)), ~AfterPipe(ts, s.idx), NEW io \in IO
  PROVE  LET i   == s.idx
             old == TaskAt(grammar, ts, 1 .. i - 1, Before(ts, i))
             new == TaskAt(grammar, ts, 1 .. i, Before(ts, i)) IN
         /\ new = Extended(old, ts[i]) => ReadsOn(grammar, ts, i, Arg(s, ts[i]))
         /\ new = OutTo(old, io) => ReadsOn(grammar, ts, i, Out(s, io))
         /\ new = BothTo(old, io) => ReadsOn(grammar, ts, i, Both(s, io))
         /\ new = InFrom(old, io) => ReadsOn(grammar, ts, i, In(s, io))
<1> DEFINE i   == s.idx
           old == TaskAt(grammar, ts, 1 .. i - 1, Before(ts, i))
           new == TaskAt(grammar, ts, 1 .. i, Before(ts, i))
           a == Extended(old, ts[i])
           o == OutTo(old, io)
           b == BothTo(old, io)
           n == InFrom(old, io)
<1>1. s \in Parser /\ ts[i] \in Token
  BY ReadParts
<1>2. Latest(s) # 0 /\ s.tasks[Latest(s)] = old /\ (new \in Task => ReadsOn(grammar, ts, i, Replaced(s, new)))
  BY ReadReplaces DEF ReadsOn
<1>3. /\ a \in Task /\ o \in Task /\ b \in Task /\ n \in Task
      /\ Arg(s, ts[i]) = Replaced(s, a) /\ Out(s, io) = Replaced(s, o)
      /\ Both(s, io) = Replaced(s, b) /\ In(s, io) = Replaced(s, n)
  <2> DEFINE task == s.tasks[Latest(s)]
  <2>1. task = old
    BY <1>2
  <2> HIDE DEF old, i
  <2>2. /\ [task EXCEPT !.args = Append(task.args, ts[i])] = a
        /\ [task EXCEPT !.out = io] = o
        /\ [task EXCEPT !.out = io, !.err = io] = b
        /\ [task EXCEPT !.in = io] = n
    BY <2>1 DEF Extended, OutTo, BothTo, InFrom
  <2>3. s \in Parser /\ ts[i] \in Token
    BY <1>1 DEF i
  <2> HIDE DEF a, o, b, n
  <2> QED
    BY <1>2, <2>2, <2>3, Changes
<1> HIDE DEF i, old, new, a, o, b, n
<1>4. /\ new = a => ReadsOn(grammar, ts, i, Arg(s, ts[i]))
      /\ new = o => ReadsOn(grammar, ts, i, Out(s, io))
      /\ new = b => ReadsOn(grammar, ts, i, Both(s, io))
      /\ new = n => ReadsOn(grammar, ts, i, In(s, io))
  BY <1>2, <1>3
<1> QED
  BY <1>4 DEF i, old, new, a, o, b, n

\* A file's name is read with its redirection.
LEMMA ReadFile ==
  ASSUME NEW grammar \in {"simple", "user"}, NEW ts \in Seq(Token), InGrammar(grammar, ts),
         NEW s \in ReadRight(grammar, ts), ~Done(s, Len(ts)), ~AfterPipe(ts, s.idx), ts[s.idx].kind = ">"
  PROVE  Skip(FileNext(ts, s), 1) \in ReadRight(grammar, ts)
<1> DEFINE i == s.idx
           j == i + 1
           f == ToFile(ts[j])
           r == Out(s, f)
<1>1. s \in Parser /\ i \in DOMAIN ts
  BY ReadParts
<1>2. /\ i \in Nat /\ i < Len(ts) /\ j \in DOMAIN ts /\ j # 1 /\ j - 1 = i /\ ts[j].kind = "word" /\ ts[j] \in Token
      /\ f \in IO
  BY <1>1, Grammar, StreamEnds
<1>3. ts[i].kind \in Redirects(grammar) /\ ts[i].kind # "!n" /\ Redirected(ts, i) = f
  BY DEF Redirects, Redirected
<1>4. ReadsOn(grammar, ts, i, r)
  BY <1>1, <1>2, <1>3, TaskRedirected, ReadChanges
<1>5. FileNext(ts, s) = Skip(r, 1)
  BY <1>2 DEF FileNext
<1> HIDE DEF r, f, i
<1>6. /\ Skip(r, 1) \in Parser /\ Skip(r, 1).idx = j /\ Skip(r, 1).end = "none"
      /\ Skip(r, 1).tasks = Upto(grammar, ts, i)
  <2>1. r \in Parser /\ r.idx = i /\ r.end = "none" /\ r.tasks = Upto(grammar, ts, i) /\ 1 \in Nat
    BY <1>4 DEF ReadsOn
  <2>2. /\ Skip(r, 1) \in Parser /\ Skip(r, 1).idx = r.idx + 1 /\ Skip(r, 1).end = r.end
        /\ Skip(r, 1).tasks = r.tasks
    BY ONLY <2>1, ParserParts
  <2> QED
    BY <2>1, <2>2
<1>7. Upto(grammar, ts, j) = Upto(grammar, ts, i)
  <2>1. IsName(ts, j) /\ ~AfterPipe(ts, j)
    BY <1>2 DEF IsName, AfterPipe, i
  <2>2. Begun(ts, j) = Begun(ts, i)
    BY <1>2, <2>1, TaskGoesOn
  <2>3. \A k : TaskAt(grammar, ts, 1 .. j, k) = TaskAt(grammar, ts, 1 .. i, k)
    <3>1. \A k : TaskAt(grammar, ts, 1 .. j, k) = TaskAt(grammar, ts, 1 .. j - 1, k)
      BY <1>2, <2>1, TaskName
    <3> QED
      BY <1>2, <3>1
  <2> QED
    BY <2>2, <2>3 DEF Upto
<1> DEFINE q == Skip(r, 1)
<1> HIDE DEF q
<1>8. Skip(q, 1) \in ReadRight(grammar, ts)
  <2>1. q \in Parser /\ q.idx = j /\ q.end = "none" /\ q.tasks = Upto(grammar, ts, j)
    BY <1>6, <1>7 DEF q
  <2> HIDE DEF j
  <2> QED
    BY <1>2, <2>1, ReadNext
<1> QED
  BY <1>5, <1>8 DEF q

\* A turn of StepSimple, in the grammar without user pipes or at a token of both.
LEMMA SimpleReads ==
  ASSUME NEW grammar \in {"simple", "user"}, NEW ts \in Seq(Token), InGrammar(grammar, ts),
         NEW s \in ReadRight(grammar, ts), ~Done(s, Len(ts)),
         grammar = "user" => AfterPipe(ts, s.idx) \/ ts[s.idx].kind \notin {">n", "<n"}
  PROVE  StepSimple(ts, s) \in ReadRight(grammar, ts)
<1> DEFINE i == s.idx
           t == ts[i]
<1>1. s \in Parser /\ i \in DOMAIN ts /\ t \in Token /\ s.end = "none" /\ ~IsName(ts, i)
  BY ReadParts
<1>2. PICK r \in Parser : SimpleAct(ts, s, t, r) /\ StepSimple(ts, s) = Skip(r, 1)
  BY <1>1, SimpleTurn
<1>3. ASSUME ReadsOn(grammar, ts, i, r), t.kind # ">"
      PROVE  Skip(r, 1) \in ReadRight(grammar, ts)
  BY <1>1, <1>3, ReadNext DEF ReadsOn
<1>4. ASSUME Fits(t.n) PROVE \A x : Number(s, t, x) = x
  BY <1>4 DEF Number
<1>5. ASSUME ~IsWordIn(grammar, t), t.kind \in {"|n", "!n"}
      PROVE  t.n \in Int /\ Fits(t.n)
  BY <1>1, <1>5, Grammar
<1>6. CASE AfterPipe(ts, i)
  <2>1. r = Add(s, t)
    BY <1>2, <1>6 DEF SimpleAct
  <2> QED
    BY <1>2, <1>6, <2>1, ReadBegins
<1>7. CASE ~AfterPipe(ts, i) /\ t.kind = "|"
  <2>1. r = Out(s, ToPipe(0)) /\ ToPipe(0) \in IO
    BY <1>2, <1>7, StreamEnds DEF SimpleAct
  <2>2. ReadsOn(grammar, ts, i, r)
    BY <1>1, <1>7, <2>1, TaskBar, ReadChanges
  <2> QED
    BY <1>2, <1>3, <1>7, <2>2
<1>8. CASE ~AfterPipe(ts, i) /\ t.kind = ">"
  <2>1. r = FileNext(ts, s)
    BY <1>2, <1>8 DEF SimpleAct
  <2> QED
    BY <1>2, <1>8, <2>1, ReadFile
<1>9. CASE ~AfterPipe(ts, i) /\ t.kind = "|n"
  <2>1. t.n \in Int /\ Fits(t.n)
    BY <1>5, <1>9 DEF IsWordIn
  <2>2. r = Out(s, ToPipe(t.n)) /\ ToPipe(t.n) \in IO
    BY <1>2, <1>4, <1>9, <2>1, StreamEnds DEF SimpleAct
  <2>3. t.kind \in Redirects(grammar) /\ t.kind # "!n" /\ Redirected(ts, i) = ToPipe(t.n)
    BY <1>9 DEF Redirects, Redirected
  <2>4. ReadsOn(grammar, ts, i, r)
    BY <1>1, <1>9, <2>2, <2>3, TaskRedirected, ReadChanges
  <2> QED
    BY <1>2, <1>3, <1>9, <2>4
<1>10. CASE ~AfterPipe(ts, i) /\ t.kind = "!n"
  <2>1. t.n \in Int /\ Fits(t.n)
    BY <1>5, <1>10 DEF IsWordIn
  <2>2. r = Both(s, ToPipe(t.n)) /\ ToPipe(t.n) \in IO
    BY <1>2, <1>4, <1>10, <2>1, StreamEnds DEF SimpleAct
  <2>3. t.kind \in Redirects(grammar) /\ Redirected(ts, i) = ToPipe(t.n)
    BY <1>10 DEF Redirects, Redirected
  <2>4. ReadsOn(grammar, ts, i, r)
    BY <1>1, <1>10, <2>2, <2>3, TaskRedirected, ReadChanges
  <2> QED
    BY <1>2, <1>3, <1>10, <2>4
<1>11. CASE ~AfterPipe(ts, i) /\ t.kind \notin {"|", ">", "|n", "!n"}
  <2>1. r = Arg(s, t)
    BY <1>2, <1>11 DEF SimpleAct
  <2>2. Counts(grammar, ts, i)
    BY <1>1, <1>11 DEF Counts, Redirects
  <2>3. ReadsOn(grammar, ts, i, r)
    BY <1>1, <1>11, <2>1, <2>2, TaskWord, ReadChanges, StreamEnds
  <2> QED
    BY <1>2, <1>3, <1>11, <2>3
<1> QED
  BY <1>6, <1>7, <1>8, <1>9, <1>10, <1>11

\* One with user pipes; none takes a `<n` and a `>` together.
LEMMA UserReads ==
  ASSUME NEW ts \in Seq(Token), InGrammar("user", ts), NEW s \in ReadRight("user", ts), ~Done(s, Len(ts))
  PROVE  OneToken(ts, s) \in ReadRight("user", ts) /\ ~FromAndFile(ts, s.idx)
<1> DEFINE i == s.idx
           t == ts[i]
<1>0. ~FromAndFile(ts, i)
  <2>1. i \in DOMAIN ts
    BY ReadParts
  <2> QED
    BY <2>1, Grammar DEF FromAndFile
<1> SUFFICES OneToken(ts, s) \in ReadRight("user", ts)
  BY <1>0
<1>1. CASE AfterPipe(ts, i) \/ t.kind \notin {">n", "<n"}
  <2>1. OneToken(ts, s) = StepSimple(ts, s)
    BY <1>1, UserElse
  <2>2. StepSimple(ts, s) \in ReadRight("user", ts)
    BY <1>1, SimpleReads
  <2> QED
    BY <2>1, <2>2
<1>2. CASE ~AfterPipe(ts, i) /\ t.kind \in {">n", "<n"}
  <2>1. s \in Parser /\ i \in DOMAIN ts /\ t \in Token
    BY ReadParts
  <2>2. UserAct(ts, s, t, OneToken(ts, s))
    BY <1>2, <2>1, UserTurn
  <2>3. t.n \in Int /\ Fits(t.n)
    BY <1>2, <2>1, Grammar DEF IsWordIn
  <2>4. \A x : Number(s, t, x) = x
    BY <2>3 DEF Number
  <2>5. ToUser(t.n) \in IO
    BY <2>3, StreamEnds
  <2>6. CASE t.kind = ">n"
    <3>1. OneToken(ts, s) = Skip(Out(s, ToUser(t.n)), 1)
      BY <2>2, <2>4, <2>6 DEF UserAct
    <3>2. t.kind \in Redirects("user") /\ t.kind # "!n" /\ Redirected(ts, i) = ToUser(t.n)
      BY <2>6 DEF Redirects, Redirected
    <3>3. ReadsOn("user", ts, i, Out(s, ToUser(t.n)))
      BY <1>2, <2>1, <2>5, <3>2, TaskRedirected, ReadChanges
    <3> QED
      BY <2>1, <2>6, <3>1, <3>3, ReadNext DEF ReadsOn
  <2>7. CASE t.kind = "<n"
    <3>1. OneToken(ts, s) = Skip(In(s, ToUser(t.n)), 1)
      BY <2>2, <2>4, <2>7 DEF UserAct
    <3>2. ReadsOn("user", ts, i, In(s, ToUser(t.n)))
      BY <1>2, <2>1, <2>5, <2>7, TaskFrom, ReadChanges
    <3> QED
      BY <2>1, <2>7, <3>1, <3>2, ReadNext DEF ReadsOn
  <2> QED
    BY <1>2, <2>6, <2>7
<1> QED
  BY <1>1, <1>2

\* A parser that has read right to the end has the meaning of the line.
LEMMA ReadAll ==
  ASSUME NEW grammar \in {"simple", "user"}, NEW ts \in Seq(Token), InGrammar(grammar, ts)
  PROVE  /\ Start \in ReadRight(grammar, ts)
         /\ \A s \in ReadRight(grammar, ts) : Done(s, Len(ts)) => s.tasks = Meaning(grammar, ts)
<1>1. Start \in ReadRight(grammar, ts)
  <2>1. Upto(grammar, ts, 0) = <<>>
    BY DEF Upto, Begun
  <2>2. ~IsName(ts, 1) /\ Len(ts) \in Nat
    BY DEF IsName
  <2> QED
    BY <2>1, <2>2, StartIsParser DEF ReadRight
<1>2. ASSUME NEW s \in ReadRight(grammar, ts), Done(s, Len(ts))
      PROVE  s.tasks = Meaning(grammar, ts)
  <2> DEFINE n == Len(ts)
  <2>1. n \in Nat /\ n # 0 /\ n \in DOMAIN ts /\ DOMAIN ts = 1 .. n /\ ts[n].kind # "|"
    <3>1. ts # <<>>
      BY DEF InGrammar
    <3>2. n \in Nat /\ n # 0 /\ n \in DOMAIN ts /\ DOMAIN ts = 1 .. n
      BY <3>1
    <3> QED
      BY <3>2, Grammar
  <2>2. s.idx \in Nat /\ s.idx <= n + 1 /\ s.idx > n /\ s.tasks = Upto(grammar, ts, s.idx - 1)
    <3>1. s \in Parser
      BY DEF ReadRight
    <3> QED
      BY <1>2, <3>1, ParserParts DEF ReadRight, Done
  <2>3. s.idx - 1 = n
    BY <2>1, <2>2
  <2>4. Begun(ts, n) = Cardinality(Bars(ts)) + 1
    <3>1. Before(ts, n + 1) = Before(ts, n) /\ Before(ts, n + 1) = Cardinality(Bars(ts))
      BY <2>1, BeforeNext
    <3> QED
      BY <2>1, <3>1 DEF Begun
  <2> QED
    BY <2>1, <2>2, <2>3, <2>4 DEF Upto, Meaning
<1> QED
  BY <1>1, <1>2

\* The tasks of a line in npshell and np_simple.
LEMMA SimpleMeant ==
  ASSUME NEW ts \in Seq(Token), InGrammar("simple", ts)
  PROVE  ParseSimple(ts).tasks = Meaning("simple", ts)
<1> DEFINE I == ReadRight("simple", ts)
<1>1. I \in SUBSET Parser /\ Start \in I
  BY ReadAll DEF ReadRight
<1>2. \A s \in I : ~Done(s, Len(ts)) => StepSimple(ts, s) \in I
  BY SimpleReads
<1> HIDE DEF I
<1>3. ParseSimple(ts) \in I /\ Done(ParseSimple(ts), Len(ts))
  BY <1>1, <1>2, SimpleLoop
<1> QED
  BY <1>3, ReadAll DEF I

\* And in the servers with user pipes.
LEMMA UserMeant ==
  ASSUME NEW ts \in Seq(Token), InGrammar("user", ts)
  PROVE  ParseUser(ts).tasks = Meaning("user", ts)
<1> DEFINE I == ReadRight("user", ts)
<1>1. I \in SUBSET Parser /\ Start \in I
  BY ReadAll DEF ReadRight
<1>2. \A s \in I : ~Done(s, Len(ts)) => OneToken(ts, s) \in I /\ ~FromAndFile(ts, s.idx)
  BY UserReads
<1> HIDE DEF I
<1>3. UserResult(ts) \in I /\ Done(UserResult(ts), Len(ts))
  BY <1>1, <1>2, UserLoop
<1>4. ts # <<>> /\ ts[1].kind = "word"
  BY DEF InGrammar
<1>5. ParseUser(ts) = UserResult(ts)
  BY <1>4 DEF ParseUser, UserResult
<1> QED
  BY <1>3, <1>5, ReadAll DEF I

\* The number of a pipe is 0, of a bar, or one of the line.
Numbered(ts, io) ==
  io.type = "pipe" => io.n = 0 \/ \E i \in DOMAIN ts : ts[i].kind \in {"|n", "!n"} /\ ts[i].n = io.n

\* Every task has a command, and its output a number from the line.
LEMMA TasksHaveCommands ==
  ASSUME NEW ts \in Seq(Token)
  PROVE  \A k \in DOMAIN ParseSimple(ts).tasks :
           ParseSimple(ts).tasks[k].args # <<>> /\ Numbered(ts, ParseSimple(ts).tasks[k].out)
<1> DEFINE Good(x)  == x.args # <<>> /\ Numbered(ts, x.out)
           Named(r) == \A k \in DOMAIN r.tasks : Good(r.tasks[k])
           I == {s \in Parser : Named(s)}
<1>1. Start \in I
  BY StartIsParser
<1>2. ASSUME NEW s \in I, ~Done(s, Len(ts))
      PROVE  StepSimple(ts, s) \in I
  <2> DEFINE t == ts[s.idx]
             task == s.tasks[Latest(s)]
  <2>1. s \in Parser /\ Named(s) /\ t \in Token /\ s.end = "none" /\ s.tasks \in Seq(Task)
        /\ Latest(s) \in Nat /\ Latest(s) = Len(s.tasks)
    BY <1>2, TurnParts, ParserParts DEF Latest
  <2>2. ASSUME NEW x, Latest(s) # 0 => x \in Task /\ Good(x)
        PROVE  Named(Replaced(s, x))
    <3>1. Replaced(s, x).tasks = [s.tasks EXCEPT ![Latest(s)] = x]
      BY <2>1, <2>2, ReplaceTask
    <3>2. /\ Len([s.tasks EXCEPT ![Latest(s)] = x]) = Len(s.tasks) /\ [s.tasks EXCEPT ![Latest(s)] = x] \in Seq(Task)
          /\ \A j \in 1 .. Len(s.tasks) : [s.tasks EXCEPT ![Latest(s)] = x][j] = IF j = Latest(s) THEN x ELSE s.tasks[j]
      BY <2>1, <2>2, SeqExcept
    <3> HIDE DEF Good
    <3> QED
      BY <2>1, <2>2, <3>1, <3>2
  <2>3. ASSUME NEW io \in IO, Numbered(ts, io)
        PROVE  Named(Arg(s, t)) /\ Named(Out(s, io)) /\ Named(Both(s, io))
    <3> DEFINE a == [task EXCEPT !.args = Append(task.args, t)]
               o == [task EXCEPT !.out = io]
               b == [task EXCEPT !.out = io, !.err = io]
    <3>1. /\ Latest(s) # 0 => task \in Task /\ a \in Task /\ o \in Task /\ b \in Task
          /\ Arg(s, t) = Replaced(s, a) /\ Out(s, io) = Replaced(s, o) /\ Both(s, io) = Replaced(s, b)
      BY <2>1, Changes
    <3>2. Latest(s) # 0 => Good(task)
      BY <2>1
    <3> HIDE DEF task
    <3>3. task \in Task => /\ task.args \in Seq(Token) /\ a.args = Append(task.args, t)
                           /\ o.args = task.args /\ b.args = task.args
                           /\ a.out = task.out /\ o.out = io /\ b.out = io
      BY DEF Task
    <3> HIDE DEF a, o, b
    <3>4. \A q \in Seq(Token) : Append(q, t) # <<>>
      <4>1. t \in Token
        BY <2>1
      <4> QED
        BY ONLY <4>1
    <3>5. Latest(s) # 0 => Good(a) /\ Good(o) /\ Good(b)
      BY <2>3, <3>1, <3>2, <3>3, <3>4
    <3> HIDE DEF Named, Good
    <3> QED
      BY <2>2, <3>1, <3>5
  <2>4. Named(Add(s, t))
    <3>1. Add(s, t).tasks = Append(s.tasks, NewTask(t)) /\ NewTask(t) \in Task /\ Good(NewTask(t))
      BY <2>1, AddTask DEF NewTask, Origin, Numbered
    <3>2. /\ Append(s.tasks, NewTask(t)) \in Seq(Task) /\ Len(Append(s.tasks, NewTask(t))) = Len(s.tasks) + 1
          /\ \A j \in 1 .. Len(s.tasks) : Append(s.tasks, NewTask(t))[j] = s.tasks[j]
          /\ Append(s.tasks, NewTask(t))[Len(s.tasks) + 1] = NewTask(t)
      BY <2>1, <3>1, AppendProperties
    <3> HIDE DEF Good
    <3> QED
      BY <2>1, <3>1, <3>2
  <2>5. PICK r \in Parser : SimpleAct(ts, s, t, r) /\ StepSimple(ts, s) = Skip(r, 1)
    BY <1>2, SimpleTurn
  <2>6. ToPipe(t.n) \in IO /\ ToPipe(0) \in IO /\ Numbered(ts, ToPipe(0))
        /\ (t.kind \in {"|n", "!n"} => Numbered(ts, ToPipe(t.n)))
        /\ \A f \in Token : Numbered(ts, ToFile(f))
    <3>1. s.idx \in DOMAIN ts /\ t.n \in Int
      BY <1>2, TurnParts DEF Token
    <3> QED
      BY <3>1, StreamEnds DEF Numbered, ToPipe, ToFile
  <2>7. \A how \in {"none", "thrown", "outside"} : Ends(s, how).tasks = s.tasks
    BY <2>1, ParserParts
  <2>8. Named(FileNext(ts, s))
    <3>1. CASE s.idx = Len(ts)
      <4>1. FileNext(ts, s).tasks = s.tasks
        BY <2>7, <3>1 DEF FileNext
      <4> QED
        BY <2>1, <4>1
    <3>2. CASE s.idx # Len(ts)
      <4> DEFINE o == Out(s, ToFile(ts[s.idx + 1]))
      <4>1. ts[s.idx + 1] \in Token
        BY <1>2, <2>1, <3>2, TurnParts
      <4>2. o \in Parser /\ Named(o)
        BY <2>1, <2>3, <2>6, <4>1, ChangesStay, StreamEnds
      <4>3. FileNext(ts, s) = Skip(o, 1)
        BY <3>2 DEF FileNext
      <4> HIDE DEF o
      <4>4. Skip(o, 1).tasks = o.tasks
        BY <4>2, ParserParts
      <4> QED
        BY <4>2, <4>3, <4>4
    <3> QED
      BY <3>1, <3>2
  <2>9. ASSUME t.kind \in {"|n", "!n"}
        PROVE  Named(Number(s, t, Out(s, ToPipe(t.n)))) /\ Named(Number(s, t, Both(s, ToPipe(t.n))))
    <3>1. CASE ~Fits(t.n)
      <4>1. ASSUME NEW x PROVE Number(s, t, x).tasks = s.tasks
        BY <2>7, <3>1 DEF Number
      <4> QED
        BY <2>1, <4>1
    <3>2. CASE Fits(t.n)
      <4>1. \A x : Number(s, t, x) = x
        BY <3>2 DEF Number
      <4> HIDE DEF Named
      <4> QED
        BY <2>3, <2>6, <2>9, <4>1
    <3> QED
      BY <3>1, <3>2
  <2>10. Named(Out(s, ToPipe(0))) /\ Named(Arg(s, t))
    BY <2>3, <2>6
  <2>11. Named(r)
    <3> HIDE DEF Named, t
    <3> QED
      BY <2>4, <2>5, <2>8, <2>9, <2>10 DEF SimpleAct
  <2>12. Skip(r, 1) \in Parser /\ Skip(r, 1).tasks = r.tasks
    BY NextOne
  <2> QED
    BY <2>5, <2>11, <2>12
<1> HIDE DEF I
<1>3. I \in SUBSET Parser
  BY DEF I
<1>4. ParseSimple(ts) \in I
  BY <1>1, <1>2, <1>3, SimpleLoop
<1> QED
  BY <1>4 DEF I

-----------------------------------------------------------------------------
(* The processes.                                                          *)

\* What a shell holds is what the parser made of the line that it received last, and
\* a shell has died only of a line at which the parser did not come to its end, or of
\* a slot outside of the ring.
OutOfRing(ts) == \E i \in DOMAIN ts : ts[i].kind \in {"|n", "!n"} /\ ~InRing(ts[i].n)
Holds(c) ==
  /\ tasks[c] = ParseSimple(line[c]).tasks
  /\ sh[c] = "died" => ParseSimple(line[c]).end # "none" \/ OutOfRing(line[c])
LinesInv == TypeOK /\ \A c \in Client : Holds(c)

\* What an empty line is parsed to.
LEMMA NothingParsed == ParseSimple(<<>>).tasks = <<>>
<1> DEFINE I == {Start}
<1>1. Start \in I /\ I \in SUBSET Parser /\ <<>> \in Seq(Token) /\ Len(<<>>) = 0
  BY StartIsParser
<1>2. \A s \in I : Done(s, Len(<<>>))
  BY <1>1, StartIsParser DEF Done
<1> HIDE DEF I
<1>3. ParseSimple(<<>>) \in I
  BY <1>1, <1>2, SimpleLoop
<1> QED
  BY <1>3, StartIsParser DEF I

\* Parsing a line, whatever it is.
LEMMA ParsingKeeps ==
  ASSUME LinesInv, NEW c \in Client, NEW ts \in Seq(Token), sh[c] = "recv", Parsed(c, ts)
  PROVE  /\ line' \in [Client -> Seq(Token)] /\ tasks' \in [Client -> Seq(Task)]
         /\ sh' \in [Client -> Alive \cup {"none", "exited", "died", "killed", "reaped"}]
         /\ \A d \in Client : \A k \in DOMAIN tasks'[d] : tasks'[d][k].args # <<>>
         /\ \A d \in Client : Holds(d)'
<1> DEFINE p == ParseSimple(ts)
<1>1. p \in Parser /\ p.tasks \in Seq(Task)
  BY SimpleEnds, ParserParts
<1>2. \A k \in DOMAIN p.tasks : p.tasks[k].args # <<>>
  BY TasksHaveCommands
<1>3. /\ line' = [line EXCEPT ![c] = ts] /\ tasks' = [tasks EXCEPT ![c] = p.tasks]
      /\ \/ p.end # "none" /\ sh' = [sh EXCEPT ![c] = "died"]
         \/ p.end # "thrown" /\ sh' = [sh EXCEPT ![c] = IF p.tasks = <<>> THEN "recv" ELSE "run"]
  BY DEF Parsed
<1>4. p = ParseSimple(ts)
  OBVIOUS
<1> HIDE DEF p
<1>5. /\ line \in [Client -> Seq(Token)] /\ tasks \in [Client -> Seq(Task)]
      /\ sh \in [Client -> Alive \cup {"none", "exited", "died", "killed", "reaped"}]
      /\ \A d \in Client : \A k \in DOMAIN tasks[d] : tasks[d][k].args # <<>>
  BY DEF LinesInv, TypeOK
<1>6. line' \in [Client -> Seq(Token)] /\ tasks' \in [Client -> Seq(Task)]
  BY <1>1, <1>3, <1>5
<1>7. sh' \in [Client -> Alive \cup {"none", "exited", "died", "killed", "reaped"}]
  BY <1>3, <1>5 DEF Alive
<1>8. /\ line'[c] = ts /\ tasks'[c] = p.tasks /\ (sh'[c] = "died" => p.end # "none")
      /\ \A d \in Client \ {c} : line'[d] = line[d] /\ tasks'[d] = tasks[d] /\ sh'[d] = sh[d]
  BY <1>3, <1>5
<1>9. ASSUME NEW d \in Client
      PROVE  \A k \in DOMAIN tasks'[d] : tasks'[d][k].args # <<>>
  <2>1. CASE d = c
    BY <1>2, <1>8, <2>1
  <2>2. CASE d # c
    BY <1>5, <1>8, <2>2
  <2> QED
    BY <2>1, <2>2
<1>10. ASSUME NEW d \in Client PROVE Holds(d)'
  <2>1. CASE d = c
    BY <1>4, <1>8, <2>1 DEF Holds
  <2>2. CASE d # c
    BY <1>8, <2>2 DEF LinesInv, Holds
  <2> QED
    BY <2>1, <2>2
<1> QED
  BY <1>6, <1>7, <1>9, <1>10

\* Every step keeps it.
LEMMA LinesStep ==
  ASSUME LinesInv, [Next]_vars
  PROVE  LinesInv'
<1> USE DEF LinesInv
<1>1. CASE UNCHANGED vars
  BY <1>1 DEF vars, TypeOK, Holds
<1>2. CASE Reap
  <2>1. sh' \in [Client -> Alive \cup {"none", "exited", "died", "killed", "reaped"}]
    BY <1>2 DEF Reap, TypeOK
  <2>2. \A c \in Client : sh'[c] = "died" => sh[c] = "died"
    BY <1>2 DEF Reap
  <2> QED
    BY <1>2, <2>1, <2>2 DEF Reap, TypeOK, Holds
<1>3. ASSUME NEW c \in Client, Accept(c)
      PROVE  LinesInv'
  BY <1>3 DEF Accept, TypeOK, Holds, Alive
<1>4. ASSUME NEW c \in Client, ForkFails(c)
      PROVE  LinesInv'
  BY <1>4 DEF ForkFails, TypeOK, Holds
<1>5. ASSUME NEW c \in Client, Connect(c)
      PROVE  LinesInv'
  BY <1>5 DEF Connect, TypeOK, Holds
<1>6. ASSUME NEW c \in Client, Type(c)
      PROVE  LinesInv'
  <2>1. PICK l \in Lines[c] : wire' = [wire EXCEPT ![c] = Append(@, l)]
    BY <1>6 DEF Type
  <2>2. l \in Seq(Token)
    BY <2>1, LineAssumption
  <2>3. wire' \in [Client -> Seq(Seq(Token))]
    BY <2>1, <2>2 DEF TypeOK
  <2>4. nline' \in [Client -> 0 .. MaxLine]
    BY <1>6, LineAssumption DEF Type, TypeOK
  <2> QED
    BY <1>6, <2>3, <2>4 DEF Type, TypeOK, Holds
<1>7. ASSUME NEW c \in Client, Close(c)
      PROVE  LinesInv'
  BY <1>7 DEF Close, TypeOK, Holds
<1>8. ASSUME NEW c \in Client, Reset(c)
      PROVE  LinesInv'
  <2>1. wire' \in [Client -> Seq(Seq(Token))]
    BY <1>8 DEF Reset, TypeOK
  <2> QED
    BY <1>8, <2>1 DEF Reset, TypeOK, Holds
<1>9. ASSUME NEW c \in Client, RecvEnd(c)
      PROVE  LinesInv'
  BY <1>9 DEF RecvEnd, TypeOK, Holds, Alive
<1>10. ASSUME NEW c \in Client, RecvLine(c)
       PROVE  LinesInv'
  <2>1. wire[c] \in Seq(Seq(Token)) /\ wire[c] # <<>> /\ Parsed(c, Head(wire[c])) /\ sh[c] = "recv"
    BY <1>10 DEF RecvLine, TypeOK
  <2>2. Head(wire[c]) \in Seq(Token) /\ Tail(wire[c]) \in Seq(Seq(Token))
    BY <2>1
  <2>3. wire' \in [Client -> Seq(Seq(Token))]
    BY <1>10, <2>2 DEF RecvLine, TypeOK
  <2> QED
    BY <1>10, <2>1, <2>2, <2>3, ParsingKeeps DEF RecvLine, TypeOK
<1>11. ASSUME NEW c \in Client, RecvOther(c)
       PROVE  LinesInv'
  <2>1. wire[c] \in Seq(Seq(Token)) /\ wire[c] # <<>> /\ sh[c] = "recv"
    BY <1>11 DEF RecvOther, TypeOK
  <2>2. PICK ts \in Garbled : Parsed(c, ts)
    BY <1>11 DEF RecvOther
  <2>3. PICK rest \in {<<>>} \cup {<<tt>> : tt \in Garbled} : wire' = [wire EXCEPT ![c] = rest \o Tail(@)]
    BY <1>11 DEF RecvOther
  <2>4. ts \in Seq(Token) /\ rest \in Seq(Seq(Token)) /\ Tail(wire[c]) \in Seq(Seq(Token))
    <3>1. Garbled \subseteq Seq(Token)
      BY LineAssumption
    <3>2. Tail(wire[c]) \in Seq(Seq(Token))
      BY <2>1
    <3>3. <<>> \in Seq(Seq(Token)) /\ \A tt \in Seq(Token) : <<tt>> \in Seq(Seq(Token))
      OBVIOUS
    <3>4. rest = <<>> \/ \E tt \in Garbled : rest = <<tt>>
      BY <2>3
    <3>5. rest \in Seq(Seq(Token))
      BY <3>1, <3>3, <3>4, Zenon
    <3> QED
      BY <2>2, <3>1, <3>2, <3>5
  <2>5. rest \o Tail(wire[c]) \in Seq(Seq(Token))
    BY <2>4
  <2>6. wire' \in [Client -> Seq(Seq(Token))]
    BY <2>3, <2>5 DEF TypeOK
  <2>7. whole' \in [Client -> BOOLEAN]
    BY <1>11 DEF RecvOther, TypeOK
  <2> QED
    BY <1>11, <2>1, <2>2, <2>4, <2>6, <2>7, ParsingKeeps DEF RecvOther, TypeOK
<1>12. ASSUME NEW c \in Client, RunTasks(c)
       PROVE  LinesInv'
  <2>1. CASE sh' \in {[sh EXCEPT ![c] = "recv"], [sh EXCEPT ![c] = "exited"]}
    BY <1>12, <2>1 DEF RunTasks, TypeOK, Holds, Alive
  <2>2. ASSUME NEW k \in DOMAIN tasks[c], tasks[c][k].out.type = "pipe", ~InRing(tasks[c][k].out.n),
               sh' = [sh EXCEPT ![c] = "died"]
        PROVE  LinesInv'
    <3>1. line[c] \in Seq(Token) /\ tasks[c] = ParseSimple(line[c]).tasks
      BY DEF TypeOK, Holds
    <3>2. Numbered(line[c], tasks[c][k].out)
      BY <2>2, <3>1, TasksHaveCommands
    <3>3. InRing(0)
      BY LineAssumption, IntAssumption DEF InRing
    <3>4. OutOfRing(line[c])
      BY <2>2, <3>2, <3>3 DEF Numbered, OutOfRing
    <3> HIDE DEF OutOfRing
    <3> QED
      BY <1>12, <2>2, <3>4 DEF RunTasks, TypeOK, Holds, Alive
  <2> QED
    BY <1>12, <2>1, <2>2 DEF RunTasks
<1>13. ASSUME NEW c \in Client, WriteFails(c)
       PROVE  LinesInv'
  BY <1>13 DEF WriteFails, TypeOK, Holds, Alive
<1> QED
  BY <1>1, <1>2, <1>3, <1>4, <1>5, <1>6, <1>7, <1>8, <1>9, <1>10, <1>11, <1>12, <1>13
     DEF Next, ServerStep, ShellStep

\* In every reachable state what a shell of np_simple holds is what Parser::parse
\* makes of the tokens that recv gave it last, also when they were part of a line or
\* several lines, every task has a command, and a shell whose process ended on its
\* own did so at a line where the parser threw or read past the tokens, or that names a
\* pipe outside of the ring.
THEOREM LinesInvariant == Spec => []LinesInv
<1>1. Init => LinesInv
  <2> SUFFICES ASSUME Init PROVE LinesInv
    OBVIOUS
  <2>1. TypeOK
    BY LineAssumption DEF Init, TypeOK, Alive
  <2>2. \A c \in Client : Holds(c)
    BY NothingParsed DEF Init, Holds
  <2> QED
    BY <2>1, <2>2 DEF LinesInv
<1>2. LinesInv /\ [Next]_vars => LinesInv'
  BY LinesStep
<1> QED
  BY <1>1, <1>2, PTL DEF Spec

\* The tasks of a line of its grammar are what the line means: one task for each
\* segment between bars, its words in their order, its output to the next segment or
\* where its redirection says, its input from the user that it names (both versions of
\* Parser::parse, for lines of any length and any words and numbers).
THEOREM LinesMeant == Spec => []LineMeant
<1>1. LinesInv => LineMeant
  <2> SUFFICES ASSUME LinesInv, NEW c \in Client
               PROVE  /\ InGrammar("simple", line[c]) => tasks[c] = Meaning("simple", line[c])
                      /\ InGrammar("user", line[c]) => ParseUser(line[c]).tasks = Meaning("user", line[c])
    BY DEF LineMeant, LinesInv
  <2>1. line[c] \in Seq(Token) /\ tasks[c] = ParseSimple(line[c]).tasks
    BY DEF LinesInv, TypeOK, Holds
  <2> QED
    BY <2>1, SimpleMeant, UserMeant
<1> QED
  BY <1>1, LinesInvariant, PTL

\* A shell ends on its own only at a line with a number that stoi cannot return, with a
\* `>` at its end, or with the number of a pipe that is negative or too large for
\* getpipe(); in the servers with user pipes, where the parser's end is the end of the
\* server, the parser comes to the end of any other line but the empty one
\* (Parser::parse, the calls of stoi and of commands[++i]).
THEOREM ShellsSurvive == Spec => []Survives
<1>1. LinesInv => Survives
  <2> SUFFICES ASSUME LinesInv, NEW c \in Client
               PROVE  /\ sh[c] = "died" => Misleads("simple", line[c]) \/ OutOfRing(line[c])
                      /\ ParseUser(line[c]).end # "none" => Misleads("user", line[c])
    BY DEF Survives, OutOfRing
  <2>1. /\ line[c] \in Seq(Token)
        /\ sh[c] = "died" => ParseSimple(line[c]).end # "none" \/ OutOfRing(line[c])
    BY DEF LinesInv, TypeOK, Holds
  <2> QED
    BY <2>1, SimpleEnds, UserEnds
<1> QED
  BY <1>1, LinesInvariant, PTL
=============================================================================
