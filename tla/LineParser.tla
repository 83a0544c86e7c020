----------------------------- MODULE LineParser -----------------------------
(***************************************************************************)
(* Parser::parse: a line, cut at its blanks, becomes the tasks of a        *)
(* pipeline.  npshell and np_simple have one parser, np_single_proc and    *)
(* np_multi_proc another, with user pipes and the four builtins that take  *)
(* the rest of the line.                                                   *)
(*                                                                         *)
(* A token is its form and a number: of a pipe, of a user, or just which   *)
(* word it is.  A number that does not fit into an int makes stoi() throw, *)
(* and so does "|x", which is taken for one here.                          *)
(***************************************************************************)
EXTENDS Integers, Sequences, FiniteSets

CONSTANT MaxInt    \* bound: the largest int

ASSUME IntAssumption == MaxInt \in Nat

NoNumber == MaxInt + 1
Fits(n)  == n \in -NoNumber .. MaxInt

Kinds == {"word", "who", "chat",    \* chat: tell, yell, name
          "|", ">", "|n", "!n", ">n", "<n"}
Token == [kind : Kinds, n : Int]

NoFile == [kind |-> "word", n |-> 0]
IO     == [type : {"origin", "pipe", "file", "user"}, file : Token, n : Int]
Origin    == [type |-> "origin", file |-> NoFile, n |-> 0]
ToPipe(n) == [type |-> "pipe", file |-> NoFile, n |-> n]
ToUser(n) == [type |-> "user", file |-> NoFile, n |-> n]
ToFile(t) == [type |-> "file", file |-> t, n |-> 0]

NewTask(t) == [args |-> <<t>>, in |-> Origin, out |-> Origin, err |-> Origin]

\* The parser: where it is, the tasks so far, and whether it still runs, has thrown,
\* or has read past the tokens.
Task   == [args : Seq(Token), in : IO, out : IO, err : IO]
Parser == [idx : Nat \ {0}, tasks : Seq(Task), end : {"none", "thrown", "outside"}]
Start  == [idx |-> 1, tasks |-> <<>>, end |-> "none"]

Skip(s, n)   == [s EXCEPT !.idx = @ + n]
Ends(s, how) == [s EXCEPT !.end = how]
Latest(s)    == Len(s.tasks)
Add(s, t)    == [s EXCEPT !.tasks = Append(@, NewTask(t))]
Arg(s, t)    == [s EXCEPT !.tasks[Latest(s)].args = Append(@, t)]
Out(s, io)   == [s EXCEPT !.tasks[Latest(s)].out = io]
Both(s, io)  == [s EXCEPT !.tasks[Latest(s)].out = io, !.tasks[Latest(s)].err = io]
In(s, io)    == [s EXCEPT !.tasks[Latest(s)].in = io]

-----------------------------------------------------------------------------
(* One turn of the loop over the tokens ts.                                *)

\* (Fault: a word after a redirection starts a task.)
AfterAny(ts, i)  == i = 1 \/ ts[i - 1].kind # "word"
AfterPipe(ts, i) == i = 1 \/ ts[i - 1].kind = "|"

\* The name of the file is the next token, which need not be there.
\* (Fault: it is looked for one token later.)
FileLater(ts, s) == IF s.idx + 1 >= Len(ts) THEN Ends(s, "outside") ELSE Skip(Out(s, ToFile(ts[s.idx + 2])), 2)
FileNext(ts, s)  == IF s.idx = Len(ts) THEN Ends(s, "outside") ELSE Skip(Out(s, ToFile(ts[s.idx + 1])), 1)

Number(s, t, next) == IF Fits(t.n) THEN next ELSE Ends(s, "thrown")

\* np_project1 and simple.
StepSimple(ts, s) ==
  LET t == ts[s.idx] IN
  Skip(CASE AfterPipe(ts, s.idx) -> Add(s, t)
         [] ~AfterPipe(ts, s.idx) /\ t.kind = "|"  -> Out(s, ToPipe(0))
         [] ~AfterPipe(ts, s.idx) /\ t.kind = ">"  -> FileNext(ts, s)
         [] ~AfterPipe(ts, s.idx) /\ t.kind = "|n" -> Number(s, t, Out(s, ToPipe(t.n)))
         [] ~AfterPipe(ts, s.idx) /\ t.kind = "!n" -> Number(s, t, Both(s, ToPipe(t.n)))
         [] OTHER -> Arg(s, t), 1)

\* single_proc and multi_proc: a token of a user pipe by itself.
OneToken(ts, s) ==
  LET t == ts[s.idx]
      other == ~AfterPipe(ts, s.idx) IN
  CASE other /\ t.kind = ">n" -> Skip(Number(s, t, Out(s, ToUser(t.n))), 1)
    [] other /\ t.kind = "<n" -> Skip(Number(s, t, In(s, ToUser(t.n))), 1)
    [] OTHER -> StepSimple(ts, s)

\* A `<n` and a `>` after it are taken together, and the file gets the name ">".
FromAndFile(ts, i) == ~AfterPipe(ts, i) /\ ts[i].kind = "<n" /\ i < Len(ts) /\ ts[i + 1].kind = ">"
FromFile(ts, s) ==
  Skip(Number(s, ts[s.idx], Out(In(s, ToUser(ts[s.idx].n)), ToFile(ts[s.idx + 1]))), 3)

\* Two ends in a row are taken in one turn, too: what follows a `<m` then is not looked at.
FromAndTo(ts, i) ==
  /\ ~AfterPipe(ts, i) /\ i < Len(ts)
  /\ \/ ts[i].kind = ">n" /\ ts[i + 1].kind = "<n"
     \/ ts[i].kind = "<n" /\ ts[i + 1].kind \in {">n", "|", "|n", "!n"}

StepUser(ts, s) ==
  LET one == OneToken(ts, s) IN
  CASE FromAndFile(ts, s.idx) -> FromFile(ts, s)
    [] FromAndTo(ts, s.idx) /\ one.end = "none" -> OneToken(ts, one)
    [] OTHER -> one

Loop(ts, Step(_, _)) ==
  LET run[s \in Parser] ==
        IF s.end # "none" \/ s.idx > Len(ts) THEN s ELSE run[Step(ts, s)]
  IN  run[Start]

ParseSimple(ts) == Loop(ts, StepSimple)

\* commands[0] of an empty line is read, too.  The builtins take what follows as
\* one text, tell after the id; who takes nothing.
ParseUser(ts) ==
  IF ts = <<>> THEN Ends(Start, "outside")
  ELSE IF ts[1].kind = "who" THEN Add(Start, ts[1])
  ELSE IF ts[1].kind = "chat" THEN [Add(Start, ts[1]) EXCEPT !.tasks[1].args = ts]
  ELSE Loop(ts, StepUser)

-----------------------------------------------------------------------------
(* What a line means, by the grammar in the comment of Parser::parse.      *)

Bars(ts)  == {i \in 1 .. Len(ts) : ts[i].kind = "|"}
Before(ts, i) == Cardinality({j \in Bars(ts) : j < i})     \* the segment of token i, from 0
Redirects(grammar) == {">", "|n", "!n"} \cup (IF grammar = "user" THEN {">n"} ELSE {})
IsName(ts, i) == i > 1 /\ ts[i - 1].kind = ">"             \* the name of a file

\* Commands between bars, each a word and words; then, of the last, one redirection,
\* and of the first, in the grammar with user pipes, one `<n`.  A file is not named
\* directly after `<n`.
InGrammar(grammar, ts) ==
  LET n == Cardinality(Bars(ts))
      Ending == {i \in DOMAIN ts : ts[i].kind \in Redirects(grammar)}
      From   == {i \in DOMAIN ts : grammar = "user" /\ ts[i].kind = "<n"}
      IsWord(i) == ts[i].kind \in {"word", "who", "chat"}
                     \/ (grammar = "simple" /\ ts[i].kind \in {">n", "<n"})
  IN  /\ ts # <<>> /\ Cardinality(Ending) <= 1 /\ Cardinality(From) <= 1
      /\ \A i \in DOMAIN ts :
           /\ i = 1 \/ ts[i - 1].kind = "|" => IsWord(i)
           /\ IsWord(i) => i = 1 \/ IsWord(i - 1) \/ ts[i - 1].kind = "|" \/ IsName(ts, i)
           /\ ts[i].kind \in {"|n", "!n", ">n", "<n"} /\ ~IsWord(i) => Fits(ts[i].n)
           /\ ts[i].kind = ">" => i < Len(ts) /\ ts[i + 1].kind = "word" /\ (i > 1 => i - 1 \notin From)
           /\ i \in Ending => Before(ts, i) = n
           /\ i \in From => Before(ts, i) = 0
           /\ IsName(ts, i) => i = Len(ts) \/ ts[i + 1].kind = "<n"
      /\ ts[Len(ts)].kind # "|" /\ (grammar = "user" => ts[1].kind = "word")

\* What the tokens at the positions P mean, independently of the order in which the
\* parser comes by them: those of segment k that are of some kinds, its words, where
\* its output goes, and its task.
Of(ts, P, k, kinds) == {i \in P : Before(ts, i) = k /\ ts[i].kind \in kinds}
Words(grammar, ts, P, k) ==
  {i \in P : /\ Before(ts, i) = k /\ ~IsName(ts, i)
             /\ ts[i].kind \notin Redirects(grammar) \cup {"|"}
             /\ ~(grammar = "user" /\ ts[i].kind = "<n")}
The(S) == CHOOSE i \in S : TRUE
Ordered(ts, S) == [j \in 1 .. Cardinality(S) |->
                     ts[The({i \in S : Cardinality({m \in S : m < i}) = j - 1})]]

Redirected(ts, i) ==
  CASE ts[i].kind = ">"  -> ToFile(ts[i + 1])
    [] ts[i].kind = ">n" -> ToUser(ts[i].n)
    [] OTHER             -> ToPipe(ts[i].n)
Goes(grammar, ts, P, k) ==
  LET last == Of(ts, P, k, Redirects(grammar)) IN
  IF Of(ts, P, k, {"|"}) # {} THEN ToPipe(0)
  ELSE IF last = {} THEN Origin ELSE Redirected(ts, The(last))

TaskAt(grammar, ts, P, k) ==
  LET from == Of(ts, P, k, {"<n"}) IN
  [args |-> Ordered(ts, Words(grammar, ts, P, k)),
   in   |-> IF grammar = "user" /\ from # {} THEN ToUser(ts[The(from)].n) ELSE Origin,
   out  |-> Goes(grammar, ts, P, k),
   err  |-> IF Of(ts, P, k, {"!n"}) # {} THEN Goes(grammar, ts, P, k) ELSE Origin]

Meaning(grammar, ts) ==
  [k \in 1 .. Cardinality(Bars(ts)) + 1 |-> TaskAt(grammar, ts, DOMAIN ts, k - 1)]

\* Lines for which the parser may throw or read what is not there.
Misleads(grammar, ts) ==
  \/ ts = <<>> /\ grammar = "user"
  \/ \E i \in DOMAIN ts : \/ ts[i].kind = ">" /\ i = Len(ts)
                          \/ ts[i].kind \in {"|n", "!n"} /\ ~Fits(ts[i].n)
                          \/ grammar = "user" /\ ts[i].kind \in {">n", "<n"} /\ ~Fits(ts[i].n)
=============================================================================
