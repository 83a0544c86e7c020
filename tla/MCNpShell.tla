----------------------------- MODULE MCNpShell -----------------------------
(* NpShell for TLC: the lines the user may type in each run.               *)
EXTENDS NpShell

\* A command that writes size units, and one that copies its input.
Gen(size, out, err) ==
  [kind |-> "run", reads |-> FALSE, size |-> size, onErr |-> FALSE, out |-> out, err |-> err]
Cat(out, err) ==
  [kind |-> "run", reads |-> TRUE, size |-> 0, onErr |-> FALSE, out |-> out, err |-> err]
\* A command that copies its input to stderr (removetag0).
CatErr(out, err) == [Cat(out, err) EXCEPT !.onErr = TRUE]
\* printenv or setenv, and exit.
Builtin(out) ==
  [kind |-> "builtin", reads |-> FALSE, size |-> 0, onErr |-> FALSE, out |-> out, err |-> NotPipe]
ExitCmd == [Builtin(NotPipe) EXCEPT !.kind = "exit"]

\* Lines of any form the parser accepts except a pipe to the line itself:
\* blank, plain, | , |n , !n , |n beyond the ring, builtins, exit.
AnyLines == {
  <<>>,
  << Gen(1, NotPipe, NotPipe) >>,
  << Gen(2, 1, NotPipe) >>,
  << Gen(2, 0, NotPipe), Cat(2, 2) >>,
  << Cat(MaxPipe + 1, NotPipe) >>,
  << CatErr(NotPipe, 1) >>,
  << Builtin(1) >>,
  << Cat(0, NotPipe), ExitCmd >> }

\* Lines whose every command runs in a process, whose pipes stay in the ring
\* and are read by the commands that they reach.
CommandLines == {
  <<>>,
  << Cat(NotPipe, NotPipe) >>,
  << Gen(3, 1, NotPipe) >>,
  << Gen(3, 2, 2) >>,
  << CatErr(1, 1) >>,
  << Gen(3, 0, NotPipe), Cat(1, NotPipe) >>,
  << Cat(0, 1), Cat(NotPipe, NotPipe) >>,
  << Cat(0, NotPipe), ExitCmd >> }

\* Two lines: a numbered pipe, and a builtin for it to reach.
BuiltinTarget == { << Gen(2, 1, NotPipe) >>, << Builtin(NotPipe) >> }
=============================================================================
