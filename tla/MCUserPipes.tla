---------------------------- MODULE MCUserPipes ----------------------------
(* What the users type in the run of UserPipes. *)
EXTENDS UserPipes

Idle == [kind |-> "run", reads |-> FALSE, size |-> 0, out |-> NotPipe, err |-> NotPipe,
         from |-> NoUser, to |-> NoUser]

\* A command that writes n units; one that copies its input.
Writer(n) == [Idle EXCEPT !.size = n]
Reader    == [Idle EXCEPT !.reads = TRUE]
Builtin   == [Idle EXCEPT !.kind = "builtin"]
Exit      == [Idle EXCEPT !.kind = "exit"]

To(t, r)      == [t EXCEPT !.to = r]
From(t, s)    == [t EXCEPT !.from = s]
Ahead(t, n)   == [t EXCEPT !.out = n]
Errors(t, n)  == [t EXCEPT !.err = n]

\* Every form of line, with the cases that get in each other's way: builtins at
\* the ends of user pipes, a command that reads its user's socket, `<` where a
\* numbered pipe may wait, `>` twice, more output than a kernel pipe holds, in a
\* pipeline and in a numbered pipe that the next line of the same user would read.
AnyLines ==
  {<<Exit>>, <<From(Builtin, 1)>>, <<To(Builtin, 2)>>, <<From(Reader, 1)>>, <<Reader>>}
  \cup {<<To(Writer(1), r)>> : r \in {1, 2}}
  \cup {<<From(To(Reader, 1), 2)>>, <<Ahead(Errors(Writer(2), 2), 1)>>,
        <<Ahead(Writer(1), 0), To(Reader, 2)>>, <<Ahead(Writer(2), 0), Reader>>}
=============================================================================
