---------------------------- MODULE MCFifoPipes ----------------------------
(* What the users type in the runs of FifoPipes. *)
EXTENDS FifoPipes

Idle == [kind |-> "run", reads |-> FALSE, size |-> 0, out |-> NotPipe, from |-> NoUser, to |-> NoUser]

Writer(n)   == [Idle EXCEPT !.size = n]
Reader      == [Idle EXCEPT !.reads = TRUE]
Builtin     == [Idle EXCEPT !.kind = "builtin"]
Exit        == [Idle EXCEPT !.kind = "exit"]
To(t, r)    == [t EXCEPT !.to = r]
From(t, s)  == [t EXCEPT !.from = s]
Ahead(t, n) == [t EXCEPT !.out = n]

\* User 1 sends to user 2, who reads the FIFO, leaves it unread, or pipes on what it
\* brings; both leave.
UserLines == << {<<Exit>>, <<To(Writer(1), 2)>>},
                {<<Exit>>, <<From(Reader, 1)>>, <<From(Builtin, 1)>>, <<Ahead(From(Reader, 1), 2)>>} >>
=============================================================================
