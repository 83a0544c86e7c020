----------------------------- MODULE MCNpSimple -----------------------------
(* The lines that are typed in the run of NpSimple. *)
EXTENDS NpSimple, TLC, SequencesExt

T(k, n) == [kind |-> k, n |-> n]
Some == {T("word", 1), T("word", 2), T("who", 0), T("chat", 0), T("|", 0), T(">", 0), T("|n", 2),
         T("!n", 1), T(">n", 1), T("<n", 2), T("|n", NoNumber), T("<n", NoNumber), T("|n", MaxInt), T("!n", -1), T(">n", -1)}

\* Every line of up to two tokens, and those of four that begin with a command.
Short    == UNION {TupleOf(Some, k) : k \in 0 .. 2}
Tails    == Some \ {T("word", 2), T("who", 0), T("chat", 0), T("!n", 1), T("<n", NoNumber), T("|n", MaxInt),
                  T("!n", -1), T(">n", -1)}
Starting == {<<T("word", 1)>> \o l : l \in TupleOf(Tails, 3)}

\* The second client comes and goes.
SomeLines   == ("c1" :> Starting \cup Short) @@ ("c2" :> {})
SomeGarbled == {<<>>, <<T("word", 2), T("word", 1)>>, <<T("|n", NoNumber), T("|n", NoNumber)>>}
=============================================================================
