---------------------------- MODULE MCUserTable ----------------------------
(* UserTable for TLC: what clients type, and the symmetry among them.      *)
EXTENDS UserTable, TLC

Do(op)    == [op |-> op, name |-> NoName, id |-> 0]
Rename(n) == [Do("name") EXCEPT !.name = n]
Tell(i)   == [Do("tell") EXCEPT !.id = i]

\* One builtin per line, and the lines with exit in a pipeline, which go on
\* after the shell has been queued.
TableLines ==
  { << Do("quiet") >>, << Do("yell") >>, << Tell(1) >>, << Tell(2) >>, << Tell(NotNumber) >>,
    << Do("exit") >>, << Do("exit"), Do("exit") >>, << Do("pipe") >>, << Do("unpipe") >> }
  \cup { << Rename(n) >> : n \in Name \cup {NoName} }
  \cup { << Do("exit"), Rename(n) >> : n \in Name }

\* The lines that change the tables, and the one that ends the server.
CoreLines == { << Tell(NotNumber) >>, << Do("exit") >>, << Do("exit"), Do("exit") >> }
             \cup { << Rename(n) >> : n \in Name \cup {NoName} }

Symmetry == Permutations(Conn)
=============================================================================
