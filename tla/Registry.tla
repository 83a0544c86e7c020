------------------------------ MODULE Registry ------------------------------
(***************************************************************************)
(* What the user tables of the chat servers promise: a roster in which     *)
(* every user who logs in gets the lowest id that is not in use and no     *)
(* name, a name is given to one user at a time, and an entry is given up   *)
(* only as a whole.                                                        *)
(***************************************************************************)
EXTENDS Integers, FiniteSets

CONSTANTS Conn,    \* clients
          Name,    \* names they may take
          NoName   \* what a user is called who took none, or gave it up

VARIABLE roster    \* id -> the client and its name, for the ids in use

Ids == DOMAIN roster

Init == roster = [i \in {} |-> NoName]

\* A client that is not in the roster gets the lowest free id.
Join(c, i) ==
  /\ \A j \in Ids : roster[j].who # c
  /\ i \notin Ids
  /\ \A j \in 1 .. i - 1 : j \in Ids
  /\ roster' = [j \in Ids \cup {i} |-> IF j = i THEN [who |-> c, name |-> NoName] ELSE roster[j]]

\* A user takes a name that nobody has, be it the name of the nameless.
Rename(i, n) ==
  /\ \A j \in Ids : roster[j].name # n
  /\ roster' = [roster EXCEPT ![i].name = n]

Leave(i) == roster' = [j \in Ids \ {i} |-> roster[j]]

\* The lowest free id is at most one more than the number of users.
Next == \/ \E c \in Conn : \E i \in 1 .. Cardinality(Ids) + 1 : Join(c, i)
        \/ \E i \in Ids : \/ \E n \in Name \cup {NoName} : Rename(i, n)
                          \/ Leave(i)

Spec == Init /\ [][Next]_roster
=============================================================================
