--------------------------- MODULE MCSocksServer ---------------------------
(* What the clients ask for in the runs of SocksServer. *)
EXTENDS SocksServer, TLC

Asks(cd, permitted, resolves, answers) ==
  [cd |-> cd, permitted |-> permitted, resolves |-> resolves, answers |-> answers]

Good    == Asks("connect", TRUE, TRUE, TRUE)
Nowhere == Asks("connect", TRUE, FALSE, FALSE)
Dead    == Asks("connect", TRUE, TRUE, FALSE)
Denied  == Asks("bind", FALSE, TRUE, TRUE)
Bind    == Asks("bind", TRUE, TRUE, TRUE)

\* One client talks to its destination, the other gets none.
SomeRequests == ("c1" :> {Good, Bind}) @@ ("c2" :> {Nowhere, Dead, Denied})
SomeData     == ("c1" :> ("up" :> 1 @@ "down" :> 2)) @@ ("c2" :> ("up" :> 0 @@ "down" :> 0))
=============================================================================
