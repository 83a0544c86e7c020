-------------------------- MODULE SharedTableProofs --------------------------
(***************************************************************************)
(* Proofs about the shared table of np_multi_proc, for any size of the     *)
(* table, any number of shells, names and lines, and any interleaving.     *)
(***************************************************************************)
EXTENDS SharedTable, TLAPS

-----------------------------------------------------------------------------
(* The inductive invariant.                                                *)

\* A shell at p that has the entry u, the loop l, cleared its entry r times, is in
\* its handler or not (w), and has printed d.
ShellOf(p, u, l, r, w, d) ==
  /\ p \in {"none", "scan", "claim"} => u = NoUid /\ ~w /\ d = {}
  /\ p \notin {"none", "scan", "claim"} \cup Over => u \in Entry
  /\ w \/ d # {} => u \in Entry
  /\ p \in {"claim", "copying", "signal"} => l.i \in Entry
  /\ p = "setname" \/ l.next = "setname" => l.want \in Name
  /\ r = 3 => p = "ended"

ShellInv == \A s \in Shell : ShellOf(pc[s], uid[s], loop[s], round[s], shown[s], printed[s])

\* An entry in use has a shell that took it and has not freed it since.
Holds(t, i) == uid[t] = i /\ pc[t] \notin {"ended", "clear"}
HeldInv     == \A i \in Entry : entry[i].id => \E t \in Shell : Holds(t, i)

\* What a shell sends is its own, and was typed.
OwnOf(s, p, l, n) == p \in Sending /\ l.text \in Said => l.text[1] = s /\ l.text[2] <= n
OwnInv == \A s \in Shell : OwnOf(s, pc[s], loop[s], ncommand)

\* The text m will not be written into entry i any more: its author, at p with the
\* loop l, has sent something else since or has passed i.
PastOf(m, i, p, l, n) ==
  /\ m[2] <= n
  /\ p \in Sending /\ l.text = m => i < l.i \/ (i = l.i /\ p = "signal")
Past(m, i) == PastOf(m, i, pc[m[1]], loop[m[1]], ncommand)

\* What is in a buffer was written there, and so was what a shell has printed.
BufferInv  == \A i \in Entry : entry[i].msg \in Said => Past(entry[i].msg, i)
PrintedInv == \A s \in Shell : \A m \in printed[s] : Past(m, uid[s])

\* What a shell has printed is in its buffer only until its handler returns.
OnceInv == \A s \in Shell : ~shown[s] /\ printed[s] # {} => entry[uid[s]].msg \notin printed[s]

SharedInv == TypeOK /\ ShellInv /\ HeldInv /\ OwnInv /\ BufferInv /\ PrintedInv /\ OnceInv

-----------------------------------------------------------------------------
(* Every step keeps the types.                                             *)

\* The bounds are numbers.
LEMMA Bounds ==
  /\ MaxUser \in Nat /\ MaxUser > 0 /\ MaxShell \in Nat /\ MaxCommand \in Nat
  /\ 1 \in Entry /\ MaxUser \in Entry
BY BoundAssumption DEF Entry

\* Where a shell can be.
LEMMA Places ==
  /\ {"none", "recv", "setname", "scan", "claim", "publish", "handlers"} \subseteq Place
  /\ {"send", "copying", "signal", "free", "clear", "ended", "killed"} \subseteq Place
BY DEF Place, Starting, Sending, Leaving, Over

\* A shell that goes on and sends.
LEMMA SendTypes ==
  ASSUME SharedInv, NEW s \in Shell, NEW i \in Entry, NEW j \in Entry, NEW m \in Text,
         NEW p \in {"recv", "free"}, Send(s, i, j, m, p)
  PROVE  /\ loop' \in [Shell -> Loop]
         /\ pc' \in [Shell -> Place]
<1>1. [i |-> i, last |-> j, text |-> m, next |-> p, want |-> Blank] \in Loop
  BY Bounds DEF Loop, Entry
<1> QED
  BY <1>1, Places DEF Send, Goto, SharedInv, TypeOK

\* A shell that goes on.
LEMMA GotoTypes ==
  ASSUME SharedInv, NEW s \in Shell,
         NEW p \in Place, Goto(s, p)
  PROVE  pc' \in [Shell -> Place]
BY DEF SharedInv, TypeOK, Goto

\* The first loop of a shell is empty.
LEMMA NoLoopTypes ==
  /\ NoLoop \in Loop /\ NoLoop.i = 1 /\ NoLoop.next = "recv"
  /\ \A w \in Name \cup {Blank} :
       [NoLoop EXCEPT !.want = w] \in Loop /\ [NoLoop EXCEPT !.want = w].want = w /\ [NoLoop EXCEPT !.want = w].next = "recv"
BY Bounds DEF NoLoop, Loop

\* What every step may use of a shell.
LEMMA ShellFacts ==
  ASSUME SharedInv, NEW s \in Shell
  PROVE  /\ pc[s] \notin {"none", "scan", "claim"} \cup Over => uid[s] \in Entry
         /\ shown[s] => uid[s] \in Entry
         /\ pc[s] \in {"claim", "copying", "signal"} => loop[s].i \in Entry
         /\ pc[s] = "setname" \/ loop[s].next = "setname" => loop[s].want \in Name
         /\ round[s] = 3 => pc[s] = "ended"
         /\ loop[s] \in Loop
BY DEF SharedInv, ShellInv, ShellOf, TypeOK

\* The loop of a shell runs over entries of the table.
LEMMA LoopFacts ==
  ASSUME SharedInv, NEW s \in Shell, loop[s].i <= loop[s].last
  PROVE  loop[s].i \in Entry /\ [loop[s] EXCEPT !.i = @ + 1] \in Loop
BY ShellFacts, Bounds DEF Loop, Entry

\* What the shells do to an entry.
LEMMA UserTypes ==
  ASSUME NEW e \in User
  PROVE  /\ Claimed(e) \in User /\ Freed(e) \in User /\ Emptied(e) \in User
         /\ Cleared(e, 1) \in User /\ Cleared(e, 2) \in User /\ Cleared(e, 3) \in User
         /\ \A m \in Text \cup {Empty} : [e EXCEPT !.msg = m] \in User
         /\ \A n \in Name : [e EXCEPT !.name = n] \in User
         /\ \A t \in Shell : [e EXCEPT !.name = Unnamed, !.pid = t] \in User
BY DEF User, Claimed, Freed, Emptied, Cleared, NewEntry

\* An entry that gets a value of its type.
LEMMA EntryTypes ==
  ASSUME SharedInv, NEW i \in Entry, NEW e \in User, entry' = [entry EXCEPT ![i] = e]
  PROVE  entry' \in [Entry -> User]
BY DEF SharedInv, TypeOK

\* Every action, with what it does to each variable.
LEMMA TypesKept ==
  ASSUME SharedInv, NEW s \in Shell, Accept(s) \/ Typed(s) \/ Step(s) \/ BrokenPipe(s)
  PROVE  TypeOK'
<1> USE DEF server, mine, signal
<1>t. TypeOK
  BY DEF SharedInv
<1>l. ASSUME NEW u \in Entry PROVE entry[u] \in User
  BY <1>t DEF TypeOK
<1>n. Notice \in Text /\ Mixed \in Text
  BY DEF Text
<1>1. CASE Accept(s)
  <2>1. pc' \in [Shell -> Place]
    BY <1>1, GotoTypes, Places DEF Accept
  <2> QED
    BY <1>1, <1>t, <2>1 DEF Accept, TypeOK
<1>2. CASE Scan(s)
  <2>1. loop' \in [Shell -> Loop]
    <3>1. CASE loop' = loop
      BY <1>t, <3>1 DEF TypeOK
    <3>2. CASE loop[s].i <= MaxUser /\ loop' = [loop EXCEPT ![s].i = @ + 1]
      <4>1. [loop[s] EXCEPT !.i = @ + 1] \in Loop
        BY <3>2, ShellFacts, Bounds DEF Loop
      <4> QED
        BY <1>t, <3>2, <4>1 DEF TypeOK
    <3> QED
      BY <1>2, <3>1, <3>2 DEF Scan
  <2>2. pc' \in [Shell -> Place]
    BY <1>2, <1>t, GotoTypes, Places DEF Scan, TypeOK
  <2> QED
    BY <1>2, <1>t, <2>1, <2>2 DEF Scan, TypeOK
<1>3. CASE ScanFails(s)
  <2>1. pc' \in [Shell -> Place]
    BY <1>3, GotoTypes, Places DEF ScanFails
  <2> QED
    BY <1>3, <1>t, <2>1 DEF ScanFails, TypeOK
<1>4. CASE Claim(s)
  <2>1. loop[s].i \in Entry
    BY <1>4, ShellFacts DEF Claim, At
  <2>2. pc' \in [Shell -> Place]
    BY <1>4, GotoTypes, Places DEF Claim
  <2>3. loop' \in [Shell -> Loop]
    BY <1>4, <1>t, NoLoopTypes DEF Claim, TypeOK
  <2>4. entry' \in [Entry -> User]
    <3>1. Claimed(entry[loop[s].i]) \in User
      BY <1>l, <2>1, UserTypes
    <3> QED
      BY <1>4, <2>1, <3>1, EntryTypes DEF Claim
  <2> QED
    BY <1>4, <1>t, <2>1, <2>2, <2>3, <2>4 DEF Claim, TypeOK
<1>5. CASE Publish(s)
  <2>1. pc' \in [Shell -> Place]
    BY <1>5, GotoTypes, Places DEF Publish
  <2>2. uid[s] \in Entry
    BY <1>5, ShellFacts DEF Publish, At, Over
  <2>3. [entry[uid[s]] EXCEPT !.name = Unnamed, !.pid = s] \in User
    BY <1>l, <2>2, UserTypes
  <2>4. entry' = [entry EXCEPT ![uid[s]] = [entry[uid[s]] EXCEPT !.name = Unnamed, !.pid = s]]
    BY <1>5, <1>t, <2>2 DEF Publish, TypeOK
  <2>5. entry' \in [Entry -> User]
    BY <2>2, <2>3, <2>4, EntryTypes
  <2> QED
    BY <1>5, <1>t, <2>1, <2>5 DEF Publish, TypeOK
<1>6. CASE Enter(s)
  <2>1. loop' \in [Shell -> Loop] /\ pc' \in [Shell -> Place]
    BY <1>6, <1>n, SendTypes, Bounds DEF Enter
  <2> QED
    BY <1>6, <1>t, <2>1 DEF Enter, TypeOK
<1>7. CASE BeginCopy(s)
  <2>1. loop[s].i \in Entry
    BY <1>7, LoopFacts DEF BeginCopy
  <2>2. pc' \in [Shell -> Place]
    BY <1>7, GotoTypes, Places DEF BeginCopy
  <2>3. entry' \in [Entry -> User]
    <3>1. [entry[loop[s].i] EXCEPT !.msg = Mixed] \in User
      BY <1>l, <1>n, <2>1, UserTypes
    <3> QED
      BY <1>7, <2>1, <3>1, EntryTypes DEF BeginCopy
  <2> QED
    BY <1>7, <1>t, <2>2, <2>3 DEF BeginCopy, TypeOK
<1>8. CASE EndCopy(s)
  <2>1. loop[s].i \in Entry
    BY <1>8, ShellFacts DEF EndCopy, At
  <2>2. PICK m \in Outcomes(s, entry[loop[s].i].msg) : entry' = [entry EXCEPT ![loop[s].i].msg = m]
    BY <1>8 DEF EndCopy
  <2>3. m \in Text \cup {Empty}
    <3>1. loop[s].text \in Text \cup {Empty} /\ entry[loop[s].i].msg \in Text \cup {Empty}
      BY <1>l, <2>1, ShellFacts DEF Loop, User
    <3> QED
      BY <1>n, <2>2, <3>1 DEF Outcomes
  <2>4. pc' \in [Shell -> Place]
    BY <1>8, GotoTypes, Places DEF EndCopy
  <2>5. entry' \in [Entry -> User]
    <3>1. [entry[loop[s].i] EXCEPT !.msg = m] \in User
      BY <1>l, <2>1, <2>3, UserTypes
    <3> QED
      BY <2>1, <2>2, <3>1, EntryTypes
  <2> QED
    BY <1>8, <1>t, <2>4, <2>5 DEF EndCopy, TypeOK
<1>9. CASE Kill(s)
  <2>1. loop' \in [Shell -> Loop]
    <3>1. loop[s].i \in Entry
      BY <1>9, ShellFacts DEF Kill, At
    <3>2. [loop[s] EXCEPT !.i = @ + 1] \in Loop
      BY <3>1, ShellFacts, Bounds DEF Loop, Entry
    <3> QED
      BY <1>9, <1>t, <3>2 DEF Kill, TypeOK
  <2>2. pc' \in [Shell -> Place]
    BY <1>9, <1>t, Places DEF Kill, TypeOK
  <2>3. up' \in BOOLEAN /\ usr1' \in [Shell -> BOOLEAN]
    BY <1>9, <1>t DEF Kill, TypeOK
  <2> QED
    BY <1>9, <1>t, <2>1, <2>2, <2>3 DEF Kill, TypeOK
<1>10. CASE EndSend(s)
  <2>1. loop' \in [Shell -> Loop]
    <3>1. [NoLoop EXCEPT !.want = loop[s].want] \in Loop
      BY NoLoopTypes, ShellFacts DEF Loop
    <3> QED
      BY <1>10, <1>t, <3>1 DEF EndSend, TypeOK
  <2>2. pc' \in [Shell -> Place]
    <3>1. loop[s].next \in Place
      BY ShellFacts, Places DEF Loop
    <3> QED
      BY <1>10, <3>1, GotoTypes DEF EndSend
  <2> QED
    BY <1>10, <1>t, <2>1, <2>2 DEF EndSend, TypeOK
<1>11. CASE SetName(s)
  <2>1. loop[s].want \in Name /\ uid[s] \in Entry
    BY <1>11, ShellFacts DEF SetName, At, Over
  <2>2. loop' \in [Shell -> Loop]
    BY <1>11, <1>t, NoLoopTypes DEF SetName, TypeOK
  <2>3. pc' \in [Shell -> Place]
    BY <1>11, GotoTypes, Places DEF SetName
  <2>4. entry' \in [Entry -> User]
    <3>1. [entry[uid[s]] EXCEPT !.name = loop[s].want] \in User
      BY <1>l, <2>1, UserTypes
    <3> QED
      BY <1>11, <2>1, <3>1, EntryTypes DEF SetName
  <2> QED
    BY <1>11, <1>t, <2>1, <2>2, <2>3, <2>4 DEF SetName, TypeOK
<1>12. CASE Free(s)
  <2>1. pc' \in [Shell -> Place]
    BY <1>12, GotoTypes, Places DEF Free
  <2>2. uid[s] \in Entry
    BY <1>12, ShellFacts DEF Free, At, Over
  <2>3. Freed(entry[uid[s]]) \in User
    BY <1>l, <2>2, UserTypes
  <2>4. entry' \in [Entry -> User]
    BY <1>12, <2>2, <2>3, EntryTypes DEF Free
  <2> QED
    BY <1>12, <1>t, <2>1, <2>4 DEF Free, TypeOK
<1>13. CASE Clear(s)
  <2>1. round[s] \in 0 .. 2 /\ uid[s] \in Entry
    <3>1. round[s] \in 0 .. 3
      BY <1>t DEF TypeOK
    <3> QED
      BY <1>13, <3>1, ShellFacts DEF Clear, At, Over
  <2>2. \/ Send(s, 1, MaxUser, Notice, "free")
        \/ Goto(s, "free") /\ UNCHANGED loop
        \/ Goto(s, "ended") /\ UNCHANGED loop
    <3>1. round[s] = 0 \/ round[s] = 1 \/ round[s] = 2
      BY <2>1
    <3> QED
      BY <1>13, <3>1 DEF Clear
  <2>3. loop' \in [Shell -> Loop] /\ pc' \in [Shell -> Place]
    <3>1. CASE Send(s, 1, MaxUser, Notice, "free")
      BY <3>1, <1>n, SendTypes, Bounds
    <3>2. CASE (Goto(s, "free") /\ UNCHANGED loop) \/ (Goto(s, "ended") /\ UNCHANGED loop)
      BY <3>2, <1>t, GotoTypes, Places DEF TypeOK
    <3> QED
      BY <2>2, <3>1, <3>2
  <2>4. entry' \in [Entry -> User]
    <3>1. Cleared(entry[uid[s]], round[s] + 1) \in User
      <4>1. round[s] + 1 \in {1, 2, 3}
        BY <2>1
      <4> QED
        BY <1>l, <2>1, <4>1, UserTypes
    <3> QED
      BY <1>13, <2>1, <3>1, EntryTypes DEF Clear
  <2>5. round' \in [Shell -> 0 .. 3]
    BY <1>13, <1>t, <2>1 DEF Clear, TypeOK
  <2> QED
    BY <1>13, <1>t, <2>3, <2>4, <2>5 DEF Clear, TypeOK
<1>14. CASE Show(s)
  <2>1. (IF entry[uid[s]].fd THEN {entry[uid[s]].msg} \cap Said ELSE {}) \in SUBSET Said
    OBVIOUS
  <2>2. printed' \in [Shell -> SUBSET Said]
    BY <1>14, <1>t, <2>1 DEF Show, TypeOK
  <2> QED
    BY <1>14, <1>t, <2>2 DEF Show, TypeOK
<1>15. CASE Return(s)
  <2>1. uid[s] \in Entry
    BY <1>15, ShellFacts DEF Return
  <2>2. Emptied(entry[uid[s]]) \in User
    BY <1>l, <2>1, UserTypes
  <2>3. entry' \in [Entry -> User]
    BY <1>15, <2>1, <2>2, EntryTypes DEF Return
  <2> QED
    BY <1>15, <1>t, <2>3 DEF Return, TypeOK
<1>16. CASE Yell(s) \/ \E i \in Entry : Tell(s, i)
  <2>1. ncommand' \in 0 .. MaxCommand /\ <<s, ncommand + 1>> \in Text
    BY <1>16, <1>t, Bounds DEF Yell, Tell, Read, TypeOK, Text, Said
  <2>2. loop' \in [Shell -> Loop] /\ pc' \in [Shell -> Place]
    BY <1>16, <2>1, SendTypes, Bounds DEF Yell, Tell
  <2> QED
    BY <1>16, <1>t, <2>1, <2>2 DEF Yell, Tell, Read, TypeOK
<1>17. CASE Exit(s)
  <2>1. ncommand' \in 0 .. MaxCommand
    BY <1>17, <1>t, Bounds DEF Exit, Read, TypeOK
  <2>2. pc' \in [Shell -> Place]
    BY <1>17, GotoTypes, Places DEF Exit
  <2> QED
    BY <1>17, <1>t, <2>1, <2>2 DEF Exit, Read, TypeOK
<1>19. CASE Skip(s)
  <2>1. loop' \in [Shell -> Loop]
    BY <1>19, <1>t, LoopFacts DEF Skip, TypeOK
  <2> QED
    BY <1>19, <1>t, <2>1 DEF Skip, TypeOK
<1>20. CASE BadTell(s)
  <2>1. ncommand' \in 0 .. MaxCommand
    BY <1>20, <1>t, Bounds DEF BadTell, Read, TypeOK
  <2>2. pc' \in [Shell -> Place]
    BY <1>20, GotoTypes, Places DEF BadTell
  <2> QED
    BY <1>20, <1>t, <2>1, <2>2 DEF BadTell, Read, TypeOK
<1>21. CASE BrokenPipe(s)
  <2>1. pc' \in [Shell -> Place]
    BY <1>21, GotoTypes, Places DEF BrokenPipe
  <2> QED
    BY <1>21, <1>t, <2>1 DEF BrokenPipe, TypeOK
<1>18. ASSUME NEW n \in Name, Rename(s, n)
       PROVE  TypeOK'
  <2>1. ncommand' \in 0 .. MaxCommand
    BY <1>18, <1>t, Bounds DEF Rename, Read, TypeOK
  <2>2. pc' \in [Shell -> Place]
    BY <1>18, GotoTypes, Places DEF Rename
  <2>3. [i |-> 1, last |-> MaxUser, text |-> Notice, next |-> "setname", want |-> n] \in Loop
    BY <1>n, Bounds DEF Loop
  <2>4. loop' \in [Shell -> Loop]
    BY <1>18, <1>t, <2>3 DEF Rename, TypeOK
  <2> QED
    BY <1>18, <1>t, <2>1, <2>2, <2>4 DEF Rename, Read, TypeOK
<1> QED
  BY <1>1, <1>2, <1>3, <1>4, <1>5, <1>6, <1>7, <1>8, <1>9, <1>10, <1>11, <1>12, <1>13, <1>14,
     <1>15, <1>16, <1>17, <1>18, <1>19, <1>20, <1>21 DEF Typed, Step

-----------------------------------------------------------------------------
(* What a step does to the shells, and to the entries.                     *)

\* A step of s is none of the other shells, except that it may kill one that has no
\* handler yet.
LEMMA OthersAlone ==
  ASSUME SharedInv, NEW s \in Shell, Accept(s) \/ Typed(s) \/ Step(s) \/ BrokenPipe(s), NEW t \in Shell, t # s
  PROVE  /\ uid'[t] = uid[t] /\ loop'[t] = loop[t] /\ round'[t] = round[t]
         /\ shown'[t] = shown[t] /\ printed'[t] = printed[t]
         /\ pc'[t] = pc[t] \/ (pc[t] \in Starting /\ pc'[t] = "killed")
<1> USE DEF SharedInv, TypeOK, server, mine, signal, Goto, Send
<1>1. CASE Accept(s) \/ Scan(s) \/ ScanFails(s) \/ Claim(s) \/ Publish(s) \/ Enter(s)
  BY <1>1 DEF Accept, Scan, ScanFails, Claim, Publish, Enter
<1>2. CASE Skip(s) \/ BeginCopy(s) \/ EndCopy(s) \/ EndSend(s) \/ BrokenPipe(s)
  BY <1>2 DEF Skip, BeginCopy, EndCopy, EndSend, BrokenPipe
<1>3. CASE Kill(s)
  BY <1>3 DEF Kill
<1>4. CASE SetName(s) \/ Free(s) \/ Show(s) \/ Return(s)
  BY <1>4 DEF SetName, Free, Show, Return
<1>5. CASE Clear(s)
  <2>1. round' = [round EXCEPT ![s] = @ + 1] /\ UNCHANGED <<uid, shown, printed>>
    BY <1>5 DEF Clear
  <2>2. loop'[t] = loop[t] /\ pc'[t] = pc[t]
    <3>1. round[s] = 0 \/ round[s] = 1 \/ round[s] = 2
      <4>1. round[s] \in 0 .. 3 /\ round[s] # 3
        BY <1>5, ShellFacts DEF Clear, At
      <4> QED
        BY <4>1
    <3> QED
      BY <1>5, <3>1 DEF Clear
  <2> QED
    BY <2>1, <2>2
<1>6. CASE Typed(s)
  BY <1>6 DEF Typed, Yell, Exit, BadTell, Tell, Rename, Read
<1> QED
  BY <1>1, <1>2, <1>3, <1>4, <1>5, <1>6 DEF Step

\* What a shell sends next: nothing, an announcement, what was just typed, or what it
\* sent before, to the next entry unless it has not finished with this one.
Sends(s) ==
  \/ pc'[s] \notin Sending
  \/ loop'[s].text \in {Notice, Empty}
  \/ loop'[s].text = <<s, ncommand + 1>> /\ ncommand' = ncommand + 1
  \/ pc'[s] = pc[s] /\ loop'[s] = loop[s]
  \/ /\ loop'[s].text = loop[s].text
     /\ \/ pc[s] = "send" /\ pc'[s] = "send" /\ loop'[s].i = loop[s].i + 1
        \/ pc[s] = "send" /\ pc'[s] = "copying" /\ loop'[s].i = loop[s].i
        \/ pc[s] = "copying" /\ pc'[s] = "signal" /\ loop'[s].i = loop[s].i
        \/ pc[s] = "signal" /\ pc'[s] = "send" /\ loop'[s].i = loop[s].i + 1

\* Every step of a shell sends so; and the lines are counted up.
LEMMA StepSends ==
  ASSUME SharedInv, NEW s \in Shell, Accept(s) \/ Typed(s) \/ Step(s) \/ BrokenPipe(s)
  PROVE  /\ Sends(s)
         /\ ncommand \in Nat /\ ncommand' \in Nat /\ ncommand <= ncommand'
<1> USE DEF SharedInv, server, mine, signal
<1>t. TypeOK /\ ncommand \in Nat
  BY Bounds DEF TypeOK
<1>1. CASE Accept(s) \/ Scan(s) \/ ScanFails(s) \/ Claim(s) \/ Publish(s)
  BY <1>1, <1>t DEF Accept, Scan, ScanFails, Claim, Publish, At, Goto, Sends, Sending, TypeOK
<1>2. CASE Enter(s)
  BY <1>2, <1>t DEF Enter, Send, Sends, TypeOK
<1>3. CASE BeginCopy(s)
  BY <1>3, <1>t DEF BeginCopy, At, Goto, Sends, TypeOK
<1>13. CASE Skip(s)
  <2>1. loop'[s].i = loop[s].i + 1 /\ loop'[s].text = loop[s].text
    BY <1>13, <1>t, ShellFacts DEF Skip, TypeOK, Loop
  <2> QED
    BY <1>13, <1>t, <2>1 DEF Skip, At, Sends, TypeOK
<1>14. CASE BadTell(s) \/ BrokenPipe(s)
  BY <1>14, <1>t DEF BadTell, BrokenPipe, Read, Goto, Sends, Sending, TypeOK
<1>4. CASE EndCopy(s)
  BY <1>4, <1>t DEF EndCopy, At, Goto, Sends, TypeOK
<1>5. CASE Kill(s)
  <2>1. loop'[s].i = loop[s].i + 1 /\ loop'[s].text = loop[s].text
    BY <1>5, <1>t, ShellFacts DEF Kill, TypeOK, Loop
  <2> QED
    BY <1>5, <1>t, <2>1 DEF Kill, At, Sends, TypeOK
<1>6. CASE EndSend(s)
  <2>1. loop[s].next \notin Sending
    BY ShellFacts DEF Loop, Sending
  <2> QED
    BY <1>6, <1>t, <2>1 DEF EndSend, Goto, Sends, TypeOK
<1>7. CASE SetName(s) \/ Free(s)
  BY <1>7, <1>t DEF SetName, Free, Goto, Sends, Sending, TypeOK, NoLoop
<1>8. CASE Clear(s)
  <2>1. round[s] = 0 \/ round[s] = 1 \/ round[s] = 2
    <3>1. round[s] \in 0 .. 3 /\ round[s] # 3
      BY <1>8, <1>t, ShellFacts DEF Clear, At, TypeOK
    <3> QED
      BY <3>1
  <2> QED
    <3>1. \/ Send(s, 1, MaxUser, Notice, "free")
          \/ Goto(s, "free") \/ Goto(s, "ended")
      BY <1>8, <2>1 DEF Clear
    <3>2. ncommand' = ncommand
      BY <1>8 DEF Clear
    <3> QED
      BY <1>t, <3>1, <3>2 DEF Goto, Send, Sends, Sending, TypeOK
<1>9. CASE Show(s) \/ Return(s)
  BY <1>9, <1>t DEF Show, Return, Sends, TypeOK
<1>10. CASE Yell(s) \/ \E i \in Entry : Tell(s, i)
  BY <1>10, <1>t DEF Yell, Tell, Read, Send, Sends, TypeOK
<1>11. CASE Exit(s)
  BY <1>11, <1>t DEF Exit, Read, Goto, Sends, Sending, TypeOK
<1>12. CASE \E n \in Name : Rename(s, n)
  BY <1>12, <1>t DEF Rename, Read, Sends, TypeOK
<1> QED
  BY <1>1, <1>2, <1>3, <1>4, <1>5, <1>6, <1>7, <1>8, <1>9, <1>10, <1>11, <1>12, <1>13, <1>14 DEF Typed, Step

\* An entry gets a text from a copy that ends, and into use by a shell that takes it.
Copies(s, i) == EndCopy(s) /\ i = loop[s].i /\ entry'[i].msg = loop[s].text
Takes(s, i)  == Claim(s) /\ i = loop[s].i

\* Nothing else changes what an entry holds or who uses it.
LEMMA StepEntries ==
  ASSUME SharedInv, NEW s \in Shell, Accept(s) \/ Typed(s) \/ Step(s) \/ BrokenPipe(s), NEW i \in Entry
  PROVE  /\ entry'[i].msg \in {entry[i].msg, Mixed, Empty} \/ Copies(s, i)
         /\ entry'[i].id => entry[i].id \/ Takes(s, i)
<1> USE DEF server, mine, signal
<1>t. TypeOK /\ entry[i] \in User
  BY DEF SharedInv, TypeOK
<1>1. CASE UNCHANGED entry
  BY <1>1
<1>2. CASE Claim(s)
  BY <1>2, <1>t, ShellFacts DEF Claim, At, Claimed, Takes, TypeOK, User
<1>3. CASE Publish(s)
  <2>1. uid[s] \in Entry
    BY <1>3, ShellFacts DEF Publish, At, Over
  <2> QED
    BY <1>3, <1>t, <2>1 DEF Publish, TypeOK, User
<1>4. CASE BeginCopy(s)
  BY <1>4, <1>t DEF BeginCopy, TypeOK, User
<1>5. CASE EndCopy(s)
  <2>1. PICK m \in Outcomes(s, entry[loop[s].i].msg) : entry' = [entry EXCEPT ![loop[s].i].msg = m]
    BY <1>5 DEF EndCopy
  <2>2. m \in {loop[s].text, entry[loop[s].i].msg, Mixed}
    BY <2>1 DEF Outcomes
  <2>3. CASE i = loop[s].i
    <3>1. entry'[i].msg = m /\ entry'[i].id = entry[i].id
      BY <1>t, <2>1, <2>3 DEF TypeOK, User
    <3> QED
      BY <1>5, <2>2, <2>3, <3>1 DEF Copies
  <2>4. CASE i # loop[s].i
    BY <1>t, <2>1, <2>4 DEF TypeOK
  <2> QED
    BY <2>3, <2>4
<1>6. CASE SetName(s)
  BY <1>6, <1>t DEF SetName, TypeOK, User
<1>7. CASE Free(s)
  BY <1>7, <1>t DEF Free, Freed, TypeOK, User
<1>8. CASE Clear(s)
  <2>1. entry' = [entry EXCEPT ![uid[s]] = Cleared(@, round[s] + 1)]
    BY <1>8 DEF Clear
  <2>2. \A r : Cleared(entry[i], r).msg \in {entry[i].msg, Empty} /\ Cleared(entry[i], r).id = entry[i].id
    BY <1>t DEF Cleared, NewEntry, User
  <2>3. entry'[i] = entry[i] \/ entry'[i] = Cleared(entry[i], round[s] + 1)
    BY <1>t, <2>1 DEF TypeOK
  <2> QED
    BY <2>2, <2>3
<1>9. CASE Return(s)
  BY <1>9, <1>t DEF Return, Emptied, TypeOK, User
<1> QED
  BY <1>1, <1>2, <1>3, <1>4, <1>5, <1>6, <1>7, <1>8, <1>9
     DEF Typed, Step, BrokenPipe, Accept, Scan, ScanFails, Enter, Skip, Kill, EndSend, Show, Yell, Tell, Exit, BadTell,
         Rename, Read

-----------------------------------------------------------------------------
(* Every step keeps what holds of the shells and of who holds an entry.    *)

\* The shell that steps, action by action, and the others.
LEMMA ShellsKept ==
  ASSUME SharedInv, NEW s \in Shell, Accept(s) \/ Typed(s) \/ Step(s) \/ BrokenPipe(s)
  PROVE  ShellInv'
<1> USE DEF server, mine, signal
<1>t. TypeOK
  BY DEF SharedInv
<1>o. ASSUME NEW t \in Shell
      PROVE  ShellOf(pc[t], uid[t], loop[t], round[t], shown[t], printed[t])
  BY DEF SharedInv, ShellInv
<1>1. ASSUME NEW t \in Shell, t # s
      PROVE  ShellOf(pc[t], uid[t], loop[t], round[t], shown[t], printed[t])'
  <2>1. pc'[t] = pc[t] \/ (pc[t] \in Starting /\ pc'[t] = "killed")
    BY <1>1, OthersAlone
  <2>2. /\ uid'[t] = uid[t] /\ loop'[t] = loop[t] /\ round'[t] = round[t]
        /\ shown'[t] = shown[t] /\ printed'[t] = printed[t]
    BY <1>1, OthersAlone
  <2> QED
    BY <1>o, <2>1, <2>2 DEF ShellOf, Starting, Over
<1>2. ShellOf(pc[s], uid[s], loop[s], round[s], shown[s], printed[s])'
  <2> USE DEF ShellOf, Starting, Over, At, Goto, TypeOK
  <2>1. CASE Accept(s) \/ ScanFails(s)
    BY <1>t, <1>o, <2>1 DEF Accept, ScanFails
  <2>2. CASE Scan(s)
    <3>1. CASE pc'[s] = "claim" /\ loop'[s] = loop[s]
      <4>1. loop[s].i \in Entry
        BY <2>2, <3>1, <1>t, ShellFacts DEF Scan, Loop, Entry
      <4> QED
        BY <1>t, <1>o, <2>2, <3>1, <4>1 DEF Scan
    <3>2. CASE pc'[s] = "scan" /\ loop'[s] = [loop[s] EXCEPT !.i = @ + 1]
      <4>1. loop'[s].next = loop[s].next /\ loop'[s].want = loop[s].want
        BY <3>2, ShellFacts DEF Loop
      <4> QED
        BY <1>t, <1>o, <2>2, <3>2, <4>1 DEF Scan
    <3> QED
      BY <1>t, <2>2, <3>1, <3>2 DEF Scan
  <2>3. CASE Claim(s)
    <3>1. loop[s].i \in Entry
      BY <2>3, ShellFacts DEF Claim
    <3> QED
      BY <1>t, <1>o, <2>3, <3>1, NoLoopTypes DEF Claim
  <2>4. CASE Publish(s)
    BY <1>t, <1>o, <2>4 DEF Publish
  <2>5. CASE Enter(s)
    BY <1>t, <1>o, <2>5 DEF Enter, Send
  <2>6. CASE BeginCopy(s)
    BY <1>t, <1>o, <2>6, LoopFacts DEF BeginCopy
  <2>16. CASE Skip(s)
    <3>1. loop'[s].next = loop[s].next /\ loop'[s].want = loop[s].want
      BY <1>t, <2>16, ShellFacts DEF Skip, Loop
    <3> QED
      BY <1>t, <1>o, <2>16, <3>1 DEF Skip
  <2>17. CASE BadTell(s) \/ BrokenPipe(s)
    BY <1>t, <1>o, <2>17, ShellFacts DEF BadTell, BrokenPipe, Writes, Handles, Sent, Read
  <2>7. CASE EndCopy(s)
    BY <1>t, <1>o, <2>7 DEF EndCopy
  <2>8. CASE Kill(s)
    <3>1. loop'[s].next = loop[s].next /\ loop'[s].want = loop[s].want
      BY <1>t, <2>8, ShellFacts DEF Kill, Loop
    <3>2. pc'[s] = "send"
      BY <2>8 DEF Kill
    <3> QED
      BY <1>t, <1>o, <2>8, <3>1, <3>2 DEF Kill
  <2>9. CASE EndSend(s)
    <3>1. loop'[s] = [NoLoop EXCEPT !.want = loop[s].want] /\ pc'[s] = loop[s].next
      BY <1>t, <2>9 DEF EndSend
    <3>2. loop[s].next \in {"recv", "setname", "free"} /\ loop[s].want \in Name \cup {Blank}
      BY ShellFacts DEF Loop
    <3>3. loop'[s].next = "recv" /\ loop'[s].want = loop[s].want
      BY <3>1, <3>2, NoLoopTypes
    <3> QED
      BY <1>t, <1>o, <2>9, <3>1, <3>2, <3>3 DEF EndSend, Sent
  <2>10. CASE SetName(s)
    BY <1>t, <1>o, <2>10, NoLoopTypes DEF SetName
  <2>11. CASE Free(s)
    BY <1>t, <1>o, <2>11 DEF Free
  <2>12. CASE Clear(s)
    <3>1. round[s] = 0 \/ round[s] = 1 \/ round[s] = 2
      <4>1. round[s] \in 0 .. 3 /\ round[s] # 3
        BY <2>12, <1>t, ShellFacts DEF Clear
      <4> QED
        BY <4>1
    <3>2. \/ round[s] = 0 /\ Send(s, 1, MaxUser, Notice, "free")
          \/ round[s] = 1 /\ Goto(s, "free") /\ UNCHANGED loop
          \/ round[s] = 2 /\ Goto(s, "ended") /\ UNCHANGED loop
      BY <2>12, <3>1 DEF Clear
    <3>3. round'[s] = round[s] + 1 /\ pc[s] = "clear" /\ UNCHANGED <<uid, shown, printed>>
      BY <1>t, <2>12 DEF Clear
    <3> QED
      BY <1>t, <1>o, <3>2, <3>3 DEF Send
  <2>13. CASE Show(s)
    <3>1. uid[s] \in Entry
      BY <1>o, <2>13 DEF Show, Handles
    <3>2. pc'[s] = pc[s] /\ uid'[s] = uid[s] /\ loop'[s] = loop[s] /\ round'[s] = round[s]
      BY <2>13 DEF Show
    <3> QED
      BY <1>o, <2>13, <3>1, <3>2 DEF Show, Handles
  <2>14. CASE Return(s)
    BY <1>t, <1>o, <2>14 DEF Return
  <2>15. CASE Yell(s) \/ Exit(s) \/ (\E i \in Entry : Tell(s, i)) \/ \E n \in Name : Rename(s, n)
    BY <1>t, <1>o, <2>15 DEF Yell, Exit, Tell, Rename, Read, Send
  <2> QED
    BY <2>1, <2>2, <2>3, <2>4, <2>5, <2>6, <2>7, <2>8, <2>9, <2>10, <2>11, <2>12, <2>13, <2>14, <2>15,
       <2>16, <2>17 DEF Typed, Step
<1> QED
  BY <1>1, <1>2 DEF ShellInv

\* A shell takes an entry once, and frees it before it clears it.
LEMMA StepHolds ==
  ASSUME SharedInv, NEW s \in Shell, Accept(s) \/ Typed(s) \/ Step(s) \/ BrokenPipe(s)
  PROVE  /\ uid'[s] = uid[s] \/ (Claim(s) /\ uid[s] = NoUid /\ uid'[s] = loop[s].i)
         /\ pc'[s] = "clear" => pc[s] = "clear" \/ (uid[s] \in Entry /\ uid'[s] = uid[s] /\ ~entry'[uid[s]].id)
         /\ pc'[s] = "ended" => pc[s] \in {"ended", "clear"} \/ uid[s] = NoUid
<1> USE DEF server, mine, signal
<1>t. TypeOK
  BY DEF SharedInv
<1>o. ShellOf(pc[s], uid[s], loop[s], round[s], shown[s], printed[s])
  BY DEF SharedInv, ShellInv
<1> USE DEF At, Goto, TypeOK
<1>1. CASE Accept(s) \/ Scan(s) \/ ScanFails(s) \/ Claim(s) \/ Publish(s)
  BY <1>1, <1>t, <1>o DEF Accept, Scan, ScanFails, Claim, Publish, ShellOf
<1>2. CASE Enter(s) \/ Skip(s) \/ BeginCopy(s) \/ EndCopy(s) \/ Kill(s) \/ BrokenPipe(s)
  BY <1>2, <1>t DEF Enter, Send, Skip, BeginCopy, EndCopy, Kill, BrokenPipe
<1>3. CASE EndSend(s)
  <2>1. loop[s].next \in {"recv", "setname", "free"}
    BY ShellFacts DEF Loop
  <2> QED
    BY <1>3, <1>t, <2>1 DEF EndSend
<1>4. CASE SetName(s)
  BY <1>4, <1>t DEF SetName
<1>5. CASE Free(s)
  <2>1. uid[s] \in Entry
    BY <1>5, ShellFacts DEF Free, Over
  <2> QED
    BY <1>5, <1>t, <2>1 DEF Free, Freed, User
<1>6. CASE Clear(s)
  BY <1>6, <1>t DEF Clear
<1>7. CASE Show(s) \/ Return(s)
  BY <1>7, <1>t DEF Show, Return
<1>8. CASE Typed(s)
  BY <1>8, <1>t DEF Typed, Yell, Tell, Exit, BadTell, Rename, Read, Send
<1> QED
  BY <1>1, <1>2, <1>3, <1>4, <1>5, <1>6, <1>7, <1>8 DEF Step

\* Who takes an entry holds it; who held it holds it still or has freed it.
LEMMA HeldKept ==
  ASSUME SharedInv, NEW s \in Shell, Accept(s) \/ Typed(s) \/ Step(s) \/ BrokenPipe(s)
  PROVE  HeldInv'
<1> SUFFICES ASSUME NEW i \in Entry, entry'[i].id
             PROVE  \E t \in Shell : Holds(t, i)'
  BY DEF HeldInv
<1>1. CASE Takes(s, i)
  <2>1. uid'[s] = i /\ pc'[s] = "publish"
    BY <1>1 DEF Takes, Claim, Goto, SharedInv, TypeOK
  <2> QED
    BY <2>1 DEF Holds
<1>2. CASE entry[i].id
  <2>1. PICK t \in Shell : Holds(t, i)
    BY <1>2 DEF SharedInv, HeldInv
  <2>2. CASE t = s
    <3>1. uid[s] = i /\ pc[s] \notin {"ended", "clear"} /\ uid[s] # NoUid
      BY <2>1, <2>2 DEF Holds, NoUid, Entry
    <3>2. uid'[s] = i /\ pc'[s] \notin {"ended", "clear"}
      BY <3>1, StepHolds
    <3> QED
      BY <3>2 DEF Holds
  <2>3. CASE t # s
    <3>1. uid'[t] = uid[t] /\ (pc'[t] = pc[t] \/ pc'[t] = "killed")
      BY <2>3, OthersAlone
    <3> QED
      BY <2>1, <3>1 DEF Holds
  <2> QED
    BY <2>2, <2>3
<1> QED
  BY <1>1, <1>2, StepEntries

-----------------------------------------------------------------------------
(* Every step keeps what holds of the texts.                               *)

\* Announcements and torn texts are nothing that a user said.
LEMMA TextFacts ==
  /\ Notice \notin Said /\ Mixed \notin Said /\ Empty \notin Said
  /\ \A m \in Said : m[1] \in Shell /\ m[2] \in Nat
  /\ \A s, n : <<s, n>>[1] = s /\ <<s, n>>[2] = n
BY Bounds DEF Notice, Mixed, Empty, Said, Shell

\* A shell sends what it has read itself.
LEMMA OwnKept ==
  ASSUME SharedInv, NEW s \in Shell, Accept(s) \/ Typed(s) \/ Step(s) \/ BrokenPipe(s)
  PROVE  OwnInv'
<1> SUFFICES ASSUME NEW t \in Shell PROVE OwnOf(t, pc[t], loop[t], ncommand)'
  BY DEF OwnInv
<1>1. OwnOf(t, pc[t], loop[t], ncommand)
  BY DEF SharedInv, OwnInv
<1>2. ncommand \in Nat /\ ncommand' \in Nat /\ ncommand <= ncommand'
  BY StepSends
<1>3. loop[t].text \in Said => loop[t].text[2] \in Nat
  BY TextFacts
<1>4. CASE t = s
  BY <1>1, <1>2, <1>3, <1>4, StepSends, TextFacts DEF OwnOf, Sends, Sending
<1>5. CASE t # s
  <2>1. loop'[t] = loop[t] /\ (pc'[t] = pc[t] \/ pc'[t] = "killed")
    BY <1>5, OthersAlone
  <2> QED
    BY <1>1, <1>2, <1>3, <2>1 DEF OwnOf, Sending
<1> QED
  BY <1>4, <1>5

\* What is past stays past.
LEMMA PastKept ==
  ASSUME SharedInv, NEW s \in Shell, Accept(s) \/ Typed(s) \/ Step(s) \/ BrokenPipe(s),
         NEW m \in Said, NEW i \in Entry, Past(m, i)
  PROVE  Past(m, i)'
<1>1. m[1] \in Shell /\ m[2] \in Nat
  BY TextFacts
<1> DEFINE a == m[1]
<1>2. ncommand \in Nat /\ ncommand' \in Nat /\ ncommand <= ncommand'
  BY StepSends
<1>3. m[2] <= ncommand /\ (pc[a] \in Sending /\ loop[a].text = m => i < loop[a].i \/ (i = loop[a].i /\ pc[a] = "signal"))
  BY DEF Past, PastOf
<1>4. m[2] <= ncommand'
  BY <1>1, <1>2, <1>3
<1>5. ASSUME pc'[a] \in Sending, loop'[a].text = m
      PROVE  i < loop'[a].i \/ (i = loop'[a].i /\ pc'[a] = "signal")
  <2>1. CASE a = s
    <3>1. m \notin {Notice, Empty} /\ m # <<s, ncommand + 1>>
      BY <1>1, <1>2, <1>3, TextFacts
    <3>2. i \in Nat /\ loop[s].i \in Nat
      BY ShellFacts, Bounds DEF Loop, Entry
    <3>3. loop'[s].i \in Nat
      BY TypesKept, Bounds DEF TypeOK, Loop
    <3>4. \/ pc'[s] = pc[s] /\ loop'[s] = loop[s]
          \/ /\ loop[s].text = m
             /\ \/ pc[s] = "send" /\ pc'[s] = "send" /\ loop'[s].i = loop[s].i + 1
                \/ pc[s] = "send" /\ pc'[s] = "copying" /\ loop'[s].i = loop[s].i
                \/ pc[s] = "copying" /\ pc'[s] = "signal" /\ loop'[s].i = loop[s].i
                \/ pc[s] = "signal" /\ pc'[s] = "send" /\ loop'[s].i = loop[s].i + 1
      BY <1>5, <2>1, <3>1, StepSends DEF Sends
    <3> QED
      BY <1>3, <1>5, <2>1, <3>2, <3>3, <3>4 DEF Sending
  <2>2. CASE a # s
    <3>1. loop'[a] = loop[a] /\ (pc'[a] = pc[a] \/ pc'[a] = "killed")
      BY <1>1, <2>2, OthersAlone
    <3> QED
      BY <1>3, <1>5, <3>1 DEF Sending
  <2> QED
    BY <2>1, <2>2
<1> QED
  BY <1>4, <1>5 DEF Past, PastOf

\* A text is not past while its author copies it, and is when the copy is made.
LEMMA WrittenPast ==
  ASSUME SharedInv, NEW s \in Shell, NEW i \in Entry, Copies(s, i), entry'[i].msg \in Said
  PROVE  ~Past(entry'[i].msg, i) /\ Past(entry[i].msg, i)'
<1> DEFINE m == loop[s].text
<1>1. /\ m \in Said /\ entry'[i].msg = m /\ i = loop[s].i /\ pc[s] = "copying"
      /\ pc'[s] = "signal" /\ UNCHANGED <<loop, ncommand>>
  BY DEF Copies, EndCopy, At, Goto, SharedInv, TypeOK, mine
<1>2. m[1] = s /\ m[2] <= ncommand
  BY <1>1 DEF SharedInv, OwnInv, OwnOf, Sending
<1>3. ~(i < loop[s].i)
  BY <1>1, Bounds DEF Entry
<1> HIDE DEF m
<1>4. ~Past(m, i)
  BY <1>1, <1>2, <1>3 DEF Past, PastOf, Sending, m
<1>5. PastOf(m, i, pc'[s], loop'[s], ncommand')
  BY <1>1, <1>2 DEF PastOf
<1>6. Past(entry[i].msg, i)'
  BY <1>1, <1>2, <1>5 DEF Past
<1> QED
  BY <1>1, <1>4, <1>6

\* A buffer has what it had, or what was copied into it now.
LEMMA BuffersKept ==
  ASSUME SharedInv, NEW s \in Shell, Accept(s) \/ Typed(s) \/ Step(s) \/ BrokenPipe(s)
  PROVE  BufferInv'
<1> SUFFICES ASSUME NEW i \in Entry, entry'[i].msg \in Said
             PROVE  Past(entry[i].msg, i)'
  BY DEF BufferInv
<1>1. CASE Copies(s, i)
  BY <1>1, WrittenPast
<1>2. CASE entry'[i].msg \in {entry[i].msg, Mixed, Empty}
  <2>1. entry'[i].msg = entry[i].msg
    BY <1>2, TextFacts
  <2>2. Past(entry[i].msg, i)
    BY <2>1 DEF SharedInv, BufferInv
  <2> DEFINE m == entry[i].msg
  <2>3. PastOf(m, i, pc'[m[1]], loop'[m[1]], ncommand')
    BY <2>1, <2>2, PastKept DEF Past
  <2> QED
    BY <2>1, <2>3 DEF Past
<1> QED
  BY <1>1, <1>2, StepEntries

\* What a shell has printed it had printed before, or has now found in its buffer.
LEMMA StepPrints ==
  ASSUME SharedInv, NEW s \in Shell, Accept(s) \/ Typed(s) \/ Step(s) \/ BrokenPipe(s), NEW t \in Shell, NEW m \in printed'[t]
  PROVE  /\ m \in Said /\ uid[t] \in Entry /\ uid'[t] = uid[t]
         /\ m \in printed[t] \/ (Show(s) /\ t = s /\ m = entry[uid[t]].msg)
<1>1. m \in Said
  BY TypesKept DEF TypeOK
<1>2. CASE m \in printed[t]
  <2>1. uid[t] \in Entry /\ pc[t] \notin {"none", "scan", "claim"}
    BY <1>2 DEF SharedInv, ShellInv, ShellOf
  <2>2. uid'[t] = uid[t]
    BY <2>1, StepHolds, OthersAlone DEF NoUid, Entry
  <2> QED
    BY <1>1, <1>2, <2>1, <2>2
<1>3. CASE m \notin printed[t]
  <2>1. t = s
    BY <1>3, OthersAlone
  <2>2. CASE Show(s)
    <3>1. uid[s] \in Entry
      BY <2>2, ShellFacts DEF Show, Handles, Starting, Over
    <3>2. uid' = uid /\ m = entry[uid[s]].msg
      BY <1>3, <2>1, <2>2 DEF Show, SharedInv, TypeOK, mine
    <3> QED
      BY <1>1, <2>1, <2>2, <3>1, <3>2
  <2>3. CASE ~Show(s)
    <3>1. printed' = printed
      BY <2>3 DEF Typed, Step, Accept, Scan, ScanFails, Claim, Publish, Enter, Skip, BeginCopy, EndCopy, Kill, EndSend,
                  SetName, Free, Clear, Return, BrokenPipe, Yell, Tell, Exit, BadTell, Rename, Read, signal
    <3> QED
      BY <1>3, <3>1
  <2> QED
    BY <2>2, <2>3
<1> QED
  BY <1>2, <1>3

\* Printed texts were in the buffer, and so are past.
LEMMA PrintsKept ==
  ASSUME SharedInv, NEW s \in Shell, Accept(s) \/ Typed(s) \/ Step(s) \/ BrokenPipe(s)
  PROVE  PrintedInv'
<1> SUFFICES ASSUME NEW t \in Shell, NEW m \in printed'[t]
             PROVE  PastOf(m, uid'[t], pc'[m[1]], loop'[m[1]], ncommand')
  BY DEF PrintedInv, Past
<1>1. /\ m \in Said /\ uid[t] \in Entry /\ uid'[t] = uid[t]
      /\ m \in printed[t] \/ m = entry[uid[t]].msg
  BY StepPrints
<1>2. Past(m, uid[t])
  BY <1>1 DEF SharedInv, PrintedInv, BufferInv
<1> QED
  BY <1>1, <1>2, PastKept DEF Past

\* A text that was printed could come back only from its author, who has passed the entry.
LEMMA OnceKept ==
  ASSUME SharedInv, NEW s \in Shell, Accept(s) \/ Typed(s) \/ Step(s) \/ BrokenPipe(s)
  PROVE  OnceInv'
<1> SUFFICES ASSUME NEW t \in Shell, ~shown'[t], entry'[uid'[t]].msg \in printed'[t]
             PROVE  FALSE
  BY DEF OnceInv
<1> DEFINE m == entry'[uid'[t]].msg
<1>1. /\ m \in Said /\ uid[t] \in Entry /\ uid'[t] = uid[t]
      /\ m \in printed[t] \/ (Show(s) /\ t = s)
  BY StepPrints
<1>2. m \in printed[t]
  <2>1. Show(s) => shown'[s]
    BY DEF Show, SharedInv, TypeOK
  <2> QED
    BY <1>1, <2>1
<1>3. Past(m, uid[t])
  BY <1>2 DEF SharedInv, PrintedInv
<1>4. m \in {entry[uid[t]].msg, Mixed, Empty}
  <2>1. CASE Copies(s, uid[t])
    BY <1>1, <1>3, <2>1, WrittenPast
  <2> QED
    BY <1>1, <2>1, StepEntries
<1>5. m = entry[uid[t]].msg
  BY <1>1, <1>4, TextFacts
<1>6. shown[t]
  BY <1>2, <1>5, SMTT(40) DEF SharedInv, OnceInv
<1>7. Return(s) /\ t = s
  <2>1. t = s
    BY <1>6, OthersAlone
  <2> QED
    BY <1>6, <2>1 DEF Typed, Step, Accept, Scan, ScanFails, Claim, Publish, Enter, Skip, BeginCopy, EndCopy, Kill,
                  EndSend, SetName, Free, Clear, Show, BrokenPipe, Yell, Tell, Exit, BadTell, Rename, Read, signal, At
<1>8. m = Empty
  BY <1>1, <1>7 DEF Return, Emptied, SharedInv, TypeOK, User
<1> QED
  BY <1>1, <1>8, TextFacts

-----------------------------------------------------------------------------
(* The theorems.                                                           *)

\* At the start the table is blank and there is no shell.
LEMMA InitShared ==
  ASSUME Init
  PROVE  SharedInv
<1> USE DEF Init
<1>1. TypeOK
  BY Bounds, Places, NoLoopTypes DEF TypeOK, NewEntry, User
<1>2. ShellInv
  BY NoLoopTypes DEF ShellInv, ShellOf
<1>3. HeldInv
  BY DEF HeldInv, NewEntry
<1>4. OwnInv
  BY DEF OwnInv, OwnOf, Sending
<1>5. BufferInv
  <2>1. \A i \in Entry : entry[i].msg = Empty
    BY DEF NewEntry
  <2> QED
    BY <2>1, TextFacts DEF BufferInv
<1>6. PrintedInv /\ OnceInv
  BY DEF PrintedInv, OnceInv
<1> QED
  BY <1>1, <1>2, <1>3, <1>4, <1>5, <1>6 DEF SharedInv

\* However the shells interleave over the table that nothing locks, an entry in use
\* has a shell that took it, and what was written into a buffer once is not written
\* there again (Shell::Shell, broadcast, tell, deleteuser, clear_processes).
THEOREM SharedInvariant == Spec => []SharedInv
<1>1. Init => SharedInv
  BY InitShared
<1>2. SharedInv /\ [Next]_vars => SharedInv'
  <2> SUFFICES ASSUME SharedInv, [Next]_vars PROVE SharedInv'
    OBVIOUS
  <2>1. ASSUME NEW s \in Shell, Accept(s) \/ Typed(s) \/ Step(s) \/ BrokenPipe(s)
        PROVE  SharedInv'
    BY <2>1, TypesKept, ShellsKept, HeldKept, OwnKept, BuffersKept, PrintsKept, OnceKept DEF SharedInv
  <2>2. CASE UNCHANGED vars
    BY <2>2 DEF vars, server, mine, signal, SharedInv, TypeOK, ShellInv, HeldInv, Holds, OwnInv, BufferInv, PrintedInv,
                OnceInv, Past
  <2> QED
    BY <2>1, <2>2 DEF Next
<1> QED
  BY <1>1, <1>2, PTL DEF Spec

\* An entry is never left in use by shells that have all ended, even when two of
\* them took it at once or one took it while another cleared it: only a shell that was
\* killed leaves one behind (deleteuser, ~Shell).
THEOREM NoGhostsEver == Spec => []NoGhosts
<1>1. SharedInv => NoGhosts
  <2> SUFFICES ASSUME SharedInv PROVE NoGhosts
    OBVIOUS
  <2> QED
    BY DEF SharedInv, HeldInv, Holds, NoGhosts
<1> QED
  BY <1>1, SharedInvariant, PTL

\* The handler prints a text at most once to each user, whatever the others write
\* into the buffer between its printing and its emptying (send2itself, broadcast).
THEOREM TextsPrintedOnce == Spec => PrintedOnce
<1>1. SharedInv /\ [Next]_vars =>
        [ \A s \in Shell : shown'[s] /\ ~shown[s] /\ entry[uid[s]].fd =>
            entry[uid[s]].msg \notin printed[s] ]_vars
  BY DEF SharedInv, OnceInv
<1> QED
  BY <1>1, SharedInvariant, PTL DEF Spec, PrintedOnce

-----------------------------------------------------------------------------
(* The table is right when users come and go one at a time.                *)

\* Where a shell at p, with the loop l, that has cleared its entry r times, stands: it has
\* a seat in the table, which it keeps when it is killed; it is giving it up; it comes
\* or goes, or announces that.
Seats(p, l, r) == \/ p \in {"handlers", "recv", "setname", "killed"}
                  \/ p \in Sending /\ l.next # "free"
                  \/ p = "free" /\ r = 0
Quits(p, l, r) == \/ p = "clear"
                  \/ p = "free" /\ r > 0
                  \/ p \in Sending /\ l.next = "free"
Moves(p, l)    == \/ p \in Starting \cup Leaving
                  \/ p \in Sending /\ l.text = Notice /\ l.next # "setname"

\* Who comes or goes does it alone.
AloneInv == \A s, t \in Shell : Moves(pc[s], loop[s]) /\ t # s => pc[t] \in {"none", "recv"} \cup Over

\* The shell's own variables, with its name n, in its handler or not (w).
PlaceOf(p, l, r, n, w) ==
  /\ p \in Starting \cup {"none"} => n = Unnamed
  /\ p \in Starting \cup {"none", "recv", "setname"} => r = 0
  /\ p \in Sending => IF l.next = "free" THEN l.text = Notice /\ r = 1 ELSE r = 0
  /\ w => p \notin Starting \cup Over \cup {"none"}
PlaceInv == \A s \in Shell : PlaceOf(pc[s], loop[s], round[s], nick[s], shown[s])

\* What a shell at its place finds in its entry.
SeatOf(e, s, p, l, r, n) ==
  /\ Seats(p, l, r) => e.id /\ e.fd /\ e.pid = s /\ e.name = n
  /\ p = "publish"  => e.id /\ e.fd /\ e.pid = NoPid
  /\ Quits(p, l, r) => ~e.id
SeatInv == \A s \in Shell : SeatOf(entry[uid[s]], s, pc[s], loop[s], round[s], nick[s])

\* The entry that a shell is about to claim is free, the one it sends to is not.
TargetInv == \A s \in Shell : /\ pc[s] = "claim" => ~entry[loop[s].i].id
                              /\ pc[s] \in {"copying", "signal"} => entry[loop[s].i].id

\* An entry in use is somebody's seat, and one that is not is blank, or freed just now.
Sits(s, i)     == uid[s] = i /\ (Seats(pc[s], loop[s], round[s]) \/ pc[s] = "publish")
JustFreed(s, i) == uid[s] = i /\ pc[s] = "clear" /\ round[s] = 0
HolderInv == \A i \in Entry : entry[i].id => \E s \in Shell : Sits(s, i)
BlankInv  == \A i \in Entry : ~entry[i].id => entry[i] = NewEntry \/ \E s \in Shell : JustFreed(s, i)

\* No signal is pending for a shell that gives up its entry, until it has cleared it;
\* so what ends a shell by SIGPIPE finds it in its seat.
QuietInv == \A s \in Shell : pc[s] \in Leaving /\ round[s] = 0 => ~usr1[s]
KilledInv == \A s \in Shell : pc[s] = "killed" => uid[s] \in Entry

PoliteInv == SharedInv /\ AloneInv /\ PlaceInv /\ SeatInv /\ TargetInv /\ HolderInv /\ BlankInv /\ QuietInv /\ KilledInv

\* One step of shell s, taken politely.
PoliteStep(s) ==
  \/ Step(s) \/ BrokenPipe(s)
  \/ Moving = {} /\ Typed(s) /\ ~Exit(s)
  \/ (\A t \in Shell : Idle(t)) /\ (Accept(s) \/ Exit(s))

\* Where a shell stands in the steps it may be taking.
LEMMA PoliteFacts ==
  ASSUME PoliteInv, NEW s \in Shell
  PROVE  /\ TypeOK /\ SharedInv
         /\ PlaceOf(pc[s], loop[s], round[s], nick[s], shown[s])
         /\ SeatOf(entry[uid[s]], s, pc[s], loop[s], round[s], nick[s])
         /\ Seats(pc[s], loop[s], round[s]) \/ Quits(pc[s], loop[s], round[s]) \/ pc[s] = "publish" => uid[s] \in Entry
         /\ pc[s] \in Place /\ round[s] \in 0 .. 3 /\ uid[s] \in Entry \cup {NoUid} /\ loop[s] \in Loop
         /\ s # NoPid
<1>1. TypeOK /\ SharedInv
  BY DEF PoliteInv, SharedInv
<1>2. Seats(pc[s], loop[s], round[s]) \/ Quits(pc[s], loop[s], round[s]) \/ pc[s] = "publish"
        => pc[s] \notin {"none", "scan", "claim", "ended"}
  BY DEF Seats, Quits, Sending
<1>3. uid[s] \in Entry \/ pc[s] \in {"none", "scan", "claim", "ended"}
  BY <1>1, ShellFacts DEF PoliteInv, KilledInv, Over
<1> QED
  BY <1>1, <1>2, <1>3 DEF PoliteInv, PlaceInv, SeatInv, TypeOK, Shell, NoPid

\* Who comes or goes is the only one who does.
LEMMA OneMoves ==
  ASSUME PoliteInv, NEW s \in Shell, NEW t \in Shell, Moves(pc[s], loop[s]), Moves(pc[t], loop[t])
  PROVE  s = t
<1>1. t # s => pc[t] \in {"none", "recv"} \cup Over
  BY DEF PoliteInv, AloneInv
<1>2. pc[t] \notin {"none", "recv"} \cup Over
  BY DEF Moves, Starting, Leaving, Sending, Over
<1> QED
  BY <1>1, <1>2

\* A signal reaches the one user whose entry it was sent to, who has a handler.
LEMMA KillHits ==
  ASSUME PoliteInv, NEW s \in Shell, Kill(s)
  PROVE  pc' = [pc EXCEPT ![s] = "send"]
<1> DEFINE i == loop[s].i
<1>0. pc[s] = "signal" /\ i \in Entry /\ entry[i].id
  BY PoliteFacts, ShellFacts DEF Kill, At, PoliteInv, TargetInv
<1>1. PICK t \in Shell : Sits(t, i)
  BY <1>0 DEF PoliteInv, HolderInv
<1>2. ~Moves(pc[t], loop[t]) \/ t = s
  BY <1>0 DEF PoliteInv, AloneInv, Over
<1>3. pc[t] # "publish" /\ pc[t] # "handlers"
  BY <1>0, <1>2 DEF Moves, Starting
<1>4. entry[i].pid = t /\ t # NoPid /\ pc[t] \notin Starting
  BY <1>1, <1>3, PoliteFacts DEF Sits, SeatOf, Seats, Starting, Sending
<1>5. Hit(s) = {t}
  BY <1>4 DEF Hit
<1>6. pc \in [Shell -> Place]
  BY PoliteFacts DEF TypeOK
<1> QED
  BY <1>4, <1>5, <1>6 DEF Kill

\* The others do not notice a step of s.
LEMMA OthersPolite ==
  ASSUME PoliteInv, NEW s \in Shell, PoliteStep(s), NEW t \in Shell, t # s
  PROVE  /\ uid'[t] = uid[t] /\ loop'[t] = loop[t] /\ round'[t] = round[t]
         /\ shown'[t] = shown[t] /\ nick'[t] = nick[t] /\ pc'[t] = pc[t]
<1>0. TypeOK /\ SharedInv /\ (Accept(s) \/ Typed(s) \/ Step(s) \/ BrokenPipe(s))
  BY PoliteFacts DEF PoliteStep, Typed
<1>1. /\ uid'[t] = uid[t] /\ loop'[t] = loop[t] /\ round'[t] = round[t] /\ shown'[t] = shown[t]
      /\ pc'[t] = pc[t] \/ (pc[t] \in Starting /\ pc'[t] = "killed")
  BY <1>0, OthersAlone
<1>2. nick'[t] = nick[t]
  BY <1>0 DEF TypeOK, Typed, Step, Accept, Scan, ScanFails, Claim, Publish, Enter, Skip, BeginCopy, EndCopy, Kill,
              EndSend, SetName, Free, Clear, Show, Return, BrokenPipe, Yell, Tell, Exit, BadTell, Rename, Read, mine
<1>3. pc'[t] = pc[t]
  <2>1. CASE Kill(s)
    BY <1>0, <2>1, KillHits DEF TypeOK
  <2>2. CASE ~Kill(s)
    <3>1. UNCHANGED pc \/ \E p : Goto(s, p)
      <4>1. CASE Clear(s)
        <5>1. round[s] = 0 \/ round[s] = 1 \/ round[s] = 2
          <6>1. round[s] \in 0 .. 3 /\ round[s] # 3
            BY <1>0, <4>1, ShellFacts DEF Clear, At, TypeOK
          <6> QED
            BY <6>1
        <5> QED
          BY <4>1, <5>1 DEF Clear, Send
      <4> QED
        BY <1>0, <2>2, <4>1 DEF Typed, Step, Accept, Scan, ScanFails, Claim, Publish, Enter, Skip, BeginCopy, EndCopy,
                          EndSend, SetName, Free, Show, Return, BrokenPipe, Yell, Tell, Exit, BadTell, Rename, Read, Send
    <3> QED
      BY <1>0, <3>1 DEF Goto, TypeOK
  <2> QED
    BY <2>1, <2>2
<1> QED
  BY <1>1, <1>2, <1>3

\* While somebody comes or goes the others do nothing but print, or fail to.
LEMMA OthersWait ==
  ASSUME PoliteInv, NEW s \in Shell, PoliteStep(s), NEW t \in Shell, t # s, Moves(pc[t], loop[t])
  PROVE  Show(s) \/ Return(s) \/ BrokenPipe(s)
<1>1. pc[s] \in {"none", "recv"} \cup Over
  BY DEF PoliteInv, AloneInv
<1>2. t \in Moving
  BY DEF Moving, Moves
<1>3. ~Idle(t)
  BY DEF Idle, Moves, Starting, Leaving, Sending, Over
<1>4. Step(s) \/ BrokenPipe(s)
  BY <1>2, <1>3 DEF PoliteStep
<1> QED
  BY <1>1, <1>4 DEF Step, Sent, Scan, ScanFails, Claim, Publish, Enter, Skip, BeginCopy, EndCopy, Kill, EndSend, SetName,
                    Free, Clear, At, Over

\* What each step does to the shell's own variables.
Own(s) == /\ PlaceOf(pc'[s], loop'[s], round'[s], nick'[s], shown'[s])
          /\ Moves(pc'[s], loop'[s]) => Moves(pc[s], loop[s]) \/ \A t \in Shell : Idle(t)

\* A place in the table is one by itself, whatever else is done.
LEMMA OwnStep ==
  ASSUME PoliteInv, NEW s \in Shell, PoliteStep(s)
  PROVE  Own(s)
<1> USE DEF server, mine, signal, Goto, At
<1>0. /\ TypeOK /\ PlaceOf(pc[s], loop[s], round[s], nick[s], shown[s])
      /\ loop[s] \in Loop /\ round[s] \in 0 .. 3
      /\ loop[s].next \in {"recv", "setname", "free"}
  BY PoliteFacts DEF Loop
<1>n. Notice \notin Said /\ Notice # Empty
  BY TextFacts DEF Notice, Empty
<1>1. CASE (\A t \in Shell : Idle(t)) /\ (Accept(s) \/ Exit(s))
  BY <1>0, <1>1 DEF Accept, Exit, Read, TypeOK, Own, PlaceOf, Idle, Starting, Sending, Over
<1>2. CASE Scan(s) \/ ScanFails(s) \/ Claim(s) \/ Publish(s)
  BY <1>0, <1>2 DEF Scan, ScanFails, Claim, Publish, TypeOK, Own, PlaceOf, Moves, Starting, Sending, Over, Leaving
<1>3. CASE Enter(s)
  BY <1>0, <1>3 DEF Enter, Send, TypeOK, Own, PlaceOf, Moves, Starting, Sending, Over, Leaving
<1>4. CASE BeginCopy(s)
  BY <1>0, <1>4 DEF BeginCopy, TypeOK, Own, PlaceOf, Moves, Starting, Sending, Over, Leaving
<1>13. CASE Skip(s)
  <2>1. loop'[s].text = loop[s].text /\ loop'[s].next = loop[s].next
    BY <1>0, <1>13 DEF Skip, TypeOK, Loop
  <2> QED
    BY <1>0, <1>13, <2>1 DEF Skip, TypeOK, Own, PlaceOf, Moves, Starting, Sending, Over, Leaving
<1>14. CASE BadTell(s) \/ BrokenPipe(s)
  <2>1. pc'[s] = "killed" /\ shown'[s] = shown[s] /\ ~shown[s]
    BY <1>0, <1>14 DEF BadTell, BrokenPipe, Writes, Sent, Read, TypeOK
  <2> QED
    BY <2>1 DEF Own, PlaceOf, Moves, Starting, Sending, Over, Leaving
<1>5. CASE EndCopy(s)
  BY <1>0, <1>5 DEF EndCopy, TypeOK, Own, PlaceOf, Moves, Starting, Sending, Over, Leaving
<1>6. CASE Kill(s)
  <2>1. loop'[s].text = loop[s].text /\ loop'[s].next = loop[s].next
    BY <1>0, <1>6 DEF Kill, TypeOK, Loop
  <2>2. pc'[s] = "send"
    BY <1>0, <1>6, KillHits DEF TypeOK
  <2> QED
    BY <1>0, <1>6, <2>1, <2>2 DEF Kill, TypeOK, Own, PlaceOf, Moves, Starting, Sending, Over, Leaving
<1>7. CASE EndSend(s)
  BY <1>0, <1>7 DEF EndSend, Sent, TypeOK, Own, PlaceOf, Moves, Starting, Sending, Over, Leaving
<1>8. CASE SetName(s) \/ Free(s)
  BY <1>0, <1>n, <1>8 DEF SetName, Free, TypeOK, NoLoop, Own, PlaceOf, Moves, Starting, Sending, Over, Leaving
<1>9. CASE Clear(s)
  <2>1. round[s] = 0 \/ round[s] = 1 \/ round[s] = 2
    <3>1. round[s] # 3
      BY <1>9, PoliteFacts, ShellFacts DEF Clear
    <3> QED
      BY <1>0, <3>1
  <2>2. pc[s] = "clear" /\ ~shown[s] /\ round'[s] = round[s] + 1 /\ shown' = shown
    BY <1>0, <1>9 DEF Clear, TypeOK
  <2>3. CASE round[s] = 0
    <3>1. pc'[s] = "send" /\ loop'[s].text = Notice /\ loop'[s].next = "free"
      BY <1>0, <1>9, <2>3 DEF Clear, Send, TypeOK
    <3> QED
      BY <2>2, <2>3, <3>1 DEF Own, PlaceOf, Moves, Starting, Sending, Over, Leaving
  <2>4. CASE round[s] # 0
    <3>1. pc'[s] \in {"free", "ended"}
      BY <1>0, <1>9, <2>1, <2>4 DEF Clear, TypeOK
    <3> QED
      BY <2>2, <3>1 DEF Own, PlaceOf, Moves, Starting, Sending, Over, Leaving
  <2> QED
    BY <2>3, <2>4
<1>10. CASE Show(s) \/ Return(s)
  BY <1>0, <1>10 DEF Show, Return, Handles, TypeOK, Own, PlaceOf, Moves
<1>11. CASE Yell(s) \/ \E i \in Entry : Tell(s, i)
  <2>1. /\ pc[s] = "recv" /\ pc'[s] = "send" /\ loop'[s].next = "recv" /\ loop'[s].text = <<s, ncommand + 1>>
        /\ UNCHANGED <<round, nick, shown>>
    BY <1>0, <1>11 DEF Yell, Tell, Read, Send, TypeOK
  <2>2. <<s, ncommand + 1>> # Notice
    BY DEF Notice, Shell
  <2> QED
    BY <1>0, <2>1, <2>2 DEF Own, PlaceOf, Moves, Starting, Sending, Over, Leaving
<1>12. CASE \E n \in Name : Rename(s, n)
  BY <1>0, <1>12 DEF Rename, Read, TypeOK, Own, PlaceOf, Moves, Starting, Sending, Over, Leaving
<1> QED
  BY <1>1, <1>2, <1>3, <1>4, <1>5, <1>6, <1>7, <1>8, <1>9, <1>10, <1>11, <1>12, <1>13, <1>14 DEF PoliteStep, Typed, Step

\* So who comes or goes is still alone, and every place is one.
LEMMA AloneStep ==
  ASSUME PoliteInv, NEW s \in Shell, PoliteStep(s)
  PROVE  AloneInv' /\ PlaceInv'
<1>1. PlaceInv'
  BY OwnStep, OthersPolite DEF PoliteInv, PlaceInv, Own
<1>2. ASSUME NEW x \in Shell, NEW y \in Shell, Moves(pc'[x], loop'[x]), y # x
      PROVE  pc'[y] \in {"none", "recv"} \cup Over
  <2>1. CASE x # s
    <3>1. Moves(pc[x], loop[x])
      BY <1>2, <2>1, OthersPolite
    <3>2. pc[y] \in {"none", "recv"} \cup Over
      BY <1>2, <3>1 DEF PoliteInv, AloneInv
    <3>3. y = s => pc'[y] = pc[y] \/ pc'[y] = "killed"
      BY <2>1, <3>1, OthersWait, PoliteFacts DEF Show, Return, BrokenPipe, Goto, TypeOK
    <3> QED
      BY <3>2, <3>3, OthersPolite DEF Over
  <2>2. CASE x = s
    <3>1. pc'[y] = pc[y]
      BY <1>2, <2>2, OthersPolite
    <3>2. Moves(pc[s], loop[s]) \/ Idle(y)
      BY <1>2, <2>2, OwnStep DEF Own
    <3> QED
      BY <1>2, <2>2, <3>1, <3>2 DEF PoliteInv, AloneInv, Idle
  <2> QED
    BY <2>1, <2>2
<1> QED
  BY <1>1, <1>2 DEF AloneInv

\* Only giving up an entry frees it.
LEMMA IdsKept ==
  ASSUME PoliteInv, NEW s \in Shell, PoliteStep(s), NEW i \in Entry, entry[i].id, pc[s] # "free"
  PROVE  entry'[i].id
<1>0. TypeOK /\ (Accept(s) \/ Typed(s) \/ Step(s) \/ BrokenPipe(s))
  BY PoliteFacts DEF PoliteStep, Typed
<1>1. CASE Clear(s)
  <2>1. entry' = [entry EXCEPT ![uid[s]] = Cleared(@, round[s] + 1)]
    BY <1>1 DEF Clear
  <2> QED
    BY <1>0, <2>1 DEF TypeOK, User, Cleared, NewEntry
<1>2. CASE UNCHANGED entry
  BY <1>2
<1>3. CASE Claim(s)
  BY <1>0, <1>3 DEF TypeOK, User, Claim, Claimed
<1>6. CASE Return(s)
  BY <1>0, <1>6 DEF TypeOK, User, Return, Emptied
<1>4. CASE Publish(s) \/ SetName(s)
  BY <1>0, <1>4 DEF TypeOK, User, Publish, SetName
<1>5. CASE BeginCopy(s) \/ EndCopy(s)
  <2>1. \E j, m : entry' = [entry EXCEPT ![j].msg = m]
    BY <1>5 DEF BeginCopy, EndCopy
  <2> QED
    BY <1>0, <2>1 DEF TypeOK, User
<1> QED
  BY <1>0, <1>1, <1>2, <1>3, <1>4, <1>5, <1>6 DEF Typed, Step, Accept, Scan, ScanFails, Enter, Skip, Kill, EndSend, Free,
                    Show, BrokenPipe, Yell, Tell, Exit, BadTell, Rename, Read, server, At

\* An entry about to be claimed stays free, one that is written to stays in use.
LEMMA TargetStep ==
  ASSUME PoliteInv, NEW s \in Shell, PoliteStep(s)
  PROVE  TargetInv'
<1>0. TypeOK
  BY PoliteFacts
<1>1. ASSUME NEW t \in Shell, t # s
      PROVE  /\ pc'[t] = "claim" => ~entry'[loop'[t].i].id
             /\ pc'[t] \in {"copying", "signal"} => entry'[loop'[t].i].id
  <2>0. pc'[t] = pc[t] /\ loop'[t] = loop[t]
    BY <1>1, OthersPolite
  <2>1. CASE pc[t] = "claim"
    <3>1. Show(s) \/ Return(s) \/ BrokenPipe(s)
      BY <1>1, <2>1, OthersWait DEF Moves, Starting
    <3>2. \A i \in Entry : entry'[i].id = entry[i].id
      BY <1>0, <3>1 DEF Show, Return, BrokenPipe, Emptied, server, TypeOK, User
    <3>3. loop[t].i \in Entry
      BY <1>0, <2>1, <1>1, ShellFacts, PoliteFacts
    <3> QED
      BY <2>0, <2>1, <3>2, <3>3 DEF PoliteInv, TargetInv
  <2>2. CASE pc[t] \in {"copying", "signal"}
    <3>1. pc[s] # "free"
      BY <1>1, <2>2 DEF PoliteInv, AloneInv, Moves, Leaving, Over
    <3>2. loop[t].i \in Entry /\ entry[loop[t].i].id
      BY <1>1, <2>2, ShellFacts, PoliteFacts DEF PoliteInv, TargetInv
    <3> QED
      BY <2>0, <2>2, <3>1, <3>2, IdsKept
  <2> QED
    BY <2>0, <2>1, <2>2
<1>2. /\ pc'[s] = "claim" => ~entry'[loop'[s].i].id
      /\ pc'[s] \in {"copying", "signal"} => entry'[loop'[s].i].id
  <2>0. (Accept(s) \/ Typed(s) \/ Step(s) \/ BrokenPipe(s)) /\ loop[s] \in Loop
    BY PoliteFacts DEF PoliteStep, Typed
  <2>1. CASE Scan(s)
    BY <1>0, <2>1 DEF Scan, At, Goto, server, TypeOK
  <2>2. CASE BeginCopy(s)
    <3>1. loop[s].i \in Entry /\ entry[loop[s].i].id
      BY <2>2, LoopFacts, PoliteFacts DEF BeginCopy
    <3>2. entry'[loop[s].i].id
      BY <2>2, <3>1, IdsKept DEF BeginCopy, At
    <3> QED
      BY <1>0, <2>2, <3>2 DEF BeginCopy, Goto, TypeOK
  <2>3. CASE EndCopy(s)
    <3>1. loop[s].i \in Entry /\ entry[loop[s].i].id
      BY <2>3, ShellFacts, PoliteFacts DEF PoliteInv, TargetInv, EndCopy, At
    <3>2. entry'[loop[s].i].id
      BY <2>3, <3>1, IdsKept DEF EndCopy, At
    <3> QED
      BY <1>0, <2>3, <3>2 DEF EndCopy, Goto, TypeOK
  <2>4. CASE Show(s) \/ Return(s)
    <3>1. pc' = pc /\ loop' = loop
      BY <2>4 DEF Show, Return
    <3>2. \A i \in Entry : entry'[i].id = entry[i].id
      BY <1>0, <2>4 DEF Show, Return, Emptied, server, TypeOK, User
    <3>3. pc[s] \in {"claim", "copying", "signal"} => loop[s].i \in Entry
      BY <1>0, ShellFacts, PoliteFacts
    <3> QED
      BY <3>1, <3>2, <3>3 DEF PoliteInv, TargetInv
  <2>5. CASE Kill(s)
    BY <1>0, <2>5, KillHits DEF TypeOK
  <2>6. CASE Clear(s)
    <3>1. pc'[s] \in {"send", "free", "ended"}
      <4>1. round[s] = 0 \/ round[s] = 1 \/ round[s] = 2
        <5>1. round[s] \in 0 .. 3 /\ round[s] # 3
          BY <2>6, PoliteFacts, ShellFacts DEF Clear, At
        <5> QED
          BY <5>1
      <4> QED
        BY <1>0, <2>6, <4>1 DEF Clear, Send, Goto, TypeOK
    <3> QED
      BY <3>1
  <2>7. CASE \/ Accept(s) \/ Typed(s) \/ ScanFails(s) \/ Claim(s) \/ Publish(s) \/ Enter(s) \/ Skip(s) \/ EndSend(s)
             \/ SetName(s) \/ Free(s) \/ BrokenPipe(s)
    <3>1. pc'[s] \in {"scan", "ended", "publish", "handlers", "send", "recv", "setname", "free", "clear", "killed"}
      BY <1>0, <2>0, <2>7 DEF Accept, Typed, ScanFails, Claim, Publish, Enter, Skip, EndSend, SetName, Free, BrokenPipe,
                        Yell, Exit, BadTell, Tell, Rename, Send, At, Goto, TypeOK, Loop
    <3> QED
      BY <3>1
  <2> QED
    BY <2>0, <2>1, <2>2, <2>3, <2>4, <2>5, <2>6, <2>7 DEF Step
<1> QED
  BY <1>1, <1>2 DEF TargetInv

\* Who has a place in the table.
Placed(p, l, r) == Seats(p, l, r) \/ Quits(p, l, r) \/ p = "publish"

\* No two have the same one.
LEMMA PlacesApart ==
  ASSUME PoliteInv, NEW s \in Shell, NEW t \in Shell, t # s,
         Placed(pc[s], loop[s], round[s]), Placed(pc[t], loop[t], round[t])
  PROVE  uid[t] # uid[s]
<1>1. ASSUME NEW x \in Shell, Quits(pc[x], loop[x], round[x]) \/ pc[x] = "publish"
      PROVE  Moves(pc[x], loop[x])
  BY <1>1, PoliteFacts DEF Quits, PlaceOf, Moves, Starting, Leaving, Sending
<1>2. Seats(pc[s], loop[s], round[s]) \/ Seats(pc[t], loop[t], round[t])
  BY <1>1, OneMoves DEF Placed
<1>3. SeatOf(entry[uid[s]], s, pc[s], loop[s], round[s], nick[s]) /\ SeatOf(entry[uid[t]], t, pc[t], loop[t], round[t], nick[t])
      /\ s # NoPid /\ t # NoPid
  BY PoliteFacts
<1> QED
  BY <1>2, <1>3 DEF SeatOf, Placed

\* An entry not in use is blank for whoever comes or goes and has not just freed it.
LEMMA FreeIsBlank ==
  ASSUME PoliteInv, NEW s \in Shell, NEW i \in Entry, Moves(pc[s], loop[s]), ~entry[i].id,
         pc[s] = "clear" => round[s] # 0
  PROVE  entry[i] = NewEntry
<1>1. ASSUME NEW t \in Shell, JustFreed(t, i)
      PROVE  FALSE
  BY <1>1, OneMoves DEF JustFreed, Moves, Leaving
<1> QED
  BY <1>1 DEF PoliteInv, BlankInv

\* Entry f is still who e was; its texts may differ.
SameEntry(e, f) == f.id = e.id /\ f.fd = e.fd /\ f.pid = e.pid /\ f.name = e.name /\ (e = NewEntry => f = NewEntry)

\* A step that leaves the entries and its shell's place as they were keeps them right.
LEMMA EntriesStay ==
  ASSUME PoliteInv, NEW s \in Shell, PoliteStep(s),
         \A i \in Entry : SameEntry(entry[i], entry'[i]),
         uid'[s] = uid[s], nick'[s] = nick[s],
         Seats(pc'[s], loop'[s], round'[s]) <=> Seats(pc[s], loop[s], round[s]),
         pc'[s] = "publish" <=> pc[s] = "publish",
         Quits(pc'[s], loop'[s], round'[s]) => Quits(pc[s], loop[s], round[s]),
         pc[s] = "clear" /\ round[s] = 0 => pc'[s] = "clear" /\ round'[s] = 0
  PROVE  SeatInv' /\ HolderInv' /\ BlankInv'
<1>1. ASSUME NEW t \in Shell
      PROVE  /\ uid'[t] = uid[t] /\ nick'[t] = nick[t]
             /\ Seats(pc'[t], loop'[t], round'[t]) <=> Seats(pc[t], loop[t], round[t])
             /\ pc'[t] = "publish" <=> pc[t] = "publish"
             /\ Quits(pc'[t], loop'[t], round'[t]) => Quits(pc[t], loop[t], round[t])
             /\ pc[t] = "clear" /\ round[t] = 0 => pc'[t] = "clear" /\ round'[t] = 0
  BY OthersPolite
<1>2. SeatInv'
  <2>1. ASSUME NEW t \in Shell
        PROVE  SeatOf(entry'[uid'[t]], t, pc'[t], loop'[t], round'[t], nick'[t])
    <3>1. CASE Placed(pc[t], loop[t], round[t])
      <4>1. uid[t] \in Entry /\ SeatOf(entry[uid[t]], t, pc[t], loop[t], round[t], nick[t])
        BY <3>1, PoliteFacts DEF Placed
      <4> QED
        BY <1>1, <4>1 DEF SeatOf, SameEntry
    <3>2. CASE ~Placed(pc[t], loop[t], round[t])
      BY <1>1, <3>2 DEF SeatOf, Placed
    <3> QED
      BY <3>1, <3>2
  <2> QED
    BY <2>1 DEF SeatInv
<1>3. HolderInv'
  <2>1. ASSUME NEW i \in Entry, entry'[i].id
        PROVE  \E t \in Shell : Sits(t, i)'
    <3>1. entry[i].id
      BY <2>1 DEF SameEntry
    <3>2. PICK t \in Shell : Sits(t, i)
      BY <3>1 DEF PoliteInv, HolderInv
    <3> QED
      BY <1>1, <3>2 DEF Sits
  <2> QED
    BY <2>1 DEF HolderInv
<1>4. BlankInv'
  <2>1. ASSUME NEW i \in Entry, ~entry'[i].id, entry'[i] # NewEntry
        PROVE  \E t \in Shell : JustFreed(t, i)'
    <3>1. ~entry[i].id /\ entry[i] # NewEntry
      BY <2>1 DEF SameEntry
    <3>2. PICK t \in Shell : JustFreed(t, i)
      BY <3>1 DEF PoliteInv, BlankInv
    <3> QED
      BY <1>1, <3>2 DEF JustFreed
  <2> QED
    BY <2>1 DEF BlankInv
<1> QED
  BY <1>2, <1>3, <1>4

\* So does a step that changes one entry, which nobody else has, as it should be.
LEMMA OneEntryChanges ==
  ASSUME PoliteInv, NEW s \in Shell, PoliteStep(s), NEW i \in Entry, NEW e,
         entry' = [entry EXCEPT ![i] = e],
         uid'[s] = i,
         uid[s] # i => ~Placed(pc[s], loop[s], round[s]),
         \A t \in Shell : t # s /\ Placed(pc[t], loop[t], round[t]) => uid[t] # i,
         SeatOf(e, s, pc'[s], loop'[s], round'[s], nick'[s]),
         e.id => Seats(pc'[s], loop'[s], round'[s]) \/ pc'[s] = "publish",
         ~e.id => e = NewEntry \/ (pc'[s] = "clear" /\ round'[s] = 0)
  PROVE  SeatInv' /\ HolderInv' /\ BlankInv'
<1>0. TypeOK
  BY PoliteFacts
<1>1. entry'[i] = e /\ \A j \in Entry : j # i => entry'[j] = entry[j]
  BY <1>0 DEF TypeOK
<1>2. SeatInv'
  <2>1. ASSUME NEW t \in Shell
        PROVE  SeatOf(entry'[uid'[t]], t, pc'[t], loop'[t], round'[t], nick'[t])
    <3>1. CASE t = s
      BY <1>1, <3>1
    <3>2. CASE t # s /\ Placed(pc[t], loop[t], round[t])
      <4>1. uid[t] \in Entry /\ uid[t] # i /\ SeatOf(entry[uid[t]], t, pc[t], loop[t], round[t], nick[t])
        BY <3>2, PoliteFacts DEF Placed
      <4>2. entry'[uid[t]] = entry[uid[t]]
        BY <1>1, <4>1
      <4> QED
        BY <3>2, <4>1, <4>2, OthersPolite
    <3>3. CASE t # s /\ ~Placed(pc[t], loop[t], round[t])
      BY <3>3, OthersPolite DEF SeatOf, Placed
    <3> QED
      BY <3>1, <3>2, <3>3
  <2> QED
    BY <2>1 DEF SeatInv
<1>3. HolderInv'
  <2>1. ASSUME NEW j \in Entry, entry'[j].id
        PROVE  \E t \in Shell : Sits(t, j)'
    <3>1. CASE j = i
      BY <1>1, <2>1, <3>1 DEF Sits
    <3>2. CASE j # i
      <4>1. entry[j].id
        BY <1>1, <2>1, <3>2
      <4>2. PICK t \in Shell : Sits(t, j)
        BY <4>1 DEF PoliteInv, HolderInv
      <4>3. t # s
        BY <3>2, <4>2 DEF Sits, Placed
      <4> QED
        BY <4>2, <4>3, OthersPolite DEF Sits
    <3> QED
      BY <3>1, <3>2
  <2> QED
    BY <2>1 DEF HolderInv
<1>4. BlankInv'
  <2>1. ASSUME NEW j \in Entry, ~entry'[j].id, entry'[j] # NewEntry
        PROVE  \E t \in Shell : JustFreed(t, j)'
    <3>1. CASE j = i
      BY <1>1, <2>1, <3>1 DEF JustFreed
    <3>2. CASE j # i
      <4>1. ~entry[j].id /\ entry[j] # NewEntry
        BY <1>1, <2>1, <3>2
      <4>2. PICK t \in Shell : JustFreed(t, j)
        BY <4>1 DEF PoliteInv, BlankInv
      <4>3. t # s
        BY <3>2, <4>2 DEF JustFreed, Placed, Quits
      <4> QED
        BY <4>2, <4>3, OthersPolite DEF JustFreed
    <3> QED
      BY <3>1, <3>2
  <2> QED
    BY <2>1 DEF BlankInv
<1> QED
  BY <1>2, <1>3, <1>4

\* Whose write breaks has its seat.
LEMMA BrokenSeat ==
  ASSUME PoliteInv, NEW s \in Shell, BrokenPipe(s)
  PROVE  Seats(pc[s], loop[s], round[s])
<1>1. CASE At(s, "handlers") \/ (Sent(s) /\ loop[s].next = "recv")
  BY <1>1 DEF At, Sent, Seats, Sending
<1>2. CASE usr1[s] /\ Handles(s) /\ entry[uid[s]].fd
  <2>1. pc[s] \in Place /\ pc[s] \notin Starting \cup Over \cup {"none"}
    BY <1>2, PoliteFacts DEF Handles
  <2>2. Seats(pc[s], loop[s], round[s]) \/ Quits(pc[s], loop[s], round[s])
    <3>1. round[s] \in Nat
      BY PoliteFacts
    <3> QED
      BY <2>1, <3>1 DEF Place, Starting, Sending, Leaving, Over, Seats, Quits
  <2>3. ASSUME Quits(pc[s], loop[s], round[s])
        PROVE  FALSE
    <3>1. pc[s] = "clear" => round[s] # 0
      BY <1>2 DEF PoliteInv, QuietInv, Leaving
    <3>2. Moves(pc[s], loop[s])
      BY <2>3, PoliteFacts DEF Quits, PlaceOf, Moves, Leaving, Sending
    <3>3. uid[s] \in Entry /\ ~entry[uid[s]].id
      BY <2>3, PoliteFacts DEF SeatOf
    <3>4. entry[uid[s]] = NewEntry
      BY <3>1, <3>2, <3>3, FreeIsBlank
    <3> QED
      BY <1>2, <3>4 DEF NewEntry
  <2> QED
    BY <2>2, <2>3
<1> QED
  BY <1>1, <1>2 DEF BrokenPipe, Writes

\* What a shell does itself to reach these places.
LEMMA QuietOwn ==
  ASSUME PoliteInv, NEW s \in Shell, Accept(s) \/ Typed(s) \/ Step(s) \/ BrokenPipe(s)
  PROVE  /\ pc'[s] \in {"free", "clear"} /\ round'[s] = 0 /\ ~Exit(s) =>
              pc[s] \in {"free", "clear"} /\ round[s] = 0 /\ (usr1'[s] = usr1[s] \/ ~usr1'[s])
         /\ pc'[s] = "killed" => uid'[s] \in Entry
<1> USE DEF server, mine, signal, Goto, At
<1>0. /\ TypeOK /\ SharedInv /\ round[s] \in 0 .. 3 /\ loop[s].next \in {"recv", "setname", "free"}
      /\ PlaceOf(pc[s], loop[s], round[s], nick[s], shown[s])
  BY PoliteFacts DEF Loop
<1>1. CASE Accept(s) \/ Scan(s) \/ ScanFails(s) \/ Claim(s) \/ Publish(s) \/ Enter(s) \/ Skip(s) \/ BeginCopy(s) \/ EndCopy(s)
           \/ SetName(s)
  BY <1>0, <1>1 DEF TypeOK, Accept, Scan, ScanFails, Claim, Publish, Enter, Send, Skip, BeginCopy, EndCopy, SetName
<1>2. CASE Kill(s)
  BY <1>0, <1>2, KillHits DEF TypeOK
<1>3. CASE EndSend(s)
  BY <1>0, <1>3 DEF TypeOK, EndSend, Sent, PlaceOf, Sending
<1>4. CASE Free(s)
  BY <1>0, <1>4 DEF TypeOK, Free
<1>5. CASE Clear(s)
  <2>1. round[s] = 0 \/ round[s] = 1 \/ round[s] = 2
    <3>1. round[s] # 3
      BY <1>0, <1>5, ShellFacts DEF Clear
    <3> QED
      BY <1>0, <3>1
  <2>2. round'[s] = round[s] + 1 /\ pc'[s] # "killed"
    BY <1>0, <1>5, <2>1 DEF TypeOK, Clear, Send
  <2> QED
    BY <1>0, <2>2
<1>6. CASE Show(s) \/ Return(s)
  BY <1>0, <1>6 DEF TypeOK, Show, Return, Handles, PlaceOf, Over
<1>7. CASE Typed(s)
  <2>1. CASE BadTell(s)
    BY <1>0, <2>1, ShellFacts DEF TypeOK, BadTell, Read, Over
  <2>2. CASE Yell(s) \/ (\E i \in Entry : Tell(s, i)) \/ (\E n \in Name : Rename(s, n))
    BY <1>0, <2>2 DEF TypeOK, Yell, Tell, Rename, Read, Send
  <2>3. CASE Exit(s)
    BY <1>0, <2>3 DEF TypeOK, Exit
  <2> QED
    BY <1>7, <2>1, <2>2, <2>3 DEF Typed
<1>8. CASE BrokenPipe(s)
  <2>1. uid[s] \in Entry
    BY <1>8, BrokenSeat, PoliteFacts
  <2> QED
    BY <1>0, <1>8, <2>1 DEF TypeOK, BrokenPipe
<1> QED
  BY <1>1, <1>2, <1>3, <1>4, <1>5, <1>6, <1>7, <1>8 DEF Step

\* So it has an entry; and nobody signals a shell that gives up its own.
LEMMA QuietStep ==
  ASSUME PoliteInv, NEW s \in Shell, PoliteStep(s)
  PROVE  QuietInv' /\ KilledInv'
<1> USE DEF server, mine, signal, Goto, At
<1>0. TypeOK /\ (Accept(s) \/ Typed(s) \/ Step(s) \/ BrokenPipe(s))
  BY PoliteFacts DEF PoliteStep, Typed
<1>1. ASSUME NEW t \in Shell, t # s, pc'[t] \in Leaving, round'[t] = 0
      PROVE  ~usr1'[t]
  <2>1. pc[t] \in Leaving /\ round[t] = 0
    BY <1>1, OthersPolite
  <2>2. Show(s) \/ Return(s) \/ BrokenPipe(s)
    BY <1>1, <2>1, OthersWait DEF Moves
  <2>3. usr1'[t] = usr1[t]
    BY <1>0, <1>1, <2>2 DEF Show, Return, BrokenPipe, TypeOK
  <2> QED
    BY <2>1, <2>3 DEF PoliteInv, QuietInv
<1>2. ASSUME pc'[s] \in Leaving, round'[s] = 0
      PROVE  ~usr1'[s]
  <2>1. CASE Exit(s)
    <3>1. pc[s] = "recv" /\ pc'[s] = "free" /\ usr1' = usr1
      BY <1>0, <2>1 DEF Exit, Read, TypeOK
    <3>2. ~Step(s) /\ ~BrokenPipe(s)
      BY <1>0, <3>1 DEF Step, Sent, Scan, ScanFails, Claim, Publish, Enter, Skip, BeginCopy, EndCopy, Kill, EndSend,
                        SetName, Free, Clear, Show, Return, BrokenPipe, TypeOK
    <3>3. \A t \in Shell : Idle(t)
      BY <2>1, <3>2 DEF PoliteStep
    <3> QED
      BY <3>1, <3>3 DEF Idle
  <2>2. CASE ~Exit(s)
    <3>1. pc[s] \in Leaving /\ round[s] = 0 /\ (usr1'[s] = usr1[s] \/ ~usr1'[s])
      BY <1>0, <1>2, <2>2, QuietOwn DEF Leaving
    <3> QED
      BY <3>1 DEF PoliteInv, QuietInv, TypeOK
  <2> QED
    BY <2>1, <2>2
<1>3. ASSUME NEW t \in Shell, pc'[t] = "killed"
      PROVE  uid'[t] \in Entry
  <2>1. CASE t # s
    BY <1>3, <2>1, OthersPolite DEF PoliteInv, KilledInv
  <2>2. CASE t = s
    BY <1>0, <1>3, <2>2, QuietOwn
  <2> QED
    BY <2>1, <2>2
<1> QED
  BY <1>1, <1>2, <1>3 DEF QuietInv, KilledInv

\* The steps that leave the entries as they were, except for a message.
LEMMA QuietSteps ==
  ASSUME PoliteInv, NEW s \in Shell, PoliteStep(s),
         Accept(s) \/ Typed(s) \/ Scan(s) \/ ScanFails(s) \/ Enter(s) \/ Skip(s) \/ BeginCopy(s) \/ EndCopy(s) \/ Kill(s)
         \/ EndSend(s) \/ Show(s) \/ Return(s) \/ BrokenPipe(s)
  PROVE  SeatInv' /\ HolderInv' /\ BlankInv'
<1>0. /\ TypeOK /\ PlaceOf(pc[s], loop[s], round[s], nick[s], shown[s])
      /\ loop[s] \in Loop /\ loop[s].next \in {"recv", "setname", "free"}
  BY PoliteFacts DEF Loop
<1>1. \A i \in Entry : SameEntry(entry[i], entry'[i])
  <2>1. CASE entry' = entry
    BY <2>1 DEF SameEntry
  <2>2. CASE BeginCopy(s) \/ EndCopy(s)
    <3>1. \E j \in Entry : \E m : entry[j].id /\ entry' = [entry EXCEPT ![j].msg = m]
      <4>1. CASE BeginCopy(s)
        <5>1. loop[s].i \in Entry /\ entry[loop[s].i].id
          BY <4>1, LoopFacts, PoliteFacts DEF BeginCopy
        <5> QED
          BY <4>1, <5>1 DEF BeginCopy
      <4>2. CASE EndCopy(s)
        <5>1. loop[s].i \in Entry /\ entry[loop[s].i].id
          BY <4>2, ShellFacts, PoliteFacts DEF PoliteInv, TargetInv, EndCopy, At
        <5> QED
          BY <4>2, <5>1 DEF EndCopy
      <4> QED
        BY <2>2, <4>1, <4>2
    <3>2. PICK j \in Entry : \E m : entry[j].id /\ entry' = [entry EXCEPT ![j].msg = m]
      BY <3>1
    <3>3. entry[j] # NewEntry
      BY <3>2 DEF NewEntry
    <3> QED
      BY <1>0, <3>2, <3>3 DEF SameEntry, TypeOK, User
  <2>3. CASE Return(s)
    <3>1. entry' = [entry EXCEPT ![uid[s]] = Emptied(@)]
      BY <2>3 DEF Return
    <3>2. Emptied(NewEntry) = NewEntry
      <4>1. NewEntry \in User /\ NewEntry.msg = Empty
        BY DEF NewEntry, User
      <4>2. \A e \in User : e.msg = Empty => Emptied(e) = e
        BY DEF User, Emptied
      <4> QED
        BY <4>1, <4>2
    <3> QED
      BY <1>0, <3>1, <3>2 DEF SameEntry, Emptied, TypeOK, User
  <2> QED
    BY <2>1, <2>2, <2>3 DEF Accept, Typed, Scan, ScanFails, Enter, Skip, Kill, EndSend, Show, BrokenPipe, Yell, Tell,
                      Exit, BadTell, Rename, Read, server
<1>2. /\ uid'[s] = uid[s] /\ nick'[s] = nick[s] /\ round'[s] = round[s]
      /\ pc'[s] \notin {"publish", "clear"} \/ pc'[s] = pc[s]
      /\ pc[s] \notin {"publish", "clear"} \/ pc'[s] = pc[s]
  <2>1. UNCHANGED <<uid, nick, round>>
    BY DEF Accept, Typed, Scan, ScanFails, Enter, Skip, BeginCopy, EndCopy, Kill, EndSend, Show, Return, BrokenPipe,
           Yell, Tell, Exit, BadTell, Rename, Read, mine
  <2>2. CASE Kill(s)
    BY <1>0, <2>1, <2>2, KillHits DEF TypeOK, Kill, At
  <2>3. CASE ~Kill(s)
    <3>1. CASE Show(s) \/ Return(s)
      BY <2>1, <3>1 DEF Show, Return
    <3>2. CASE ~Show(s) /\ ~Return(s)
      <4>0. BrokenPipe(s) => pc[s] \notin {"publish", "clear"}
        BY BrokenSeat DEF Seats, Sending
      <4>1. /\ pc[s] \notin {"publish", "clear"}
            /\ \/ UNCHANGED pc
               \/ \E p \in {"scan", "claim", "ended", "send", "copying", "signal", "recv", "setname", "free", "killed"} : Goto(s, p)
        BY <1>0, <2>3, <3>2, <4>0 DEF Sent, Accept, Typed, Scan, ScanFails, Enter, Skip, BeginCopy, EndCopy, EndSend,
                         BrokenPipe, Yell, Tell, Exit, BadTell, Rename, Read, Send, At
      <4> QED
        BY <1>0, <2>1, <4>1 DEF Goto, TypeOK
    <3> QED
      BY <3>1, <3>2
  <2> QED
    BY <2>2, <2>3
<1>3. /\ Seats(pc'[s], loop'[s], round'[s]) <=> Seats(pc[s], loop[s], round[s])
      /\ Quits(pc'[s], loop'[s], round'[s]) => Quits(pc[s], loop[s], round[s])
  <2>1. CASE Accept(s) \/ Exit(s) \/ Yell(s) \/ (\E i \in Entry : Tell(s, i)) \/ (\E n \in Name : Rename(s, n))
    <3>1. CASE Accept(s)
      BY <1>0, <3>1 DEF Accept, Goto, TypeOK, Seats, Quits, Sending
    <3>2. CASE Exit(s)
      BY <1>0, <1>2, <3>2 DEF Exit, Read, At, Goto, TypeOK, Seats, Quits, Sending, PlaceOf
    <3>3. CASE Yell(s) \/ (\E i \in Entry : Tell(s, i)) \/ (\E n \in Name : Rename(s, n))
      <4>1. pc[s] = "recv" /\ pc'[s] = "send" /\ loop'[s].next \in {"recv", "setname"}
        BY <1>0, <3>3 DEF Yell, Tell, Rename, Read, At, Send, Goto, TypeOK
      <4> QED
        BY <4>1 DEF Seats, Quits, Sending
    <3> QED
      BY <2>1, <3>1, <3>2, <3>3
  <2>7. CASE BadTell(s)
    BY <1>0, <2>7 DEF BadTell, Read, At, Goto, TypeOK, Seats, Quits, Sending
  <2>8. CASE BrokenPipe(s)
    BY <1>0, <2>8, BrokenSeat DEF BrokenPipe, Goto, TypeOK, Seats, Quits, Sending
  <2>2. CASE Scan(s) \/ ScanFails(s)
    BY <1>0, <2>2 DEF Scan, ScanFails, At, Goto, TypeOK, Seats, Quits, Sending
  <2>3. CASE Enter(s)
    BY <1>0, <2>3 DEF Enter, Send, At, Goto, TypeOK, Seats, Quits, Sending
  <2>4. CASE Skip(s) \/ BeginCopy(s) \/ EndCopy(s) \/ Kill(s)
    <3>1. loop'[s].next = loop[s].next /\ pc[s] \in Sending
      BY <1>0, <2>4 DEF Skip, BeginCopy, EndCopy, Kill, At, TypeOK, Loop, Sending
    <3>2. pc'[s] \in Sending
      BY <1>0, <2>4, KillHits DEF Skip, BeginCopy, EndCopy, At, Goto, TypeOK, Sending
    <3> QED
      BY <3>1, <3>2 DEF Seats, Quits, Sending
  <2>5. CASE EndSend(s)
    <3>1. pc[s] = "send" /\ pc'[s] = loop[s].next
      BY <1>0, <2>5 DEF EndSend, Sent, At, Goto, TypeOK
    <3> QED
      BY <1>0, <1>2, <3>1 DEF Seats, Quits, Sending, PlaceOf
  <2>6. CASE Show(s) \/ Return(s)
    BY <2>6, <1>2 DEF Show, Return
  <2> QED
    BY <2>1, <2>2, <2>3, <2>4, <2>5, <2>6, <2>7, <2>8 DEF Typed
<1> QED
  BY <1>1, <1>2, <1>3, EntriesStay

\* The steps that take an entry, fill it in, rename it, free it and clear it.
LEMMA WritingSteps ==
  ASSUME PoliteInv, NEW s \in Shell, PoliteStep(s),
         Claim(s) \/ Publish(s) \/ SetName(s) \/ Free(s) \/ Clear(s)
  PROVE  SeatInv' /\ HolderInv' /\ BlankInv'
<1>0. /\ TypeOK /\ PlaceOf(pc[s], loop[s], round[s], nick[s], shown[s])
      /\ SeatOf(entry[uid[s]], s, pc[s], loop[s], round[s], nick[s])
      /\ Placed(pc[s], loop[s], round[s]) => uid[s] \in Entry
  BY PoliteFacts DEF Placed
<1>1. CASE Claim(s)
  <2> DEFINE i == loop[s].i
  <2>1. pc[s] = "claim" /\ i \in Entry /\ ~entry[i].id
    BY <1>1, ShellFacts, PoliteFacts DEF PoliteInv, TargetInv, Claim, At
  <2>2. entry[i] = NewEntry
    BY <2>1, FreeIsBlank DEF Moves, Starting
  <2>3. /\ entry' = [entry EXCEPT ![i] = Claimed(NewEntry)]
        /\ uid'[s] = i /\ pc'[s] = "publish" /\ ~Placed(pc[s], loop[s], round[s])
    BY <1>0, <1>1, <2>1, <2>2 DEF Claim, Goto, TypeOK, Placed, Seats, Quits, Sending
  <2>4. Claimed(NewEntry).id /\ Claimed(NewEntry).fd /\ Claimed(NewEntry).pid = NoPid
    BY DEF Claimed, NewEntry
  <2>5. SeatOf(Claimed(NewEntry), s, pc'[s], loop'[s], round'[s], nick'[s])
    BY <2>3, <2>4 DEF SeatOf, Seats, Quits, Sending
  <2>6. ASSUME NEW t \in Shell, t # s, Placed(pc[t], loop[t], round[t]), uid[t] = i
        PROVE  FALSE
    <3>1. SeatOf(entry[i], t, pc[t], loop[t], round[t], nick[t])
      BY <2>6, PoliteFacts
    <3>2. Quits(pc[t], loop[t], round[t])
      BY <2>1, <2>6, <3>1 DEF SeatOf, Placed
    <3>3. Moves(pc[t], loop[t]) /\ Moves(pc[s], loop[s])
      BY <2>1, <3>2, PoliteFacts DEF Quits, PlaceOf, Moves, Starting, Leaving, Sending
    <3> QED
      BY <2>6, <3>3, OneMoves
  <2> HIDE DEF i
  <2> QED
    BY <2>1, <2>3, <2>4, <2>5, <2>6, OneEntryChanges, ZenonT(60)
<1>2. CASE ~Claim(s)
  <2>0. round[s] \in 0 .. 3 /\ pc[s] \in {"publish", "setname", "free", "clear"} /\ uid' = uid
    BY <1>0, <1>2 DEF Publish, SetName, Free, Clear, At, TypeOK, mine
  <2>1. Placed(pc[s], loop[s], round[s]) /\ uid[s] \in Entry /\ uid'[s] = uid[s]
    BY <1>0, <2>0 DEF Placed, Seats, Quits
  <2>2. \A t \in Shell : t # s /\ Placed(pc[t], loop[t], round[t]) => uid[t] # uid[s]
    BY <2>1, PlacesApart
  <2>3. ASSUME NEW e,
               entry' = [entry EXCEPT ![uid[s]] = e],
               SeatOf(e, s, pc'[s], loop'[s], round'[s], nick'[s]),
               e.id => Seats(pc'[s], loop'[s], round'[s]) \/ pc'[s] = "publish",
               ~e.id => e = NewEntry \/ (pc'[s] = "clear" /\ round'[s] = 0)
        PROVE  SeatInv' /\ HolderInv' /\ BlankInv'
    BY <2>1, <2>2, <2>3, OneEntryChanges
  <2>4. CASE Publish(s)
    <3> DEFINE e == [entry[uid[s]] EXCEPT !.name = Unnamed, !.pid = s]
    <3>1. entry' = [entry EXCEPT ![uid[s]] = e]
      BY <1>0, <2>1, <2>4 DEF Publish
    <3>2. e.id /\ e.fd /\ e.pid = s /\ e.name = Unnamed
      BY <1>0, <2>1, <2>4 DEF Publish, At, SeatOf, TypeOK, User
    <3>3. pc'[s] = "handlers" /\ nick'[s] = Unnamed
      BY <1>0, <2>4 DEF Publish, At, Goto, TypeOK, mine, PlaceOf, Starting
    <3> HIDE DEF e
    <3>4. SeatOf(e, s, pc'[s], loop'[s], round'[s], nick'[s]) /\ Seats(pc'[s], loop'[s], round'[s])
      BY <3>2, <3>3 DEF SeatOf, Seats, Quits, Sending
    <3> QED
      BY <2>3, <3>1, <3>2, <3>4
  <2>5. CASE SetName(s)
    <3> DEFINE e == [entry[uid[s]] EXCEPT !.name = loop[s].want]
    <3>1. entry' = [entry EXCEPT ![uid[s]] = e]
      BY <1>0, <2>1, <2>5 DEF SetName
    <3>2. e.id /\ e.fd /\ e.pid = s /\ e.name = loop[s].want
      BY <1>0, <2>1, <2>5 DEF SetName, At, SeatOf, Seats, TypeOK, User
    <3>3. pc'[s] = "send" /\ loop'[s].next = "recv" /\ nick'[s] = loop[s].want
      BY <1>0, <2>5, NoLoopTypes DEF SetName, Goto, TypeOK
    <3> HIDE DEF e
    <3>4. SeatOf(e, s, pc'[s], loop'[s], round'[s], nick'[s]) /\ Seats(pc'[s], loop'[s], round'[s])
      BY <3>2, <3>3 DEF SeatOf, Seats, Quits, Sending
    <3> QED
      BY <2>3, <3>1, <3>2, <3>4
  <2>6. CASE Free(s)
    <3>0. pc[s] = "free" /\ pc'[s] = "clear" /\ round'[s] = round[s] /\ round[s] \in 0 .. 3
          /\ entry' = [entry EXCEPT ![uid[s]] = Freed(entry[uid[s]])]
      BY <1>0, <2>1, <2>6 DEF Free, At, Goto, TypeOK, mine
    <3>1. CASE round[s] = 0
      <4>1. ~Freed(entry[uid[s]]).id
        BY <1>0, <2>1 DEF Freed, TypeOK, User
      <4>2. SeatOf(Freed(entry[uid[s]]), s, pc'[s], loop'[s], round'[s], nick'[s])
        BY <3>0, <4>1 DEF SeatOf, Seats, Quits, Sending
      <4> QED
        BY <2>3, <3>0, <3>1, <4>1, <4>2
    <3>2. CASE round[s] # 0
      <4>1. ~entry[uid[s]].id
        BY <1>0, <3>0, <3>2 DEF SeatOf, Quits
      <4>2. entry[uid[s]] = NewEntry
        BY <2>1, <3>0, <4>1, FreeIsBlank DEF Moves, Leaving
      <4>3. ~Freed(NewEntry).id /\ Freed(NewEntry) = NewEntry
        <5>1. NewEntry \in User /\ ~NewEntry.id
          BY DEF NewEntry, User
        <5>2. \A e \in User : ~e.id => Freed(e) = e /\ ~Freed(e).id
          BY DEF User, Freed
        <5> QED
          BY <5>1, <5>2
      <4>4. SeatOf(Freed(NewEntry), s, pc'[s], loop'[s], round'[s], nick'[s])
        BY <3>0, <4>3 DEF SeatOf, Seats, Quits, Sending
      <4> QED
        BY <2>3, <3>0, <4>2, <4>3, <4>4
    <3> QED
      BY <3>1, <3>2
  <2>7. CASE Clear(s)
    <3>0. /\ pc[s] = "clear" /\ round'[s] = round[s] + 1 /\ round[s] \in 0 .. 3 /\ round[s] # 3
          /\ entry' = [entry EXCEPT ![uid[s]] = Cleared(entry[uid[s]], round[s] + 1)]
      BY <1>0, <2>1, <2>7, ShellFacts, PoliteFacts DEF Clear, At, TypeOK
    <3>1. ~entry[uid[s]].id
      BY <1>0, <3>0 DEF SeatOf, Quits
    <3>2. Cleared(entry[uid[s]], round[s] + 1) = NewEntry
      <4>1. CASE round[s] + 1 # 2
        <5>1. NewEntry \in User /\ ~NewEntry.id
          BY DEF NewEntry, User
        <5>2. \A e \in User : ~e.id => [e EXCEPT !.id = entry[uid[s]].id] = e
          BY <1>0, <2>1, <3>1 DEF User, TypeOK
        <5> QED
          BY <4>1, <5>1, <5>2 DEF Cleared
      <4>2. CASE round[s] + 1 = 2
        <5>1. entry[uid[s]] = NewEntry
          BY <2>1, <3>0, <3>1, <4>2, FreeIsBlank DEF Moves, Leaving
        <5>2. NewEntry \in User /\ ~NewEntry.fd /\ NewEntry.name = Blank
          BY DEF NewEntry, User
        <5>3. \A e \in User : ~e.fd /\ e.name = Blank => [e EXCEPT !.fd = FALSE, !.name = Blank] = e
          BY DEF User
        <5> QED
          BY <4>2, <5>1, <5>2, <5>3 DEF Cleared
      <4> QED
        BY <4>1, <4>2
    <3>3. ~NewEntry.id
      BY DEF NewEntry
    <3>4. ~Seats(pc'[s], loop'[s], round'[s]) /\ pc'[s] # "publish"
      <4>1. CASE round[s] = 0
        BY <1>0, <2>7, <4>1 DEF Clear, Send, Goto, TypeOK, Seats, Sending
      <4>2. CASE round[s] # 0
        <5>1. pc'[s] \in {"free", "ended"}
          <6>1. CASE round[s] = 1
            BY <1>0, <2>7, <6>1 DEF Clear, Goto, TypeOK
          <6>2. CASE round[s] = 2
            BY <1>0, <2>7, <6>2 DEF Clear, Goto, TypeOK
          <6> QED
            BY <3>0, <4>2, <6>1, <6>2
        <5> QED
          BY <3>0, <5>1 DEF Seats, Sending
      <4> QED
        BY <4>1, <4>2
    <3>5. SeatOf(NewEntry, s, pc'[s], loop'[s], round'[s], nick'[s])
      BY <3>3, <3>4 DEF SeatOf
    <3> QED
      BY <2>3, <3>0, <3>2, <3>3, <3>5
  <2> QED
    BY <1>2, <2>4, <2>5, <2>6, <2>7
<1> QED
  BY <1>1, <1>2

\* All of it stays true while users come and go one at a time.
LEMMA PoliteInvariant == Init /\ [][Polite]_vars => []PoliteInv
<1>1. Init => PoliteInv
  <2> SUFFICES ASSUME Init PROVE PoliteInv
    OBVIOUS
  <2>1. SharedInv
    BY InitShared
  <2>2. \A s \in Shell : pc[s] = "none" /\ round[s] = 0 /\ nick[s] = Unnamed /\ ~shown[s]
    BY DEF Init
  <2>3. \A i \in Entry : ~entry[i].id /\ entry[i] = NewEntry
    BY DEF Init, NewEntry
  <2>4. AloneInv /\ PlaceInv /\ SeatInv /\ TargetInv
    BY <2>2 DEF AloneInv, PlaceInv, SeatInv, TargetInv, Moves, PlaceOf, SeatOf, Seats, Quits,
                Starting, Sending, Leaving, Over
  <2>5. HolderInv /\ BlankInv
    BY <2>3 DEF HolderInv, BlankInv
  <2>6. QuietInv /\ KilledInv
    BY <2>2 DEF QuietInv, KilledInv, Leaving
  <2> QED
    BY <2>1, <2>4, <2>5, <2>6 DEF PoliteInv
<1>2. PoliteInv /\ [Polite]_vars => PoliteInv'
  <2> SUFFICES ASSUME PoliteInv, [Polite]_vars PROVE PoliteInv'
    OBVIOUS
  <2>1. ASSUME NEW s \in Shell, PoliteStep(s)
        PROVE  PoliteInv'
    <3>1. SharedInv /\ (Accept(s) \/ Typed(s) \/ Step(s) \/ BrokenPipe(s))
      BY <2>1, PoliteFacts DEF PoliteStep, Typed
    <3>2. SharedInv'
      BY <3>1, TypesKept, ShellsKept, HeldKept, OwnKept, BuffersKept, PrintsKept, OnceKept DEF SharedInv
    <3>3. SeatInv' /\ HolderInv' /\ BlankInv'
      <4>1. \/ Claim(s) \/ Publish(s) \/ SetName(s) \/ Free(s) \/ Clear(s)
            \/ Accept(s) \/ Typed(s) \/ Scan(s) \/ ScanFails(s) \/ Enter(s) \/ Skip(s) \/ BeginCopy(s) \/ EndCopy(s)
            \/ Kill(s) \/ EndSend(s) \/ Show(s) \/ Return(s) \/ BrokenPipe(s)
        BY <3>1 DEF Step
      <4> QED
        BY <2>1, <4>1, QuietSteps, WritingSteps
    <3> QED
      BY <2>1, <3>2, <3>3, AloneStep, TargetStep, QuietStep DEF PoliteInv
  <2>2. CASE UNCHANGED vars
    BY <2>2 DEF vars, server, mine, signal, SharedInv, TypeOK, ShellInv, HeldInv, Holds, OwnInv, BufferInv, PrintedInv,
                OnceInv, Past, PoliteInv, AloneInv, PlaceInv, SeatInv, TargetInv, HolderInv, BlankInv,
                QuietInv, KilledInv, Sits, JustFreed
  <2> QED
    BY <2>1, <2>2 DEF Polite, PoliteStep
<1> QED
  BY <1>1, <1>2, PTL

\* When users come and go one at a time, everyone who is logged in has one entry with
\* their fd, pid and name, and the entries nobody has are blank, however the texts that
\* users send and print meanwhile interleave (Shell::Shell, name, broadcast, ~Shell).
THEOREM TableStaysRight == PoliteSpec => []TableRight
<1>1. PoliteInv => TableRight
  <2> SUFFICES ASSUME PoliteInv PROVE TableRight
    OBVIOUS
  <2>1. ASSUME NEW s \in Shell, pc[s] \in {"recv", "setname"}
        PROVE  entry[uid[s]].id /\ entry[uid[s]].fd /\ entry[uid[s]].pid = s /\ entry[uid[s]].name = nick[s]
    BY <2>1, PoliteFacts DEF SeatOf, Seats
  <2>2. ASSUME NEW i \in Entry, ~entry[i].id, Moving = {}
        PROVE  entry[i] = NewEntry
    <3>1. \A s \in Shell : pc[s] # "clear"
      BY <2>2 DEF Moving, Leaving
    <3> QED
      BY <2>2, <3>1 DEF PoliteInv, BlankInv, JustFreed
  <2> QED
    BY <2>1, <2>2 DEF TableRight
<1> QED
  BY <1>1, PoliteInvariant, PTL DEF PoliteSpec
=============================================================================
