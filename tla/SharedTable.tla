---------------------------- MODULE SharedTable ----------------------------
(***************************************************************************)
(* The users of np_multi_proc.  The server forks a shell for every         *)
(* connection; the shells keep one table in shared memory, which nothing   *)
(* locks, and tell each other things by writing into the one message       *)
(* buffer of the receiver's entry and sending SIGUSR1 to the pid found     *)
(* there.  The receiver's handler prints the buffer and empties it.        *)
(*                                                                         *)
(* A step is what one shell does between two points where another may see  *)
(* or change the table.  User pipes are in FifoPipes.                      *)
(***************************************************************************)
EXTENDS Integers, FiniteSets

CONSTANTS
  MaxUser,      \* entries of the table (30)
  Name,         \* the nicknames that users choose
  MaxShell,     \* bound: connections accepted
  MaxCommand    \* bound: lines read, disconnecting included

ASSUME BoundAssumption ==
  MaxUser \in Nat \ {0} /\ MaxShell \in Nat \ {0} /\ MaxCommand \in Nat

Entry == 1 .. MaxUser
Shell == 1 .. MaxShell   \* shells, in the order of their connections; as pids too

NoPid   == 0             \* 0 before its first user, -1 after: kill() takes it for all processes
NoUid   == 0
Blank   == "blank"       \* the username ""
Unnamed == "unnamed"     \* the username "(no name)"

\* What users say is known by its author and the number of the line; what the
\* server announces (entered, left, is named) is not told apart.
Empty  == <<0, 0>>
Mixed  == <<0, 1>>       \* two texts, or half of one
Notice == <<0, 2>>
Said   == Shell \X (1 .. MaxCommand)
Text   == Said \cup {Notice, Mixed}

ASSUME NameAssumption == Name \cap {Blank, Unnamed} = {}

VARIABLES
  up,         \* the server process lives
  entry,      \* the table users[]
  pc,         \* where each shell is
  uid, nick,  \* Shell::uid and Shell::name
  loop,       \* a loop over entries: the next one, the last, what is sent, and
              \* what comes after it
  round,      \* how often the shell's entry has been cleared
  usr1,       \* SIGUSR1 is pending
  shown,      \* the handler is running: it has printed the buffer, not yet emptied it
  printed,    \* history: what each shell has printed of what users said
  ncommand    \* lines read so far

server == <<up, entry>>
mine   == <<uid, nick, round, ncommand>>
signal == <<usr1, shown, printed>>
vars   == <<server, pc, loop, mine, signal>>

NewEntry == [id |-> FALSE, fd |-> FALSE, pid |-> NoPid, name |-> Blank, msg |-> Empty]
NoLoop   == [i |-> 1, last |-> 0, text |-> Empty, next |-> "recv", want |-> Blank]

Starting == {"scan", "claim", "publish", "handlers"}
Sending  == {"send", "copying", "signal"}
Leaving  == {"free", "clear"}
Over     == {"ended", "killed"}

User  == [id : BOOLEAN, fd : BOOLEAN, pid : Shell \cup {NoPid},
          name : Name \cup {Blank, Unnamed}, msg : Text \cup {Empty}]
Place == {"none", "recv", "setname"} \cup Starting \cup Sending \cup Leaving \cup Over
Loop  == [i : 1 .. MaxUser + 1, last : 0 .. MaxUser, text : Text \cup {Empty},
          next : {"recv", "setname", "free"}, want : Name \cup {Blank}]

TypeOK ==
  /\ up \in BOOLEAN
  /\ entry \in [Entry -> User]
  /\ pc \in [Shell -> Place]
  /\ uid \in [Shell -> Entry \cup {NoUid}]
  /\ nick \in [Shell -> Name \cup {Unnamed}]
  /\ loop \in [Shell -> Loop]
  /\ round \in [Shell -> 0 .. 3]
  /\ usr1 \in [Shell -> BOOLEAN]
  /\ shown \in [Shell -> BOOLEAN]
  /\ printed \in [Shell -> SUBSET Said]
  /\ ncommand \in 0 .. MaxCommand

\* The shell's own program goes on only while no handler runs.
At(s, p) == pc[s] = p /\ ~shown[s]
Goto(s, p) == pc' = [pc EXCEPT ![s] = p]

-----------------------------------------------------------------------------
(* accept() and fork(); the constructor of Shell.                          *)

Accept(s) ==
  /\ up /\ pc[s] = "none"
  /\ \A t \in Shell : t < s => pc[t] # "none"
  /\ Goto(s, "scan")
  /\ UNCHANGED <<server, loop, mine, signal>>

Scan(s) ==
  /\ At(s, "scan") /\ loop[s].i <= MaxUser
  /\ IF entry[loop[s].i].id
       THEN loop' = [loop EXCEPT ![s].i = @ + 1] /\ UNCHANGED pc
       ELSE Goto(s, "claim") /\ UNCHANGED loop
  /\ UNCHANGED <<server, mine, signal>>

\* No entry is free: create_shell ends the process.  (The constructor has gone on
\* with the uid -1, and written before the table's beginning.)
ScanFails(s) ==
  /\ At(s, "scan") /\ loop[s].i > MaxUser
  /\ Goto(s, "ended")
  /\ UNCHANGED <<server, loop, mine, signal>>

\* (Fault: fd is left to the code that sets the pid.)
OnlyId(e)  == [e EXCEPT !.id = TRUE]
Claimed(e) == [e EXCEPT !.id = TRUE, !.fd = TRUE]

Claim(s) ==
  /\ At(s, "claim")
  /\ uid' = [uid EXCEPT ![s] = loop[s].i]
  /\ entry' = [entry EXCEPT ![loop[s].i] = Claimed(@)]
  /\ loop' = [loop EXCEPT ![s] = NoLoop]
  /\ Goto(s, "publish")
  /\ UNCHANGED <<up, nick, round, ncommand, signal>>

\* The name, and then the pid that others send their signals to.
Publish(s) ==
  /\ At(s, "publish")
  /\ entry' = [entry EXCEPT ![uid[s]].name = Unnamed, ![uid[s]].pid = s]
  /\ Goto(s, "handlers")
  /\ UNCHANGED <<up, loop, mine, signal>>

-----------------------------------------------------------------------------
(* broadcast, and tell, which is one round of it.                          *)

\* s sends a text to the entries from i to j that are in use, and goes on at p.
Send(s, i, j, m, p) ==
  /\ loop' = [loop EXCEPT ![s] = [i |-> i, last |-> j, text |-> m, next |-> p, want |-> Blank]]
  /\ Goto(s, "send")

\* run() installs the handlers and announces the user.
Enter(s) ==
  /\ At(s, "handlers")
  /\ Send(s, 1, MaxUser, Notice, "recv")
  /\ UNCHANGED <<server, mine, signal>>

Skip(s) ==
  /\ At(s, "send") /\ loop[s].i <= loop[s].last
  /\ ~entry[loop[s].i].id
  /\ loop' = [loop EXCEPT ![s].i = @ + 1]
  /\ UNCHANGED <<server, pc, mine, signal>>

\* What is copied while it is read or overwritten is seen in part.
BeginCopy(s) ==
  /\ At(s, "send") /\ loop[s].i <= loop[s].last
  /\ entry[loop[s].i].id
  /\ entry' = [entry EXCEPT ![loop[s].i].msg = Mixed]
  /\ Goto(s, "copying")
  /\ UNCHANGED <<up, loop, mine, signal>>

\* The shells whose copy into i is under way.
Copying(i) == {s \in Shell : pc[s] = "copying" /\ loop[s].i = i}

Outcomes(s, m) ==
  IF m = Mixed /\ Copying(loop[s].i) = {s} THEN {loop[s].text} ELSE {loop[s].text, m, Mixed}

EndCopy(s) ==
  /\ At(s, "copying")
  /\ \E m \in Outcomes(s, entry[loop[s].i].msg) : entry' = [entry EXCEPT ![loop[s].i].msg = m]
  /\ Goto(s, "signal")
  /\ UNCHANGED <<up, loop, mine, signal>>

\* kill(pid, SIGUSR1): a process without a handler ends.  No pid means every
\* process, the server too.
\* (Fault: a shell does not signal itself.)
Handles(t) == pc[t] \notin Starting \cup Over \cup {"none"}
Others(s)  == {entry[loop[s].i].pid} \ {s}
Hit(s)     == IF entry[loop[s].i].pid = NoPid THEN Shell ELSE {entry[loop[s].i].pid}

Kill(s) ==
  /\ At(s, "signal")
  /\ up' = (up /\ entry[loop[s].i].pid # NoPid)
  /\ usr1' = [t \in Shell |-> usr1[t] \/ (t \in Hit(s) /\ Handles(t))]
  /\ pc' = [t \in Shell |-> IF t = s THEN "send"
                            ELSE IF t \in Hit(s) /\ pc[t] \in Starting THEN "killed" ELSE pc[t]]
  /\ loop' = [loop EXCEPT ![s].i = @ + 1]
  /\ UNCHANGED <<entry, mine, shown, printed>>

\* After the last entry the shell goes on: with the prompt, if the line is done.
Sent(s) == At(s, "send") /\ loop[s].i > loop[s].last

EndSend(s) ==
  /\ Sent(s)
  /\ Goto(s, loop[s].next)
  /\ loop' = [loop EXCEPT ![s] = [NoLoop EXCEPT !.want = loop[s].want]]
  /\ UNCHANGED <<server, mine, signal>>

-----------------------------------------------------------------------------
(* The lines that users type.                                              *)

Read(s) ==
  /\ At(s, "recv") /\ ncommand < MaxCommand
  /\ ncommand' = ncommand + 1
  /\ UNCHANGED <<server, uid, nick, round, signal>>

Yell(s)    == Read(s) /\ Send(s, 1, MaxUser, <<s, ncommand + 1>>, "recv")
Tell(s, i) == Read(s) /\ entry[i].id /\ Send(s, i, i, <<s, ncommand + 1>>, "recv")
Exit(s)    == Read(s) /\ Goto(s, "free") /\ UNCHANGED loop

\* The receiver of a tell is no number, or too large for an int: nobody catches what
\* stoi() throws.  (A negative one indexes the table before its beginning; such a
\* line is left out.)
BadTell(s) == Read(s) /\ Goto(s, "killed") /\ UNCHANGED loop

\* The name is tested, announced, and only then taken; the prompt follows.
Rename(s, n) ==
  /\ Read(s)
  /\ \A i \in Entry : entry[i].name # n
  /\ loop' = [loop EXCEPT ![s] = [i |-> 1, last |-> MaxUser, text |-> Notice, next |-> "setname", want |-> n]]
  /\ Goto(s, "send")

SetName(s) ==
  /\ At(s, "setname")
  /\ entry' = [entry EXCEPT ![uid[s]].name = loop[s].want]
  /\ nick' = [nick EXCEPT ![s] = loop[s].want]
  /\ loop' = [loop EXCEPT ![s] = NoLoop]
  /\ Goto(s, "send")
  /\ UNCHANGED <<up, uid, round, ncommand, signal>>

-----------------------------------------------------------------------------
(* A shell that leaves clears its entry three times: deleteuser,           *)
(* clear_processes after it announced the departure, and ~Shell.  First    *)
(* the id is freed, which lets a newcomer in; the other fields follow one  *)
(* by one, here in one step.                                               *)

\* (Fault: the id is not freed.)
KeepsId(e) == e
Freed(e)   == [e EXCEPT !.id = FALSE]

Free(s) ==
  /\ At(s, "free")
  /\ entry' = [entry EXCEPT ![uid[s]] = Freed(@)]
  /\ Goto(s, "clear")
  /\ UNCHANGED <<up, loop, mine, signal>>

\* (Fault: the name and the pid stay.)
Dirty(e, r)   == [e EXCEPT !.fd = FALSE]
Cleared(e, r) == IF r = 2 THEN [e EXCEPT !.fd = FALSE, !.name = Blank] ELSE [NewEntry EXCEPT !.id = e.id]

Clear(s) ==
  /\ At(s, "clear")
  /\ round' = [round EXCEPT ![s] = @ + 1]
  /\ entry' = [entry EXCEPT ![uid[s]] = Cleared(@, round[s] + 1)]
  /\ CASE round[s] = 0 -> Send(s, 1, MaxUser, Notice, "free")
       [] round[s] = 1 -> Goto(s, "free") /\ UNCHANGED loop
       [] round[s] = 2 -> Goto(s, "ended") /\ UNCHANGED loop
  /\ UNCHANGED <<up, uid, nick, ncommand, signal>>

-----------------------------------------------------------------------------
(* send2itself, the handler of SIGUSR1.                                    *)

Show(s) ==
  /\ usr1[s] /\ ~shown[s] /\ Handles(s)
  /\ usr1' = [usr1 EXCEPT ![s] = FALSE]
  /\ shown' = [shown EXCEPT ![s] = TRUE]
  /\ printed' = [printed EXCEPT ![s] =
                   @ \cup (IF entry[uid[s]].fd THEN {entry[uid[s]].msg} \cap Said ELSE {})]
  /\ UNCHANGED <<server, pc, loop, mine>>

\* (Fault: the buffer is not emptied.)
KeepsMsg(e) == e
Emptied(e)  == [e EXCEPT !.msg = Empty]

Return(s) ==
  /\ shown[s]
  /\ shown' = [shown EXCEPT ![s] = FALSE]
  /\ entry' = [entry EXCEPT ![uid[s]] = Emptied(@)]
  /\ UNCHANGED <<up, pc, loop, mine, usr1, printed>>

-----------------------------------------------------------------------------
(* The client has reset its connection: the next thing that the shell      *)
(* writes to it ends the shell, which does not ignore SIGPIPE and clears   *)
(* nothing.  It writes the welcome, the prompt, and what the handler finds.*)

Writes(s) ==
  \/ At(s, "handlers")
  \/ Sent(s) /\ loop[s].next = "recv"
  \/ usr1[s] /\ ~shown[s] /\ Handles(s) /\ entry[uid[s]].fd

BrokenPipe(s) ==
  /\ Writes(s)
  /\ Goto(s, "killed")
  /\ usr1' = [usr1 EXCEPT ![s] = FALSE]
  /\ UNCHANGED <<server, loop, mine, shown, printed>>

-----------------------------------------------------------------------------
Init ==
  /\ up = TRUE
  /\ entry = [i \in Entry |-> NewEntry]
  /\ pc = [s \in Shell |-> "none"]
  /\ uid = [s \in Shell |-> NoUid]
  /\ nick = [s \in Shell |-> Unnamed]
  /\ loop = [s \in Shell |-> NoLoop]
  /\ round = [s \in Shell |-> 0]
  /\ usr1 = [s \in Shell |-> FALSE]
  /\ shown = [s \in Shell |-> FALSE]
  /\ printed = [s \in Shell |-> {}]
  /\ ncommand = 0

\* What a shell does by itself.
Step(s) == \/ Scan(s) \/ ScanFails(s) \/ Claim(s) \/ Publish(s) \/ Enter(s)
           \/ Skip(s) \/ BeginCopy(s) \/ EndCopy(s) \/ Kill(s) \/ EndSend(s)
           \/ SetName(s) \/ Free(s) \/ Clear(s)
           \/ Show(s) \/ Return(s)

\* What its user makes it do.
Typed(s) == \/ Yell(s) \/ Exit(s) \/ BadTell(s)
            \/ \E i \in Entry : Tell(s, i)
            \/ \E n \in Name : Rename(s, n)

Next == \E s \in Shell : Accept(s) \/ Typed(s) \/ Step(s) \/ BrokenPipe(s)

Spec == Init /\ [][Next]_vars

\* Nobody comes or goes while somebody else comes or goes, and none of the
\* others sends anything meanwhile.
Moving  == {s \in Shell : \/ pc[s] \in Starting \cup Leaving
                           \/ (pc[s] \in Sending /\ loop[s].text = Notice /\ loop[s].next # "setname")}
Idle(s) == pc[s] \in {"none", "recv"} \cup Over /\ ~usr1[s] /\ ~shown[s]
Polite  == \E s \in Shell :
             \/ Step(s) \/ BrokenPipe(s)
             \/ Moving = {} /\ Typed(s) /\ ~Exit(s)
             \/ (\A t \in Shell : Idle(t)) /\ (Accept(s) \/ Exit(s))

PoliteSpec == Init /\ [][Polite]_vars /\ \A s \in Shell : WF_vars(Step(s))

-----------------------------------------------------------------------------
(* What must hold.                                                         *)

\* A shell prints a text at most once, whoever writes into its buffer meanwhile
\* and whoever has taken over its entry (send2itself, broadcast).
PrintedOnce ==
  [][ \A s \in Shell : shown'[s] /\ ~shown[s] /\ entry[uid[s]].fd =>
        entry[uid[s]].msg \notin printed[s] ]_vars

\* An entry in use is that of a shell that took it and is there, or was killed: by a
\* signal before it had handlers, by a write to a connection that was reset, or by
\* an exception.  Nothing frees the entry of one that was killed; but users who
\* leave by exit, or whose end of connection is read, do not fill the table, in
\* whatever order they come and go (deleteuser, clear_processes, ~Shell).
NoGhosts ==
  /\ TypeOK
  /\ \A i \in Entry : entry[i].id => \E s \in Shell : uid[s] = i /\ pc[s] # "ended"

\* The users who are logged in have an entry each, with their fd, pid and name,
\* and the other entries are blank: who, tell and the broadcasts see what is.
TableRight ==
  /\ \A s \in Shell : pc[s] \in {"recv", "setname"} =>
       entry[uid[s]].id /\ entry[uid[s]].fd /\ entry[uid[s]].pid = s /\ entry[uid[s]].name = nick[s]
  /\ \A i \in Entry : ~entry[i].id /\ Moving = {} => entry[i] = NewEntry

\* What is in a buffer is printed, or overwritten before that: nothing stays there
\* unread, unless the shell whose buffer it is was killed, or one that was sending
\* to it before it had sent the signal (send2itself, broadcast).
Mute(s, i) == pc[s] = "killed" /\ (uid[s] = i \/ (loop[s].i = i /\ i <= loop[s].last))

Flushed ==
  \A i \in Entry :
    entry[i].msg # Empty ~> entry[i].msg = Empty \/ \E s \in Shell : Mute(s, i)
=============================================================================
