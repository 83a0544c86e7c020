----------------------------- MODULE LinePipes -----------------------------
(***************************************************************************)
(* What the shell's pipes promise its user, with the lines known by their  *)
(* number and no ring, no slot and no kernel pipe: a command reads what    *)
(* the command before it writes, or what earlier lines sent to its line;   *)
(* a line that sends its output to a later one leaves its processes to     *)
(* that line; every other line ends when its processes have ended.         *)
(***************************************************************************)
EXTENDS Integers

CONSTANTS Proc,    \* processes
          LineNo   \* line numbers

VARIABLES
  now,      \* the number of the line that is typed or executed
  front,    \* whose output the next command of this line reads
  feeders,  \* line -> processes whose output waits for that line
  owed,     \* line -> processes that must have ended before that line ends
  input,    \* process -> the processes whose output it reads
  started,  \* processes ever started
  running,  \* those that have not ended
  over      \* the shell has exited

vars == <<now, front, feeders, owed, input, started, running, over>>

Init ==
  /\ now = 1
  /\ front = {}
  /\ feeders = [n \in LineNo |-> {}]
  /\ owed = [n \in LineNo |-> {}]
  /\ input = [p \in Proc |-> {}]
  /\ started = {}
  /\ running = {}
  /\ ~over

\* A command is started.  It reads the front and is the front of the next one,
\* unless it is the line's last; the lines in dests read its output.
Start(p, isLast, dests) ==
  /\ ~over
  /\ p \notin started
  /\ started' = started \cup {p}
  /\ running' = running \cup {p}
  /\ input' = [input EXCEPT ![p] = front]
  /\ front' = IF isLast THEN {} ELSE {p}
  /\ feeders' = [n \in LineNo |-> IF n \in dests THEN feeders[n] \cup {p} ELSE feeders[n]]
  /\ owed' = [owed EXCEPT ![now] = @ \cup {p}]
  /\ UNCHANGED <<now, over>>

\* The line sends its output to line n, which takes over its processes.
PassOn(n) ==
  /\ ~over
  /\ n > now
  /\ owed' = [owed EXCEPT ![n] = @ \cup owed[now], ![now] = {}]
  /\ UNCHANGED <<now, front, feeders, input, started, running, over>>

\* The line ends, and with it what the line's commands did not read.
EndLine ==
  /\ ~over
  /\ owed[now] \cap running = {}
  /\ now' = now + 1
  /\ front' = feeders[now + 1]
  /\ feeders' = [feeders EXCEPT ![now + 1] = {}]
  /\ owed' = [owed EXCEPT ![now] = {}]
  /\ UNCHANGED <<input, started, running, over>>

\* A process ends.
Finish(p) ==
  /\ p \in running
  /\ running' = running \ {p}
  /\ UNCHANGED <<now, front, feeders, owed, input, started, over>>

\* The shell exits and leaves no process behind.
Exit ==
  /\ ~over
  /\ over' = TRUE
  /\ running' = {}
  /\ UNCHANGED <<now, front, feeders, owed, input, started>>

Next ==
  \/ \E p \in Proc : \/ Finish(p)
                     \/ \E isLast \in BOOLEAN, dests \in SUBSET {n \in LineNo : n > now} :
                          Start(p, isLast, dests)
  \/ \E n \in LineNo : PassOn(n)
  \/ EndLine
  \/ Exit

Spec == Init /\ [][Next]_vars
=============================================================================
