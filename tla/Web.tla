-------------------------------- MODULE Web --------------------------------
(***************************************************************************)
(* http_server and the console.cgi that it runs for a browser: since it    *)
(* waits for each program, a console that never ends is the last program   *)
(* that it runs.                                                           *)
(***************************************************************************)
EXTENDS HttpServer, Console

vars == <<http, console>>

\* A console starts when its process has become the program, and is gone with it.
Becomes(b) == BecomeProgram(b) /\ \E q \in Queries : Start(q)

ConsoleStep(b) ==
  /\ prog[b] = "cgi"
  /\ \E h \in Host : ClientStep(h)
  /\ page' # page => browser[b] # "gone"
  /\ UNCHANGED http

\* display_output() to a browser that is gone.
Sigpipe(b) ==
  /\ prog[b] = "cgi" /\ browser[b] = "gone"
  /\ \E h \in Host : st[h] = "read" /\ replied[h] /\ wire[h] # <<>>
  /\ Ends(b, "headers")
  /\ UNCHANGED console

Crash(b) ==
  /\ prog[b] = "cgi" /\ \E h \in Host : MayCrash(h)
  /\ Ends(b, "headers")
  /\ UNCHANGED console

Finish(b) ==
  /\ prog[b] = "cgi" /\ AllOver
  /\ Ends(b, "page")
  /\ UNCHANGED console

ProgramStep(b) == ConsoleStep(b) \/ Sigpipe(b) \/ Crash(b) \/ Finish(b)

\* Shells and proxies are looked at while a console runs.
Outside ==
  /\ \E b \in Browser : prog[b] = "cgi"
  /\ \E h \in Host : HostStep(h)
  /\ UNCHANGED http

ServerStep == (\E b \in Browser : Handler(b)) /\ UNCHANGED console
Forked(b)  == ((ExecFails(b) \/ Killed(b)) /\ UNCHANGED console) \/ Becomes(b)

Init == HttpInit /\ ConsoleInit

Next == \/ ServerStep
        \/ \E b \in Browser : (BrowserStep(b) /\ UNCHANGED console) \/ Forked(b) \/ ProgramStep(b)
        \/ Outside

Spec == Init /\ [][Next]_vars

\* The handlers that are ready are run, and processes make progress.
FairSpec == /\ Spec
            /\ WF_vars(ServerStep) /\ WF_vars(Outside)
            /\ \A b \in Browser : WF_vars(Forked(b)) /\ WF_vars(ProgramStep(b))

-----------------------------------------------------------------------------
\* The console that is waited for has a client that will not end, as each has that
\* reached its host through the proxy.
Hung == server = "wait" /\ prog[cur] = "cgi" /\ \E h \in Host : Stays(h)

\* A browser that has asked is answered and its program comes to an end, one after
\* the other, unless fork() failed for it, the server died of a browser that was
\* gone, or a console that hangs keeps everybody waiting.
Served ==
  \A b \in Browser :
    conn[b] = "read" ~> conn[b] = "closed" \/ conn[b] = "stuck" \/ Hung
=============================================================================
