------------------------------- MODULE MCWeb -------------------------------
(* The forms, and what commands write, in the run of Web. *)
EXTENDS Web

\* The second host is reached through the proxy.
AllRows     == <<1, 2, 3, 4, 5, 6>>
WithoutFile == <<1, 2, 0, 4, 5, 6>>

Forms       == {AllRows, WithoutFile}
SomeOutputs == {<<>>, <<"text">>, <<"mark">>}

\* The forms are of the kind that OneRow is about.
ASSUME FormsAreFilledIn == \A q \in Forms : FilledInRows(q)
=============================================================================
