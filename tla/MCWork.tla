------------------------------- MODULE MCWork -------------------------------
(* A small instance of Work for TLC.                                       *)
EXTENDS Work

CONSTANTS r1, r2, c1, c2, t1, e1, e2, a1, k1, s1, s2

\* The second turn belongs to another run, the tool to none.
MCRunOf == [u \in Units |-> IF u = e2 THEN r2 ELSE IF u = t1 THEN None ELSE r1]
MCKeyOf == [c \in Calls |-> k1]
MCAgentOf == [e \in Turns |-> a1]
MCReports == {[status |-> "completed", acceptance |-> "passed", evidence |-> {"passed"}],
              [status |-> "failed", acceptance |-> "passed", evidence |-> {"failed"}],
              [status |-> "failed", acceptance |-> "failed", evidence |-> {"failed"}]}

MCMaxWritten == [s \in {s1, s2} |-> IF s = s1 THEN 4 ELSE 1]

\* Two files whose names differ in case; a line with blanks after it and one with blanks
\* before it; hunks that add a line, that remove one after a line of context, and that add
\* one at the end of the file.
MCLower(f) == IF f = "A" THEN "a" ELSE f
MCTrimmedEnd(l) == IF l = "x_" THEN "x" ELSE l
MCTrimmed(l) == IF l \in {"x_", "_x"} THEN "x" ELSE l
Text(lines, closed, eol) == [lines |-> lines, closed |-> closed, eol |-> eol]
MCTexts == {Text(<<"y">>, TRUE, "lf"), Text(<<"_x", "x_", "y">>, FALSE, "mixed")}
Hunk(context, old, new, eof) == [context |-> context, old |-> old, new |-> new, eof |-> eof]
MCHunks == {Hunk(None, <<"x">>, <<"x", "y">>, FALSE), Hunk("x", <<"y">>, <<>>, FALSE),
            Hunk(None, <<"y">>, <<>>, FALSE), Hunk(None, <<>>, <<"y">>, TRUE)}

\* Polls are alike: the first one is made first.
Made(p) == p \in answered \/ call[p] # Cmd!NoSession
InOrder == Made("p2") => Made("p1")

MCNext == WorkNext /\ (part = "commands" => InOrder')

MCSpec == WorkInit /\ [][MCNext]_workVars
===============================================================================
