----------------------------- MODULE SourceUse -----------------------------
(***************************************************************************)
(* What admission promises to the rest of the system, with no queue, no    *)
(* limit, no clock and no crash: jobs enter only beside jobs they are      *)
(* compatible with, a job may take a provider thread nobody else is using, *)
(* and a job leaves when it likes.                                         *)
(***************************************************************************)
EXTENDS Claims

VARIABLES
    using,  \* the jobs that are entitled to run
    key     \* the provider thread each of them has taken

useVars == <<using, key>>

Init ==
    /\ using = {}
    /\ key = [j \in Jobs |-> NoThread]

Enter(j) ==
    /\ j \notin using
    /\ using' = using \union {j}
    /\ \E t \in ThreadKeys : key' = [key EXCEPT ![j] = t]
    /\ \A k \in using : ~Conflict(key', j, k)

Take(j, t) ==
    /\ j \in using
    /\ \A k \in using \ {j} : key[k] # t
    /\ key' = [key EXCEPT ![j] = t]
    /\ UNCHANGED using

Leave(j) ==
    /\ j \in using
    /\ using' = using \ {j}
    /\ key' = [key EXCEPT ![j] = NoThread]

Next == \E j \in Jobs : Enter(j) \/ Leave(j) \/ \E t \in Threads : Take(j, t)

Spec == Init /\ [][Next]_useVars
=============================================================================
