----------------------------- MODULE TurnHistory -----------------------------
(***************************************************************************)
(* What the turn tables of an agent promise to whoever asked for work: a   *)
(* history that only grows, one turn running at a time, and no request     *)
(* that is ever run twice, whatever restarts and retries lie between.      *)
(***************************************************************************)
EXTENDS Integers, Sequences

CONSTANTS
    Agents,
    Tasks,      \* keys of requests to start an agent, unique among all agents
    Continues   \* keys of requests to continue one, unique within that agent

VARIABLE turns   \* for each agent, its turns, oldest first

Keys == Tasks \union Continues

Outcomes == {"completed", "failed", "stopped"}
Turns == [key: Keys, status: Outcomes \union {"running"}]

IsRunning(s) == s # <<>> /\ s[Len(s)].status = "running"
RanBy(a, k) == \E i \in DOMAIN turns[a] : turns[a][i].key = k
Ran(a, k) == RanBy(a, k) \/ (k \in Tasks /\ \E b \in Agents : RanBy(b, k))

\* The last turn of s comes to the outcome o.
Ended(s, o) == [s EXCEPT ![Len(s)].status = o]

Init == turns = [a \in Agents |-> <<>>]

Begin(a, k) ==
    /\ ~IsRunning(turns[a])
    /\ ~Ran(a, k)
    /\ turns' = [turns EXCEPT ![a] = Append(@, [key |-> k, status |-> "running"])]

End(a, o) ==
    /\ IsRunning(turns[a])
    /\ turns' = [turns EXCEPT ![a] = Ended(@, o)]

\* A restart fails every turn it finds running.
Restart ==
    turns' = [a \in Agents |->
                IF IsRunning(turns[a]) THEN Ended(turns[a], "failed") ELSE turns[a]]

Next ==
    \/ \E a \in Agents, k \in Keys : Begin(a, k)
    \/ \E a \in Agents, o \in Outcomes : End(a, o)
    \/ Restart

Spec == Init /\ [][Next]_turns
==============================================================================
