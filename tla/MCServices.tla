------------------------------ MODULE MCServices ------------------------------
(* A small instance of Services for TLC.                                    *)
EXTENDS Services, TLC

CONSTANTS y1, y2, sc1, sc2, res

Alike == Permutations(Batches) \union Permutations(Requests)

MCPaths == {<<"f">>, <<".", "f">>, <<"..", "f">>, <<".">>}

MCAccepts == [s \in Servers |-> {res}]

\* A build that is five migrations behind.
MCLatest == [p \in {"server", "agentd", "old"} |-> IF p = "old" THEN 12 ELSE 17]

\* One command that only loads, one that edits and one that sets up.
MCKinds == [c \in {"a", "b", "c"} |-> CASE c = "a" -> {"serve"} [] c = "b" -> {"set"}
                                        [] c = "c" -> {"reinit"}]
===============================================================================
