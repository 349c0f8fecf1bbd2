----------------------------- MODULE MCProviders -----------------------------
(* A small instance of Providers for TLC.                                   *)
EXTENDS Providers, TLC

CONSTANTS r1, r2, k1, s1, e1, e2, v1, v2, a1, m1, m2

OneKey == [r \in Runs |-> k1]
OneSession == [r \in Runs |-> s1]
Alike == Permutations(Entries) \union Permutations(Evictions)

MCWorkspace == [a \in {"a1", "a2"} |-> IF a = "a1" THEN "d1" ELSE "d2"]

\* How Grok may say that a prompt is over: in its answer, and in events before it.
MCEndings == {<<"response">>, <<"named", "response">>, <<"bare", "bare", "response">>}

\* Bound: two idle passes are under way at once only while one entry has been made.
PassesBound ==
    \/ Cardinality({v \in Evictions : eviction[v] # Off}) <= 1
    \/ Cardinality({e \in Entries : key[e] # None}) <= 1

MCNext == ProvidersNext /\ (part = "pool" => PassesBound')

MCSpec == ProvidersInit /\ [][MCNext]_providersVars
===============================================================================
