------------------------------- MODULE Claims -------------------------------
(***************************************************************************)
(* What a claim on the local machine stands for, and when two claims may   *)
(* not be held together.  A job is one unit of work that asks for          *)
(* admission (an agent turn, a command, a mutation, a host read); its      *)
(* request is the row `execution-coordinator.ts' writes for it.            *)
(***************************************************************************)
EXTENDS Naturals, FiniteSets

CONSTANTS
    Jobs,          \* units of work that ask for admission
    Owners,        \* coordinator instances, one per process that opens one
    Roots,         \* canonical checkout roots
    Agents,        \* agent identities
    NoAgent,       \* the request names no agent
    Threads,       \* provider thread keys
    NoThread,      \* no provider thread is bound yet
    ResourceKeys,  \* explicit shared-resource keys
    Within,        \* <<child, parent>>: child is parent or lies below it
    Request        \* the request every job makes

Kinds == {"agent", "command", "mutation", "read"}
Access == {"read", "write"}

\* ExecutionClaimInput, after row() has filled in the defaults.  agentLimit
\* and readerLimit are maxConcurrentAgents and maxConcurrentReaders.
Requests ==
    [owner: Owners, kind: Kinds, root: Roots, agent: Agents \union {NoAgent},
     access: Access, resources: SUBSET ResourceKeys,
     agentLimit: 1..16, readerLimit: 1..16]

ThreadKeys == Threads \union {NoThread}

ASSUME JobsAssumption == IsFiniteSet(Jobs) /\ Request \in [Jobs -> Requests]

ASSUME NamesAssumption == NoAgent \notin Agents /\ NoThread \notin Threads

\* Checkout roots form a forest: a root contains itself, and two roots that
\* contain a third one are nested in each other.
ASSUME WithinAssumption ==
    /\ \A r \in Roots : <<r, r>> \in Within
    /\ \A r, s, t \in Roots :
          <<r, s>> \in Within /\ <<r, t>> \in Within
             => <<s, t>> \in Within \/ <<t, s>> \in Within

Overlaps(r, s) == <<r, s>> \in Within \/ <<s, r>> \in Within

Reads(j) == Request[j].access = "read"

\* exclusiveConflict(a, b), with the thread key column of every row in key.
Conflict(key, a, b) ==
    \/ Request[a].agent # NoAgent /\ Request[a].agent = Request[b].agent
    \/ key[a] # NoThread /\ key[a] = key[b]
    \/ Request[a].resources \intersect Request[b].resources # {}
    \/ Overlaps(Request[a].root, Request[b].root) /\ ~(Reads(a) /\ Reads(b))

Compatible(key, S) == \A a, b \in S : a # b => ~Conflict(key, a, b)
=============================================================================
