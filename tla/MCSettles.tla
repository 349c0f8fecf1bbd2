------------------------------- MODULE MCSettles -------------------------------
(***************************************************************************)
(* Liveness of three components, each on an instance small enough for it:  *)
(* the admission queue, the clients of the daemon and the runtime pool.    *)
(* They run one at a time: `part' names the one that moves, so that their  *)
(* state spaces add up instead of multiplying.                             *)
(***************************************************************************)
EXTENDS Naturals, FiniteSets

CONSTANTS
    main, nested, sibling, x, y, z, build, writer, reader, below, shell, o1, o2,
    NoAgent, NoThread, Jobs, Owners, Roots, Agents, Threads, ResourceKeys,
    QueueCap, MaxAgents, MaxReaders,
    Daemons, Clients, Revisions, Faults, None,
    Runs, Keys, Sessions, Resumes, Entries, Evictions

VARIABLES
    part,
    active, waiters, ahead, expired, key, open, ticketed, holding, working,
    lock, endpoint, at, again, revision, requests, turns, replaced, client,
    pool, entries, entryKey, runtime, closing, reason, activeRuns, sessions,
    releasing, reserved, run, eviction

\* `nested' and `sibling' are checkouts inside `main'.
MCWithin == {<<r, r>> : r \in Roots} \union {<<nested, main>>, <<sibling, main>>}

\* Limits that never bind, so that only conflicts make a job wait.
Asks(owner, kind, root, agent, access, resources) ==
    [owner |-> owner, kind |-> kind, root |-> root, agent |-> agent, access |-> access,
     resources |-> resources, agentLimit |-> 16, readerLimit |-> 16]

MCRequest == [j \in Jobs |->
    CASE j = writer -> Asks(o1, "agent", main, x, "write", {})
      [] j = reader -> Asks(o1, "agent", main, y, "read", {})
      [] j = below  -> Asks(o1, "agent", nested, z, "read", {})
      [] j = shell  -> Asks(o2, "command", sibling, NoAgent, "write", {build})]

A == INSTANCE ExecutionCoordinator WITH Within <- MCWithin, Request <- MCRequest
Current == CHOOSE r \in Revisions : TRUE

D == INSTANCE DaemonLifecycle WITH RevisionOf <- [c \in Clients |-> Current]
P == INSTANCE RuntimePool WITH
         key <- entryKey,
         KeyOf <- [r \in Runs |-> CHOOSE k \in Keys : TRUE],
         SessionOf <- [r \in Runs |-> CHOOSE s \in Sessions : TRUE]

admission == <<active, waiters, ahead, expired, key, open, ticketed, holding, working>>
daemon == <<lock, endpoint, at, again, revision, requests, turns, replaced, client>>
pooling == <<pool, entries, entryKey, runtime, closing, reason, activeRuns, sessions,
             releasing, reserved, run, eviction>>
vars == <<part, admission, daemon, pooling>>

\* Clients are alike, and so are daemons not started yet: they come in the order of their
\* names.  Nobody reads the revision of a daemon that is dead or not started.  Of a dead
\* daemon's files and a daemon that ends, an instance has one.
InOrder ==
    /\ client["c2"].at # "idle" => client["c1"].at # "idle"
    /\ at["d2"] # "unborn" => at["d1"] # "unborn"
    /\ at["d3"] # "unborn" => at["d2"] # "unborn"
    /\ at["d1"] = "dead" => \A p \in Daemons : at[p] \notin D!Ending

Init ==
    /\ part \in {"admission", "daemon", "pool"}
    /\ A!Init /\ D!Init /\ P!Init /\ InOrder
    /\ \A p \in Daemons : at[p] \in {"unborn", "dead"} => revision[p] = Current
    /\ part # "daemon" => \A p \in Daemons : at[p] = "unborn"

Next ==
    \/ part = "admission" /\ A!Next /\ UNCHANGED <<part, daemon, pooling>>
    \/ part = "daemon" /\ D!Next /\ InOrder' /\ UNCHANGED <<part, admission, pooling>>
    \/ part = "pool" /\ P!Next /\ UNCHANGED <<part, admission, daemon>>

\* A part that does not move is where no step of its fairness is enabled.
FairSpec ==
    /\ Init /\ [][Next]_vars
    /\ A!Fairness /\ D!Fairness /\ P!Fairness

WaitersSettle == A!WaitersSettle
AskGetsDaemon == D!AskGetsDaemon
PoolSettles == P!PoolSettles
===============================================================================
