----------------------------- MODULE MCCheckouts -----------------------------
(* A small instance of Checkouts for TLC.                                   *)
EXTENDS Checkouts

CONSTANTS o1, o2,                      \* the agent daemon and a server
          main, nested, sibling,        \* checkouts
          x, y, z, t1, build,
          writer, reader, below, beside, shell

\* `nested' and `sibling' are checkouts inside `main'.
MCWithin == {<<r, r>> : r \in Roots} \union {<<nested, main>>, <<sibling, main>>}

Asks(owner, kind, root, agent, access, resources, agentLimit, readerLimit) ==
    [owner |-> owner, kind |-> kind, root |-> root, agent |-> agent,
     access |-> access, resources |-> resources,
     agentLimit |-> agentLimit, readerLimit |-> readerLimit]

\* Agent turns with the default limits beside a command of another process.
MCRequest == [j \in Jobs |->
    CASE j = writer -> Asks(o1, "agent", main, x, "write", {}, 3, 2)
      [] j = reader -> Asks(o1, "agent", main, y, "read", {}, 3, 2)
      [] j = below  -> Asks(o1, "agent", nested, z, "read", {}, 3, 2)
      [] j = beside -> Asks(o1, "agent", nested, x, "read", {build}, 3, 2)
      [] j = shell  -> Asks(o2, "command", sibling, NoAgent, "write", {build}, 3, 2)]

\* Calls are alike: they begin in the order of their names.
Begun(c) == call[c] # W!NoCall
InOrder == (Begun("c2") => Begun("c1")) /\ (Begun("c3") => Begun("c2"))

MCNext == CheckoutsNext /\ (part = "opens" => InOrder')

MCSpec == CheckoutsInit /\ [][MCNext]_checkoutsVars
===============================================================================
