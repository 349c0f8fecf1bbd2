------------------------------ MODULE MCAgentd ------------------------------
(* A small instance of Agentd for TLC.                                     *)
EXTENDS Agentd

CONSTANTS c3, old, new, a1, m1, m2

\* A client of the new configuration, and one of the old.
MCRevisionOf == [c \in Clients |-> IF c = c3 THEN old ELSE new]
MCFailingRevisionOf == [c \in {c3} |-> old]

\* One agent has the tasks of all keys.
MCAgentOf == [k \in Keys |-> a1]

\* Efforts are 0 for none, 1 for low to 3 for high.
Defaults(model, effort) == [model |-> model, effort |-> effort]
MCConfigs ==
    {[mode |-> "allowed", model |-> NoModel, effort |-> 0,
      readOnly |-> Defaults(NoModel, 1), limits |-> {}],
     [mode |-> "allowed", model |-> m1, effort |-> 2, readOnly |-> Defaults(m2, 1),
      limits |-> {[model |-> m1, max |-> 2], [model |-> m1, max |-> 3], [model |-> m2, max |-> 2]}]}
MCProfiles ==
    {[enabled |-> TRUE, model |-> NoModel, effort |-> 0, body |-> 1],
     [enabled |-> TRUE, model |-> m1, effort |-> 3, body |-> 1],
     [enabled |-> FALSE, model |-> NoModel, effort |-> 0, body |-> 1]}
Asked(model, effort, mode) == [model |-> model, effort |-> effort, mode |-> mode]
MCRequests == {Asked(NoModel, 0, "unset"), Asked(m2, 3, "unset"), Asked(NoModel, 0, "read_only")}

MCInit ==
    /\ AgentdInit
    /\ part # "orderly" => lock = None /\ revision = [p \in Daemons |-> new]

\* Registrations are alike: the first one begins first. One that is tried again sees one change at most.
InOrder ==
    /\ reg["g2"] # J!Fresh => reg["g1"] # J!Fresh
    /\ changes = 2 => reg["g1"].tries < 2 /\ reg["g2"].tries < 2

MCNext == AgentdNext /\ (part = "projects" => InOrder')

MCSpec == MCInit /\ [][MCNext]_agentdVars
===============================================================================
