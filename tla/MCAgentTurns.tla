----------------------------- MODULE MCAgentTurns -----------------------------
(* Small instances of AgentTurns.  Agents and keys are only compared with   *)
(* each other, and callers are alike, so the safety runs may permute them.  *)
EXTENDS AgentTurns, TLC

Alike ==
    Permutations(Agents) \union Permutations(Tasks) \union Permutations(Continues)
        \union Permutations(Controls) \union Permutations(Callers)

(* The daemon is down, and each agent has done its first task, under the     *)
(* control of DevSpace to its end or taken over meanwhile, by a request with *)
(* another key.  Starting there, one more task is one that resumes an agent. *)
FirstTask == CHOOSE t \in Tasks : TRUE

DoneOnce ==
    /\ status = [a \in Agents |-> "idle"]
    /\ control \in [Agents -> {"terminal", "desktop_owned"}]
    /\ known = Agents /\ taskKeys = {FirstTask} /\ claims = {}
    /\ turns = [a \in Agents |-> <<[key |-> FirstTask, status |-> "completed"]>>]
    /\ execution = [a \in Agents |-> "completed"]
    /\ continueKeys = [a \in Agents |-> {}]
    /\ request = [x \in Controls |-> NoRequest]
    /\ mode = "down" /\ step = Idle
    /\ caller = [c \in Callers |-> Away]
    /\ phase = [a \in Agents |-> "none"]
    /\ held = {} /\ ready = {}
    /\ rpc = [x \in Controls |-> NoRpc]
    /\ orphan = {} /\ preBoot = {}
    /\ sent = [x \in Controls |-> 0]

DoneOnceSpec == DoneOnce /\ [][Next]_vars /\ Fairness
===============================================================================
