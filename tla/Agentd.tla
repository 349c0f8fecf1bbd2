------------------------------- MODULE Agentd -------------------------------
(***************************************************************************)
(* The agent daemon: who is the daemon of a state directory, with daemons  *)
(* that end in order and with daemons that fail, the requests on its       *)
(* connections, the settings it runs a turn with, and the projects of the  *)
(* Codex Desktop that its turns are registered in. They run one at a time: *)
(* `part' names the one that moves, so that their state spaces add up      *)
(* instead of multiplying.                                                 *)
(***************************************************************************)
EXTENDS DaemonLifecycle, Sequences, FiniteSets

CONSTANTS
    Asleep,                                                     \* the state of a part that does not move
    FailingClients, FailingRevisionOf, FailingFaults,           \* of daemons that fail
    MaxCalls, Keys, AgentOf, Flaws, MaxExits, Unsaid,           \* of the connections
    TurnAgents, NoModel, Configs, Profiles, Requests, MaxNewSessions, MaxTurns, \* of the settings
    Regs, Threads, NoThread, MaxChanges, MaxTries               \* of the projects

ASSUME FailingRevisionsAssumption == FailingRevisionOf \in [FailingClients -> Revisions]

VARIABLES
    part,
    failingLock, failingEndpoint, failingAt, failingAgain, failingRevision,
    failingRequests, failingTurns, failingReplaced, failingClient,
    call, answer, down, linked, conn, captured, serving, keys, turnRows, exits, did,
    config, profile, agent, turn, clock,
    saved, local, owner, pin, moves, late, drafts, changes, reg

F == INSTANCE DaemonLifecycle WITH
        lock <- failingLock, endpoint <- failingEndpoint, at <- failingAt,
        again <- failingAgain, revision <- failingRevision, requests <- failingRequests,
        turns <- failingTurns, replaced <- failingReplaced, client <- failingClient,
        Clients <- FailingClients, RevisionOf <- FailingRevisionOf, Faults <- FailingFaults
W == INSTANCE DaemonWire WITH turns <- turnRows, daemon <- serving
S == INSTANCE TurnSettings WITH Agents <- TurnAgents
J == INSTANCE DesktopProjects

failing == <<failingLock, failingEndpoint, failingAt, failingAgain, failingRevision,
             failingRequests, failingTurns, failingReplaced, failingClient>>
connections == <<call, answer, down, linked, conn, captured, serving, keys, turnRows,
                 exits, did>>
settings == <<config, profile, agent, turn, clock>>
projects == <<saved, local, owner, pin, moves, late, drafts, changes, reg>>

\* A part that does not move has no state.
FailingIdle ==
    /\ failingLock = Asleep /\ failingEndpoint = Asleep /\ failingAt = Asleep
    /\ failingAgain = Asleep /\ failingRevision = Asleep /\ failingRequests = Asleep
    /\ failingTurns = Asleep /\ failingReplaced = Asleep /\ failingClient = Asleep
ConnectionsIdle ==
    /\ call = Asleep /\ answer = Asleep /\ down = Asleep /\ linked = Asleep /\ conn = Asleep
    /\ captured = Asleep /\ serving = Asleep /\ keys = Asleep /\ turnRows = Asleep
    /\ exits = Asleep /\ did = Asleep
SettingsIdle ==
    /\ config = Asleep /\ profile = Asleep /\ agent = Asleep /\ turn = Asleep
    /\ clock = Asleep
ProjectsIdle ==
    /\ saved = Asleep /\ local = Asleep /\ owner = Asleep /\ pin = Asleep /\ moves = Asleep
    /\ late = Asleep /\ drafts = Asleep /\ changes = Asleep /\ reg = Asleep

AgentdInit ==
    /\ part \in {"orderly", "failing", "wire", "settings", "projects"}
    /\ Init
    /\ IF part = "failing" THEN F!Init ELSE FailingIdle
    /\ IF part = "wire" THEN W!Init ELSE ConnectionsIdle
    /\ IF part = "settings" THEN S!Init ELSE SettingsIdle
    /\ IF part = "projects" THEN J!Init ELSE ProjectsIdle

AgentdNext ==
    \/ part = "orderly" /\ Next /\ UNCHANGED <<part, failing, connections, settings, projects>>
    \/ part = "failing" /\ F!Next /\ UNCHANGED <<part, vars, connections, settings, projects>>
    \/ part = "wire" /\ W!Next /\ UNCHANGED <<part, vars, failing, settings, projects>>
    \/ part = "settings" /\ S!Next /\ UNCHANGED <<part, vars, failing, connections, projects>>
    \/ part = "projects" /\ J!Next /\ UNCHANGED <<part, vars, failing, connections, settings>>

agentdVars == <<part, vars, failing, connections, settings, projects>>
AgentdSpec == AgentdInit /\ [][AgentdNext]_agentdVars

\* A daemon that is stopped for replacement has no work, in order or not.
ReplacementNeverCutsWork ==
    ReplacementSparesWork /\ (part = "failing" => F!ReplacementSparesWork)
\* What a caller of the daemon is told is of its own call and true of the turns it asked about.
AnswersAreTrue == part = "wire" => W!AnswersAreTrue
\* A turn has the limits, defaults and signature of its own, whatever is edited meanwhile.
SettingsAreOfTheTurn == part = "settings" => S!SettingsAreOfTheTurn
\* A registration takes no thread from where it may not, and what it reports is so.
RegistrationsAreTrue == part = "projects" => J!RegistrationsAreTrue
===============================================================================
