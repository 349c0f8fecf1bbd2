------------------------------ MODULE Providers ------------------------------
(***************************************************************************)
(* The pool of provider runtimes and four drivers of it: the sandbox of    *)
(* Pi, Claude, OpenCode, and Grok, Copilot and Cursor over ACP. They run   *)
(* one at a time: `part' names the one that moves, so that their state     *)
(* spaces add up instead of multiplying.                                   *)
(***************************************************************************)
EXTENDS RuntimePool, Sequences, FiniteSets

CONSTANTS
    Asleep,                                                 \* the state of a part that does not move
    Agents,                                                 \* of Pi and OpenCode
    Dirs, Workspace, MaxInits, MaxReleases,                 \* of PiSandbox
    MaxPrompts, MaxQueries, MaxText,                        \* of ClaudeTurns; of AcpTurns too
    MaxChildren, MaxSessions, MaxOpencodePrompts,           \* of OpencodeTurns
    AcpAgents, Providers, Models, Endings, MaxAcpSessions, MaxQueue, MaxNoise   \* of AcpTurns

VARIABLES
    part,
    os, shutdown, piSession, count, releases, promises, init, policy, queue, manager,
    stored, history, query, queries, claudeTurn, claudePrompts, claudeAnswers,
    children, start, ocRuntime, ocTurn, ocStored, ocSessions, ocPrompts,
    provider, resumes, child, acpRuntime, known, turn, session, prompts, pending,
    completed, wire, noise, early, answers

P == INSTANCE PiSandbox WITH session <- piSession
C == INSTANCE ClaudeTurns WITH
        turn <- claudeTurn, prompts <- claudePrompts, answers <- claudeAnswers
O == INSTANCE OpencodeTurns WITH
        runtime <- ocRuntime, sessions <- ocSessions, turn <- ocTurn, prompts <- ocPrompts,
        stored <- ocStored, MaxPrompts <- MaxOpencodePrompts
Acp == INSTANCE AcpTurns WITH
        runtime <- acpRuntime, Agents <- AcpAgents, MaxSessions <- MaxAcpSessions

pi == <<os, shutdown, piSession, count, releases, promises, init, policy, queue, manager>>
claude == <<stored, history, query, queries, claudeTurn, claudePrompts, claudeAnswers>>
opencode == <<children, start, ocRuntime, ocTurn, ocStored, ocSessions, ocPrompts>>
acp == <<provider, resumes, child, acpRuntime, known, turn, session, prompts,
         pending, completed, wire, noise, early, answers>>

\* A part that does not move has no state.
PiIdle ==
    /\ os = Asleep /\ shutdown = Asleep /\ piSession = Asleep /\ count = Asleep
    /\ releases = Asleep /\ promises = Asleep /\ init = Asleep /\ policy = Asleep
    /\ queue = Asleep /\ manager = Asleep
ClaudeIdle ==
    /\ stored = Asleep /\ history = Asleep /\ query = Asleep /\ queries = Asleep
    /\ claudeTurn = Asleep /\ claudePrompts = Asleep /\ claudeAnswers = Asleep
OpencodeIdle ==
    /\ children = Asleep /\ start = Asleep /\ ocRuntime = Asleep /\ ocTurn = Asleep
    /\ ocStored = Asleep /\ ocSessions = Asleep /\ ocPrompts = Asleep
AcpIdle ==
    /\ provider = Asleep /\ resumes = Asleep /\ child = Asleep /\ acpRuntime = Asleep
    /\ known = Asleep /\ turn = Asleep /\ session = Asleep /\ prompts = Asleep
    /\ pending = Asleep /\ completed = Asleep /\ wire = Asleep /\ noise = Asleep
    /\ early = Asleep /\ answers = Asleep

ProvidersInit ==
    /\ part \in {"pool", "pi", "claude", "opencode", "acp"}
    /\ Init
    /\ IF part = "pi" THEN P!Init ELSE PiIdle
    /\ IF part = "claude" THEN C!Init ELSE ClaudeIdle
    /\ IF part = "opencode" THEN O!Init ELSE OpencodeIdle
    /\ IF part = "acp" THEN Acp!Init ELSE AcpIdle

ProvidersNext ==
    \/ part = "pool" /\ Next /\ UNCHANGED <<part, pi, claude, opencode, acp>>
    \/ part = "pi" /\ P!Next /\ UNCHANGED <<part, vars, claude, opencode, acp>>
    \/ part = "claude" /\ C!Next /\ UNCHANGED <<part, vars, pi, opencode, acp>>
    \/ part = "opencode" /\ O!Next /\ UNCHANGED <<part, vars, pi, claude, acp>>
    \/ part = "acp" /\ Acp!Next /\ UNCHANGED <<part, vars, pi, claude, opencode>>

providersVars == <<part, vars, pi, claude, opencode, acp>>
ProvidersSpec == ProvidersInit /\ [][ProvidersNext]_providersVars

\* Pi's sandbox has the policy of each command while it runs, and is off when nobody holds it.
SandboxIsShared == part = "pi" => P!SandboxIsShared
\* A turn of Claude gets the answers to its own prompt.
TurnsAreTheirOwn == part = "claude" => C!TurnsAreTheirOwn
\* No server of OpenCode is lost, and each session works for its own agent, one prompt at a time.
OpencodeKeepsItsOwn == part = "opencode" => O!OpencodeKeepsItsOwn
\* A turn over ACP gets the whole answer of its own prompt, and no process is lost.
AcpTurnsAreTheirOwn == part = "acp" => Acp!AcpTurnsAreTheirOwn
===============================================================================
