------------------------------- MODULE OpencodeTurns -------------------------------
(***************************************************************************)
(* The OpenCode driver: local-agent-opencode.ts.  One server process, one  *)
(* runtime and its client serve all agents.  A start allocates a port,     *)
(* gives it back and launches the server on it, up to three times while    *)
(* something else holds the port.  A turn checks the server's health,      *)
(* creates or reuses the agent's session, has it recorded and prompts it.  *)
(*                                                                         *)
(* The server process is external.  That an agent has one turn at a time   *)
(* is what the manager's claim gives the driver.                           *)
(***************************************************************************)
EXTENDS Naturals, Sequences

CONSTANTS Agents,
          MaxChildren, MaxSessions, MaxPrompts    \* bounds

OPENCODE_SERVER_START_ATTEMPTS == 3

VARIABLES
    children,   \* the processes launched: running or exited, and told to stop
    start,      \* the start in progress
    runtime,    \* closed or open, alive, and its server
    turn,       \* per agent: its step, and the server of the runtime it runs on
    stored,     \* per agent: the session its row holds, 0 for none
    sessions,   \* sessions created; bound
    prompts     \* the prompts sent: agent, session, server, state

vars == <<children, start, runtime, turn, stored, sessions, prompts>>

NoTurn == [step |-> "none"]
Idle == [step |-> "none"]
NoRuntime == [open |-> FALSE, alive |-> FALSE, child |-> 0]

Init ==
    /\ children = <<>> /\ start = Idle /\ runtime = NoRuntime
    /\ turn = [a \in Agents |-> NoTurn] /\ stored = [a \in Agents |-> 0]
    /\ sessions = 0 /\ prompts = <<>>

Up(c) == children[c].running
Told(c) == [children EXCEPT ![c].told = TRUE]

(***************************************************************************)
(* startOpencodeServer() and launchOpencodeServer().  An attempt that      *)
(* fails has told its process to stop; another follows only if the port is *)
(* found in use.                                                           *)
(***************************************************************************)
Launch(attempt) ==
    /\ Len(children) < MaxChildren
    /\ children' = Append(children, [running |-> TRUE, told |-> FALSE])
    /\ start' = [step |-> "launching", attempt |-> attempt, child |-> Len(children) + 1]

CreateRuntime ==
    /\ ~runtime.open /\ start = Idle /\ Launch(1)
    /\ UNCHANGED <<runtime, turn, stored, sessions, prompts>>

Listens ==
    /\ start.step = "launching" /\ Up(start.child)
    /\ runtime' = [open |-> TRUE, alive |-> TRUE, child |-> start.child] /\ start' = Idle
    /\ UNCHANGED <<children, turn, stored, sessions, prompts>>

TimesOutQuietly ==  \* mutant: the server of an attempt that times out is not told to stop
    /\ start.step = "launching"
    /\ start' = [start EXCEPT !.step = "probing"]
    /\ children' = IF Up(start.child) THEN children ELSE Told(start.child)
    /\ UNCHANGED <<runtime, turn, stored, sessions, prompts>>

AttemptFails ==
    /\ start.step = "launching"
    /\ start' = [start EXCEPT !.step = "probing"]
    /\ children' = Told(start.child)
    /\ UNCHANGED <<runtime, turn, stored, sessions, prompts>>

Relaunch ==
    /\ start.step = "probing" /\ start.attempt < OPENCODE_SERVER_START_ATTEMPTS
    /\ Launch(start.attempt + 1)
    /\ UNCHANGED <<runtime, turn, stored, sessions, prompts>>

StartFails ==
    /\ start.step = "probing" /\ start' = Idle
    /\ UNCHANGED <<children, runtime, turn, stored, sessions, prompts>>

ChildExits(c) ==
    /\ Up(c) /\ children' = [children EXCEPT ![c].running = FALSE]
    /\ UNCHANGED <<start, runtime, turn, stored, sessions, prompts>>

(***************************************************************************)
(* run().  A turn stays on the runtime it began on, also when the pool has *)
(* closed that and made another.  A health check that fails and a broken   *)
(* transport mark the turn's runtime as dead for every agent, though the   *)
(* server may be up; what the others still wait for goes on.               *)
(***************************************************************************)
OnRuntime(a) == runtime.open /\ turn[a].server = runtime.child
Ends(a) == turn' = [turn EXCEPT ![a] = NoTurn]

BeginTurn(a) ==
    /\ runtime.open /\ runtime.alive /\ turn[a] = NoTurn
    /\ turn' = [turn EXCEPT ![a] = [step |-> "health", server |-> runtime.child]]
    /\ UNCHANGED <<children, start, runtime, stored, sessions, prompts>>

Announces(a, s) == turn' = [turn EXCEPT ![a] = [step |-> "announce", server |-> turn[a].server, session |-> s]]

Healthy(a) ==
    /\ turn[a].step = "health" /\ Up(turn[a].server)
    /\ IF stored[a] # 0 THEN Announces(a, stored[a]) /\ UNCHANGED sessions
       ELSE sessions < MaxSessions /\ sessions' = sessions + 1 /\ Announces(a, sessions + 1)
    /\ UNCHANGED <<children, start, runtime, stored, prompts>>

TransportFails(a) ==
    /\ turn[a].step \in {"health", "prompt"} /\ Ends(a)
    /\ runtime' = IF OnRuntime(a) THEN [runtime EXCEPT !.alive = FALSE] ELSE runtime
    /\ prompts' = [p \in DOMAIN prompts |->
                     IF turn[a].step = "prompt" /\ p = turn[a].prompt /\ prompts[p].state = "working"
                       THEN [prompts[p] EXCEPT !.state = "broken"] ELSE prompts[p]]
    /\ UNCHANGED <<children, start, stored, sessions>>

\* The session could not be created, or the callback refuses it.
TurnFails(a) ==
    /\ turn[a].step \in {"health", "announce"} /\ Ends(a)
    /\ UNCHANGED <<children, start, runtime, stored, sessions, prompts>>

\* An entry of the pool that is closing takes no new session.
Sends(a) ==
    /\ Len(prompts) < MaxPrompts
    /\ stored[a] = 0 => OnRuntime(a)
    /\ prompts' = Append(prompts, [agent |-> a, session |-> turn[a].session, server |-> turn[a].server,
                                   state |-> IF Up(turn[a].server) THEN "working" ELSE "lost"])
    /\ turn' = [turn EXCEPT ![a] = [step |-> "prompt", server |-> turn[a].server,
                                    session |-> turn[a].session, prompt |-> Len(prompts) + 1]]

SendUnrecorded(a) ==  \* mutant: a session that could not be recorded is prompted all the same
    /\ turn[a].step = "announce" /\ Sends(a)
    /\ \E recorded \in BOOLEAN : stored' = IF recorded THEN [stored EXCEPT ![a] = turn[a].session] ELSE stored
    /\ UNCHANGED <<children, start, runtime, sessions>>

Send(a) ==
    /\ turn[a].step = "announce" /\ Sends(a)
    /\ stored' = [stored EXCEPT ![a] = turn[a].session]
    /\ UNCHANGED <<children, start, runtime, sessions>>

\* The answer of the prompt's own request, good or not.
EndTurn(a) ==
    /\ turn[a].step = "prompt" /\ prompts[turn[a].prompt].state = "working" /\ Up(turn[a].server)
    /\ prompts' = [prompts EXCEPT ![turn[a].prompt].state = "answered"] /\ Ends(a)
    /\ UNCHANGED <<children, start, runtime, stored, sessions>>

\* The request is aborted, or fails in a way that is not known for one of the
\* transport's; the server is not told, and works on.
PromptTimesOut(a) ==
    /\ turn[a].step = "prompt" /\ Ends(a)
    /\ prompts' = [prompts EXCEPT ![turn[a].prompt].state = IF @ = "working" THEN "given_up" ELSE @]
    /\ UNCHANGED <<children, start, runtime, stored, sessions>>

(***************************************************************************)
(* close() aborts the prompts in flight and stops the server; turns that   *)
(* are not at their prompt go on.  The pool calls it without turns, for a  *)
(* dead runtime and at a shutdown, whatever turns there are.  (That        *)
(* nothing starts after a shutdown is in RuntimePool.)                     *)
(***************************************************************************)
InFlight(a) == turn[a].step = "prompt" /\ OnRuntime(a)
Close ==
    /\ runtime.open /\ runtime' = NoRuntime /\ children' = Told(runtime.child)
    /\ turn' = [a \in Agents |-> IF InFlight(a) THEN NoTurn ELSE turn[a]]
    /\ prompts' = [p \in DOMAIN prompts |->
                     IF prompts[p].server = runtime.child /\ prompts[p].state = "working"
                       THEN [prompts[p] EXCEPT !.state = "aborted"] ELSE prompts[p]]
    /\ UNCHANGED <<start, stored, sessions>>

Next ==
    \/ CreateRuntime \/ Listens \/ AttemptFails \/ Relaunch \/ StartFails \/ Close
    \/ \E c \in DOMAIN children : ChildExits(c)
    \/ \E a \in Agents :
         \/ BeginTurn(a) \/ Healthy(a) \/ TransportFails(a) \/ TurnFails(a)
         \/ Send(a) \/ EndTurn(a) \/ PromptTimesOut(a)

Spec == Init /\ [][Next]_vars

-------------------------------------------------------------------------------
\* The state is of the shape the code gives it.
Turns ==
    {NoTurn} \union [step: {"health"}, server: Nat] \union [step: {"announce"}, server: Nat, session: Nat]
    \union [step: {"prompt"}, server: Nat, session: Nat, prompt: Nat]

Children == [running: BOOLEAN, told: BOOLEAN]
Starts == {Idle} \union [step: {"launching", "probing"}, child: Nat,
                        attempt: 1 .. OPENCODE_SERVER_START_ATTEMPTS]
Prompts == [agent: Agents, session: Nat, server: Nat,
            state: {"working", "lost", "answered", "given_up", "broken", "aborted"}]

TypeOK ==
    /\ children \in Seq(Children) /\ start \in Starts
    /\ start # Idle => start.child \in DOMAIN children
    /\ runtime \in [open: BOOLEAN, alive: BOOLEAN, child: Nat]
    /\ runtime.open => runtime.child \in DOMAIN children
    /\ turn \in [Agents -> Turns] /\ stored \in [Agents -> Nat] /\ sessions \in Nat
    /\ prompts \in Seq(Prompts)

\* A server that runs and was not told to stop is the runtime's, or is being
\* started.
NoServerIsLost ==
    \A c \in DOMAIN children :
        Up(c) /\ ~children[c].told =>
            \/ runtime.open /\ runtime.child = c
            \/ start.step = "launching" /\ start.child = c

\* A server may be at work on a prompt whose turn waits for it, or whose
\* transport broke, until it is told to stop.
Unstopped(p) == prompts[p].state \in {"working", "broken"} /\ ~children[prompts[p].server].told

\* What a session was asked, the row of its agent leads to; and unless one was
\* given up, a session works on one prompt at a time, its agent's only.
SessionsAreOwned ==
    /\ \A p \in DOMAIN prompts : stored[prompts[p].agent] = prompts[p].session
    /\ \A p, r \in DOMAIN prompts :
         p # r /\ prompts[p].session = prompts[r].session =>
             prompts[p].agent = prompts[r].agent /\ ~(Unstopped(p) /\ Unstopped(r))

OpencodeKeepsItsOwn == NoServerIsLost /\ SessionsAreOwned

(***************************************************************************)
(* What this rests on: who may start, and whose a session is before its    *)
(* agent's row says so.                                                    *)
(***************************************************************************)
OneRuntime == start # Idle => ~runtime.open

\* A turn is on the runtime, or on one that was closed.
TurnsAreServed ==
    \A a \in Agents : turn[a] # NoTurn =>
        /\ turn[a].server \in DOMAIN children
        /\ children[turn[a].server].told \/ OnRuntime(a)

\* A session is made for one agent, which keeps it.
SessionsAreMade ==
    /\ \A a \in Agents : stored[a] <= sessions
    /\ \A a, b \in Agents : a # b /\ stored[a] # 0 => stored[a] # stored[b]
Announced(a) == turn[a].step \in {"announce", "prompt"}
AnnouncedAreOwn ==
    \A a \in Agents : Announced(a) =>
        /\ turn[a].session \in 1 .. sessions
        /\ stored[a] # 0 => turn[a].session = stored[a]
        /\ turn[a].step = "prompt" => stored[a] # 0
        /\ \A b \in Agents \ {a} :
              /\ stored[b] # turn[a].session
              /\ Announced(b) => turn[b].session # turn[a].session

PromptsAreRecorded ==
    \A p \in DOMAIN prompts :
        /\ stored[prompts[p].agent] = prompts[p].session /\ prompts[p].session # 0
        /\ prompts[p].server \in DOMAIN children

\* A prompt works while its turn waits for it.  One whose transport broke may do
\* so while the runtime is dead and not closed, when its agent has no turn.
Awaits(a, p) == turn[a].step = "prompt" /\ turn[a].prompt = p
UnstoppedAreHeld ==
    \A p \in DOMAIN prompts :
        /\ prompts[p].state = "working" => Awaits(prompts[p].agent, p)
        /\ prompts[p].state = "broken" /\ Unstopped(p) =>
              /\ runtime.open /\ ~runtime.alive /\ runtime.child = prompts[p].server
              /\ turn[prompts[p].agent] = NoTurn
TurnsAwaitTheirOwn ==
    \A a \in Agents : turn[a].step = "prompt" =>
        /\ turn[a].prompt \in DOMAIN prompts
        /\ prompts[turn[a].prompt].agent = a /\ prompts[turn[a].prompt].server = turn[a].server
OneUnstopped ==
    \A p, r \in DOMAIN prompts :
        Unstopped(p) /\ Unstopped(r) /\ prompts[p].agent = prompts[r].agent => p = r

OpencodeInv ==
    /\ OneRuntime /\ TurnsAreServed /\ SessionsAreMade /\ AnnouncedAreOwn
    /\ PromptsAreRecorded /\ UnstoppedAreHeld /\ TurnsAwaitTheirOwn /\ OneUnstopped /\ NoServerIsLost
===============================================================================
