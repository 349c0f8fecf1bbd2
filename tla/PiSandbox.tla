-------------------------------- MODULE PiSandbox --------------------------------
(***************************************************************************)
(* Pi sessions and the one sandbox that they share: local-agent-pi.ts and  *)
(* local-agent-pi-sandbox.ts.  A session whose turns may not do everything *)
(* holds the sandbox; the last one that lets go resets it.  On Windows the *)
(* sandbox has the policy of one directory at a time, and what touches it  *)
(* waits in a queue; elsewhere a command brings its own policy.            *)
(*                                                                         *)
(* What the file tools do with a path is left out, and so are the tools of *)
(* a turn with full access.  A queued operation is one step up to the      *)
(* command that it runs: nothing but the queue touches the sandbox there.  *)
(***************************************************************************)
EXTENDS Naturals, Sequences, FiniteSets

CONSTANTS Agents, Dirs, Workspace, MaxInits, MaxReleases

VARIABLES
    os,         \* "posix", "win32"
    shutdown,   \* runtimes are closed under their turns only when the daemon ends
    session,    \* per agent: the session, its turn and its command
    count,      \* sandboxSessionCount
    releases,   \* releasePiSandboxSession() calls of the last holder: their steps
    promises,   \* every SandboxManager.initialize(): "going", "ok", "failed"
    init,       \* sandboxInitialization: 0 or a promise
    policy,     \* windowsSandboxWorkspace
    queue,      \* windowsSandboxQueue
    manager     \* SandboxManager: "off", "on", or the directory of its policy

vars == <<os, shutdown, session, count, releases, promises, init, policy, queue, manager>>

NoCommand == [step |-> "none", awaits |-> 0, cwd |-> "off", late |-> FALSE]
NoSession == [known |-> FALSE, mode |-> "full_access", acquired |-> FALSE,
              turn |-> "none", awaits |-> 0, fresh |-> FALSE, command |-> NoCommand]

Init ==
    /\ os \in {"posix", "win32"} /\ shutdown = FALSE
    /\ session = [a \in Agents |-> NoSession]
    /\ count = 0 /\ releases = <<>> /\ promises = <<>> /\ init = 0
    /\ policy = "off" /\ queue = <<>> /\ manager = "off"

Running == {a \in Agents : session[a].command.step # "none"}    \* sandboxCommandCount
Resetting == \E i \in DOMAIN releases : releases[i] = "resetting"

\* finally of withSandboxCommand(): who waits for the last command goes on.
CommandsEnd(these) ==
    releases' = [i \in DOMAIN releases |->
        IF releases[i] = "waiting" /\ these # {} /\ Running \subseteq these THEN "woken" ELSE releases[i]]

(***************************************************************************)
(* acquirePiSandbox(): s is the session with its new turn.                 *)
(***************************************************************************)
Ready == init # 0 /\ promises[init] = "ok"

Ensure ==   \* ensureSandboxInitialized()
    IF init # 0 THEN UNCHANGED <<promises, init>>
    ELSE Len(promises) < MaxInits /\ promises' = Append(promises, "going") /\ init' = Len(promises) + 1

Enter(a, s) ==
    IF s.mode = "full_access" \/ s.acquired
    THEN /\ session' = [session EXCEPT ![a] = [s EXCEPT !.turn = "prompt"]]
         /\ UNCHANGED <<count, promises, init, queue>>
    ELSE /\ count' = count + 1
         /\ IF os = "win32"
            THEN /\ queue' = Append(queue, [op |-> "acquire", of |-> a])
                 /\ session' = [session EXCEPT ![a] = [s EXCEPT !.acquired = TRUE, !.turn = "acquire"]]
                 /\ UNCHANGED <<promises, init>>
            ELSE /\ Ensure /\ UNCHANGED queue
                 /\ session' = [session EXCEPT ![a] =
                       [s EXCEPT !.acquired = TRUE, !.turn = IF Ready THEN "prompt" ELSE "acquire",
                                 !.awaits = IF Ready THEN 0 ELSE init']]

\* createRuntime() and the first turn; a later turn may run in another mode.
BeginTurn(a, mode) ==
    /\ ~ shutdown /\ session[a].turn = "none"
    /\ Enter(a, [session[a] EXCEPT !.known = TRUE, !.mode = mode, !.fresh = ~ session[a].known])
    /\ UNCHANGED <<os, shutdown, releases, policy, manager>>

Acquired(s) == [s EXCEPT !.turn = IF s.known THEN "prompt" ELSE "closed", !.awaits = 0]

\* The catch of acquirePiSandbox(); a session that was being created is disposed of.
NotAcquired(s) ==
    IF s.fresh THEN NoSession ELSE [s EXCEPT !.acquired = FALSE, !.turn = "none", !.awaits = 0]

Uncounted(failed) == count  \* mutant: the count stays after attempts that failed

Counted(failed) == IF count > failed THEN count - failed ELSE 0

\* The initialization ends, and with it whatever waits for it.
Initialized(p) ==
    LET acquiring == {a \in Agents : session[a].turn = "acquire" /\ session[a].awaits = p}
        starting == {a \in Agents : session[a].command.step = "begun" /\ session[a].command.awaits = p}
    IN
    /\ os = "posix" /\ promises[p] = "going"
    /\ \/ /\ promises' = [promises EXCEPT ![p] = "ok"] /\ manager' = "on"
          /\ session' = [a \in Agents |->
                CASE a \in acquiring -> Acquired(session[a])
                  [] a \in starting -> [session[a] EXCEPT !.command.step = "running",
                                                          !.command.late = @ \/ Resetting]
                  [] OTHER -> session[a]]
          /\ UNCHANGED <<init, count, releases>>
       \/ /\ promises' = [promises EXCEPT ![p] = "failed"] /\ init' = 0
          /\ count' = Counted(Cardinality(acquiring)) /\ CommandsEnd(starting)
          /\ session' = [a \in Agents |->
                CASE a \in acquiring -> NotAcquired(session[a])
                  [] a \in starting -> [session[a] EXCEPT !.command = NoCommand]
                  [] OTHER -> session[a]]
          /\ UNCHANGED manager
    /\ UNCHANGED <<os, shutdown, policy, queue>>

EndTurn(a) ==
    /\ session[a].turn \in {"prompt", "closed"} /\ session[a].command.step = "none"
    /\ session' = [session EXCEPT ![a] = IF @.known THEN [@ EXCEPT !.turn = "none", !.fresh = FALSE] ELSE NoSession]
    /\ UNCHANGED <<os, shutdown, count, releases, promises, init, policy, queue, manager>>

(***************************************************************************)
(* A command: withSandboxCommand() around the sandboxed bash operation.    *)
(***************************************************************************)
BeginCommand(a, cwd) ==
    /\ session[a].turn \in {"prompt", "closed"} /\ session[a].mode = "allowed"
    /\ session[a].command.step = "none"
    /\ IF os = "win32"
       THEN /\ queue' = Append(queue, [op |-> "command", of |-> a])
            /\ session' = [session EXCEPT ![a].command =
                  [step |-> "queued", awaits |-> 0, cwd |-> cwd, late |-> FALSE]]
            /\ UNCHANGED <<promises, init>>
       ELSE /\ Ensure /\ UNCHANGED queue
            /\ session' = [session EXCEPT ![a].command =
                  [step |-> IF Ready THEN "running" ELSE "begun", awaits |-> init', cwd |-> cwd, late |-> Resetting]]
    /\ UNCHANGED <<os, shutdown, count, releases, policy, manager>>

\* The child ends, or the turn is aborted, or the time is over.
EndCommand(a) ==
    /\ session[a].command.step = "running"
    /\ session' = [session EXCEPT ![a].command = NoCommand] /\ CommandsEnd({a})
    /\ queue' = IF os = "win32" THEN Tail(queue) ELSE queue
    /\ UNCHANGED <<os, shutdown, count, promises, init, policy, manager>>

(***************************************************************************)
(* enqueueWindowsSandbox(): the head of the queue runs.                    *)
(***************************************************************************)
Ensured(dir) == policy = dir /\ init # 0

EnsureWindows(dir) ==
    IF Ensured(dir) THEN UNCHANGED <<promises, init, policy, manager>>
    ELSE /\ Len(promises) < MaxInits /\ promises' = Append(promises, "ok")
         /\ init' = Len(promises) + 1 /\ policy' = dir /\ manager' = dir

EnsureFails(dir) ==    \* the reset, or the initialization
    /\ ~ Ensured(dir) /\ init' = 0 /\ policy' = "off" /\ UNCHANGED promises
    /\ manager' = "off"

QueuedAcquire(a) ==
    /\ \/ /\ EnsureWindows(Workspace[a]) /\ UNCHANGED count
          /\ session' = [session EXCEPT ![a] = Acquired(@)]
       \/ /\ EnsureFails(Workspace[a]) /\ count' = Counted(1)
          /\ session' = [session EXCEPT ![a] = NotAcquired(@)]
    /\ queue' = Tail(queue) /\ UNCHANGED releases

QueuedCommand(a) ==
    /\ session[a].command.step = "queued" /\ UNCHANGED count
    /\ \/ /\ EnsureWindows(session[a].command.cwd) /\ UNCHANGED <<queue, releases>>
          /\ session' = [session EXCEPT ![a].command.step = "running"]
       \/ /\ EnsureFails(session[a].command.cwd) /\ queue' = Tail(queue) /\ CommandsEnd({a})
          /\ session' = [session EXCEPT ![a].command = NoCommand]

QueuedReset(i) ==
    /\ init' = 0 /\ policy' = "off" /\ manager' = "off" /\ queue' = Tail(queue)
    /\ releases' = [releases EXCEPT ![i] = "done"]
    /\ UNCHANGED <<session, count, promises>>

QueueMoves ==
    /\ queue # <<>>
    /\ \/ Head(queue).op = "acquire" /\ QueuedAcquire(Head(queue).of)
       \/ Head(queue).op = "command" /\ QueuedCommand(Head(queue).of)
       \/ Head(queue).op = "reset" /\ QueuedReset(Head(queue).of)
    /\ UNCHANGED <<os, shutdown>>

(***************************************************************************)
(* close() and releasePiSandboxSession().                                  *)
(***************************************************************************)
Shutdown == ~ shutdown /\ shutdown' = TRUE
            /\ UNCHANGED <<os, session, count, releases, promises, init, policy, queue, manager>>

Closed(s) ==
    IF s.turn = "none" THEN NoSession
    ELSE [s EXCEPT !.known = FALSE, !.acquired = FALSE,
                   !.turn = IF s.turn = "prompt" THEN "closed" ELSE s.turn]

Close(a) ==
    /\ session[a].known /\ (~ shutdown => session[a].turn = "none")
    /\ session[a].turn = "acquire" => ~ session[a].fresh     \* not created yet
    /\ Len(releases) < MaxReleases
    /\ session' = [session EXCEPT ![a] = Closed(@)]
    /\ count' = IF session[a].acquired THEN Counted(1) ELSE count
    /\ releases' = IF ~ session[a].acquired \/ count' # 0 THEN releases
                   ELSE Append(releases, IF Running = {} THEN "woken" ELSE "waiting")
    /\ UNCHANGED <<os, shutdown, promises, init, policy, queue, manager>>

ResumeAtOnce(i) ==  \* mutant: the reset does not wait for its turn in the queue
    /\ releases[i] = "woken"
    /\ IF count # 0 THEN releases' = [releases EXCEPT ![i] = "done"]
       ELSE releases' = [releases EXCEPT ![i] = "resetting"]
    /\ UNCHANGED queue
    /\ UNCHANGED <<os, shutdown, session, count, promises, init, policy, manager>>

Resume(i) ==
    /\ releases[i] = "woken"
    /\ \/ count # 0 /\ releases' = [releases EXCEPT ![i] = "done"] /\ UNCHANGED queue
       \/ /\ count = 0 /\ os = "posix" /\ releases' = [releases EXCEPT ![i] = "resetting"] /\ UNCHANGED queue
       \/ /\ count = 0 /\ os = "win32" /\ releases' = [releases EXCEPT ![i] = "queued"]
          /\ queue' = Append(queue, [op |-> "reset", of |-> i])
    /\ UNCHANGED <<os, shutdown, session, count, promises, init, policy, manager>>

ResetEnds(i) ==
    /\ releases[i] = "resetting" /\ releases' = [releases EXCEPT ![i] = "done"]
    /\ init' = 0 /\ policy' = "off" /\ manager' = "off"
    /\ UNCHANGED <<os, shutdown, session, count, promises, queue>>

Next ==
    \/ QueueMoves \/ Shutdown
    \/ \E a \in Agents :
          \/ \E mode \in {"allowed", "full_access"} : BeginTurn(a, mode)
          \/ \E cwd \in Dirs : BeginCommand(a, cwd)
          \/ EndTurn(a) \/ EndCommand(a) \/ Close(a)
    \/ \E p \in DOMAIN promises : Initialized(p)
    \/ \E i \in DOMAIN releases : Resume(i) \/ ResetEnds(i)

Spec == Init /\ [][Next]_vars

-------------------------------------------------------------------------------
\* On Windows a command runs under the policy of its own directory from its
\* first to its last moment; elsewhere the sandbox is on while a command runs,
\* unless the command began during a reset, or the daemon is ending.
CommandsAreContained ==
    \A a \in Agents : session[a].command.step = "running"
    =>  IF os = "win32" THEN manager = session[a].command.cwd
        ELSE manager = "on" \/ session[a].command.late \/ shutdown

\* The count is the number of sessions that hold the sandbox; only a session
\* closed while it acquires may be taken off twice.
CountIsExact == ~ shutdown => count = Cardinality({a \in Agents : session[a].acquired})

\* When nobody holds the sandbox and nothing is under way, it is off -- but for
\* an initialization that failed while overlapping resets had one more succeed.
SandboxIsGivenBack ==
    /\ ~ shutdown
    /\ \A a \in Agents : session[a].turn = "none" /\ ~ session[a].acquired
    /\ \A i \in DOMAIN releases : releases[i] = "done"
    =>  init = 0 /\ (manager = "off" \/ \E p \in DOMAIN promises : promises[p] = "failed")

\* The sandbox that the sessions of Pi share is on while one of them needs it, and then off.
SandboxIsShared == CommandsAreContained /\ CountIsExact /\ SandboxIsGivenBack

-------------------------------------------------------------------------------
(***************************************************************************)
(* The inductive invariant under these: who holds the sandbox, who waits   *)
(* for it, and who will give it back.                                      *)
(***************************************************************************)
Commands == [step: {"none", "queued", "begun", "running"}, awaits: Nat,
             cwd: Dirs \union {"off"}, late: BOOLEAN]
SessionType == [known: BOOLEAN, mode: {"allowed", "full_access"}, acquired: BOOLEAN,
                turn: {"none", "acquire", "prompt", "closed"}, awaits: Nat, fresh: BOOLEAN,
                command: Commands]
QueueEntries == [op: {"acquire", "command"}, of: Agents] \union [op: {"reset"}, of: Nat]

TypeOK ==
    /\ os \in {"posix", "win32"} /\ shutdown \in BOOLEAN
    /\ session \in [Agents -> SessionType] /\ count \in Nat
    /\ releases \in Seq({"waiting", "woken", "resetting", "queued", "done"})
    /\ promises \in Seq({"going", "ok", "failed"}) /\ init \in {0} \union DOMAIN promises
    /\ queue \in Seq(QueueEntries)

HoldersHold ==
    \A a \in Agents :
        LET s == session[a] IN
        /\ s.turn \in {"none", "acquire"} => s.command.step = "none"
        /\ ~ shutdown =>
             /\ s.turn # "closed" /\ (s.turn # "none" \/ s.acquired => s.known)
             /\ s.turn = "acquire" \/ s.command.step # "none" => s.acquired
             /\ s.turn = "prompt" /\ s.mode = "allowed" => s.acquired

\* An acquisition stands in the queue once, and until it is done.
AcquisitionsAreQueued ==
    \A k \in DOMAIN queue : queue[k].op = "acquire" =>
        /\ session[queue[k].of].turn = "acquire"
        /\ \A l \in DOMAIN queue : queue[l] = queue[k] => l = k

\* Only Windows has a queue, and there a command that runs is at its head.
QueueWaits ==
    IF os = "posix" THEN queue = <<>> ELSE
        /\ init # 0 => manager = policy
        /\ \A i \in DOMAIN releases : releases[i] # "resetting"
        /\ \A a \in Agents : session[a].command.step = "running" =>
             /\ queue # <<>> /\ Head(queue) = [op |-> "command", of |-> a]
             /\ manager = session[a].command.cwd

\* Elsewhere it began, if not during a reset, with the sandbox on and before the next one.
ResetsSpareCommands ==
    os = "posix" =>
        /\ Ready => manager = "on"
        /\ \A a \in Agents : session[a].command.step = "running" =>
             shutdown \/ session[a].command.late \/ (manager = "on" /\ ~ Resetting)

\* Who had the sandbox initialized waits for that.
PromisesAreAwaited ==
    os = "posix" /\ ~ shutdown => \A p \in DOMAIN promises : promises[p] = "going" =>
        \E a \in Agents : \/ session[a].turn = "acquire" /\ session[a].awaits = p
                          \/ session[a].command.step = "begun" /\ session[a].command.awaits = p

\* A sandbox that is on has a holder, or a release that is not done.
SandboxIsHeld ==
    /\ ~ shutdown
    /\ init # 0 \/ (manager # "off" /\ \A p \in DOMAIN promises : promises[p] # "failed")
    => count # 0 \/ \E i \in DOMAIN releases : releases[i] # "done"

SandboxInv ==
    /\ HoldersHold /\ CountIsExact /\ AcquisitionsAreQueued /\ QueueWaits
    /\ ResetsSpareCommands /\ PromisesAreAwaited /\ SandboxIsHeld
===============================================================================
