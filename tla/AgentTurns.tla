------------------------------ MODULE AgentTurns ------------------------------
(***************************************************************************)
(* The life of an agent's turns in the daemon: local-agent-manager.ts over *)
(* the agent store, the work ledger and the execution claims, all rows of  *)
(* one SQLite file that outlives the daemon process.                       *)
(*                                                                         *)
(* The daemon runs JavaScript: code between two awaits that really wait    *)
(* is not interleaved with other callbacks, but the process may die        *)
(* between any two transactions.  `step' is the handler being run, with a  *)
(* step for each transaction; `Free' says that no handler is being run and *)
(* no settled promise has its reactions outstanding.  Only a handler that  *)
(* waits (for profile files, the queue timer, the provider) lets others    *)
(* run: it is then found in `caller', `phase' or `rpc'.                    *)
(***************************************************************************)
EXTENDS Integers, Sequences

CONSTANTS
    Agents,        \* identities local_agent_sessions may hold
    Tasks,         \* task keys callers start agents with
    Continues,     \* request keys callers continue agents with
    Controls,      \* request keys of control requests
    Callers        \* continue() calls that may be waiting at the same time

ASSUME KeysAssumption == Tasks \intersect Continues = {}

Keys == Tasks \union Continues

VARIABLES
    \* Rows, kept by crashes and restarts.
    status,      \* local_agent_sessions.status; "lost" is error with DAEMON_UNAVAILABLE
    control,     \* local_agent_sessions.control_state
    known,       \* agents whose provider_session_id is set
    turns,       \* local_agent_turns of each agent, oldest first
    execution,   \* status of the agent's latest row of console_executions
    taskKeys,    \* agent_task_keys: keys in use
    continueKeys,\* agent_continue_keys: keys in use, for each agent
    request,     \* agent_control_requests
    claims,      \* agents with a row in execution_claims
    \* The daemon process.
    mode,        \* down, ledger (only the ledger is reconciled), up, closing
    step,        \* the handler being run
    caller,      \* the continue() calls waiting for profiles
    phase,       \* where the tracked turn of an agent stands (activeTurns)
    held,        \* agents whose claim this daemon took
    ready,       \* agents whose tracked turn has its control handle
    rpc,         \* the control request to the provider that awaits its end
    \* The world.
    orphan,      \* agents whose provider outlived the daemon that began it
    preBoot,     \* agents whose claim and latest execution precede the last boot
    sent         \* history: control requests the provider was sent, by key

keys == <<taskKeys, continueKeys, request>>
rows == <<status, control, known, turns, execution, keys, claims>>
loop == <<mode, step, caller>>
handles == <<held, ready, rpc>>
process == <<loop, phase, handles>>
world == <<orphan, preBoot, sent>>
vars == <<rows, process, world>>

Pending == {"starting", "queued", "running"}
Settled == {"idle", "error", "lost", "stopped"}
ActiveControl == {"devspace_active", "interrupting", "desktop_pending"}
OwnedElsewhere == {"desktop_owned", "reconcile_required"}
ControlActions == {"steer", "interrupt", "takeover", "returnControl"}
Receipts == {"completed", "rejected", "reconcile_required"}
Turns == [key: Keys, status: {"running", "completed", "failed", "stopped"}]

Standing == {"queued", "preparing", "dispatched"}
Outstanding == {"aborted", "refused", "ended", "accounted"}

Away == [at |-> "away"]
Idle == [at |-> "free"]
BeginSteps == {"account", "admit", "claimed", "ticketed", "queue", "unaccount", "refuse"}
NoRequest == [status |-> "none"]
NoRpc == [at |-> "none"]

TypeOK ==
    /\ status \in [Agents -> Pending \union Settled \union {"none"}]
    /\ control \in [Agents -> ActiveControl \union OwnedElsewhere \union {"terminal"}]
    /\ known \subseteq Agents
    /\ turns \in [Agents -> Seq(Turns)]
    /\ execution \in [Agents -> {"none", "queued", "running", "completed", "failed",
                                 "cancelled", "reconciliation_required"}]
    /\ taskKeys \subseteq Tasks
    /\ continueKeys \in [Agents -> SUBSET Continues]
    /\ request \in [Controls -> {NoRequest} \union
           [status: Receipts \union {"pending"}, agent: Agents, action: ControlActions]]
    /\ claims \subseteq Agents
    /\ mode \in {"down", "ledger", "up", "closing"}
    /\ step \in {Idle} \union [at: BeginSteps, agent: Agents, key: Keys]
           \union [at: {"control"}, key: Controls, exact: BOOLEAN]
           \union [at: {"receipt"}, key: Controls, outcome: Receipts]
    /\ caller \in [Callers -> {Away} \union [at: {"profiles"}, agent: Agents, key: Continues]]
    /\ phase \in [Agents -> Standing \union Outstanding \union {"none"}]
    /\ held \subseteq claims
    /\ ready \subseteq Agents
    /\ rpc \in [Controls -> {NoRpc} \union [at: {"sent", "acked"}, turn: Nat]]
    /\ orphan \subseteq Agents
    /\ preBoot \subseteq claims
    /\ sent \in [Controls -> Nat]

Init ==
    /\ status = [a \in Agents |-> "none"]
    /\ control = [a \in Agents |-> "terminal"]
    /\ known = {} /\ taskKeys = {} /\ claims = {}
    /\ turns = [a \in Agents |-> <<>>]
    /\ execution = [a \in Agents |-> "none"]
    /\ continueKeys = [a \in Agents |-> {}]
    /\ request = [x \in Controls |-> NoRequest]
    /\ mode = "down" /\ step = Idle
    /\ caller = [c \in Callers |-> Away]
    /\ phase = [a \in Agents |-> "none"]
    /\ held = {} /\ ready = {}
    /\ rpc = [x \in Controls |-> NoRpc]
    /\ orphan = {} /\ preBoot = {}
    /\ sent = [x \in Controls |-> 0]

Running == mode \in {"up", "closing"}
Accepting == mode = "up"

OverOnceAcknowledged(x) == TRUE  \* mutant: the acknowledgement is taken for the end
\* The turn a control request acts on has left activeTurns, or was replaced.
TurnOver(x) ==
    LET a == request[x].agent IN phase[a] = "none" \/ Len(turns[a]) # rpc[x].turn

Free ==
    /\ Running
    /\ step = Idle
    /\ \A a \in Agents : phase[a] \notin Outstanding
    /\ \A x \in Controls : rpc[x].at = "acked" => ~TurnOver(x)

EndTurn(a, outcome) == turns' = [turns EXCEPT ![a][Len(turns[a])].status = outcome]
At(a, k, where) == [at |-> where, agent |-> a, key |-> k]

-------------------------------------------------------------------------------
(***************************************************************************)
(* start(): one transaction reserves the task key and names the agent, a   *)
(* new one or a related session that has settled; begin() follows in the   *)
(* same callback.  A key in use returns the agent it named and changes     *)
(* nothing.  A request without a key is one whose key nobody repeats.      *)
(***************************************************************************)
ResumesForAnyOwner(a) == a \in known /\ status[a] \in Settled  \* mutant
Resumable(a) == a \in known /\ status[a] \in Settled /\ control[a] \notin OwnedElsewhere

Unused(t) == t \notin taskKeys

Start(a, t) ==
    /\ Free
    /\ Unused(t)
    /\ status[a] = "none" \/ Resumable(a)
    /\ taskKeys' = taskKeys \union {t}
    /\ status' = [status EXCEPT ![a] = "starting"]
    /\ step' = At(a, t, "account")
    /\ UNCHANGED <<control, known, turns, execution, continueKeys, request, claims,
                   mode, caller, phase, handles, world>>

(***************************************************************************)
(* continue(): reads the record, looks at its control state, waits for the *)
(* profile files, and only then reserves the request key.                  *)
(***************************************************************************)
ContinueReads(c, a, k) ==
    /\ Free /\ Accepting
    /\ caller[c] = Away
    /\ status[a] # "none"
    /\ control[a] \notin OwnedElsewhere
    /\ caller' = [caller EXCEPT ![c] = At(a, k, "profiles")]
    /\ UNCHANGED <<rows, mode, step, phase, handles, world>>

IdleIsEnough(a, k) == status[a] \notin Pending  \* mutant: keys are not compared
\* reserveContinueResult(): the key is new and the session has no pending work.
Reservable(a, k) == k \notin continueKeys[a] /\ status[a] \notin Pending

ContinueReserves(c) ==
    LET a == caller[c].agent
        k == caller[c].key
    IN  /\ Free
        /\ caller[c] # Away
        /\ Reservable(a, k)
        /\ continueKeys' = [continueKeys EXCEPT ![a] = @ \union {k}]
        /\ status' = [status EXCEPT ![a] = "starting"]
        /\ step' = At(a, k, "account")
        /\ caller' = [caller EXCEPT ![c] = Away]
        /\ UNCHANGED <<control, known, turns, execution, taskKeys, request, claims,
                       mode, phase, handles, world>>

\* The profiles cannot be loaded, the key replays or the session is busy.
ContinueReturns(c) ==
    /\ Free
    /\ caller[c] # Away
    /\ caller' = [caller EXCEPT ![c] = Away]
    /\ UNCHANGED <<rows, mode, step, phase, handles, world>>

(***************************************************************************)
(* begin(), one transaction at a time.  Its first checks (control owner of *)
(* the record it was handed, no tracked turn) cannot fail here: callers    *)
(* made the first, and status \notin Pending excludes the second, which    *)
(* StatusFollowsTurn states.                                               *)
(***************************************************************************)
Doing(where) == step.at = where

\* beginExecution()
Account ==
    /\ Running /\ Doing("account")
    /\ execution' = [execution EXCEPT ![step.agent] = "queued"]
    /\ preBoot' = preBoot \ {step.agent}
    /\ step' = [step EXCEPT !.at = "admit"]
    /\ UNCHANGED <<status, control, known, turns, keys, claims, mode, caller,
                   phase, handles, orphan, sent>>

\* The thread is archived, or the work run has closed.
AccountRefuses ==
    /\ Running /\ Doing("account")
    /\ step' = [step EXCEPT !.at = "refuse"]
    /\ UNCHANGED <<rows, mode, caller, phase, handles, world>>

\* execution.acquire(); what other claims and waiters allow is left open, but
\* a claim of the same agent always conflicts.
Admit ==
    /\ Running /\ Doing("admit")
    /\ step.agent \notin claims
    /\ claims' = claims \union {step.agent}
    /\ held' = held \union {step.agent}
    /\ step' = [step EXCEPT !.at = "claimed"]
    /\ UNCHANGED <<status, control, known, turns, execution, keys, mode, caller,
                   phase, ready, rpc, world>>

\* execution.enqueue(), after a conflict
Enqueue ==
    /\ Running /\ Doing("admit")
    /\ step' = [step EXCEPT !.at = "ticketed"]
    /\ UNCHANGED <<rows, mode, caller, phase, handles, world>>

\* A conflict with queueing off, or the queue is full.
AdmissionFails ==
    /\ Running /\ Doing("admit")
    /\ status' = [status EXCEPT ![step.agent] = "error"]
    /\ step' = [step EXCEPT !.at = "unaccount"]
    /\ UNCHANGED <<control, known, turns, execution, keys, claims, mode, caller,
                   phase, handles, world>>

Unaccount ==
    /\ Running /\ Doing("unaccount")
    /\ execution' = [execution EXCEPT ![step.agent] = "failed"]
    /\ step' = [step EXCEPT !.at = "refuse"]
    /\ UNCHANGED <<status, control, known, turns, keys, claims, mode, caller,
                   phase, handles, world>>

RefuseQuietly ==  \* mutant: the session is left starting
    /\ Running /\ Doing("refuse")
    /\ step' = Idle
    /\ UNCHANGED <<rows, mode, caller, phase, handles, world>>

\* start() or continue() marks the agent whose begin() failed.
Refuse ==
    /\ Running /\ Doing("refuse")
    /\ status' = [status EXCEPT ![step.agent] = "stopped"]
    /\ step' = Idle
    /\ UNCHANGED <<control, known, turns, execution, keys, claims, mode, caller,
                   phase, handles, world>>

\* beginTurn().  The turn goes on to runTurn() or to the queue in the same
\* callback, unless close() began after the request was accepted.
BeginTurn ==
    LET a == step.agent IN
    /\ Running /\ step.at \in {"claimed", "ticketed"}
    /\ status[a] # "running"
    /\ status' = [status EXCEPT ![a] = "running"]
    /\ turns' = [turns EXCEPT ![a] = Append(@, [key |-> step.key, status |-> "running"])]
    /\ phase' = [phase EXCEPT ![a] = IF ~Accepting THEN "refused"
                                     ELSE IF Doing("claimed") THEN "preparing" ELSE "queued"]
    /\ step' = IF Doing("claimed") THEN Idle ELSE [step EXCEPT !.at = "queue"]
    /\ UNCHANGED <<control, known, execution, keys, claims, mode, caller, handles,
                   world>>

Queue ==
    /\ Running /\ Doing("queue")
    /\ status' = [status EXCEPT ![step.agent] = "queued"]
    /\ step' = Idle
    /\ UNCHANGED <<control, known, turns, execution, keys, claims, mode, caller,
                   phase, handles, world>>

-------------------------------------------------------------------------------
(***************************************************************************)
(* A queued turn polls its ticket until it is admitted, expires, or is     *)
(* cancelled; every way out but admission finishes the turn without the    *)
(* provider.                                                               *)
(***************************************************************************)
QueueAdmits(a) ==
    /\ Free /\ Accepting
    /\ phase[a] = "queued"
    /\ a \notin claims
    /\ claims' = claims \union {a}
    /\ held' = held \union {a}
    /\ status' = [status EXCEPT ![a] = "running"]
    /\ phase' = [phase EXCEPT ![a] = "preparing"]
    /\ UNCHANGED <<control, known, turns, execution, keys, loop, ready, rpc, world>>

Finish(a, outcome, after) ==
    /\ EndTurn(a, outcome)
    /\ status' = [status EXCEPT ![a] = after]
    /\ phase' = [phase EXCEPT ![a] = "ended"]

GiveUpWithOutcome(a) ==  \* mutant: the session gets the outcome of the turn
    /\ Free
    /\ phase[a] = "queued"
    /\ Finish(a, "failed", "failed")
    /\ UNCHANGED <<control, known, execution, keys, claims, loop, handles, world>>

NeverExpires(a) == FALSE  \* mutant: a ticket without expires_at_ms

\* The ticket expired.
QueueGivesUp(a) ==
    /\ Free
    /\ phase[a] = "queued"
    /\ Finish(a, "failed", "error")
    /\ UNCHANGED <<control, known, execution, keys, claims, loop, handles, world>>

\* cancelQueued()
QueueCancelled(a) ==
    /\ Free
    /\ phase[a] = "queued"
    /\ Finish(a, "stopped", "stopped")
    /\ UNCHANGED <<control, known, execution, keys, claims, loop, handles, world>>

\* close() aborted the queue, or had begun before the turn.
LeaveQueue(a) ==
    /\ Running /\ step = Idle
    /\ \/ phase[a] = "aborted" /\ Finish(a, "stopped", "stopped")
       \/ phase[a] = "refused" /\ Finish(a, "failed", "error")
    /\ UNCHANGED <<control, known, execution, keys, claims, loop, handles, world>>

(***************************************************************************)
(* runTurn(): loads the profiles, then hands the turn to the runtime pool, *)
(* whose callbacks persist what the provider reports.                      *)
(***************************************************************************)
Dispatch(a) ==
    /\ Free /\ Accepting
    /\ phase[a] = "preparing"
    /\ phase' = [phase EXCEPT ![a] = "dispatched"]
    /\ UNCHANGED <<rows, loop, handles, world>>

PreparationFails(a) ==
    /\ Free
    /\ phase[a] = "preparing"
    /\ Finish(a, "failed", "error")
    /\ UNCHANGED <<control, known, execution, keys, claims, loop, handles, world>>

\* onSessionId
SessionReported(a) ==
    /\ Free
    /\ phase[a] = "dispatched" /\ execution[a] = "queued" /\ a \notin known
    /\ known' = known \union {a}
    /\ UNCHANGED <<status, control, turns, execution, keys, claims, process, world>>

\* onRequest: the provider is about to be sent the turn
RequestStarted(a) ==
    /\ Free
    /\ phase[a] = "dispatched" /\ execution[a] = "queued" /\ a \in known
    /\ execution' = [execution EXCEPT ![a] = "running"]
    /\ UNCHANGED <<status, control, known, turns, keys, claims, process, world>>

\* onControlReady, once the provider has named its turn
ControlReady(a) ==
    /\ Free
    /\ phase[a] = "dispatched" /\ execution[a] = "running" /\ a \notin ready
    /\ ready' = ready \union {a}
    /\ control' = [control EXCEPT ![a] = "devspace_active"]
    /\ UNCHANGED <<status, known, turns, execution, keys, claims, loop, phase,
                   held, rpc, world>>

ProviderCompletes(a) ==
    /\ Free
    /\ phase[a] = "dispatched" /\ execution[a] = "running"
    /\ Finish(a, "completed", "idle")
    /\ UNCHANGED <<control, known, execution, keys, claims, loop, handles, world>>

\* The turn is rejected, by the provider or because turn/start was not answered
\* in time.
ProviderFails(a) ==
    /\ Free
    /\ phase[a] = "dispatched"
    /\ Finish(a, "failed", "error")
    /\ UNCHANGED <<control, known, execution, keys, claims, loop, handles, world>>

\* The finally block of begin(): endExecution(), then the control state and
\* the claim.
EndExecution(a) ==
    /\ Running /\ step = Idle
    /\ phase[a] = "ended"
    /\ execution' = [execution EXCEPT ![a] =
           CASE status[a] = "idle" -> "completed"
             [] status[a] = "stopped" -> "cancelled"
             [] OTHER -> "failed"]
    /\ phase' = [phase EXCEPT ![a] = "accounted"]
    /\ UNCHANGED <<status, control, known, turns, keys, claims, loop, handles,
                   world>>

LetControlGo(a) ==
    /\ Running /\ step = Idle
    /\ phase[a] = "accounted"
    /\ control[a] \in ActiveControl
    /\ control' = [control EXCEPT ![a] = "terminal"]
    /\ UNCHANGED <<status, known, turns, execution, keys, claims, process, world>>

LetGo(a) ==
    /\ Running /\ step = Idle
    /\ phase[a] = "accounted"
    /\ control[a] \notin ActiveControl
    /\ claims' = claims \ (held \intersect {a})
    /\ held' = held \ {a}
    /\ phase' = [phase EXCEPT ![a] = "none"]
    /\ ready' = ready \ {a}
    /\ UNCHANGED <<status, control, known, turns, execution, keys, loop, rpc, world>>

-------------------------------------------------------------------------------
(***************************************************************************)
(* control().  The request key is reserved first, and with it the promise  *)
(* not to repeat what it asks; `exact' says whether the caller named the   *)
(* work run and the provider turn that are current.                        *)
(***************************************************************************)
NotAnswered(x) == request[x].status \notin Receipts                  \* mutant
NotCompleted(x) == request[x].status \notin {"pending", "completed"}  \* mutant
Unasked(x) == request[x] = NoRequest

ControlReserves(x, a, action, exact) ==
    /\ Free /\ Accepting
    /\ status[a] # "none"
    /\ Unasked(x)
    /\ request' = [request EXCEPT ![x] = [status |-> "pending", agent |-> a, action |-> action]]
    /\ step' = [at |-> "control", key |-> x, exact |-> exact]
    /\ UNCHANGED <<status, control, known, turns, execution, taskKeys,
                   continueKeys, claims, mode, caller, phase, handles, world>>

Allowed(a, action) ==
    IF action = "returnControl"
      THEN control[a] = "desktop_owned" /\ phase[a] = "none" /\ a \in known
      ELSE step.exact /\ a \in ready /\ a \in known /\ control[a] \notin OwnedElsewhere

Receipt(x, outcome) == [at |-> "receipt", key |-> x, outcome |-> outcome]

ControlRejected ==
    /\ Running /\ Doing("control")
    /\ LET r == request[step.key] IN ~Allowed(r.agent, r.action)
    /\ step' = Receipt(step.key, "rejected")
    /\ UNCHANGED <<rows, mode, caller, phase, handles, world>>

ControlReturned ==
    LET r == request[step.key] IN
    /\ Running /\ Doing("control")
    /\ r.action = "returnControl" /\ Allowed(r.agent, r.action)
    /\ control' = [control EXCEPT ![r.agent] = "terminal"]
    /\ step' = Receipt(step.key, "completed")
    /\ UNCHANGED <<status, known, turns, execution, keys, claims, mode, caller,
                   phase, handles, world>>

\* control.steer() or control.interrupt() sends the provider a request.
ControlSent ==
    LET x == step.key
        r == request[x]
    IN  /\ Running /\ Doing("control")
        /\ r.action # "returnControl" /\ Allowed(r.agent, r.action)
        /\ control' = [control EXCEPT ![r.agent] =
               CASE r.action = "steer" -> @
                 [] r.action = "takeover" -> "desktop_pending"
                 [] OTHER -> "interrupting"]
        /\ rpc' = [rpc EXCEPT ![x] = [at |-> "sent", turn |-> Len(turns[r.agent])]]
        /\ sent' = [sent EXCEPT ![x] = @ + 1]
        /\ step' = Idle
        /\ UNCHANGED <<status, known, turns, execution, keys, claims, mode, caller,
                       phase, held, ready, orphan, preBoot>>

SteerAccepted(x) ==
    /\ Free
    /\ rpc[x].at = "sent" /\ request[x].action = "steer"
    /\ control' = [control EXCEPT ![request[x].agent] = "devspace_active"]
    /\ rpc' = [rpc EXCEPT ![x] = NoRpc]
    /\ step' = Receipt(x, "completed")
    /\ UNCHANGED <<status, known, turns, execution, keys, claims, mode, caller,
                   phase, held, ready, world>>

\* The interruption is acknowledged; the turn has yet to end.
InterruptAcknowledged(x) ==
    /\ Free
    /\ rpc[x].at = "sent" /\ request[x].action # "steer"
    /\ rpc' = [rpc EXCEPT ![x].at = "acked"]
    /\ UNCHANGED <<rows, loop, phase, held, ready, world>>

InterruptCompletes(x) ==
    /\ Running /\ step = Idle
    /\ rpc[x].at = "acked" /\ TurnOver(x)
    /\ control' = [control EXCEPT ![request[x].agent] =
           IF request[x].action = "takeover" THEN "desktop_owned" ELSE "terminal"]
    /\ rpc' = [rpc EXCEPT ![x] = NoRpc]
    /\ step' = Receipt(x, "completed")
    /\ UNCHANGED <<status, known, turns, execution, keys, claims, mode, caller,
                   phase, held, ready, world>>

AcknowledgedWaits(x) == rpc[x].at = "sent"  \* mutant: no timer after the acknowledgement
Unconfirmed(x) == rpc[x] # NoRpc

\* The request fails or is not answered within 30 seconds, or the turn does
\* not end within 30 seconds of the acknowledgement.
ControlUnknown(x) ==
    /\ Free
    /\ Unconfirmed(x)
    /\ control' = [control EXCEPT ![request[x].agent] = "reconcile_required"]
    /\ rpc' = [rpc EXCEPT ![x] = NoRpc]
    /\ step' = Receipt(x, "reconcile_required")
    /\ UNCHANGED <<status, known, turns, execution, keys, claims, mode, caller,
                   phase, held, ready, world>>

\* completeControlRequest()
ReceiptSaved ==
    /\ Running /\ Doing("receipt")
    /\ request' = [request EXCEPT ![step.key].status = step.outcome]
    /\ step' = Idle
    /\ UNCHANGED <<status, control, known, turns, execution, taskKeys,
                   continueKeys, claims, mode, caller, phase, handles, world>>

-------------------------------------------------------------------------------
(***************************************************************************)
(* close(), the end of the process, and the start of the next daemon,      *)
(* which reconciles the ledger and then the store before it serves.        *)
(***************************************************************************)
CloseStarts ==
    /\ Free /\ Accepting
    /\ mode' = "closing"
    /\ phase' = [a \in Agents |-> IF phase[a] = "queued" THEN "aborted" ELSE phase[a]]
    /\ UNCHANGED <<rows, step, caller, handles, world>>

ClosesIdleRuntimes(a) ==  \* mutant: a provider at work is waited for
    mode = "closing" /\ execution[a] = "queued" /\ ProviderFails(a)
\* pool.close() ends the runtime, and with it whatever turn it has.
PoolCloses(a) == mode = "closing" /\ ProviderFails(a)

Stop ==
    /\ mode' = "down" /\ step' = Idle
    /\ caller' = [c \in Callers |-> Away]
    /\ phase' = [a \in Agents |-> "none"]
    /\ held' = {} /\ ready' = {}
    /\ rpc' = [x \in Controls |-> NoRpc]

CloseFinishes ==
    /\ Free /\ mode = "closing"
    /\ \A a \in Agents : phase[a] = "none"
    /\ Stop
    /\ UNCHANGED <<rows, orphan, preBoot, sent>>

\* The process dies.  A provider it had sent a turn may live on.
Crash ==
    /\ mode # "down"
    /\ Stop
    /\ \E S \in SUBSET {a \in Agents : phase[a] = "dispatched"} : orphan' = orphan \union S
    /\ UNCHANGED <<rows, preBoot, sent>>

OrphanEnds(a) ==
    /\ a \in orphan
    /\ orphan' = orphan \ {a}
    /\ UNCHANGED <<rows, process, preBoot, sent>>

\* The machine restarts, and no process survives.
Reboot ==
    /\ Stop
    /\ orphan' = {}
    /\ preBoot' = claims
    /\ UNCHANGED <<rows, sent>>

\* ledger.reconcileInterruptedExecutions()
ReconcileLedger ==
    /\ mode = "down"
    /\ mode' = "ledger"
    /\ execution' = [a \in Agents |-> IF execution[a] \in {"queued", "running"}
                                        THEN "reconciliation_required" ELSE execution[a]]
    /\ UNCHANGED <<status, control, known, turns, keys, claims, step, caller,
                   phase, handles, world>>

FailRunning(s) == [i \in DOMAIN s |-> IF s[i].status = "running"
                                        THEN [s[i] EXCEPT !.status = "failed"] ELSE s[i]]

\* store.reconcileActiveRuns()
ReconcileStore ==
    /\ mode = "ledger"
    /\ mode' = "up"
    /\ control' = [a \in Agents |-> IF control[a] \in ActiveControl
                                      THEN "reconcile_required" ELSE control[a]]
    /\ turns' = [a \in Agents |-> FailRunning(turns[a])]
    /\ status' = [a \in Agents |-> IF status[a] \in Pending THEN "lost" ELSE status[a]]
    /\ UNCHANGED <<known, execution, keys, claims, step, caller, phase, handles,
                   world>>

OfLastBoot(a) == a \in claims  \* mutant: any claim of a lost turn
BeforeBoot(a) == a \in preBoot

\* scripts/recover-previous-boot-claims.mjs, run by the owner
RecoverClaim(a) ==
    /\ BeforeBoot(a)
    /\ status[a] = "lost"
    /\ execution[a] = "reconciliation_required"
    /\ claims' = claims \ {a}
    /\ preBoot' = preBoot \ {a}
    /\ UNCHANGED <<status, control, known, turns, execution, keys, process, orphan,
                   sent>>

-------------------------------------------------------------------------------
Begins ==
    \/ Account \/ AccountRefuses \/ Admit \/ Enqueue \/ AdmissionFails
    \/ Unaccount \/ Refuse \/ BeginTurn \/ Queue

Requests ==
    \/ \E a \in Agents, t \in Tasks : Start(a, t)
    \/ \E c \in Callers : \/ \E a \in Agents, k \in Continues : ContinueReads(c, a, k)
                         \/ ContinueReserves(c)
                         \/ ContinueReturns(c)

TurnStep(a) ==
    \/ QueueAdmits(a) \/ QueueGivesUp(a) \/ QueueCancelled(a) \/ LeaveQueue(a)
    \/ Dispatch(a) \/ PreparationFails(a)
    \/ SessionReported(a) \/ RequestStarted(a) \/ ControlReady(a)
    \/ ProviderCompletes(a) \/ ProviderFails(a)
    \/ EndExecution(a) \/ LetControlGo(a) \/ LetGo(a)

ControlStep(x) ==
    \/ \E a \in Agents, action \in ControlActions, exact \in BOOLEAN :
          ControlReserves(x, a, action, exact)
    \/ SteerAccepted(x) \/ InterruptAcknowledged(x)
    \/ InterruptCompletes(x) \/ ControlUnknown(x)

ControlDecides == ControlRejected \/ ControlReturned \/ ControlSent \/ ReceiptSaved

Daemon ==
    \/ CloseStarts \/ CloseFinishes \/ Crash \/ Reboot
    \/ ReconcileLedger \/ ReconcileStore
    \/ \E a \in Agents : PoolCloses(a) \/ OrphanEnds(a) \/ RecoverClaim(a)

Next ==
    \/ Begins
    \/ Requests
    \/ \E a \in Agents : TurnStep(a)
    \/ \E x \in Controls : ControlStep(x)
    \/ ControlDecides
    \/ Daemon

Spec == Init /\ [][Next]_vars

\* Transactions complete, settled promises run their reactions, and the timers
\* of the code fire: the ticket's expiry, the 30 seconds of a control request,
\* the pool's closing of runtimes.  Nothing is assumed of providers, callers or
\* the restart of a daemon.
Fairness ==
    /\ WF_vars(Begins) /\ WF_vars(ControlDecides)
    /\ \A a \in Agents :
          /\ WF_vars(QueueGivesUp(a)) /\ WF_vars(LeaveQueue(a))
          /\ WF_vars(Dispatch(a) \/ PreparationFails(a))
          /\ WF_vars(EndExecution(a)) /\ WF_vars(LetControlGo(a)) /\ WF_vars(LetGo(a))
          /\ WF_vars(PoolCloses(a))
    /\ \A x \in Controls : WF_vars(InterruptCompletes(x)) /\ WF_vars(ControlUnknown(x))
    /\ WF_vars(CloseFinishes)

FairSpec == Spec /\ Fairness

-------------------------------------------------------------------------------
Tracked(a) == phase[a] \in Standing

\* Between two handlers the rows say what the daemon is doing: the newest turn
\* of an agent, and no other, is running exactly while activeTurns tracks it,
\* the session has pending work exactly then, and so has the ledger's newest
\* execution.  wait() relies on the first, the refusal of a second
\* continuation on the second, the recovery script on the third; each is
\* kept by every way a turn can fail to begin or end.
StatusFollowsTurn ==
    Free => \A a \in Agents :
        /\ \A i \in DOMAIN turns[a] :
              turns[a][i].status = "running" <=> Tracked(a) /\ i = Len(turns[a])
        /\ Tracked(a) => turns[a] # <<>>
        /\ status[a] = "queued" <=> phase[a] = "queued"
        /\ status[a] = "running" <=> phase[a] \in {"preparing", "dispatched"}
        /\ status[a] # "starting"
        /\ execution[a] \in {"queued", "running"} <=> Tracked(a)

\* A provider is sent a turn only under a claim this daemon took, and no
\* provider turn that outlived its daemon is ever joined by a second one of
\* the same agent: the claim it was admitted under outlives the daemon too,
\* and only a reboot, which ends the provider, lets it be recovered.
OrphanIsLeftAlone ==
    [][\A a \in Agents : phase'[a] = "dispatched" /\ phase[a] # "dispatched"
                            => a \in held /\ a \notin orphan]_vars

\* The provider is sent at most one request for a control key, whatever is
\* retried after an unknown result, a crash or a restart.
ControlSentOnce == \A x \in Controls : sent[x] <= 1

\* What a control key was answered is what it will always be answered, and an
\* answered key has no request under way.
ReceiptsAreFinal ==
    [][\A x \in Controls : request[x] # NoRequest /\ request[x].status # "pending"
                              => request'[x] = request[x] /\ rpc'[x] = NoRpc]_vars

\* An interruption or a takeover is confirmed only when the very turn it was
\* aimed at has its outcome on record, not when the provider acknowledges it.
ConfirmationSeesTheEnd ==
    [][\A x \in Controls :
         /\ rpc[x] # NoRpc /\ request[x].action # "steer"
         /\ step'.at = "receipt" /\ step'.key = x /\ step'.outcome = "completed"
         => turns[request[x].agent][rpc[x].turn].status # "running"]_vars

\* A control key gets one answer, and that answer is true.
ReceiptsAreTrue == ReceiptsAreFinal /\ ConfirmationSeesTheEnd

\* Desktop ownership stops new turns: no turn begins while control_state is
\* desktop_owned (docs/project-console.md:37).
DesktopRefusesTurns ==
    [][\A a \in Agents : control[a] = "desktop_owned"
                            => Len(turns'[a]) = Len(turns[a])]_vars

\* close() ends: it closes the pool before it waits for the turns, so it never
\* waits for a provider.
CloseEnds == (mode = "closing") ~> (mode = "down")

\* A queued turn does not wait forever, whatever holds the claims it needs.
QueueSettles == \A a \in Agents : (phase[a] = "queued") ~> (phase[a] # "queued")

\* A control request is answered while the daemon lives, whatever the provider
\* does: with a receipt that says so if the result is unknown.
ControlAnswered ==
    \A x \in Controls :
        rpc[x] # NoRpc ~> (request[x].status # "pending" \/ mode = "down")

\* Whatever providers do, closing ends, queued turns leave the queue and control requests
\* are answered.
TurnsSettle == CloseEnds /\ QueueSettles /\ ControlAnswered

\* Restarts, retries and refusals leave every agent a history that only
\* grows, with one turn at a time and no request run twice.
History == INSTANCE TurnHistory
ImplementsHistory == History!Spec

(***************************************************************************)
(* The inductive invariant under these: what the rows of an agent say at   *)
(* each place where a handler can stop, and what a request key has left.   *)
(***************************************************************************)
Unfinished == Standing \union {"aborted", "refused"}
BeforeTurn == {"account", "admit", "claimed", "ticketed"}
Active == {"queued", "running"}

Beginning(a) == step.at \in BeginSteps /\ step.agent = a

\* A daemon that does not serve yet tracks nothing, and has left no execution active.
DownIsQuiet ==
    ~Running =>
        /\ step = Idle
        /\ caller = [c \in Callers |-> Away]
        /\ phase = [a \in Agents |-> "none"]
        /\ mode = "ledger" => \A a \in Agents : execution[a] \notin Active

OnlyLastRuns ==
    \A a \in Agents : \A i \in DOMAIN turns[a] :
        turns[a][i].status = "running" => i = Len(turns[a])

\* begin() is at work on an agent whose turn is not tracked, until it has the turn's row.
BeginIsAlone(a) ==
    Beginning(a) => phase[a] \in IF step.at = "queue" THEN {"queued", "refused"} ELSE {"none"}

TurnIsPlaced(a) ==
    /\ History!IsRunning(turns[a]) <=> phase[a] \in Unfinished
    /\ phase[a] # "none" => turns[a] # <<>>

StatusIsPlaced(a) ==
    IF Beginning(a)
      THEN /\ step.at \in BeforeTurn => status[a] = "starting"
           /\ step.at = "unaccount" => status[a] = "error"
           /\ step.at = "refuse" => status[a] \in {"starting", "error"}
           /\ step.at = "queue" => status[a] = "running"
      ELSE /\ phase[a] \in {"queued", "aborted"} => status[a] = "queued"
           /\ phase[a] \in {"preparing", "dispatched"} => status[a] = "running"
           /\ phase[a] = "refused" => status[a] \in {"queued", "running"}
           /\ phase[a] \in {"none", "ended", "accounted"} => status[a] \notin Pending

ExecutionIsPlaced(a) ==
    execution[a] \in Active <=>
        \/ phase[a] \in Unfinished \union {"ended"}
        \/ Beginning(a) /\ step.at \in {"admit", "claimed", "ticketed", "unaccount"}

AgentIsPlaced(a) ==
    BeginIsAlone(a) /\ TurnIsPlaced(a) /\ StatusIsPlaced(a) /\ ExecutionIsPlaced(a)

RowsArePlaced == Running => \A a \in Agents : AgentIsPlaced(a)

\* A claim of this daemon is not of before the last boot, and the claim of an orphan is neither.
HeldIsRecent == held \intersect preBoot = {}
OrphansAreClaimed == orphan \subseteq claims \ (held \union preBoot)

ProvidersAreHeld ==
    /\ \A a \in Agents : phase[a] \in {"preparing", "dispatched"} => a \in held
    /\ step.at = "claimed" => step.agent \in held
    /\ \A a \in ready : phase[a] \in {"dispatched", "ended", "accounted"}

\* A control key is with the handler, with the provider or with nobody, and only an open one is
\* with anybody.
ControlIsOpen ==
    /\ step.at \in {"control", "receipt"} =>
          request[step.key].status = "pending" /\ rpc[step.key] = NoRpc
    /\ \A x \in Controls : rpc[x] # NoRpc => request[x].status = "pending"

ControlHasTurn ==
    \A x \in Controls : rpc[x] # NoRpc => rpc[x].turn \in DOMAIN turns[request[x].agent]

SentIsAsked ==
    /\ \A x \in Controls : request[x] = NoRequest => sent[x] = 0
    /\ step.at = "control" => sent[step.key] = 0
    /\ ControlSentOnce

\* A key that named a turn stays used, and the turn that begin() is about to begin is new.
RanKeysAreUsed ==
    \A a \in Agents : \A i \in DOMAIN turns[a] :
        turns[a][i].key \in taskKeys \union continueKeys[a]

BegunKeyIsNew ==
    step.at \in BeforeTurn =>
        /\ step.key \in taskKeys \union continueKeys[step.agent]
        /\ ~History!Ran(step.agent, step.key)

RowInv == DownIsQuiet /\ OnlyLastRuns /\ RowsArePlaced
ClaimInv == HeldIsRecent /\ OrphansAreClaimed /\ ProvidersAreHeld
ControlInv == ControlIsOpen /\ ControlHasTurn /\ SentIsAsked
KeyInv == RanKeysAreUsed /\ BegunKeyIsNew
TurnInv == RowInv /\ ClaimInv /\ ControlInv /\ KeyInv

\* Only an agent that was named has an owner, and only such an agent is asked for control.
NamelessIsUnowned == \A a \in Agents : status[a] = "none" => control[a] = "terminal"

RequestsNameAgents ==
    \A x \in Controls : request[x] # NoRequest => status[request[x].agent] # "none"

\* start() looked at the owner in the transaction that took its key, and nobody changes the
\* owner until its turn has begun.
StartsSeeTheOwner ==
    step.at \in BeforeTurn /\ step.key \in Tasks => control[step.agent] # "desktop_owned"

DesktopInv == NamelessIsUnowned /\ RequestsNameAgents /\ StartsSeeTheOwner
===============================================================================
