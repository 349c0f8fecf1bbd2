------------------------------- MODULE WorkRuns -------------------------------
(***************************************************************************)
(* Work runs and what is done in their name: work-ledger.ts, the tool      *)
(* calls that work-task.ts accounts for, the commands of                   *)
(* process-sessions.ts and the agent turns of local-agent-manager.ts.      *)
(* The server runs commands and tools, the daemon runs turns, and they     *)
(* meet in the tables console_work_runs, console_operations,               *)
(* console_executions, execution_claims and execution_waiters.             *)
(*                                                                         *)
(* A step of the server is what its event loop does between two awaits; a  *)
(* step of the daemon is one transaction, because the server's finish may  *)
(* come between any two of them.  All units work in checkouts that         *)
(* overlap; which checkouts may be used together is ExecutionCoordinator's *)
(* matter.                                                                 *)
(***************************************************************************)
EXTENDS Naturals

CONSTANTS
    Runs,
    Commands,     \* calls of ProcessSessionManager.start()
    Tools,        \* tool calls that go through trackedWork() and a claim
    Turns,        \* agent turns: rows of console_executions
    Agents,
    RunOf,        \* the run a unit names, None for a call that names none
    KeyOf,        \* the request key of a command or tool, or None
    AgentOf,
    Reading,      \* tools that only read, under readWorkspace()
    Pty,          \* commands that ask for a terminal
    Reports,      \* what finish() is called with
    Faults,       \* what else may happen, out of "crash" and "accounting"
    None

Calls == Commands \union Tools
Units == Calls \union Turns

ReportType == [status: {"completed", "failed", "cancelled"},
               acceptance: {"passed", "failed", "not_applicable"},
               evidence: SUBSET {"passed", "failed", "not_run"}]

ASSUME UnitsAssumption ==
    /\ Commands \intersect Tools = {} /\ Calls \intersect Turns = {}
    /\ RunOf \in [Units -> Runs \union {None}] /\ \A e \in Turns : RunOf[e] # None
    /\ AgentOf \in [Turns -> Agents]
    /\ Reading \subseteq Tools /\ Pty \subseteq Commands
    /\ Reports \subseteq ReportType
    /\ None \notin Runs \union Turns /\ Faults \subseteq {"crash", "accounting"}

VARIABLES
    run,        \* status of each work run
    receipt,    \* the report a run was finished with
    op,         \* the operation row of each call: running, or completed or failed
    execution,  \* the execution row of each turn: queued or running, or ended
    latest,     \* newest execution of each agent (latestExecution)
    claims,     \* units with a row in execution_claims
    waiters,    \* turns with a row in execution_waiters
    before,     \* turns whose row was there when a claim was acquired
    at,         \* where the code of each unit stands
    alive,      \* which of the processes "server" and "daemon" are up
    faulted     \* history: a process died or an account could not be closed

ledger == <<run, receipt, op, execution, latest>>
admission == <<claims, waiters, before>>
processes == <<alive, faulted>>
vars == <<ledger, admission, at, processes>>

Finished == {"completed", "failed", "cancelled"}

TypeOK ==
    /\ run \in [Runs -> Finished \union {"none", "running", "reconcile"}]
    /\ receipt \in [Runs -> Reports \union {None}]
    /\ op \in [Calls -> {"none", "running", "ended"}]
    /\ execution \in [Turns -> {"none", "active", "ended", "reconcile"}]
    /\ latest \in [Agents -> Turns \union {None}]
    /\ claims \subseteq Units /\ waiters \subseteq Turns
    /\ before \in [Units -> SUBSET Turns]
    /\ at \in [Units -> {"idle", "importing", "working", "returned", "begun", "waiting",
                         "claimed", "leaving", "ended", "refused", "done", "lost"}]
    /\ alive \subseteq {"server", "daemon"} /\ faulted \in BOOLEAN

Init ==
    /\ run = [r \in Runs |-> "none"] /\ receipt = [r \in Runs |-> None]
    /\ op = [c \in Calls |-> "none"]
    /\ execution = [e \in Turns |-> "none"] /\ latest = [a \in Agents |-> None]
    /\ claims = {} /\ waiters = {} /\ before = [u \in Units |-> {}]
    /\ at = [u \in Units |-> "idle"]
    /\ alive = {"server", "daemon"} /\ faulted = FALSE

Goes(u, place) == at' = [at EXCEPT ![u] = place]
RunIsOpen(u) == RunOf[u] # None => run[RunOf[u]] = "running"

(***************************************************************************)
(* Admission, as far as it matters here: readers share, others exclude.    *)
(***************************************************************************)
Excludes(u, v) == u # v /\ ~(u \in Reading /\ v \in Reading)
Blocked(u) == \E v \in claims \union waiters : Excludes(u, v)

Acquire(u) ==
    /\ claims' = claims \union {u}
    /\ before' = [before EXCEPT ![u] = {e \in Turns : execution[e] # "none"}]
    /\ waiters' = waiters \ {u}

ReleaseClaim(u) == claims' = claims \ {u} /\ UNCHANGED <<waiters, before>>

(***************************************************************************)
(* Runs.                                                                   *)
(***************************************************************************)
Begin(r) ==
    /\ run[r] = "none"
    /\ run' = [run EXCEPT ![r] = "running"]
    /\ UNCHANGED <<receipt, op, execution, latest, admission, at, processes>>

\* A claim or waiter that some other run is proven to own.
IgnoringAge(r, u) ==  \* mutant: the execution may be newer than the claim
    /\ u \in Turns
    /\ LET e == latest[AgentOf[u]] IN
         /\ RunOf[e] # r /\ run[RunOf[e]] = "running" /\ execution[e] = "active"

OwnedElsewhere(r, u) ==
    /\ u \in Turns
    /\ LET e == latest[AgentOf[u]] IN
         /\ RunOf[e] # r /\ run[RunOf[e]] = "running" /\ execution[e] = "active"
         /\ u \in claims => e \in before[u]

OperationsOnly(r) ==  \* mutant: executions are not asked about
    \/ \E c \in Calls : RunOf[c] = r /\ op[c] = "running"
    \/ \E u \in claims \union waiters : ~OwnedElsewhere(r, u)

FinishBlocked(r) ==
    \/ \E e \in Turns : RunOf[e] = r /\ execution[e] = "active"
    \/ \E c \in Calls : RunOf[c] = r /\ op[c] = "running"
    \/ \E u \in claims \union waiters : ~OwnedElsewhere(r, u)

Acceptable(p) ==
    p.acceptance = "passed" => /\ p.status = "completed"
                               /\ "passed" \in p.evidence /\ "failed" \notin p.evidence

AnyReport(r, p) ==  \* mutant: a closed run takes another report
    /\ "server" \in alive /\ run[r] # "none" /\ Acceptable(p) /\ ~FinishBlocked(r)
    /\ run' = [run EXCEPT ![r] = p.status] /\ receipt' = [receipt EXCEPT ![r] = p]
    /\ UNCHANGED <<op, execution, latest, admission, at, processes>>

\* A second finish with the same report returns the receipt and changes
\* nothing; with another one it throws.
Finish(r, p) ==
    /\ "server" \in alive /\ run[r] = "running" /\ Acceptable(p) /\ ~FinishBlocked(r)
    /\ run' = [run EXCEPT ![r] = p.status] /\ receipt' = [receipt EXCEPT ![r] = p]
    /\ UNCHANGED <<op, execution, latest, admission, at, processes>>

(***************************************************************************)
(* Commands and tools.                                                     *)
(***************************************************************************)
SameCall(c, d) == {c, d} \subseteq Commands \/ {c, d} \subseteq Tools

ReplayIfRunning(c) ==  \* mutant: only an unfinished row counts
    /\ RunOf[c] # None /\ KeyOf[c] # None
    /\ \E d \in Calls : /\ SameCall(c, d) /\ op[d] = "running"
                        /\ RunOf[d] = RunOf[c] /\ KeyOf[d] = KeyOf[c]

\* A row for this key is there already: the call is not replayed.
Replay(c) ==
    /\ RunOf[c] # None /\ KeyOf[c] # None
    /\ \E d \in Calls : /\ SameCall(c, d) /\ op[d] # "none"
                        /\ RunOf[d] = RunOf[c] /\ KeyOf[d] = KeyOf[c]

OpensRow(c, status) == op' = IF RunOf[c] = None THEN op ELSE [op EXCEPT ![c] = status]

\* start(): the key, the claim, the row and the process, with no await before
\* the import of node-pty.  What does not come to a process leaves nothing.
StartCommand(c) ==
    /\ "server" \in alive /\ at[c] = "idle"
    /\ IF Replay(c) \/ Blocked(c) \/ ~RunIsOpen(c)
       THEN Goes(c, "refused") /\ UNCHANGED <<op, admission>>
       ELSE /\ Acquire(c) /\ OpensRow(c, "running")
            /\ Goes(c, IF c \in Pty THEN "importing" ELSE "working")
    /\ UNCHANGED <<run, receipt, execution, latest, processes>>

PtyStarts(c) ==
    /\ "server" \in alive /\ at[c] = "importing" /\ Goes(c, "working")
    /\ UNCHANGED <<ledger, admission, processes>>

EndOperation(c) == op' = IF op[c] = "running" THEN [op EXCEPT ![c] = "ended"] ELSE op

PtyFailsHolding(c) ==  \* mutant: the claim is forgotten
    /\ "server" \in alive /\ at[c] = "importing" /\ Goes(c, "refused")
    /\ EndOperation(c) /\ UNCHANGED admission
    /\ UNCHANGED <<run, receipt, execution, latest, processes>>

\* The catch block of start().
PtyFails(c) ==
    /\ "server" \in alive /\ at[c] = "importing" /\ Goes(c, "refused")
    /\ EndOperation(c) /\ ReleaseClaim(c)
    /\ UNCHANGED <<run, receipt, execution, latest, processes>>

\* finish() of a session: the account is closed, or the failure to do so is
\* only reported; the claim is released in both cases.
CommandExits(c) ==
    /\ "server" \in alive /\ at[c] = "working" /\ c \in Commands /\ Goes(c, "done")
    /\ \/ EndOperation(c) /\ UNCHANGED faulted
       \/ "accounting" \in Faults /\ UNCHANGED op /\ faulted' = TRUE
    /\ ReleaseClaim(c)
    /\ UNCHANGED <<run, receipt, execution, latest, alive>>

\* trackedWork() writes the row, then mutate() or readWorkspace() asks for the
\* claim; a conflict ends the row as failed.
StartTool(c) ==
    /\ "server" \in alive /\ at[c] = "idle"
    /\ IF Replay(c) \/ ~RunIsOpen(c)
       THEN Goes(c, "refused") /\ UNCHANGED <<op, admission>>
       ELSE IF Blocked(c)
       THEN Goes(c, "refused") /\ OpensRow(c, "ended") /\ UNCHANGED admission
       ELSE Goes(c, "working") /\ OpensRow(c, "running") /\ Acquire(c)
    /\ UNCHANGED <<run, receipt, execution, latest, processes>>

\* The finally block of mutate(), and the continuation of trackedWork().
ToolReturns(c) ==
    /\ "server" \in alive /\ at[c] = "working" /\ c \in Tools
    /\ Goes(c, "returned") /\ ReleaseClaim(c)
    /\ UNCHANGED <<ledger, processes>>

ToolAccounts(c) ==
    /\ "server" \in alive /\ at[c] = "returned" /\ Goes(c, "done")
    /\ \/ EndOperation(c) /\ UNCHANGED faulted
       \/ "accounting" \in Faults /\ UNCHANGED op /\ faulted' = TRUE
    /\ UNCHANGED <<run, receipt, execution, latest, admission, alive>>

(***************************************************************************)
(* Turns: begin() of the manager, one transaction at a time.               *)
(***************************************************************************)
Busy(a) == \E e \in Turns : AgentOf[e] = a /\ at[e] \notin {"idle", "refused", "done", "lost"}

BeginTurn(e) ==
    /\ "daemon" \in alive /\ at[e] = "idle" /\ ~Busy(AgentOf[e])
    /\ IF RunIsOpen(e)
       THEN /\ Goes(e, "begun") /\ execution' = [execution EXCEPT ![e] = "active"]
            /\ latest' = [latest EXCEPT ![AgentOf[e]] = e]
       ELSE Goes(e, "refused") /\ UNCHANGED <<execution, latest>>
    /\ UNCHANGED <<run, receipt, op, admission, processes>>

\* acquire(), else enqueue(); with no wait configured the turn fails instead.
AdmitTurn(e) ==
    /\ "daemon" \in alive /\ at[e] = "begun"
    /\ \/ ~Blocked(e) /\ Acquire(e) /\ Goes(e, "claimed")
       \/ /\ Blocked(e) /\ waiters' = waiters \union {e} /\ Goes(e, "waiting")
          /\ UNCHANGED <<claims, before>>
       \/ Blocked(e) /\ Goes(e, "leaving") /\ UNCHANGED admission
    /\ UNCHANGED <<ledger, processes>>

LeavesQueue(e) ==
    /\ "daemon" \in alive /\ at[e] = "waiting"
    /\ \/ e \in waiters /\ ~Blocked(e) /\ Acquire(e) /\ Goes(e, "claimed")
       \/ Goes(e, "leaving") /\ UNCHANGED admission
    /\ UNCHANGED <<ledger, processes>>

\* A waiting row whose time is over is deleted by the next admission.
Expire(e) ==
    /\ e \in waiters /\ waiters' = waiters \ {e}
    /\ UNCHANGED <<ledger, claims, before, at, processes>>

\* The provider is asked (requestStarted), or the row of the turn could not be
\* written and everything is given back before the execution is ended.
TurnWorks(e) ==
    /\ "daemon" \in alive /\ at[e] = "claimed" /\ Goes(e, "working")
    /\ UNCHANGED <<ledger, admission, processes>>

TurnGivesUp(e) ==
    /\ "daemon" \in alive /\ at[e] \in {"claimed", "waiting"} /\ Goes(e, "leaving")
    /\ claims' = claims \ {e} /\ waiters' = waiters \ {e}
    /\ UNCHANGED <<ledger, before, processes>>

\* The finally block of begin(): endExecution(), then the ticket and the claim.
EndTurn(e) ==
    /\ "daemon" \in alive /\ at[e] \in {"working", "leaving"} /\ Goes(e, "ended")
    /\ execution' = [execution EXCEPT ![e] = "ended"]
    /\ UNCHANGED <<run, receipt, op, latest, admission, processes>>

ReleaseTurn(e) ==
    /\ "daemon" \in alive /\ at[e] = "ended" /\ Goes(e, "done")
    /\ claims' = claims \ {e} /\ waiters' = waiters \ {e}
    /\ UNCHANGED <<ledger, before, processes>>

(***************************************************************************)
(* A process dies; what it had under way is lost with its claims in place. *)
(* Commands have process groups of their own and may run on.               *)
(***************************************************************************)
UnitsOf(p) == IF p = "server" THEN Calls ELSE Turns

Crash(p) ==
    /\ "crash" \in Faults /\ p \in alive /\ alive' = alive \ {p} /\ faulted' = TRUE
    /\ at' = [u \in Units |->
                  IF u \notin UnitsOf(p) \/ at[u] \in {"idle", "refused", "done"} THEN at[u]
                  ELSE IF at[u] = "ended" THEN "done" ELSE "lost"]
    /\ UNCHANGED <<ledger, admission>>

ServerStarts ==
    /\ "server" \notin alive /\ alive' = alive \union {"server"}
    /\ UNCHANGED <<ledger, admission, at, faulted>>

\* A new daemon marks what was active as unknown (reconcileInterruptedExecutions).
DaemonStarts ==
    /\ "daemon" \notin alive /\ alive' = alive \union {"daemon"}
    /\ LET cut == {e \in Turns : execution[e] = "active"} IN
         /\ execution' = [e \in Turns |-> IF e \in cut THEN "reconcile" ELSE execution[e]]
         /\ run' = [r \in Runs |-> IF \E e \in cut : RunOf[e] = r THEN "reconcile" ELSE run[r]]
    /\ UNCHANGED <<receipt, op, latest, admission, at, faulted>>

Next ==
    \/ \E r \in Runs : Begin(r) \/ \E p \in Reports : Finish(r, p)
    \/ \E c \in Commands : StartCommand(c) \/ PtyStarts(c) \/ PtyFails(c) \/ CommandExits(c)
    \/ \E c \in Tools : StartTool(c) \/ ToolReturns(c) \/ ToolAccounts(c)
    \/ \E e \in Turns :
          \/ BeginTurn(e) \/ AdmitTurn(e) \/ LeavesQueue(e) \/ Expire(e)
          \/ TurnWorks(e) \/ TurnGivesUp(e) \/ EndTurn(e) \/ ReleaseTurn(e)
    \/ \E p \in {"server", "daemon"} : Crash(p)
    \/ ServerStarts \/ DaemonStarts

Spec == Init /\ [][Next]_vars

-------------------------------------------------------------------------------
AtWork(u) == at[u] \in {"importing", "working", "returned", "begun", "waiting", "claimed",
                        "leaving", "lost"}

\* A finished run has no work left that could still change its checkout: no
\* call or turn of it is under way, none was lost with its process, and no
\* claim of it remains, a dead daemon's included (docs/project-console.md:57).
FinishedRunIsQuiet ==
    \A r \in Runs : run[r] \in Finished =>
        \A u \in Units : RunOf[u] = r => ~AtWork(u) /\ u \notin claims

\* A closed receipt is not rewritten, by another report or by the
\* reconciliation of a new daemon.
ReceiptIsFinal ==
    [][\A r \in Runs : run[r] \in Finished => run'[r] = run[r] /\ receipt'[r] = receipt[r]]_vars

\* Work that was asked for under one request key is started at most once,
\* however often and over however many restarts the host repeats the call.
Started(c) == at[c] \notin {"idle", "refused"}
KeyedWorkRunsOnce ==
    \A c, d \in Calls :
        /\ Started(c) /\ Started(d) /\ SameCall(c, d)
        /\ RunOf[c] = RunOf[d] /\ RunOf[c] # None
        /\ KeyOf[c] = KeyOf[d] /\ KeyOf[c] # None
        => c = d

\* Nothing is left behind: as long as no process died and no account stayed
\* open, a run can be finished once nothing is under way.
QuietRunCanFinish ==
    ~faulted /\ (\A u \in Units : at[u] \in {"idle", "refused", "done"}) =>
        \A r \in Runs : run[r] = "running" => ~FinishBlocked(r)

\* What a run says of its work is so: it is finished when it is quiet and not before, can
\* be finished then, and has done nothing twice.
RunsAreTruthful == FinishedRunIsQuiet /\ QuietRunCanFinish /\ KeyedWorkRunsOnce

(***************************************************************************)
(* The inductive invariant under these: what the rows and the claims of a  *)
(* unit say of where its code stands, and what they say of its run.        *)
(***************************************************************************)
CallPlaces == {"idle", "importing", "working", "returned", "refused", "done", "lost"}
UnderWay == {"begun", "waiting", "claimed", "working", "leaving"}
TurnPlaces == UnderWay \union {"idle", "ended", "refused", "done", "lost"}

\* The row of a call is opened with its work and closed after it, and its claim is gone before.
CallIsAccounted(c) ==
    /\ at[c] \in CallPlaces
    /\ at[c] = "idle" => op[c] = "none"
    /\ RunOf[c] # None /\ Started(c) => op[c] # "none"
    /\ RunOf[c] # None /\ AtWork(c) => op[c] = "running"
    /\ op[c] = "running" => RunOf[c] # None /\ (AtWork(c) \/ faulted)
    /\ c \in claims => at[c] \in {"importing", "working", "lost"}

\* The execution of a turn is active from its first transaction to the one that ends it, and its
\* claim and ticket go last.  A turn that is under way is its agent's latest.
TurnIsAccounted(e) ==
    /\ at[e] \in TurnPlaces
    /\ at[e] \in {"idle", "refused"} => execution[e] = "none"
    /\ at[e] \in UnderWay => execution[e] = "active"
    /\ at[e] = "lost" => execution[e] \in {"active", "reconcile"}
    /\ execution[e] = "active" => at[e] \in UnderWay \union {"lost"}
    /\ at[e] \in UnderWay \union {"ended"} => latest[AgentOf[e]] = e /\ "daemon" \in alive
    /\ e \in claims \union waiters => at[e] \notin {"idle", "refused", "begun"}
    /\ e \in claims \union waiters /\ at[e] = "done" => faulted

\* A claim knows the turns that were there before it.  The latest turn of the agent that holds
\* it is the holder itself, or one that began later, after the holder's process had died.
ClaimIsDated(e) ==
    /\ \A f \in before[e] : execution[f] # "none"
    /\ e \in claims => latest[AgentOf[e]] = e \/ latest[AgentOf[e]] \notin before[e]

\* What the tables hold of a finished run.
RunIsAccounted(r) ==
    run[r] \in Finished =>
        /\ \A e \in Turns : RunOf[e] = r => execution[e] \notin {"active", "reconcile"}
        /\ \A c \in Calls : RunOf[c] = r => op[c] # "running"
        /\ \A u \in Units : RunOf[u] = r => u \notin claims

CallsAreAccounted == \A c \in Calls : CallIsAccounted(c)
TurnsAreAccounted == \A e \in Turns : TurnIsAccounted(e)
ClaimsAreDated == \A e \in Turns : ClaimIsDated(e)
RunsAreAccounted == \A r \in Runs : RunIsAccounted(r)
LostAreFaults == \A u \in Units : at[u] = "lost" => faulted
InterruptedIsReconciled == \A e \in Turns : execution[e] = "reconcile" => run[RunOf[e]] = "reconcile"

WorkInv ==
    /\ CallsAreAccounted /\ TurnsAreAccounted /\ ClaimsAreDated /\ RunsAreAccounted
    /\ LostAreFaults /\ InterruptedIsReconciled /\ KeyedWorkRunsOnce
===============================================================================
