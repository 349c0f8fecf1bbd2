# Taskquay in TLA+

Taskquay (in its code: DevSpace) is a local MCP server. A host model works through it in checkouts on
this machine: it reads and edits files, runs commands, opens worktrees, and delegates turns to coding
agents (Codex, Claude, OpenCode, Pi, Grok). Several processes share one state directory and one SQLite
file: MCP servers, the command line, and one agent daemon that owns the provider processes.

This directory holds TLA+ modules of the parts where processes, callbacks and crashes interleave, the
TLC runs that check them on small instances, and TLAPS proofs of their theorems. Paths below are
relative to `src/` of the repository unless they begin with `docs/` or `scripts/`.

Contents: [inventory](#inventory) · [how the code is read](#how-the-code-is-read) ·
[modules](#modules) · [runs](#runs) · [fairness](#fairness) · [proofs](#proofs) ·
[findings](#findings) · [what is not covered](#what-is-not-covered)

## Inventory

### Modelled

| Component | State | Operations | Talks to |
|---|---|---|---|
| execution coordinator, `execution-coordinator.ts` | tables `execution_claims`, `execution_waiters`; handles in each process | acquire, enqueue, tryAcquire, cancel, bindThread, release, close | every process, through SQLite only |
| agent turns, `local-agent-manager.ts` over `local-agent-store.ts` and part of `work-ledger.ts` | sessions, turns, task and continuation keys, control requests, executions; `activeTurns`, queue tickets, control handles | start, continue, control (steer, interrupt, take over, return), cancel, close, reconcile; `scripts/recover-previous-boot-claims.mjs` | coordinator, runtime pool, store and ledger |
| daemon lifecycle, `local-agent-daemon*.ts`, `local-agent-client.ts` | lock file, socket, secret, configuration revision | start, reconcile, serve, stop, idle shutdown, hello, replace, request | file system, socket, manager |
| runtime pool, `local-agent-runtime-pool.ts` | entries by key, sessions, active runs, closes and releases under way | run, evictIdle, discard, close | drivers |
| project archive, `project-archive.ts` | batches and entries of archive plans, threads; requests under way | plan, execute (with reconciliation), protect | ledger, coordinator, Codex, and agent turns through their rows |

*Coordinator.* Hard: independent processes decide on the same rows; expiry, close and death of owners at
any point; nested checkouts; a provider thread that is bound after admission. Correct when conflicting
work never runs together, nobody is overtaken by work they conflict with, limits hold, and every queued
caller gets an answer.

*Agent turns.* Hard: a request is several SQLite transactions and the process may die between any two;
`continue()` waits for files between its checks and its reservation; provider answers arrive late, twice
or never; an interrupted provider may outlive its daemon. Correct when the rows always say what the
daemon is doing, no request runs twice, a control request is sent and answered once, and shutdown ends.

*Daemon lifecycle.* Hard: the lock is a file; several starters race for it; a client decides on what a
daemon said a moment ago; stops and idle shutdowns come in between. Correct when one process owns the
directory, no live turn is marked lost, a replaced daemon had no work, and a client gets a daemon.

*Runtime pool.* Hard: creation, reuse, eviction, discard and shutdown of one entry await each other.
Correct when a key has one open runtime, nothing in use is evicted or released, nothing outlives
shutdown, and shutdown does not wait for a provider's turn.

*Project archive.* Hard: a preview is executed later, entry by entry, in requests that may be sent again while the
first is under way or its process is gone; Codex may lose an answer or carry a request out late; agents of the daemon and
other Codex clients use the same threads. Correct when what moves is what was previewed, nothing in use moves, Codex is
asked once, and what is in doubt is never taken for settled.

*Work runs and accounts*, `work-ledger.ts`, `tool-surfaces/work-task.ts`, `agent-usage.ts`. State: `console_work_runs`, `console_operations`,
`console_executions`, `agent_usage_snapshots`. Operations: begin, call, start and end of commands and turns, finish, reconcile, usage. Hard:
the server asks whether a run may finish while the daemon is between two of its transactions; usage of a turn arrives before its id is known
or after it is over. Correct when a finished run has nothing under way, its receipt never changes, and tokens are billed once, to their turn.

*Managed commands*, `process-sessions.ts`. Sessions, an output buffer, a terminal receipt, claims; start, poll, write, terminate, shutdown.
Hard: shutdown while a PTY is imported, two polls of one buffer. Correct when no process is left behind and what is read is what was written.

*Workspaces*, `workspaces.ts`, `workspace-store.ts`. Sessions, bindings of conversations, a cache, opens that are shared. Hard: the directory
changes, the server restarts and the cache evicts across awaits. Correct when calls that open one path agree.

*Managed worktrees*, `git-worktrees.ts`, `worktree-prune.ts`. A row, a directory, a recovery ref. Hard: two pruners, a restore and a writer
between any two git commands, crashes. Correct when what was written before the snapshot can be restored.

*Review checkpoints*, `review-checkpoints.ts`. Two refs and a state in memory. Hard: reviews overlap, refs get lost. Correct when every change
is shown to some review and a review can be repeated.

*OAuth*, `oauth-provider.ts`, `oauth-store.ts`. Clients, codes, token pairs. Hard: exchanges, revocation and expiry of one grant on two servers.
Correct when a token descends from one approval, codes and refresh tokens are spent once, and nothing gains scope.

*Patches and artifacts*, `apply-patch.ts`, `artifact-*.ts`, `incoming-artifacts.ts`. Files. Hard: one write of several fails; names that differ
in case; a download beside others, other programs, and leftovers of crashes. Correct when files are whole and others' are spared.

*Provider drivers*. `local-agent-codex.ts`: lines of an app-server, turns by number, late usage. `local-agent-acp.ts`, `local-agent-grok.ts`: one
child, prompts that end twice, resumes, timeouts. `local-agent-claude.ts`: one stream for all prompts of a query. `local-agent-opencode.ts`: one server for
all agents, starts that lose a port. `local-agent-pi-sandbox.ts`: one sandbox for all sessions. Correct when a turn gets its own answer, and no
child or policy outlives what it was for.

*Settings of turns*, `local-agent-manager.ts`, `-profiles.ts`, `-config.ts`, `agent-reasoning-limit.ts`. Rows, profile files, configuration. Hard: they are read twice and remembered
by the row. Correct when a turn runs with what was asked, capped, and related work goes to an agent of the same settings.

*Daemon protocol*, `local-agent-daemon-protocol.ts`, `-daemon.ts`, `-client.ts`. Connections. Hard: either end may lose the other. Correct when a
refusal means that nothing was done and a repeated key finds its turn.

*Codex projects*, `codex-projects.ts`, `codex-desktop-*.ts`. State of another program. Hard: read, compare and write beside its user. Correct
when a reported registration is true and what the user did is not undone.

*Database*, `db/migrations.ts`. The schema. Hard: builds of different age and crashes between transactions. *Configuration*, `user-config.ts`,
`config-migration.ts`, `cli.ts`. Three files. Hard: commands that load, migrate and edit at once without a lock.

### Not modelled

Server and tool surfaces, user interface, diagnostics, skills and emulator recovery: see [what is not covered](#what-is-not-covered).

## How the code is read

* JavaScript between two awaits that really wait is one step. A chain of settled promises runs to its end
  before another callback does; timers, sockets, files and child processes do wait.
* `better-sqlite3` is synchronous. A transaction is one step even inside a longer callback, because the
  process may die, and other processes may act, between two of them.
* A transaction that throws rolls back, purges of expired rows included. One that returns commits them.
* Identities, keys and prompts are model values. A request without a key is one whose key is fresh.
* Time is a choice: whatever a timer may do it may do at any moment. Whether it must is a matter of fairness,
  and no deadline is assumed to be longer than what it waits for.
* Compensations and cleanups may fail like anything else, half-way where the operation has a half.

## Modules

```
Claims            what a claim is, which claims conflict
 ├─ SourceUse              abstract: compatible jobs use sources
 └─ ExecutionCoordinator   the tables; implements SourceUse
      └─ ExecutionCoordinator_proofs     also of Workspaces and Worktrees
TurnHistory       abstract: a history that grows, no request runs twice
AgentTurns        manager, store, executions; implements TurnHistory
 └─ AgentTurns_proofs
DaemonLifecycle   lock, endpoint, clients
      └─ DaemonLifecycle_proofs      also of DaemonWire, TurnSettings and DesktopProjects
RuntimePool       entries, runs, evictions, shutdown
 └─ RuntimePool_proofs      also of AcpTurns
ThreadArchive     previews, requests, turns of the threads, Codex
      └─ ThreadArchive_proofs
WorkRuns          runs, commands, tools, turns, the finish gate
 └─ WorkRuns_proofs        also of CodexTurns and ReviewCheckpoints
CodexTurns  AcpTurns  ClaudeTurns  OpencodeTurns  PiSandbox      drivers
 └─ Drivers_proofs         of ClaudeTurns, OpencodeTurns and PiSandbox
TurnSettings      model, effort, mode and instructions of a turn
DaemonWire        requests, connections, answers
DesktopProjects   registrations beside the Codex Desktop
ProcessSessions   managed commands and their output
Workspaces  Worktrees  ReviewCheckpoints                         checkouts
OAuthTokens       codes and tokens
 └─ OAuthTokens_proofs     also of Migrations, ConfigFiles and Artifacts
Artifacts  Patches                                               files
Migrations  ConfigFiles                                          what a start finds
Agentd    = DaemonLifecycle (twice) + DaemonWire + TurnSettings + DesktopProjects
Checkouts = ExecutionCoordinator + Workspaces + Worktrees
Work      = WorkRuns + CodexTurns + ProcessSessions + Patches + ReviewCheckpoints
Providers = RuntimePool + PiSandbox + ClaudeTurns + OpencodeTurns + AcpTurns
Services  = ThreadArchive + OAuthTokens + Artifacts + Migrations + ConfigFiles
MCAgentd  MCCheckouts  MCWork  MCProviders  MCServices           small instances of these
MCAgentTurns                                                     the same of AgentTurns
MCSettles = ExecutionCoordinator + DaemonLifecycle + RuntimePool, under fairness
```

The sums run several components in one check: an initial choice of `part` names the one that moves, and all others stay as they are
(the model value `Asleep`, or their initial state in MCSettles; the component a sum EXTENDS keeps one of its own). Nothing passes between parts, so a sum
shows exactly what the checks of its parts would. Variables and constants that two parts name alike have a name for each in the sum (`WITH`). The proof
modules extend the sums, so that a theorem can be about a component or about the sum that is run.

**Claims, ExecutionCoordinator.** One action per method, each one immediate transaction. `active` and
`waiters` are the two tables; the sequence number of a waiting row is the set of rows `ahead` of it, its
`expires_at_ms` is membership in `expired`, and `key` is the `thread_key` column. `holding`,
`ticketed` and `working` are the handles and the work in the processes, which the tables must agree with;
`Close` keeps claims and drops waiting rows, `Crash` keeps both, as the code does. `Blocked` is
`blocker()`, in its order: claims, earlier live waiters, agent limit, reader limit. `SourceUse` has no
queue, limit, clock or crash: jobs enter beside compatible jobs, take a free thread, leave.

**AgentTurns.** `step` is the handler being run, with one step per transaction; `Free` says that no
handler is running and no settled promise still has reactions to run. `phase` is where the tracked turn
stands: `queued`, `preparing` and `dispatched` are the promise of `begin()` in its queue loop, its profile
loading and its provider call, and the rest are its way out (`ended`: the turn is recorded; `accounted`:
the execution too; then the control state and the claim go). Rows survive `Crash`, which leaves a
dispatched provider alive or not (`orphan`); `Reboot` ends orphans and makes what claims exist `preBoot`,
which is what the recovery script proves from timestamps. What other agents' claims allow is left open
(`Admit` or `Enqueue`), so one agent in the instance is enough: a conflict with others is a choice, and
with itself a fact.

Single-daemon operation is assumed here and is what DaemonLifecycle checks. `status` "lost" is `error` with
`DAEMON_UNAVAILABLE`. An unanswered `turn/start` ends as `ProviderFails`.

**DaemonLifecycle.** Daemons and clients are processes; each file-system call that another process can
see is a step. `Publish` is the link of a temporary file, `Occupied` its EEXIST, then the owner is looked
at and a dead one's lock is moved away, whatever is at the path by then. `Listen` takes over the socket path, `Closes`
frees it (Node unlinks the path of a closed server). `Release` includes the exit, which follows in the same
callback. A hello is one step, what the client does about it another. `OutOfTime` is the client's deadline of 8 s: closing
a daemon may take 10 s and starting one has no bound, so it may come at any point of a wait. `Faults` chooses what else may
happen, so a run or theorem names what it excludes.

**RuntimePool.** A step is what the loop does between two awaits. An entry is an identity that is used
once. `closing` is how far `closeEntry()` has come, `reason` who called it first, `releasing` its
`releaseSession()` calls, `eviction` a call of `evictIdle()` with what its clock reading found idle and the releases it
awaits. Details kept from the code: counting a run follows `acquire()` without a wait; a caller whose entry was lost closes it and tries
again, except a creator closed under, which gives up; an eviction awaits the releases it collected, begun by itself or found
under way, and none that another pass begins meanwhile; `closeEntry` for an idle entry waits for nothing and releases
nothing, because `releaseSession` returns at once when an entry closes as idle. A runtime may therefore be closed while a second pass
still awaits a release on it: CloseAwaitsReleases says that this is the only case. Left out: the choice of key and the timers that call `evictIdle`. A runtime idle
timeout is never shorter than that of its sessions (minutes against 60 s in every driver).

**ThreadArchive.** Two processes over one database, and Codex. `entry`, `status`, `mode`, `archiveState`, `protected` and
`external` are columns; `changed` and `grown` stand for the comparison of a revision and of a snapshot with those a batch
recorded. A request is where `execute()` stands: `check` (claimed, entry chosen), `inspect` and `asked` (waiting for Codex),
`ask` (the intent is saved), `settle`. `rpc` holds what Codex received and has not carried out; it outlives the request, its
time limit and its process. The turn of an agent passes `assertAgentUsable` before its claim and again under it, which is why
both are steps. All threads are of one project and their agents write, so that claims exclude each other: what admission does
with them is ExecutionCoordinator's. Left out: subtasks, incomplete usage (both only add reasons to skip), threads that
were not created here (always skipped), and death of the daemon (AgentTurns), which leaves a claim as a console's death does.

**WorkRuns.** `at` is where the code of a unit stands; a step of the server is what its event loop does between awaits, a step of the daemon
one transaction, because the finish gate may be asked between two of them. `before` is what tells a claim from one that is older than an execution
(`OwnedElsewhere` compares times of creation). `Crash` of either process leaves rows; `DaemonStarts` reconciles. The checkouts of all
units overlap, so that every row counts for every gate.

**CodexTurns.** `wire` is the line protocol in its order; `driver` is where `run()` stands, with the usage lines it keeps while its turn has no id;
`handlers` are the turns whose late usage is still routed. `row` and `snapshot` are the two accounts. Codex counts per thread, the code subtracts.
`codex.spent` is what the turn really used. Turns of other clients on the thread are number 0. The total of a receipt is a recursive function of the
number of rows (`Billed`), which a proof can unfold.

**AcpTurns, ClaudeTurns, OpencodeTurns, PiSandbox.** The child and what it writes are external and free to do what the drivers' code expects to handle; the
runtime, its session table, its queues and the turn's way through the driver are the code's. In AcpTurns an answer is a sequence of items that know
which prompt they came of; Grok may end a prompt by its response, a named event, a bare event, or several. In PiSandbox every promise of
`initialize()` is kept by number, as an old one may settle last. In OpencodeTurns a turn keeps the server of the runtime it began on. A health
check that fails, and an error that looks like one of the transport, may come with the server up: they mark the runtime dead for every agent, and
the prompt may go on. `Close` aborts the prompts in flight and stops the server, whoever else has a turn: the pool closes a dead runtime, and all of them
at shutdown. Permission dialogs, texts and tools are left out.

**TurnSettings.** A turn's settings are computed twice, with what configuration, profile and row say then: when it is asked for (`Start`,
`Continue`: signature, choice of an agent) and when it runs (`RunTurn`: defaults, limits). `edited`, `changed` and `from` record what came in between.

**DaemonWire.** One connection per call. `conn` is `handleLine`, with the order in which it refuses; `down` is an answer on its way;
`captured` is what a wait holds of the turns it was asked about. What the manager does is one row per key.

**DesktopProjects.** A registration reads the Desktop's catalog, lists, reads, looks again, updates, reads back and verifies: one step each, with the user's
changes in between. `seen` is how often the thread had been moved when it was last looked at. `late` is history: what a
registration begun before the user's last change has moved since. Such a move can take a thread away from where a later registration has reported it, into a
project that has lost the root: nothing in the code prevents it, and RegistrationsAreTrue excepts it.

**ProcessSessions.** A command's characters are numbered, so that a read says which it shows. `Poll`, `Interrupt` and `Returns` are the tool calls;
`TerminalStarts` is the end of the PTY's import; `Forget` is the loss of the oldest terminal sessions. Accounts and claims of commands are in WorkRuns.

**Workspaces, Worktrees, ReviewCheckpoints.** Each step is what follows an await, a git command or a statement. `dir` counts incarnations of the directory;
`mishaps` records what no code could guard against, and the properties name those that they except. `git worktree remove --force` may stop half-way
(`RemoveStops`): a part of the files is left, and git has forgotten the worktree (`git` in the tree), unless it was killed before that. So may the removal that
cleans up after a restore that failed (`CleansUp`), which leaves the commit without the changes. A commit knows its parent and the version of the tree.

**OAuthTokens.** A token request is two steps, as the SDK's handler looks the code or token up and later exchanges it. `pairs` and `approved` are histories;
the rows are `access` and `refresh`; the history
also keeps, for each pair, the approval with which its chain of refreshes began (`origin`), for the properties to compare it to. A refresh token's redemption is one transaction.

**Artifacts, Patches.** A file is the chunks, or the lines, whether the last one is closed and what ends them. The parent directory is held by descriptor, so there is one. `Cleanup` sees some of the
partials (`readdir` while others come and go). An `unlink` of a partial may fail and is not tried again (`Unlinks`). A patch is staged action by action
(`Stage`), then written file by file, in any order; on Windows a file is set aside, replaced, and its backup removed, in three steps. `WriteFails` may come at each
of them and in the phase of deletions, with or without the file put back, and so may `Crash`. Hunks are looked for as `findSequence` does, in three passes, and
the result is joined as `join` does. `should` is the effect of the actions in sequence, computed apart.

**Migrations, ConfigFiles.** A migration is what it adds to the schema, outright or if missing; `Considers` to `Commits` is one `runMigration`.
The steps of ConfigFiles are file-system calls; `shared` says that another command wrote meanwhile.

## Runs

All instances are exhaustive. Every property listed has a one-definition change of the model that TLC
finds it violated by; these definitions stand beside the ones they change and are marked `mutant`.

| Run | Distinct states | Shows |
|---|---|---|
| Checkouts | 590 k | Running work is compatible and readers stay within their limit (SafeUse), nobody overtakes, tables implement SourceUse; opens of one path agree, pruned worktrees can be restored |
| Turns | 196 k | Rows follow the daemon, orphaned providers get no second writer, histories implement TurnHistory |
| TurnControl | 67 k | A control key is sent once and answered once, a confirmation has seen its turn end, `start()` respects Desktop ownership; close() ends, queued turns leave the queue, control requests are answered |
| Agentd | 1.75 M | One daemon, no live turn lost, the ready daemon is the reachable one; a replaced daemon has no work, with and without faults; answers are true; a turn has its settings; registrations are true |
| Settles | 57 k | Liveness: queued callers are answered and the queue serves everyone, a client gets a daemon unless its time is up or one ends under it, the pool closes and answers its runs |
| Work | 2.03 M | Runs finish when quiet, once, and receipts are final; usage is billed once; commands are followed to their end; patches leave each file as it was, as it should be, or set aside; reviews show every change |
| Providers | 1.60 M | The pool evicts and releases nothing in use and closes in order; Pi's sandbox, Claude's stream, OpenCode's server and an ACP child serve the right turn |
| Services | 1.29 M | Archives spare turns and move what was previewed; tokens, downloads, schema and configuration are what their section above says |
| StaleLock | | finding: two owners after a stale lock |
| DesktopContinuation | | finding: a continuation under Desktop ownership |
| FirstStarts | | finding: of two first starts one fails |
| LightEffort | | finding: the effort of a read-only turn stays |

What each property says is at its definition; those of a sum are conjunctions whose parts are named and explained in the component's module.

Bounds, and why they are enough:

* *Checkouts.* Five jobs of two processes: a writer and a reader of one checkout, two readers of one nested in
  it, a command in another nested one that shares a resource with one reader; two jobs of one agent; one
  thread. All four clauses of a conflict, both limits (three agents, two readers), and a waiter between two
  others occur; the queue holds three. Three rows are what an overtaking takes. Three calls of one conversation or none
  on a directory that is remade once, a cache of one workspace. Two pruners and a restore, two versions written, one kind of mishap.
* *Turns, TurnControl.* One agent, two task keys, and two continuation keys raced by two callers, or two
  control keys, which are sent again at will; histories reach the number of keys. TurnControl starts, with the daemon down, from an agent
  that has done its first task, under DevSpace's control or taken over meanwhile (`DoneOnce`; both states are reachable from `Init` with
  one task and one control key), so that its other task resumes it. Two of a kind is what a race takes; keys are used once, which bounds
  the model without a counter. Deadlock is checked: reboots are always possible.
* *Agentd.* Three daemons and two clients of different configurations: one daemon serves, one takes its place, one interferes; the orderly part has
  stops and idle shutdowns, the failing part, with one client, deaths, failed starts and stale locks, for the property that tolerates them. Two calls with two
  keys of one agent, one exit of the daemon; a wait for one turn while another begins takes both. Settings: two agents, three turns, so that a row is
  used by a later turn and an agent by another's work; two configurations (no defaults; a default with limits), both with one for read-only turns. Two
  registrations, one thread, two changes by the user, or one and a second try of either.
* *Settles.* Four jobs without late binding: a thread bound to a running job may block a waiter ahead of the queue order, and then nothing is promised;
  limits never bind, because a limit does starve in favour of nobody in particular. Two clients of one configuration, which may replace a daemon of another,
  and three daemons: one that serves or has left its files, and one for each client to start. Stops, idle shutdowns and deadlines come at any time; an instance has either the
  files of a dead daemon or daemons that end. One entry and one eviction.
* *Work.* Two runs, two commands of one key (one with a PTY), a tool without a run, and two turns of one agent. Two turns of a thread, each of up to two tokens,
  with all faults. Two commands, two polls, a buffer of three characters that a fourth overflows, one kept receipt. Patches of two actions
  with hunks of each kind, on three names of which two differ in case, on all three platforms; texts with blanks before and after a line, with an open end and with mixed line
  ends, and a hunk that takes all lines. Two reviews of four snapshots.
* *Providers.* Two runs of one key and session, one of which resumes it, two entries (one succeeding the other), two
  evictions, at once only while one entry has been made (`PassesBound`; later ones may begin after the first has ended). A run whose third entry would be needed stays where it is. Two sessions of two directories with two
  initialisations and two resets under way; two prompts on two queries; two agents, three children (one start of three attempts, or a runtime that is closed under turns and its successors), two sessions, two prompts.
  Two prompts of one ACP agent and session, of two models, on either provider: a late end or text needs a prompt after it.
* *Services.* One thread, two previews of either mode in either order, two requests, of any batch, as often as the batches
  last: one archives and one restores, or both archive, or one is done when the other is still in doubt. Entries of different threads
  meet only in the claim and in the count of the batch. All that other clients do is allowed. Two servers, two clients of which one may be approved, one code, three
  pairs (a refresh of a refresh), one revocation, and a clock that may run out at once. Two downloads, two names, four paths, chunk counts around the limit, one crash or failed unlink.
  Two new builds and an old one
  on six histories. Three commands (load, edit, set up), one fault, one crash.

Where actors are alike in everything but their name, either TLC's symmetry is used (entries and evictions in Providers; batches and requests in
Services, whose properties are safety), or the calls begin in the order of their names (`InOrder` in the MC modules): both leave out renamings only.

Deadlock is not checked where the system stops: all jobs or clients done, all processes gone, pool closed, all requests answered.

## Fairness

Only what the code schedules for itself, never providers, users or restarts. Settles and TurnControl are the runs of it.

* Admission: a ticket's holder polls (every 100 ms in `begin()`). TicketSettles assumes in addition that waits end (`expires_at_ms`),
  QueueServes that operations end and release, that no wait expires and no process goes away; both are written into the formulas.
* Agent turns: transactions run, settled promises react, and timers fire: the ticket's expiry, 30 s of a control request and of its
  confirmation. Closing the pool ends runtimes, which PoolSettles shows of the pool.
* Clients: processes run and the daemon answers requests. That a deadline passes is assumed only where AskGetsDaemon says so: the first part of it shows that a client
  that need not give up does not have to, unless a daemon ends under it for another reason than its own (`EndsUnder`: somebody stops it, it is idle, or the client that
  replaces it gives up first). The second shows that nobody waits for ever once deadlines pass.
* Pool: the event loop runs; a driver creates or fails to create, and its release and close return. Nothing about turns.

## Proofs

tlapm checks every step. There are no axioms besides the named assumptions on constants, which say of
which shape they are: requests are records as in the code and roots form a forest (`WithinAssumption`);
limits are numbers that bound those of the requests; runs, units and turns have their key, session, run and
agent; starts and continuations have keys of their own (`KeysAssumption`: the code keeps them in two
tables); the absent value is not one of the present ones. What a single theorem needs beyond that is the
hypothesis of that theorem, and said below. Every inductive invariant was checked by TLC on the constants
of its run first.

**ExecutionCoordinator_proofs**, for any number of jobs, owners, roots, agents, threads and limits.

1. `TypeCorrect`.
2. `AdmissionIsSound`: AdmissionInv is inductive. Compatibility of claims alone would be, but WorkIsCompatible and
   the refinement need that running work and handles have rows (`RowsBack`), that a row is in one table only (`OneTable`, or `Admit`
   could return a job to a claim it has), and NoOvertaking needs `RowsOrdered`.
3. `RunningWorkIsCompatible`: work is a subset of the claims.
   `WorkRunsSafely` is the property of the run: this and the limit of readers together.
4. `AgentsStayWithinLimit`, `QueueStaysWithinCap`, `ReadersStayWithinLimit`: a set grows by one, only by an admission that counted it. For
   readers the forest matters: all claims that contain a root overlap each other, so the last one admitted counted the others.
5. `NobodyOvertakes`: an admission was not blocked by the rows before it; ordered rows that are not before it are after.
6. `ImplementsPromise`: every step is a step of SourceUse or a stutter, by cases of Next. A key is of interest only
   while its row is in `execution_claims`, hence the mapping of `key`.

**DaemonLifecycle_proofs**, for any number of daemons and clients and any revisions.

1. `TypeCorrect`.
2. `OneDaemonOwns` assumes `NobodyDies`: then a lock names an owner and is never stale (`OwnersHoldLock`). With a death the
   theorem is false, see findings.
3. `ReconcilesDeadTurnsOnly`, same assumption: work is only at daemons that have served (`WorkIsServed`), and those own.
4. `ReplacedHaveNoWork`, and `AgentdSparesWork` of both instances, without assumptions: `daemon.stop` with `ifIdle` is decided in the daemon's own step, and a stopping
   daemon takes no request.
5. `ReadyDaemonIsReached` assumes that nobody dies and no start fails.

**ThreadArchive_proofs**, for any number of threads, previews and requests.

1. `TypeCorrect`.
2. `OneBatchMovesAThread`, `TurnsAreSafe`, `CodexIsAskedOnce`, and their conjunction with the rows, `ArchiveIsCareful`: ArchiveInv is inductive. A request is alone while it is under way
   (`ClaimsAreHeld`), so an entry is as the request found it (`RequestsSeeTheirEntry`): only then does "the row says active" mean, when
   the intent is saved, that no other entry is pending. `UntouchedIsUnasked` covers previews that die unsaved.
3. `PreviewIsBinding`: from the same invariant, with what Intend compares.
4. `RowsAreTrue` assumes that no other client moves threads (`NoOtherMoves`); turns of others are allowed. A request that Codex carries
   out late finds its entry still in doubt (`MovesUnderWay`): that is why an entry in doubt is looked at and not asked for again.

**AgentTurns_proofs**, for any number of agents, keys, callers and controls, from `Init` (run TurnControl starts further on, see Bounds).

1. `TurnsAreSound`: TurnInv is inductive, `TypeCorrect` with it. StatusFollowsTurn speaks of the moments between two handlers only, so the
   invariant says where the rows are at each place where a handler can stop (`RowsArePlaced`), that nothing runs or is tracked while no
   daemon does (`DownIsQuiet`), that only the last turn of an agent can be under way (`OnlyLastRuns`). ClaimInv ties a provider to a
   claim that this daemon took (`ProvidersAreHeld`), and an orphan to one it did not (`OrphansAreClaimed`).
2. `RowsFollowTurns`, `OrphansAreLeftAlone`: what the invariant says when `Free`, and of the step that dispatches.
3. `ControlsAreSentOnce`, `ControlsAreAnsweredTruly`: a control is open exactly while its turn is (`ControlIsOpen`, `ControlHasTurn`), and
   what was sent has its row (`SentIsAsked`), hence a retry after a crash finds it.
4. `TurnsMakeHistory`, the refinement of TurnHistory: a key that is about to begin a turn is reserved and was never run (`BegunKeyIsNew`),
   which needs that reservations outlive the turns (`RanKeysAreUsed`).
5. `TasksRespectDesktop`: what begins under Desktop ownership is a continuation; `DesktopStopsTurns` is the property of run
   TurnControl, under the hypothesis that there are none (`NobodyContinues`). Finding 2 is thus the only way, for every instance. It rests on
   DesktopInv: a start that has reserved has seen the owner in the same transaction.

**RuntimePool_proofs**, for any number of runs, keys, sessions, entries and evictions.

1. `TypeCorrect`.
2. `RunsAreSpared`, `ClosingIsOrderly`: PoolInv is inductive in three parts that need each other. TableInv: an open entry is the one in the
   table, and nothing comes alive after the pool is closed. RunInv: `activeRuns` is the number of runs at an entry, so that an eviction that found
   none cannot be wrong. ReleaseInv: every release on an entry that is not gone has an eviction that awaits it (`ReleasesAreAwaited`), an eviction awaits
   releases of one entry, which it has not closed (`EvictionsWaitAtOne`), and a close for any other reason waits for all of them (`ClosingIsReleased`). With these
   CloseAwaitsReleases holds: what is released while its runtime is closed as idle is awaited by another eviction.

**RuntimePool_proofs, AcpTurns**, for any providers, agents, models, sessions and prompts; the hypothesis `Drivable` says that a queue has room, that there is
a model, that the absent value is neither a model nor a number, and that the end of a prompt comes in the three ways the code reads.

1. `AcpIsSound`: AcpInv is inductive. What a turn has not read of its prompt is on the wire or in its session's queue, counted exactly until the queue
   is full (`NothingIsMissing`), and before the end of the prompt (`WireIsOrdered`, `QueuesAreOwn`): so an answer is whole when its end is read. A prompt
   whose end was not taken is given up or will be (`EndsAreTaken`); no two agents share a session (`SessionsAreOwn`), and an answer once given is not
   changed by what comes late (`AnswersAreFinal`).
2. `AcpAnswersItsOwn`, `AcpOfProvidersAnswers`: AcpTurnsAreTheirOwn.

**WorkRuns_proofs**, for any number of runs, commands, tools, turns and agents.

1. `TypeCorrect`.
2. `RunsTellTheTruth`: WorkInv is inductive. The finish gate looks at rows, the property at what runs, so the invariant accounts for each call and
   turn at each place between two transactions (`CallsAreAccounted`, `TurnsAreAccounted`); `ClaimsAreDated` keeps a claim from being taken for
   one of another run, and `LostAreFaults` says which failures may leave a run that cannot be finished.
3. `ReceiptsAreFinal`: no step reports on a run that is finished.

**WorkRuns_proofs, CodexTurns**, for any number of turns and tokens and any faults; `UsageAssumption` says that the number of turns is one, and that an
unknown count is not a number.

1. `UsageIsSound`: UsageInv is inductive. A turn uses the tokens between what the thread had used when it began (`Start`) and its last mark. Turns whose
   id the driver knows, or will learn, began in the order of their numbers, so these stretches do not overlap (`StretchesInOrder`). A baseline is zero on a
   thread of no earlier turn, or the count of the turn just before, and follows it as that one reports more (`BaselinesAreSound`); nothing came between
   them unless it is known to have (`StartsAreSound`). The last report of a turn is due, on the wire, kept, counted or known to be missed
   (`ReportsAreTracked`). TLC checked UsageInv for three turns before it was proved.
2. `UsageTellsTheTruth`, `WorkIsBilledTruly`: UsageIsTrue. A row's share is its count less a baseline that no earlier count exceeds (`EarlierCountsAreBelow`); that the shares
   together do not exceed the last count (`BillIsBounded`) is an induction over the rows. The library's induction theorems take an operator, so
   `Induction` states the principle for a set of numbers and comes from the pigeonhole theorem; that the recursive sum is a function at all
   (`SumExists`) is proved with it.

**WorkRuns_proofs, ReviewCheckpoints**, for any number of reviews, commits and edits, restarts and lost refs; no hypothesis.

1. `ReviewsAreSound`: ReviewInv is inductive. The way from the opening to whatever a review starts from, and to the baseline, consists of computed
   reviews (`Covered`); a review leads one commit further, and the opening is set alone, before there is a baseline (`OpeningIsAlone`). That the
   ancestors of a commit are defined at all, and stay the same as commits are added, is an induction over the commits, each of which is younger than its
   parent (`AncestorsAreLineage`, `HistoriesAgree`, with `Induction`).
2. `ReviewsShowEverything`, `WorkIsReviewed`: ReviewsAreComplete.

**OAuthTokens_proofs**, for any number of servers, clients, codes and tokens; `TtlsAreNumbers` is the hypothesis.

1. `GrantsAreSound`: GrantInv is inductive, `TypeCorrect` with it. A row that is still there is unspent and unrevoked (`UnusedIsUnspent`,
   `RevokedIsGone`), whoever has read it and not yet exchanged it.
2. `TokensComeFromGrants`, `ServicesGrantTokens`. Each pair carries the approval its chain began with (`origin`), so that a step extends the chain by one; following
   the chain back instead would be an induction.

**Drivers_proofs**, for any number of agents, sessions, prompts, queries and commands.

1. `OpencodeIsSound`, `OpencodeServesItsOwn`, `OpencodeOfProvidersServes`: there is one server that takes turns (`OneRuntime`), every other one has been told to end, a session is announced
   to the agent it was made for (`AnnouncedAreOwn`), and a turn is on the runtime or on a server that was told to end (`TurnsAreServed`). What works on a server that was not told
   is what its turn awaits (`TurnsAwaitTheirOwn`), or was broken off while the runtime is dead and not closed (`UnstoppedAreHeld`); a dead runtime takes no turn, so an agent has
   one such prompt at most (`OneUnstopped`).
2. `ClaudeIsSound`, `ClaudeTurnsAreTheirOwn`, `ClaudeOfProvidersAnswers`: before a query in its stream is only what is of its turn (`StreamIsOwn`), unless a prompt was given up over it. The property
   excepts just that case, because a message of a given-up turn looks like one of the next.
3. `SandboxIsSound`, `SandboxServesItsHolders`, `PiOfProvidersIsContained`, under the hypothesis that there are finitely many agents: a session that acquires or runs something holds the sandbox
   (`HoldersHold`), so that a count of 0 means that nothing is under way when a reset begins. On Windows what runs is at the head of the queue (`QueueWaits`);
   elsewhere an initialization has somebody who awaits it (`PromisesAreAwaited`), so that it cannot turn on a sandbox that nobody gives back (`SandboxIsHeld`).

**DaemonLifecycle_proofs, DaemonWire**, for any number of calls, keys and agents, any daemon exits; the hypothesis `RequestsAreKnown` says that there is a
key and that the client's flaws are among those the model knows.

1. `WireIsSound`: WireInv is inductive. A connection the daemon has not done with has had no effect (`UndoneIsSilent`); a line on its way is true and stays so until it is
   read (`LineIsTrue`), because the status of a turn that has ended never changes; an answer is true (`AnswerIsTrue`).
2. `CallersAreToldTheTruth`, `AgentdAnswersTruly`: AnswersAreTrue.

**DaemonLifecycle_proofs, TurnSettings**, for any agents, configurations, profiles and requests; the hypothesis `LimitsAreEfforts` says that a limit is one of the
eight efforts there are.

1. `SettingsAreSound`: SettingsInv is inductive. While an agent has a turn its row is within the limits, has the default of that turn and fits the signature
   (`RowIsOfTurn`); after a turn that completed, the signature is what the row and some profile made of it (`SignatureIsOfRow`). Reuse rests on the
   latter: a setting that the new request leaves open was open then, too, so that the row cannot bring in another (`ReuseKeepsSettings`).
2. `TurnsHaveTheirSettings`, `AgentdKeepsSettings`: SettingsAreOfTheTurn. That limiting twice is limiting once (`LimitingSettles`) makes a remembered effort harmless.

**DaemonLifecycle_proofs, DesktopProjects**, for any number of registrations, threads, tries and changes, no hypothesis.

1. `RegistrationsAreSound`: RegistrationInv is inductive. What a registration has read of the catalog is so until the user changes something (`CatalogIsCurrent`); the
   owner it has read of a thread is one it may take the thread from, and the owner still unless the thread was moved (`ThreadsAreKnown`); a thread that was
   read back is there until it is moved late (`ThreadsAreThere`). An earlier form of the property spoke of quiet times only and had no such exception; the
   step of a late `Updates` did not keep it, and TLC shows the behaviour as soon as a registration may be tried twice.
2. `RegistrationsTellTheTruth`, `AgentdRegistersTruly`: RegistrationsAreTrue.

**ExecutionCoordinator_proofs, Workspaces**, for any number of conversations, calls, sessions and directories; the hypothesis `Nameless` says that the
absent value is not a conversation or a call.

1. `OpensAreSound`: OpensInv is inductive. An open of a conversation that is under way is the pending one (`OneOpensAtATime`), so nobody else
   changes the binding after it was read (`StepsKnow`). A directory found missing is not the one of the session that comes of it
   (`MissingIsGone`), and a session that its conversation is not bound to any more is of a directory that is gone (`UnboundIsOld`): two sessions of one
   conversation are never of one directory.
2. `OpensAgree`, `CheckoutsOpenAlike`: what the answers say of each other is what their calls hold.

**ExecutionCoordinator_proofs, Worktrees**, for any number of pruners, no hypothesis.

1. `PruningIsKnown`: PruneInv is inductive. It says where the content of the worktree is at each step of a pruner (`PrunerKnows`), of the server (`ServerKnows`) and
   between them (`DirectoryKnown`), as long as nothing happened but interruptions and removals that stopped half-way; a change between the snapshot and the removal,
   two pruners that overlap, git killed in a removal, and a restore that could not be cleaned up are the cases the property excepts. While git knows a directory in use it is whole;
   once git has forgotten it, what was in it is there or behind the recovery ref. `OnePruner` and `InUseIsThere` hold under less.
2. `PruningLosesNothing`, `CheckoutsKeepWhatIsPruned`: PrunedIsKept.

**OAuthTokens_proofs, Migrations**, for any number of openers; the hypothesis `Builds` says that each knows at least the sixth migration, as every build does that
calls the column `effort`, and no more than the seventeen there are.

1. `SchemaIsSound`: SchemaInv is inductive. The writer has the database for itself (`OneWriter`); a recorded migration has made what it makes, and the column keeps
   its value under one of its two names (`Sound`); `Migrating` says how far the writer is. That an older build leaves a newer schema alone follows from what is refused.
2. `SchemasAreWhole`, `ServicesMigrateWhole`: MigrationsAreWhole.

**OAuthTokens_proofs, ConfigFiles**, for any number of commands of the four kinds; the hypothesis `Named` says that no command has the name of what auth.json
holds without one.

1. `ConfigIsCarried`: ConfigInv is inductive. Until a migration is rolled back, a command comes to its edit only by way of the migrated file
   (`LegacyIsCarried`); what a command found is there, and in what it is about to write, until another has written beside it
   (`FoundIsThere`), and so is the password (`PasswordIsThere`).
2. `CommandsKeepConfig`, `ServicesKeepConfig`: ConfigIsKept.

**OAuthTokens_proofs, Artifacts**, for any number of downloads, names, hosts and chunks; the hypothesis `OneDirectory` says that a path that is accepted
names one file of the directory, because one directory is modelled.

1. `DownloadsAreSound`: DownloadInv is inductive. The file a download holds is of its own making and as long as it has written, and of the announced size once it
   is past the stream (`FilesAreOwn`), whatever others put under the partial's name meanwhile; a request goes only where the last redirect was
   allowed to lead (`OnlyTrustedAreAsked`). A partial is of a download that goes on, or was left by a crash or an unlink that failed (`PartialsAreRemoved`).
2. `DownloadedIsWhole`, `ServicesDownloadWhole`: DownloadsAreWhole, the action property about names and partials of others included.

Of two theorems named together, the first is about the component's own specification and the second about the sum that is run (`AgentdSpec`,
`CheckoutsSpec`, `WorkSpec`, `ProvidersSpec`, `ServicesSpec`), in which the property reads `part = ... =>`: as long as its part moves, a step of the sum
is one of the component's, and else none. A run of an MC module explores some of the sum's behaviours, those within the bounds it adds.

Model-checked only:

* liveness (TurnsSettle, WaitersSettle, AskGetsDaemon, PoolSettles): fairness and ENABLED are beyond the prover;
* what needs induction over data: patches (the effect of hunks in sequence), the text of commands (which part of the
  output each read shows);
* the recovery script beyond what AgentTurns says of it.

## Findings

1. *Stale lock* (run StaleLock, `local-agent-daemon-lifecycle.ts:202`). `removeStaleLock` says that rename
   moves the exact lock that was inspected and that a newly published lock is never removed. Two starters that both
   found the lock stale: the first moves it away and publishes its own, the second moves away that one and publishes too.
2. *Desktop ownership* (run DesktopContinuation, `local-agent-manager.ts:281`). `docs/project-console.md:37`
   promises that Desktop ownership stops DevSpace turns. `continue()` looks at the control state, waits for profile
   files, and reserves its key without looking again; `begin()` tests the record of before the wait. `start()`
   looks in the transaction that reserves, and run TurnControl shows it right.

3. *First starts* (run FirstStarts, `user-config.ts:160`). Two commands that start first after an upgrade: one finds the backup the other has made, or no
   longer finds the old file, and fails, although the comment at `user-config.ts:181` and the test at `user-config.test.ts:55` mean it to go on.
4. *Light effort* (run LightEffort, `local-agent-manager.ts:595`). `skills/subagents/SKILL.md:60` says that a previous read-only turn does not carry its lighter
   effort into development. The row keeps it, and a turn whose target has no default effort takes it from the row.

Other disagreements, each stated beside the properties of its module and false of the code, which no run checks:

* `AcpTurns!ExplicitModelIsUsed` (`skills/subagents/SKILL.md:58`): for Grok, a model equal to the one the session reported at its opening is not
  set again, though an earlier turn may have changed it (`local-agent-acp.ts:368`).
* `AcpTurns!StaleEndsAreIgnored` (`local-agent-grok.ts:41`): an end that names no prompt settles the oldest one pending.
* `TurnSettings!FailuresKeepReuseCompatible` (`skills/subagents/SKILL.md:33`): reuse takes an agent whose last turn failed
  (`local-agent-store.ts:328`); its row has the settings of that turn and the signature of the last one that completed.
* `Workspaces!ReusedMeansProvided` (`docs/gotchas.md:150`): the second of two opens is told that the context was provided, when the first, which was to
  provide it, failed or lost its server.
* `docs/gotchas.md:160` says that sessions are not pruned and that nothing is deleted automatically; every start of `serve` prunes stale managed worktrees
  (`cli.ts:369`) and forgets those whose directory is gone.

Behaviour that the models show and no document rules out:

* A failed start releases the lock before it removes the files; the removed socket may be the next owner's.
  ReadyIsReachable is therefore checked and proved without failed starts.
* A client spawns one daemon. If somebody stops it before the client reaches it, the client polls until its
  deadline (`EndsUnder` in the daemon part of Settles). So may a client whose daemon takes more than 8 s to close.
* When a worktree's removal stops half-way its row stays active for a directory git does not know: later prunes leave it alone, as `git status` fails there.
* A prompt of OpenCode that times out, or whose connection breaks, goes on until its server is stopped.
* A patch that fails while it removes a backup reports an error with the new file in place and the old one set aside.
* A takeover or interrupt is acknowledged by agent, not by turn: a late acknowledgement may grant Desktop
  ownership under a newer turn, and a second result overwrites the first. A steer acknowledged after the end of its turn leaves
  `devspace_active` with no turn, and the next restart makes that `reconcile_required`.
* A continuation queued after a reboot is the newest execution; if it expires, the recovery script refuses for good.
* A protection that the user sets while `execute()` waits for `inspect()` does not stop the move: the row is not read again before the
  intent is saved (ThreadArchive: Protect between CheckPasses and Intend), although `docs/project-console.md:75` asks for a thread without protection.
* A console that dies in `execute()` leaves its claim until somebody removes it: the recovery script treats claims of agents only. An entry
  that stays in doubt is looked at first by each later request, so that the ready entries of its batch are never reached.
* A request key that was reserved before `begin()` refused stays used.

## What is not covered

Not modelled:

* Server and tool surfaces (`server.ts`, `server-shutdown.ts`, `tool-surfaces/`): handlers validate input and call the components above; of their own they keep
  transports by session, and a shutdown in a fixed order, whose part for commands is in ProcessSessions.
* User interface, diagnostics, usage reports, logs: nothing decides on them. Skills and emulator recovery: files that are read, and a tool run by hand.
* The wording, formatting and validation of input in all modelled components; presentation of results; instructions and context files of a workspace;
  the text format of patches; image conversion; the guards of each platform's file calls; permission dialogs of providers; agent discovery.

Left out of modelled components:

* Store and ledger I/O errors (but WorkRuns has accounts that fail).
* A provider that started a turn whose `turn/start` timed out: nothing in the code can know it. A Codex run whose predecessor was given up may end with
  the `turn/completed` of that predecessor; CodexTurns does not follow it.
* The secret and pid files (`local-agent-daemon-lifecycle.ts:136`), reuse of pids (`:175`), observation requests, daemons of older protocols.
* Whether a rejection is handled in time: `evictIdle` collects closes in a loop that awaits (`local-agent-runtime-pool.ts:234`), and one that rejects meanwhile is unhandled.
* A write to the stdin of a command whose root process has ended and whose group goes on.
* A restore of a worktree that dies half-way through `stash apply`, or fails there and cannot be cleaned up either, and a removal in which git is killed are mishaps
  that PrunedIsKept excepts.
* A root that is replaced by a link between the check of `getWorkspace` (`workspaces.ts:296`) and its use by a tool.
* Configuration: two edits at once lose one, and `auth.json` is written in place; ConfigIsKept is about edits one after the other.
* Two patches at once: nothing in the code keeps them apart.
* A continuation key whose turn is refused after the reservation stays used, see above.

What could be added next: liveness of archive reconciliation; several threads of one batch.
