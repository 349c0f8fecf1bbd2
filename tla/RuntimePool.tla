----------------------------- MODULE RuntimePool -----------------------------
(***************************************************************************)
(* LocalAgentRuntimePool (local-agent-runtime-pool.ts): the provider       *)
(* runtimes of a daemon, one per runtime key, shared by the runs that need *)
(* them, with idle sessions released, idle runtimes evicted, dead ones     *)
(* discarded, and everything closed at shutdown.                           *)
(*                                                                         *)
(* A step is what the event loop does between two awaits.  Entries are     *)
(* identities: each stands for one RuntimeEntry the pool may ever make.    *)
(***************************************************************************)
EXTENDS Naturals

CONSTANTS
    Runs,        \* calls of run()
    Keys,        \* runtime keys
    KeyOf,       \* the key each run asks for
    Sessions,    \* provider sessions
    SessionOf,   \* the session each run has, or gets from the provider
    Resumes,     \* runs whose input names their session
    Entries,
    Evictions,   \* calls of evictIdle() that may be under way at once
    None

ASSUME RunsAssumption ==
    /\ KeyOf \in [Runs -> Keys] /\ SessionOf \in [Runs -> Sessions] /\ Resumes \subseteq Runs
ASSUME NoneAssumption == None \notin Entries /\ None \notin Keys

VARIABLES
    pool,        \* "open", or how far close() has come
    entries,     \* the entry of each key
    key,         \* the key of each entry, None before it is made
    runtime,     \* the runtime of each entry
    closing,     \* how far closeEntry() has come
    reason,      \* why it was called first
    activeRuns,
    sessions,    \* sessions each entry knows
    releasing,   \* sessions whose releaseSession() is under way
    reserved,    \* runs that have reserved their session
    run,         \* where each run stands, and its entry
    eviction     \* where each eviction stands

table == <<entries, key>>
closure == <<closing, reason>>
usage == <<activeRuns, sessions, releasing, reserved>>
vars == <<pool, table, runtime, closure, usage, run, eviction>>

RunPlaces == {"idle", "acquire", "create", "join", "retry", "giveUp", "reserve",
              "running", "failing", "cleanup", "done", "failed"}
CloseStages == {"no", "awaitCreation", "awaitReleases", "closing", "closed"}
Reasons == {"none", "idle", "gone", "shutdown"}
EvictionStates == [at: {"off", "next", "release", "wait"}, entry: Entries \union {None},
                   todo: SUBSET Entries, closes: SUBSET Entries,
                   idle: SUBSET Entries, unused: SUBSET (Entries \X Sessions),
                   awaits: SUBSET (Entries \X Sessions)]

TypeOK ==
    /\ pool \in {"open", "closing", "closed"}
    /\ entries \in [Keys -> Entries \union {None}]
    /\ key \in [Entries -> Keys \union {None}]
    /\ runtime \in [Entries -> {"none", "creating", "failed", "alive", "dead", "closed"}]
    /\ closing \in [Entries -> CloseStages]
    /\ reason \in [Entries -> Reasons]
    /\ activeRuns \in [Entries -> SUBSET Runs]
    /\ sessions \in [Entries -> SUBSET Sessions]
    /\ releasing \in [Entries -> SUBSET Sessions]
    /\ reserved \subseteq Runs
    /\ run \in [Runs -> [at: RunPlaces, entry: Entries \union {None}]]
    /\ eviction \in [Evictions -> EvictionStates]

Off == [at |-> "off", entry |-> None, todo |-> {}, closes |-> {}, idle |-> {}, unused |-> {},
        awaits |-> {}]

Init ==
    /\ pool = "open"
    /\ entries = [k \in Keys |-> None]
    /\ key = [e \in Entries |-> None]
    /\ runtime = [e \in Entries |-> "none"]
    /\ closing = [e \in Entries |-> "no"] /\ reason = [e \in Entries |-> "none"]
    /\ activeRuns = [e \in Entries |-> {}]
    /\ sessions = [e \in Entries |-> {}]
    /\ releasing = [e \in Entries |-> {}]
    /\ reserved = {}
    /\ run = [r \in Runs |-> [at |-> "idle", entry |-> None]]
    /\ eviction = [v \in Evictions |-> Off]

EntryOf(r) == run[r].entry
Users(e, s) == {r \in activeRuns[e] \intersect reserved : SessionOf[r] = s}
IsOpen(e) == closing[e] = "no"

Goes(r, where) == run' = [run EXCEPT ![r].at = where]

\* lastUsedAt moves on: no eviction under way finds these idle any more.
Touch(es, ss) ==
    eviction' = [v \in Evictions |-> [eviction[v] EXCEPT !.idle = @ \ es, !.unused = @ \ ss]]

-------------------------------------------------------------------------------
(***************************************************************************)
(* closeEntry(): the first caller's reason counts, the others wait for the *)
(* same promise.                                                           *)
(***************************************************************************)
CloseEntries(es, why) ==
    /\ closing' = [e \in Entries |-> IF e \in es /\ IsOpen(e) THEN "awaitCreation" ELSE closing[e]]
    /\ reason' = [e \in Entries |-> IF e \in es /\ IsOpen(e) THEN why ELSE reason[e]]

WithoutIts(e) == [entries EXCEPT ![key[e]] = None]  \* mutant: whichever entry is there goes
DropsKey(e) == [k \in {l \in Keys : entries[l] # e} |-> entries[k]]  \* mutant: its key goes too
\* removeAndClose(): an entry that has taken its place stays.
Without(e) == [k \in Keys |-> IF entries[k] = e THEN None ELSE entries[k]]
RemoveAndClose(e, why) == entries' = Without(e) /\ CloseEntries({e}, why)

CloserAt(e, stage, next) ==
    /\ closing[e] = stage
    /\ closing' = [closing EXCEPT ![e] = next]

NothingToClose(e) ==
    /\ CloserAt(e, "awaitCreation", "closed")
    /\ runtime[e] = "failed"
    /\ UNCHANGED <<pool, table, runtime, reason, usage, run, eviction>>

\* A dead runtime has its sessions released; a release under way goes on.
CloserHasRuntime(e) ==
    /\ CloserAt(e, "awaitCreation", "awaitReleases")
    /\ runtime[e] \in {"alive", "dead"}
    /\ releasing' = IF reason[e] = "gone" THEN [releasing EXCEPT ![e] = @ \union sessions[e]]
                                         ELSE releasing
    /\ UNCHANGED <<pool, table, runtime, reason, activeRuns, sessions, reserved, run, eviction>>

ClosesAtOnce(e) == TRUE  \* mutant: releases under way are not waited for
RunsAreOver(e) == releasing[e] = {} /\ activeRuns[e] = {}  \* mutant: shutdown waits for turns
Released(e) == releasing[e] = {}

CloserReleased(e) ==
    /\ CloserAt(e, "awaitReleases", "closing")
    /\ Released(e)
    /\ sessions' = [sessions EXCEPT ![e] = {}]
    /\ runtime' = [runtime EXCEPT ![e] = "dead"]
    /\ UNCHANGED <<pool, table, reason, activeRuns, releasing, reserved, run, eviction>>

\* An idle entry is closed without a wait: it has no run to wait for, and it
\* releases no session because it is closing.  A release that another eviction
\* began goes on.
CloseIdle(e) ==
    /\ entries' = Without(e)
    /\ IF IsOpen(e)
         THEN /\ closing' = [closing EXCEPT ![e] = "closing"]
              /\ reason' = [reason EXCEPT ![e] = "idle"]
              /\ sessions' = [sessions EXCEPT ![e] = {}]
              /\ runtime' = [runtime EXCEPT ![e] = "dead"]
         ELSE UNCHANGED <<closure, sessions, runtime>>

RuntimeClosed(e) ==
    /\ CloserAt(e, "closing", "closed")
    /\ runtime' = [runtime EXCEPT ![e] = "closed"]
    /\ UNCHANGED <<pool, table, reason, usage, run, eviction>>

\* A session whose release failed stays known.  Whoever waits is told.
ReleaseEnds(e, s) ==
    /\ s \in releasing[e]
    /\ releasing' = [releasing EXCEPT ![e] = @ \ {s}]
    /\ \/ sessions' = [sessions EXCEPT ![e] = IF Users(e, s) = {} THEN @ \ {s} ELSE @]
       \/ UNCHANGED sessions
    /\ eviction' = [v \in Evictions |-> [eviction[v] EXCEPT !.awaits = @ \ {<<e, s>>}]]
    /\ UNCHANGED <<pool, table, runtime, closure, activeRuns, reserved, run>>

-------------------------------------------------------------------------------
(***************************************************************************)
(* run() and acquire().                                                    *)
(***************************************************************************)
Begin(r) ==
    /\ run[r].at = "idle"
    /\ Goes(r, IF pool = "open" THEN "acquire" ELSE "failed")
    /\ UNCHANGED <<pool, table, runtime, closure, usage, eviction>>

\* Counting the run follows acquire() without a wait.
Enters(r, e) ==
    /\ activeRuns' = [activeRuns EXCEPT ![e] = @ \union {r}]
    /\ run' = [run EXCEPT ![r] = [at |-> IF r \in Resumes THEN "reserve" ELSE "running", entry |-> e]]

Reuse(r, e) ==
    /\ run[r].at = "acquire" /\ entries[KeyOf[r]] = e
    /\ runtime[e] = "alive"
    /\ Enters(r, e)
    /\ UNCHANGED <<pool, table, runtime, closure, sessions, releasing, reserved, eviction>>

Join(r, e) ==
    /\ run[r].at = "acquire" /\ entries[KeyOf[r]] = e
    /\ runtime[e] = "creating"
    /\ run' = [run EXCEPT ![r] = [at |-> "join", entry |-> e]]
    /\ UNCHANGED <<pool, table, runtime, closure, usage, eviction>>

FindsDead(r, e) ==
    /\ run[r].at = "acquire" /\ entries[KeyOf[r]] = e
    /\ runtime[e] = "dead"
    /\ RemoveAndClose(e, "gone")
    /\ run' = [run EXCEPT ![r] = [at |-> "retry", entry |-> e]]
    /\ UNCHANGED <<pool, key, runtime, usage, eviction>>

Create(r, e) ==
    /\ run[r].at = "acquire" /\ entries[KeyOf[r]] = None
    /\ pool = "open"
    /\ key[e] = None
    /\ entries' = [entries EXCEPT ![KeyOf[r]] = e]
    /\ key' = [key EXCEPT ![e] = KeyOf[r]]
    /\ runtime' = [runtime EXCEPT ![e] = "creating"]
    /\ run' = [run EXCEPT ![r] = [at |-> "create", entry |-> e]]
    /\ UNCHANGED <<pool, closure, usage, eviction>>

PoolIsClosed(r) ==
    /\ run[r].at = "acquire" /\ entries[KeyOf[r]] = None
    /\ pool # "open"
    /\ Goes(r, "failed")
    /\ UNCHANGED <<pool, table, runtime, closure, usage, eviction>>

Created(e) ==
    /\ runtime[e] = "creating"
    /\ runtime' = [runtime EXCEPT ![e] = "alive"]
    /\ UNCHANGED <<pool, table, closure, usage, run, eviction>>

CreationFails(e) ==
    /\ runtime[e] = "creating"
    /\ runtime' = [runtime EXCEPT ![e] = "failed"]
    /\ entries' = Without(e)
    /\ UNCHANGED <<pool, key, closure, usage, run, eviction>>

CreatorHasFailed(r) ==  \* mutant: a joined creation that fails is not reported
    /\ run[r].at = "create" /\ runtime[EntryOf(r)] = "failed"
    /\ run' = [run EXCEPT ![r] = [at |-> "failed", entry |-> None]]
    /\ UNCHANGED <<pool, table, runtime, closure, usage, eviction>>

HasFailed(r) ==
    /\ run[r].at \in {"create", "join"} /\ runtime[EntryOf(r)] = "failed"
    /\ run' = [run EXCEPT ![r] = [at |-> "failed", entry |-> None]]
    /\ UNCHANGED <<pool, table, runtime, closure, usage, eviction>>

StillInPlace(e) == pool = "open" /\ IsOpen(e) /\ entries[key[e]] = e

HasRuntime(r) ==
    LET e == EntryOf(r) IN
    /\ run[r].at \in {"create", "join"}
    /\ runtime[e] = "alive" /\ StillInPlace(e)
    /\ Enters(r, e)
    /\ UNCHANGED <<pool, table, runtime, closure, sessions, releasing, reserved, eviction>>

\* The entry was closed during creation, or its runtime died at once.  Its
\* creator gives up in the first case; everybody else tries again.
HasLostRuntime(r) ==
    LET e == EntryOf(r) IN
    /\ run[r].at \in {"create", "join"}
    /\ runtime[e] \in {"alive", "dead", "closed"}
    /\ ~(runtime[e] = "alive" /\ StillInPlace(e))
    /\ RemoveAndClose(e, "gone")
    /\ Goes(r, IF run[r].at = "create" /\ ~StillInPlace(e) THEN "giveUp" ELSE "retry")
    /\ UNCHANGED <<pool, key, runtime, usage, eviction>>

\* runtime.close() may have failed, which fails a run that waited for it.
CloseAwaited(r) ==
    /\ run[r].at \in {"retry", "giveUp"}
    /\ closing[EntryOf(r)] = "closed"
    /\ \E next \in IF run[r].at = "retry" THEN {"acquire", "failed"} ELSE {"failed"} :
          run' = [run EXCEPT ![r] = [at |-> next, entry |-> None]]
    /\ UNCHANGED <<pool, table, runtime, closure, usage, eviction>>

-------------------------------------------------------------------------------
(***************************************************************************)
(* A run on its entry.  A session that is being released is waited for.    *)
(***************************************************************************)
ReservesAnyway(r) == TRUE  \* mutant: a release under way is not waited for
MayReserve(r) == SessionOf[r] \notin releasing[EntryOf(r)]

Reserves(r) ==
    /\ reserved' = reserved \union {r}
    /\ sessions' = [sessions EXCEPT ![EntryOf(r)] = @ \union {SessionOf[r]}]
    /\ Touch({}, {<<EntryOf(r), SessionOf[r]>>})

Leaves(r, how) ==
    /\ activeRuns' = [activeRuns EXCEPT ![EntryOf(r)] = @ \ {r}]
    /\ reserved' = reserved \ {r}
    /\ run' = [run EXCEPT ![r] = [at |-> how, entry |-> None]]
    /\ Touch({EntryOf(r)}, {<<EntryOf(r), SessionOf[r]>>})

\* The session of the input, or the one the provider reports.
ReserveSession(r) ==
    /\ run[r].at = "reserve" \/ (run[r].at = "running" /\ r \notin reserved)
    /\ MayReserve(r) /\ IsOpen(EntryOf(r))
    /\ Reserves(r)
    /\ Goes(r, "running")
    /\ UNCHANGED <<pool, table, runtime, closure, activeRuns, releasing>>

ReserveFails(r) ==
    /\ run[r].at = "reserve"
    /\ MayReserve(r) /\ ~IsOpen(EntryOf(r))
    /\ Leaves(r, "failed")
    /\ UNCHANGED <<pool, table, runtime, closure, sessions, releasing>>

\* The callback throws, and the provider's turn fails with it.
ReportFails(r) ==
    /\ run[r].at = "running" /\ r \notin reserved
    /\ MayReserve(r) /\ ~IsOpen(EntryOf(r))
    /\ Goes(r, "failing")
    /\ UNCHANGED <<pool, table, runtime, closure, usage, eviction>>

\* A session that the result names becomes known if the entry still takes it.
Succeeds(r) ==
    LET e == EntryOf(r) IN
    /\ run[r].at = "running"
    /\ runtime[e] = "alive"
    /\ r \in reserved \/ MayReserve(r)
    /\ sessions' = IF IsOpen(e) THEN [sessions EXCEPT ![e] = @ \union {SessionOf[r]}] ELSE sessions
    /\ Leaves(r, "done")
    /\ UNCHANGED <<pool, table, runtime, closure, releasing>>

Fails(r) ==
    /\ run[r].at \in {"running", "failing"}
    /\ runtime[EntryOf(r)] = "alive"
    /\ Leaves(r, "failed")
    /\ UNCHANGED <<pool, table, runtime, closure, sessions, releasing>>

\* The runtime has died under the run: it is discarded before the run ends.
Crashes(r) ==
    LET e == EntryOf(r) IN
    /\ run[r].at \in {"running", "failing"}
    /\ runtime[e] \in {"dead", "closed"}
    /\ RemoveAndClose(e, "gone")
    /\ Goes(r, "cleanup")
    /\ UNCHANGED <<pool, key, runtime, usage, eviction>>

CleanedUp(r) ==
    /\ run[r].at = "cleanup"
    /\ closing[EntryOf(r)] = "closed"
    /\ Leaves(r, "failed")
    /\ UNCHANGED <<pool, table, runtime, closure, sessions, releasing>>

Dies(e) ==
    /\ runtime[e] = "alive"
    /\ runtime' = [runtime EXCEPT ![e] = "dead"]
    /\ UNCHANGED <<pool, table, closure, usage, run, eviction>>

-------------------------------------------------------------------------------
(***************************************************************************)
(* evictIdle(), by the daemon's idle check or an entry's timer.  It has    *)
(* read the clock: what was idle then is not if it is used before it is    *)
(* looked at.  A runtime is idle only if its sessions are, for no driver   *)
(* has a shorter idle timeout than its sessions.                           *)
(***************************************************************************)
InTable == {e \in Entries : \E k \in Keys : entries[k] = e}

EvictIdle(v) ==
    /\ eviction[v].at = "off"
    /\ InTable # {}
    /\ \E idle \in SUBSET {e \in InTable : activeRuns[e] = {}} :
       \E unused \in SUBSET {u \in InTable \X Sessions : u[2] \in sessions[u[1]]} :
          /\ \A e \in idle, s \in Sessions : s \in sessions[e] => <<e, s>> \in unused
          /\ eviction' = [eviction EXCEPT ![v] =
                [at |-> "next", entry |-> None, todo |-> InTable, closes |-> {},
                 idle |-> idle, unused |-> unused, awaits |-> {}]]
    /\ UNCHANGED <<pool, table, runtime, closure, usage, run>>

IdleSessions(v, e) == {s \in sessions[e] : <<e, s>> \in eviction[v].unused /\ Users(e, s) = {}}

\* It waits for the releases it begins or finds under way, not for later ones.
ReleaseIdleSessions(v, e) ==
    /\ eviction[v].at = "next" /\ e \in eviction[v].todo
    /\ e \in InTable /\ runtime[e] \in {"alive", "dead"}
    /\ releasing' = [releasing EXCEPT ![e] = @ \union IdleSessions(v, e)]
    /\ eviction' = [eviction EXCEPT ![v].at = "release", ![v].entry = e, ![v].todo = @ \ {e},
                                     ![v].awaits = {e} \X IdleSessions(v, e)]
    /\ UNCHANGED <<pool, table, runtime, closure, activeRuns, sessions, reserved, run>>

IdleAtStart(v, e) == e \in eviction[v].idle  \* mutant: runs that came since do not count
StillIdle(v, e) == activeRuns[e] = {} /\ e \in eviction[v].idle

EvictOrKeep(v) ==
    LET e == eviction[v].entry IN
    /\ eviction[v].at = "release"
    /\ eviction[v].awaits = {}
    /\ IF StillIdle(v, e)
         THEN /\ CloseIdle(e)
              /\ eviction' = [eviction EXCEPT ![v].at = "next", ![v].closes = @ \union {e}]
         ELSE /\ UNCHANGED <<entries, closure, sessions, runtime>>
              /\ eviction' = [eviction EXCEPT ![v].at = "next"]
    /\ UNCHANGED <<pool, key, activeRuns, releasing, reserved, run>>

Evicted(v) ==
    /\ eviction[v].at = "next"
    /\ \A e \in eviction[v].todo \intersect InTable : runtime[e] \in {"none", "creating"}
    /\ eviction' = [eviction EXCEPT ![v].at = "wait"]
    /\ UNCHANGED <<pool, table, runtime, closure, usage, run>>

EvictionEnds(v) ==
    /\ eviction[v].at = "wait"
    /\ \A e \in eviction[v].closes : closing[e] = "closed"
    /\ eviction' = [eviction EXCEPT ![v] = Off]
    /\ UNCHANGED <<pool, table, runtime, closure, usage, run>>

(***************************************************************************)
(* close() of the pool.                                                    *)
(***************************************************************************)
CloseCreated ==  \* mutant: runtimes that are being created are forgotten
    /\ pool = "open"
    /\ pool' = "closing"
    /\ entries' = [k \in Keys |-> None]
    /\ CloseEntries({e \in InTable : runtime[e] # "creating"}, "shutdown")
    /\ UNCHANGED <<key, runtime, usage, run, eviction>>

Close ==
    /\ pool = "open"
    /\ pool' = "closing"
    /\ entries' = [k \in Keys |-> None]
    /\ CloseEntries(InTable, "shutdown")
    /\ UNCHANGED <<key, runtime, usage, run, eviction>>

Closed ==
    /\ pool = "closing"
    /\ \A e \in Entries : reason[e] = "shutdown" => closing[e] = "closed"
    /\ pool' = "closed"
    /\ UNCHANGED <<table, runtime, closure, usage, run, eviction>>

-------------------------------------------------------------------------------
CloserStep(e) ==
    NothingToClose(e) \/ CloserHasRuntime(e) \/ CloserReleased(e)

AcquireStep(r) ==
    \/ PoolIsClosed(r) \/ HasFailed(r) \/ HasRuntime(r) \/ HasLostRuntime(r) \/ CloseAwaited(r)
    \/ \E e \in Entries : Reuse(r, e) \/ Join(r, e) \/ FindsDead(r, e) \/ Create(r, e)

\* What the pool does of itself once a run has its entry
RunStep(r) ==
    \/ ReserveFails(r) \/ Crashes(r) \/ CleanedUp(r)
    \/ (run[r].at = "reserve" /\ ReserveSession(r))

ProviderStep(r) == ReserveSession(r) \/ ReportFails(r) \/ Succeeds(r) \/ Fails(r)

EvictionStep(v) ==
    EvictOrKeep(v) \/ Evicted(v) \/ EvictionEnds(v) \/ \E e \in Entries : ReleaseIdleSessions(v, e)

Next ==
    \/ \E r \in Runs : Begin(r) \/ AcquireStep(r) \/ RunStep(r) \/ ProviderStep(r)
    \/ \E e \in Entries : \/ CloserStep(e) \/ RuntimeClosed(e)
                          \/ Created(e) \/ CreationFails(e) \/ Dies(e)
    \/ \E e \in Entries, s \in Sessions : ReleaseEnds(e, s)
    \/ \E v \in Evictions : EvictIdle(v) \/ EvictionStep(v)
    \/ Close \/ Closed

Spec == Init /\ [][Next]_vars

\* The event loop runs; providers create or fail to create a runtime, answer a
\* release and let themselves be closed.  Nothing is assumed of their turns.
Fairness ==
    /\ \A r \in Runs : WF_vars(AcquireStep(r)) /\ WF_vars(RunStep(r))
    /\ \A e \in Entries : /\ WF_vars(CloserStep(e)) /\ WF_vars(RuntimeClosed(e))
                          /\ WF_vars(Created(e) \/ CreationFails(e))
    /\ \A e \in Entries, s \in Sessions : WF_vars(ReleaseEnds(e, s))
    /\ \A v \in Evictions : WF_vars(EvictionStep(v))
    /\ WF_vars(Closed)

FairSpec == Spec /\ Fairness

-------------------------------------------------------------------------------
\* Acquisition is single-flight per runtime key, and an entry is removed before
\* its close begins (comment at :52): what is not closing is in the table, so
\* no two runtimes of a key are open, and nothing is forgotten at shutdown.
OpenIsInTable ==
    \A e \in Entries :
        runtime[e] \in {"creating", "alive", "dead"} /\ IsOpen(e) => entries[key[e]] = e

\* Active runtimes are not evicted: from the decision to evict until the
\* runtime is closed, no run is on it.
EvictionSparesRuns ==
    \A e \in Entries : reason[e] = "idle" => activeRuns[e] = {}

\* A session turn must not overlap a session release, unless the runtime it
\* was on is dead.
ReleaseSparesTurns ==
    \A e \in Entries : runtime[e] = "alive" => \A s \in releasing[e] : Users(e, s) = {}

\* Existing idle-release work is awaited, so that closing a runtime never
\* overlaps it (comment at :386).  It may when an eviction closes the runtime,
\* but only with a release that another eviction began and still waits for.
CloseAwaitsReleases ==
    \A e \in Entries : closing[e] = "closing" => \A s \in releasing[e] :
        /\ reason[e] = "idle"
        /\ \E v \in Evictions : <<e, s>> \in eviction[v].awaits /\ e \notin eviction[v].closes

\* When close() resolves, no runtime is alive.
ClosedPoolIsEmpty == pool = "closed" => \A e \in Entries : runtime[e] # "alive"

\* The pool takes nothing from a run that uses it: it has one open runtime for a key, evicts
\* none under a run and releases no session under a turn.
PoolSparesRuns == OpenIsInTable /\ EvictionSparesRuns /\ ReleaseSparesTurns

\* What is closed is closed after what it waits for, and altogether.
CloseIsOrderly == CloseAwaitsReleases /\ ClosedPoolIsEmpty

(***************************************************************************)
(* The inductive invariant under both: what the pool's tables say of an    *)
(* entry at each stage of its life.                                        *)
(***************************************************************************)
OnEntry == {"reserve", "running", "failing", "cleanup"}
HoldsEntry == OnEntry \union {"create", "join", "retry", "giveUp"}

\* What the table names is open, and was made for that key.
TableIsKeyed ==
    \A k \in Keys, e \in Entries : entries[k] = e => key[e] = k /\ IsOpen(e)

\* close() has emptied the table before anything else can happen.
TableIsCleared == pool # "open" => \A k \in Keys : entries[k] = None

\* An entry nobody has made yet has no state.
FreshIsUnused == \A e \in Entries : key[e] = None => runtime[e] = "none" /\ IsOpen(e)

ClosureHasReason == \A e \in Entries : IsOpen(e) <=> reason[e] = "none"

\* Only a shutdown closes an entry whose runtime may still come to life.
ClosedIsNotAlive ==
    \A e \in Entries :
        /\ reason[e] \in {"idle", "gone"} => runtime[e] \in {"dead", "closed"}
        /\ closing[e] = "closed" => runtime[e] \in {"failed", "closed"}

RunsHaveEntries == \A r \in Runs : run[r].at \in HoldsEntry => run[r].entry \in Entries

\* A run is counted on one entry, its own, and only while it is on it.
RunsAreCounted ==
    /\ \A e \in Entries : \A r \in activeRuns[e] : run[r].at \in OnEntry /\ run[r].entry = e
    /\ \A r \in Runs : run[r].at \in OnEntry => r \in activeRuns[run[r].entry]
    /\ \A r \in reserved : run[r].at \in OnEntry
    /\ \A e \in Entries : runtime[e] \in {"none", "creating", "failed"} => activeRuns[e] = {}

\* An eviction waits for releases of the one entry it is at, and has not closed that.
EvictionsWaitAtOne ==
    \A v \in Evictions :
        LET at == IF eviction[v].at = "release" THEN {eviction[v].entry} ELSE {} IN
        /\ \A e \in Entries, s \in Sessions : <<e, s>> \in eviction[v].awaits => e \in at
        /\ eviction[v].closes \intersect (eviction[v].todo \union at) = {}
        /\ eviction[v].todo \intersect at = {}

IdleIsMade == \A v \in Evictions, e \in Entries : e \in eviction[v].idle => key[e] # None

\* But for the releases of a dead runtime, an eviction waits for every one.
ReleasesAreAwaited ==
    \A e \in Entries : reason[e] # "gone" => \A s \in releasing[e] :
        \E v \in Evictions : <<e, s>> \in eviction[v].awaits

ClosingIsReleased ==
    \A e \in Entries : closing[e] = "closing" /\ reason[e] # "idle" => releasing[e] = {}

NothingComesAlive ==
    pool = "closed" => \A e \in Entries : runtime[e] \notin {"creating", "alive"}

TableInv ==
    /\ TableIsKeyed /\ TableIsCleared /\ FreshIsUnused /\ ClosureHasReason
    /\ ClosedIsNotAlive /\ NothingComesAlive /\ OpenIsInTable
RunInv == RunsHaveEntries /\ RunsAreCounted /\ EvictionSparesRuns
ReleaseInv ==
    /\ EvictionsWaitAtOne /\ IdleIsMade /\ ReleaseSparesTurns
    /\ ReleasesAreAwaited /\ ClosingIsReleased
PoolInv == TableInv /\ RunInv /\ ReleaseInv

\* Shutdown never waits for a turn and leaves nobody waiting: once close() is called
\* the pool closes, whatever the providers do, and every run that began is answered.
PoolSettles ==
    (pool # "open") ~> (pool = "closed" /\ \A r \in Runs : run[r].at \in {"idle", "done", "failed"})
===============================================================================
