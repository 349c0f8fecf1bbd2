----------------------------- MODULE ThreadArchive -----------------------------
(***************************************************************************)
(* Archiving and restoring managed Codex threads from the project console  *)
(* (project-archive.ts), against the agents that use the same threads      *)
(* (local-agent-manager.ts over the work ledger and the claims), Codex,    *)
(* and Codex clients DevSpace does not know.                               *)
(*                                                                         *)
(* The console and the daemon are two processes over one SQLite file. A    *)
(* step is what one of them does between two awaits; the other process can *)
(* come between any two steps. All threads belong to one project and their *)
(* agents write, so that every claim excludes every other. Threads are     *)
(* those created here by a verified instance, any other is skipped by each *)
(* plan, and have had one run, which is over and accepted.                 *)
(***************************************************************************)
EXTENDS Naturals

CONSTANTS
    Threads,
    Batches,     \* previews a user may ask for
    Requests,    \* execute requests that may be under way at once
    Outside,     \* what clients unknown to DevSpace do: a subset of Deeds
    Nobody,      \* holder of the claim when there is none
    Orphan       \* its holder when that process is gone and the claim is not

Deeds == {"turn", "archive", "unarchive"}

ASSUME HoldersAssumption ==
    /\ Threads \intersect Requests = {}
    /\ {Nobody, Orphan} \intersect (Threads \union Requests) = {}
    /\ Nobody # Orphan
ASSUME OutsideAssumption == Outside \subseteq Deeds

VARIABLES
    \* Rows.
    archiveState, \* console_threads.archive_state
    protected,    \* threads with console_threads.protected
    external,     \* threads with console_threads.external_activity
    open,         \* threads one of whose work runs is not accepted yet
    status,       \* console_archive_batches.status, "none" before the batch is there
    mode,         \* console_archive_batches.mode
    entry,        \* console_archive_entries: status, for each batch and thread
    changed,      \* threads whose revision has moved since the batch recorded it
    claim,        \* who holds the claim on the project's checkout
    waiters,      \* threads with a row in execution_waiters
    \* The two processes.
    turn,         \* where the agent of each thread stands with its next turn
    request,      \* where each execute request stands
    \* Codex.
    archived,     \* threads Codex has archived
    unmapped,     \* threads with turns DevSpace does not know
    grown,        \* threads that got turns since the batch's snapshot
    rpc,          \* lifecycle requests Codex has received and not carried out
    asked         \* history: times Codex was asked on behalf of an entry

threadRows == <<archiveState, protected, external>>
batchRows == <<status, mode, entry, changed>>
admission == <<claim, waiters>>
codex == <<archived, unmapped, grown, rpc>>
vars == <<threadRows, open, batchRows, admission, turn, request, codex, asked>>

Modes == {"archive", "restore"}
Before(m) == IF m = "archive" THEN "active" ELSE "archived"
Moving(m) == IF m = "archive" THEN "archiving" ELSE "restoring"
Restored(m) == IF m = "archive" THEN "archived" ELSE "restored"  \* mutant
After(m) == IF m = "archive" THEN "archived" ELSE "active"

Pending == {"executing", "reconciliation_required"}
Away == [at |-> "away"]

TypeOK ==
    /\ archiveState \in [Threads -> {"active", "archiving", "archived", "restoring", "unknown"}]
    /\ protected \subseteq Threads /\ external \subseteq Threads /\ open \subseteq Threads
    /\ status \in [Batches -> {"none", "previewing", "planned", "expired", "executing",
                               "reconciliation_required", "partial", "succeeded"}]
    /\ mode \in [Batches -> Modes]
    /\ entry \in [Batches -> [Threads -> Pending \union {"absent", "ready", "skipped", "succeeded"}]]
    /\ changed \in [Batches -> SUBSET Threads]
    /\ claim \in Threads \union Requests \union {Nobody, Orphan}
    /\ waiters \subseteq Threads
    /\ turn \in [Threads -> {"none", "accounted", "queued", "admitted", "running", "ended"}]
    /\ request \in [Requests -> {Away} \union
          [at: {"check", "inspect", "ask", "asked", "settle"}, batch: Batches,
           thread: Threads, again: BOOLEAN]]
    /\ archived \subseteq Threads /\ unmapped \subseteq Threads
    /\ grown \in [Batches -> SUBSET Threads]
    /\ rpc \subseteq Threads \X Modes
    /\ asked \in [Batches -> [Threads -> Nat]]

Init ==
    /\ archiveState = [t \in Threads |-> "active"]
    /\ protected = {} /\ external = {} /\ open = {}
    /\ status = [b \in Batches |-> "none"]
    /\ mode = [b \in Batches |-> "archive"]
    /\ entry = [b \in Batches |-> [t \in Threads |-> "absent"]]
    /\ changed = [b \in Batches |-> {}]
    /\ claim = Nobody /\ waiters = {}
    /\ turn = [t \in Threads |-> "none"]
    /\ request = [q \in Requests |-> Away]
    /\ archived = {} /\ unmapped = {} /\ rpc = {}
    /\ grown = [b \in Batches |-> {}]
    /\ asked = [b \in Batches |-> [t \in Threads |-> 0]]

\* revision=revision+1, as the batches that recorded the old one will see it.
Revise(t) == changed' = [b \in Batches |-> changed[b] \union {t}]
Grow(t) == grown' = [b \in Batches |-> grown[b] \union {t}]

--------------------------------------------------------------------------------
(* The daemon: a turn of the thread's agent, from begin() to its end.       *)

\* beginExecution(): the agent's thread is not archived or being moved.
NotArchived(t) == archiveState[t] # "archived"  \* mutant: one being archived is not
Usable(t) == archiveState[t] = "active"

Account(t) ==
    /\ turn[t] = "none" /\ Usable(t)
    /\ turn' = [turn EXCEPT ![t] = "accounted"]
    /\ UNCHANGED <<threadRows, open, batchRows, admission, request, codex, asked>>

\* acquire(), or enqueue() when it is refused; both go on to beginTurn().
Admit(t) ==
    /\ turn[t] = "accounted"
    /\ IF claim = Nobody /\ waiters = {}
         THEN /\ turn' = [turn EXCEPT ![t] = "admitted"]
              /\ claim' = t /\ UNCHANGED waiters
         ELSE /\ turn' = [turn EXCEPT ![t] = "queued"]
              /\ waiters' = waiters \union {t} /\ UNCHANGED claim
    /\ UNCHANGED <<threadRows, open, batchRows, request, codex, asked>>

\* tryAcquire(), whichever comes first: the order is ExecutionCoordinator's.
TicketAdmits(t) ==
    /\ turn[t] = "queued" /\ claim = Nobody
    /\ turn' = [turn EXCEPT ![t] = "admitted"]
    /\ claim' = t /\ waiters' = waiters \ {t}
    /\ UNCHANGED <<threadRows, open, batchRows, request, codex, asked>>

\* The ticket expires or the agent is stopped.
TicketExpires(t) ==
    /\ turn[t] = "queued"
    /\ turn' = [turn EXCEPT ![t] = "none"]
    /\ waiters' = waiters \ {t}
    /\ UNCHANGED <<threadRows, open, batchRows, claim, request, codex, asked>>

\* runTurn() asks again, now under the claim.  attachThread() then ties the
\* run to the thread and notices turns that are not DevSpace's.
Dispatch(t) ==
    /\ turn[t] = "admitted" /\ Usable(t)
    /\ turn' = [turn EXCEPT ![t] = "running"]
    /\ open' = open \union {t}
    /\ IF t \in unmapped
         THEN external' = external \union {t} /\ Revise(t)
         ELSE UNCHANGED <<external, changed>>
    /\ UNCHANGED <<archiveState, protected, status, mode, entry, admission, request, codex, asked>>

DispatchRefused(t) ==
    /\ turn[t] = "admitted" /\ ~Usable(t)
    /\ turn' = [turn EXCEPT ![t] = "ended"]
    /\ UNCHANGED <<threadRows, open, batchRows, admission, request, codex, asked>>

ProviderCompletes(t) ==
    /\ turn[t] = "running"
    /\ turn' = [turn EXCEPT ![t] = "ended"]
    /\ Grow(t)
    /\ UNCHANGED <<threadRows, open, batchRows, admission, request, archived, unmapped, rpc, asked>>

\* endExecution() and, with it, the release of the claim.
EndTurn(t) ==
    /\ turn[t] = "ended"
    /\ turn' = [turn EXCEPT ![t] = "none"]
    /\ claim' = Nobody
    /\ UNCHANGED <<threadRows, open, batchRows, waiters, request, codex, asked>>

\* The host finishes and accepts the runs of the thread: nothing of theirs
\* is active, and what else is claimed is known to be another run's.
Accept(t) ==
    /\ t \in open /\ turn[t] \in {"none", "accounted", "queued"}
    /\ claim = Nobody \/ claim \in {u \in Threads : turn[u] \in {"admitted", "running"}}
    /\ open' = open \ {t}
    /\ UNCHANGED <<threadRows, batchRows, admission, turn, request, codex, asked>>

--------------------------------------------------------------------------------
(* plan(): what the console may archive or restore, frozen for the user.    *)

\* A batch of archive mode has moved t before.
ArchivedHere(t) ==
    \E b \in Batches : status[b] # "none" /\ mode[b] = "archive" /\ entry[b][t] = "succeeded"

\* localReason(): what the thread's row says for moving it, and the rest but
\* for its look at claims.
RowIsFree(t, m, again) ==  \* mutant: archive_state is not looked at
    t \notin external /\ (m = "archive" => t \notin protected)

RowAllows(t, m, again) ==
    /\ t \notin external
    /\ m = "archive" => t \notin protected
    /\ again \/ archiveState[t] = Before(m)

WorkAllows(t, m) ==
    /\ turn[t] \in {"none", "accounted"}
    /\ t \notin open
    /\ m = "restore" => ArchivedHere(t)

Quiet == claim = Nobody /\ waiters = {}

\* remoteReason() marks a thread with turns the ledger does not have.
Notice(t) ==
    IF t \in unmapped THEN external' = external \union {t} /\ Revise(t)
                      ELSE UNCHANGED <<external, changed>>

\* The revisions are those of the list read first.
PlanStarts(b, m) ==
    /\ status[b] = "none"
    /\ status' = [status EXCEPT ![b] = "previewing"]
    /\ mode' = [mode EXCEPT ![b] = m]
    /\ changed' = [changed EXCEPT ![b] = {}]
    /\ UNCHANGED <<threadRows, open, entry, admission, turn, request, codex, asked>>

\* One thread looked at, by its row as it was listed, and found fit.
PlanFinds(b, t) ==
    /\ status[b] = "previewing" /\ entry[b][t] = "absent"
    /\ RowAllows(t, mode[b], FALSE) \/ t \in changed[b]
    /\ Quiet /\ WorkAllows(t, mode[b])
    /\ t \notin unmapped
    /\ (t \in archived) <=> (mode[b] = "restore")
    /\ entry' = [entry EXCEPT ![b][t] = "ready"]
    /\ grown' = [grown EXCEPT ![b] = @ \ {t}]
    /\ UNCHANGED <<threadRows, open, status, mode, changed, admission, turn, request,
                   archived, unmapped, rpc, asked>>

\* Any reason against it; Codex may also be out of reach, or the preview out
\* of time.
PlanSkips(b, t) ==
    /\ status[b] = "previewing" /\ entry[b][t] = "absent"
    /\ entry' = [entry EXCEPT ![b][t] = "skipped"]
    /\ Notice(t) \/ UNCHANGED <<external, changed>>
    /\ UNCHANGED <<archiveState, protected, open, status, mode, admission, turn, request,
                   codex, asked>>

PlanSaved(b) ==
    /\ status[b] = "previewing" /\ \A t \in Threads : entry[b][t] # "absent"
    /\ status' = [status EXCEPT ![b] = "planned"]
    /\ UNCHANGED <<threadRows, open, mode, entry, changed, admission, turn, request, codex, asked>>

\* expires_at passes before the first step of the batch.
PlanExpires(b) ==
    /\ status[b] = "planned"
    /\ status' = [status EXCEPT ![b] = "expired"]
    /\ UNCHANGED <<threadRows, open, mode, entry, changed, admission, turn, request, codex, asked>>

--------------------------------------------------------------------------------
(* execute(): one entry of a confirmed batch for each request.              *)

\* Entries that are not known to have settled come before untouched ones.
Doubtful(b) == {t \in Threads : entry[b][t] \in Pending}
Ready(b) == {t \in Threads : entry[b][t] = "ready"}

Begins(q, place, b, t, again) ==
    request' = [request EXCEPT ![q] = [at |-> place, batch |-> b, thread |-> t, again |-> again]]

\* The batch is claimed and the entry chosen.  A batch with nothing left is
\* only counted again.
ExecuteStarts(q, b) ==
    /\ request[q] = Away
    /\ status[b] \notin {"none", "previewing", "expired", "succeeded"}
    /\ Quiet
    /\ claim' = q
    /\ status' = [status EXCEPT ![b] = "executing"]
    /\ \/ \E t \in Doubtful(b) : Begins(q, "check", b, t, TRUE)
       \/ Doubtful(b) = {} /\ \E t \in Ready(b) : Begins(q, "check", b, t, FALSE)
       \/ Doubtful(b) \union Ready(b) = {} /\ \E t \in Threads : Begins(q, "settle", b, t, FALSE)
    /\ UNCHANGED <<threadRows, open, mode, entry, changed, waiters, turn, codex, asked>>

\* updateEntry() with a reason not to go on.
GivesUp(q) ==
    LET r == request[q]
    IN  entry' = [entry EXCEPT ![r.batch][r.thread] =
                    IF r.again THEN "reconciliation_required" ELSE "skipped"]

Goes(q, place) ==
    Begins(q, place, request[q].batch, request[q].thread, request[q].again)

\* Nobody else has a claim or waits for one, the thread may still be moved,
\* and its row is the one that was previewed.
Unchanged(q) ==
    LET r == request[q]
    IN  /\ waiters = {}
        /\ RowAllows(r.thread, mode[r.batch], r.again)
        /\ WorkAllows(r.thread, mode[r.batch])
        /\ r.again \/ r.thread \notin changed[r.batch]

CheckPasses(q) ==
    /\ request[q].at = "check" /\ Unchanged(q)
    /\ Goes(q, "inspect")
    /\ UNCHANGED <<threadRows, open, batchRows, admission, turn, codex, asked>>

CheckRefuses(q) ==
    /\ request[q].at = "check" /\ ~Unchanged(q)
    /\ Goes(q, "settle") /\ GivesUp(q)
    /\ UNCHANGED <<threadRows, open, status, mode, changed, admission, turn, codex, asked>>

\* inspect() of Codex fails, or shows turns that are not DevSpace's.
InspectRefuses(q) ==
    /\ request[q].at = "inspect"
    /\ Notice(request[q].thread) \/ UNCHANGED <<external, changed>>
    /\ Goes(q, "settle") /\ GivesUp(q)
    /\ UNCHANGED <<archiveState, protected, open, status, mode, admission, turn, codex, asked>>

\* snapshotHash(remote) is the previewed one.
IsWhereItWas(b, t) == (t \in archived) <=> (mode[b] = "restore")  \* mutant
AsPreviewed(b, t) == t \notin grown[b] /\ ((t \in archived) <=> (mode[b] = "restore"))

AnyLook(r) == r.thread \notin unmapped  \* mutant: what is in doubt is tried again
FirstLook(r) == ~r.again /\ r.thread \notin unmapped

\* The intent is saved before Codex is asked.
Intend(q) ==
    LET r == request[q]
    IN  /\ r.at = "inspect" /\ FirstLook(r)
        /\ AsPreviewed(r.batch, r.thread)
        /\ entry' = [entry EXCEPT ![r.batch][r.thread] = "executing"]
        /\ archiveState' = [archiveState EXCEPT ![r.thread] = Moving(mode[r.batch])]
        /\ Revise(r.thread)
        /\ Goes(q, "ask")
        /\ UNCHANGED <<protected, external, open, status, mode, admission, turn, codex, asked>>

NotAsPreviewed(q) ==
    LET r == request[q]
    IN  /\ r.at = "inspect" /\ FirstLook(r)
        /\ ~AsPreviewed(r.batch, r.thread)
        /\ Goes(q, "settle") /\ GivesUp(q)
        /\ UNCHANGED <<threadRows, open, status, mode, changed, admission, turn, codex, asked>>

\* markSucceeded()
Succeeds(q) ==
    LET r == request[q]
    IN  /\ entry' = [entry EXCEPT ![r.batch][r.thread] = "succeeded"]
        /\ archiveState' = [archiveState EXCEPT ![r.thread] = After(mode[r.batch])]
        /\ Revise(r.thread)
        /\ Goes(q, "settle")

AsIntended(q) ==
    LET r == request[q] IN (r.thread \in archived) <=> (mode[r.batch] = "archive")

\* An entry in doubt is only looked at: it is settled when Codex has done what
\* was asked, and stays in doubt when it has not.
Reconciles(q) ==
    LET r == request[q]
    IN  /\ r.at = "inspect" /\ r.again /\ r.thread \notin unmapped /\ AsIntended(q)
        /\ Succeeds(q)
        /\ UNCHANGED <<protected, external, open, status, mode, admission, turn, codex, asked>>

StaysInDoubt(q) ==
    LET r == request[q]
    IN  /\ r.at = "inspect" /\ r.again /\ r.thread \notin unmapped /\ ~AsIntended(q)
        /\ Goes(q, "settle") /\ GivesUp(q)
        /\ UNCHANGED <<threadRows, open, status, mode, changed, admission, turn, codex, asked>>

Ask(q) ==
    LET r == request[q]
    IN  /\ r.at = "ask"
        /\ rpc' = rpc \union {<<r.thread, mode[r.batch]>>}
        /\ asked' = [asked EXCEPT ![r.batch][r.thread] = @ + 1]
        /\ Goes(q, "asked")
        /\ UNCHANGED <<threadRows, open, batchRows, admission, turn, archived, unmapped, grown>>

\* Codex answered, and a second inspect() shows the state asked for.
Confirm(q) ==
    LET r == request[q]
    IN  /\ r.at = "asked" /\ <<r.thread, mode[r.batch]>> \notin rpc
        /\ r.thread \notin unmapped /\ AsIntended(q)
        /\ Succeeds(q)
        /\ UNCHANGED <<protected, external, open, status, mode, admission, turn, codex, asked>>

\* No answer, an error, or a state that is not the one asked for: from now on
\* the entry is in doubt.
Doubt(q) ==
    LET r == request[q]
    IN  /\ r.at = "asked"
        /\ entry' = [entry EXCEPT ![r.batch][r.thread] = "reconciliation_required"]
        /\ archiveState' = [archiveState EXCEPT ![r.thread] = "unknown"]
        /\ Revise(r.thread)
        /\ \/ external' = external \union ({r.thread} \intersect unmapped)
           \/ UNCHANGED external
        /\ Goes(q, "settle")
        /\ UNCHANGED <<protected, open, status, mode, admission, turn, codex, asked>>

\* The batch is counted and the claim released.
Settle(q) ==
    LET b == request[q].batch
    IN  /\ request[q].at = "settle"
        /\ status' = [status EXCEPT ![b] =
              IF Doubtful(b) # {} THEN "reconciliation_required"
              ELSE IF Ready(b) # {} THEN "executing"
              ELSE IF \A t \in Threads : entry[b][t] = "succeeded" THEN "succeeded" ELSE "partial"]
        /\ claim' = Nobody
        /\ request' = [request EXCEPT ![q] = Away]
        /\ UNCHANGED <<threadRows, open, mode, entry, changed, waiters, turn, codex, asked>>

--------------------------------------------------------------------------------
(* The user, the console process, Codex, and its other clients.             *)

Protect(t) ==
    /\ protected' = IF t \in protected THEN protected \ {t} ELSE protected \union {t}
    /\ Revise(t)
    /\ UNCHANGED <<archiveState, external, open, status, mode, entry, admission, turn, request, codex, asked>>

\* The console dies: previews are not saved, requests are gone, and so is
\* whoever would release the claim.
Crash ==
    /\ \E q \in Requests : request[q] # Away
    /\ request' = [q \in Requests |-> Away]
    /\ claim' = IF claim \in Requests THEN Orphan ELSE claim
    /\ LET lost == {b \in Batches : status[b] = "previewing"}
       IN  /\ status' = [b \in Batches |-> IF b \in lost THEN "none" ELSE status[b]]
           /\ entry' = [b \in Batches |-> [t \in Threads |-> IF b \in lost THEN "absent" ELSE entry[b][t]]]
    /\ UNCHANGED <<threadRows, open, mode, changed, waiters, turn, codex, asked>>

\* Whoever looks after the machine removes the claim of a dead process.
OrphanRemoved ==
    /\ claim = Orphan /\ claim' = Nobody
    /\ UNCHANGED <<threadRows, open, batchRows, waiters, turn, request, codex, asked>>

CodexActs(t, m) ==
    /\ <<t, m>> \in rpc /\ rpc' = rpc \ {<<t, m>>}
    /\ archived' = IF m = "archive" THEN archived \union {t} ELSE archived \ {t}
    /\ UNCHANGED <<threadRows, open, batchRows, admission, turn, request, unmapped, grown, asked>>

CodexFails(t, m) ==
    /\ <<t, m>> \in rpc /\ rpc' = rpc \ {<<t, m>>}
    /\ UNCHANGED <<threadRows, open, batchRows, admission, turn, request, archived, unmapped, grown, asked>>

OutsideTurn(t) ==
    /\ "turn" \in Outside
    /\ unmapped' = unmapped \union {t}
    /\ Grow(t)
    /\ UNCHANGED <<threadRows, open, batchRows, admission, turn, request, archived, rpc, asked>>

OutsideMove(t) ==
    /\ \/ /\ "archive" \in Outside
          /\ archived' = archived \union {t}
       \/ /\ "unarchive" \in Outside
          /\ archived' = archived \ {t}
    /\ UNCHANGED <<threadRows, open, batchRows, admission, turn, request, unmapped, grown, rpc, asked>>

Turns(t) ==
    \/ Account(t) \/ Admit(t) \/ TicketAdmits(t) \/ TicketExpires(t) \/ Dispatch(t)
    \/ DispatchRefused(t) \/ ProviderCompletes(t) \/ EndTurn(t) \/ Accept(t)

Plans(b) ==
    \/ \E m \in Modes : PlanStarts(b, m)
    \/ \E t \in Threads : PlanFinds(b, t) \/ PlanSkips(b, t)
    \/ PlanSaved(b) \/ PlanExpires(b)

Executes(q) ==
    \/ \E b \in Batches : ExecuteStarts(q, b)
    \/ CheckPasses(q) \/ CheckRefuses(q) \/ InspectRefuses(q) \/ Intend(q)
    \/ NotAsPreviewed(q) \/ Reconciles(q) \/ StaysInDoubt(q) \/ Ask(q) \/ Confirm(q) \/ Doubt(q) \/ Settle(q)

World(t) ==
    \/ Protect(t) \/ OutsideTurn(t) \/ OutsideMove(t)
    \/ \E m \in Modes : CodexActs(t, m) \/ CodexFails(t, m)

Next ==
    \/ \E t \in Threads : Turns(t) \/ World(t)
    \/ \E b \in Batches : Plans(b)
    \/ \E q \in Requests : Executes(q)
    \/ Crash \/ OrphanRemoved

Spec == Init /\ [][Next]_vars

--------------------------------------------------------------------------------
\* A thread is between two states exactly while one entry is under way or in
\* doubt, however many batches name the thread and requests work on them:
\* nobody else can move it, settle it, or take it for settled.
OneBatchMoves ==
    \A t \in Threads :
       LET movers == {b \in Batches : entry[b][t] \in Pending}
       IN  /\ \A b, c \in movers : b = c
           /\ archiveState[t] \in {"active", "archived"} <=> movers = {}
           /\ \A b \in movers : archiveState[t] \in {Moving(mode[b]), "unknown"}

\* While an agent's turn runs on a thread, the thread is in use: no archive
\* has begun to move it, although the agent was told that it may go on before
\* it got its claim and the console looked at it before it got its own.
TurnsKeepTheirThread ==
    \A t \in Threads : turn[t] = "running" => archiveState[t] = "active" /\ claim = t

\* Codex is asked at most once on behalf of an entry: a lost answer, a dead
\* console and a request sent again lead to a look, never to a second request
\* (docs/project-console.md:79).
AskedOnce == \A b \in Batches, t \in Threads : asked[b][t] <= 1

\* What the user confirmed is what is moved: at the moment the intent is
\* saved the thread has no open work, no turn has been added to it, and Codex
\* has it where the preview saw it.
MovesAsPreviewed ==
    \A b \in Batches, t \in Threads :
       entry[b][t] = "ready" /\ entry'[b][t] = "executing"
          => /\ t \notin open /\ t \notin grown[b]
             /\ (t \in archived) <=> (mode[b] = "restore")

MovesWhatWasPreviewed == [][MovesAsPreviewed]_vars

\* An archived thread is one that Codex has archived, as long as nobody else
\* moves threads (proved under that assumption).
ArchivedInCodex ==
    \A t \in Threads :
       /\ archiveState[t] = "archived" => t \in archived
       /\ archiveState[t] = "active" => t \notin archived

--------------------------------------------------------------------------------
(***************************************************************************)
(* What the properties rest on (proved in ThreadArchive_proofs).           *)
(***************************************************************************)
ClaimsAreHeld ==
    /\ \A q \in Requests : request[q] # Away =>
          claim = q /\ status[request[q].batch] \notin {"none", "previewing"}
    /\ \A t \in Threads : turn[t] \in {"admitted", "running", "ended"} => claim = t

\* What a request found when it looked still holds at its next step.
EntryIsAsFound(r) ==
    LET found == entry[r.batch][r.thread]
    IN  /\ r.at \in {"check", "inspect"} =>
              IF r.again THEN found \in Pending ELSE found = "ready"
        /\ r.at = "inspect" => r.thread \notin open
        /\ r.at = "inspect" /\ ~r.again =>
              archiveState[r.thread] = Before(mode[r.batch])
        /\ r.at \in {"ask", "asked"} => found = "executing"
        /\ r.at = "ask" => asked[r.batch][r.thread] = 0

RequestsSeeTheirEntry == \A q \in Requests : request[q] # Away => EntryIsAsFound(request[q])

UntouchedIsUnasked ==
    \A b \in Batches, t \in Threads :
       /\ status[b] \in {"none", "previewing"} =>
             entry[b][t] \in {"absent", "ready", "skipped"} /\ asked[b][t] = 0
       /\ entry[b][t] \in {"absent", "ready"} => asked[b][t] = 0

\* With no other client that moves threads, what Codex has follows the rows,
\* or will when it gets to what it was asked.
Unmoved(t, m) == (t \in archived) <=> (m = "restore")

MovesUnderWay ==
    \A t \in Threads, m \in Modes : <<t, m>> \in rpc =>
       /\ Unmoved(t, m)
       /\ \E b \in Batches : entry[b][t] \in Pending /\ mode[b] = m

NotYetAsked ==
    \A q \in Requests : request[q].at = "ask" =>
       /\ Unmoved(request[q].thread, mode[request[q].batch])
       /\ \A m \in Modes : <<request[q].thread, m>> \notin rpc

CodexFollows == ArchivedInCodex /\ MovesUnderWay /\ NotYetAsked

ArchiveInv ==
    /\ OneBatchMoves /\ ClaimsAreHeld /\ RequestsSeeTheirEntry /\ UntouchedIsUnasked
    /\ AskedOnce /\ TurnsKeepTheirThread

\* One entry moves a thread, Codex is asked once on its behalf, and no agent's turn has the
\* thread in use meanwhile.
ArchiveSparesTurns == OneBatchMoves /\ TurnsKeepTheirThread /\ AskedOnce
================================================================================
