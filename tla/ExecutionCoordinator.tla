------------------------ MODULE ExecutionCoordinator ------------------------
(***************************************************************************)
(* The admission tables of execution-coordinator.ts: execution_claims and  *)
(* execution_waiters, shared by every process through one SQLite file.     *)
(* Each method runs in one immediate transaction, so each is one action.   *)
(*                                                                         *)
(* A waiter's sequence number is modelled by the set of rows that were     *)
(* already queued when it was inserted; its expires_at_ms by membership in *)
(* `expired', which time may reach at any moment because every caller      *)
(* chooses its own wait.                                                   *)
(***************************************************************************)
EXTENDS Claims

CONSTANTS
    QueueCap,    \* rows execution_waiters may hold (64 in the code)
    MaxAgents,   \* no request asks for more concurrent agents than this
    MaxReaders   \* no request asks for more concurrent readers than this

ASSUME LimitsAssumption ==
    /\ QueueCap \in Nat /\ MaxAgents \in Nat /\ MaxReaders \in Nat
    /\ \A j \in Jobs : /\ Request[j].agentLimit <= MaxAgents
                       /\ Request[j].readerLimit <= MaxReaders

VARIABLES
    active,    \* jobs with a row in execution_claims
    waiters,   \* jobs with a row in execution_waiters
    ahead,     \* for each waiter, the rows with a smaller sequence
    expired,   \* waiters whose expires_at_ms has passed
    key,       \* the thread_key column of a job's row
    open,      \* coordinators that are neither closed nor dead
    ticketed,  \* jobs whose caller still holds an ExecutionTicket
    holding,   \* jobs whose caller still holds an ExecutionClaim
    working    \* jobs whose admitted operation is running

tables == <<active, waiters, ahead, expired, key>>
vars == <<active, waiters, ahead, expired, key, open, ticketed, holding, working>>

TypeOK ==
    /\ active \subseteq Jobs
    /\ waiters \subseteq Jobs
    /\ ahead \in [Jobs -> SUBSET Jobs]
    /\ expired \subseteq waiters
    /\ key \in [Jobs -> ThreadKeys]
    /\ open \subseteq Owners
    /\ ticketed \subseteq Jobs
    /\ holding \subseteq Jobs
    /\ working \subseteq Jobs

Init ==
    /\ active = {} /\ waiters = {} /\ expired = {}
    /\ ahead = [j \in Jobs |-> {}]
    /\ key = [j \in Jobs |-> NoThread]
    /\ open = Owners
    /\ ticketed = {} /\ holding = {} /\ working = {}

(***************************************************************************)
(* The decision.                                                           *)
(***************************************************************************)
IsAgent(j) == Request[j].kind = "agent"
AgentClaims == {j \in active : IsAgent(j)}
SameRootReaders(j) ==  \* mutant: nested checkouts are counted apart
    {k \in AgentClaims : Reads(k) /\ Request[k].root = Request[j].root}

ReadersBeside(j) ==
    {k \in AgentClaims : Reads(k) /\ Overlaps(Request[k].root, Request[j].root)}

LiveWaiters == waiters \ expired

\* blocker(candidate, input, sequence) with `prior' the live rows that come
\* before the candidate and k the thread keys with the candidate's filled in.
AtLimit(j) ==
    /\ IsAgent(j)
    /\ \/ Cardinality(AgentClaims) >= Request[j].agentLimit
       \/ Reads(j) /\ Cardinality(ReadersBeside(j)) >= Request[j].readerLimit

BlockedByClaims(j, k, prior) ==  \* mutant: waiters are not looked at
    (\E c \in active : Conflict(k, j, c)) \/ AtLimit(j)

Blocked(j, k, prior) ==
    \/ \E c \in active \union prior : Conflict(k, j, c)
    \/ AtLimit(j)

EveryOtherRow(j) == LiveWaiters \ {j}  \* mutant: sequences are not compared

\* "where sequence < ?" among the rows that have not expired.
PriorRows(j) == ahead[j] \ expired

\* count(*) < 64, after the expired rows are deleted.
HasRoom == Cardinality(LiveWaiters) < QueueCap

DeleteWaitersOnly(gone) ==  \* mutant: the clock keeps the rows
    /\ waiters' = waiters \ gone
    /\ UNCHANGED expired
    /\ ahead' = [j \in Jobs |-> IF j \in gone THEN {} ELSE ahead[j] \ gone]

\* Rows deleted from execution_waiters: nobody has them before it any more.
DeleteWaiters(gone) ==
    /\ waiters' = waiters \ gone
    /\ expired' = expired \ gone
    /\ ahead' = [j \in Jobs |-> IF j \in gone THEN {} ELSE ahead[j] \ gone]

OfOwner(o) == {j \in Jobs : Request[j].owner = o}

Idle(j) == j \notin active \union waiters \union ticketed \union holding

\* Rows that are gone have no thread key.
ForgetKeys(gone) == key' = [j \in Jobs |-> IF j \in gone THEN NoThread ELSE key[j]]

\* row() for a new row of j: only an agent turn resumes a provider thread.
\* The expired rows are purged in the same transaction.
KeyRow(j, t) ==
    /\ IsAgent(j) \/ t = NoThread
    /\ key' = [k \in Jobs |-> IF k = j THEN t
                              ELSE IF k \in expired THEN NoThread ELSE key[k]]

(***************************************************************************)
(* Callers.                                                                *)
(***************************************************************************)

\* acquire() succeeds and the caller, as run() does, starts its operation.
\* When it is blocked it throws, and the transaction rolls back with nothing
\* changed.
Acquire(j) ==
    /\ Request[j].owner \in open /\ Idle(j)
    /\ \E t \in ThreadKeys : KeyRow(j, t)
    /\ ~Blocked(j, key', LiveWaiters)
    /\ DeleteWaiters(expired)
    /\ active' = active \union {j}
    /\ holding' = holding \union {j}
    /\ working' = working \union {j}
    /\ UNCHANGED <<open, ticketed>>

\* enqueue(): expired rows go first, then the capacity is checked.
Enqueue(j) ==
    /\ Request[j].owner \in open /\ Idle(j)
    /\ HasRoom
    /\ \E t \in ThreadKeys : KeyRow(j, t)
    /\ waiters' = LiveWaiters \union {j}
    /\ expired' = {}
    /\ ahead' = [k \in Jobs |-> IF k = j THEN LiveWaiters
                                ELSE IF k \in expired THEN {} ELSE ahead[k] \ expired]
    /\ ticketed' = ticketed \union {j}
    /\ UNCHANGED <<active, open, holding, working>>

HasLiveTicket(j) == j \in ticketed /\ Request[j].owner \in open /\ j \in LiveWaiters

\* tryAcquire() moves the row from one table to the other; the operation starts.
Admit(j) ==
    /\ HasLiveTicket(j)
    /\ ~Blocked(j, key, PriorRows(j))
    /\ DeleteWaiters(expired \union {j})
    /\ ForgetKeys(expired)
    /\ active' = active \union {j}
    /\ ticketed' = ticketed \ {j}
    /\ holding' = holding \union {j}
    /\ working' = working \union {j}
    /\ UNCHANGED open

\* tryAcquire() returns undefined; it has still purged the expired rows.
StillBlocked(j) ==
    /\ HasLiveTicket(j)
    /\ Blocked(j, key, PriorRows(j))
    /\ DeleteWaiters(expired)
    /\ ForgetKeys(expired)
    /\ UNCHANGED <<active, open, ticketed, holding, working>>

CancelRow(j) ==  \* mutant: a ticket settles only while its row is there
    /\ j \in ticketed \intersect waiters /\ Request[j].owner \in open
    /\ DeleteWaiters({j})
    /\ ForgetKeys({j})
    /\ ticketed' = ticketed \ {j}
    /\ UNCHANGED <<active, open, holding, working>>

\* cancel(), either asked for or after tryAcquire() threw because the row has
\* expired or was purged by somebody else.
Cancel(j) ==
    /\ j \in ticketed /\ Request[j].owner \in open
    /\ DeleteWaiters({j})
    /\ ForgetKeys({j})
    /\ ticketed' = ticketed \ {j}
    /\ UNCHANGED <<active, open, holding, working>>

BindAnyThread(j, t) ==  \* mutant: another claim's thread is not looked for
    /\ j \in holding /\ Request[j].owner \in open /\ IsAgent(j)
    /\ key' = [key EXCEPT ![j] = t]
    /\ UNCHANGED <<active, waiters, ahead, expired, open, ticketed, holding, working>>

\* bindThread() of a held claim; it throws when another claim has the thread.
BindThread(j, t) ==
    /\ j \in holding /\ Request[j].owner \in open /\ IsAgent(j)
    /\ \A k \in active \ {j} : key[k] # t
    /\ key' = [key EXCEPT ![j] = t]
    /\ UNCHANGED <<active, waiters, ahead, expired, open, ticketed, holding, working>>

\* The operation ends, also when nobody is left to release its claim.
EndWork(j) ==
    /\ j \in working
    /\ working' = working \ {j}
    /\ UNCHANGED <<tables, open, ticketed, holding>>

ReleaseEarly(j) ==  \* mutant: released before the operation has ended
    /\ j \in holding /\ Request[j].owner \in open
    /\ active' = active \ {j}
    /\ holding' = holding \ {j}
    /\ ForgetKeys({j})
    /\ UNCHANGED <<waiters, ahead, expired, open, ticketed, working>>

Release(j) ==
    /\ j \in holding \ working /\ Request[j].owner \in open
    /\ active' = active \ {j}
    /\ holding' = holding \ {j}
    /\ ForgetKeys({j})
    /\ UNCHANGED <<waiters, ahead, expired, open, ticketed, working>>

CloseEverything(o) ==  \* mutant: claims go as well
    /\ o \in open
    /\ open' = open \ {o}
    /\ DeleteWaiters(waiters \intersect OfOwner(o))
    /\ ForgetKeys(OfOwner(o))
    /\ active' = active \ OfOwner(o)
    /\ ticketed' = ticketed \ OfOwner(o)
    /\ holding' = holding \ OfOwner(o)
    /\ UNCHANGED working

\* close() drops the owner's waiting rows and keeps its claims: a child of
\* theirs may still be running.  Its handles do nothing from here on.
Close(o) ==
    /\ o \in open
    /\ open' = open \ {o}
    /\ DeleteWaiters(waiters \intersect OfOwner(o))
    /\ ForgetKeys(waiters \intersect OfOwner(o))
    /\ ticketed' = ticketed \ OfOwner(o)
    /\ holding' = holding \ OfOwner(o)
    /\ UNCHANGED <<active, working>>

\* The owner's process dies: both tables keep its rows.
Crash(o) ==
    /\ o \in open
    /\ open' = open \ {o}
    /\ ticketed' = ticketed \ OfOwner(o)
    /\ holding' = holding \ OfOwner(o)
    /\ UNCHANGED <<tables, working>>

\* Time passes expires_at_ms of a waiting row.
Expire(j) ==
    /\ j \in LiveWaiters
    /\ expired' = expired \union {j}
    /\ UNCHANGED <<active, waiters, ahead, key, open, ticketed, holding, working>>

Poll(j) == Admit(j) \/ StillBlocked(j) \/ (j \notin LiveWaiters /\ Cancel(j))

Next ==
    \/ \E j \in Jobs :
          \/ Acquire(j) \/ Enqueue(j) \/ Admit(j) \/ StillBlocked(j) \/ Cancel(j)
          \/ EndWork(j) \/ Release(j) \/ Expire(j)
          \/ \E t \in Threads : BindThread(j, t)
    \/ \E o \in Owners : Close(o) \/ Crash(o)

Spec == Init /\ [][Next]_vars

\* A caller with a ticket polls every 100 ms; nothing else is assumed of it.
Fairness == \A j \in Jobs : WF_vars(Poll(j))
FairSpec == Spec /\ Fairness

\* What two of the properties assume besides: every wait comes to its end, or
\* operations end and run() releases their claims in its finally block.
TimePasses == \A j \in Jobs : WF_vars(Expire(j))
WorkEnds == \A j \in Jobs : WF_vars(EndWork(j)) /\ WF_vars(Release(j))

(***************************************************************************)
(* Properties.                                                             *)
(***************************************************************************)

\* No two operations that are really running touch the same agent, thread,
\* resource key or (unless both read) overlapping source.  Claims are never
\* stolen, so this holds after close() and after the owner's death too.
WorkIsCompatible == Compatible(key, working)

\* Why the next ones hold.  A handle and a running operation have a row of
\* their own in execution_claims, a row that waits is not also a claim, rows
\* waiting together are ordered, and the claims are compatible.
RowsBack == working \union holding \subseteq active
OneTable == active \intersect (waiters \union ticketed) = {}
RowsOrdered ==
    \A j, w \in waiters : j # w => j \in ahead[w] \/ w \in ahead[j]
AdmissionInv == RowsBack /\ OneTable /\ RowsOrdered /\ Compatible(key, active)

\* At most MaxAgents agent turns hold claims, however their processes and
\* their requests interleave, and counting the claims of dead owners.
AgentsWithinLimit == Cardinality(AgentClaims) <= MaxAgents

\* At most MaxReaders agents read any one source tree at a time, even with
\* nested checkouts, where the readers counted for one root are not those
\* counted for another.
ReadersOf(r) == {j \in AgentClaims : Reads(j) /\ <<r, Request[j].root>> \in Within}
ReadersWithinLimit == \A r \in Roots : Cardinality(ReadersOf(r)) <= MaxReaders

\* Work that runs together may run together: it does not conflict, and no source tree has
\* more readers than the limit.
SafeUse == WorkIsCompatible /\ ReadersWithinLimit

\* The waiting table never outgrows its capacity.
QueueWithinCap == Cardinality(waiters) <= QueueCap

\* "An earlier writer blocks later readers": a job that is admitted while a
\* live waiter it conflicts with stays behind was queued before that waiter.
NoOvertaking ==
    [][\A j \in active' \ active, w \in LiveWaiters \intersect waiters' :
          Conflict(key', j, w) => j \in ahead[w]]_vars

\* A caller that queued is not left waiting, whatever the running work does: it
\* is admitted, or its wait expires and it is told so, unless its own process
\* is gone.
TicketSettles == TimePasses => \A j \in Jobs : j \in ticketed ~> j \notin ticketed

\* While no wait expires and no process goes away, the queue serves everyone
\* whose only obstacle is a conflict: a stream of later arrivals cannot keep
\* a waiter out.
QueueServes ==
    WorkEnds /\ [](expired = {} /\ open = Owners)
       => \A j \in Jobs : j \in ticketed ~> j \notin ticketed

\* Whoever queues is answered, and in the end let in.
WaitersSettle == TicketSettles /\ QueueServes

\* Claims with their thread keys are exactly what SourceUse lets jobs do.
Promise == INSTANCE SourceUse WITH
    using <- active,
    key <- [j \in Jobs |-> IF j \in active THEN key[j] ELSE NoThread]
ImplementsSourceUse == Promise!Spec
=============================================================================
